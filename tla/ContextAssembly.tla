-------------------------- MODULE ContextAssembly ---------------------------
(***************************************************************************)
(* Which tables of the catalogue a question's context gets: the search and *)
(* scoring of semantic/schema_linker.py and semantic/relevance_scorer.py,  *)
(* and the stages of semantic/context_builder.py that add the tables which *)
(* glossary terms, foreign keys and sample queries call for.  Each stage   *)
(* reads the database anew, and the catalogue may be re-introspected       *)
(* between two of them: its tables then have other ids.                    *)
(*                                                                         *)
(* A question is what it finds: for each table the similarity of its       *)
(* vector and the scores of its name and columns (in percent), the anchor  *)
(* tables its words force, the tables of the matching terms and samples.   *)
(***************************************************************************)
EXTENDS Naturals, FiniteSetsExt

CONSTANTS
    Tables,
    Lowercase,     \* those whose stored name has no capital letter
    MaxTables,     \* settings.max_context_tables
    MaxVector,     \* tables the vector search returns: limit=15
    MaxBoosting,   \* tables whose neighbours are boosted: [:5]
    MaxExtra       \* foreign-key neighbours added: max_extra=5

VARIABLES
    question,      \* what the question finds
    fks,           \* foreign keys of the catalogue, pairs of tables
    generation,    \* of the catalogue: how often it was re-introspected
    stage,
    context,       \* tables: of each id in the list, how often it is there
    joins          \* relationships: the foreign keys of the prompt

vars == <<question, fks, generation, stage, context, joins>>

Generations == {0, 1}
Ids == Tables \X Generations

\* low: a history or audit table (LOW_SIGNAL_TABLES).
Evidence == [similarity: 0..100, name: {0, 50, 100}, columns: {0, 25, 50}, low: BOOLEAN]

\* A term names its tables as somebody wrote them, in the case of the catalogue or not.
Reference == [table: Tables, exact: BOOLEAN]

Question == [of: [Tables -> Evidence], anchors: SUBSET Tables,
             terms: SUBSET Reference, samples: SUBSET Tables]

\* The questions and foreign keys are chosen by the module that instantiates this one.
Init ==
    /\ generation = 0
    /\ stage = "search"
    /\ context = [id \in Ids |-> 0]
    /\ joins = {}

-----------------------------------------------------------------------------
(* Scores *)

\* The sets of the n best, whichever way the sort breaks ties.
TopSets(candidates, score, n) ==
    {top \in kSubset(IF Cardinality(candidates) < n THEN Cardinality(candidates) ELSE n,
                     candidates) :
        \A t \in top, u \in candidates \ top : score[t] >= score[u]}

\* Columns say less for a low-signal table.
ColumnScore(e) == IF e.low /\ e.columns > 10 THEN 10 ELSE e.columns

KeywordScore(t) ==
    LET e == question.of[t] IN
    Max({e.name, ColumnScore(e)} \cup (IF t \in question.anchors THEN {100} ELSE {}))

\* ScoredItem.final_score, times ten.
FinalScore(similar, related) ==
    [t \in Tables |-> 5 * (IF t \in similar THEN question.of[t].similarity ELSE 0)
                        + 3 * KeywordScore(t) + 2 * (IF t \in related THEN 100 ELSE 0)]

\* The tables that a foreign key joins with these, in either direction.
Neighbours(ts) ==
    ({pair[1] : pair \in {p \in fks : p[2] \in ts}}
        \cup {pair[2] : pair \in {p \in fks : p[1] \in ts}}) \ ts

-----------------------------------------------------------------------------
(* Stages *)

Now(ts) == {<<t, generation>> : t \in ts}
Listed == {id \in Ids : context[id] > 0}
Names == {id[1] : id \in Listed}
Similarity == [t \in Tables |-> question.of[t].similarity]
Found == {t \in Tables : Similarity[t] > 0}

With(ids) == [id \in Ids |-> context[id] + (IF id \in ids THEN 1 ELSE 0)]
Proceed(next) == stage' = next /\ UNCHANGED <<question, fks, generation>>

\* find_relevant_tables.  A vector search that fails, or a question without a
\* vector, leaves the keywords.
Search ==
    /\ stage = "search"
    /\ Proceed("load")
    /\ \E similar \in {{}} \cup TopSets(Found, Similarity, MaxVector) :
         LET scored == similar \cup {t \in Tables : KeywordScore(t) > 0} IN
         \E boosting \in TopSets(scored, FinalScore(similar, {}), MaxBoosting) :
            LET related == Neighbours(boosting) IN
            \E top \in TopSets(scored \cup related, FinalScore(similar, related), MaxTables) :
                context' = With(Now(top))
    /\ UNCHANGED joins

\* The rows of the ids that were selected, as far as they still exist.
Load ==
    /\ stage = "load"
    /\ Proceed("glossary")
    /\ context' = [id \in Ids |-> IF id[2] = generation THEN context[id] ELSE 0]
    /\ UNCHANGED joins

\* _fetch_tables_by_names ignores case; whether a name is missing is decided by its
\* spelling.
MissingTerms ==
    {r.table : r \in {q \in question.terms : ~q.exact \/ q.table \notin Names}}

InjectTerms ==
    /\ stage = "glossary"
    /\ Proceed("expand")
    /\ context' = With(Now(MissingTerms))
    /\ UNCHANGED joins

Unselected(ids) == ids \ Listed

\* Those the question has a word for.
Extras(neighbours) ==
    TopSets({id \in neighbours : question.of[id[1]].name > 0},
            [id \in Ids |-> question.of[id[1]].name], MaxExtra)

\* _expand_fk_neighbours.
Expand ==
    /\ stage = "expand"
    /\ Proceed("samples")
    /\ LET known == {id[1] : id \in {i \in Listed : i[2] = generation}}
           neighbours == Now(UNION {Neighbours({t}) : t \in known})
       IN \E extra \in Extras(Unselected(neighbours)) : context' = With(extra)
    /\ UNCHANGED joins

\* The names in the sample queries in lower case, against the stored ones.
MissingSamples == {t \in question.samples : t \notin Names \/ t \notin Lowercase}

InjectSamples ==
    /\ stage = "samples"
    /\ Proceed("relationships")
    /\ context' = With(Now(MissingSamples))
    /\ UNCHANGED joins

\* Fault variant: the ids from before the samples.
FinalIds_Early == {id \in Listed : id[1] \notin MissingSamples}

FinalIds == Listed

\* A list of at least two tables, one of which may be there twice.
AreSeveral(ids) == \E i, j \in ids : i # j \/ context[i] > 1

\* _get_relationships_between: the foreign keys between the tables of the context, none
\* where there is only one.
ResolveRelationships ==
    /\ stage = "relationships"
    /\ Proceed("done")
    /\ joins' = {pair \in Now(Tables) \X Now(Tables) :
                   /\ AreSeveral(FinalIds)
                   /\ <<pair[1][1], pair[2][1]>> \in fks
                   /\ {pair[1], pair[2]} \subseteq FinalIds}
    /\ UNCHANGED context

\* The catalogue is deleted and written anew, with the same tables.
Reintrospect ==
    /\ generation = 0
    /\ generation' = 1
    /\ UNCHANGED <<question, fks, stage, context, joins>>

Next ==
    \/ Search \/ Load \/ InjectTerms \/ Expand \/ InjectSamples \/ ResolveRelationships
    \/ Reintrospect

-----------------------------------------------------------------------------
(* Properties *)

\* Five stages append to one list: no table gets into it twice, where terms are
\* spelt and tables are named so that the names can be compared, and the catalogue
\* stays.
NoTableTwice ==
    (\A r \in question.terms : r.exact) /\ question.samples \subseteq Lowercase /\ generation = 0 =>
        \A id \in Ids : context[id] <= 1

\* What a term or a sample query refers to is in the context, whatever the scores say
\* and also after a re-introspection: under an old id or under a new one.
NamedTablesPresent ==
    stage \in {"relationships", "done"} =>
        /\ {r.table : r \in question.terms} \subseteq Names
        /\ question.samples \subseteq Names

\* The entries of the list.
Entries == UNION {{id} \X (1..context[id]) : id \in Ids}

\* The context stays small: what is searched, what is named, and MaxExtra neighbours.
SizeIsBounded ==
    Cardinality(Entries)
        <= MaxTables + MaxExtra + Cardinality(question.terms) + Cardinality(question.samples)

\* The prompt tells how to join any two tables of the context that a foreign key
\* joins, also those that came last, as long as both are of the present catalogue; of a
\* table that is alone it does not tell how it refers to itself.
JoinsCovered ==
    stage = "done" /\ generation = 0 =>
        \A p \in fks :
            /\ {p[1], p[2]} \subseteq Names
            /\ p[1] # p[2] \/ AreSeveral(Listed)
            => <<<<p[1], 0>>, <<p[2], 0>>>> \in joins
=============================================================================
