----------------------------- MODULE SeedScript -----------------------------
(***************************************************************************)
(* scripts/seed_sqlserver_metadata.py: run by hand, again after each edit  *)
(* of its lists, beside a server that may re-introspect the catalogue      *)
(* meanwhile.  All of it is one transaction, except that a failing         *)
(* dictionary entry or relationship rolls back what there is and goes on   *)
(* in a new one.  None of its lists is empty, as in the repository.        *)
(***************************************************************************)
EXTENDS Naturals, Sequences, Functions

CONSTANTS
    Rows,            \* the dictionary entries, and the relationships, of the lists
    MaxEditions,     \* bound: how often the lists are edited
    MaxCatalogues    \* bound: how often the catalogue is introspected

VARIABLES
    db,          \* what is committed
    tx,          \* what the open transaction sees
    broken,      \* a statement of the transaction has failed, it refuses the others
    pc,
    lists,       \* the edition of the lists that the script runs with
    known,       \* the catalogue whose ids the script has read
    todo,        \* rows not yet tried
    rejected,    \* a row was reported as failed
    outcome      \* what the last run printed

vars == <<db, tx, broken, pc, lists, known, todo, rejected, outcome>>

\* Glossary, metrics, samples and knowledge documents: rows with a key of their own.
Keyed == <<"glossary", "metrics", "samples", "knowledge">>
Lacking == MaxEditions + 1   \* a list that lacks rows of the edition it was seeded with

Database == [keyed: [Range(Keyed) -> 0..Lacking],      \* edition of its rows
             partial: BOOLEAN,                         \* history: the run that wrote them missed some
             dictionary: [Rows -> 0..MaxEditions],
             relationships: [Rows -> 0..MaxEditions],  \* how many copies
             ready: BOOLEAN,                           \* unique keys, id defaults
             catalogue: 0..MaxCatalogues]

TypeOK ==
    /\ db \in Database /\ tx \in Database
    /\ broken \in BOOLEAN /\ rejected \in BOOLEAN
    /\ pc \in {"idle", "ensure", "columns", "dictionary", "tables", "relationships",
               "commit"} \cup Range(Keyed)
    /\ lists \in 0..MaxEditions
    /\ known \in 0..MaxCatalogues
    /\ todo \subseteq Rows
    /\ outcome \in {"none", "done", "error"}

Nothing(catalogue, ready) ==
    [keyed |-> [k \in Range(Keyed) |-> 0], partial |-> FALSE, dictionary |-> [r \in Rows |-> 0],
     relationships |-> [r \in Rows |-> 0], ready |-> ready, catalogue |-> catalogue]

Init ==
    /\ db = Nothing(0, FALSE) /\ tx = db
    /\ broken = FALSE /\ rejected = FALSE
    /\ pc = "idle" /\ lists = 0 /\ known = 0 /\ todo = {} /\ outcome = "none"

\* Ends: conn.rollback and exit(1); or killed, which loses the transaction as well.
Quit(result) ==
    /\ tx' = db /\ broken' = FALSE
    /\ pc' = "idle" /\ todo' = {} /\ outcome' = result

\* main: connect, --purge or not.
Start ==
    /\ pc = "idle" /\ lists < MaxEditions
    /\ lists' = lists + 1
    /\ \E purge \in BOOLEAN :
           tx' = IF purge THEN Nothing(db.catalogue, db.ready) ELSE [db EXCEPT !.partial = FALSE]
    /\ pc' = "ensure"
    /\ rejected' = FALSE /\ outcome' = "none"
    /\ UNCHANGED <<db, broken, known, todo>>

\* _ensure_constraints; a key that existing rows violate ends the run.
Ensure ==
    /\ pc = "ensure"
    /\ \/ /\ tx' = [tx EXCEPT !.ready = TRUE]
          /\ pc' = Keyed[1]
          /\ UNCHANGED <<broken, todo, outcome>>
       \/ Quit("error")
    /\ UNCHANGED <<db, lists, known, rejected>>

\* _upsert_glossary, _upsert_metrics, _upsert_sample_queries, _upsert_knowledge: a
\* row that the database refuses is reported, and the transaction refuses all later ones.
Refused == broken' = TRUE /\ rejected' = TRUE /\ UNCHANGED tx

\* A row that fails before (it lacks a field, or a value cannot be sent) is reported as
\* well, but the transaction goes on with the others.  A document may have lost its
\* chunks by then.
Missed(k) ==
    /\ ~broken
    /\ tx' = [tx EXCEPT !.keyed[k] = Lacking, !.partial = TRUE]
    /\ rejected' = TRUE /\ UNCHANGED broken

Written(k) ==
    /\ ~broken
    /\ tx' = [tx EXCEPT !.keyed[k] = lists]
    /\ UNCHANGED <<broken, rejected>>

Upsert(i) ==
    /\ pc = Keyed[i]
    /\ Written(Keyed[i]) \/ Missed(Keyed[i]) \/ Refused
    /\ pc' = Append(Keyed, "columns")[i + 1]
    /\ UNCHANGED <<db, lists, known, todo, outcome>>

\* The select of _upsert_dictionary and _upsert_relationships is in no try: in a
\* broken transaction it ends the run.  Without a catalogue the rows are skipped.
Select(label, rows, skipped) ==
    /\ pc = label
    /\ IF broken THEN Quit("error")
       ELSE /\ pc' = IF tx.catalogue = 0 THEN skipped ELSE rows
            /\ todo' = Rows
            /\ UNCHANGED <<tx, broken, outcome>>
    /\ known' = tx.catalogue
    /\ UNCHANGED <<db, lists, rejected>>

\* A row needs the columns or tables it names, and what Ensure has made.
MayInsert == known = tx.catalogue /\ tx.ready

WithoutRow(r) == todo \ {r}

\* except: conn.execute("ROLLBACK"), the failure is printed, and on with the next row.
RowFails_Unreported(r) ==
    /\ tx' = db
    /\ todo' = todo \ {r} /\ UNCHANGED rejected

RowFails(r) ==
    /\ tx' = db
    /\ todo' = todo \ {r} /\ rejected' = TRUE

\* The catalogue that was read lacks the column or a table of the row: it is skipped,
\* which does not count as a failure.
RowSkipped(r) == todo' = WithoutRow(r) /\ UNCHANGED <<tx, rejected>>

InsertRow(label, after, inserted(_)) ==
    /\ pc = label
    /\ \/ \E r \in todo :
            \/ /\ MayInsert
               /\ tx' = inserted(r)
               /\ todo' = WithoutRow(r) /\ UNCHANGED rejected
            \/ RowSkipped(r) \/ RowFails(r)
          /\ UNCHANGED pc
       \/ todo = {} /\ pc' = after /\ UNCHANGED <<tx, todo, rejected>>
    /\ UNCHANGED <<db, broken, lists, known, outcome>>

UpsertDictionary ==
    InsertRow("dictionary", "tables",
              LAMBDA r : [tx EXCEPT !.dictionary[r] = lists])

\* ON CONFLICT DO NOTHING meets no unique key: every run adds a copy.
UpsertRelationship ==
    InsertRow("relationships", "commit",
              LAMBDA r : [tx EXCEPT !.relationships[r] = @ + 1])

\* conn.commit, whatever is left in the transaction.
Commit ==
    /\ pc = "commit"
    /\ db' = tx
    /\ pc' = "idle" /\ todo' = {} /\ outcome' = "done"
    /\ UNCHANGED <<tx, broken, lists, known, rejected>>

\* Killed; or an error that nothing catches, such as that of a handler which itself
\* prints a field the row lacks, or of a lost connection.
Kill ==
    /\ pc # "idle"
    /\ \E result \in {"none", "error"} : Quit(result)
    /\ UNCHANGED <<db, lists, known, rejected>>

\* The server re-introspects: other ids, the same entries.  It waits for the rows
\* the script has inserted and for the tables it has altered.
Free == /\ tx.ready = db.ready
        /\ tx.dictionary = db.dictionary /\ tx.relationships = db.relationships

Introspect ==
    /\ db.catalogue < MaxCatalogues
    /\ Free
    /\ db' = [db EXCEPT !.catalogue = @ + 1]
    /\ tx' = [tx EXCEPT !.catalogue = @ + 1]
    /\ UNCHANGED <<broken, pc, lists, known, todo, rejected, outcome>>

Next ==
    \/ Start \/ Ensure \/ UpsertDictionary \/ UpsertRelationship \/ Commit \/ Kill
    \/ \E i \in 1..Len(Keyed) : Upsert(i)
    \/ Select("columns", "dictionary", "tables")
    \/ Select("tables", "relationships", "commit")
    \/ Introspect

Spec == Init /\ [][Next]_vars

-----------------------------------------------------------------------------
(* Properties *)

\* The four keyed lists belong together: whatever the database refuses, and wherever the
\* script is killed, the server never finds them in different editions, unless a row
\* of them failed before it reached the database in the run that wrote them.
KeyedTogether ==
    ~db.partial => \A j, k \in Range(Keyed) : db.keyed[j] = db.keyed[k] /\ db.keyed[j] # Lacking

\* A run that reports no failed row and says it has committed all data has, the
\* rows apart whose columns or tables the catalogue lacks.
CleanRunIsComplete ==
    outcome = "done" /\ ~rejected =>
        /\ \A k \in Range(Keyed) : db.keyed[k] = lists
        /\ db.ready
=============================================================================
