----------------------------- MODULE PromptText -----------------------------
(***************************************************************************)
(* Two sections of the prompt semantic/prompt_assembler.py writes: the      *)
(* relationships, which leave out what is said elsewhere, and the value    *)
(* mappings of the data dictionary, as semantic/glossary_resolver.py       *)
(* groups them and assemble_prompt merges them.  What the other sections   *)
(* say is text.                                                            *)
(*                                                                         *)
(* A loop is a function of the number of its rounds: what its variables    *)
(* are after that many.                                                    *)
(***************************************************************************)
EXTENDS Naturals, Sequences, SequencesExt

CONSTANTS
    Tables, Columns, Raws, Displays, Unnamed

\* An entry of the dictionary for a value of a column of a table, as it is read.
Entry == [table: Tables, column: Columns, raw: Raws, display: Displays]

\* A join from one column to another: source_table.source_column->target_table....
Join == Tables \X Tables

-----------------------------------------------------------------------------

SeenWith(s, join) == s.seen \cup {join}

\* A declared relationship is told unless it is inferred in either direction, or was told.
Told(s, join, inferred) ==
    IF join \in ToSet(inferred) \cup s.seen \/ Reverse(join) \in ToSet(inferred) THEN s
    ELSE [list |-> Append(s.list, join), seen |-> SeenWith(s, join)]

Unrepeated(declared, inferred) ==
    LET after[n \in 0..Len(declared)] ==
            IF n = 0 THEN [list |-> <<>>, seen |-> {}]
            ELSE Told(after[n - 1], declared[n], inferred)
    IN  after

\* unique_rels
UniqueRelationships(declared, inferred) == Unrepeated(declared, inferred)[Len(declared)].list

-----------------------------------------------------------------------------
\* The mapping of a column: of the entries with the same value the last one counts.
MappingOf(entries, table, column) ==
    LET own == SelectSeq(entries, LAMBDA e : e.table = table /\ e.column = column)
        last(raw) == CHOOSE i \in 1..Len(own) :
            own[i].raw = raw /\ \A j \in (i + 1)..Len(own) : own[j].raw # raw
    IN  [raw \in {own[i].raw : i \in 1..Len(own)} |-> own[last(raw)].display]

\* The columns with entries, in the order of their first ones.
Grouped(ids, id) == IF id \in ToSet(ids) THEN ids ELSE Append(ids, id)

Firsts(entries) ==
    LET after[n \in 0..Len(entries)] ==
            IF n = 0 THEN <<>>
            ELSE Grouped(after[n - 1], <<entries[n].table, entries[n].column>>)
    IN  after

\* resolve_dictionary: one dictionary per column.  The name of the table is "Will be
\* filled", and is not.
ResolveDictionary(entries) ==
    LET ids == Firsts(entries)[Len(entries)] IN
    [i \in 1..Len(ids) |->
        [table |-> Unnamed, column |-> ids[i][2],
         mapping |-> MappingOf(entries, ids[i][1], ids[i][2])]]

Line(d) == [tables |-> <<d.table>>, column |-> d.column, mapping |-> d.mapping]
AlsoOf(line, table) == [line EXCEPT !.tables = Append(@, table)]
Named(merged, column) == {i \in 1..Len(merged) : merged[i].column = column}

\* A mapping that is not the one of the first column of its name has a line of its own.
Disambiguated(lines, d) == Append(lines, Line(d))

\* The columns of one name are merged if they have one mapping.
MergedWith(s, d) ==
    LET i == CHOOSE i \in Named(s.merged, d.column) : TRUE IN
    IF Named(s.merged, d.column) = {}
    THEN [lines |-> s.lines, merged |-> Append(s.merged, Line(d))]
    ELSE IF s.merged[i].mapping = d.mapping
    THEN [lines |-> s.lines, merged |-> [s.merged EXCEPT ![i] = AlsoOf(@, d.table)]]
    ELSE [lines |-> Disambiguated(s.lines, d), merged |-> s.merged]

Merged(dictionaries) ==
    LET after[n \in 0..Len(dictionaries)] ==
            IF n = 0 THEN [lines |-> <<>>, merged |-> <<>>]
            ELSE MergedWith(after[n - 1], dictionaries[n])
    IN  after

\* The lines of the section: those for another mapping first, then one per name.
DictionaryLines(dictionaries) ==
    LET all == Merged(dictionaries)[Len(dictionaries)] IN all.lines \o all.merged

-----------------------------------------------------------------------------
(* Properties *)

\* Every declared join is told, as declared or as inferred and in one direction or
\* the other, and none is told twice.
JoinsAreTold(declared, inferred) ==
    LET unique == UniqueRelationships(declared, inferred) IN
    /\ \A i \in 1..Len(declared) :
           {declared[i], Reverse(declared[i])} \cap (ToSet(unique) \cup ToSet(inferred)) # {}
    /\ \A i, j \in 1..Len(unique) : unique[i] = unique[j] => i = j

\* No meaning of a value is lost: the mapping of every column with entries is in a
\* line for its name.
MappingsAreKept(entries) ==
    LET lines == DictionaryLines(ResolveDictionary(entries)) IN
    \A i \in 1..Len(entries) : \E n \in 1..Len(lines) :
        /\ lines[n].column = entries[i].column
        /\ lines[n].mapping = MappingOf(entries, entries[i].table, entries[i].column)
=============================================================================
