----------------------------- MODULE Catalogue -----------------------------
(***************************************************************************)
(* The cached catalogue of one connection: introspect_and_cache, which     *)
(* deletes and makes it anew in one transaction, against the endpoints     *)
(* that add manual relationships and dictionary entries to it, the reader  *)
(* that links a question with it (schema_linker with its column cache),    *)
(* and a second introspection.                                             *)
(*                                                                         *)
(* The application's database runs each statement at READ COMMITTED: it    *)
(* sees what was committed when the statement began; a delete waits for    *)
(* the rows another transaction deletes, and an insert for the rows its    *)
(* foreign keys name.  The id of a row is the introspection that inserted  *)
(* it together with the table it stands for; a table has one column.       *)
(***************************************************************************)
EXTENDS Integers, FiniteSets

CONSTANTS
    Introspectors,      \* requests that introspect the connection
    Tables,             \* of the customer: records [schema, name]
    Dbo,                \* the schema SQL Server connections are limited to
    Backups,            \* names that contain "backup" or "bakup"
    ForeignKeys,        \* declared by the customer: pairs of tables
    Columns,            \* the column a table may have
    Allowed,            \* allowed_table_names; empty: no whitelist
    Null,
    MaxBatches,         \* bound: introspections that delete
    Worlds,             \* what the customer's database may hold at first
    MaxEdits,           \* bound: relationships and entries created
    MaxDdl              \* bound: changes in the customer's database

ASSUME TablesAssumption == ForeignKeys \subseteq Tables \X Tables /\ Allowed \subseteq Tables
                            /\ Worlds \subseteq [Tables -> Columns \cup {Null}]
ASSUME NullAssumption == Null \notin Columns
ASSUME BoundsAssumption == MaxBatches \in Nat /\ MaxEdits \in Nat /\ MaxDdl \in Nat

VARIABLES
    world,        \* the customer's tables: the column of each, Null if there is no table
    ddl,          \* changes left in the customer's database
    sqlserver,    \* the connector type
    tables,       \* committed rows of cached_tables with their columns
    rels,         \* committed rows of cached_relationships
    entries,      \* committed rows of dictionary_entries
    last,         \* last_introspected_at: the introspection committed last
    batch,        \* introspections begun
    edits,        \* edits made; each one labels what it creates
    intro,        \* the introspections
    editor,       \* an admin who declares a relationship
    reader,       \* a turn that links tables and loads their columns
    columnCache,  \* _column_cache
    overlapped    \* history variable: two introspections were under way at once

vars == <<world, ddl, sqlserver, tables, rels, entries, last, batch, edits, intro,
          editor, reader, columnCache, overlapped>>

Names == {t.name : t \in Tables}
Batches == 0..MaxBatches
Labels == 1..MaxEdits
Row == [batch: Batches, table: Tables, column: Columns]

\* Declared relationships have label 0.
Rel == [src: Row, tgt: Row, label: {0} \cup Labels]
DictEntry == [row: Row, label: Labels]

\* What an introspection remembers of them: names only.
RelSeen == [src: Names, tgt: Names, label: Labels]
EntrySeen == [name: Names, column: Columns, label: Labels]

NotRunning == [pc |-> "idle", batch |-> 0, relsSeen |-> {}, entriesSeen |-> {}, targets |-> {},
               doomed |-> {}, draft |-> {}, draftRels |-> {}, draftEntries |-> {}]

Work == [pc: {"idle", "dictionary", "delete", "wait", "scan", "relate", "commit"},
         batch: Batches, relsSeen: SUBSET RelSeen, entriesSeen: SUBSET EntrySeen,
         targets: SUBSET Row, doomed: SUBSET Row, draft: SUBSET Row,
         draftRels: SUBSET Rel, draftEntries: SUBSET DictEntry]

TypeOK ==
    /\ world \in [Tables -> Columns \cup {Null}]
    /\ ddl \in 0..MaxDdl /\ batch \in Batches /\ last \in Batches /\ edits \in 0..MaxEdits
    /\ sqlserver \in BOOLEAN /\ overlapped \in BOOLEAN
    /\ tables \subseteq Row /\ rels \subseteq Rel /\ entries \subseteq DictEntry
    /\ intro \in [Introspectors -> Work]
    /\ editor \in Rel \cup {Null}
    /\ reader = Null \/ reader.rows \subseteq Row
    /\ \A e \in columnCache : e.columns \subseteq Columns

-----------------------------------------------------------------------------
\* apply_sqlserver_filters; other connectors cache every schema they find.
Cached(t) ==
    \/ ~sqlserver
    \/ /\ t.schema = Dbo
       /\ t.name \notin Backups
       /\ Allowed = {} \/ t \in Allowed

\* What introspect_tables finds now, as the rows of introspection b.
Scanned(b) ==
    {[batch |-> b, table |-> t, column |-> world[t]] :
        t \in {u \in Tables : world[u] # Null /\ Cached(u)}}

\* The catalogue was introspected once; nothing was declared by hand so far.
Init ==
    /\ sqlserver \in BOOLEAN
    /\ world \in Worlds
    /\ tables = Scanned(0)
    /\ rels = {} /\ entries = {} /\ columnCache = {}
    /\ ddl = 0 /\ batch = 0 /\ last = 0 /\ edits = 0
    /\ intro = [i \in Introspectors |-> NotRunning]
    /\ editor = Null /\ reader = Null /\ overlapped = FALSE

At(i, pc) == intro[i].pc = pc
Running(i) == ~At(i, "idle")
Goes(i, r) == intro' = [intro EXCEPT ![i] = r]

\* Rows that an open transaction has deleted.
Locked == UNION {intro[i].doomed : i \in Introspectors}

catalogue == <<tables, rels, entries, last>>
others == <<editor, reader, edits>>
customer == <<world, ddl, sqlserver>>

-----------------------------------------------------------------------------
\* introspect_and_cache, statement by statement.  What it remembers first:
SeenRels == {[src |-> r.src.table.name, tgt |-> r.tgt.table.name, label |-> r.label] :
               r \in {s \in rels : s.label # 0}}
SeenEntries == {[name |-> e.row.table.name, column |-> e.row.column, label |-> e.label] :
                  e \in entries}

SnapshotRels(i) ==
    /\ At(i, "idle") /\ batch < MaxBatches
    /\ batch' = batch + 1
    /\ overlapped' = (overlapped \/ \E j \in Introspectors : Running(j))
    /\ Goes(i, [NotRunning EXCEPT !.pc = "dictionary", !.batch = batch', !.relsSeen = SeenRels])
    /\ UNCHANGED <<catalogue, others, customer, columnCache>>

SnapshotEntries(i) ==
    /\ At(i, "dictionary")
    /\ Goes(i, [intro[i] EXCEPT !.pc = "delete", !.entriesSeen = SeenEntries])
    /\ UNCHANGED <<catalogue, others, customer, columnCache, batch, overlapped>>

\* The rows the delete statement finds.
Deleted == tables

StartDelete(i) ==
    /\ At(i, "delete")
    /\ Goes(i, [intro[i] EXCEPT !.pc = "wait", !.targets = Deleted])
    /\ UNCHANGED <<catalogue, others, customer, columnCache, batch, overlapped>>

\* Rows another introspection has deleted meanwhile are skipped; rows it has
\* inserted were not found.
FinishDelete(i) ==
    /\ At(i, "wait") /\ intro[i].targets \cap Locked = {}
    /\ Goes(i, [intro[i] EXCEPT !.pc = "scan", !.targets = {},
                                !.doomed = intro[i].targets \cap tables])
    /\ UNCHANGED <<catalogue, others, customer, columnCache, batch, overlapped>>

\* The first pass over the customer's schemas inserts tables and columns.
Scan(i) ==
    /\ At(i, "scan")
    /\ Goes(i, [intro[i] EXCEPT !.pc = "relate", !.draft = Scanned(intro[i].batch)])
    /\ UNCHANGED <<catalogue, others, customer, columnCache, batch, overlapped>>

\* table_map, without the column.
RowsNamed(draft, name) == {r \in draft : r.table.name = name}

\* Fault variant: only the schema the lookup starts with is searched.
Candidates_DboOnly(draft, name) == {r \in RowsNamed(draft, name) : r.table.schema = Dbo}

\* On SQL Server the schema is dbo, the only one; otherwise the schemas are
\* gone through in their order, so that the first one with the name is taken.
Candidates(draft, name) == RowsNamed(draft, name)
First(rows) == CHOOSE r \in rows : r.table.schema = Dbo \/ \A s \in rows : s.table.schema # Dbo

\* col_map: a later schema overwrites the entry of an earlier one.
Last(rows) == CHOOSE r \in rows : r.table.schema # Dbo \/ \A s \in rows : s.table.schema = Dbo

RestoredRels(draft, seen) ==
    {[src |-> First(Candidates(draft, m.src)), tgt |-> First(Candidates(draft, m.tgt)),
      label |-> m.label] :
        m \in {n \in seen : Candidates(draft, n.src) # {} /\ Candidates(draft, n.tgt) # {}}}

ColumnRows(draft, e) == {r \in RowsNamed(draft, e.name) : r.column = e.column}

RestoredEntries(draft, seen) ==
    {[row |-> Last(ColumnRows(draft, e)), label |-> e.label] :
        e \in {f \in seen : ColumnRows(draft, f) # {}}}

\* The second pass: a foreign key is kept when its source is still there and
\* both its tables were inserted by the first pass.
DeclaredRels(draft, now) ==
    {[src |-> p[1], tgt |-> p[2], label |-> 0] :
        p \in {q \in draft \X draft :
                 /\ <<q[1].table, q[2].table>> \in ForeignKeys
                 /\ \E u \in now : u.table = q[1].table}}

\* The update of last_introspected_at locks the connection's row up to the end
\* of the transaction; the endpoint clears the column cache before it.
Relate(i) ==
    LET draft == intro[i].draft IN
    /\ At(i, "relate") /\ \A j \in Introspectors : ~At(j, "commit")
    /\ Goes(i, [intro[i] EXCEPT !.pc = "commit",
         !.draftRels = DeclaredRels(draft, Scanned(intro[i].batch))
                         \cup RestoredRels(draft, intro[i].relsSeen),
         !.draftEntries = RestoredEntries(draft, intro[i].entriesSeen)])
    /\ columnCache' = {}
    /\ UNCHANGED <<catalogue, others, customer, batch, overlapped>>

\* get_db commits: what refers to a deleted row goes with it.
Commit(i) ==
    LET r == intro[i] IN
    /\ At(i, "commit")
    /\ tables' = (tables \ r.doomed) \cup r.draft
    /\ rels' = {x \in rels : x.src \notin r.doomed /\ x.tgt \notin r.doomed} \cup r.draftRels
    /\ entries' = {e \in entries : e.row \notin r.doomed} \cup r.draftEntries
    /\ last' = r.batch
    /\ Goes(i, NotRunning)
    /\ UNCHANGED <<others, customer, columnCache, batch, overlapped>>

\* The connector or the database fails, or the request is cancelled.
Rollback(i) ==
    /\ Running(i)
    /\ Goes(i, NotRunning)
    /\ UNCHANGED <<catalogue, others, customer, columnCache, batch, overlapped>>

-----------------------------------------------------------------------------
\* create_manual_relationship finds both tables by name; with two of one name
\* it fails, which changes nothing.
Declare ==
    /\ editor = Null /\ edits < MaxEdits /\ edits' = edits + 1
    /\ \E s \in tables, t \in tables :
         /\ RowsNamed(tables, s.table.name) = {s} /\ RowsNamed(tables, t.table.name) = {t}
         /\ editor' = [src |-> s, tgt |-> t, label |-> edits']
    /\ UNCHANGED <<catalogue, customer, columnCache, batch, overlapped, intro, reader>>

\* Its insert waits while one of them is being deleted, and fails once it is.
InsertRel ==
    /\ editor # Null /\ {editor.src, editor.tgt} \cap Locked = {}
    /\ editor' = Null
    /\ rels' = IF {editor.src, editor.tgt} \subseteq tables THEN rels \cup {editor} ELSE rels
    /\ UNCHANGED <<tables, entries, last, customer, columnCache, batch, overlapped, intro,
                   reader, edits>>

\* delete_manual_relationship deletes any relationship whose id it is given.
DeleteRel ==
    /\ \E r \in rels : {r.src, r.tgt} \cap Locked = {} /\ rels' = rels \ {r}
    /\ UNCHANGED <<tables, entries, last, customer, columnCache, batch, overlapped, intro,
                   editor, reader, edits>>

CreateEntry ==
    /\ edits < MaxEdits /\ edits' = edits + 1
    /\ \E r \in tables \ Locked : entries' = entries \cup {[row |-> r, label |-> edits']}
    /\ UNCHANGED <<tables, rels, last, customer, columnCache, batch, overlapped, intro,
                   editor, reader>>

DeleteEntry ==
    /\ \E e \in entries : e.row \notin Locked /\ entries' = entries \ {e}
    /\ UNCHANGED <<tables, rels, last, customer, columnCache, batch, overlapped, intro,
                   editor, reader, edits>>

-----------------------------------------------------------------------------
\* Fault variant: the cache is keyed by the name of the table.
ColumnKey_Name(r) == r.table.name

\* The id of the row.
ColumnKey(r) == r

\* get_columns_for_tables reads what the cache does not hold.  (The entries of
\* different tables do not depend on each other: the question links them all.)
Link ==
    LET cached == {r \in tables : \E e \in columnCache : e.key = ColumnKey(r)} IN
    /\ reader = Null /\ tables # cached
    /\ reader' = [rows |-> tables \ cached, columns |-> Null]
    /\ UNCHANGED <<catalogue, customer, columnCache, batch, overlapped, intro, editor, edits>>

\* The select: a row deleted since then has no columns any more.
ReadColumns ==
    /\ reader # Null /\ reader.columns = Null
    /\ reader' = [rows |-> reader.rows, columns |->
         {[key |-> ColumnKey(r), columns |-> IF r \in tables THEN {r.column} ELSE {}] :
             r \in reader.rows}]
    /\ UNCHANGED <<catalogue, customer, columnCache, batch, overlapped, intro, editor, edits>>

StoreColumns ==
    /\ reader # Null /\ reader.columns # Null
    /\ reader' = Null
    /\ columnCache' = columnCache \cup reader.columns
    /\ UNCHANGED <<catalogue, customer, batch, overlapped, intro, editor, edits>>

\* 30 minutes.
ColumnsExpire ==
    /\ columnCache # {} /\ columnCache' = {}
    /\ UNCHANGED <<catalogue, customer, batch, overlapped, intro, editor, reader, edits>>

\* A table is created, dropped, or gets another column.
Ddl ==
    /\ ddl < MaxDdl /\ ddl' = ddl + 1
    /\ \E t \in Tables, c \in Columns \cup {Null} :
         c # world[t] /\ world' = [world EXCEPT ![t] = c]
    /\ UNCHANGED <<sqlserver, catalogue, columnCache, batch, overlapped, intro, others>>

Step(i) ==
    \/ SnapshotRels(i) \/ SnapshotEntries(i) \/ StartDelete(i) \/ FinishDelete(i)
    \/ Scan(i) \/ Relate(i) \/ Commit(i)

Next ==
    \/ \E i \in Introspectors : Step(i) \/ Rollback(i)
    \/ Declare \/ InsertRel \/ DeleteRel \/ CreateEntry \/ DeleteEntry
    \/ Link \/ ReadColumns \/ StoreColumns \/ ColumnsExpire
    \/ Ddl

Spec == Init /\ [][Next]_vars

-----------------------------------------------------------------------------
\* As long as introspections do not overlap, the catalogue has every table,
\* every manual relationship and every dictionary entry once.  (When they do,
\* introspect_and_cache leaves the rows of both behind.)
CachedOnce ==
    ~overlapped =>
        /\ \A r, s \in tables : r.table = s.table => r = s
        /\ \A r, s \in rels : r.label = s.label /\ r.label # 0 => r = s
        /\ \A e, f \in entries : e.label = f.label => e = f

\* get_columns_for_tables never gives a table that is in the catalogue other
\* columns than its own, although introspect_connection clears the cache before
\* it commits and a reader may store what it read before that.
ColumnsAreTheirs ==
    LET read == IF reader = Null \/ reader.columns = Null THEN {} ELSE reader.columns IN
    \A e \in columnCache \cup read, r \in tables : e.key = ColumnKey(r) => e.columns = {r.column}

\* The catalogue and the cache of its columns, whoever introspects, edits and reads.
CatalogueIsSound == TypeOK /\ CachedOnce /\ ColumnsAreTheirs

\* Introspection i commits in this step.
Commits(i) == At(i, "commit") /\ last' = intro[i].batch
Has(draft, name) == RowsNamed(draft, name) # {}

\* An introspection that commits takes away a manual relationship only if one
\* of the names it connects is gone from the customer's database, or if it was
\* declared after the snapshot.
RelLostOnlyUnseen ==
    [][\A i \in Introspectors : Commits(i) =>
         \A r \in {s \in rels : s.label # 0} :
           \/ \E s \in rels' : /\ s.label = r.label
                               /\ s.src.table.name = r.src.table.name
                               /\ s.tgt.table.name = r.tgt.table.name
           \/ ~Has(intro[i].draft, r.src.table.name) \/ ~Has(intro[i].draft, r.tgt.table.name)
           \/ \A m \in intro[i].relsSeen : m.label # r.label]_vars

\* Likewise a dictionary entry stays with a column of its name in a table of
\* its name, and is lost only if there is none or if it was added after the
\* snapshot.
EntryLostOnlyUnseen ==
    [][\A i \in Introspectors : Commits(i) =>
         \A e \in entries :
           \/ \E f \in entries' : /\ f.label = e.label /\ f.row.column = e.row.column
                                  /\ f.row.table.name = e.row.table.name
           \/ \A r \in intro[i].draft :
                r.table.name # e.row.table.name \/ r.column # e.row.column
           \/ \A m \in intro[i].entriesSeen : m.label # e.label]_vars

\* What manual work is lost to a re-introspection is lost for a reason.
ManualWorkSurvives == RelLostOnlyUnseen /\ EntryLostOnlyUnseen
=============================================================================
