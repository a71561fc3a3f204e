--------------------------- MODULE Introspection ----------------------------
(***************************************************************************)
(* What introspect_tables of the two connectors reads of the keys of the   *)
(* customer's tables.  The views of the information schema name            *)
(* constraints, and the queries join them by these names: PostgreSQL lets  *)
(* two tables of a schema have constraints of one name, and on both        *)
(* systems two schemas may.  The columns of a key are not matched by their *)
(* position, so that a composite key gives every pair of its columns.      *)
(*                                                                         *)
(* A database is its dialect and its constraints, the primary keys (which  *)
(* refer to nothing) and the foreign keys, each to a primary key.          *)
(***************************************************************************)
EXTENDS Naturals, Sequences

CONSTANTS
    Tables,       \* records with a schema and a name
    Columns,
    Names,        \* of constraints
    Null

Keys == {s \in Seq(Columns) : s # <<>>}
PrimaryKey == [name: Names, table: Tables, columns: Keys, refers: {Null}]
ForeignKey == [name: Names, table: Tables, columns: Keys, refers: PrimaryKey]

ColumnsOf(key) == {key.columns[i] : i \in DOMAIN key.columns}
Schema(key) == key.table.schema
IsForeign(key) == key.refers # Null

\* What the systems themselves ensure.
IsDatabase(db) ==
    /\ db.keys \subseteq PrimaryKey \cup ForeignKey
    /\ \A k, l \in db.keys :
         k # l =>
           /\ k.name # l.name \/ Schema(k) # Schema(l)
                \/ (db.dialect = "postgresql" /\ k.table # l.table
                      /\ (IsForeign(k) \/ IsForeign(l)))
           /\ IsForeign(k) \/ IsForeign(l) \/ k.table # l.table
    /\ \A k \in db.keys :
         IsForeign(k) => k.refers \in db.keys /\ Len(k.columns) = Len(k.refers.columns)

\* k and l cannot be told apart by name and schema.
Alike(k, l) == k.name = l.name /\ Schema(k) = Schema(l)

-----------------------------------------------------------------------------

\* Columns flagged as primary key: k is the constraint, u its usage.  Only SQL Server
\* compares the table of the usage.
IsPrimary(db, t, c) ==
    \E k, u \in db.keys :
        /\ ~IsForeign(k) /\ Alike(k, u) /\ c \in ColumnsOf(u)
        /\ IF db.dialect = "sqlserver" THEN u.table = t ELSE k.table = t

\* Fault variant: the table asked for is not compared.
OfTable_Any(db, t, k, u) == k.table.schema = t.schema

\* The rows of table t: PostgreSQL asks for the constraint's, SQL Server for the usage's.
OfTable(db, t, k, u) == IF db.dialect = "sqlserver" THEN u.table = t ELSE k.table = t

\* g is a constraint whose referred columns are taken for those of k: on PostgreSQL
\* constraint_column_usage, by name and by the schema of the table referred to; on SQL
\* Server referential_constraints, by name.
Referred(db, k, g) ==
    /\ IsForeign(g) /\ g.name = k.name
    /\ db.dialect = "sqlserver" \/ g.refers.table.schema = Schema(k)

\* The foreign keys of introspect_tables for table t, a row for each pair of columns.
Joined(db, t) ==
    {p \in db.keys \X db.keys \X db.keys :
        /\ IsForeign(p[1]) /\ Alike(p[1], p[2]) /\ OfTable(db, t, p[1], p[2])
        /\ Referred(db, p[1], p[3])}
Reported(db, t) ==
    UNION {[name: {p[1].name}, column: ColumnsOf(p[2]), referred: {p[3].refers.table},
            referredColumn: ColumnsOf(p[3].refers)] : p \in Joined(db, t)}

-----------------------------------------------------------------------------
(* Properties of a database *)

Declared(k) ==
    {[name |-> k.name, column |-> k.columns[i], referred |-> k.refers.table,
      referredColumn |-> k.refers.columns[i]] : i \in DOMAIN k.columns}

\* No declared join is missing, except on PostgreSQL one to a table of another schema.
DeclaredIsReported(db) ==
    \A k \in db.keys :
        IsForeign(k) /\ (db.dialect = "sqlserver" \/ k.refers.table.schema = Schema(k))
            => Declared(k) \subseteq Reported(db, k.table)

\* Nor is any reported that is not declared, unless the key is composite or another
\* constraint, whatever its table and schema, has the same name.
ReportedIsDeclared(db) ==
    \A t \in Tables : \A r \in Reported(db, t) :
        LET named == {k \in db.keys : k.name = r.name} IN
        \/ \E k \in named : k.table = t /\ IsForeign(k) /\ r \in Declared(k)
        \/ \E k \in named : Len(k.columns) > 1
        \/ \E k, l \in named : k # l

\* A column that is no part of the primary key passes for one only on PostgreSQL, by a
\* foreign key of another table that has the primary key's name.
PrimaryIsTrue(db) ==
    \A t \in Tables, c \in Columns :
        LET own == {k \in db.keys : k.table = t /\ ~IsForeign(k)} IN
        /\ (\E k \in own : c \in ColumnsOf(k)) => IsPrimary(db, t, c)
        /\ IsPrimary(db, t, c) =>
             \/ \E k \in own : c \in ColumnsOf(k)
             \/ /\ db.dialect = "postgresql"
                /\ \E k \in own, l \in db.keys : IsForeign(l) /\ Alike(k, l)
=============================================================================
