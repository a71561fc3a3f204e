----------------------------- MODULE Retrieval -----------------------------
(***************************************************************************)
(* What a question is linked with: the catalogue of its connection, the    *)
(* vectors it is searched with, the tables that get into its context, the  *)
(* keys that the connector reports, and the rows it answers a statement    *)
(* with.  They share no state; a statement and a customer's database are   *)
(* inputs, and stay as they are.                                           *)
(***************************************************************************)
EXTENDS Catalogue

CONSTANTS
    Callers, Texts, MaxMemory, Ttl, Attempts, MaxSwitches,   \* of VectorCache
    Linked, Lowercase, MaxTables, MaxVector, MaxBoosting, MaxExtra,   \* of ContextAssembly
    KeyColumns, KeyNames,                                    \* of Introspection
    MaxRows, MaxLimit, MaxSize, Fans                         \* of RowLimits

ASSUME VectorsAssumption ==
    MaxMemory \in Nat /\ Ttl \in Nat /\ Attempts \in Nat \ {0} /\ MaxSwitches \in Nat

ASSUME AssemblyAssumption ==
    /\ IsFiniteSet(Linked)
    /\ MaxTables \in Nat /\ MaxVector \in Nat /\ MaxBoosting \in Nat /\ MaxExtra \in Nat

ASSUME LimitsAssumption ==
    /\ MaxRows \in Nat /\ MaxLimit \in Nat /\ MaxSize \in Nat
    /\ Fans \subseteq Nat /\ Null \notin Nat

VARIABLES provider, since, late, memory, redis, call,
          question, fks, generation, stage, context, joins,
          database,    \* what is introspected, Null when nothing is
          statement    \* what is executed, Null when nothing is

Vectors == INSTANCE VectorCache WITH None <- Null
Assembly == INSTANCE ContextAssembly WITH Tables <- Linked
Connectors == INSTANCE Introspection WITH Columns <- KeyColumns, Names <- KeyNames
Limits == INSTANCE RowLimits WITH None <- Null

vectorVars == <<provider, since, late, memory, redis, call>>
assemblyVars == <<question, fks, generation, stage, context, joins>>
inputs == <<database, statement>>

AssemblySpec ==
    /\ question \in Assembly!Question /\ fks \in SUBSET (Linked \X Linked)
    /\ Assembly!Init /\ [][Assembly!Next]_assemblyVars
DatabaseSpec == Connectors!IsDatabase(database) /\ [][FALSE]_database
StatementSpec == statement \in Limits!Statements /\ [][FALSE]_statement

\* The memory of the process stays bounded, and vectors of an earlier provider run out.
VectorsRunOut == Vectors!TypeOK /\ Vectors!MemoryIsBounded /\ Vectors!OldVectorsRunOut

\* A question's context has each table once, the tables it must have, no more than it
\* may, and the joins between all of them.
ContextIsComplete ==
    question # Null => /\ Assembly!NoTableTwice /\ Assembly!NamedTablesPresent
                       /\ Assembly!SizeIsBounded /\ Assembly!JoinsCovered

\* The primary and foreign keys that are reported are those that are declared, for all
\* that the names of constraints tell.
KeysAreTrue ==
    database # Null =>
        /\ Connectors!DeclaredIsReported(database) /\ Connectors!ReportedIsDeclared(database)
        /\ Connectors!PrimaryIsTrue(database)

\* What a connector says of the rows it left out is so.
AnswerIsHonest == statement # Null => Limits!AnswerIsHonest(statement)
=============================================================================
