---------------------------- MODULE MCCatalogue ----------------------------
(* From the catalogue to the prompt, for TLC: re-introspection (two names,  *)
(* one of them in two schemas), the choice of tables for a question, and    *)
(* the embeddings it is searched with.  Each behaviour is one of the three; *)
(* the variables of the others stay as they are.  At last, databases with   *)
(* up to two foreign keys are introspected, and statements are executed.    *)
EXTENDS Retrieval, TLC

CONSTANTS dbo, other, a, b, i1, i2

MCIntrospectors == {i1, i2}
A1 == [schema |-> dbo, name |-> a]
A2 == [schema |-> other, name |-> a]
B1 == [schema |-> dbo, name |-> b]
MCTables == {A1, A2, B1}
MCForeignKeys == {<<A1, B1>>, <<A2, B1>>}
MCWorlds == {[t \in MCTables |-> 0]}
Symmetry == Permutations(Introspectors)

VARIABLE which

-----------------------------------------------------------------------------
(* The choice of tables: three tables, u3 stored with a capital letter.     *)

MCLinked == {"u1", "u2", "u3"}

E(similarity, name, columns) ==
    [similarity |-> similarity, name |-> name, columns |-> columns, low |-> FALSE]
History(similarity, columns) == [E(similarity, 0, columns) EXCEPT !.low = TRUE]

Questions ==
    [of: [{"u1", "u2", "u3"} -> {E(0, 0, 0), History(90, 50), E(0, 50, 0), E(90, 100, 0)}],
     anchors: {{}, {"u1"}, {"u1", "u2"}},
     terms: {{}, {[table |-> "u1", exact |-> TRUE]}, {[table |-> "u2", exact |-> FALSE]}},
     samples: {{}, {"u2"}, {"u2", "u3"}}]

ASSUME QuestionsAssumption == Questions \subseteq Assembly!Question

AssemblyInit ==
    /\ question \in Questions
    /\ fks \in SUBSET {<<"u1", "u2">>, <<"u2", "u3">>, <<"u3", "u1">>}
                \cup {{<<"u1", "u1">>}, {<<"u1", "u1">>, <<"u1", "u2">>}}
    /\ Assembly!Init

-----------------------------------------------------------------------------
(* What a connector reports.  The name of A1's primary key can be taken.    *)

MCKeyColumns == {"x", "y"}
MCKeyNames == {"pk", "pk2", "pk3", "fk"}
ShortKeys == {<<"x">>, <<"y">>, <<"x", "y">>, <<"y", "x">>}

Primary(name, t, columns) == [name |-> name, table |-> t, columns |-> columns, refers |-> Null]
PrimaryKeys ==
    {{Primary("pk", A1, k), Primary("pk2", A2, <<"x">>), Primary("pk3", B1, l)} :
        k \in {<<"x">>, <<"x", "y">>}, l \in {<<"x">>, <<"y", "x">>}}

ForeignKeysTo(keys) ==
    [name: {"pk", "fk"}, table: MCTables, columns: ShortKeys, refers: keys]

Databases ==
    {db \in UNION {[dialect: {"postgresql", "sqlserver"},
                    keys: {keys \cup {k, l} : k, l \in ForeignKeysTo(keys)}] :
                        keys \in PrimaryKeys} :
        Connectors!IsDatabase(db)}

-----------------------------------------------------------------------------
AssemblyOff == /\ question = Null /\ fks = Null /\ generation = Null
               /\ stage = Null /\ context = Null /\ joins = Null

SuiteInit ==
    \/ which = "catalogue" /\ Init /\ Vectors!Init /\ AssemblyOff
       /\ database = Null /\ statement = Null
    \/ /\ which \in {"assembly", "vectors", "introspection", "statement"}
       /\ Init /\ Vectors!Init /\ sqlserver = FALSE
       /\ IF which = "assembly" THEN AssemblyInit ELSE AssemblyOff
       /\ IF which = "introspection" THEN database \in Databases ELSE database = Null
       /\ IF which = "statement" THEN statement \in Limits!Statements ELSE statement = Null

SuiteNext ==
    /\ \/ which = "catalogue" /\ Next /\ UNCHANGED <<assemblyVars, vectorVars>>
       \/ which = "assembly" /\ Assembly!Next /\ UNCHANGED <<vars, vectorVars>>
       \/ which = "vectors" /\ Vectors!Next /\ UNCHANGED <<vars, assemblyVars>>
    /\ UNCHANGED <<which, inputs>>

SuiteSpec == SuiteInit /\ [][SuiteNext]_<<which, inputs, vars, assemblyVars, vectorVars>>
=============================================================================
