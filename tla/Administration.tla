--------------------------- MODULE Administration ---------------------------
(***************************************************************************)
(* What administrators do: accounts and tokens, the seed script run beside *)
(* the server, and documents imported for the same URL.  Each behaviour is *)
(* one of these; the variables of the others stay as they are.             *)
(***************************************************************************)
EXTENDS Access

CONSTANTS
    Rows, MaxEditions, MaxCatalogues,  \* of SeedScript
    Importers, MaxDocs, MaxChunks      \* of KnowledgeImport

ASSUME BoundsAssumption ==
    /\ MaxEditions \in Nat /\ MaxCatalogues \in Nat
    /\ MaxDocs \in Nat /\ MaxChunks \in Nat

VARIABLES which,
          db, tx, broken, pc, lists, known, todo, rejected, outcome,
          docs, inserted, job, later

Script == INSTANCE SeedScript
Import == INSTANCE KnowledgeImport

scriptVars == <<db, tx, broken, pc, lists, known, todo, rejected, outcome>>
importVars == <<docs, inserted, job, later>>

Off == "off"
ScriptOff == /\ db = Off /\ tx = Off /\ broken = Off /\ pc = Off /\ lists = Off
             /\ known = Off /\ todo = Off /\ rejected = Off /\ outcome = Off

\* Where no account is created or changed, the two that are seeded are there.
Seeded == Init /\ \A u \in Users : user[u] # Null

SuiteInit ==
    /\ Import!Init
    /\ \/ which = "access" /\ Init /\ ScriptOff
       \/ which = "script" /\ Seeded /\ Script!Init
       \/ which = "import" /\ Seeded /\ ScriptOff

SuiteNext ==
    /\ \/ which = "access" /\ Next /\ UNCHANGED <<scriptVars, importVars>>
       \/ which = "script" /\ Script!Next /\ UNCHANGED <<vars, importVars>>
       \/ which = "import" /\ Import!Next /\ UNCHANGED <<vars, scriptVars>>
    /\ UNCHANGED which

SuiteSpec == SuiteInit /\ [][SuiteNext]_<<which, vars, scriptVars, importVars>>

-----------------------------------------------------------------------------
\* Whatever the server introspects meanwhile and the database refuses, the rows of the
\* script with a key stay at one edition, unless one of them failed before it reached
\* the database, and a run that reports no failure has left them all.
ScriptIsSound ==
    which = "script" => Script!TypeOK /\ Script!KeyedTogether /\ Script!CleanRunIsComplete

\* A document imported again replaces what the import had seen of its URL.
ImportReplaces == Import!ImportReplaces
=============================================================================
