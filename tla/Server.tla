------------------------------- MODULE Server -------------------------------
(***************************************************************************)
(* Parts of the server that share no state: its start, the connectors that *)
(* requests share, and the sessions of turns that build contexts.  Each    *)
(* behaviour is one of the three; the variables of the others stay as they *)
(* are.                                                                    *)
(***************************************************************************)
EXTENDS ConnectorRegistry

CONSTANTS
    Columns, Proxy, Dimensions, MaxRetries, MaxStops,   \* of Startup
    Turns, Resolvers, PoolSize, Retries, MaxFaults      \* of ContextSessions

VARIABLES which,
          dim, resized, store, seeded, target, pc, attempt, stops,
          turn, job, faults

Lifespan == INSTANCE Startup
Sessions == INSTANCE ContextSessions

ASSUME ServerAssumption ==
    /\ Proxy \in Columns
    /\ MaxRetries \in Nat \ {0} /\ MaxStops \in Nat
    /\ Resolvers \subseteq Sessions!Kinds /\ Retries \in Nat /\ MaxFaults \in Nat

startVars == <<dim, resized, store, seeded, target, pc, attempt, stops>>
sessionVars == <<turn, job, faults>>

SuiteInit ==
    /\ which \in {"startup", "registry", "sessions"}
    /\ Init /\ Sessions!Init
    /\ Lifespan!Init
    /\ which # "startup" => dim[Proxy] = (CHOOSE d \in Dimensions : TRUE) /\ target = dim[Proxy]

SuiteNext ==
    /\ \/ which = "startup" /\ Lifespan!Next /\ UNCHANGED <<vars, sessionVars>>
       \/ which = "registry" /\ Next /\ UNCHANGED <<startVars, sessionVars>>
       \/ which = "sessions" /\ Sessions!Next /\ UNCHANGED <<vars, startVars>>
    /\ UNCHANGED which

SuiteSpec == SuiteInit /\ [][SuiteNext]_<<which, vars, startVars, sessionVars>>

\* What goes on by itself in each of them.
FairSuiteSpec ==
    /\ SuiteSpec
    /\ WF_startVars(which = "startup" /\ Lifespan!StartupStep)
    /\ \A t \in Tasks : WF_vars(which = "registry" /\ Continue(t))
    /\ \A t \in Turns :
          WF_sessionVars(which = "sessions" /\ (Sessions!Proceed(t) \/ Sessions!Resolve(t)))

-----------------------------------------------------------------------------
\* Wherever starts stop, the next one finds columns of one dimension, and seeds that
\* are there once and together.
StartupIsSound == which = "startup" => Lifespan!StartupIsSound

\* What a context is assembled from was searched, whatever fails.
SourcesAreSearched == which = "sessions" => Sessions!TypeOK /\ Sessions!SourcesAreSearched

\* No sample database, however long it is away, and no stop keeps the server from
\* serving in the end.
StartEnds == which = "startup" ~> [](pc = "serving")

\* Sessions that wait for each other's connections all end.
SessionsAreReleased == Sessions!SessionsAreReleased
=============================================================================
