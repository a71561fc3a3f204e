-------------------------- MODULE ContextSessions ---------------------------
(***************************************************************************)
(* The database sessions of a turn that builds its context: the request's  *)
(* own, which authentication has opened, the one of build_context, and one *)
(* for each resolver that context_builder starts with asyncio.gather       *)
(* (semantic/glossary_resolver.py, schema_linker.py).  All take their      *)
(* connections from one pool (db/session.py), keep them until they are     *)
(* closed or rolled back, and wait for each other when it is empty.        *)
(*                                                                         *)
(* After an error of the server the transaction of a session is aborted:   *)
(* it refuses every statement until it is rolled back.  The resolver of    *)
(* metrics is the one of the glossary over again.                          *)
(***************************************************************************)
EXTENDS Naturals, FiniteSets

CONSTANTS
    Turns,        \* concurrent turns
    Resolvers,    \* those of Kinds that are run
    PoolSize,     \* pool_size + max_overflow
    Retries,      \* of _retry_db
    MaxFaults     \* bound: errors of the server

VARIABLES
    turn,      \* what each turn is doing
    job,       \* its resolvers; they may outlive it
    faults

vars == <<turn, job, faults>>

Kinds == {"tables", "glossary", "knowledge", "samples"}

\* transaction: "none" also means that the session has no connection.
\* read: the source was searched, by keywords or with an answer by vectors.
Job == [pc: {"idle", "terms", "vector", "keywords", "done"},
        transaction: {"none", "open", "aborted"}, tries: 0..Retries, read: BOOLEAN]

NoJob == [pc |-> "idle", transaction |-> "none", tries |-> 0, read |-> FALSE]

TypeOK ==
    /\ turn \in [Turns -> {"idle", "login", "gather", "names", "expand", "samples", "assemble"}]
    /\ job \in [Turns -> [Resolvers -> Job]]
    /\ faults \in 0..MaxFaults

Init ==
    /\ turn = [t \in Turns |-> "idle"]
    /\ job = [t \in Turns |-> [r \in Resolvers |-> NoJob]]
    /\ faults = 0

Running(t) == {r \in Resolvers : job[t][r].pc \notin {"idle", "done"}}

\* Connections of the sessions of requests, of build_context and of resolvers.
InUse ==
      Cardinality({t \in Turns : turn[t] \notin {"idle", "login"}})
    + Cardinality({t \in Turns : turn[t] \in {"samples", "assemble"}})
    + Cardinality({p \in Turns \X Resolvers : job[p[1]][p[2]].transaction # "none"})
Free == InUse < PoolSize

\* Fault variant: a session waits for a connection as long as it takes.
WaitEnds_Never == FALSE

\* pool_timeout: 30 seconds with no connection to be had.
WaitEnds == ~Free

Fault == faults < MaxFaults /\ faults' = faults + 1

-----------------------------------------------------------------------------
(* Turns *)

\* The turn ends: its sessions are closed.  Resolvers still running go on.
Goto(t, pc) == turn' = [turn EXCEPT ![t] = pc]
Left(t) == [r \in Resolvers |-> IF r \in Running(t) THEN job[t][r] ELSE NoJob]
Ended(t) == Goto(t, "idle") /\ job' = [job EXCEPT ![t] = Left(t)]

Arrive(t) ==
    /\ turn[t] = "idle" /\ Running(t) = {}
    /\ Goto(t, "login")
    /\ UNCHANGED <<job, faults>>

\* A statement of the turn in a session that has no connection yet.
FirstStatement(t, succeeded) ==
    \/ Free /\ succeeded /\ UNCHANGED faults
    \/ Free /\ Ended(t) /\ Fault
    \/ WaitEnds /\ Ended(t) /\ UNCHANGED faults

\* Where each resolver starts: with or without an embedding of the question.
Begun(r, embedded) ==
    [NoJob EXCEPT !.pc = CASE embedded -> IF r = "glossary" THEN "terms" ELSE "vector"
                           [] ~embedded -> IF r = "samples" THEN "done" ELSE "keywords"]

\* get_current_user, in a session that stays open with the request; up to the gather
\* of _do_build_context.
Login(t) ==
    /\ turn[t] = "login"
    /\ FirstStatement(t,
          /\ Goto(t, "gather")
          /\ \E embedded \in BOOLEAN :
                job' = [job EXCEPT ![t] = [r \in Resolvers |-> Begun(r, embedded)]])

Gathered(t) ==
    /\ turn[t] = "gather" /\ Running(t) = {}
    /\ \/ Goto(t, "names")
       \/ Goto(t, "expand")
    /\ UNCHANGED <<job, faults>>

\* Tables that glossary terms call for, fetched in a session of their own.
FetchNames(t) ==
    /\ turn[t] = "names"
    /\ FirstStatement(t, Goto(t, "expand") /\ UNCHANGED job)

\* _finalize_tables_and_columns: the session of build_context is used at last.
Expand(t) ==
    /\ turn[t] = "expand"
    /\ FirstStatement(t, (\E next \in {"samples", "assemble"} : Goto(t, next)) /\ UNCHANGED job)

\* Those of the sample queries, again in one of their own.
FetchSamples(t) ==
    /\ turn[t] = "samples"
    /\ FirstStatement(t, Goto(t, "assemble") /\ UNCHANGED job)

\* Dictionary and relationships are read; the context is assembled, or not.
Assemble(t) ==
    /\ turn[t] = "assemble"
    /\ Ended(t)
    /\ \/ UNCHANGED faults
       \/ Fault

\* The 45 seconds are over, or the client has gone: the resolvers are cancelled too.
Cancel(t) ==
    /\ turn[t] # "idle"
    /\ Goto(t, "idle")
    /\ job' = [job EXCEPT ![t] = [r \in Resolvers |-> NoJob]]
    /\ UNCHANGED faults

-----------------------------------------------------------------------------
(* Resolvers *)

\* Left in order or by an exception, the session is closed; of a resolver whose turn
\* has ended nothing is left.
Closed(t, j) ==
    IF turn[t] # "gather" THEN NoJob
    ELSE [j EXCEPT !.pc = "done", !.transaction = "none", !.tries = 0]
Set(t, r, j) == job' = [job EXCEPT ![t][r] = j]

\* A statement in the session of a resolver, and what it makes of the job.
Statement(t, r, succeeded(_), failed(_)) ==
    LET j == job[t][r] IN
    \/ j.transaction = "aborted" /\ failed(j) /\ UNCHANGED faults
    \/ /\ j.transaction = "open" \/ (j.transaction = "none" /\ Free)
       /\ \/ succeeded([j EXCEPT !.transaction = "open"]) /\ UNCHANGED faults
          \/ failed([j EXCEPT !.transaction = "aborted"]) /\ Fault
    \/ j.transaction = "none" /\ WaitEnds /\ failed(j) /\ UNCHANGED faults

\* gather passes the first exception on and leaves the others running.
Raise(t, r) ==
    /\ Goto(t, "idle")
    /\ job' = [job EXCEPT ![t] = [Left(t) EXCEPT ![r] = NoJob]]

Finish(t, r, j) == Set(t, r, Closed(t, j)) /\ UNCHANGED turn
Continue(t, r, j) == Set(t, r, j) /\ UNCHANGED turn

\* _get_all_glossary_terms: all the rows, or what its cache still holds.
ReadTerms(t, r) ==
    LET after(j) == Continue(t, r, [j EXCEPT !.pc = "vector", !.read = TRUE]) IN
    /\ job[t][r].pc = "terms"
    /\ \/ after(job[t][r]) /\ UNCHANGED faults
       \/ Statement(t, r, after, LAMBDA j : Raise(t, r))

\* Fault variant: what the last attempt leaves is taken for the answer.
FallBack_Not(t, r, j) == Finish(t, r, j)

\* An empty list: resolve_knowledge searches by keywords, in the same session.
FallBack(t, r, j) ==
    IF r = "knowledge" THEN Continue(t, r, [j EXCEPT !.pc = "keywords"]) ELSE Finish(t, r, j)

\* _retry_db: again, in the same session and without a rollback.
Retry(t, r, j) ==
    IF j.tries < Retries THEN Continue(t, r, [j EXCEPT !.tries = @ + 1])
    ELSE FallBack(t, r, j)

\* find_relevant_tables rolls back, which gives the connection back, and goes on.
RollBack(t, r, j) == Continue(t, r, [j EXCEPT !.pc = "keywords", !.transaction = "none"])

SearchVectors(t, r) ==
    /\ job[t][r].pc = "vector"
    /\ Statement(t, r,
         LAMBDA j : \/ r # "tables" /\ Finish(t, r, [j EXCEPT !.read = TRUE])
                    \/ r = "tables" /\ Continue(t, r, [j EXCEPT !.pc = "keywords"])
                    \/ r = "knowledge" /\ Continue(t, r, [j EXCEPT !.pc = "keywords"]),
         LAMBDA j : IF r = "tables" THEN RollBack(t, r, j) ELSE Retry(t, r, j))

\* Of the glossary, the terms are all that is read.
SearchKeywords(t, r) ==
    LET found(j) == Finish(t, r, [j EXCEPT !.read = TRUE]) IN
    /\ job[t][r].pc = "keywords"
    /\ \/ r = "glossary" /\ found(job[t][r]) /\ UNCHANGED faults
       \/ Statement(t, r, found, LAMBDA j : Raise(t, r))

Resolve(t) ==
    \E r \in Resolvers : ReadTerms(t, r) \/ SearchVectors(t, r) \/ SearchKeywords(t, r)

Proceed(t) ==
    \/ Login(t) \/ Gathered(t)
    \/ FetchNames(t) \/ Expand(t) \/ FetchSamples(t) \/ Assemble(t)

Next == \E t \in Turns : Arrive(t) \/ Proceed(t) \/ Cancel(t) \/ Resolve(t)

Spec == Init /\ [][Next]_vars

\* Statements return or raise, and a wait for a connection is over after 30 s.
FairSpec == Spec /\ \A t \in Turns : WF_vars(Proceed(t) \/ Resolve(t))

-----------------------------------------------------------------------------
(* Properties *)

\* A failing vector search costs a context the answers by vectors only: where the
\* context is assembled, the tables, the glossary and the knowledge were searched,
\* although every session may fail at any statement.
SourcesAreSearched ==
    \A t \in Turns : turn[t] \in {"names", "expand", "samples", "assemble"} =>
        \A r \in Resolvers \ {"samples"} : job[t][r].read

\* Turns that hold a connection and wait for more of them can all wait for each
\* other; the end of the waits lets each turn and the resolvers it leaves behind
\* come to their end, also without the 45 seconds of the pipeline, which
\* generate_sql_only does without.
Busy(t) == turn[t] # "idle" \/ Running(t) # {}
SessionsAreReleased == \A t \in Turns : Busy(t) ~> ~Busy(t)
=============================================================================
