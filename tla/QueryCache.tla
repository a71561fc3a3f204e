----------------------------- MODULE QueryCache -----------------------------
(***************************************************************************)
(* execute_nl_query around the pipeline: request coalescing and the SQL    *)
(* cache, both in Redis (core/query_cache.py, services/query_service.py).  *)
(*                                                                         *)
(* The module is about the requests that share one coalescing key and one  *)
(* SQL cache key: same connection, question text, role and scope ids.  A   *)
(* request is atomic between two awaits; one tick is the second that the   *)
(* poll interval and the expiry times count.                               *)
(***************************************************************************)
EXTENDS Naturals

CONSTANTS
    Requests,    \* request slots; a slot serves one request after the other
    NoSql,       \* the key of the SQL cache is absent
    Window,      \* request_coalesce_timeout_seconds, also the polls of a follower
    MaxVersion,  \* bound: changes of the customer's schema
    MaxFaults    \* bound: Redis errors and client disconnects

ASSUME WindowAssumption == Window \in Nat \ {0}
ASSUME BoundsAssumption == MaxVersion \in Nat /\ MaxFaults \in Nat

VARIABLES
    lock,       \* seconds the coalescing key still lives, 0 when absent
    published,  \* the result key: seconds it still lives, and the answer in it
    sql,        \* the SQL cache entry of the question
    version,    \* version of the customer's schema
    req,        \* what each request slot is doing
    faults,     \* Redis errors and disconnects so far
    inWindow    \* history variable: a result was published under the live lock

vars == <<lock, published, sql, version, req, faults, inWindow>>

Versions == 0..MaxVersion

\* What an answer or a cached SQL rests on: the schema version its SQL ran on,
\* and whether the prior turns of a session went into it.
Basis == [ver: Versions, context: BOOLEAN]

Request == [pc: {"idle", "poll", "sleep", "lookup", "rerun", "evict", "pipeline",
                 "store", "publish", "answered"},
            fresh: BOOLEAN,    \* skip_cache
            context: BOOLEAN,  \* session_id given and not clear_context
            leader: BOOLEAN,   \* is_leader
            holds: BOOLEAN,    \* leader, with a coalesce_result_key
            waited: 0..Window,
            source: {"none", "cache", "pipeline", "coalesced"},
            basis: Basis]

Idle == [pc |-> "idle", fresh |-> FALSE, context |-> FALSE, leader |-> FALSE,
         holds |-> FALSE, waited |-> 0, source |-> "none",
         basis |-> [ver |-> 0, context |-> FALSE]]

\* No result key.
Absent == [left |-> 0, basis |-> Idle.basis]

TypeOK ==
    /\ lock \in 0..Window
    /\ published \in [left: 0..Window, basis: Basis]
    /\ sql \in Basis \cup {NoSql}
    /\ version \in Versions
    /\ req \in [Requests -> Request]
    /\ faults \in 0..MaxFaults
    /\ inWindow \in BOOLEAN

Init ==
    /\ lock = 0
    /\ published = Absent
    /\ sql = NoSql
    /\ version = 0
    /\ req = [r \in Requests |-> Idle]
    /\ faults = 0
    /\ inWindow = FALSE

At(r, pc) == req[r].pc = pc
Goto(r, q) == req' = [req EXCEPT ![r] = q]

\* Every Redis call is tried once; its error is logged and swallowed.
NoFault == UNCHANGED faults
Fault == faults < MaxFaults /\ faults' = faults + 1

-----------------------------------------------------------------------------
\* try_coalesce_leader: SET NX EX.  Without Redis everybody is a leader that
\* has no result key.
Arrive(r) ==
    /\ At(r, "idle")
    /\ \E fresh, context \in BOOLEAN :
         LET new == [Idle EXCEPT !.fresh = fresh, !.context = context]
         IN  \/ /\ lock = 0 /\ NoFault
                /\ lock' = Window /\ inWindow' = FALSE
                /\ Goto(r, [new EXCEPT !.pc = "lookup", !.leader = TRUE, !.holds = TRUE])
             \/ /\ lock > 0 /\ NoFault
                /\ Goto(r, [new EXCEPT !.pc = "poll"])
                /\ UNCHANGED <<lock, inWindow>>
             \/ /\ Fault
                /\ Goto(r, [new EXCEPT !.pc = "lookup", !.leader = TRUE])
                /\ UNCHANGED <<lock, inWindow>>
    /\ UNCHANGED <<published, sql, version>>

\* wait_for_coalesce_result: a poll, then a sleep of one second.
Poll(r) ==
    /\ At(r, "poll")
    /\ \/ /\ published.left > 0 /\ NoFault
          /\ Goto(r, [req[r] EXCEPT !.pc = "answered", !.source = "coalesced",
                                    !.basis = published.basis])
       \/ published.left = 0 /\ NoFault /\ Goto(r, [req[r] EXCEPT !.pc = "sleep"])
       \/ Fault /\ Goto(r, [req[r] EXCEPT !.pc = "lookup"])
    /\ UNCHANGED <<lock, published, sql, version, inWindow>>

\* Fault variant: the time waited is not added up.
Woken_Uncounted(q) == IF q.pc = "sleep" THEN [q EXCEPT !.pc = "poll"] ELSE q

\* Fault variant: the wait ends one poll early.
Woken_OneLess(q) ==
    IF q.pc # "sleep" THEN q
    ELSE [q EXCEPT !.waited = @ + 1, !.pc = IF q.waited + 2 < Window THEN "poll" ELSE "lookup"]

\* A follower that has slept the whole window gives up without another poll.
Woken(q) ==
    IF q.pc # "sleep" THEN q
    ELSE [q EXCEPT !.waited = @ + 1, !.pc = IF q.waited + 1 < Window THEN "poll" ELSE "lookup"]

\* A second passes: keys expire, sleepers wake up.
Tick ==
    /\ lock > 0 \/ published.left > 0 \/ \E r \in Requests : At(r, "sleep")
    /\ lock' = IF lock > 0 THEN lock - 1 ELSE 0
    /\ published' = IF published.left > 1 THEN [published EXCEPT !.left = @ - 1] ELSE Absent
    /\ req' = [r \in Requests |-> Woken(req[r])]
    /\ inWindow' = (inWindow /\ lock > 1)
    /\ UNCHANGED <<sql, version, faults>>

-----------------------------------------------------------------------------
\* get_cached_sql, unless skip_cache.
Lookup(r) ==
    /\ At(r, "lookup")
    /\ \/ /\ ~req[r].fresh /\ sql # NoSql /\ NoFault
          /\ Goto(r, [req[r] EXCEPT !.pc = "rerun", !.basis = sql])
       \/ /\ req[r].fresh \/ sql = NoSql
          /\ NoFault
          /\ Goto(r, [req[r] EXCEPT !.pc = "pipeline"])
       \/ /\ ~req[r].fresh /\ Fault
          /\ Goto(r, [req[r] EXCEPT !.pc = "pipeline"])
    /\ UNCHANGED <<lock, published, sql, version, inWindow>>

\* _execute_cached_pipeline: a SQL made for another version of the schema
\* fails, any other may.
Rerun(r) ==
    /\ At(r, "rerun")
    /\ \/ /\ req[r].basis.ver = version
          /\ Goto(r, [req[r] EXCEPT !.pc = "publish", !.source = "cache"])
       \/ Goto(r, [req[r] EXCEPT !.pc = "evict"])
    /\ UNCHANGED <<lock, published, sql, version, faults, inWindow>>

\* Fault variant: the failed SQL stays in the cache.
Evict_Keeps(r) ==
    /\ At(r, "evict")
    /\ Goto(r, [req[r] EXCEPT !.pc = "pipeline"])
    /\ UNCHANGED <<lock, published, sql, version, faults, inWindow>>

\* delete_cached_sql deletes what the key holds by now.
Evict(r) ==
    /\ At(r, "evict")
    /\ \/ NoFault /\ sql' = NoSql
       \/ Fault /\ UNCHANGED sql
    /\ Goto(r, [req[r] EXCEPT !.pc = "pipeline", !.basis = Idle.basis])
    /\ UNCHANGED <<lock, published, version, inWindow>>

\* The pipeline of QueryPipeline: it ends with an answer whose SQL is cached
\* (should_cache), with another answer, or it raises.
RunPipeline(r) ==
    /\ At(r, "pipeline")
    /\ \/ \E next \in {"store", "publish"} :
            Goto(r, [req[r] EXCEPT !.pc = next, !.source = "pipeline",
                                   !.basis = [ver |-> version, context |-> req[r].context]])
       \/ Goto(r, Idle)
    /\ UNCHANGED <<lock, published, sql, version, faults, inWindow>>

\* set_cached_sql.
Store(r) ==
    /\ At(r, "store")
    /\ \/ NoFault /\ sql' = req[r].basis
       \/ Fault /\ UNCHANGED sql
    /\ Goto(r, [req[r] EXCEPT !.pc = "publish"])
    /\ UNCHANGED <<lock, published, version, inWindow>>

\* The update of the session title raises.
TitleFails(r) ==
    /\ At(r, "publish") /\ req[r].source = "pipeline" /\ req[r].context
    /\ Goto(r, Idle)
    /\ UNCHANGED <<lock, published, sql, version, faults, inWindow>>

\* Fault variant: the result lives one second less than the lock.
Published_Short(r) == [left |-> Window - 1, basis |-> req[r].basis]

Published(r) == [left |-> Window, basis |-> req[r].basis]

\* publish_coalesce_result; the lock itself is never released.
Publish(r) ==
    /\ At(r, "publish")
    /\ \/ /\ req[r].holds /\ NoFault
          /\ published' = Published(r) /\ inWindow' = (lock > 0)
       \/ /\ req[r].holds /\ Fault /\ UNCHANGED <<published, inWindow>>
       \/ /\ ~req[r].holds /\ NoFault /\ UNCHANGED <<published, inWindow>>
    /\ Goto(r, [req[r] EXCEPT !.pc = "answered"])
    /\ UNCHANGED <<lock, sql, version>>

Return(r) ==
    /\ At(r, "answered")
    /\ Goto(r, Idle)
    /\ UNCHANGED <<lock, published, sql, version, faults, inWindow>>

\* stream_query cancels the task of a client that went away.
Disconnect(r) ==
    /\ req[r].pc \notin {"idle", "answered"} /\ Fault
    /\ Goto(r, Idle)
    /\ UNCHANGED <<lock, published, sql, version, inWindow>>

\* cache_ttl_seconds have passed since the SQL was stored.
SqlExpires ==
    /\ sql # NoSql /\ sql' = NoSql
    /\ UNCHANGED <<lock, published, version, req, faults, inWindow>>

\* The customer changes the schema: what ran before does not run any more.
SchemaChanges ==
    /\ version < MaxVersion /\ version' = version + 1
    /\ UNCHANGED <<lock, published, sql, req, faults, inWindow>>

-----------------------------------------------------------------------------
Continue(r) ==
    \/ Poll(r) \/ Lookup(r) \/ Rerun(r) \/ Evict(r)
    \/ RunPipeline(r) \/ Store(r) \/ TitleFails(r) \/ Publish(r) \/ Return(r)

Next ==
    \/ \E r \in Requests : Arrive(r) \/ Continue(r) \/ Disconnect(r)
    \/ Tick \/ SqlExpires \/ SchemaChanges

Spec == Init /\ [][Next]_vars

\* Time passes, and the calls a request awaits return or fail: Redis calls and
\* database calls have timeouts, the pipeline has pipeline_timeout_seconds.
FairSpec ==
    /\ Spec /\ WF_vars(Tick)
    /\ \A r \in Requests : WF_vars(Continue(r))

-----------------------------------------------------------------------------
\* The result of a round lives at least as long as the lock of the round: a
\* request turned away by the lock of an answered leader never waits for it.
ResultOutlivesLock == inWindow => published.left >= lock

\* Lock, result and SQL cache are well typed, and no round loses its result to its lock.
CoalescingIsSound == TypeOK /\ ResultOutlivesLock

\* A request that was turned away computes only after it has waited through
\* a whole window (or lost Redis or a client on the way).
FollowerWaitsFirst ==
    \A r \in Requests :
        ~req[r].leader /\ req[r].pc \in {"rerun", "evict", "pipeline", "store"} =>
            req[r].waited = Window \/ faults > 0

\* Every request is answered or fails, also one that follows a leader that
\* raised, was cancelled or outlived its lock.
EveryRequestEnds == \A r \in Requests : req[r].pc # "idle" ~> req[r].pc = "idle"

\* A SQL that no longer runs does not stay in the cache as long as requests
\* come that are served from it: each of them throws it out.
Stale == sql # NoSql /\ sql.ver # version
StaleSqlIsThrownOut ==
    []<>(\E r \in Requests : req[r].pc = "evict") => <>[]~Stale
=============================================================================
