------------------------- MODULE ConnectorRegistry -------------------------
(***************************************************************************)
(* connectors/connector_registry.py under asyncio: the process-wide cache  *)
(* of database connectors, shared by every request of the event loop.      *)
(*                                                                         *)
(* A task runs atomically between two awaits that suspend, so an action is *)
(* the code from one such await to the next.  An await of a coroutine that *)
(* returns at once (test_connection and disconnect of a connector whose    *)
(* pool is None) does not suspend and is no interleaving point.  A task is *)
(* a request: a query that reads the connection row, gets a connector and  *)
(* uses it, or update_connection, which commits when the request ends.     *)
(***************************************************************************)
EXTENDS Naturals, Sequences, FiniteSets

CONSTANTS
    Tasks,       \* concurrent requests
    Ids,         \* connection ids
    Objs,        \* connector objects
    NoObj,       \* no connector
    NoId,        \* no connection
    MaxCached,   \* MAX_CACHED_CONNECTORS
    MaxVersion   \* bound: updates of one connection string

ASSUME RegistryAssumption ==
    /\ MaxCached \in Nat \ {0} /\ MaxVersion \in Nat
    /\ NoObj \notin Objs /\ NoId \notin Ids

VARIABLES
    active,     \* _active_connectors: connector of an id, NoObj when absent
    lru,        \* keys of _last_accessed, the least recently accessed first
    pool,       \* pool of each connector object; "closed" when it is None
    made,       \* id and connection string version an object was made for
    saved,      \* committed version of each connection string
    task,       \* where each request is
    overlapped  \* history: two requests were under way at a time

vars == <<active, lru, pool, made, saved, task, overlapped>>

Versions == 0..MaxVersion

Task == [pc: {"idle", "read", "sweep", "sweeping", "testing", "dropping", "evicting",
              "connecting", "using", "removing", "committing", "key_error"},
         id: Ids \cup {NoId}, ver: Versions, obj: Objs \cup {NoObj}, stale: Seq(Ids)]

Idle == [pc |-> "idle", id |-> NoId, ver |-> 0, obj |-> NoObj, stale |-> <<>>]

TypeOK ==
    /\ active \in [Ids -> Objs \cup {NoObj}]
    /\ lru \in Seq(Ids)
    /\ pool \in [Objs -> {"opening", "open", "closing", "closed"}]
    /\ made \in [Objs -> [id: Ids \cup {NoId}, ver: Versions]]
    /\ saved \in [Ids -> Versions]
    /\ task \in [Tasks -> Task]
    /\ overlapped \in BOOLEAN

Registered == {c \in Ids : active[c] # NoObj}
IsRegistered(o) == \E c \in Ids : active[c] = o
IsHeld(o) == \E t \in Tasks : task[t].obj = o
Keys(s) == {s[i] : i \in DOMAIN s}

\* Popping an id from _last_accessed, and setting its time to now.
Forget(s, c) ==
    IF c \in Keys(s)
    THEN LET i == CHOOSE i \in DOMAIN s : s[i] = c
         IN  SubSeq(s, 1, i - 1) \o SubSeq(s, i + 1, Len(s))
    ELSE s
Touch(s, c) == Append(Forget(s, c), c)

Init ==
    /\ active = [c \in Ids |-> NoObj]
    /\ lru = <<>>
    /\ pool = [o \in Objs |-> "closed"]
    /\ made = [o \in Objs |-> [id |-> NoId, ver |-> 0]]
    /\ saved = [c \in Ids |-> 0]
    /\ task = [t \in Tasks |-> Idle]
    /\ overlapped = FALSE

Goto(t, r) == task' = [task EXCEPT ![t] = r]

\* disconnect() of a connector suspends unless its pool is None already.
Suspends(o) == o # NoObj /\ pool[o] # "closed"
Closing(o) == [pool EXCEPT ![o] = "closing"]
Closed(o) == [pool EXCEPT ![o] = "closed"]

-----------------------------------------------------------------------------
\* cls() makes a new object: Objs names the objects somebody still refers to.
Unreferenced(t, a) ==
    {o \in Objs : (\A u \in Tasks \ {t} : task[u].obj # o) /\ (\A c \in Ids : a[c] # o)}

\* Fault variant: the connector is registered before it is connected.
StartConnect_RegistersEarly(t, a, l, p) ==
    \E o \in Unreferenced(t, a) :
        /\ active' = [a EXCEPT ![task[t].id] = o] /\ lru' = l
        /\ pool' = [p EXCEPT ![o] = "opening"]
        /\ made' = [made EXCEPT ![o] = [id |-> task[t].id, ver |-> task[t].ver]]
        /\ Goto(t, [task[t] EXCEPT !.pc = "connecting", !.obj = o])

\* The tail of get_or_create_connector from the capacity test to the await of
\* connect(), in a registry a, an access list l and pools p.
StartConnect(t, a, l, p) ==
    \E o \in Unreferenced(t, a) :
        /\ active' = a /\ lru' = l
        /\ pool' = [p EXCEPT ![o] = "opening"]
        /\ made' = [made EXCEPT ![o] = [id |-> task[t].id, ver |-> task[t].ver]]
        /\ Goto(t, [task[t] EXCEPT !.pc = "connecting", !.obj = o])

AtCapacity(a) == Cardinality({c \in Ids : a[c] # NoObj}) >= MaxCached

\* What _evict_lru leaves of _last_accessed.
AfterEviction(l) == Tail(l)

\* _evict_lru pops both dictionaries, then awaits disconnect().
MakeRoom(t, a, l, p) ==
    IF AtCapacity(a) /\ l # <<>>
    THEN LET victim == a[Head(l)]
             popped == [a EXCEPT ![Head(l)] = NoObj]
         IN  IF victim # NoObj /\ p[victim] # "closed"
             THEN /\ active' = popped /\ lru' = AfterEviction(l)
                  /\ pool' = [p EXCEPT ![victim] = "closing"]
                  /\ Goto(t, [task[t] EXCEPT !.pc = "evicting", !.obj = victim])
                  /\ UNCHANGED made
             ELSE StartConnect(t, popped, AfterEviction(l), p)
    ELSE StartConnect(t, a, l, p)

\* `del _active_connectors[id]` and the rest: KeyError when another task got
\* there first, otherwise whatever is registered now goes.
DropEntry(t, p) ==
    LET c == task[t].id
    IN  IF active[c] = NoObj
        THEN /\ pool' = p
             /\ Goto(t, [Idle EXCEPT !.pc = "key_error"])
             /\ UNCHANGED <<active, lru, made>>
        ELSE MakeRoom(t, [active EXCEPT ![c] = NoObj], Forget(lru, c), p)

\* A failed test_connection: disconnect, then drop the entry.
Discard(t, o) ==
    IF Suspends(o)
    THEN /\ pool' = Closing(o)
         /\ Goto(t, [task[t] EXCEPT !.pc = "dropping", !.obj = o])
         /\ UNCHANGED <<active, lru, made>>
    ELSE DropEntry(t, pool)

\* `if connection_id in _active_connectors`: the pool of an open connector is
\* asked, which suspends; one that is closing or closed refuses at once.
Lookup(t) ==
    LET o == active[task[t].id]
    IN  CASE o = NoObj -> MakeRoom(t, active, lru, pool)
          [] o # NoObj /\ pool[o] = "open" ->
                /\ Goto(t, [task[t] EXCEPT !.pc = "testing", !.obj = o])
                /\ UNCHANGED <<active, lru, pool, made>>
          [] OTHER -> Discard(t, o)

-----------------------------------------------------------------------------
\* A request reads the committed connection row before it asks for a connector.
ReadConnection(t) ==
    /\ task[t].pc = "idle"
    /\ \E c \in Ids : Goto(t, [Idle EXCEPT !.pc = "read", !.id = c, !.ver = saved[c]])
    /\ UNCHANGED <<active, lru, pool, made, saved>>

\* Every 100th call first cleans up the entries older than an hour, the oldest
\* ones; which call that is and how many they are is left open.
GetConnector(t) ==
    /\ task[t].pc = "read"
    /\ \/ Lookup(t)
       \/ \E n \in 1..Len(lru) :
            /\ Goto(t, [task[t] EXCEPT !.pc = "sweep", !.stale = SubSeq(lru, 1, n)])
            /\ UNCHANGED <<active, lru, pool, made>>
    /\ UNCHANGED saved

\* Fault variant: the loop over the stale ids does not advance.
SweepNext_Stuck(t) ==
    /\ task[t].pc = "sweep" /\ task[t].stale # <<>>
    /\ active' = [active EXCEPT ![Head(task[t].stale)] = NoObj]
    /\ Goto(t, [task[t] EXCEPT !.stale = Append(Tail(@), Head(@))])
    /\ UNCHANGED <<lru, pool, made, saved>>

\* cleanup_stale_connectors goes through the ids it collected before its awaits.
SweepNext(t) ==
    /\ task[t].pc = "sweep" /\ task[t].stale # <<>>
    /\ LET c == Head(task[t].stale)
           o == active[c]
           rest == [task[t] EXCEPT !.stale = Tail(@)]
       IN  /\ active' = [active EXCEPT ![c] = NoObj]
           /\ lru' = Forget(lru, c)
           /\ IF Suspends(o)
              THEN pool' = Closing(o) /\ Goto(t, [rest EXCEPT !.pc = "sweeping", !.obj = o])
              ELSE UNCHANGED pool /\ Goto(t, rest)
    /\ UNCHANGED <<made, saved>>

SweepClosed(t) ==
    /\ task[t].pc = "sweeping"
    /\ pool' = Closed(task[t].obj)
    /\ Goto(t, [task[t] EXCEPT !.pc = "sweep", !.obj = NoObj])
    /\ UNCHANGED <<active, lru, made, saved>>

SweepDone(t) ==
    /\ task[t].pc = "sweep" /\ task[t].stale = <<>>
    /\ Lookup(t)
    /\ UNCHANGED saved

\* The pool answered: its close() waits for the test's connection, so only a
\* pool closed in the meantime cannot have answered.
TestPassed(t) ==
    /\ task[t].pc = "testing" /\ pool[task[t].obj] # "closed"
    /\ lru' = Touch(lru, task[t].id)
    /\ Goto(t, [task[t] EXCEPT !.pc = "using"])
    /\ UNCHANGED <<active, pool, made, saved>>

TestFailed(t) ==
    /\ task[t].pc = "testing"
    /\ Discard(t, task[t].obj)
    /\ UNCHANGED saved

Dropped(t) ==
    /\ task[t].pc = "dropping"
    /\ DropEntry(t, Closed(task[t].obj))
    /\ UNCHANGED saved

Evicted(t) ==
    /\ task[t].pc = "evicting"
    /\ StartConnect(t, active, lru, Closed(task[t].obj))
    /\ UNCHANGED saved

Connected(t) ==
    /\ task[t].pc = "connecting"
    /\ pool' = [pool EXCEPT ![task[t].obj] = "open"]
    /\ active' = [active EXCEPT ![task[t].id] = task[t].obj]
    /\ lru' = Touch(lru, task[t].id)
    /\ Goto(t, [task[t] EXCEPT !.pc = "using"])
    /\ UNCHANGED <<made, saved>>

ConnectFailed(t) ==
    /\ task[t].pc = "connecting"
    /\ pool' = Closed(task[t].obj)
    /\ Goto(t, Idle)
    /\ UNCHANGED <<active, lru, made, saved>>

\* The request is done with the connector, or failed with it.
Finish(t) ==
    /\ task[t].pc \in {"using", "key_error"}
    /\ Goto(t, Idle)
    /\ UNCHANGED <<active, lru, pool, made, saved>>

-----------------------------------------------------------------------------
\* Fault variant: the closed connector stays registered.
RemoveEntry_Keeps(t, c, v) ==
    /\ UNCHANGED <<active, lru>>
    /\ Goto(t, [Idle EXCEPT !.pc = "committing", !.id = c, !.ver = v])

\* `del` and `pop` of remove_connector, then back to update_connection.
RemoveEntry(t, c, v) ==
    IF active[c] = NoObj
    THEN Goto(t, [Idle EXCEPT !.pc = "key_error"]) /\ UNCHANGED <<active, lru>>
    ELSE /\ active' = [active EXCEPT ![c] = NoObj]
         /\ lru' = Forget(lru, c)
         /\ Goto(t, [Idle EXCEPT !.pc = "committing", !.id = c, !.ver = v])

\* update_connection flushes the new string (the row lock keeps a second
\* update of the row out), then remove_connector disconnects what is cached.
UpdateConnection(t) ==
    /\ task[t].pc = "idle"
    /\ \E c \in Ids :
         /\ saved[c] < MaxVersion
         /\ \A u \in Tasks : task[u].id = c => task[u].pc \notin {"removing", "committing"}
         /\ LET o == active[c]
                next == [Idle EXCEPT !.id = c, !.ver = saved[c] + 1]
            IN  \/ /\ o = NoObj
                   /\ Goto(t, [next EXCEPT !.pc = "committing"])
                   /\ UNCHANGED <<active, lru, pool>>
                \/ /\ Suspends(o)
                   /\ pool' = Closing(o)
                   /\ Goto(t, [next EXCEPT !.pc = "removing", !.obj = o])
                   /\ UNCHANGED <<active, lru>>
                \/ /\ o # NoObj /\ ~Suspends(o)
                   /\ RemoveEntry(t, c, saved[c] + 1)
                   /\ UNCHANGED pool
    /\ UNCHANGED <<made, saved>>

Removed(t) ==
    /\ task[t].pc = "removing"
    /\ pool' = Closed(task[t].obj)
    /\ RemoveEntry(t, task[t].id, task[t].ver)
    /\ UNCHANGED <<made, saved>>

\* get_db commits when the handler has returned.
CommitUpdate(t) ==
    /\ task[t].pc = "committing"
    /\ saved' = [saved EXCEPT ![task[t].id] = task[t].ver]
    /\ Goto(t, Idle)
    /\ UNCHANGED <<active, lru, pool, made>>

-----------------------------------------------------------------------------
\* A request comes.
Begin(t) ==
    /\ ReadConnection(t) \/ UpdateConnection(t)
    /\ overlapped' = (overlapped \/ \E u \in Tasks \ {t} : task[u] # Idle)

\* A started request goes on; only new requests are optional.
Continue(t) ==
    /\ \/ GetConnector(t)
       \/ SweepNext(t) \/ SweepClosed(t) \/ SweepDone(t)
       \/ TestPassed(t) \/ TestFailed(t) \/ Dropped(t) \/ Evicted(t)
       \/ Connected(t) \/ ConnectFailed(t) \/ Finish(t)
       \/ Removed(t) \/ CommitUpdate(t)
    /\ UNCHANGED overlapped

Next == \E t \in Tasks : Begin(t) \/ Continue(t)

Spec == Init /\ [][Next]_vars

\* Every awaited call to a database returns or fails.
FairSpec == Spec /\ \A t \in Tasks : WF_vars(Continue(t))

-----------------------------------------------------------------------------
(* What holds however the requests interleave *)

\* A registered connector was connected, for the id it is registered under,
\* and a request uses a connector of the database it asked for: awaits between
\* the lookup and the registration never mix two connections up.
RegisteredForItsId ==
    /\ \A c \in Registered : made[active[c]].id = c /\ pool[active[c]] # "opening"
    /\ \A t \in Tasks : task[t].pc = "using" => made[task[t].obj].id = task[t].id

\* Every registered connector has an access time, so eviction and the cleanup
\* of stale entries can reach it, whatever was popped during their awaits.
EvictionReachesAll == Registered \subseteq Keys(lru)

\* The registry while requests interleave: well typed, nothing mixed up, nothing
\* out of the reach of eviction.
RegistryIsSound == TypeOK /\ RegisteredForItsId /\ EvictionReachesAll

\* Every request gets its connector, or an error, and comes to its end.
EveryCallReturns == \A t \in Tasks : task[t].pc # "idle" ~> task[t].pc = "idle"

-----------------------------------------------------------------------------
(* What holds as long as requests come one after the other *)

\* MAX_CACHED_CONNECTORS bounds the registry.
CapacityRespected == Cardinality(Registered) <= MaxCached

\* The two dictionaries have the same keys: no entry of _last_accessed is left
\* for a later eviction to waste itself on.
SameKeys == Keys(lru) = Registered

\* No pool stays open that neither the registry nor a request can close.
NoLeakedPool == \A o \in Objs : pool[o] = "open" => IsRegistered(o) \/ IsHeld(o)

\* Between requests, what is cached was made from the saved connection string.
SavedStringInUse ==
    (\A t \in Tasks : task[t] = Idle) =>
        \A c \in Registered : made[active[c]].ver = saved[c]

\* Requests that come one after the other keep the bound, the two dictionaries, the
\* pools and the saved string together.
SoundAlone == ~overlapped => CapacityRespected /\ SameKeys /\ NoLeakedPool /\ SavedStringInUse
=============================================================================
