-------------------------- MODULE QueryCacheProofs --------------------------
(***************************************************************************)
(* Proofs about QueryCache: for any number of requests, any coalescing     *)
(* window, and any number of Redis errors and schema changes.              *)
(***************************************************************************)
EXTENDS QueryCache, TLAPS

\* What is known of a request q after f errors and disconnects: who polls or
\* sleeps has some of the window left; a follower that does not wait any more
\* has waited through it, from the moment it looks the SQL up.
Computing == {"lookup", "rerun", "evict", "pipeline", "store"}
GoodRequest(q, f) ==
    /\ q \in Request
    /\ q.pc \in {"poll", "sleep"} => q.waited < Window
    /\ ~q.leader /\ q.pc \in Computing => q.waited = Window \/ f > 0

GoodRequests == req \in [Requests -> Request] /\ \A r \in Requests : GoodRequest(req[r], faults)

CacheInv == TypeOK /\ ResultOutlivesLock /\ GoodRequests

-----------------------------------------------------------------------------
LEMMA IdleIsGood ==
    /\ Idle.basis \in Basis /\ Absent \in [left: 0..Window, basis: Basis] /\ Absent.left = 0
    /\ Idle \in Request /\ Idle.pc = "idle" /\ Idle.waited = 0 /\ ~Idle.leader
    /\ \A f : GoodRequest(Idle, f)
BY WindowAssumption, BoundsAssumption
DEF GoodRequest, Computing, Idle, Absent, Request, Basis, Versions

LEMMA InitInv == ASSUME Init PROVE CacheInv
<1>1. TypeOK
  <2>1. published \in [left: 0..Window, basis: Basis] /\ req \in [Requests -> Request]
    BY IdleIsGood DEF Init
  <2>2. lock \in 0..Window /\ version \in Versions /\ faults \in 0..MaxFaults
    BY WindowAssumption, BoundsAssumption DEF Init, Versions
  <2> QED
    BY <2>1, <2>2 DEF Init, TypeOK
<1>2. GoodRequests
  BY <1>1, IdleIsGood DEF Init, GoodRequests, TypeOK
<1> QED
  BY <1>1, <1>2 DEF Init, CacheInv, ResultOutlivesLock

\* An error or a disconnect keeps what is known of the requests.
LEMMA FaultsOnlyGrow ==
    ASSUME CacheInv, Fault \/ NoFault
    PROVE  /\ faults' \in 0..MaxFaults /\ (Fault => faults' > 0)
           /\ \A q : GoodRequest(q, faults) => GoodRequest(q, faults')
BY BoundsAssumption DEF CacheInv, TypeOK, Fault, NoFault, GoodRequest

\* One request goes on to a good state; the keys in Redis are left or written
\* with what they may hold.
LEMMA OneRequest ==
    ASSUME CacheInv, NEW r \in Requests, NEW q, Goto(r, q), GoodRequest(q, faults'),
           Fault \/ NoFault,
           lock' \in 0..Window, published' \in [left: 0..Window, basis: Basis],
           sql' \in Basis \cup {NoSql}, version' = version,
           inWindow' \in BOOLEAN, inWindow' => published'.left >= lock'
    PROVE  CacheInv'
<1>1. req' = [req EXCEPT ![r] = q] /\ req'[r] = q /\ \A u \in Requests \ {r} : req'[u] = req[u]
  BY DEF Goto, CacheInv, TypeOK
<1>2. q \in Request
  BY DEF GoodRequest
<1>3. TypeOK'
  BY <1>1, <1>2, FaultsOnlyGrow DEF CacheInv, TypeOK
<1>4. GoodRequests'
  BY <1>1, <1>3, FaultsOnlyGrow DEF CacheInv, GoodRequests, TypeOK
<1> QED
  BY <1>3, <1>4 DEF CacheInv, ResultOutlivesLock

\* The same for a request that leaves the keys in Redis alone.
LEMMA OneRequestOnly ==
    ASSUME CacheInv, NEW r \in Requests, NEW q, Goto(r, q), GoodRequest(q, faults'),
           Fault \/ NoFault, UNCHANGED <<lock, published, sql, version, inWindow>>
    PROVE  CacheInv'
BY OneRequest DEF CacheInv, TypeOK, ResultOutlivesLock

\* Where a request may go: everywhere from which nothing is asked of it, and to
\* the computing steps when it has waited.
LEMMA GoesTo ==
    ASSUME NEW q \in Request, NEW f, NEW source \in {"none", "cache", "pipeline", "coalesced"},
           NEW basis \in Basis,
           NEW pc \in {"lookup", "rerun", "evict", "pipeline", "store", "publish", "answered"},
           pc \in Computing /\ ~q.leader => q.waited = Window \/ f > 0
    PROVE  GoodRequest([q EXCEPT !.pc = pc, !.source = source, !.basis = basis], f)
BY DEF GoodRequest, Request, Computing
\* A new request as it arrives.
LEMMA NewRequest ==
    ASSUME NEW fresh \in BOOLEAN, NEW context \in BOOLEAN, NEW f
    PROVE  LET new == [Idle EXCEPT !.fresh = fresh, !.context = context]
           IN  /\ GoodRequest([new EXCEPT !.pc = "lookup", !.leader = TRUE, !.holds = TRUE], f)
               /\ GoodRequest([new EXCEPT !.pc = "poll"], f)
               /\ GoodRequest([new EXCEPT !.pc = "lookup", !.leader = TRUE], f)
<1> DEFINE new == [Idle EXCEPT !.fresh = fresh, !.context = context]
<1>1. new \in Request
  BY IdleIsGood DEF Request
<1>2. new.waited = 0
  BY DEF Idle
<1>3. Window \in Nat /\ 0 < Window
  BY WindowAssumption
<1> HIDE DEF new
<1>4. GoodRequest([new EXCEPT !.pc = "lookup", !.leader = TRUE, !.holds = TRUE], f)
  BY <1>1 DEF GoodRequest, Request
<1>5. GoodRequest([new EXCEPT !.pc = "poll"], f)
  BY <1>1, <1>2, <1>3 DEF GoodRequest, Request, Computing
<1>6. GoodRequest([new EXCEPT !.pc = "lookup", !.leader = TRUE], f)
  BY <1>1 DEF GoodRequest, Request
<1> QED
  BY <1>4, <1>5, <1>6 DEF new

-----------------------------------------------------------------------------
LEMMA ArriveStep == ASSUME CacheInv, NEW r \in Requests, Arrive(r) PROVE CacheInv'
<1>1. PICK fresh \in BOOLEAN, context \in BOOLEAN :
        LET new == [Idle EXCEPT !.fresh = fresh, !.context = context]
        IN  \/ /\ lock = 0 /\ NoFault
               /\ lock' = Window /\ inWindow' = FALSE
               /\ Goto(r, [new EXCEPT !.pc = "lookup", !.leader = TRUE, !.holds = TRUE])
            \/ /\ lock > 0 /\ NoFault
               /\ Goto(r, [new EXCEPT !.pc = "poll"])
               /\ UNCHANGED <<lock, inWindow>>
            \/ /\ Fault
               /\ Goto(r, [new EXCEPT !.pc = "lookup", !.leader = TRUE])
               /\ UNCHANGED <<lock, inWindow>>
  BY DEF Arrive
<1> DEFINE new == [Idle EXCEPT !.fresh = fresh, !.context = context]
           leads == [new EXCEPT !.pc = "lookup", !.leader = TRUE, !.holds = TRUE]
           follows == [new EXCEPT !.pc = "poll"]
           alone == [new EXCEPT !.pc = "lookup", !.leader = TRUE]
<1>2. UNCHANGED <<published, sql, version>>
  BY DEF Arrive
<1>3. Window \in Nat /\ 0 < Window
  BY WindowAssumption
<1>5. GoodRequest(leads, faults') /\ GoodRequest(follows, faults') /\ GoodRequest(alone, faults')
  BY NewRequest
<1> HIDE DEF leads, follows, alone
<1>6. CASE lock = 0 /\ NoFault /\ lock' = Window /\ inWindow' = FALSE /\ Goto(r, leads)
  <2>1. lock' \in 0..Window
    BY <1>3, <1>6
  <2>3. inWindow' \in BOOLEAN /\ ~inWindow'
    BY <1>6
  <2>2. published' \in [left: 0..Window, basis: Basis] /\ sql' \in Basis \cup {NoSql}
    BY <1>2 DEF CacheInv, TypeOK
  <2> QED
    BY <1>2, <1>5, <1>6, <2>1, <2>2, <2>3, OneRequest
<1>7. CASE NoFault /\ UNCHANGED <<lock, inWindow>> /\ Goto(r, follows)
  BY <1>2, <1>5, <1>7, OneRequestOnly
<1>8. CASE Fault /\ UNCHANGED <<lock, inWindow>> /\ Goto(r, alone)
  BY <1>2, <1>5, <1>8, OneRequestOnly
<1> QED
  BY <1>1, <1>6, <1>7, <1>8 DEF leads, follows, alone

LEMMA ContinueStep == ASSUME CacheInv, NEW r \in Requests, Continue(r) PROVE CacheInv'
<1> DEFINE q == req[r]
<1>1. q \in Request /\ GoodRequest(q, faults) /\ (Fault \/ NoFault => GoodRequest(q, faults'))
  BY FaultsOnlyGrow DEF CacheInv, GoodRequests
<1>2. CASE Poll(r)
  <2>1. published.basis \in Basis
    BY DEF CacheInv, TypeOK
  <2>2. UNCHANGED <<lock, published, sql, version, inWindow>> /\ At(r, "poll")
    BY <1>2 DEF Poll
  <2>3. CASE NoFault /\ Goto(r, [q EXCEPT !.pc = "answered", !.source = "coalesced",
                                          !.basis = published.basis])
    BY <1>1, <2>1, <2>2, <2>3, GoesTo, OneRequestOnly DEF Computing
  <2>4. CASE NoFault /\ Goto(r, [q EXCEPT !.pc = "sleep"])
    <3>1. GoodRequest([q EXCEPT !.pc = "sleep"], faults')
      BY <1>1, <2>2 DEF GoodRequest, Request, At, Computing
    <3> QED
      BY <2>2, <2>4, <3>1, OneRequestOnly
  <2>5. CASE Fault /\ Goto(r, [q EXCEPT !.pc = "lookup"])
    <3>1. GoodRequest([q EXCEPT !.pc = "lookup"], faults')
      BY <1>1, <2>5, FaultsOnlyGrow DEF GoodRequest, Request
    <3> QED
      BY <2>2, <2>5, <3>1, OneRequestOnly
  <2> QED
    BY <1>2, <2>3, <2>4, <2>5 DEF Poll
<1>3. CASE Lookup(r)
  <2>1. UNCHANGED <<lock, published, sql, version, inWindow>> /\ At(r, "lookup")
    BY <1>3 DEF Lookup
  <2>2. CASE sql # NoSql /\ NoFault /\ Goto(r, [q EXCEPT !.pc = "rerun", !.basis = sql])
    <3>1. sql \in Basis
      BY <2>2 DEF CacheInv, TypeOK
    <3>2. GoodRequest([q EXCEPT !.pc = "rerun", !.basis = sql], faults')
      BY <1>1, <2>1, <2>2, <3>1 DEF GoodRequest, Request, At, Computing
    <3> QED
      BY <2>1, <2>2, <3>2, OneRequestOnly
  <2>3. CASE (Fault \/ NoFault) /\ Goto(r, [q EXCEPT !.pc = "pipeline"])
    <3>1. GoodRequest([q EXCEPT !.pc = "pipeline"], faults')
      BY <1>1, <2>1, <2>3 DEF GoodRequest, Request, At, Computing
    <3> QED
      BY <2>1, <2>3, <3>1, OneRequestOnly
  <2> QED
    BY <1>3, <2>2, <2>3 DEF Lookup
<1>4. CASE Rerun(r)
  <2>1. UNCHANGED <<lock, published, sql, version, faults, inWindow>> /\ At(r, "rerun")
    BY <1>4 DEF Rerun
  <2>2. GoodRequest([q EXCEPT !.pc = "publish", !.source = "cache"], faults')
        /\ GoodRequest([q EXCEPT !.pc = "evict"], faults')
    BY <1>1, <2>1 DEF GoodRequest, Request, At, Computing
  <2> QED
    BY <1>4, <2>1, <2>2, OneRequestOnly DEF Rerun, NoFault
<1>5. CASE Evict(r)
  <2>1. GoodRequest([q EXCEPT !.pc = "pipeline", !.basis = Idle.basis], faults')
    BY <1>1, <1>5, IdleIsGood DEF Evict, GoodRequest, Request, At, Computing
  <2>2. /\ UNCHANGED <<lock, published, version, inWindow>>
        /\ sql' \in Basis \cup {NoSql} /\ (Fault \/ NoFault)
    BY <1>5 DEF Evict, CacheInv, TypeOK
  <2> QED
    BY <1>5, <2>1, <2>2, OneRequest DEF Evict, CacheInv, TypeOK, ResultOutlivesLock
<1>6. CASE RunPipeline(r)
  <2>1. [ver |-> version, context |-> q.context] \in Basis
    BY <1>1 DEF Basis, Request, CacheInv, TypeOK
  <2> DEFINE basis == [ver |-> version, context |-> q.context]
  <2> HIDE DEF basis
  <2>2. ASSUME NEW next \in {"store", "publish"}
        PROVE  GoodRequest([q EXCEPT !.pc = next, !.source = "pipeline", !.basis = basis], faults')
    BY <1>1, <1>6, <2>1 DEF RunPipeline, GoodRequest, Request, At, Computing, basis
  <2> QED
    BY <1>6, <2>2, IdleIsGood, OneRequestOnly DEF RunPipeline, NoFault, basis
<1>7. CASE Store(r)
  <2>1. GoodRequest([q EXCEPT !.pc = "publish"], faults')
    BY <1>1, <1>7 DEF Store, GoodRequest, Request, Computing
  <2>2. /\ UNCHANGED <<lock, published, version, inWindow>>
        /\ sql' \in Basis \cup {NoSql} /\ (Fault \/ NoFault)
    BY <1>1, <1>7 DEF Store, CacheInv, TypeOK, Request
  <2>3. Goto(r, [q EXCEPT !.pc = "publish"])
    BY <1>7 DEF Store
  <2> QED
    BY <2>1, <2>2, <2>3, OneRequest DEF CacheInv, TypeOK, ResultOutlivesLock
<1>8. CASE TitleFails(r)
  BY <1>8, IdleIsGood, OneRequestOnly DEF TitleFails, NoFault
<1>9. CASE Publish(r)
  <2>1. GoodRequest([q EXCEPT !.pc = "answered"], faults')
    BY <1>1, <1>9 DEF Publish, GoodRequest, Request, Computing
  <2>2. UNCHANGED <<lock, sql, version>> /\ (Fault \/ NoFault)
        /\ Goto(r, [q EXCEPT !.pc = "answered"])
    BY <1>9 DEF Publish
  <2>3. CASE published' = Published(r) /\ inWindow' = (lock > 0)
    <3>1. published' \in [left: 0..Window, basis: Basis] /\ published'.left = Window
      BY <1>1, <2>3, WindowAssumption DEF Published, Request
    <3>2. lock' \in 0..Window /\ sql' \in Basis \cup {NoSql} /\ inWindow' \in BOOLEAN
          /\ published'.left >= lock'
      BY <2>2, <2>3, <3>1, WindowAssumption DEF CacheInv, TypeOK
    <3> QED
      BY <2>1, <2>2, <3>1, <3>2, OneRequest
  <2>4. CASE UNCHANGED <<published, inWindow>>
    BY <2>1, <2>2, <2>4, OneRequestOnly
  <2> QED
    BY <1>9, <2>3, <2>4 DEF Publish
<1>10. CASE Return(r)
  BY <1>10, IdleIsGood, OneRequestOnly DEF Return, NoFault
<1> QED
  BY <1>2, <1>3, <1>4, <1>5, <1>6, <1>7, <1>8, <1>9, <1>10 DEF Continue

\* A sleeper that wakes up has waited one second more, through the window or
\* not yet.
LEMMA WokenIsGood ==
    ASSUME NEW q, NEW f, GoodRequest(q, f)
    PROVE  GoodRequest(Woken(q), f)
<1>1. CASE q.pc = "sleep"
  <2> DEFINE pc == IF q.waited + 1 < Window THEN "poll" ELSE "lookup"
             w == q.waited + 1
  <2>1. /\ w \in 0..Window /\ pc \in {"poll", "lookup"}
        /\ pc = "poll" => w < Window
        /\ pc = "lookup" => w = Window
    BY <1>1, WindowAssumption DEF GoodRequest, Request
  <2>2. Woken(q) = [q EXCEPT !.waited = w, !.pc = pc]
    BY <1>1 DEF Woken
  <2> HIDE DEF pc, w
  <2> QED
    BY <2>1, <2>2 DEF GoodRequest, Request, Computing
<1>2. CASE q.pc # "sleep"
  BY <1>2 DEF Woken
<1> QED
  BY <1>1, <1>2

LEMMA TickStep == ASSUME CacheInv, Tick PROVE CacheInv'
<1>1. lock \in 0..Window /\ Window \in Nat /\ published \in [left: 0..Window, basis: Basis]
  BY WindowAssumption DEF CacheInv, TypeOK
<1>2. lock' \in 0..Window /\ (lock > 1 => lock' = lock - 1)
  BY <1>1 DEF Tick
<1>3. published' \in [left: 0..Window, basis: Basis]
      /\ (published.left > 1 => published'.left = published.left - 1)
  <2>1. CASE published.left > 1
    BY <1>1, <2>1 DEF Tick
  <2>2. CASE ~(published.left > 1)
    BY <2>2, IdleIsGood DEF Tick
  <2> QED
    BY <2>1, <2>2
<1>4. inWindow' => inWindow /\ lock > 1
  BY DEF Tick
<1>5. ResultOutlivesLock'
  <2> SUFFICES ASSUME inWindow' PROVE published'.left >= lock'
    BY DEF ResultOutlivesLock
  <2>1. inWindow /\ lock > 1 /\ published.left >= lock
    BY <1>4 DEF CacheInv, ResultOutlivesLock
  <2> QED
    BY <1>1, <1>2, <1>3, <2>1
<1>6. \A r \in Requests : GoodRequest(Woken(req[r]), faults)
  BY WokenIsGood DEF CacheInv, GoodRequests
<1>7. GoodRequests'
  <2>1. req' = [r \in Requests |-> Woken(req[r])] /\ faults' = faults
    BY DEF Tick
  <2>2. \A r \in Requests : Woken(req[r]) \in Request
    BY <1>6 DEF GoodRequest
  <2> QED
    BY <1>6, <2>1, <2>2 DEF GoodRequests
<1>8. sql' = sql /\ version' = version /\ faults' = faults /\ inWindow' \in BOOLEAN
  BY DEF Tick, CacheInv, TypeOK
<1> QED
  BY <1>2, <1>3, <1>5, <1>7, <1>8 DEF CacheInv, TypeOK, GoodRequests

LEMMA NextStep == ASSUME CacheInv, [Next]_vars PROVE CacheInv'
<1>1. CASE UNCHANGED vars
  BY <1>1 DEF vars, CacheInv, TypeOK, ResultOutlivesLock, GoodRequests
<1>2. ASSUME NEW r \in Requests, Arrive(r) PROVE CacheInv'
  BY <1>2, ArriveStep
<1>3. ASSUME NEW r \in Requests, Continue(r) PROVE CacheInv'
  BY <1>3, ContinueStep
<1>4. ASSUME NEW r \in Requests, Disconnect(r) PROVE CacheInv'
  BY <1>4, IdleIsGood, OneRequestOnly DEF Disconnect
<1>5. CASE Tick
  BY <1>5, TickStep
<1>6. CASE SqlExpires
  BY <1>6 DEF SqlExpires, CacheInv, TypeOK, ResultOutlivesLock, GoodRequests
<1>7. CASE SchemaChanges
  <2>1. version' \in Versions
    BY <1>7, BoundsAssumption DEF SchemaChanges, CacheInv, TypeOK, Versions
  <2> QED
    BY <1>7, <2>1 DEF SchemaChanges, CacheInv, TypeOK, ResultOutlivesLock, GoodRequests
<1> QED
  BY <1>1, <1>2, <1>3, <1>4, <1>5, <1>6, <1>7 DEF Next

THEOREM CacheSafe == Spec => []CacheInv
<1>1. Init => CacheInv
  BY InitInv
<1>2. CacheInv /\ [Next]_vars => CacheInv'
  BY NextStep
<1> QED
  BY <1>1, <1>2, PTL DEF Spec

\* Whatever expires, fails or disconnects: lock, result and SQL cache are well
\* typed, and no round loses its result to its lock.
THEOREM CoalescingStaysSound == Spec => []CoalescingIsSound
<1>1. CacheInv => CoalescingIsSound
  BY DEF CacheInv, CoalescingIsSound
<1> QED
  BY <1>1, CacheSafe, PTL

\* No interleaving lets a request that was turned away compute before it has
\* waited through the window, unless Redis failed or a client left.
THEOREM FollowersWait == Spec => []FollowerWaitsFirst
<1>1. CacheInv => FollowerWaitsFirst
  BY DEF CacheInv, GoodRequests, GoodRequest, Computing, FollowerWaitsFirst
<1> QED
  BY <1>1, CacheSafe, PTL

=============================================================================
