---------------------------- MODULE ServerProofs ----------------------------
(***************************************************************************)
(* Proofs about Server, part by part: the connectors for any requests, ids *)
(* and objects; the start for any columns, dimensions, attempts and stops; *)
(* the sessions for any turns, pool, retries and faults.                   *)
(***************************************************************************)
EXTENDS Server, SequenceTheorems, FiniteSetTheorems, TLAPS

-----------------------------------------------------------------------------
(* The list of access times *)

LEMMA RemoveIs ==
    ASSUME NEW s \in Seq(Ids), NEW i \in DOMAIN s
    PROVE  LET r == SubSeq(s, 1, i - 1) \o SubSeq(s, i + 1, Len(s))
           IN  /\ r \in Seq(Ids) /\ DOMAIN r = 1..Len(s)-1 /\ DOMAIN s = 1..Len(s) /\ Len(s) \in Nat
               /\ \A j \in 1..Len(s)-1 : r[j] = IF j < i THEN s[j] ELSE s[j + 1]
<1> DEFINE a == SubSeq(s, 1, i - 1)
           b == SubSeq(s, i + 1, Len(s))
           r == a \o b
<1>1. /\ Len(s) \in Nat /\ DOMAIN s = 1..Len(s) /\ i \in 1..Len(s)
  OBVIOUS
<1>2. /\ a \in Seq(Ids) /\ Len(a) = i - 1
      /\ \A j \in 1..i-1 : a[j] = s[j]
  BY <1>1
<1>3. /\ b \in Seq(Ids) /\ Len(b) = Len(s) - i
      /\ \A j \in 1..Len(s)-i : b[j] = s[i + j]
  BY <1>1
<1> HIDE DEF a, b
<1>4. /\ r \in Seq(Ids) /\ Len(r) = Len(a) + Len(b)
      /\ \A j \in 1..Len(a) + Len(b) : r[j] = IF j <= Len(a) THEN a[j] ELSE b[j - Len(a)]
  BY <1>2, <1>3, ConcatProperties
<1> HIDE DEF r
<1>5. Len(r) = Len(s) - 1 /\ DOMAIN r = 1..Len(s)-1
  BY <1>1, <1>2, <1>3, <1>4
<1>6. ASSUME NEW j \in 1..Len(s)-1
      PROVE  r[j] = IF j < i THEN s[j] ELSE s[j + 1]
  <2>1. CASE j < i
    <3>1. j \in 1..Len(a) + Len(b) /\ j <= Len(a) /\ j \in 1..i-1
      BY <1>1, <1>2, <1>3, <2>1
    <3> QED BY <1>2, <1>4, <2>1, <3>1
  <2>2. CASE ~(j < i)
    <3>1. j \in 1..Len(a) + Len(b) /\ ~(j <= Len(a)) /\ j - Len(a) \in 1..Len(s)-i
          /\ i + (j - Len(a)) = j + 1
      BY <1>1, <1>2, <1>3, <2>2
    <3> QED BY <1>3, <1>4, <2>2, <3>1
  <2> QED BY <2>1, <2>2
<1> QED BY <1>1, <1>4, <1>5, <1>6 DEF r, a, b

\* No id has two access times.
Distinct(s) == \A i, j \in DOMAIN s : s[i] = s[j] => i = j

LEMMA RemoveKeeps ==
    ASSUME NEW s \in Seq(Ids), NEW i \in DOMAIN s
    PROVE  LET r == SubSeq(s, 1, i - 1) \o SubSeq(s, i + 1, Len(s))
           IN  /\ r \in Seq(Ids)
               /\ \A x \in Keys(s) \ {s[i]} : x \in Keys(r)
               /\ Distinct(s) => Distinct(r) /\ Keys(r) = Keys(s) \ {s[i]}
<1> DEFINE r == SubSeq(s, 1, i - 1) \o SubSeq(s, i + 1, Len(s))
<1>1. /\ r \in Seq(Ids) /\ DOMAIN r = 1..Len(s)-1 /\ DOMAIN s = 1..Len(s) /\ Len(s) \in Nat
      /\ \A j \in 1..Len(s)-1 : r[j] = IF j < i THEN s[j] ELSE s[j + 1]
  BY RemoveIs
<1> HIDE DEF r
<1>2. i \in 1..Len(s)
  BY <1>1
<1>3. ASSUME NEW k \in DOMAIN s, k # i
      PROVE  \E j \in DOMAIN r : r[j] = s[k]
  <2>1. CASE k < i
    <3>1. k \in DOMAIN r /\ r[k] = s[k]
      BY <1>1, <1>2, <2>1
    <3> QED BY <3>1
  <2>2. CASE k > i
    <3>1. k - 1 \in DOMAIN r /\ ~(k - 1 < i) /\ (k - 1) + 1 = k
      BY <1>1, <1>2, <2>2
    <3>2. r[k - 1] = s[k]
      BY <1>1, <3>1
    <3> QED BY <3>1, <3>2
  <2> QED BY <1>1, <1>2, <1>3, <2>1, <2>2
<1>4. \A x \in Keys(s) \ {s[i]} : x \in Keys(r)
  BY <1>3 DEF Keys
<1>5. ASSUME NEW j \in DOMAIN r
      PROVE  \E k \in DOMAIN s : k # i /\ r[j] = s[k] /\ k = (IF j < i THEN j ELSE j + 1)
  <2> DEFINE k == IF j < i THEN j ELSE j + 1
  <2>1. k \in DOMAIN s /\ k # i
    BY <1>1, <1>2
  <2>2. r[j] = s[k]
    BY <1>1
  <2> QED BY <2>1, <2>2
<1>6. ASSUME Distinct(s) PROVE Keys(r) = Keys(s) \ {s[i]}
  <2>1. Keys(r) \subseteq Keys(s) \ {s[i]}
    BY <1>5, <1>6 DEF Keys, Distinct
  <2> QED BY <1>4, <2>1
<1>7. ASSUME Distinct(s), NEW j \in DOMAIN r, NEW l \in DOMAIN r, r[j] = r[l]
      PROVE  j = l
  <2>1. (IF j < i THEN j ELSE j + 1) = (IF l < i THEN l ELSE l + 1)
    BY <1>5, <1>7 DEF Distinct
  <2> QED BY <1>1, <1>2, <2>1
<1> QED BY <1>1, <1>4, <1>6, <1>7 DEF r, Distinct

LEMMA ForgetKeeps ==
    ASSUME NEW s \in Seq(Ids), NEW c \in Ids
    PROVE  Forget(s, c) \in Seq(Ids) /\ Keys(s) \ {c} \subseteq Keys(Forget(s, c))
<1>1. CASE c \in Keys(s)
  <2> DEFINE i == CHOOSE i \in DOMAIN s : s[i] = c
  <2>1. i \in DOMAIN s /\ s[i] = c
    BY <1>1 DEF Keys
  <2>2. Forget(s, c) = SubSeq(s, 1, i - 1) \o SubSeq(s, i + 1, Len(s))
    BY <1>1 DEF Forget
  <2> HIDE DEF i
  <2> QED BY <2>1, <2>2, RemoveKeeps
<1>2. CASE c \notin Keys(s)
  BY <1>2 DEF Forget
<1> QED BY <1>1, <1>2

LEMMA TouchKeeps ==
    ASSUME NEW s \in Seq(Ids), NEW c \in Ids
    PROVE  Touch(s, c) \in Seq(Ids) /\ Keys(s) \cup {c} \subseteq Keys(Touch(s, c))
<1> DEFINE f == Forget(s, c)
<1>1. f \in Seq(Ids) /\ Keys(s) \ {c} \subseteq Keys(f)
  BY ForgetKeeps
<1> HIDE DEF f
<1>2. /\ Append(f, c) \in Seq(Ids)
      /\ Len(Append(f, c)) = Len(f) + 1
      /\ DOMAIN Append(f, c) = 1..Len(f) + 1 /\ DOMAIN f = 1..Len(f)
      /\ \A j \in 1..Len(f) : Append(f, c)[j] = f[j]
      /\ Append(f, c)[Len(f) + 1] = c
      /\ Len(f) \in Nat
  BY <1>1
<1>3. Keys(f) \subseteq Keys(Append(f, c)) /\ c \in Keys(Append(f, c))
  BY <1>2 DEF Keys
<1>4. Touch(s, c) = Append(f, c)
  BY DEF Touch, f
<1> QED BY <1>1, <1>2, <1>3, <1>4

LEMMA TailKeeps ==
    ASSUME NEW s \in Seq(Ids), s # <<>>
    PROVE  /\ Tail(s) \in Seq(Ids) /\ Head(s) \in Ids
           /\ Keys(s) \ {Head(s)} \subseteq Keys(Tail(s))
<1>1. /\ Len(s) \in Nat \ {0} /\ DOMAIN s = 1..Len(s)
      /\ Tail(s) \in Seq(Ids) /\ Len(Tail(s)) = Len(s) - 1 /\ DOMAIN Tail(s) = 1..Len(s) - 1
      /\ \A j \in 1..Len(s) - 1 : Tail(s)[j] = s[j + 1]
      /\ Head(s) = s[1]
  OBVIOUS
<1>2. ASSUME NEW k \in DOMAIN s, s[k] # Head(s)
      PROVE  \E j \in DOMAIN Tail(s) : Tail(s)[j] = s[k]
  <2>1. k \in 2..Len(s) /\ k - 1 \in 1..Len(s) - 1
    BY <1>1, <1>2
  <2>2. Tail(s)[k - 1] = s[k]
    BY <2>1, <1>1
  <2> QED BY <2>1, <2>2, <1>1
<1>3. Head(s) \in Ids
  BY <1>1
<1>4. Keys(s) \ {Head(s)} \subseteq Keys(Tail(s))
  BY <1>2 DEF Keys
<1> QED BY <1>1, <1>3, <1>4

-----------------------------------------------------------------------------
(* The inductive invariant.  A registry about to be written, with its access *)
(* list and pools, is good when every entry is reachable, connected and of   *)
(* its id; a task is good when the connector it is about to register or use  *)
(* was made for the connection it asked for.                                 *)

Pools == {"opening", "open", "closing", "closed"}

GoodRegistry(a, l, p, m) ==
    /\ a \in [Ids -> Objs \cup {NoObj}]
    /\ l \in Seq(Ids)
    /\ p \in [Objs -> Pools]
    /\ m \in [Objs -> [id: Ids \cup {NoId}, ver: Versions]]
    /\ \A c \in Ids : a[c] # NoObj =>
          m[a[c]].id = c /\ p[a[c]] # "opening" /\ c \in Keys(l)

GoodTask(r, m) ==
    /\ r \in Task
    /\ r.pc \notin {"idle", "key_error"} => r.id \in Ids
    /\ r.pc \in {"sweeping", "testing", "dropping", "evicting", "connecting", "using",
                 "removing"} => r.obj \in Objs
    /\ r.pc \in {"testing", "connecting", "using"} => m[r.obj].id = r.id

GoodTasks ==
    /\ DOMAIN task = Tasks /\ task = [t \in Tasks |-> task[t]]
    /\ \A t \in Tasks : GoodTask(task[t], made)

RegistryInv ==
    /\ GoodRegistry(active, lru, pool, made)
    /\ saved \in [Ids -> Versions]
    /\ GoodTasks

LEMMA OneTask ==
    ASSUME NEW t \in Tasks, NEW r, GoodTasks, GoodTask(r, made), Goto(t, r), made' = made
    PROVE  GoodTasks'
BY DEF GoodTasks, Goto

LEMMA IdleIsGood == Idle \in Task /\ GoodTask(Idle, made)
BY RegistryAssumption DEF GoodTask, Idle, Task, Versions

LEMMA FreshTaskIsGood ==
    ASSUME NEW c \in Ids, NEW v \in Versions
    PROVE  /\ GoodTask([Idle EXCEPT !.pc = "key_error"], made)
           /\ GoodTask([Idle EXCEPT !.pc = "read", !.id = c, !.ver = v], made)
           /\ GoodTask([Idle EXCEPT !.pc = "committing", !.id = c, !.ver = v], made)
<1>1. Idle \in Task
  BY IdleIsGood
<1> QED BY <1>1 DEF GoodTask, Task

LEMMA StartConnectStep ==
    ASSUME RegistryInv, NEW t \in Tasks, task[t].id \in Ids, saved' = saved,
           NEW a, NEW l, NEW p, GoodRegistry(a, l, p, made), StartConnect(t, a, l, p)
    PROVE  RegistryInv'
<1>1. PICK o \in Unreferenced(t, a) :
        /\ active' = a /\ lru' = l
        /\ pool' = [p EXCEPT ![o] = "opening"]
        /\ made' = [made EXCEPT ![o] = [id |-> task[t].id, ver |-> task[t].ver]]
        /\ Goto(t, [task[t] EXCEPT !.pc = "connecting", !.obj = o])
  BY DEF StartConnect
<1>2. /\ o \in Objs /\ \A c \in Ids : a[c] # o
      /\ \A u \in Tasks \ {t} : task[u].obj # o
  BY <1>1 DEF Unreferenced
<1>3. task[t] \in Task /\ [id |-> task[t].id, ver |-> task[t].ver] \in [id: Ids \cup {NoId}, ver: Versions]
  BY DEF RegistryInv, GoodTasks, GoodTask, Task
<1>4. GoodRegistry(active, lru, pool, made)'
  BY <1>1, <1>2, <1>3 DEF GoodRegistry, Pools
<1>5. \A u \in Tasks : GoodTask(task[u], made)'
  <2>1. GoodTask(task[t], made)'
    <3>1. task'[t] = [task[t] EXCEPT !.pc = "connecting", !.obj = o]
      BY <1>1 DEF Goto, RegistryInv, GoodTasks
    <3>2. task'[t] \in Task
      BY <3>1, <1>2, <1>3 DEF Task
    <3>3. made'[o].id = task[t].id
      BY <1>1, <1>2 DEF RegistryInv, GoodRegistry
    <3> QED BY <3>1, <3>2, <3>3, <1>2, <1>3 DEF GoodTask, Task
  <2>2. ASSUME NEW u \in Tasks \ {t}
        PROVE  GoodTask(task[u], made)'
    <3>1. task'[u] = task[u] /\ task[u].obj # o /\ GoodTask(task[u], made)
      BY <1>1, <1>2 DEF Goto, RegistryInv, GoodTasks
    <3>2. task[u].obj \in Objs => made'[task[u].obj] = made[task[u].obj]
      BY <3>1, <1>1 DEF RegistryInv, GoodRegistry
    <3> QED BY <3>1, <3>2 DEF GoodTask
  <2> QED BY <2>1, <2>2
<1> QED BY <1>1, <1>4, <1>5 DEF RegistryInv, GoodTasks, Goto

LEMMA MakeRoomStep ==
    ASSUME RegistryInv, NEW t \in Tasks, task[t].id \in Ids, saved' = saved,
           NEW a, NEW l, NEW p, GoodRegistry(a, l, p, made), MakeRoom(t, a, l, p)
    PROVE  RegistryInv'
<1> DEFINE victim == a[Head(l)]
           popped == [a EXCEPT ![Head(l)] = NoObj]
<1>1. CASE AtCapacity(a) /\ l # <<>>
  <2>1. /\ Tail(l) \in Seq(Ids) /\ Head(l) \in Ids
        /\ Keys(l) \ {Head(l)} \subseteq Keys(Tail(l))
    BY <1>1, TailKeeps DEF GoodRegistry
  <2>2. GoodRegistry(popped, Tail(l), p, made)
    BY <2>1 DEF GoodRegistry
  <2>3. CASE victim # NoObj /\ p[victim] # "closed"
    <3>1. /\ active' = popped /\ lru' = Tail(l)
          /\ pool' = [p EXCEPT ![victim] = "closing"]
          /\ Goto(t, [task[t] EXCEPT !.pc = "evicting", !.obj = victim])
          /\ made' = made
      BY <1>1, <2>3 DEF MakeRoom, AfterEviction
    <3>2. victim \in Objs
      BY <2>1, <2>3 DEF GoodRegistry
    <3>3. GoodRegistry(active, lru, pool, made)'
      BY <2>2, <3>1, <3>2 DEF GoodRegistry, Pools
    <3>4. GoodTask([task[t] EXCEPT !.pc = "evicting", !.obj = victim], made)
      <4>1. task[t] \in Task
        BY DEF RegistryInv, GoodTasks, GoodTask
      <4> QED BY <4>1, <3>2 DEF GoodTask, Task
    <3>5. GoodTasks'
      BY <3>1, <3>4, OneTask DEF RegistryInv
    <3> QED BY <3>3, <3>5 DEF RegistryInv
  <2>4. CASE ~(victim # NoObj /\ p[victim] # "closed")
    <3>1. StartConnect(t, popped, Tail(l), p)
      BY <1>1, <2>4 DEF MakeRoom, AfterEviction
    <3> HIDE DEF popped, victim
    <3> QED BY <2>2, <3>1, StartConnectStep
  <2> QED BY <2>3, <2>4
<1>2. CASE ~(AtCapacity(a) /\ l # <<>>)
  <2>1. StartConnect(t, a, l, p)
    BY <1>2 DEF MakeRoom
  <2> QED BY <2>1, StartConnectStep
<1> QED BY <1>1, <1>2

LEMMA DropEntryStep ==
    ASSUME RegistryInv, NEW t \in Tasks, task[t].id \in Ids, saved' = saved,
           NEW p, GoodRegistry(active, lru, p, made), DropEntry(t, p)
    PROVE  RegistryInv'
<1> DEFINE c == task[t].id
           a == [active EXCEPT ![c] = NoObj]
           l == Forget(lru, c)
<1>1. CASE active[c] = NoObj
  <2>1. pool' = p /\ Goto(t, [Idle EXCEPT !.pc = "key_error"]) /\ UNCHANGED <<active, lru, made>>
    BY <1>1 DEF DropEntry
  <2>2. 0 \in Versions
    BY RegistryAssumption DEF Versions
  <2>3. GoodTasks'
    BY <2>1, <2>2, OneTask, FreshTaskIsGood DEF RegistryInv
  <2> QED BY <2>1, <2>3 DEF RegistryInv
<1>2. CASE active[c] # NoObj
  <2>1. MakeRoom(t, a, l, p)
    BY <1>2 DEF DropEntry
  <2>2. l \in Seq(Ids) /\ Keys(lru) \ {c} \subseteq Keys(l)
    BY ForgetKeeps DEF RegistryInv, GoodRegistry
  <2>3. GoodRegistry(a, l, p, made)
    BY <2>2 DEF GoodRegistry
  <2> HIDE DEF a, l
  <2> QED BY <2>1, <2>3, MakeRoomStep
<1> QED BY <1>1, <1>2

LEMMA DiscardStep ==
    ASSUME RegistryInv, NEW t \in Tasks, task[t].id \in Ids, saved' = saved,
           NEW o \in Objs, Discard(t, o)
    PROVE  RegistryInv'
<1>1. CASE Suspends(o)
  <2>1. /\ pool' = [pool EXCEPT ![o] = "closing"] /\ UNCHANGED <<active, lru, made>>
        /\ Goto(t, [task[t] EXCEPT !.pc = "dropping", !.obj = o])
    BY <1>1 DEF Discard, Closing
  <2>2. GoodTask([task[t] EXCEPT !.pc = "dropping", !.obj = o], made)
    <3>1. task[t] \in Task
      BY DEF RegistryInv, GoodTasks, GoodTask
    <3> QED BY <3>1 DEF GoodTask, Task
  <2>3. GoodRegistry(active, lru, pool, made)'
    BY <2>1 DEF RegistryInv, GoodRegistry, Pools
  <2>4. GoodTasks'
    BY <2>1, <2>2, OneTask DEF RegistryInv
  <2> QED BY <2>3, <2>4 DEF RegistryInv
<1>2. CASE ~Suspends(o)
  <2>1. DropEntry(t, pool)
    BY <1>2 DEF Discard
  <2> QED BY <2>1, DropEntryStep DEF RegistryInv
<1> QED BY <1>1, <1>2

LEMMA LookupStep ==
    ASSUME RegistryInv, NEW t \in Tasks, task[t].id \in Ids, saved' = saved, Lookup(t)
    PROVE  RegistryInv'
<1> DEFINE o == active[task[t].id]
<1>1. CASE o = NoObj
  <2>1. MakeRoom(t, active, lru, pool)
    BY <1>1 DEF Lookup
  <2> QED BY <2>1, MakeRoomStep DEF RegistryInv
<1>2. CASE o # NoObj /\ pool[o] = "open"
  <2>1. Goto(t, [task[t] EXCEPT !.pc = "testing", !.obj = o]) /\ UNCHANGED <<active, lru, pool, made>>
    BY <1>2 DEF Lookup
  <2>2. o \in Objs /\ made[o].id = task[t].id
    BY <1>2 DEF RegistryInv, GoodRegistry
  <2>3. GoodTask([task[t] EXCEPT !.pc = "testing", !.obj = o], made)
    <3>1. task[t] \in Task
      BY DEF RegistryInv, GoodTasks, GoodTask
    <3> QED BY <2>2, <3>1 DEF GoodTask, Task
  <2>4. GoodTasks'
    BY <2>1, <2>3, OneTask DEF RegistryInv
  <2> QED BY <2>1, <2>4 DEF RegistryInv
<1>3. CASE o # NoObj /\ pool[o] # "open"
  <2>1. Discard(t, o) /\ o \in Objs
    BY <1>3 DEF Lookup, RegistryInv, GoodRegistry
  <2> QED BY <2>1, DiscardStep
<1> QED BY <1>1, <1>2, <1>3

-----------------------------------------------------------------------------
(* Every step *)

\* A step that leaves registry and pools alone, or only closes pools.
LEMMA QuietStep ==
    ASSUME RegistryInv, NEW t \in Tasks, NEW r, GoodTask(r, made), Goto(t, r),
           UNCHANGED <<active, lru, made, saved>>,
           \/ pool' = pool
           \/ \E o : pool' = Closing(o) \/ pool' = Closed(o)
    PROVE  RegistryInv'
<1>1. GoodRegistry(active, lru, pool, made)'
  BY DEF RegistryInv, GoodRegistry, Pools, Closing, Closed
<1>2. GoodTasks'
  BY OneTask DEF RegistryInv
<1> QED BY <1>1, <1>2 DEF RegistryInv

\* Popping an id from both dictionaries leaves the other entries good.
LEMMA PopStep ==
    ASSUME RegistryInv, NEW t \in Tasks, NEW r, GoodTask(r, made), Goto(t, r),
           NEW c \in Ids, active' = [active EXCEPT ![c] = NoObj], lru' = Forget(lru, c),
           UNCHANGED <<made, saved>>,
           \/ pool' = pool
           \/ \E o : pool' = Closing(o) \/ pool' = Closed(o)
    PROVE  RegistryInv'
<1>1. lru' \in Seq(Ids) /\ Keys(lru) \ {c} \subseteq Keys(lru')
  BY ForgetKeeps DEF RegistryInv, GoodRegistry
<1>2. pool' \in [Objs -> Pools] /\ \A o \in Objs : pool[o] # "opening" => pool'[o] # "opening"
  BY DEF RegistryInv, GoodRegistry, Pools, Closing, Closed
<1>3. GoodRegistry(active, lru, pool, made)'
  BY <1>1, <1>2 DEF RegistryInv, GoodRegistry
<1>4. GoodTasks'
  BY OneTask DEF RegistryInv
<1> QED BY <1>3, <1>4 DEF RegistryInv

LEMMA RemoveEntryStep ==
    ASSUME RegistryInv, NEW t \in Tasks, NEW c \in Ids, NEW v \in Versions,
           RemoveEntry(t, c, v), UNCHANGED <<made, saved>>,
           pool' = pool \/ \E o : pool' = Closed(o)
    PROVE  RegistryInv'
<1>1. /\ GoodTask([Idle EXCEPT !.pc = "key_error"], made)
      /\ GoodTask([Idle EXCEPT !.pc = "committing", !.id = c, !.ver = v], made)
  BY FreshTaskIsGood
<1>2. CASE active[c] = NoObj
  BY <1>1, <1>2, QuietStep DEF RemoveEntry
<1>3. CASE active[c] # NoObj
  BY <1>1, <1>3, PopStep DEF RemoveEntry
<1> QED BY <1>2, <1>3

LEMMA ContinueStep ==
    ASSUME RegistryInv, NEW t \in Tasks, Continue(t)
    PROVE  RegistryInv'
<1>1. /\ task[t] \in Task /\ GoodTask(task[t], made)
      /\ GoodRegistry(active, lru, pool, made)
  BY DEF RegistryInv, GoodTasks, GoodTask
<1>2. GoodTask(Idle, made)
  BY IdleIsGood
<1>3. CASE GetConnector(t)
  <2>1. task[t].id \in Ids /\ saved' = saved
    BY <1>1, <1>3 DEF GetConnector, GoodTask
  <2>2. CASE Lookup(t)
    BY <2>1, <2>2, LookupStep
  <2>3. ASSUME NEW n \in 1..Len(lru),
               Goto(t, [task[t] EXCEPT !.pc = "sweep", !.stale = SubSeq(lru, 1, n)]),
               UNCHANGED <<active, lru, pool, made>>
        PROVE  RegistryInv'
    <3>1. SubSeq(lru, 1, n) \in Seq(Ids)
      BY <1>1 DEF GoodRegistry
    <3>2. GoodTask([task[t] EXCEPT !.pc = "sweep", !.stale = SubSeq(lru, 1, n)], made)
      BY <1>1, <2>1, <3>1 DEF GoodTask, Task
    <3> QED BY <2>1, <2>3, <3>2, QuietStep
  <2> QED BY <1>3, <2>2, <2>3 DEF GetConnector
<1>4. CASE SweepNext(t)
  <2> DEFINE c == Head(task[t].stale)
             o == active[c]
             rest == [task[t] EXCEPT !.stale = Tail(@)]
  <2>1. task[t].stale \in Seq(Ids) /\ task[t].stale # <<>> /\ task[t].id \in Ids
    BY <1>1, <1>4 DEF SweepNext, Task, GoodTask
  <2>2. c \in Ids /\ Tail(task[t].stale) \in Seq(Ids)
    BY <2>1, TailKeeps
  <2>3. rest.pc = "sweep" /\ GoodTask(rest, made)
    BY <1>1, <1>4, <2>1, <2>2 DEF SweepNext, GoodTask, Task
  <2>4. CASE Suspends(o)
    <3>1. o \in Objs
      BY <1>1, <2>2, <2>4 DEF Suspends, GoodRegistry
    <3>2. GoodTask([rest EXCEPT !.pc = "sweeping", !.obj = o], made)
      BY <2>1, <2>3, <3>1 DEF GoodTask, Task
    <3> QED BY <1>4, <2>2, <2>4, <3>2, PopStep DEF SweepNext
  <2>5. CASE ~Suspends(o)
    BY <1>4, <2>2, <2>3, <2>5, PopStep DEF SweepNext
  <2> QED BY <2>4, <2>5
<1>5. CASE SweepClosed(t)
  <2>1. GoodTask([task[t] EXCEPT !.pc = "sweep", !.obj = NoObj], made)
    BY <1>1, <1>5 DEF SweepClosed, GoodTask, Task
  <2> QED BY <1>5, <2>1, QuietStep DEF SweepClosed
<1>6. CASE SweepDone(t)
  <2>1. task[t].id \in Ids
    BY <1>1, <1>6 DEF SweepDone, GoodTask
  <2> QED BY <1>6, <2>1, LookupStep DEF SweepDone
<1>7. CASE TestPassed(t)
  <2>1. task[t].id \in Ids
    BY <1>1, <1>7 DEF TestPassed, GoodTask
  <2>2. lru' \in Seq(Ids) /\ Keys(lru) \subseteq Keys(lru')
    BY <1>1, <1>7, <2>1, TouchKeeps DEF TestPassed, GoodRegistry
  <2>3. GoodTask([task[t] EXCEPT !.pc = "using"], made)
    BY <1>1, <1>7 DEF TestPassed, GoodTask, Task
  <2>4. GoodRegistry(active, lru, pool, made)'
    BY <1>1, <1>7, <2>2 DEF TestPassed, GoodRegistry
  <2>5. GoodTasks'
    BY <1>7, <2>3, OneTask DEF TestPassed, RegistryInv
  <2> QED BY <1>7, <2>4, <2>5 DEF TestPassed, RegistryInv
<1>8. CASE TestFailed(t)
  <2>1. task[t].id \in Ids /\ task[t].obj \in Objs
    BY <1>1, <1>8 DEF TestFailed, GoodTask
  <2> QED BY <1>8, <2>1, DiscardStep DEF TestFailed
<1>9. CASE Dropped(t)
  <2>1. task[t].id \in Ids
    BY <1>1, <1>9 DEF Dropped, GoodTask
  <2>2. GoodRegistry(active, lru, Closed(task[t].obj), made)
    BY <1>1 DEF Closed, GoodRegistry, Pools
  <2> QED BY <1>9, <2>1, <2>2, DropEntryStep DEF Dropped
<1>10. CASE Evicted(t)
  <2>1. task[t].id \in Ids
    BY <1>1, <1>10 DEF Evicted, GoodTask
  <2>2. GoodRegistry(active, lru, Closed(task[t].obj), made)
    BY <1>1 DEF Closed, GoodRegistry, Pools
  <2> QED BY <1>10, <2>1, <2>2, StartConnectStep DEF Evicted
<1>11. CASE Connected(t)
  <2> DEFINE c == task[t].id
             o == task[t].obj
  <2>1. c \in Ids /\ o \in Objs /\ made[o].id = c
    BY <1>1, <1>11 DEF Connected, GoodTask
  <2>2. lru' \in Seq(Ids) /\ Keys(lru) \cup {c} \subseteq Keys(lru')
    BY <1>1, <1>11, <2>1, TouchKeeps DEF Connected, GoodRegistry
  <2>3. GoodTask([task[t] EXCEPT !.pc = "using"], made)
    BY <1>1, <1>11 DEF Connected, GoodTask, Task
  <2>4. GoodRegistry(active, lru, pool, made)'
    BY <1>1, <1>11, <2>1, <2>2 DEF Connected, GoodRegistry, Pools
  <2>5. GoodTasks'
    BY <1>11, <2>3, OneTask DEF Connected, RegistryInv
  <2> QED BY <1>11, <2>4, <2>5 DEF Connected, RegistryInv
<1>12. CASE ConnectFailed(t)
  BY <1>2, <1>12, QuietStep DEF ConnectFailed
<1>13. CASE Finish(t)
  BY <1>2, <1>13, QuietStep DEF Finish
<1>14. CASE Removed(t)
  <2>1. task[t].id \in Ids /\ task[t].ver \in Versions
    BY <1>1, <1>14 DEF Removed, GoodTask, Task
  <2> QED BY <1>14, <2>1, RemoveEntryStep DEF Removed
<1>15. CASE CommitUpdate(t)
  <2>1. task[t].ver \in Versions
    BY <1>1 DEF Task
  <2>2. saved' \in [Ids -> Versions]
    BY <1>15, <2>1 DEF CommitUpdate, RegistryInv
  <2>3. GoodTasks'
    BY <1>2, <1>15, OneTask DEF CommitUpdate, RegistryInv
  <2> QED BY <1>15, <2>2, <2>3 DEF CommitUpdate, RegistryInv
<1> QED
  BY <1>3, <1>4, <1>5, <1>6, <1>7, <1>8, <1>9, <1>10, <1>11, <1>12, <1>13, <1>14, <1>15
  DEF Continue

LEMMA ReadConnectionStep ==
    ASSUME RegistryInv, NEW t \in Tasks, ReadConnection(t)
    PROVE  RegistryInv'
<1>1. PICK c \in Ids : Goto(t, [Idle EXCEPT !.pc = "read", !.id = c, !.ver = saved[c]])
  BY DEF ReadConnection
<1>2. saved[c] \in Versions
  BY DEF RegistryInv
<1>3. GoodTask([Idle EXCEPT !.pc = "read", !.id = c, !.ver = saved[c]], made)
  BY <1>2, FreshTaskIsGood
<1> QED BY <1>1, <1>3, QuietStep DEF ReadConnection

LEMMA UpdateConnectionStep ==
    ASSUME RegistryInv, NEW t \in Tasks, UpdateConnection(t)
    PROVE  RegistryInv'
<1>1. PICK c \in Ids :
        /\ saved[c] < MaxVersion
        /\ LET o == active[c]
               next == [Idle EXCEPT !.id = c, !.ver = saved[c] + 1]
           IN  \/ /\ o = NoObj
                  /\ Goto(t, [next EXCEPT !.pc = "committing"])
                  /\ UNCHANGED <<active, lru, pool>>
               \/ /\ Suspends(o)
                  /\ pool' = Closing(o)
                  /\ Goto(t, [next EXCEPT !.pc = "removing", !.obj = o])
                  /\ UNCHANGED <<active, lru>>
               \/ /\ o # NoObj /\ ~Suspends(o)
                  /\ RemoveEntry(t, c, saved[c] + 1)
                  /\ UNCHANGED pool
  BY DEF UpdateConnection
<1> DEFINE o == active[c]
           v == saved[c] + 1
           next == [Idle EXCEPT !.id = c, !.ver = v]
<1>2. v \in Versions /\ UNCHANGED <<made, saved>>
  BY <1>1, RegistryAssumption DEF RegistryInv, Versions, UpdateConnection
<1>3. Idle \in Task
  BY IdleIsGood
<1>4. next \in Task /\ next.id = c
  BY <1>2, <1>3 DEF Task
<1>5. CASE o = NoObj /\ Goto(t, [next EXCEPT !.pc = "committing"]) /\ UNCHANGED <<active, lru, pool>>
  <2>1. GoodTask([next EXCEPT !.pc = "committing"], made)
    BY <1>4 DEF GoodTask, Task
  <2> QED BY <1>2, <1>5, <2>1, QuietStep
<1>6. CASE /\ Suspends(o) /\ pool' = Closing(o)
           /\ Goto(t, [next EXCEPT !.pc = "removing", !.obj = o])
           /\ UNCHANGED <<active, lru>>
  <2>1. o \in Objs
    BY <1>6 DEF Suspends, RegistryInv, GoodRegistry
  <2>2. GoodTask([next EXCEPT !.pc = "removing", !.obj = o], made)
    BY <1>4, <2>1 DEF GoodTask, Task
  <2> QED BY <1>2, <1>6, <2>2, QuietStep
<1>7. CASE RemoveEntry(t, c, v) /\ UNCHANGED pool
  BY <1>2, <1>7, RemoveEntryStep
<1> QED BY <1>1, <1>5, <1>6, <1>7

LEMMA InitIsGood == Init => RegistryInv
<1> SUFFICES ASSUME Init PROVE RegistryInv
  OBVIOUS
<1>1. GoodRegistry(active, lru, pool, made)
  BY RegistryAssumption DEF Init, GoodRegistry, Pools, Versions
<1>2. saved \in [Ids -> Versions]
  BY RegistryAssumption DEF Init, Versions
<1>3. GoodTasks
  BY IdleIsGood DEF GoodTasks, Init
<1> QED BY <1>1, <1>2, <1>3 DEF RegistryInv

\* The inductive invariant holds in every reachable state.
THEOREM RegistrySafe == Spec => []RegistryInv
<1>1. RegistryInv /\ [Next]_vars => RegistryInv'
  <2> SUFFICES ASSUME RegistryInv, [Next]_vars PROVE RegistryInv'
    OBVIOUS
  <2>1. CASE UNCHANGED vars
    BY <2>1 DEF vars, RegistryInv, GoodTasks
  <2>2. CASE Next
    BY <2>2, ReadConnectionStep, UpdateConnectionStep, ContinueStep DEF Next, Begin
  <2> QED BY <2>1, <2>2
<1> QED BY InitIsGood, <1>1, PTL DEF Spec

LEMMA OverlapTyped == Spec => [](overlapped \in BOOLEAN)
<1>1. Init => overlapped \in BOOLEAN
  BY DEF Init
<1>2. overlapped \in BOOLEAN /\ [Next]_vars => (overlapped \in BOOLEAN)'
  BY Zenon DEF Next, Begin, Continue, vars
<1> QED BY <1>1, <1>2, PTL DEF Spec

LEMMA InvMeans ==
    RegistryInv /\ overlapped \in BOOLEAN => TypeOK /\ RegisteredForItsId /\ EvictionReachesAll
<1> SUFFICES ASSUME RegistryInv, overlapped \in BOOLEAN PROVE TypeOK /\ RegisteredForItsId /\ EvictionReachesAll
  OBVIOUS
<1>1. TypeOK
  BY DEF RegistryInv, GoodRegistry, GoodTasks, GoodTask, TypeOK, Pools
<1>2. RegisteredForItsId
  BY DEF RegistryInv, GoodRegistry, GoodTasks, GoodTask, RegisteredForItsId, Registered
<1>3. EvictionReachesAll
  BY DEF RegistryInv, GoodRegistry, EvictionReachesAll, Registered
<1> QED BY <1>1, <1>2, <1>3

\* However requests for any connections interleave, the registry is sound
\* (connector_registry.py).
THEOREM RegistryStaysSound == Spec => []RegistryIsSound
<1>1. RegistryInv /\ overlapped \in BOOLEAN => RegistryIsSound
  BY InvMeans DEF RegistryIsSound
<1> QED
  BY <1>1, RegistrySafe, OverlapTyped, PTL

\* The state of the registry and of every request is well typed.
THEOREM RegistryTypeCorrect == Spec => []TypeOK
BY RegistrySafe, OverlapTyped, InvMeans, PTL

\* No interleaving of the awaits registers a connector under a foreign id, or
\* hands a request the connector of another database.
THEOREM NeverMixedUp == Spec => []RegisteredForItsId
BY RegistrySafe, OverlapTyped, InvMeans, PTL

\* No interleaving leaves a registered connector without an access time, out
\* of the reach of eviction and of the cleanup of stale entries.
THEOREM NothingOutOfReach == Spec => []EvictionReachesAll
BY RegistrySafe, OverlapTyped, InvMeans, PTL

-----------------------------------------------------------------------------
(* Requests one after the other.  The access list then names every entry     *)
(* once, so forgetting, touching and evicting change it as they change the   *)
(* registry.                                                                 *)

LEMMA ForgetExactly ==
    ASSUME NEW s \in Seq(Ids), NEW c \in Ids, Distinct(s)
    PROVE  /\ Forget(s, c) \in Seq(Ids) /\ Distinct(Forget(s, c))
           /\ Keys(Forget(s, c)) = Keys(s) \ {c}
<1>1. CASE c \in Keys(s)
  <2> DEFINE i == CHOOSE i \in DOMAIN s : s[i] = c
  <2>1. i \in DOMAIN s /\ s[i] = c
    BY <1>1 DEF Keys
  <2>2. Forget(s, c) = SubSeq(s, 1, i - 1) \o SubSeq(s, i + 1, Len(s))
    BY <1>1 DEF Forget
  <2> HIDE DEF i
  <2> QED BY <2>1, <2>2, RemoveKeeps
<1>2. CASE c \notin Keys(s)
  BY <1>2 DEF Forget
<1> QED BY <1>1, <1>2

LEMMA TouchExactly ==
    ASSUME NEW s \in Seq(Ids), NEW c \in Ids, Distinct(s)
    PROVE  Distinct(Touch(s, c)) /\ Keys(Touch(s, c)) = Keys(s) \cup {c}
<1> DEFINE f == Forget(s, c)
           g == Append(f, c)
<1>1. f \in Seq(Ids) /\ Distinct(f) /\ Keys(f) = Keys(s) \ {c}
  BY ForgetExactly
<1> HIDE DEF f
<1>2. /\ DOMAIN g = 1..Len(f) + 1 /\ DOMAIN f = 1..Len(f)
      /\ \A j \in 1..Len(f) : g[j] = f[j]
      /\ g[Len(f) + 1] = c
      /\ Len(f) \in Nat
  BY <1>1
<1> HIDE DEF g
<1>3. \A j \in DOMAIN f : f[j] # c
  BY <1>1 DEF Keys
<1>4. Keys(g) = Keys(f) \cup {c}
  BY <1>2 DEF Keys
<1>5. ASSUME NEW j \in DOMAIN g, NEW l \in DOMAIN g, g[j] = g[l]
      PROVE  j = l
  <2>1. j \in DOMAIN f \/ j = Len(f) + 1
    BY <1>2
  <2>2. l \in DOMAIN f \/ l = Len(f) + 1
    BY <1>2
  <2> QED BY <1>1, <1>2, <1>3, <1>5, <2>1, <2>2 DEF Distinct
<1>6. Touch(s, c) = g
  BY DEF Touch, f, g
<1> QED BY <1>1, <1>4, <1>5, <1>6 DEF Distinct

LEMMA TailExactly ==
    ASSUME NEW s \in Seq(Ids), s # <<>>, Distinct(s)
    PROVE  /\ Distinct(Tail(s)) /\ Head(s) \in Keys(s)
           /\ Keys(Tail(s)) = Keys(s) \ {Head(s)}
<1>1. /\ Len(s) \in Nat \ {0} /\ DOMAIN s = 1..Len(s)
      /\ DOMAIN Tail(s) = 1..Len(s) - 1
      /\ \A j \in 1..Len(s) - 1 : Tail(s)[j] = s[j + 1]
      /\ Head(s) = s[1]
  OBVIOUS
<1>2. 1 \in DOMAIN s /\ Head(s) \in Keys(s)
  BY <1>1 DEF Keys
<1>3. ASSUME NEW j \in DOMAIN Tail(s)
      PROVE  j + 1 \in DOMAIN s /\ Tail(s)[j] = s[j + 1] /\ j + 1 # 1
  BY <1>1
<1>4. Keys(Tail(s)) \subseteq Keys(s) \ {Head(s)}
  BY <1>1, <1>2, <1>3 DEF Keys, Distinct
<1>5. Keys(s) \ {Head(s)} \subseteq Keys(Tail(s))
  BY TailKeeps
<1>6. ASSUME NEW j \in DOMAIN Tail(s), NEW l \in DOMAIN Tail(s), Tail(s)[j] = Tail(s)[l]
      PROVE  j = l
  <2>1. j + 1 = l + 1
    BY <1>3, <1>6 DEF Distinct
  <2> QED BY <1>1, <2>1
<1> QED BY <1>2, <1>4, <1>5, <1>6 DEF Distinct

-----------------------------------------------------------------------------
\* A registry, access list and pools of which one request knows all: the two
\* dictionaries agree, the bound is kept, what is cached is of the saved string,
\* and what is open is cached.
Present(a) == {c \in Ids : a[c] # NoObj}

Tidy(a, l, p, m, s) ==
    /\ Distinct(l) /\ Keys(l) = Present(a)
    /\ IsFiniteSet(Present(a)) /\ Cardinality(Present(a)) <= MaxCached
    /\ \A c \in Ids : a[c] # NoObj => m[a[c]].ver = s[c]
    /\ \A o \in Objs : p[o] = "open" => \E c \in Ids : a[c] = o

\* What the only request relies on after each of its awaits.
Steady(r, a, m, s) ==
    /\ r.pc = "idle" => r = Idle
    /\ r.pc \in {"testing", "dropping", "removing"} => a[r.id] = r.obj
    /\ r.pc \in {"evicting", "connecting"} =>
          a[r.id] = NoObj /\ Cardinality(Present(a)) < MaxCached
    /\ r.pc = "committing" => a[r.id] = NoObj
    /\ r.pc \in {"read", "sweep", "sweeping", "testing", "dropping", "evicting", "connecting"} =>
          r.ver = s[r.id]
    /\ r.pc = "connecting" => m[r.obj].ver = r.ver

Alone(t) ==
    /\ \A u \in Tasks \ {t} : task[u] = Idle
    /\ Tidy(active, lru, pool, made, saved)
    /\ Steady(task[t], active, made, saved)

AloneInv ==
    ~overlapped =>
        /\ Tidy(active, lru, pool, made, saved)
        /\ \A t \in Tasks : task[t] = Idle \/ Alone(t)

\* The request goes on in a tidy registry.
LEMMA GoesOn ==
    ASSUME RegistryInv, NEW t \in Tasks, Alone(t), NEW r, Goto(t, r),
           Tidy(active, lru, pool, made, saved)', Steady(r, active', made', saved')
    PROVE  Alone(t)'
<1>1. task'[t] = r /\ \A u \in Tasks \ {t} : task'[u] = task[u]
  BY DEF Goto, RegistryInv, GoodTasks
<1> QED BY <1>1 DEF Alone

\* The entry of c is popped from both dictionaries, and its pool is not left open.
Popped(c, a, l, p, b, k, q) ==
    /\ c \in Ids /\ b[c] = NoObj /\ \A d \in Ids : d # c => b[d] = a[d]
    /\ Distinct(k) /\ Keys(k) = Keys(l) \ {c}
    /\ \A o \in Objs : q[o] = "open" => p[o] = "open" /\ o # a[c]

LEMMA PoppedIsTidy ==
    ASSUME NEW c, NEW a, NEW l, NEW p, NEW b, NEW k, NEW q,
           Tidy(a, l, p, made, saved), Popped(c, a, l, p, b, k, q)
    PROVE  /\ Tidy(b, k, q, made, saved)
           /\ a[c] # NoObj => Cardinality(Present(b)) < MaxCached
<1>1. Present(b) = Present(a) \ {c}
  BY DEF Present, Popped
<1>2. /\ IsFiniteSet(Present(b)) /\ Cardinality(Present(a)) \in Nat
      /\ Cardinality(Present(b)) = IF c \in Present(a) THEN Cardinality(Present(a)) - 1
                                                       ELSE Cardinality(Present(a))
  <2>1. IsFiniteSet(Present(a))
    BY DEF Tidy
  <2>2. Cardinality(Present(a)) \in Nat
    BY <2>1, FS_CardinalityType
  <2>3. /\ IsFiniteSet(Present(a) \ {c})
        /\ Cardinality(Present(a) \ {c}) = IF c \in Present(a) THEN Cardinality(Present(a)) - 1
                                                               ELSE Cardinality(Present(a))
    BY <2>1, FS_RemoveElement
  <2> QED BY <1>1, <2>2, <2>3
<1>3. /\ Cardinality(Present(b)) <= MaxCached
      /\ a[c] # NoObj => Cardinality(Present(b)) < MaxCached
  <2>1. Cardinality(Present(a)) <= MaxCached /\ MaxCached \in Nat
    BY RegistryAssumption DEF Tidy
  <2>2. a[c] # NoObj => c \in Present(a)
    BY DEF Present, Popped
  <2> QED BY <1>2, <2>1, <2>2
<1>4. \A d \in Ids : b[d] # NoObj => made[b[d]].ver = saved[d]
  BY DEF Tidy, Popped
<1>5. \A o \in Objs : q[o] = "open" => \E d \in Ids : b[d] = o
  BY DEF Tidy, Popped
<1>6. Keys(k) = Present(b) /\ Distinct(k)
  BY <1>1 DEF Tidy, Popped
<1> QED BY <1>2, <1>3, <1>4, <1>5, <1>6 DEF Tidy

LEMMA AloneConnects ==
    ASSUME RegistryInv, NEW t \in Tasks, Alone(t), task[t].id \in Ids, saved' = saved,
           NEW a, NEW l, NEW p, GoodRegistry(a, l, p, made), Tidy(a, l, p, made, saved),
           a[task[t].id] = NoObj, Cardinality(Present(a)) < MaxCached,
           task[t].ver = saved[task[t].id], StartConnect(t, a, l, p)
    PROVE  Alone(t)'
<1> DEFINE r(o) == [task[t] EXCEPT !.pc = "connecting", !.obj = o]
<1>1. PICK o \in Unreferenced(t, a) :
        /\ active' = a /\ lru' = l
        /\ pool' = [p EXCEPT ![o] = "opening"]
        /\ made' = [made EXCEPT ![o] = [id |-> task[t].id, ver |-> task[t].ver]]
        /\ Goto(t, r(o))
  BY DEF StartConnect
<1>2. o \in Objs /\ \A c \in Ids : a[c] # o
  BY <1>1 DEF Unreferenced
<1>3. task[t] \in Task
  BY DEF RegistryInv, GoodTasks, GoodTask
<1>4. /\ r(o).pc = "connecting" /\ r(o).obj = o
      /\ r(o).id = task[t].id /\ r(o).ver = task[t].ver
  BY <1>3 DEF Task
<1>5. made'[o].ver = task[t].ver /\ \A c \in Ids : a[c] # NoObj => made'[a[c]] = made[a[c]]
  BY <1>1, <1>2 DEF GoodRegistry
<1>6. Tidy(active, lru, pool, made, saved)'
  BY <1>1, <1>2, <1>5 DEF Tidy, GoodRegistry
<1> HIDE DEF r
<1>7. Steady(r(o), active', made', saved')
  BY <1>1, <1>4, <1>5 DEF Steady
<1> QED BY <1>1, <1>6, <1>7, GoesOn

LEMMA AloneMakesRoom ==
    ASSUME RegistryInv, NEW t \in Tasks, Alone(t), task[t].id \in Ids, saved' = saved,
           NEW a, NEW l, NEW p, GoodRegistry(a, l, p, made), Tidy(a, l, p, made, saved),
           a[task[t].id] = NoObj, task[t].ver = saved[task[t].id], MakeRoom(t, a, l, p)
    PROVE  Alone(t)'
<1>1. CASE AtCapacity(a) /\ l # <<>>
  <2> DEFINE c == Head(l)
             victim == a[c]
             popped == [a EXCEPT ![c] = NoObj]
  <2>1. /\ Tail(l) \in Seq(Ids) /\ c \in Ids
        /\ Distinct(Tail(l)) /\ Keys(Tail(l)) = Keys(l) \ {c}
        /\ victim # NoObj
    BY <1>1, TailKeeps, TailExactly DEF GoodRegistry, Tidy, Present
  <2>2. victim \in Objs /\ a \in [Ids -> Objs \cup {NoObj}] /\ p \in [Objs -> Pools]
    BY <2>1 DEF GoodRegistry
  <2>3. popped[task[t].id] = NoObj
    BY <2>2
  <2>4. CASE p[victim] # "closed"
    <3> DEFINE q == [p EXCEPT ![victim] = "closing"]
               r == [task[t] EXCEPT !.pc = "evicting", !.obj = victim]
    <3>1. /\ active' = popped /\ lru' = Tail(l) /\ pool' = q /\ Goto(t, r)
          /\ made' = made
      BY <1>1, <2>1, <2>4 DEF MakeRoom, AfterEviction
    <3>2. \A o \in Objs : q[o] = "open" => p[o] = "open" /\ o # victim
      BY <2>2
    <3>9. Popped(c, a, l, p, popped, Tail(l), q)
      BY <2>1, <2>2, <3>2 DEF Popped
    <3> HIDE DEF q, popped, c
    <3>3. Tidy(popped, Tail(l), q, made, saved) /\ Cardinality(Present(popped)) < MaxCached
      BY <2>1, <3>9, PoppedIsTidy DEF c
    <3>4. r.pc = "evicting" /\ r.id = task[t].id /\ r.ver = task[t].ver
      <4>1. task[t] \in Task
        BY DEF RegistryInv, GoodTasks, GoodTask
      <4> QED BY <4>1 DEF Task
    <3> HIDE DEF r
    <3>5. Steady(r, popped, made, saved)
      BY <2>3, <3>3, <3>4 DEF Steady
    <3> QED BY <3>1, <3>3, <3>5, GoesOn
  <2>5. CASE p[victim] = "closed"
    <3>1. StartConnect(t, popped, Tail(l), p)
      BY <1>1, <2>5 DEF MakeRoom, AfterEviction
    <3>2. Popped(c, a, l, p, popped, Tail(l), p)
      BY <2>1, <2>2, <2>5 DEF Popped
    <3>4. GoodRegistry(popped, Tail(l), p, made)
      BY <2>1, TailKeeps, <1>1 DEF GoodRegistry
    <3> HIDE DEF popped, c
    <3>3. Tidy(popped, Tail(l), p, made, saved) /\ Cardinality(Present(popped)) < MaxCached
      BY <2>1, <3>2, PoppedIsTidy DEF c
    <3> QED BY <2>3, <3>1, <3>3, <3>4, AloneConnects
  <2> QED BY <2>4, <2>5
<1>2. CASE ~(AtCapacity(a) /\ l # <<>>)
  <2>1. StartConnect(t, a, l, p)
    BY <1>2 DEF MakeRoom
  <2>2. Cardinality(Present(a)) < MaxCached
    <3>1. CASE l = <<>>
      <4>1. Present(a) = {}
        BY <3>1 DEF Tidy, Keys
      <4> QED BY <4>1, FS_EmptySet, RegistryAssumption
    <3>2. CASE ~AtCapacity(a)
      <4>1. Cardinality(Present(a)) \in Nat
        BY FS_CardinalityType DEF Tidy
      <4> QED BY <3>2, <4>1, RegistryAssumption DEF AtCapacity, Present
    <3> QED BY <1>2, <3>1, <3>2
  <2> QED BY <2>1, <2>2, AloneConnects
<1> QED BY <1>1, <1>2

LEMMA AloneDrops ==
    ASSUME RegistryInv, NEW t \in Tasks, Alone(t), task[t].id \in Ids, saved' = saved,
           NEW p, GoodRegistry(active, lru, p, made), active[task[t].id] \in Objs,
           \A o \in Objs : p[o] = "open" => pool[o] = "open" /\ o # active[task[t].id],
           task[t].ver = saved[task[t].id], DropEntry(t, p)
    PROVE  Alone(t)'
<1> DEFINE c == task[t].id
           a == [active EXCEPT ![c] = NoObj]
           l == Forget(lru, c)
<1>1. active[c] # NoObj /\ active \in [Ids -> Objs \cup {NoObj}] /\ lru \in Seq(Ids)
  BY RegistryAssumption DEF GoodRegistry
<1>2. MakeRoom(t, a, l, p)
  BY <1>1 DEF DropEntry
<1>3. Tidy(active, lru, pool, made, saved)
  BY DEF Alone
<1>4. l \in Seq(Ids) /\ Distinct(l) /\ Keys(l) = Keys(lru) \ {c}
  BY <1>1, <1>3, ForgetExactly DEF Tidy
<1>5. GoodRegistry(a, l, p, made)
  BY <1>4 DEF GoodRegistry
<1> HIDE DEF l
<1>7. Popped(c, active, lru, pool, a, l, p) /\ a[c] = NoObj
  BY <1>1, <1>4 DEF Popped
<1> HIDE DEF a, c
<1>6. Tidy(a, l, p, made, saved) /\ a[c] = NoObj
  BY <1>3, <1>7, PoppedIsTidy
<1> QED BY <1>2, <1>5, <1>6, AloneMakesRoom DEF c

LEMMA AloneDiscards ==
    ASSUME RegistryInv, NEW t \in Tasks, Alone(t), task[t].id \in Ids, saved' = saved,
           NEW o \in Objs, active[task[t].id] = o,
           task[t].ver = saved[task[t].id], Discard(t, o)
    PROVE  Alone(t)'
<1>1. GoodRegistry(active, lru, pool, made) /\ Tidy(active, lru, pool, made, saved)
  BY DEF RegistryInv, Alone
<1>2. CASE Suspends(o)
  <2> DEFINE r == [task[t] EXCEPT !.pc = "dropping", !.obj = o]
  <2>1. pool' = Closing(o) /\ UNCHANGED <<active, lru, made>> /\ Goto(t, r)
    BY <1>2 DEF Discard
  <2>2. r.pc = "dropping" /\ r.obj = o /\ r.id = task[t].id /\ r.ver = task[t].ver
    <3>1. task[t] \in Task
      BY DEF RegistryInv, GoodTasks, GoodTask
    <3> QED BY <3>1 DEF Task
  <2>3. \A x \in Objs : pool'[x] = "open" => pool[x] = "open"
    BY <1>1, <2>1 DEF Closing, GoodRegistry
  <2>4. Tidy(active, lru, pool, made, saved)'
    BY <1>1, <2>1, <2>3 DEF Tidy
  <2> HIDE DEF r
  <2>5. Steady(r, active', made', saved')
    BY <2>1, <2>2 DEF Steady
  <2> QED BY <2>1, <2>4, <2>5, GoesOn
<1>3. CASE ~Suspends(o)
  <2>1. DropEntry(t, pool)
    BY <1>3 DEF Discard
  <2>2. \A x \in Objs : pool[x] = "open" => pool[x] = "open" /\ x # active[task[t].id]
    BY <1>3, RegistryAssumption DEF Suspends
  <2> QED BY <1>1, <2>1, <2>2, AloneDrops
<1> QED BY <1>2, <1>3

LEMMA AloneLooksUp ==
    ASSUME RegistryInv, NEW t \in Tasks, Alone(t), task[t].id \in Ids, saved' = saved,
           task[t].ver = saved[task[t].id], Lookup(t)
    PROVE  Alone(t)'
<1> DEFINE o == active[task[t].id]
<1>1. GoodRegistry(active, lru, pool, made) /\ Tidy(active, lru, pool, made, saved)
  BY DEF RegistryInv, Alone
<1>2. CASE o = NoObj
  <2>1. MakeRoom(t, active, lru, pool)
    BY <1>2 DEF Lookup
  <2> QED BY <1>1, <1>2, <2>1, AloneMakesRoom
<1>3. CASE o # NoObj /\ pool[o] = "open"
  <2> DEFINE r == [task[t] EXCEPT !.pc = "testing", !.obj = o]
  <2>1. Goto(t, r) /\ UNCHANGED <<active, lru, pool, made>>
    BY <1>3 DEF Lookup
  <2>2. r.pc = "testing" /\ r.obj = o /\ r.id = task[t].id /\ r.ver = task[t].ver
    <3>1. task[t] \in Task
      BY DEF RegistryInv, GoodTasks, GoodTask
    <3> QED BY <3>1 DEF Task
  <2>3. Tidy(active, lru, pool, made, saved)'
    BY <1>1, <2>1
  <2> HIDE DEF r
  <2>4. Steady(r, active', made', saved')
    BY <2>1, <2>2 DEF Steady
  <2> QED BY <2>1, <2>3, <2>4, GoesOn
<1>4. CASE o # NoObj /\ pool[o] # "open"
  <2>1. Discard(t, o) /\ o \in Objs
    BY <1>1, <1>4 DEF Lookup, GoodRegistry
  <2> QED BY <2>1, AloneDiscards
<1> QED BY <1>2, <1>3, <1>4

-----------------------------------------------------------------------------
\* A step that leaves the registry alone, and opens no pool.
LEMMA AloneQuiet ==
    ASSUME RegistryInv, NEW t \in Tasks, Alone(t), NEW r, Goto(t, r),
           UNCHANGED <<active, lru, made, saved>>, Steady(r, active, made, saved),
           \A o \in Objs : pool'[o] = "open" => pool[o] = "open"
    PROVE  Alone(t)'
<1>1. Tidy(active, lru, pool, made, saved)'
  BY DEF Alone, Tidy
<1> QED BY <1>1, GoesOn

\* A step that pops an entry and does not leave its pool open.
LEMMA AlonePops ==
    ASSUME RegistryInv, NEW t \in Tasks, Alone(t), NEW r, Goto(t, r), NEW c \in Ids,
           active' = [active EXCEPT ![c] = NoObj], lru' = Forget(lru, c),
           UNCHANGED <<made, saved>>, Steady(r, active', made, saved),
           \A o \in Objs : pool'[o] = "open" => pool[o] = "open" /\ o # active[c]
    PROVE  Alone(t)'
<1>1. Tidy(active, lru, pool, made, saved)
  BY DEF Alone
<1>2. Distinct(lru') /\ Keys(lru') = Keys(lru) \ {c}
  BY <1>1, ForgetExactly DEF Tidy, RegistryInv, GoodRegistry
<1>3. Popped(c, active, lru, pool, active', lru', pool')
  BY <1>2 DEF Popped, RegistryInv, GoodRegistry
<1>4. Tidy(active', lru', pool', made, saved)
  BY <1>1, <1>3, PoppedIsTidy
<1> QED BY <1>4, GoesOn

\* Idle, and at the end of an update whose entry is gone.
LEMMA SteadyTasks ==
    ASSUME NEW a, NEW m, NEW s
    PROVE  /\ Steady(Idle, a, m, s)
           /\ Steady([Idle EXCEPT !.pc = "key_error"], a, m, s)
           /\ \A c, v : Steady([Idle EXCEPT !.pc = "read", !.id = c, !.ver = v], a, m, s) <=> v = s[c]
           /\ \A c, v : a[c] = NoObj =>
                 Steady([Idle EXCEPT !.pc = "committing", !.id = c, !.ver = v], a, m, s)
BY DEF Steady, Idle

LEMMA AloneRemoves ==
    ASSUME RegistryInv, NEW t \in Tasks, Alone(t), NEW c \in Ids, NEW v \in Versions,
           RemoveEntry(t, c, v), UNCHANGED <<made, saved>>,
           \A o \in Objs : pool'[o] = "open" => pool[o] = "open" /\ o # active[c]
    PROVE  Alone(t)'
<1>1. CASE active[c] = NoObj
  BY <1>1, SteadyTasks, AloneQuiet DEF RemoveEntry
<1>2. CASE active[c] # NoObj
  <2> DEFINE r == [Idle EXCEPT !.pc = "committing", !.id = c, !.ver = v]
  <2>1. active' = [active EXCEPT ![c] = NoObj] /\ lru' = Forget(lru, c) /\ Goto(t, r)
    BY <1>2 DEF RemoveEntry
  <2>2. active'[c] = NoObj
    BY <2>1 DEF RegistryInv, GoodRegistry
  <2>3. Steady(r, active', made, saved)
    BY <2>2, SteadyTasks
  <2> HIDE DEF r
  <2> QED BY <2>1, <2>3, AlonePops
<1> QED BY <1>1, <1>2

LEMMA AloneContinues ==
    ASSUME RegistryInv, NEW t \in Tasks, Alone(t), Continue(t)
    PROVE  Alone(t)'
<1>1. /\ task[t] \in Task /\ GoodTask(task[t], made)
      /\ GoodRegistry(active, lru, pool, made)
      /\ Tidy(active, lru, pool, made, saved) /\ Steady(task[t], active, made, saved)
  BY DEF RegistryInv, GoodTasks, GoodTask, Alone
<1>2. /\ pool \in [Objs -> Pools]
      /\ \A o, x \in Objs : /\ Closed(o)[x] = "open" => pool[x] = "open" /\ x # o
                            /\ Closing(o)[x] = "open" => pool[x] = "open" /\ x # o
  BY <1>1 DEF GoodRegistry, Closed, Closing
<1>3. CASE GetConnector(t)
  <2>1. task[t].id \in Ids /\ saved' = saved /\ task[t].pc = "read" /\ task[t].ver = saved[task[t].id]
    BY <1>1, <1>3 DEF GetConnector, GoodTask, Steady
  <2>2. CASE Lookup(t)
    BY <2>1, <2>2, AloneLooksUp
  <2>3. ASSUME NEW n \in 1..Len(lru),
               Goto(t, [task[t] EXCEPT !.pc = "sweep", !.stale = SubSeq(lru, 1, n)]),
               UNCHANGED <<active, lru, pool, made>>
        PROVE  Alone(t)'
    <3> DEFINE r == [task[t] EXCEPT !.pc = "sweep", !.stale = SubSeq(lru, 1, n)]
    <3>1. r.pc = "sweep" /\ r.ver = task[t].ver /\ r.id = task[t].id
      BY <1>1 DEF Task
    <3> HIDE DEF r
    <3>2. Steady(r, active, made, saved)
      BY <2>1, <3>1 DEF Steady
    <3> QED BY <2>1, <2>3, <3>2, AloneQuiet DEF r
  <2> QED BY <1>3, <2>2, <2>3 DEF GetConnector
<1>4. CASE SweepNext(t)
  <2> DEFINE c == Head(task[t].stale)
             o == active[c]
             rest == [task[t] EXCEPT !.stale = Tail(@)]
             held == [rest EXCEPT !.pc = "sweeping", !.obj = o]
  <2>1. task[t].stale \in Seq(Ids) /\ task[t].stale # <<>> /\ task[t].ver = saved[task[t].id]
    BY <1>1, <1>4 DEF SweepNext, Task, Steady
  <2>2. c \in Ids
    BY <2>1, TailKeeps
  <2>3. /\ rest.pc = "sweep" /\ rest.ver = task[t].ver /\ rest.id = task[t].id
        /\ held.pc = "sweeping" /\ held.ver = task[t].ver /\ held.id = task[t].id
    BY <1>1, <1>4 DEF SweepNext, Task
  <2>4. /\ active' = [active EXCEPT ![c] = NoObj] /\ lru' = Forget(lru, c) /\ UNCHANGED <<made, saved>>
        /\ IF Suspends(o) THEN pool' = Closing(o) /\ Goto(t, held) ELSE UNCHANGED pool /\ Goto(t, rest)
    BY <1>4 DEF SweepNext
  <2> HIDE DEF rest, held
  <2>5. Steady(rest, active', made, saved) /\ Steady(held, active', made, saved)
    BY <2>1, <2>3 DEF Steady
  <2>6. CASE Suspends(o)
    <3>1. o \in Objs
      BY <1>1, <2>2, <2>6 DEF Suspends, GoodRegistry
    <3>2. \A x \in Objs : pool'[x] = "open" => pool[x] = "open" /\ x # active[c]
      BY <1>2, <2>4, <2>6, <3>1
    <3> QED BY <2>2, <2>4, <2>5, <2>6, <3>2, AlonePops
  <2>7. CASE ~Suspends(o)
    <3>1. \A x \in Objs : pool'[x] = "open" => pool[x] = "open" /\ x # active[c]
      BY <2>4, <2>7, RegistryAssumption DEF Suspends
    <3> QED BY <2>2, <2>4, <2>5, <2>7, <3>1, AlonePops
  <2> QED BY <2>6, <2>7
<1>5. CASE SweepClosed(t)
  <2> DEFINE r == [task[t] EXCEPT !.pc = "sweep", !.obj = NoObj]
  <2>1. r.pc = "sweep" /\ r.ver = task[t].ver /\ r.id = task[t].id
    BY <1>1 DEF Task
  <2>2. /\ task[t].pc = "sweeping" /\ task[t].obj \in Objs /\ pool' = Closed(task[t].obj)
        /\ Goto(t, r) /\ UNCHANGED <<active, lru, made, saved>>
    BY <1>1, <1>5 DEF SweepClosed, GoodTask
  <2> HIDE DEF r
  <2>3. Steady(r, active, made, saved)
    BY <1>1, <2>1, <2>2 DEF Steady
  <2> QED BY <1>2, <2>2, <2>3, AloneQuiet
<1>6. CASE SweepDone(t)
  <2>1. task[t].id \in Ids /\ task[t].ver = saved[task[t].id]
    BY <1>1, <1>6 DEF SweepDone, GoodTask, Steady
  <2> QED BY <1>6, <2>1, AloneLooksUp DEF SweepDone
<1>7. CASE TestPassed(t)
  <2> DEFINE r == [task[t] EXCEPT !.pc = "using"]
             c == task[t].id
  <2>1. r.pc = "using"
    BY <1>1 DEF Task
  <2>2. /\ c \in Ids /\ active[c] # NoObj /\ lru' = Touch(lru, c) /\ Goto(t, r)
        /\ UNCHANGED <<active, pool, made, saved>>
    BY <1>1, <1>7, RegistryAssumption DEF TestPassed, GoodTask, Steady
  <2> HIDE DEF r
  <2>3. Distinct(lru') /\ Keys(lru') = Keys(lru) \cup {c}
    BY <1>1, <2>2, TouchExactly DEF GoodRegistry, Tidy
  <2>4. Tidy(active, lru, pool, made, saved)'
    BY <1>1, <2>2, <2>3 DEF Tidy, Present
  <2>5. Steady(r, active', made', saved')
    BY <2>1 DEF Steady
  <2> QED BY <2>2, <2>4, <2>5, GoesOn
<1>8. CASE TestFailed(t)
  <2>1. /\ task[t].id \in Ids /\ task[t].obj \in Objs /\ active[task[t].id] = task[t].obj
        /\ task[t].ver = saved[task[t].id]
    BY <1>1, <1>8 DEF TestFailed, GoodTask, Steady
  <2> QED BY <1>8, <2>1, AloneDiscards DEF TestFailed
<1>9. CASE Dropped(t)
  <2>1. /\ task[t].id \in Ids /\ task[t].obj \in Objs /\ active[task[t].id] = task[t].obj
        /\ task[t].ver = saved[task[t].id]
    BY <1>1, <1>9 DEF Dropped, GoodTask, Steady
  <2>2. GoodRegistry(active, lru, Closed(task[t].obj), made)
    BY <1>1 DEF Closed, GoodRegistry, Pools
  <2> QED BY <1>2, <1>9, <2>1, <2>2, AloneDrops DEF Dropped
<1>10. CASE Evicted(t)
  <2>1. /\ task[t].id \in Ids /\ task[t].obj \in Objs /\ active[task[t].id] = NoObj
        /\ task[t].ver = saved[task[t].id] /\ Cardinality(Present(active)) < MaxCached
    BY <1>1, <1>10 DEF Evicted, GoodTask, Steady
  <2>2. GoodRegistry(active, lru, Closed(task[t].obj), made)
    BY <1>1 DEF Closed, GoodRegistry, Pools
  <2>3. Tidy(active, lru, Closed(task[t].obj), made, saved)
    BY <1>1, <1>2, <2>1 DEF Tidy
  <2> QED BY <1>10, <2>1, <2>2, <2>3, AloneConnects DEF Evicted
<1>11. CASE Connected(t)
  <2> DEFINE c == task[t].id
             o == task[t].obj
             r == [task[t] EXCEPT !.pc = "using"]
  <2>1. /\ c \in Ids /\ o \in Objs /\ active[c] = NoObj /\ Cardinality(Present(active)) < MaxCached
        /\ made[o].ver = saved[c]
    BY <1>1, <1>11 DEF Connected, GoodTask, Steady
  <2>2. r.pc = "using"
    BY <1>1 DEF Task
  <2>3. /\ pool' = [pool EXCEPT ![o] = "open"] /\ active' = [active EXCEPT ![c] = o]
        /\ lru' = Touch(lru, c) /\ Goto(t, r) /\ UNCHANGED <<made, saved>>
    BY <1>11 DEF Connected
  <2> HIDE DEF r, o, c
  <2>4. Distinct(lru') /\ Keys(lru') = Keys(lru) \cup {c}
    BY <1>1, <2>1, <2>3, TouchExactly DEF GoodRegistry, Tidy
  <2>5. active'[c] = o /\ \A d \in Ids : d # c => active'[d] = active[d]
    <3>1. active \in [Ids -> Objs \cup {NoObj}]
      BY <1>1 DEF GoodRegistry
    <3> QED BY <2>1, <2>3, <3>1
  <2>6. Present(active') = Present(active) \cup {c}
    BY <2>1, <2>5, RegistryAssumption DEF Present
  <2>7. IsFiniteSet(Present(active')) /\ Cardinality(Present(active')) <= MaxCached
    <3>1. IsFiniteSet(Present(active)) /\ c \notin Present(active)
      BY <1>1, <2>1 DEF Tidy, Present
    <3>2. Cardinality(Present(active)) \in Nat
      BY <3>1, FS_CardinalityType
    <3>3. IsFiniteSet(Present(active')) /\ Cardinality(Present(active')) = Cardinality(Present(active)) + 1
      BY <2>6, <3>1, FS_AddElement
    <3> QED BY <2>1, <3>2, <3>3, RegistryAssumption
  <2>8. \A d \in Ids : active'[d] # NoObj => made[active'[d]].ver = saved[d]
    BY <1>1, <2>1, <2>5 DEF Tidy
  <2>9. \A x \in Objs : pool'[x] = "open" => \E d \in Ids : active'[d] = x
    <3> TAKE x \in Objs
    <3>1. CASE x = o
      BY <2>1, <2>5, <3>1
    <3>2. CASE x # o
      <4>1. pool'[x] = pool[x]
        BY <1>2, <2>3, <3>2
      <4> QED BY <1>1, <2>1, <2>5, <4>1, RegistryAssumption DEF Tidy
    <3> QED BY <3>1, <3>2
  <2>10. Keys(lru') = Present(active')
    BY <1>1, <2>4, <2>6 DEF Tidy
  <2>11. Tidy(active, lru, pool, made, saved)'
    BY <2>3, <2>4, <2>7, <2>8, <2>9, <2>10 DEF Tidy
  <2>12. Steady(r, active', made', saved')
    BY <2>2 DEF Steady
  <2> QED BY <2>3, <2>11, <2>12, GoesOn
<1>12. CASE ConnectFailed(t)
  <2>1. task[t].obj \in Objs
    BY <1>1, <1>12 DEF ConnectFailed, GoodTask
  <2> QED BY <1>2, <1>12, <2>1, SteadyTasks, AloneQuiet DEF ConnectFailed
<1>13. CASE Finish(t)
  BY <1>13, SteadyTasks, AloneQuiet DEF Finish
<1>14. CASE Removed(t)
  <2>1. /\ task[t].id \in Ids /\ task[t].ver \in Versions /\ task[t].obj \in Objs
        /\ active[task[t].id] = task[t].obj
    BY <1>1, <1>14 DEF Removed, GoodTask, Task, Steady
  <2> QED BY <1>2, <1>14, <2>1, AloneRemoves DEF Removed
<1>15. CASE CommitUpdate(t)
  <2>1. task[t].id \in Ids /\ active[task[t].id] = NoObj
    BY <1>1, <1>15 DEF CommitUpdate, GoodTask, Steady
  <2>2. \A c \in Ids : c # task[t].id => saved'[c] = saved[c]
    BY <1>15 DEF CommitUpdate, RegistryInv
  <2>3. Tidy(active, lru, pool, made, saved)'
    BY <1>1, <1>15, <2>1, <2>2 DEF CommitUpdate, Tidy
  <2> QED BY <1>15, <2>3, SteadyTasks, GoesOn DEF CommitUpdate
<1> QED
  BY <1>3, <1>4, <1>5, <1>6, <1>7, <1>8, <1>9, <1>10, <1>11, <1>12, <1>13, <1>14, <1>15
  DEF Continue

LEMMA AloneBegins ==
    ASSUME RegistryInv, NEW t \in Tasks, Tidy(active, lru, pool, made, saved),
           task[t] = Idle, \A u \in Tasks \ {t} : task[u] = Idle,
           ReadConnection(t) \/ UpdateConnection(t)
    PROVE  Alone(t)'
<1>1. Alone(t)
  BY SteadyTasks DEF Alone
<1>2. CASE ReadConnection(t)
  BY <1>1, <1>2, SteadyTasks, AloneQuiet DEF ReadConnection
<1>3. CASE UpdateConnection(t)
  <2>1. PICK c \in Ids :
          /\ saved[c] < MaxVersion
          /\ LET o == active[c]
                 next == [Idle EXCEPT !.id = c, !.ver = saved[c] + 1]
             IN  \/ /\ o = NoObj
                    /\ Goto(t, [next EXCEPT !.pc = "committing"])
                    /\ UNCHANGED <<active, lru, pool>>
                 \/ /\ Suspends(o)
                    /\ pool' = Closing(o)
                    /\ Goto(t, [next EXCEPT !.pc = "removing", !.obj = o])
                    /\ UNCHANGED <<active, lru>>
                 \/ /\ o # NoObj /\ ~Suspends(o)
                    /\ RemoveEntry(t, c, saved[c] + 1)
                    /\ UNCHANGED pool
    BY <1>3 DEF UpdateConnection
  <2> DEFINE o == active[c]
             v == saved[c] + 1
             r == [[Idle EXCEPT !.id = c, !.ver = v] EXCEPT !.pc = "removing", !.obj = o]
             q == [[Idle EXCEPT !.id = c, !.ver = v] EXCEPT !.pc = "committing"]
  <2>2. v \in Versions /\ UNCHANGED <<made, saved>>
    <3>1. saved[c] \in 0..MaxVersion /\ saved[c] < MaxVersion
      BY <2>1 DEF RegistryInv, Versions
    <3>2. v \in Versions
      BY <3>1, RegistryAssumption DEF Versions
    <3>3. UNCHANGED <<made, saved>>
      BY <1>3 DEF UpdateConnection
    <3> QED BY <3>2, <3>3
  <2>3. /\ r.pc = "removing" /\ r.obj = o /\ r.id = c
        /\ q.pc = "committing" /\ q.id = c
    BY DEF Idle
  <2>4. /\ pool \in [Objs -> Pools]
        /\ \A x \in Objs : Closing(o)[x] = "open" => pool[x] = "open"
    BY DEF RegistryInv, GoodRegistry, Closing
  <2> HIDE DEF r, q
  <2>5. CASE o = NoObj /\ Goto(t, q) /\ UNCHANGED <<active, lru, pool>>
    <3>1. Steady(q, active, made, saved)
      BY <2>3, <2>5 DEF Steady
    <3> QED BY <1>1, <2>2, <2>5, <3>1, AloneQuiet
  <2>6. CASE Suspends(o) /\ pool' = Closing(o) /\ Goto(t, r) /\ UNCHANGED <<active, lru>>
    <3>1. Steady(r, active, made, saved)
      BY <2>3 DEF Steady
    <3> QED BY <1>1, <2>2, <2>4, <2>6, <3>1, AloneQuiet
  <2>7. CASE ~Suspends(o) /\ o # NoObj /\ RemoveEntry(t, c, v) /\ UNCHANGED pool
    <3>1. \A x \in Objs : pool'[x] = "open" => pool[x] = "open" /\ x # active[c]
      BY <2>7 DEF Suspends
    <3> QED BY <1>1, <2>2, <2>7, <3>1, AloneRemoves
  <2> QED BY <2>1, <2>5, <2>6, <2>7 DEF r, q
<1> QED BY <1>2, <1>3

\* While no two requests have overlapped, at most one is under way, in a tidy registry.
LEMMA AloneStep ==
    ASSUME RegistryInv, AloneInv, [Next]_vars
    PROVE  AloneInv'
<1>1. CASE UNCHANGED vars
  BY <1>1 DEF vars, AloneInv, Alone
<1>2. ASSUME NEW t \in Tasks, Begin(t) \/ Continue(t), ~overlapped'
      PROVE  Alone(t)'
  <2>1. CASE Begin(t)
    <3>1. ~overlapped /\ \A u \in Tasks \ {t} : task[u] = Idle
      BY <1>2, <2>1 DEF Begin
    <3>2. ReadConnection(t) \/ UpdateConnection(t)
      BY <2>1 DEF Begin
    <3>3. task[t].pc = "idle"
      BY <3>2 DEF ReadConnection, UpdateConnection
    <3>4. CASE task[t] = Idle
      BY <3>1, <3>2, <3>4, AloneBegins DEF AloneInv
    <3>5. CASE task[t] # Idle
      BY <3>1, <3>3, <3>5 DEF AloneInv, Alone, Steady
    <3> QED BY <3>4, <3>5
  <2>2. CASE Continue(t)
    <3>1. ~overlapped
      BY <1>2, <2>2 DEF Continue
    <3>2. task[t].pc # "idle"
      BY <2>2 DEF Continue, GetConnector, SweepNext, SweepClosed, SweepDone, TestPassed,
                  TestFailed, Dropped, Evicted, Connected, ConnectFailed, Finish, Removed, CommitUpdate
    <3>3. task[t] # Idle
      BY <3>2 DEF Idle
    <3> QED BY <2>2, <3>1, <3>3, AloneContinues DEF AloneInv
  <2> QED BY <1>2, <2>1, <2>2
<1>3. ASSUME NEW t \in Tasks, Alone(t)'
      PROVE  AloneInv'
  BY <1>3 DEF AloneInv, Alone
<1> QED BY <1>1, <1>2, <1>3 DEF Next, AloneInv

LEMMA AloneInit == Init => AloneInv
<1> SUFFICES ASSUME Init PROVE AloneInv
  OBVIOUS
<1>1. Present(active) = {} /\ Keys(lru) = {} /\ Distinct(lru)
  BY DEF Init, Present, Keys, Distinct
<1>2. /\ \A c \in Ids : active[c] = NoObj
      /\ \A o \in Objs : pool[o] # "open"
  BY DEF Init
<1>3. IsFiniteSet(Present(active)) /\ Cardinality(Present(active)) <= MaxCached
  BY <1>1, FS_EmptySet, RegistryAssumption
<1>4. Tidy(active, lru, pool, made, saved)
  BY <1>1, <1>2, <1>3 DEF Tidy
<1> QED BY <1>4 DEF AloneInv, Init

\* As long as no request starts before the last one ended, the registry keeps
\* MAX_CACHED_CONNECTORS, its dictionaries have the same keys, every open pool is
\* registered and made from the saved string (connector_registry.py).
THEOREM SoundOneByOne == Spec => []SoundAlone
<1>1. RegistryInv /\ AloneInv /\ [Next]_vars => AloneInv'
  BY AloneStep
<1>2. AloneInv => SoundAlone
  BY DEF AloneInv, SoundAlone, Tidy, Present, CapacityRespected, SameKeys, Registered,
         NoLeakedPool, IsRegistered, SavedStringInUse
<1> QED BY <1>1, <1>2, AloneInit, RegistrySafe, PTL DEF Spec

-----------------------------------------------------------------------------
(* The start of the server *)

\* The open transaction holds nothing but the resize that is under way, ...
ResizedAgrees == pc # "resize" => resized = dim

\* ... and nothing but the seeds of the kinds this attempt has passed, ...
Passed(k) ==
    CASE pc = "metrics"    -> k = "glossary"
      [] pc = "dictionary" -> k \in {"glossary", "metrics"}
      [] pc = "knowledge"  -> k \in {"glossary", "metrics", "dictionary"}
      [] pc = "commit"     -> k \in Lifespan!Kinds
      [] OTHER             -> FALSE

SeededIsPassed == \A k \in seeded : Passed(k)

\* ... which are those of them that the connection has none of and the seeds have rows for.
PassedIsSeeded ==
    \A k \in Lifespan!Kinds : Passed(k) => (k \in seeded <=> Lifespan!Adds(k))

\* Nothing is seeded before the connection was introspected.
SeedsFollow ==
    /\ pc \in Lifespan!Seeding => store.introspected
    /\ ~store.introspected => \A k \in Lifespan!Kinds : store.of[k].seeds = 0

\* Only an administrator adds entries of its own.
OwnIsTouched == \A k \in Lifespan!Kinds : store.of[k].own => store.of[k].touched

StartupInv ==
    /\ Lifespan!TypeOK /\ Lifespan!DimensionsAgree /\ ResizedAgrees
    /\ SeededIsPassed /\ PassedIsSeeded /\ OwnIsTouched /\ SeedsFollow
    /\ Lifespan!SeededOnce /\ Lifespan!SeededTogether

-----------------------------------------------------------------------------
LEMMA KindsAre == Lifespan!Kinds = {"glossary", "metrics", "dictionary", "knowledge"}
BY DEF Lifespan!Kinds, Lifespan!Range, Lifespan!Order

LEMMA LabelsAre ==
    /\ Len(Lifespan!Order) = 4
    /\ Lifespan!Order[1] = "glossary" /\ Lifespan!Order[2] = "metrics"
    /\ Lifespan!Order[3] = "dictionary" /\ Lifespan!Order[4] = "knowledge"
    /\ Append(Lifespan!Order, "commit")[2] = "metrics" /\ Append(Lifespan!Order, "commit")[3] = "dictionary"
    /\ Append(Lifespan!Order, "commit")[4] = "knowledge" /\ Append(Lifespan!Order, "commit")[5] = "commit"
BY DEF Lifespan!Order

\* Where a seeding step is, and goes.
LEMMA SeedGoes ==
    ASSUME NEW i \in 1..Len(Lifespan!Order), Lifespan!Seed(i)
    PROVE  /\ pc = Lifespan!Order[i]
           /\ \/ pc = "glossary" /\ pc' = "metrics"
              \/ pc = "metrics" /\ pc' = "dictionary"
              \/ pc = "dictionary" /\ pc' = "knowledge"
              \/ pc = "knowledge" /\ pc' = "commit"
<1>1. pc = Lifespan!Order[i] /\ pc' = Append(Lifespan!Order, "commit")[i + 1]
  BY DEF Lifespan!Seed, Lifespan!Goto
<1>2. i \in {1, 2, 3, 4}
  BY LabelsAre
<1>3. CASE i = 1
  BY <1>1, <1>3, LabelsAre
<1>4. CASE i = 2
  BY <1>1, <1>4, LabelsAre
<1>5. CASE i = 3
  BY <1>1, <1>5, LabelsAre
<1>6. CASE i = 4
  BY <1>1, <1>6, LabelsAre
<1> QED
  BY <1>1, <1>2, <1>3, <1>4, <1>5, <1>6

\* The contents that the steps make of others.
LEMMA MoreSeeds ==
    ASSUME NEW c \in Lifespan!Content, NEW n \in 0..2, NEW d, d = [c EXCEPT !.seeds = n]
    PROVE  d \in Lifespan!Content /\ d.seeds = n /\ d.own = c.own /\ d.touched = c.touched
BY DEF Lifespan!Content

LEMMA TouchedEntries ==
    ASSUME NEW c \in Lifespan!Content, NEW d, d = Lifespan!Touched(c)
    PROVE  d \in Lifespan!Content /\ d.seeds = c.seeds /\ d.touched
BY DEF Lifespan!Content, Lifespan!Touched

LEMMA OwnEntries ==
    ASSUME NEW c \in Lifespan!Content, NEW d, d = [c EXCEPT !.own = TRUE]
    PROVE  d \in Lifespan!Content /\ d.seeds = c.seeds
BY DEF Lifespan!Content

LEMMA NoEntries ==
    /\ Lifespan!Empty \in Lifespan!Content /\ Lifespan!Empty.seeds = 0 /\ Lifespan!Empty.own = FALSE
BY DEF Lifespan!Empty, Lifespan!Content

LEMMA InitStartup == Lifespan!Init => StartupInv
<1> SUFFICES ASSUME Lifespan!Init PROVE StartupInv
  OBVIOUS
<1>1. Lifespan!NoConnection.of = [k \in Lifespan!Kinds |-> Lifespan!Empty] /\ Lifespan!Empty \in Lifespan!Content
      /\ Lifespan!Empty.seeds = 0 /\ Lifespan!Empty.own = FALSE
  BY DEF Lifespan!NoConnection, Lifespan!Empty, Lifespan!Content
<1>2. Lifespan!TypeOK
  BY <1>1, ServerAssumption DEF Lifespan!Init, Lifespan!TypeOK, Lifespan!NoConnection, Lifespan!Stores
<1>3. Lifespan!DimensionsAgree /\ ResizedAgrees
  BY ServerAssumption DEF Lifespan!Init, Lifespan!DimensionsAgree, ResizedAgrees
<1>4. SeededIsPassed /\ PassedIsSeeded
  BY DEF Lifespan!Init, SeededIsPassed, PassedIsSeeded, Passed
<1>5. OwnIsTouched /\ Lifespan!SeededOnce /\ Lifespan!SeededTogether
  BY <1>1 DEF Lifespan!Init, OwnIsTouched, Lifespan!SeededOnce, Lifespan!SeededTogether
<1>6. SeedsFollow
  BY <1>1, KindsAre DEF Lifespan!Init, SeedsFollow, Lifespan!Seeding
<1> QED
  BY <1>2, <1>3, <1>4, <1>5, <1>6 DEF StartupInv

\* The dimensions: no step commits some of the columns.
LEMMA DimensionSteps ==
    ASSUME StartupInv, [Lifespan!Next]_(Lifespan!vars)
    PROVE  /\ dim' \in [Columns -> Dimensions] /\ resized' \in [Columns -> Dimensions]
           /\ target' \in Dimensions /\ Lifespan!DimensionsAgree' /\ ResizedAgrees'
<1> USE ServerAssumption, LabelsAre DEF StartupInv, Lifespan!TypeOK, Lifespan!DimensionsAgree, ResizedAgrees, Lifespan!Goto
<1>1. CASE UNCHANGED <<dim, resized, target>> /\ (pc # "resize" \/ pc' = "resize")
  BY <1>1
<1>2. CASE Lifespan!Start
  BY <1>2 DEF Lifespan!Start
<1>3. CASE Lifespan!CheckDimension
  BY <1>3 DEF Lifespan!CheckDimension
<1>4. CASE \E c \in Columns : Lifespan!Resize(c)
  <2>1. PICK c \in Columns : Lifespan!Resize(c)
    BY <1>4
  <2>2. resized' \in [Columns -> Dimensions] /\ target' = target
    BY <2>1 DEF Lifespan!Resize
  <2>3. CASE \A d \in Columns : resized'[d] = target
    BY <2>1, <2>2, <2>3 DEF Lifespan!Resize, Lifespan!Committed
  <2>4. CASE ~(\A d \in Columns : resized'[d] = target)
    BY <2>1, <2>2, <2>4 DEF Lifespan!Resize, Lifespan!Committed
  <2> QED
    BY <2>3, <2>4
<1>5. CASE Lifespan!ResizeFails \/ Lifespan!Stop
  BY <1>5 DEF Lifespan!ResizeFails, Lifespan!Stop
<1>6. CASE Lifespan!EnsureConnection \/ Lifespan!IntrospectOnce \/ Lifespan!CommitSeeds \/ Lifespan!AttemptFails \/ Lifespan!Serve
  <2>1. pc # "resize"
    BY <1>6, KindsAre
    DEF Lifespan!EnsureConnection, Lifespan!IntrospectOnce, Lifespan!CommitSeeds, Lifespan!AttemptFails, Lifespan!SettingUp, Lifespan!Seeding, Lifespan!Serve
  <2> QED
    BY <1>1, <1>6, <2>1 DEF Lifespan!EnsureConnection, Lifespan!IntrospectOnce, Lifespan!CommitSeeds, Lifespan!AttemptFails, Lifespan!Serve
<1>7. CASE \E i \in 1..Len(Lifespan!Order) : Lifespan!Seed(i)
  BY <1>1, <1>7 DEF Lifespan!Seed
<1>8. CASE UNCHANGED Lifespan!vars
  BY <1>1, <1>8 DEF Lifespan!vars
<1> QED
  BY <1>2, <1>3, <1>4, <1>5, <1>6, <1>7, <1>8 DEF Lifespan!Next, Lifespan!StartupStep

\* What a step keeps of the contents: seeds that are where entries were missing, once
\* and together.
ContentsKept ==
    /\ store \in Lifespan!Stores
    /\ SeededIsPassed /\ PassedIsSeeded /\ OwnIsTouched /\ SeedsFollow
    /\ Lifespan!SeededOnce /\ Lifespan!SeededTogether

\* A step that changes no content and opens no transaction, or drops the open one.
LEMMA QuietSteps ==
    ASSUME StartupInv, store' \in Lifespan!Stores, store'.of = store.of,
           store'.found = store.found, store'.introspected = store.introspected,
           \/ seeded' = seeded /\ pc' = pc
           \/ seeded' = {} /\ pc' \notin {"metrics", "dictionary", "knowledge", "commit"},
           pc' \in Lifespan!Seeding => store.introspected
    PROVE  ContentsKept'
<1>1. OwnIsTouched' /\ Lifespan!SeededOnce' /\ Lifespan!SeededTogether'
  BY DEF StartupInv, OwnIsTouched, Lifespan!SeededOnce, Lifespan!SeededTogether, Lifespan!HasRows
<1>2. SeededIsPassed' /\ PassedIsSeeded'
  BY DEF StartupInv, SeededIsPassed, PassedIsSeeded, Passed, Lifespan!IsMissing, Lifespan!Adds, Lifespan!HasRows
<1>3. SeedsFollow'
  BY DEF StartupInv, SeedsFollow
<1> QED
  BY <1>1, <1>2, <1>3 DEF ContentsKept

\* The first introspection, of a connection that has no seeds.
LEMMA FirstIntrospection ==
    ASSUME StartupInv, Lifespan!IntrospectOnce, ~store.introspected
    PROVE  ContentsKept'
<1>1. PICK found \in BOOLEAN : store' = [store EXCEPT !.introspected = TRUE, !.found = found]
  BY DEF Lifespan!IntrospectOnce
<1>2. store' \in Lifespan!Stores /\ store'.of = store.of /\ store'.introspected = TRUE
  BY <1>1 DEF StartupInv, Lifespan!TypeOK, Lifespan!Stores
<1>3. pc' = "glossary" /\ seeded' = {}
  BY LabelsAre DEF Lifespan!IntrospectOnce, Lifespan!Goto, StartupInv, SeededIsPassed, Passed
<1>4. \A k \in Lifespan!Kinds : store'.of[k].seeds = 0
  BY <1>2 DEF StartupInv, SeedsFollow
<1>5. OwnIsTouched' /\ Lifespan!SeededOnce'
  BY <1>2 DEF StartupInv, OwnIsTouched, Lifespan!SeededOnce
<1>6. Lifespan!SeededTogether'
  BY <1>4 DEF Lifespan!SeededTogether
<1>7. SeededIsPassed' /\ PassedIsSeeded'
  BY <1>3 DEF SeededIsPassed, PassedIsSeeded, Passed
<1>8. SeedsFollow'
  BY <1>2 DEF SeedsFollow
<1> QED
  BY <1>2, <1>5, <1>6, <1>7, <1>8 DEF ContentsKept

\* Whether a kind is seeded was decided when the attempt came to it, and stays right.
LEMMA SeedSteps ==
    ASSUME StartupInv, NEW i \in 1..Len(Lifespan!Order), Lifespan!Seed(i)
    PROVE  ContentsKept'
<1>1. store' = store
      /\ seeded' = IF Lifespan!Adds(Lifespan!Order[i]) THEN seeded \cup {Lifespan!Order[i]} ELSE seeded
  BY DEF Lifespan!Seed
<1>2. OwnIsTouched' /\ Lifespan!SeededOnce' /\ Lifespan!SeededTogether'
  BY <1>1 DEF StartupInv, OwnIsTouched, Lifespan!SeededOnce, Lifespan!SeededTogether, Lifespan!HasRows
<1>3. Lifespan!Order[i] \notin seeded /\ Lifespan!Order[i] \in Lifespan!Kinds
  BY LabelsAre, KindsAre DEF Lifespan!Seed, StartupInv, SeededIsPassed, Passed
<1>4. \A k \in Lifespan!Kinds : Passed(k)' <=> Passed(k) \/ k = Lifespan!Order[i]
  <2>1. CASE pc = "glossary"
    BY <2>1, SeedGoes DEF Passed
  <2>2. CASE pc = "metrics"
    BY <2>2, SeedGoes DEF Passed
  <2>3. CASE pc = "dictionary"
    BY <2>3, SeedGoes DEF Passed
  <2>4. CASE pc = "knowledge"
    BY <2>4, SeedGoes, KindsAre DEF Passed
  <2> QED
    BY <2>1, <2>2, <2>3, <2>4, SeedGoes
<1>5. SeededIsPassed' /\ PassedIsSeeded'
  <2>1. \A k \in Lifespan!Kinds : Lifespan!Adds(k)' <=> Lifespan!Adds(k)
    BY <1>1 DEF Lifespan!Adds, Lifespan!IsMissing, Lifespan!HasRows
  <2>2. seeded \subseteq Lifespan!Kinds
    BY DEF StartupInv, Lifespan!TypeOK
  <2> HIDE DEF Passed
  <2> QED
    BY <1>1, <1>3, <1>4, <2>1, <2>2 DEF StartupInv, SeededIsPassed, PassedIsSeeded
<1>6. SeedsFollow'
  BY <1>1, SeedGoes, KindsAre DEF StartupInv, SeedsFollow, Lifespan!Seeding
<1> QED
  BY <1>1, <1>2, <1>5, <1>6 DEF ContentsKept, StartupInv, Lifespan!TypeOK

\* What is committed are the seeds of all the kinds that had no entries.
LEMMA CommitStep ==
    ASSUME StartupInv, Lifespan!CommitSeeds
    PROVE  ContentsKept'
<1>1. \A k \in Lifespan!Kinds : Passed(k) /\ store.of[k] \in Lifespan!Content /\ store.of[k].seeds <= 1
                       /\ (k \in seeded <=> Lifespan!Adds(k))
  BY DEF Lifespan!CommitSeeds, StartupInv, Lifespan!TypeOK, Lifespan!Stores, Lifespan!SeededOnce, PassedIsSeeded, Passed
<1>2. store'.of = Lifespan!WithSeeds(store.of)
      /\ store' = [store EXCEPT !.of = Lifespan!WithSeeds(store.of)]
      /\ store'.found = store.found /\ store'.introspected = store.introspected
  BY DEF Lifespan!CommitSeeds, StartupInv, Lifespan!TypeOK, Lifespan!Stores
<1>3. \A k \in Lifespan!Kinds :
        /\ Lifespan!Adds(k) => /\ store.of[k].seeds = 0
                               /\ store'.of[k] = [store.of[k] EXCEPT !.seeds = 1]
        /\ ~Lifespan!Adds(k) => store'.of[k] = store.of[k]
  BY <1>1, <1>2 DEF Lifespan!WithSeeds, Lifespan!IsMissing, Lifespan!Adds, Lifespan!Content
<1>4. \A k \in Lifespan!Kinds :
        /\ store'.of[k] \in Lifespan!Content /\ store'.of[k].seeds <= 1
        /\ store'.of[k].own = store.of[k].own /\ store'.of[k].touched = store.of[k].touched
        /\ store'.of[k].seeds > 0 \/ store'.of[k].own \/ ~Lifespan!HasRows(k)
  <2> TAKE k \in Lifespan!Kinds
  <2> DEFINE before == store.of[k]
             after == store'.of[k]
  <2>1. before \in Lifespan!Content /\ before.seeds \in Nat /\ before.seeds <= 1 /\ before.own \in BOOLEAN
    BY <1>1 DEF Lifespan!Content
  <2>2. CASE Lifespan!Adds(k)
    <3>1. after = [before EXCEPT !.seeds = 1]
      BY <1>3, <2>2
    <3> HIDE DEF before, after
    <3>2. after \in Lifespan!Content /\ after.seeds = 1 /\ after.own = before.own
          /\ after.touched = before.touched
      BY <2>1, <3>1, MoreSeeds
    <3>3. after \in Lifespan!Content /\ after.seeds <= 1 /\ after.own = before.own
          /\ after.touched = before.touched /\ (after.seeds > 0 \/ after.own)
      BY <3>2
    <3> QED
      BY <3>3 DEF before, after
  <2>3. CASE ~Lifespan!Adds(k)
    <3>1. after = before
      BY <1>3, <2>3
    <3>2. ~Lifespan!IsMissing(before) \/ ~Lifespan!HasRows(k)
      BY <2>3 DEF Lifespan!Adds
    <3> HIDE DEF before, after
    <3>3. after \in Lifespan!Content /\ after.seeds <= 1 /\ after.own = before.own
          /\ after.touched = before.touched
      BY <2>1, <3>1
    <3>4. after.seeds > 0 \/ after.own \/ ~Lifespan!HasRows(k)
      BY <2>1, <3>1, <3>2 DEF Lifespan!IsMissing
    <3> QED
      BY <3>3, <3>4 DEF before, after
  <2> QED
    BY <2>2, <2>3
<1>5. store' \in Lifespan!Stores
  BY <1>2, <1>4 DEF StartupInv, Lifespan!TypeOK, Lifespan!WithSeeds, Lifespan!Stores
<1>6. OwnIsTouched' /\ Lifespan!SeededOnce'
  BY <1>4 DEF StartupInv, OwnIsTouched, Lifespan!SeededOnce
<1>7. Lifespan!SeededTogether'
  BY <1>2, <1>4 DEF StartupInv, OwnIsTouched, Lifespan!SeededTogether, Lifespan!HasRows
<1>8. SeededIsPassed' /\ PassedIsSeeded'
  BY DEF Lifespan!CommitSeeds, Lifespan!Goto, SeededIsPassed, PassedIsSeeded, Passed
<1>9. SeedsFollow'
  BY <1>2 DEF Lifespan!CommitSeeds, Lifespan!Seeding, StartupInv, SeedsFollow
<1> QED
  BY <1>5, <1>6, <1>7, <1>8, <1>9 DEF ContentsKept

\* One kind gets the content that administrators leave of it: theirs, marked so.
LEMMA TouchStep ==
    ASSUME StartupInv, NEW k \in Lifespan!Kinds, NEW content \in Lifespan!Content,
           content.seeds \in {0, store.of[k].seeds}, content.touched,
           store' \in Lifespan!Stores, store'.of[k] = content,
           \A j \in Lifespan!Kinds \ {k} : store'.of[j] = store.of[j],
           store'.found = store.found \/ k = "dictionary",
           pc' = "serving", seeded' = {},
           store.introspected => store'.introspected
    PROVE  ContentsKept'
<1>1. SeededIsPassed' /\ PassedIsSeeded'
  BY DEF SeededIsPassed, PassedIsSeeded, Passed
<1>2. OwnIsTouched' /\ Lifespan!SeededOnce'
  BY DEF StartupInv, OwnIsTouched, Lifespan!SeededOnce
<1>3. Lifespan!SeededTogether'
  <2> SUFFICES ASSUME NEW i \in Lifespan!Kinds, NEW j \in Lifespan!Kinds, store'.of[i].seeds > 0
               PROVE  store'.of[j].seeds > 0 \/ store'.of[j].touched \/ ~Lifespan!HasRows(j)'
    BY DEF Lifespan!SeededTogether
  <2>1. CASE j = k
    BY <2>1
  <2>2. CASE j # k
    <3>1. store'.of[j] = store.of[j] /\ (Lifespan!HasRows(j)' <=> Lifespan!HasRows(j))
      BY <2>2 DEF Lifespan!HasRows
    <3>2. store.of[i].seeds > 0
      BY DEF StartupInv, Lifespan!TypeOK, Lifespan!Stores, Lifespan!Content
    <3> QED
      BY <3>1, <3>2 DEF StartupInv, Lifespan!SeededTogether
  <2> QED
    BY <2>1, <2>2
<1>4. SeedsFollow'
  BY KindsAre DEF StartupInv, SeedsFollow, Lifespan!Seeding
<1> QED
  BY <1>1, <1>2, <1>3, <1>4 DEF ContentsKept

LEMMA ServeStep ==
    ASSUME StartupInv, Lifespan!Serve
    PROVE  ContentsKept'
<1>1. pc' = "serving" /\ seeded' = {}
  BY DEF Lifespan!Serve, StartupInv, SeededIsPassed, Passed
<1>2. store \in Lifespan!Stores /\ \A k \in Lifespan!Kinds : store.of[k] \in Lifespan!Content
  BY DEF StartupInv, Lifespan!TypeOK, Lifespan!Stores
<1>3. CASE \E k \in Lifespan!Kinds : \/ Lifespan!Touch(k, [store.of[k] EXCEPT !.own = TRUE])
                                     \/ Lifespan!Touch(k, Lifespan!Empty)
  <2>1. PICK k \in Lifespan!Kinds : \/ Lifespan!Touch(k, [store.of[k] EXCEPT !.own = TRUE])
                                    \/ Lifespan!Touch(k, Lifespan!Empty)
    BY <1>3
  <2>2. PICK kept \in Lifespan!Content :
           Lifespan!Touch(k, kept) /\ kept.seeds \in {0, store.of[k].seeds}
    BY <1>2, <2>1, OwnEntries, NoEntries
  <2>3. PICK content : content = Lifespan!Touched(kept)
    OBVIOUS
  <2>4. content \in Lifespan!Content /\ content.seeds \in {0, store.of[k].seeds} /\ content.touched
    BY <2>2, <2>3, TouchedEntries
  <2>5. store' = [store EXCEPT !.of[k] = content]
    BY <2>2, <2>3 DEF Lifespan!Touch
  <2>6. store' = [store EXCEPT !.of = [store.of EXCEPT ![k] = content]]
    BY <1>2, <2>5 DEF Lifespan!Stores
  <2>7. [store.of EXCEPT ![k] = content] \in [Lifespan!Kinds -> Lifespan!Content]
    BY <1>2, <2>4 DEF Lifespan!Stores
  <2>8. store'.of = [store.of EXCEPT ![k] = content] /\ store' \in Lifespan!Stores
    BY <1>2, <2>6, <2>7 DEF Lifespan!Stores
  <2>9. store'.of[k] = content /\ \A j \in Lifespan!Kinds \ {k} : store'.of[j] = store.of[j]
    BY <1>2, <2>8 DEF Lifespan!Stores
  <2>10. store'.found = store.found
    BY <1>2, <2>6 DEF Lifespan!Stores
  <2>11. store'.introspected = store.introspected
    BY <1>2, <2>6 DEF Lifespan!Stores
  <2>12. store.introspected => store'.introspected
    BY <2>11
  <2> QED
    BY <1>1, <2>4, <2>8, <2>9, <2>10, <2>12, TouchStep
<1>4. CASE \E found \in BOOLEAN, entries \in {store.of["dictionary"], Lifespan!Empty} :
             store' = Lifespan!Introspected(found, entries)
  <2>1. PICK found \in BOOLEAN, entries \in {store.of["dictionary"], Lifespan!Empty} :
             store' = Lifespan!Introspected(found, entries)
    BY <1>4
  <2>2. "dictionary" \in Lifespan!Kinds
    BY KindsAre
  <2>3. entries \in Lifespan!Content /\ entries.seeds \in {0, store.of["dictionary"].seeds}
    BY <1>2, <2>1, <2>2, NoEntries
  <2>4. PICK content : content = Lifespan!Touched(entries)
    OBVIOUS
  <2>5. content \in Lifespan!Content /\ content.seeds \in {0, store.of["dictionary"].seeds} /\ content.touched
    BY <2>3, <2>4, TouchedEntries
  <2>6. store' = [store EXCEPT !.introspected = TRUE, !.found = found, !.of["dictionary"] = content]
    BY <2>1, <2>4 DEF Lifespan!Introspected
  <2>7. store' = [store EXCEPT !.introspected = TRUE, !.found = found,
                               !.of = [store.of EXCEPT !["dictionary"] = content]]
    BY <1>2, <2>6 DEF Lifespan!Stores
  <2>8. [store.of EXCEPT !["dictionary"] = content] \in [Lifespan!Kinds -> Lifespan!Content]
    BY <1>2, <2>2, <2>5 DEF Lifespan!Stores
  <2>9. store'.of = [store.of EXCEPT !["dictionary"] = content] /\ store'.introspected = TRUE
    BY <1>2, <2>7 DEF Lifespan!Stores
  <2>10. store' \in Lifespan!Stores
    BY <1>2, <2>1, <2>7, <2>8 DEF Lifespan!Stores
  <2>11. store'.of["dictionary"] = content
         /\ \A j \in Lifespan!Kinds \ {"dictionary"} : store'.of[j] = store.of[j]
    BY <1>2, <2>2, <2>9 DEF Lifespan!Stores
  <2>12. store.introspected => store'.introspected
    BY <2>9
  <2> QED
    BY <1>1, <2>2, <2>5, <2>10, <2>11, <2>12, TouchStep
<1>5. CASE store' \in {Lifespan!NoConnection, [Lifespan!NoConnection EXCEPT !.exists = TRUE]}
  <2>1. store'.of = [k \in Lifespan!Kinds |-> Lifespan!Empty] /\ Lifespan!Empty.seeds = 0 /\ Lifespan!Empty.own = FALSE
        /\ store' \in Lifespan!Stores
    <3>1. Lifespan!NoConnection \in Lifespan!Stores
          /\ Lifespan!NoConnection.of = [k \in Lifespan!Kinds |-> Lifespan!Empty]
      BY NoEntries DEF Lifespan!NoConnection, Lifespan!Stores
    <3>2. PICK created : created = [Lifespan!NoConnection EXCEPT !.exists = TRUE]
      OBVIOUS
    <3>3. created \in Lifespan!Stores /\ created.of = Lifespan!NoConnection.of
      BY <3>1, <3>2 DEF Lifespan!Stores
    <3> QED
      BY <1>5, <3>1, <3>2, <3>3, NoEntries
  <2>2. \A k \in Lifespan!Kinds : store'.of[k].seeds = 0 /\ store'.of[k].own = FALSE
    BY <2>1
  <2>3. OwnIsTouched' /\ Lifespan!SeededOnce' /\ Lifespan!SeededTogether'
    BY <2>2 DEF OwnIsTouched, Lifespan!SeededOnce, Lifespan!SeededTogether
  <2>4. SeededIsPassed' /\ PassedIsSeeded'
    BY <1>1 DEF SeededIsPassed, PassedIsSeeded, Passed
  <2>5. SeedsFollow'
    BY <1>1, <2>2, KindsAre DEF SeedsFollow, Lifespan!Seeding
  <2> QED
    BY <2>1, <2>3, <2>4, <2>5 DEF ContentsKept
<1> QED
  BY <1>3, <1>4, <1>5 DEF Lifespan!Serve

-----------------------------------------------------------------------------
\* The store, which only the steps above change.
LEMMA StoreSteps ==
    ASSUME StartupInv, [Lifespan!Next]_(Lifespan!vars)
    PROVE  ContentsKept'
<1>1. CASE \E i \in 1..Len(Lifespan!Order) : Lifespan!Seed(i)
  BY <1>1, SeedSteps
<1>2. CASE Lifespan!CommitSeeds
  BY <1>2, CommitStep
<1>3. CASE Lifespan!Serve
  BY <1>3, ServeStep
<1>4. CASE UNCHANGED Lifespan!vars
  BY <1>4, QuietSteps DEF Lifespan!vars, StartupInv, Lifespan!TypeOK, SeedsFollow
<1>5. CASE Lifespan!IntrospectOnce
  <2>1. CASE ~store.introspected
    BY <1>5, <2>1, FirstIntrospection
  <2>2. CASE store.introspected
    <3>1. seeded' = {} /\ pc' = "glossary"
      BY <1>5, LabelsAre DEF Lifespan!IntrospectOnce, Lifespan!Goto, StartupInv, SeededIsPassed, Passed
    <3>2. store' = store
      BY <1>5, <2>2 DEF Lifespan!IntrospectOnce
    <3> QED
      BY <2>2, <3>1, <3>2, QuietSteps DEF StartupInv, Lifespan!TypeOK
  <2> QED
    BY <2>1, <2>2
<1>6. CASE Lifespan!Start \/ Lifespan!CheckDimension \/ Lifespan!ResizeFails \/ (\E c \in Columns : Lifespan!Resize(c))
           \/ Lifespan!EnsureConnection \/ Lifespan!AttemptFails \/ Lifespan!Stop
  <2>1. seeded' = {}
    BY <1>6
    DEF Lifespan!Start, Lifespan!CheckDimension, Lifespan!ResizeFails, Lifespan!Resize, Lifespan!EnsureConnection, Lifespan!AttemptFails,
        Lifespan!Stop, StartupInv, SeededIsPassed, Passed
  <2>2. pc' \in {"down", "dimension", "resize", "connection", "introspect", "serving"}
    BY <1>6
    DEF Lifespan!Start, Lifespan!CheckDimension, Lifespan!ResizeFails, Lifespan!Resize, Lifespan!EnsureConnection, Lifespan!AttemptFails,
        Lifespan!Stop, Lifespan!Goto
  <2>3. pc' \notin Lifespan!Seeding /\ pc' \notin {"metrics", "dictionary", "knowledge", "commit"}
    BY <2>2, KindsAre DEF Lifespan!Seeding
  <2>4. store' = store
    BY <1>6
    DEF Lifespan!Start, Lifespan!CheckDimension, Lifespan!ResizeFails, Lifespan!Resize, Lifespan!EnsureConnection, Lifespan!AttemptFails,
        Lifespan!AfterFailure, Lifespan!Stop, StartupInv, Lifespan!TypeOK, Lifespan!Stores
  <2> QED
    BY <2>1, <2>3, <2>4, QuietSteps DEF StartupInv, Lifespan!TypeOK
<1> QED
  BY <1>1, <1>2, <1>3, <1>4, <1>5, <1>6 DEF Lifespan!Next, Lifespan!StartupStep

\* What counts attempts and stops, and where the start is.
LEMMA ControlSteps ==
    ASSUME StartupInv, [Lifespan!Next]_(Lifespan!vars)
    PROVE  /\ seeded' \subseteq Lifespan!Kinds
           /\ pc' \in {"down", "dimension", "resize", "connection", "introspect", "serving"}
                         \cup Lifespan!Seeding
           /\ attempt' \in 1..MaxRetries
           /\ stops' \in 0..MaxStops
<1> USE KindsAre, LabelsAre, ServerAssumption DEF StartupInv, Lifespan!TypeOK, Lifespan!Seeding, Lifespan!Goto
<1>1. CASE Lifespan!Start \/ Lifespan!CheckDimension \/ Lifespan!ResizeFails
  <2>1. CASE Lifespan!Start
    BY <2>1 DEF Lifespan!Start
  <2>2. CASE Lifespan!CheckDimension
    BY <2>2 DEF Lifespan!CheckDimension
  <2>3. CASE Lifespan!ResizeFails
    BY <2>3 DEF Lifespan!ResizeFails
  <2> QED
    BY <1>1, <2>1, <2>2, <2>3
<1>2. CASE \E c \in Columns : Lifespan!Resize(c)
  BY <1>2 DEF Lifespan!Resize
<1>3. CASE \E i \in 1..Len(Lifespan!Order) : Lifespan!Seed(i)
  BY <1>3, SeedGoes DEF Lifespan!Seed
<1>4. CASE Lifespan!AttemptFails
  BY <1>4 DEF Lifespan!AttemptFails, Lifespan!MayTryAgain, Lifespan!Tried
<1>5. CASE Lifespan!CommitSeeds \/ Lifespan!Serve \/ Lifespan!Stop
  BY <1>5 DEF Lifespan!CommitSeeds, Lifespan!Serve, Lifespan!Stop
<1>6. CASE UNCHANGED Lifespan!vars
  BY <1>6 DEF Lifespan!vars
<1>7. CASE Lifespan!IntrospectOnce
  <2>1. pc' = "glossary" /\ UNCHANGED <<seeded, attempt, stops>>
    BY <1>7 DEF Lifespan!IntrospectOnce
  <2> QED
    BY <2>1
<1>8. CASE Lifespan!EnsureConnection
  BY <1>8 DEF Lifespan!EnsureConnection
<1> QED
  BY <1>1, <1>2, <1>3, <1>4, <1>5, <1>6, <1>7, <1>8 DEF Lifespan!Next, Lifespan!StartupStep

\* What is true of the start alone is true of it beside the others.
LEMMA SuiteStart == SuiteSpec => Lifespan!Spec
<1>1. SuiteInit => Lifespan!Init
  BY DEF SuiteInit
<1>2. [SuiteNext]_<<which, vars, startVars, sessionVars>> => [Lifespan!Next]_(Lifespan!vars)
  BY DEF SuiteNext, startVars, Lifespan!vars
<1> QED
  BY <1>1, <1>2, PTL DEF SuiteSpec, Lifespan!Spec

LEMMA StartupInvariant == SuiteSpec => []StartupInv
<1>1. StartupInv /\ [Lifespan!Next]_(Lifespan!vars) => StartupInv'
  BY DimensionSteps, StoreSteps, ControlSteps DEF StartupInv, ContentsKept, Lifespan!TypeOK
<1> QED
  BY <1>1, SuiteStart, InitStartup, PTL DEF Lifespan!Spec

-----------------------------------------------------------------------------
\* The columns, the sample connection and the start keep their types.
THEOREM StartupTypeCorrect == SuiteSpec => []Lifespan!TypeOK
<1>1. StartupInv => Lifespan!TypeOK
  BY DEF StartupInv
<1> QED
  BY <1>1, StartupInvariant, PTL

\* Wherever the process stops or an ALTER fails (setup_service.py), the vector columns
\* agree with the one that the next start looks at.
THEOREM ProxyTells == SuiteSpec => []Lifespan!DimensionsAgree
<1>1. StartupInv => Lifespan!DimensionsAgree
  BY DEF StartupInv
<1> QED
  BY <1>1, StartupInvariant, PTL

\* Restarts and retries never seed a kind twice.
THEOREM NoSecondSeeding == SuiteSpec => []Lifespan!SeededOnce
<1>1. StartupInv => Lifespan!SeededOnce
  BY DEF StartupInv
<1> QED
  BY <1>1, StartupInvariant, PTL

\* The kinds are seeded together, unless an administrator has changed one, and but for the
\* dictionary of a catalogue without its columns (_seed_dictionary).
THEOREM SeedsAreWhole == SuiteSpec => []Lifespan!SeededTogether
<1>1. StartupInv => Lifespan!SeededTogether
  BY DEF StartupInv
<1> QED
  BY <1>1, StartupInvariant, PTL

\* Wherever starts stop (main.py, setup_service.py), the next one finds columns of one
\* dimension, and seeds that are there once and, as far as the catalogue has what they
\* are for and nobody has changed them, together.
THEOREM StartupStaysSound == SuiteSpec => []StartupIsSound
<1>1. StartupInv => StartupIsSound
  BY DEF StartupInv, StartupIsSound, Lifespan!StartupIsSound
<1> QED
  BY <1>1, StartupInvariant, PTL

-----------------------------------------------------------------------------
(* The sessions of turns *)

Later == {"names", "expand", "samples", "assemble"}

\* What is true of a resolver's job: one that is done has searched its source, and
\* where it stands agrees with where its turn is.
Sound(stage, r, j) ==
    /\ j.pc = "done" /\ r # "samples" => j.read
    /\ j.pc = "vector" /\ r = "glossary" => j.read
    /\ stage = "gather" => j.pc # "idle"
    /\ stage = "login" => j.pc \in {"idle", "done"}
    /\ stage \in Later => j.pc = "done"

SessionsInv ==
    /\ Sessions!TypeOK
    /\ \A t \in Turns : \A r \in Resolvers : Sound(turn[t], r, job[t][r])

\* What a statement of a resolver may lead to.
Outcome(t, r) ==
    \/ \E j \in Sessions!Job :
         \/ /\ Sessions!Continue(t, r, j)
            /\ j.pc \in {"terms", "vector", "keywords"}
            /\ j.pc = "vector" /\ r = "glossary" => j.read
         \/ /\ Sessions!Finish(t, r, j)
            /\ r # "samples" => j.read
    \/ Sessions!Raise(t, r)

-----------------------------------------------------------------------------
LEMMA NoJobIs ==
    ASSUME Retries \in Nat
    PROVE  Sessions!NoJob \in Sessions!Job /\ Sessions!NoJob.pc = "idle"
BY DEF Sessions!NoJob, Sessions!Job

\* Jobs that differ from others in a field or two.
LEMMA JobsAre ==
    ASSUME Retries \in Nat, NEW j \in Sessions!Job
    PROVE  /\ [j EXCEPT !.transaction = "open"] \in Sessions!Job
           /\ [j EXCEPT !.transaction = "aborted"] \in Sessions!Job
           /\ [j EXCEPT !.pc = "vector", !.read = TRUE] \in Sessions!Job
           /\ [j EXCEPT !.read = TRUE] \in Sessions!Job
           /\ [j EXCEPT !.pc = "keywords"] \in Sessions!Job
           /\ [j EXCEPT !.pc = "keywords", !.transaction = "none"] \in Sessions!Job
           /\ [j EXCEPT !.pc = "done", !.transaction = "none", !.tries = 0] \in Sessions!Job
           /\ j.tries < Retries => [j EXCEPT !.tries = @ + 1] \in Sessions!Job
<1>1. [j EXCEPT !.transaction = "open"] \in Sessions!Job
  BY DEF Sessions!Job
<1>2. [j EXCEPT !.transaction = "aborted"] \in Sessions!Job
  BY DEF Sessions!Job
<1>3. [j EXCEPT !.pc = "vector", !.read = TRUE] \in Sessions!Job
  BY DEF Sessions!Job
<1>4. [j EXCEPT !.read = TRUE] \in Sessions!Job
  BY DEF Sessions!Job
<1>5. [j EXCEPT !.pc = "keywords"] \in Sessions!Job
  BY DEF Sessions!Job
<1>6. [j EXCEPT !.pc = "keywords", !.transaction = "none"] \in Sessions!Job
  BY DEF Sessions!Job
<1>7. [j EXCEPT !.pc = "done", !.transaction = "none", !.tries = 0] \in Sessions!Job
  <2> DEFINE n == 0
  <2>1. n \in 0..Retries
    OBVIOUS
  <2> HIDE DEF n
  <2>2. [j EXCEPT !.pc = "done", !.transaction = "none", !.tries = n] \in Sessions!Job
    BY <2>1 DEF Sessions!Job
  <2> QED
    BY <2>2 DEF n
<1>8. ASSUME j.tries < Retries
      PROVE  [j EXCEPT !.tries = @ + 1] \in Sessions!Job
  <2> DEFINE n == j.tries + 1
  <2>1. n \in 0..Retries
    BY <1>8 DEF Sessions!Job
  <2> HIDE DEF n
  <2>2. [j EXCEPT !.tries = n] \in Sessions!Job
    BY <2>1 DEF Sessions!Job
  <2> QED
    BY <2>2 DEF n
<1> QED
  BY <1>1, <1>2, <1>3, <1>4, <1>5, <1>6, <1>7, <1>8

LEMMA InitSessions == ASSUME Retries \in Nat, MaxFaults \in Nat, Sessions!Init PROVE SessionsInv
<1>1. /\ turn = [t \in Turns |-> "idle"] /\ faults = 0
      /\ job = [t \in Turns |-> [r \in Resolvers |-> Sessions!NoJob]]
  BY DEF Sessions!Init
<1>2. Sessions!TypeOK
  BY <1>1, NoJobIs DEF Sessions!TypeOK
<1>3. \A t \in Turns : \A r \in Resolvers : Sound(turn[t], r, job[t][r])
  BY <1>1, NoJobIs DEF Sound, Later
<1> QED
  BY <1>2, <1>3 DEF SessionsInv

LEMMA ReadsTerms ==
    ASSUME Retries \in Nat, MaxFaults \in Nat, SessionsInv, NEW t \in Turns, NEW r \in Resolvers,
           Sessions!ReadTerms(t, r)
    PROVE  Outcome(t, r) /\ faults' \in 0..MaxFaults
<1> DEFINE j == job[t][r]
<1>1. j \in Sessions!Job /\ faults \in 0..MaxFaults
  BY DEF SessionsInv, Sessions!TypeOK
<1>2. faults' \in 0..MaxFaults
  BY <1>1 DEF Sessions!ReadTerms, Sessions!Statement, Sessions!Fault
<1>3. \/ Sessions!Raise(t, r)
      \/ \E k \in {j, [j EXCEPT !.transaction = "open"]} :
            Sessions!Continue(t, r, [k EXCEPT !.pc = "vector", !.read = TRUE])
  BY DEF Sessions!ReadTerms, Sessions!Statement
<1> HIDE DEF j
<1>4. CASE Sessions!Raise(t, r)
  BY <1>2, <1>4 DEF Outcome
<1>5. ASSUME NEW k \in {j, [j EXCEPT !.transaction = "open"]},
             Sessions!Continue(t, r, [k EXCEPT !.pc = "vector", !.read = TRUE])
      PROVE  Outcome(t, r)
  <2> DEFINE l == [k EXCEPT !.pc = "vector", !.read = TRUE]
  <2>1. k \in Sessions!Job
    BY <1>1, JobsAre
  <2>2. l \in Sessions!Job
    BY <2>1, JobsAre
  <2>3. l.pc = "vector" /\ l.read
    BY <2>1 DEF Sessions!Job
  <2>4. Sessions!Continue(t, r, l)
    BY <1>5
  <2> HIDE DEF l
  <2> QED
    BY <2>2, <2>3, <2>4 DEF Outcome
<1> QED
  BY <1>2, <1>3, <1>4, <1>5

LEMMA SearchesVectors ==
    ASSUME Retries \in Nat, MaxFaults \in Nat, Resolvers \subseteq Sessions!Kinds, SessionsInv,
           NEW t \in Turns, NEW r \in Resolvers, Sessions!SearchVectors(t, r)
    PROVE  Outcome(t, r) /\ faults' \in 0..MaxFaults
<1> DEFINE j == job[t][r]
<1>1. j \in Sessions!Job /\ faults \in 0..MaxFaults /\ j.pc = "vector" /\ (r = "glossary" => j.read)
  BY DEF SessionsInv, Sessions!TypeOK, Sound, Sessions!SearchVectors
<1>2. faults' \in 0..MaxFaults
  BY <1>1 DEF Sessions!SearchVectors, Sessions!Statement, Sessions!Fault
<1>3. \/ \E k \in {j, [j EXCEPT !.transaction = "open"]} :
            \/ r # "tables" /\ Sessions!Finish(t, r, [k EXCEPT !.read = TRUE])
            \/ Sessions!Continue(t, r, [k EXCEPT !.pc = "keywords"])
      \/ \E k \in {j, [j EXCEPT !.transaction = "aborted"]} :
            \/ r = "tables" /\ Sessions!RollBack(t, r, k)
            \/ r # "tables" /\ Sessions!Retry(t, r, k)
  BY DEF Sessions!SearchVectors, Sessions!Statement
<1> HIDE DEF j
<1>4. ASSUME NEW k \in {j, [j EXCEPT !.transaction = "open"], [j EXCEPT !.transaction = "aborted"]}
      PROVE  k \in Sessions!Job /\ k.pc = "vector" /\ k.read = j.read /\ k.tries = j.tries
  <2>1. CASE k = j
    BY <1>1, <2>1
  <2>2. CASE k = [j EXCEPT !.transaction = "open"]
    <3>1. k \in Sessions!Job
      BY <1>1, <2>2, JobsAre
    <3> QED
      BY <1>1, <2>2, <3>1 DEF Sessions!Job
  <2>3. CASE k = [j EXCEPT !.transaction = "aborted"]
    <3>1. k \in Sessions!Job
      BY <1>1, <2>3, JobsAre
    <3> QED
      BY <1>1, <2>3, <3>1 DEF Sessions!Job
  <2> QED
    BY <2>1, <2>2, <2>3
<1>5. ASSUME NEW k \in {j, [j EXCEPT !.transaction = "open"]},
             Sessions!Finish(t, r, [k EXCEPT !.read = TRUE])
      PROVE  Outcome(t, r)
  <2> DEFINE l == [k EXCEPT !.read = TRUE]
  <2>1. l \in Sessions!Job /\ l.read
    <3>1. k \in Sessions!Job
      BY <1>4
    <3>2. l \in Sessions!Job
      BY <3>1, JobsAre
    <3> QED
      BY <3>1, <3>2 DEF Sessions!Job
  <2>2. Sessions!Finish(t, r, l)
    BY <1>5
  <2> HIDE DEF l
  <2> QED
    BY <2>1, <2>2 DEF Outcome
<1>6. ASSUME NEW k \in {j, [j EXCEPT !.transaction = "open"], [j EXCEPT !.transaction = "aborted"]},
             Sessions!Continue(t, r, [k EXCEPT !.pc = "keywords"])
      PROVE  Outcome(t, r)
  <2> DEFINE l == [k EXCEPT !.pc = "keywords"]
  <2>1. l \in Sessions!Job /\ l.pc = "keywords"
    <3>1. k \in Sessions!Job
      BY <1>4
    <3>2. l \in Sessions!Job
      BY <3>1, JobsAre
    <3> QED
      BY <3>1, <3>2 DEF Sessions!Job
  <2>2. Sessions!Continue(t, r, l)
    BY <1>6
  <2> HIDE DEF l
  <2> QED
    BY <2>1, <2>2 DEF Outcome
<1>7. ASSUME NEW k \in {j, [j EXCEPT !.transaction = "aborted"]}, Sessions!RollBack(t, r, k)
      PROVE  Outcome(t, r)
  <2> DEFINE l == [k EXCEPT !.pc = "keywords", !.transaction = "none"]
  <2>1. l \in Sessions!Job /\ l.pc = "keywords"
    <3>1. k \in Sessions!Job
      BY <1>4
    <3>2. l \in Sessions!Job
      BY <3>1, JobsAre
    <3> QED
      BY <3>1, <3>2 DEF Sessions!Job
  <2>2. Sessions!Continue(t, r, l)
    BY <1>7 DEF Sessions!RollBack
  <2> HIDE DEF l
  <2> QED
    BY <2>1, <2>2 DEF Outcome
<1>8. ASSUME NEW k \in {j, [j EXCEPT !.transaction = "aborted"]}, r # "tables", Sessions!Retry(t, r, k)
      PROVE  Outcome(t, r)
  <2>1. k \in Sessions!Job /\ k.pc = "vector" /\ (r = "glossary" => k.read)
    BY <1>1, <1>4
  <2>2. CASE k.tries < Retries
    <3> DEFINE l == [k EXCEPT !.tries = @ + 1]
    <3>1. l \in Sessions!Job /\ l.pc = "vector" /\ l.read = k.read
      BY <2>1, <2>2, JobsAre DEF Sessions!Job
    <3>2. Sessions!Continue(t, r, l)
      BY <1>8, <2>2 DEF Sessions!Retry
    <3> HIDE DEF l
    <3> QED
      BY <2>1, <3>1, <3>2 DEF Outcome
  <2>3. CASE ~(k.tries < Retries) /\ r = "knowledge"
    BY <1>6, <1>8, <2>3 DEF Sessions!Retry, Sessions!FallBack
  <2>4. CASE ~(k.tries < Retries) /\ r # "knowledge"
    <3>1. Sessions!Finish(t, r, k)
      BY <1>8, <2>4 DEF Sessions!Retry, Sessions!FallBack
    <3>2. r # "samples" => k.read
      BY <1>8, <2>1, <2>4 DEF Sessions!Kinds
    <3> QED
      BY <2>1, <3>1, <3>2 DEF Outcome
  <2> QED
    BY <2>2, <2>3, <2>4
<1> QED
  BY <1>2, <1>3, <1>5, <1>6, <1>7, <1>8

LEMMA SearchesKeywords ==
    ASSUME Retries \in Nat, MaxFaults \in Nat, SessionsInv, NEW t \in Turns, NEW r \in Resolvers,
           Sessions!SearchKeywords(t, r)
    PROVE  Outcome(t, r) /\ faults' \in 0..MaxFaults
<1> DEFINE j == job[t][r]
<1>1. j \in Sessions!Job /\ faults \in 0..MaxFaults
  BY DEF SessionsInv, Sessions!TypeOK
<1>2. faults' \in 0..MaxFaults
  BY <1>1 DEF Sessions!SearchKeywords, Sessions!Statement, Sessions!Fault
<1>3. \/ Sessions!Raise(t, r)
      \/ \E k \in {j, [j EXCEPT !.transaction = "open"]} : Sessions!Finish(t, r, [k EXCEPT !.read = TRUE])
  BY DEF Sessions!SearchKeywords, Sessions!Statement
<1> HIDE DEF j
<1>4. ASSUME NEW k \in {j, [j EXCEPT !.transaction = "open"]},
             Sessions!Finish(t, r, [k EXCEPT !.read = TRUE])
      PROVE  Outcome(t, r)
  <2> DEFINE l == [k EXCEPT !.read = TRUE]
  <2>1. k \in Sessions!Job
    BY <1>1, JobsAre
  <2>2. l \in Sessions!Job /\ l.read
    BY <2>1, JobsAre DEF Sessions!Job
  <2>3. Sessions!Finish(t, r, l)
    BY <1>4
  <2> HIDE DEF l
  <2> QED
    BY <2>2, <2>3 DEF Outcome
<1> QED
  BY <1>2, <1>3, <1>4 DEF Outcome

-----------------------------------------------------------------------------
\* Jobs of one turn change, and its stage, in one way or another.
LEMMA OneTurn ==
    ASSUME SessionsInv, NEW t \in Turns, NEW stage, NEW jobs,
           turn' = [turn EXCEPT ![t] = stage], job' = [job EXCEPT ![t] = jobs],
           stage \in {"idle", "login", "gather"} \cup Later,
           jobs \in [Resolvers -> Sessions!Job], \A r \in Resolvers : Sound(stage, r, jobs[r]),
           faults' \in 0..MaxFaults
    PROVE  SessionsInv'
<1>1. /\ turn'[t] = stage /\ job'[t] = jobs
      /\ \A u \in Turns \ {t} : turn'[u] = turn[u] /\ job'[u] = job[u]
  BY DEF SessionsInv, Sessions!TypeOK
<1>2. Sessions!TypeOK'
  BY DEF SessionsInv, Sessions!TypeOK, Later
<1>3. ASSUME NEW u \in Turns, NEW r \in Resolvers
      PROVE  Sound(turn'[u], r, job'[u][r])
  BY <1>1 DEF SessionsInv
<1> QED
  BY <1>2, <1>3 DEF SessionsInv, Sound

\* What a turn that ends leaves: the resolvers that still run.
LEMMA LeftIs ==
    ASSUME SessionsInv, Retries \in Nat, NEW t \in Turns
    PROVE  /\ Sessions!Left(t) \in [Resolvers -> Sessions!Job]
           /\ \A r \in Resolvers : Sound("idle", r, Sessions!Left(t)[r])
<1>1. \A r \in Resolvers : Sessions!Left(t)[r] \in {job[t][r], Sessions!NoJob}
  BY DEF Sessions!Left
<1>2. \A r \in Resolvers : job[t][r] \in Sessions!Job /\ Sound("idle", r, job[t][r])
  BY DEF SessionsInv, Sessions!TypeOK, Sound, Later
<1>3. \A r \in Resolvers : Sound("idle", r, Sessions!NoJob)
  BY NoJobIs DEF Sound, Later
<1> QED
  BY <1>1, <1>2, <1>3, NoJobIs DEF Sessions!Left

LEMMA EndedSteps ==
    ASSUME SessionsInv, Retries \in Nat, NEW t \in Turns, Sessions!Ended(t), faults' \in 0..MaxFaults
    PROVE  SessionsInv'
BY LeftIs, OneTurn DEF Sessions!Ended, Sessions!Goto

\* Between the gathering and the assembling of a context its jobs are all done.
LEMMA StageSteps ==
    ASSUME SessionsInv, NEW t \in Turns, NEW stage \in Later,
           turn[t] \in Later \/ (turn[t] = "gather" /\ Sessions!Running(t) = {}),
           Sessions!Goto(t, stage), job' = job, faults' \in 0..MaxFaults
    PROVE  SessionsInv'
<1>1. job[t] \in [Resolvers -> Sessions!Job] /\ job' = [job EXCEPT ![t] = job[t]]
  BY DEF SessionsInv, Sessions!TypeOK
<1>2. \A r \in Resolvers : job[t][r].pc = "done"
  BY DEF SessionsInv, Sound, Sessions!Running, Later
<1>3. \A r \in Resolvers : Sound(stage, r, job[t][r])
  BY <1>2 DEF SessionsInv, Sound, Later
<1> QED
  BY <1>1, <1>3, OneTurn DEF Sessions!Goto

LEMMA OutcomeSteps ==
    ASSUME SessionsInv, Retries \in Nat, NEW t \in Turns, NEW r \in Resolvers, Outcome(t, r),
           job[t][r].pc \in {"terms", "vector", "keywords"}, faults' \in 0..MaxFaults
    PROVE  SessionsInv'
<1>1. turn[t] \in {"idle", "gather"}
  BY DEF SessionsInv, Sessions!TypeOK, Sound, Later
<1>2. turn = [turn EXCEPT ![t] = turn[t]] /\ job[t] \in [Resolvers -> Sessions!Job]
      /\ \A q \in Resolvers : Sound(turn[t], q, job[t][q])
  BY DEF SessionsInv, Sessions!TypeOK
<1>3. ASSUME NEW j \in Sessions!Job, Sound(turn[t], r, j), Sessions!Set(t, r, j), UNCHANGED turn
      PROVE  SessionsInv'
  <2> DEFINE jobs == [job[t] EXCEPT ![r] = j]
  <2>1. job' = [job EXCEPT ![t] = jobs] /\ turn' = [turn EXCEPT ![t] = turn[t]]
    BY <1>2, <1>3 DEF Sessions!Set, SessionsInv, Sessions!TypeOK
  <2>2. jobs \in [Resolvers -> Sessions!Job]
        /\ \A q \in Resolvers : jobs[q] = IF q = r THEN j ELSE job[t][q]
    BY <1>2
  <2>3. \A q \in Resolvers : Sound(turn[t], q, jobs[q])
    BY <1>2, <1>3, <2>2
  <2> HIDE DEF jobs
  <2> QED
    BY <1>1, <2>1, <2>2, <2>3, OneTurn
<1>4. ASSUME NEW j \in Sessions!Job, Sessions!Continue(t, r, j), j.pc \in {"terms", "vector", "keywords"},
             j.pc = "vector" /\ r = "glossary" => j.read
      PROVE  SessionsInv'
  <2>1. Sound(turn[t], r, j)
    BY <1>1, <1>4 DEF Sound, Later
  <2> QED
    BY <1>3, <1>4, <2>1 DEF Sessions!Continue
<1>5. ASSUME NEW j \in Sessions!Job, Sessions!Finish(t, r, j), r # "samples" => j.read
      PROVE  SessionsInv'
  <2> DEFINE k == [j EXCEPT !.pc = "done", !.transaction = "none", !.tries = 0]
  <2>1. CASE turn[t] # "gather"
    <3>1. Sessions!Set(t, r, Sessions!NoJob) /\ UNCHANGED turn
      BY <1>5, <2>1 DEF Sessions!Finish, Sessions!Closed
    <3>2. Sound(turn[t], r, Sessions!NoJob) /\ Sessions!NoJob \in Sessions!Job
      BY <1>1, <2>1, NoJobIs DEF Sound, Later
    <3> QED
      BY <1>3, <3>1, <3>2
  <2>2. CASE turn[t] = "gather"
    <3>1. Sessions!Set(t, r, k) /\ UNCHANGED turn
      BY <1>5, <2>2 DEF Sessions!Finish, Sessions!Closed
    <3>2. k \in Sessions!Job
      BY JobsAre
    <3>3. k.pc = "done" /\ k.read = j.read
      BY DEF Sessions!Job
    <3> HIDE DEF k
    <3>4. Sound(turn[t], r, k)
      BY <1>5, <2>2, <3>3 DEF Sound, Later
    <3> QED
      BY <1>3, <3>1, <3>2, <3>4
  <2> QED
    BY <2>1, <2>2
<1>6. CASE Sessions!Raise(t, r)
  <2> DEFINE jobs == [Sessions!Left(t) EXCEPT ![r] = Sessions!NoJob]
  <2>1. turn' = [turn EXCEPT ![t] = "idle"] /\ job' = [job EXCEPT ![t] = jobs]
    BY <1>6 DEF Sessions!Raise, Sessions!Goto
  <2>2. jobs \in [Resolvers -> Sessions!Job]
        /\ \A q \in Resolvers : jobs[q] = IF q = r THEN Sessions!NoJob ELSE Sessions!Left(t)[q]
    BY LeftIs, NoJobIs
  <2>3. \A q \in Resolvers : Sound("idle", q, jobs[q])
    BY <2>2, LeftIs, NoJobIs DEF Sound, Later
  <2> HIDE DEF jobs
  <2> QED
    BY <2>1, <2>2, <2>3, OneTurn
<1> QED
  BY <1>4, <1>5, <1>6 DEF Outcome

-----------------------------------------------------------------------------
LEMMA NextSessions ==
    ASSUME SessionsInv, [Sessions!Next]_(Sessions!vars),
           Retries \in Nat, MaxFaults \in Nat, Resolvers \subseteq Sessions!Kinds
    PROVE  SessionsInv'
<1>0. faults \in 0..MaxFaults /\ job \in [Turns -> [Resolvers -> Sessions!Job]]
  BY DEF SessionsInv, Sessions!TypeOK
<1>1. CASE UNCHANGED Sessions!vars
  BY <1>1 DEF Sessions!vars, SessionsInv, Sessions!TypeOK
<1>2. ASSUME NEW t \in Turns, Sessions!Arrive(t)
      PROVE  SessionsInv'
  <2>1. /\ turn' = [turn EXCEPT ![t] = "login"] /\ job' = [job EXCEPT ![t] = job[t]]
        /\ UNCHANGED faults /\ Sessions!Running(t) = {}
    BY <1>0, <1>2 DEF Sessions!Arrive, Sessions!Goto
  <2>2. job[t] \in [Resolvers -> Sessions!Job]
    BY <1>0
  <2>3. \A r \in Resolvers : Sound("login", r, job[t][r])
    BY <2>1 DEF SessionsInv, Sound, Sessions!Running, Later
  <2> QED
    BY <1>0, <2>1, <2>2, <2>3, OneTurn
<1>3. ASSUME NEW t \in Turns, Sessions!Login(t)
      PROVE  SessionsInv'
  <2>1. faults' \in 0..MaxFaults
    BY <1>0, <1>3 DEF Sessions!Login, Sessions!FirstStatement, Sessions!Fault
  <2>2. CASE Sessions!Ended(t)
    BY <2>1, <2>2, EndedSteps
  <2>3. CASE /\ Sessions!Goto(t, "gather")
             /\ \E embedded \in BOOLEAN :
                   job' = [job EXCEPT ![t] = [r \in Resolvers |-> Sessions!Begun(r, embedded)]]
    <3>1. PICK embedded \in BOOLEAN :
             job' = [job EXCEPT ![t] = [r \in Resolvers |-> Sessions!Begun(r, embedded)]]
      BY <2>3
    <3>2. \A r \in Resolvers :
            Sessions!Begun(r, embedded) \in Sessions!Job /\ Sound("gather", r, Sessions!Begun(r, embedded))
      <4> TAKE r \in Resolvers
      <4> DEFINE next == CASE embedded -> IF r = "glossary" THEN "terms" ELSE "vector"
                           [] ~embedded -> IF r = "samples" THEN "done" ELSE "keywords"
                 j == [Sessions!NoJob EXCEPT !.pc = next]
      <4>1. /\ next \in {"terms", "vector", "keywords", "done"}
            /\ next = "done" => r = "samples"
            /\ next = "vector" => r # "glossary"
        OBVIOUS
      <4>2. j = Sessions!Begun(r, embedded)
        BY DEF Sessions!Begun
      <4> HIDE DEF next
      <4>3. j \in Sessions!Job /\ j.pc = next
        BY <4>1, NoJobIs DEF Sessions!Job
      <4> HIDE DEF j
      <4>4. Sound("gather", r, j)
        BY <4>1, <4>3 DEF Sound, Later
      <4> QED
        BY <4>2, <4>3, <4>4
    <3> DEFINE jobs == [r \in Resolvers |-> Sessions!Begun(r, embedded)]
    <3>3. jobs \in [Resolvers -> Sessions!Job] /\ \A r \in Resolvers : Sound("gather", r, jobs[r])
      BY <3>2
    <3>4. turn' = [turn EXCEPT ![t] = "gather"] /\ job' = [job EXCEPT ![t] = jobs]
      BY <2>3, <3>1 DEF Sessions!Goto
    <3> HIDE DEF jobs
    <3> QED
      BY <2>1, <3>3, <3>4, OneTurn
  <2> QED
    BY <1>3, <2>2, <2>3 DEF Sessions!Login, Sessions!FirstStatement
<1>4. ASSUME NEW t \in Turns, Sessions!Gathered(t)
      PROVE  SessionsInv'
  BY <1>0, <1>4, StageSteps DEF Sessions!Gathered, Later
<1>5. ASSUME NEW t \in Turns, Sessions!FetchNames(t) \/ Sessions!Expand(t) \/ Sessions!FetchSamples(t)
      PROVE  SessionsInv'
  <2>1. faults' \in 0..MaxFaults
    BY <1>0, <1>5 DEF Sessions!FetchNames, Sessions!Expand, Sessions!FetchSamples, Sessions!FirstStatement, Sessions!Fault
  <2>2. CASE Sessions!Ended(t)
    BY <2>1, <2>2, EndedSteps
  <2>3. CASE ~Sessions!Ended(t)
    <3>1. job' = job /\ \E stage \in Later : Sessions!Goto(t, stage)
      BY <1>5, <2>3 DEF Sessions!FetchNames, Sessions!Expand, Sessions!FetchSamples, Sessions!FirstStatement, Later
    <3>2. turn[t] \in Later
      BY <1>5 DEF Sessions!FetchNames, Sessions!Expand, Sessions!FetchSamples, Later
    <3>3. PICK stage \in Later : Sessions!Goto(t, stage)
      BY <3>1
    <3> QED
      BY <1>0, <2>1, <3>1, <3>2, <3>3, StageSteps
  <2> QED
    BY <2>2, <2>3
<1>6. ASSUME NEW t \in Turns, Sessions!Assemble(t)
      PROVE  SessionsInv'
  <2>1. faults' \in 0..MaxFaults /\ Sessions!Ended(t)
    BY <1>0, <1>6 DEF Sessions!Assemble, Sessions!Fault
  <2> QED
    BY <2>1, EndedSteps
<1>7. ASSUME NEW t \in Turns, Sessions!Cancel(t)
      PROVE  SessionsInv'
  <2> DEFINE jobs == [r \in Resolvers |-> Sessions!NoJob]
  <2>1. turn' = [turn EXCEPT ![t] = "idle"] /\ job' = [job EXCEPT ![t] = jobs]
        /\ UNCHANGED faults
    BY <1>7 DEF Sessions!Cancel, Sessions!Goto
  <2>2. jobs \in [Resolvers -> Sessions!Job] /\ \A r \in Resolvers : Sound("idle", r, jobs[r])
    BY NoJobIs DEF Sound, Later
  <2> HIDE DEF jobs
  <2> QED
    BY <1>0, <2>1, <2>2, OneTurn
<1>8. ASSUME NEW t \in Turns, Sessions!Resolve(t)
      PROVE  SessionsInv'
  <2>1. PICK r \in Resolvers : Sessions!ReadTerms(t, r) \/ Sessions!SearchVectors(t, r) \/ Sessions!SearchKeywords(t, r)
    BY <1>8 DEF Sessions!Resolve
  <2>2. job[t][r].pc \in {"terms", "vector", "keywords"}
    BY <2>1 DEF Sessions!ReadTerms, Sessions!SearchVectors, Sessions!SearchKeywords
  <2>3. Outcome(t, r) /\ faults' \in 0..MaxFaults
    BY <2>1, ReadsTerms, SearchesVectors, SearchesKeywords
  <2> QED
    BY <2>2, <2>3, OutcomeSteps
<1> QED
  BY <1>1, <1>2, <1>3, <1>4, <1>5, <1>6, <1>7, <1>8 DEF Sessions!Next, Sessions!Proceed

\* What is true of the sessions alone is true of them beside the others.
LEMMA SuiteSessions == SuiteSpec => Sessions!Spec
<1>1. SuiteInit => Sessions!Init
  BY DEF SuiteInit
<1>2. [SuiteNext]_<<which, vars, startVars, sessionVars>> => [Sessions!Next]_(Sessions!vars)
  BY DEF SuiteNext, sessionVars, Sessions!vars
<1> QED
  BY <1>1, <1>2, PTL DEF SuiteSpec, Sessions!Spec

LEMMA SessionsInvariant == SuiteSpec => []SessionsInv
BY ServerAssumption, SuiteSessions, InitSessions, NextSessions, PTL DEF Sessions!Spec

-----------------------------------------------------------------------------
\* Turns, jobs and their retries keep their types.
THEOREM SessionsTypeCorrect == SuiteSpec => []Sessions!TypeOK
<1>1. SessionsInv => Sessions!TypeOK
  BY DEF SessionsInv
<1> QED
  BY <1>1, SessionsInvariant, PTL

\* Whatever statements fail, a context is assembled only when the tables, the glossary and
\* the knowledge were searched (schema_linker.py, glossary_resolver.py).
THEOREM NoSourceIsSkipped == SuiteSpec => []SourcesAreSearched
<1>1. SessionsInv => SourcesAreSearched
  BY DEF SessionsInv, Sound, SourcesAreSearched, Sessions!SourcesAreSearched, Later
<1> QED
  BY <1>1, SessionsInvariant, PTL
=============================================================================
