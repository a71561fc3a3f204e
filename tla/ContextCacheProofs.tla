------------------------- MODULE ContextCacheProofs -------------------------
(***************************************************************************)
(* Proofs about ContextCache: for any turns, connections and questions,    *)
(* any size of the cache and any times to live.                            *)
(***************************************************************************)
EXTENDS ContextCache, FiniteSetTheorems, SequenceTheorems, TLAPS

Building == {"embLock", "embed", "gather", "readTerms", "finish"}

Fields == {"pc", "key", "since", "termsSince", "content", "object"}

\* What the locks are about: the place and the key of a turn.
Shape ==
    /\ turn = [t \in Turns |-> turn[t]]
    /\ \A t \in Turns :
         /\ DOMAIN turn[t] = Fields
         /\ turn[t].pc \in {"idle", "lock", "fetch"} \cup Building
         /\ turn[t].pc \in {"lock"} \cup Building => turn[t].key \in Keys
    /\ lock \in [Keys -> Turns \cup {Null}]
    /\ embLock \in [Questions -> Turns \cup {Null}]

\* Whoever builds a context has the lock of its key, and whoever embeds a question
\* the lock of that.
Locked ==
    \A t \in Turns :
        /\ turn[t].pc \in Building => lock[turn[t].key] = t
        /\ turn[t].pc = "embed" => embLock[Question(t)] = t

LockInv == Shape /\ Locked /\ LocksAreHeld

\* The objects and the entries.
Sizes ==
    /\ copies \in [Objects -> {0, 1}]
    /\ cache = [k \in Keys |-> cache[k]]
    /\ IsFiniteSet(Occupied) /\ CacheIsBounded

-----------------------------------------------------------------------------
LEMMA InitContext == Init => LockInv /\ Sizes
<1> SUFFICES ASSUME Init PROVE LockInv /\ Sizes
  OBVIOUS
<1>1. Occupied = {}
  BY DEF Init, Occupied
<1>2. Sizes
  BY <1>1, FS_EmptySet, BoundsAssumption DEF Init, Sizes, CacheIsBounded
<1>3. LockInv
  BY DEF Init, LockInv, Shape, Fields, Locked, LocksAreHeld, Idle, Building
<1> QED
  BY <1>2, <1>3

\* A step of one turn to r: it holds the locks of where it goes, no other lock of it
\* stays behind, and none is taken from another turn.
Step(t, r) ==
    /\ turn' = [turn EXCEPT ![t] = r]
    /\ DOMAIN r = Fields
    /\ r.pc \in {"idle", "lock", "fetch"} \cup Building
    /\ r.pc \in {"lock"} \cup Building => r.key \in Keys
    /\ lock' = [k \in Keys |-> IF r.pc \in Building /\ k = r.key THEN t
                               ELSE IF lock[k] = t THEN Null ELSE lock[k]]
    /\ embLock' = [q \in Questions |-> IF r.pc = "embed" /\ q = r.key[2] THEN t
                                       ELSE IF embLock[q] = t THEN Null ELSE embLock[q]]
    /\ r.pc \in Building => lock[r.key] \in {t, Null}
    /\ r.pc = "embed" => embLock[r.key[2]] \in {t, Null}

LEMMA OneTurn ==
    ASSUME LockInv, NEW t \in Turns, NEW r, Step(t, r)
    PROVE  LockInv' /\ \A u \in Turns \ {t} : turn'[u] = turn[u]
<1>0. /\ \A k \in Keys : lock'[k] = IF r.pc \in Building /\ k = r.key THEN t
                                    ELSE IF lock[k] = t THEN Null ELSE lock[k]
      /\ \A q \in Questions : embLock'[q] = IF r.pc = "embed" /\ q = r.key[2] THEN t
                                            ELSE IF embLock[q] = t THEN Null ELSE embLock[q]
      /\ turn' = [turn EXCEPT ![t] = r]
      /\ DOMAIN r = Fields
      /\ r.pc \in {"idle", "lock", "fetch"} \cup Building
      /\ r.pc \in {"lock"} \cup Building => r.key \in Keys
      /\ lock' = [k \in Keys |-> lock'[k]] /\ embLock' = [q \in Questions |-> embLock'[q]]
      /\ r.pc \in Building => lock[r.key] \in {t, Null}
      /\ r.pc = "embed" => embLock[r.key[2]] \in {t, Null}
  BY DEF Step
<1> USE <1>0
<1> USE TurnsAssumption
<1>1. turn'[t] = r /\ \A u \in Turns \ {t} : turn'[u] = turn[u]
  BY DEF LockInv, Shape
<1>2. Shape'
  BY <1>1 DEF LockInv, Shape
<1>3. \A k \in Keys : k[2] \in Questions
  BY DEF Keys
<1>4. ASSUME NEW u \in Turns
      PROVE  /\ turn'[u].pc \in Building => lock'[turn'[u].key] = u
             /\ turn'[u].pc = "embed" => embLock'[Question(u)'] = u
  BY <1>1, <1>3, <1>4 DEF LockInv, Shape, Locked, Question, Building
<1>5. Locked'
  BY <1>4 DEF Locked
<1>6. ASSUME NEW k \in Keys, lock'[k] # Null
      PROVE  turn'[lock'[k]].key = k /\ turn'[lock'[k]].pc \in Building
  <2>1. CASE lock'[k] = t
    <3>1. r.pc \in Building /\ k = r.key
      BY <2>1
    <3> QED
      BY <1>1, <2>1, <3>1
  <2>2. CASE lock'[k] # t
    <3>1. lock'[k] = lock[k] /\ lock[k] \in Turns \ {t}
      BY <1>6, <2>2 DEF LockInv, Shape
    <3>2. turn[lock[k]].key = k /\ turn[lock[k]].pc \in Building
      BY <3>1 DEF LockInv, LocksAreHeld, Building
    <3> QED
      BY <1>1, <3>1, <3>2
  <2> QED
    BY <2>1, <2>2
<1>7. ASSUME NEW q \in Questions, embLock'[q] # Null
      PROVE  /\ turn'[embLock'[q]].pc = "embed" /\ turn'[embLock'[q]].key[2] = q
             /\ lock'[turn'[embLock'[q]].key] = embLock'[q]
  <2>1. CASE embLock'[q] = t
    <3>1. r.pc = "embed" /\ q = r.key[2] /\ r.key \in Keys
      BY <2>1 DEF Building
    <3> QED
      BY <1>1, <2>1, <3>1 DEF Building
  <2>2. CASE embLock'[q] # t
    <3> DEFINE u == embLock[q]
    <3>1. embLock'[q] = u /\ u \in Turns \ {t}
      BY <1>7, <2>2 DEF LockInv, Shape
    <3>2. turn[u].pc = "embed" /\ turn[u].key[2] = q /\ lock[turn[u].key] = u
      BY <3>1 DEF LockInv, LocksAreHeld, At, Question
    <3>3. turn[u].key \in Keys
      BY <3>1, <3>2 DEF LockInv, Shape, Building
    <3> HIDE DEF u
    <3>4. lock'[turn[u].key] = u
      BY <3>1, <3>2, <3>3
    <3> QED
      BY <1>1, <3>1, <3>2, <3>4
  <2> QED
    BY <2>1, <2>2
<1>8. LocksAreHeld'
  BY <1>6, <1>7 DEF LocksAreHeld, Building, At, Question
<1> QED
  BY <1>1, <1>2, <1>5, <1>8 DEF LockInv

\* Steps that leave turns and locks alone, or only let their time stamps age.
LEMMA NoTurn ==
    ASSUME LockInv, UNCHANGED <<lock, embLock>>,
           \/ UNCHANGED turn
           \/ \E since, terms : turn' = [t \in Turns |->
                 [turn[t] EXCEPT !.since = since[t], !.termsSince = terms[t]]]
    PROVE  LockInv' /\ \A t \in Turns : turn'[t].pc = turn[t].pc
<1>1. Shape' /\ \A t \in Turns : turn'[t].pc = turn[t].pc /\ turn'[t].key = turn[t].key
  <2>1. CASE UNCHANGED turn
    BY <2>1 DEF LockInv, Shape
  <2>2. CASE \E since, terms : turn' = [t \in Turns |->
                 [turn[t] EXCEPT !.since = since[t], !.termsSince = terms[t]]]
    <3>1. PICK since, terms : turn' = [t \in Turns |->
                 [turn[t] EXCEPT !.since = since[t], !.termsSince = terms[t]]]
      BY <2>2
    <3>2. ASSUME NEW t \in Turns
          PROVE  /\ DOMAIN turn'[t] = Fields
                 /\ turn'[t].pc = turn[t].pc /\ turn'[t].key = turn[t].key
      BY <3>1 DEF LockInv, Shape, Fields
    <3> QED
      BY <3>1, <3>2 DEF LockInv, Shape
  <2> QED
    BY <2>1, <2>2
<1>2. Locked'
  BY <1>1 DEF LockInv, Locked, Question
<1>3. LocksAreHeld'
  <2>1. \A k \in Keys : lock[k] # Null => lock[k] \in Turns
    BY DEF LockInv, Shape
  <2>2. \A q \in Questions : embLock[q] # Null => embLock[q] \in Turns
    BY DEF LockInv, Shape
  <2>3. ASSUME NEW k \in Keys, lock'[k] # Null
        PROVE  turn'[lock'[k]].key = k /\ turn'[lock'[k]].pc \in Building
    BY <1>1, <2>1, <2>3 DEF LockInv, LocksAreHeld, Building
  <2>4. ASSUME NEW q \in Questions, embLock'[q] # Null
        PROVE  /\ turn'[embLock'[q]].pc = "embed" /\ turn'[embLock'[q]].key[2] = q
               /\ lock'[turn'[embLock'[q]].key] = embLock'[q]
    <3> DEFINE u == embLock[q]
    <3>1. u \in Turns /\ embLock'[q] = u
      BY <2>2, <2>4
    <3>2. turn[u].pc = "embed" /\ turn[u].key[2] = q /\ lock[turn[u].key] = u
      BY <2>4, <3>1 DEF LockInv, LocksAreHeld, At, Question
    <3> HIDE DEF u
    <3> QED
      BY <1>1, <3>1, <3>2
  <2> QED
    BY <2>3, <2>4 DEF LocksAreHeld, Building, At, Question
<1> QED
  BY <1>1, <1>2, <1>3 DEF LockInv

\* What a turn holds, by where it is.
LEMMA Holds ==
    ASSUME LockInv, NEW t \in Turns
    PROVE  /\ \A k \in Keys : lock[k] = t => turn[t].pc \in Building /\ turn[t].key = k
           /\ \A q \in Questions :
                embLock[q] = t => turn[t].pc = "embed" /\ turn[t].key[2] = q
           /\ turn[t].pc \in Building => /\ turn[t].key \in Keys /\ turn[t].key[2] \in Questions
                                         /\ lock[turn[t].key] = t
           /\ turn[t].pc = "embed" => embLock[turn[t].key[2]] = t
           /\ turn[t].pc = "lock" => turn[t].key \in Keys
           /\ DOMAIN turn[t] = Fields
           /\ lock = [k \in Keys |-> lock[k]] /\ embLock = [q \in Questions |-> embLock[q]]
<1>1. ASSUME NEW k \in Keys, lock[k] = t
      PROVE  turn[t].pc \in Building /\ turn[t].key = k
  BY <1>1, TurnsAssumption DEF LockInv, LocksAreHeld, Building
<1>2. ASSUME NEW q \in Questions, embLock[q] = t
      PROVE  turn[t].pc = "embed" /\ turn[t].key[2] = q
  BY <1>2, TurnsAssumption DEF LockInv, LocksAreHeld, At, Question
<1>3. turn[t].pc \in Building \cup {"lock"} => turn[t].key \in Keys /\ turn[t].key[2] \in Questions
  BY DEF LockInv, Shape, Keys
<1>4. DOMAIN turn[t] = Fields
  BY DEF LockInv, Shape
<1>5. lock = [k \in Keys |-> lock[k]] /\ embLock = [q \in Questions |-> embLock[q]]
  BY DEF LockInv, Shape
<1>6. /\ turn[t].pc \in Building => lock[turn[t].key] = t
      /\ turn[t].pc = "embed" => embLock[turn[t].key[2]] = t
  BY DEF LockInv, Locked, Question
<1> QED
  BY <1>1, <1>2, <1>3, <1>4, <1>5, <1>6

\* What is handed over leaves the locks.
LEMMA HandedOver ==
    ASSUME NEW k, NEW o, NEW r, r = Idle \/ r \in Handed(k, o)
    PROVE  DOMAIN r = Fields /\ r.pc \in {"idle", "fetch"}
<1>1. CASE r = Idle
  BY <1>1 DEF Idle, Fields
<1>2. CASE r = [Idle EXCEPT !.pc = "fetch", !.key = k, !.object = o]
  BY <1>2 DEF Idle, Fields
<1> QED
  BY <1>1, <1>2 DEF Handed

\* A turn that is not building leaves the locks alone, ...
LEMMA StaysOutside ==
    ASSUME LockInv, NEW t \in Turns, NEW r, turn' = [turn EXCEPT ![t] = r],
           DOMAIN r = Fields, r.pc \in {"idle", "lock", "fetch"}, r.pc = "lock" => r.key \in Keys,
           turn[t].pc \notin Building, UNCHANGED <<lock, embLock>>
    PROVE  Step(t, r)
BY Holds DEF Step, Building

\* ... and one that goes on building leaves that of its key alone.
LEMMA StaysInside ==
    ASSUME LockInv, NEW t \in Turns, NEW r, turn' = [turn EXCEPT ![t] = r],
           DOMAIN r = Fields, r.pc \in Building, r.key = turn[t].key,
           turn[t].pc \in Building, UNCHANGED lock,
           embLock' = [q \in Questions |-> IF r.pc = "embed" /\ q = r.key[2] THEN t
                                           ELSE IF embLock[q] = t THEN Null ELSE embLock[q]],
           r.pc = "embed" => embLock[r.key[2]] \in {t, Null}
    PROVE  Step(t, r)
BY Holds DEF Step

LEMMA TurnSteps ==
    ASSUME LockInv, NEW t \in Turns,
           \/ Ask(t) \/ EnterLock(t) \/ EnterEmbLock(t) \/ Embed(t) \/ Gather(t)
           \/ StoreTerms(t) \/ Finish(t) \/ AppendMissing(t) \/ Abort(t)
    PROVE  \E r : Step(t, r)
<1> USE TurnsAssumption
<1>0. lock \in [Keys -> Turns \cup {Null}] /\ embLock \in [Questions -> Turns \cup {Null}]
  BY DEF LockInv, Shape
<1>1. CASE Ask(t)
  <2>1. turn[t].pc = "idle" /\ UNCHANGED <<lock, embLock>>
    BY <1>1 DEF Ask, At
  <2>2. PICK k \in Keys :
          \E r \in IF FreshContext(k) THEN FromCache(k)
                   ELSE {[Idle EXCEPT !.key = k, !.pc = "lock"]} : Goto(t, r)
    BY <1>1 DEF Ask
  <2>3. PICK r \in IF FreshContext(k) THEN FromCache(k)
                   ELSE {[Idle EXCEPT !.key = k, !.pc = "lock"]} : Goto(t, r)
    BY <2>2
  <2>4. CASE r = [Idle EXCEPT !.key = k, !.pc = "lock"]
    <3>1. DOMAIN r = Fields /\ r.pc = "lock" /\ r.key \in Keys
      BY <2>4 DEF Idle, Fields
    <3> QED
      BY <2>1, <2>3, <3>1, StaysOutside DEF Goto, Building
  <2>5. CASE r \in FromCache(k)
    <3>1. DOMAIN r = Fields /\ r.pc \in {"idle", "fetch"}
      BY <2>5, HandedOver DEF FromCache
    <3> QED
      BY <2>1, <2>3, <3>1, StaysOutside DEF Goto, Building
  <2> QED
    BY <2>3, <2>4, <2>5
<1>2. CASE EnterLock(t)
  <2> DEFINE k == turn[t].key
  <2>1. turn[t].pc = "lock" /\ lock[k] = Null /\ UNCHANGED embLock /\ k \in Keys
    BY <1>2, Holds DEF EnterLock, At
  <2>2. CASE FoundInLock(k)
    <3>1. UNCHANGED lock /\ \E r \in FromCache(k) : Goto(t, r)
      BY <1>2, <2>2 DEF EnterLock
    <3>2. PICK r \in FromCache(k) : Goto(t, r)
      BY <3>1
    <3>3. DOMAIN r = Fields /\ r.pc \in {"idle", "fetch"}
      BY <3>2, HandedOver DEF FromCache
    <3> QED
      BY <2>1, <3>1, <3>2, <3>3, StaysOutside DEF Goto, Building
  <2>3. CASE ~FoundInLock(k)
    <3> DEFINE r == [turn[t] EXCEPT !.since = 0,
                       !.pc = IF FreshEmbedding(Question(t)) THEN "gather" ELSE "embLock"]
    <3>1. lock' = [lock EXCEPT ![k] = t] /\ turn' = [turn EXCEPT ![t] = r]
      BY <1>2, <2>3 DEF EnterLock, Goto
    <3>2. DOMAIN r = Fields /\ r.pc \in {"gather", "embLock"} /\ r.key = k
      BY Holds DEF Fields
    <3> HIDE DEF r, k
    <3>3. \A l \in Keys : lock[l] # t
      BY <2>1, Holds DEF Building
    <3>4. \A q \in Questions : embLock[q] # t
      BY <2>1, Holds
    <3>5. lock' = [l \in Keys |-> IF r.pc \in Building /\ l = r.key THEN t
                                  ELSE IF lock[l] = t THEN Null ELSE lock[l]]
      <4>1. lock' = [l \in Keys |-> IF l = k THEN t ELSE lock[l]]
        BY <1>0, <3>1
      <4>2. \A l \in Keys : (r.pc \in Building /\ l = r.key) <=> l = k
        BY <3>2 DEF Building
      <4> QED
        BY <3>3, <4>1, <4>2
    <3>6. embLock' = [q \in Questions |-> IF r.pc = "embed" /\ q = r.key[2] THEN t
                                          ELSE IF embLock[q] = t THEN Null ELSE embLock[q]]
      BY <2>1, <3>2, <3>4, Holds
    <3>7. Step(t, r)
      BY <2>1, <3>1, <3>2, <3>5, <3>6 DEF Step, Building
    <3> QED
      BY <3>7
  <2> QED
    BY <2>2, <2>3
<1>3. CASE EnterEmbLock(t)
  <2> DEFINE q == turn[t].key[2]
  <2>1. PICK pc \in {"gather", "embed"} :
          /\ turn' = [turn EXCEPT ![t] = [turn[t] EXCEPT !.pc = pc, !.since = 0]]
          /\ embLock' = IF pc = "embed" THEN [embLock EXCEPT ![q] = t] ELSE embLock
          /\ pc = "embed" => embLock[q] = Null
    BY <1>3 DEF EnterEmbLock, Goto, Question
  <2>2. turn[t].pc = "embLock" /\ UNCHANGED lock
    BY <1>3 DEF EnterEmbLock, At, Question
  <2> DEFINE r == [turn[t] EXCEPT !.pc = pc, !.since = 0]
  <2>3. DOMAIN r = Fields /\ r.pc = pc /\ r.key = turn[t].key
    BY Holds DEF Fields
  <2>4. turn' = [turn EXCEPT ![t] = r]
    BY <2>1
  <2> HIDE DEF r
  <2>5. \A p \in Questions : embLock[p] # t
    BY <2>2, Holds
  <2>6. embLock' = [p \in Questions |-> IF r.pc = "embed" /\ p = r.key[2] THEN t
                                        ELSE IF embLock[p] = t THEN Null ELSE embLock[p]]
    BY <2>1, <2>3, <2>5, Holds
  <2>7. /\ r.pc \in Building /\ turn[t].pc \in Building
        /\ r.pc = "embed" => embLock[r.key[2]] \in {t, Null}
    BY <2>1, <2>2, <2>3 DEF Building
  <2>8. Step(t, r)
    BY <2>2, <2>3, <2>4, <2>6, <2>7, StaysInside
  <2> QED
    BY <2>8
<1>4. CASE Embed(t)
  <2>1. PICK r : /\ turn' = [turn EXCEPT ![t] = r] /\ DOMAIN r = Fields
                 /\ r.pc = "gather" /\ r.key = turn[t].key
    <3>1. \/ turn' = [turn EXCEPT ![t] = [turn[t] EXCEPT !.pc = "gather"]]
          \/ turn' = [turn EXCEPT ![t] = [turn[t] EXCEPT !.pc = "gather", !.content.degraded = TRUE]]
      BY <1>4 DEF Embed, Goto
    <3> DEFINE r1 == [turn[t] EXCEPT !.pc = "gather"]
               r2 == [turn[t] EXCEPT !.pc = "gather", !.content.degraded = TRUE]
    <3>2. turn' = [turn EXCEPT ![t] = r1] \/ turn' = [turn EXCEPT ![t] = r2]
      BY <3>1
    <3>3. DOMAIN r1 = Fields /\ r1.pc = "gather" /\ r1.key = turn[t].key
      BY Holds DEF Fields
    <3>4. DOMAIN r2 = Fields /\ r2.pc = "gather" /\ r2.key = turn[t].key
      BY Holds DEF Fields
    <3> HIDE DEF r1, r2
    <3> QED
      BY <3>2, <3>3, <3>4
  <2>2. turn[t].pc = "embed" /\ embLock' = [embLock EXCEPT ![turn[t].key[2]] = Null]
        /\ UNCHANGED lock
    BY <1>4 DEF Embed, At, Question
  <2>3. \A q \in Questions : embLock[q] = t <=> q = turn[t].key[2]
    BY <2>2, Holds
  <2>4. embLock' = [q \in Questions |-> IF q = turn[t].key[2] THEN Null ELSE embLock[q]]
    BY <1>0, <2>2
  <2>5. embLock' = [q \in Questions |-> IF r.pc = "embed" /\ q = r.key[2] THEN t
                                        ELSE IF embLock[q] = t THEN Null ELSE embLock[q]]
    BY <2>1, <2>3, <2>4
  <2> QED
    BY <2>1, <2>2, <2>5, StaysInside DEF Building
<1>5. CASE Gather(t) \/ StoreTerms(t)
  <2>1. PICK r : /\ turn' = [turn EXCEPT ![t] = r] /\ DOMAIN r = Fields
                 /\ r.pc \in {"finish", "readTerms"} /\ r.key = turn[t].key
    <3>1. CASE Gather(t)
      <4> DEFINE linked == [turn[t] EXCEPT !.content.cat = Version(Conn(t))]
                 r1 == [linked EXCEPT !.pc = "finish", !.content.terms = termCache[Conn(t)].terms]
                 r2 == [linked EXCEPT !.pc = "readTerms", !.content.terms = Version(Conn(t))]
      <4>1. turn' = [turn EXCEPT ![t] = r1] \/ turn' = [turn EXCEPT ![t] = r2]
        BY <3>1 DEF Gather, Goto
      <4>2. DOMAIN linked = Fields /\ linked.key = turn[t].key
        BY Holds DEF Fields
      <4> HIDE DEF linked
      <4>3. DOMAIN r1 = Fields /\ r1.pc = "finish" /\ r1.key = turn[t].key
        BY <4>2 DEF Fields
      <4>4. DOMAIN r2 = Fields /\ r2.pc = "readTerms" /\ r2.key = turn[t].key
        BY <4>2 DEF Fields
      <4> HIDE DEF r1, r2
      <4> QED
        BY <4>1, <4>3, <4>4
    <3>2. CASE StoreTerms(t)
      <4> DEFINE r == [turn[t] EXCEPT !.pc = "finish", !.termsSince = 0]
      <4>1. turn' = [turn EXCEPT ![t] = r] /\ DOMAIN r = Fields /\ r.pc = "finish"
            /\ r.key = turn[t].key
        BY <3>2, Holds DEF StoreTerms, Goto, Fields
      <4> QED
        BY <4>1
    <3> QED
      BY <1>5, <3>1, <3>2
  <2>2. turn[t].pc \in {"gather", "readTerms"} /\ UNCHANGED <<lock, embLock>>
    BY <1>5 DEF Gather, StoreTerms, At
  <2>3. embLock' = [q \in Questions |-> IF r.pc = "embed" /\ q = r.key[2] THEN t
                                        ELSE IF embLock[q] = t THEN Null ELSE embLock[q]]
    BY <2>1, <2>2, Holds
  <2> QED
    BY <2>1, <2>2, <2>3, StaysInside DEF Building
<1>6. CASE Finish(t)
  <2>1. PICK r \in Handed(turn[t].key, NewObject) : turn' = [turn EXCEPT ![t] = r]
    BY <1>6 DEF Finish, Goto
  <2>2. turn[t].pc = "finish" /\ lock' = [lock EXCEPT ![turn[t].key] = Null]
        /\ UNCHANGED embLock
    BY <1>6 DEF Finish, At
  <2>3. DOMAIN r = Fields /\ r.pc \in {"idle", "fetch"}
    BY <2>1, HandedOver
  <2>4. lock' = [k \in Keys |-> IF lock[k] = t THEN Null ELSE lock[k]]
    <3>1. lock' = [k \in Keys |-> IF k = turn[t].key THEN Null ELSE lock[k]]
      BY <1>0, <2>2
    <3>2. \A k \in Keys : lock[k] = t <=> k = turn[t].key
      BY <2>2, Holds DEF Building
    <3> QED
      BY <3>1, <3>2
  <2>5. embLock' = [q \in Questions |-> IF embLock[q] = t THEN Null ELSE embLock[q]]
    BY <2>2, Holds
  <2> QED
    BY <2>1, <2>3, <2>4, <2>5 DEF Step, Building
<1>7. CASE AppendMissing(t)
  <2>1. turn[t].pc = "fetch" /\ turn' = [turn EXCEPT ![t] = Idle] /\ UNCHANGED <<lock, embLock>>
    BY <1>7 DEF AppendMissing, At, Goto
  <2>2. DOMAIN Idle = Fields /\ Idle.pc = "idle"
    BY DEF Idle, Fields
  <2> QED
    BY <2>1, <2>2, StaysOutside DEF Building
<1>8. CASE Abort(t)
  <2>1. turn' = [turn EXCEPT ![t] = Idle] /\ lock' = Released(lock, t)
        /\ embLock' = Released(embLock, t)
    BY <1>8 DEF Abort, Goto
  <2>2. DOMAIN Idle = Fields /\ Idle.pc = "idle"
    BY DEF Idle, Fields
  <2>3. /\ lock' = [k \in Keys |-> IF lock[k] = t THEN Null ELSE lock[k]]
        /\ embLock' = [q \in Questions |-> IF embLock[q] = t THEN Null ELSE embLock[q]]
    BY <2>1 DEF Released, LockInv, Shape
  <2>4. Step(t, Idle)
    BY <2>1, <2>2, <2>3 DEF Step, Building
  <2> QED
    BY <2>4
<1> QED
  BY <1>1, <1>2, <1>3, <1>4, <1>5, <1>6, <1>7, <1>8

\* Steps that are no turn's.
Others == (\E c \in Connections : EditTerms(c) \/ CommitTerms(c) \/ Introspect(c)) \/ Tick

LEMMA OtherSteps ==
    ASSUME LockInv, Others \/ UNCHANGED vars
    PROVE  LockInv' /\ \A t \in Turns : turn'[t].pc = turn[t].pc
<1>1. UNCHANGED <<lock, embLock>>
  BY DEF Others, EditTerms, CommitTerms, Introspect, Tick, vars
<1>2. CASE UNCHANGED turn
  BY <1>1, <1>2, NoTurn
<1>3. CASE Tick
  <2> DEFINE since == [t \in Turns |-> IF Stamped(t) THEN Older(turn[t].since, ContextTtl) ELSE 0]
             terms == [t \in Turns |-> IF At(t, "readTerms")
                                       THEN Older(turn[t].termsSince, TermTtl) ELSE 0]
  <2>1. turn' = [t \in Turns |-> [turn[t] EXCEPT !.since = since[t], !.termsSince = terms[t]]]
    BY <1>3 DEF Tick
  <2> HIDE DEF since, terms
  <2> QED
    BY <1>1, <2>1, NoTurn
<1> QED
  BY <1>2, <1>3 DEF Others, EditTerms, CommitTerms, Introspect, vars

LEMMA LockSteps == LockInv /\ [Next]_vars => LockInv'
BY TurnSteps, OneTurn, OtherSteps DEF Next, Others

-----------------------------------------------------------------------------
\* Every builder makes room for the entry it adds.
LEMMA RoomIsMade ==
    ASSUME Sizes, NEW trimmed \in Trimmed, NEW k \in Keys, NEW e,
           cache' = [trimmed EXCEPT ![k] = e]
    PROVE  IsFiniteSet(Occupied') /\ CacheIsBounded' /\ cache' = [l \in Keys |-> cache'[l]]
<1> USE BoundsAssumption
<1>1. Cardinality(Occupied) \in Nat /\ Cardinality(Occupied) <= MaxEntries
      /\ IsFiniteSet(Occupied)
  BY FS_CardinalityType DEF Sizes, CacheIsBounded
<1>2. PICK left \in SUBSET Occupied :
         /\ IsFiniteSet(left) /\ Cardinality(left) \in Nat /\ Cardinality(left) < MaxEntries
         /\ \A l \in Keys : l \notin left => trimmed[l] = Null
         /\ trimmed = [l \in Keys |-> trimmed[l]]
  <2>1. CASE Full
    <3>1. PICK old \in Oldest : trimmed = [cache EXCEPT ![old] = Null]
      BY <2>1 DEF Trimmed
    <3>2. old \in Occupied /\ old \in Keys
      BY DEF Oldest, Occupied
    <3>3. IsFiniteSet(Occupied \ {old})
          /\ Cardinality(Occupied \ {old}) = Cardinality(Occupied) - 1
      BY <1>1, <3>2, FS_RemoveElement
    <3>4. Cardinality(Occupied \ {old}) \in Nat
      BY <3>3, FS_CardinalityType
    <3>5. /\ \A l \in Keys : l \notin Occupied \ {old} => trimmed[l] = Null
          /\ trimmed = [l \in Keys |-> trimmed[l]]
      BY <3>1, <3>2 DEF Sizes, Occupied
    <3> QED
      BY <1>1, <3>3, <3>4, <3>5
  <2>2. CASE ~Full
    <3>1. trimmed = cache
      BY <2>2 DEF Trimmed
    <3>2. Cardinality(Occupied) < MaxEntries
      BY <1>1, <2>2 DEF Full
    <3> QED
      BY <1>1, <3>1, <3>2 DEF Sizes, Occupied
  <2> QED
    BY <2>1, <2>2
<1>3. cache' = [l \in Keys |-> IF l = k THEN e ELSE trimmed[l]]
  BY <1>2
<1>4. Occupied' \in SUBSET (left \cup {k})
  BY <1>2, <1>3 DEF Occupied
<1>5. IsFiniteSet(left \cup {k}) /\ Cardinality(left \cup {k}) <= MaxEntries
  <2>1. IsFiniteSet(left \cup {k})
        /\ Cardinality(left \cup {k})
              = IF k \in left THEN Cardinality(left) ELSE Cardinality(left) + 1
    BY <1>2, FS_AddElement
  <2> QED
    BY <1>2, <2>1
<1>6. IsFiniteSet(Occupied') /\ Cardinality(Occupied') <= Cardinality(left \cup {k})
  BY <1>4, <1>5, FS_Subset
<1>7. Cardinality(Occupied') \in Nat /\ Cardinality(left \cup {k}) \in Nat
  BY <1>5, <1>6, FS_CardinalityType
<1>8. Cardinality(Occupied') <= MaxEntries
  BY <1>5, <1>6, <1>7
<1>9. cache' = [l \in Keys |-> cache'[l]]
  BY <1>3
<1> QED
  BY <1>6, <1>8, <1>9 DEF CacheIsBounded

LEMMA CopiesSteps ==
    ASSUME Sizes, [Next]_vars
    PROVE  copies' \in [Objects -> {0, 1}]
<1>1. CASE UNCHANGED copies
  BY <1>1 DEF Sizes
<1>2. CASE Collected
  BY <1>2 DEF Sizes, Collected
<1>3. CASE \E t \in Turns : AppendMissing(t)
  <2>1. \A n \in {0, 1} : Appended(n) \in {0, 1}
    BY DEF Appended
  <2>2. PICK t \in Turns : AppendMissing(t)
    BY <1>3
  <2>3. copies' = [o \in Objects |->
                     IF o \notin Referenced' THEN 0
                     ELSE IF o = turn[t].object THEN Appended(copies[o]) ELSE copies[o]]
    BY <2>2 DEF AppendMissing
  <2> QED
    BY <2>1, <2>3 DEF Sizes
<1> QED
  BY <1>1, <1>2, <1>3
  DEF Next, vars, Ask, EnterLock, EnterEmbLock, Embed, Gather, StoreTerms, Finish, Abort,
      EditTerms, CommitTerms, Introspect, Tick

LEMMA CacheSteps ==
    ASSUME LockInv, Sizes, [Next]_vars
    PROVE  IsFiniteSet(Occupied') /\ CacheIsBounded' /\ cache' = [l \in Keys |-> cache'[l]]
<1>1. CASE UNCHANGED cache
  BY <1>1 DEF Sizes, CacheIsBounded, Occupied
<1>2. CASE \E t \in Turns : Finish(t)
  <2>1. PICK t \in Turns : Finish(t)
    BY <1>2
  <2>2. turn[t].key \in Keys
    BY <2>1, Holds DEF Finish, At, Building
  <2>3. PICK trimmed \in Trimmed : \E e : cache' = [trimmed EXCEPT ![turn[t].key] = e]
    BY <2>1 DEF Finish
  <2>4. PICK e : cache' = [trimmed EXCEPT ![turn[t].key] = e]
    BY <2>3
  <2> QED
    BY <2>2, <2>4, RoomIsMade
<1>3. CASE Tick
  <2>1. cache' = [k \in Keys |-> IF cache[k] = Null THEN Null ELSE Aged(cache[k])]
    BY <1>3 DEF Tick
  <2>2. Occupied' \in SUBSET Occupied
    BY <2>1 DEF Occupied
  <2>3. IsFiniteSet(Occupied') /\ Cardinality(Occupied') <= Cardinality(Occupied)
    BY <2>2, FS_Subset DEF Sizes
  <2>4. Cardinality(Occupied') \in Nat /\ Cardinality(Occupied) \in Nat
    BY <2>3, FS_CardinalityType DEF Sizes
  <2> QED
    BY <2>1, <2>3, <2>4, BoundsAssumption DEF Sizes, CacheIsBounded
<1> QED
  BY <1>1, <1>2, <1>3
  DEF Next, vars, Ask, EnterLock, EnterEmbLock, Embed, Gather, StoreTerms, AppendMissing, Abort,
      EditTerms, CommitTerms, Introspect

-----------------------------------------------------------------------------
\* What TypeOK says of the rest, and that a turn has no object before it has a context.
Types ==
    /\ turn \in [Turns -> Turn]
    /\ \A t \in Turns : turn[t].pc # "fetch" => turn[t].object = Null
    /\ cache \in [Keys -> Entry \cup {Null}]
    /\ embedded \in [Questions -> 0..ContextTtl]
    /\ termCache \in [Connections -> TermEntry]
    /\ db \in [Connections -> Db]
    /\ editing \in [Connections -> BOOLEAN]
    /\ lastFail \in [Questions -> 0..ContextTtl]

LEMMA NoAge == 0 \in 0..ContextTtl /\ 0 \in 0..TermTtl
BY TtlAssumption

LEMMA InitTypes == Init => Types
BY TtlAssumption, BoundsAssumption
DEF Init, Types, Turn, Idle, Blank, Content, Versions, TermEntry, NoTerms, Db

LEMMA ImagesAreSmall ==
    ASSUME NEW S, IsFiniteSet(S), NEW f
    PROVE  LET T == {f[x] : x \in S} IN
           /\ IsFiniteSet(T) /\ Cardinality(T) \in Nat /\ Cardinality(S) \in Nat
           /\ Cardinality(T) <= Cardinality(S)
<1> DEFINE T == {f[x] : x \in S}
           g == [x \in S |-> f[x]]
<1>1. g \in Surjection(S, T)
  BY DEF Surjection
<1>2. IsFiniteSet(T) /\ Cardinality(T) <= Cardinality(S)
  BY <1>1, FS_Surjection
<1> QED
  BY <1>2, FS_CardinalityType

\* There is room for one more object than the cache and the other turns refer to.
LEMMA ObjectIsFree ==
    ASSUME Types, Sizes, NEW t \in Turns, turn[t].object = Null
    PROVE  NewObject \in Objects
<1> USE TurnsAssumption, BoundsAssumption
<1> DEFINE others == Turns \ {t}
           inCache == [k \in Keys |-> cache[k].object]
           inTurns == [u \in Turns |-> turn[u].object]
           A == {inCache[k] : k \in Occupied}
           B == {inTurns[u] : u \in others}
<1>1. IsFiniteSet(Turns) /\ Cardinality(Turns) \in Nat /\ Cardinality(Turns) # 0
      /\ IsFiniteSet(others) /\ Cardinality(others) = Cardinality(Turns) - 1
  BY FS_CardinalityType, FS_EmptySet, FS_RemoveElement
<1>2. IsFiniteSet(A) /\ Cardinality(A) \in Nat /\ Cardinality(A) <= MaxEntries
  <2> HIDE DEF inCache
  <2>1. IsFiniteSet(A) /\ Cardinality(A) \in Nat /\ Cardinality(Occupied) \in Nat
        /\ Cardinality(A) <= Cardinality(Occupied)
    BY ImagesAreSmall DEF Sizes
  <2> QED
    BY <2>1 DEF Sizes, CacheIsBounded
<1>3. IsFiniteSet(B) /\ Cardinality(B) \in Nat /\ Cardinality(B) <= Cardinality(Turns) - 1
  <2> HIDE DEF inTurns
  <2>1. IsFiniteSet(B) /\ Cardinality(B) \in Nat /\ Cardinality(B) <= Cardinality(others)
    BY <1>1, ImagesAreSmall
  <2> QED
    BY <1>1, <2>1
<1>4. \E o \in Objects : o \notin Referenced
  <2> SUFFICES ASSUME Objects \subseteq Referenced PROVE FALSE
    OBVIOUS
  <2>1. Objects \in SUBSET (A \cup B)
    <3>1. ASSUME NEW o \in Objects PROVE o \in A \cup B
      <4>1. o # Null
        BY <1>1 DEF Objects
      <4>2. CASE \E k \in Occupied : o = cache[k].object
        BY <4>2 DEF Occupied
      <4>3. CASE \E u \in Turns : o = turn[u].object
        BY <4>1, <4>3
      <4> QED
        BY <4>2, <4>3 DEF Referenced
    <3> QED
      BY <3>1
  <2>2. IsFiniteSet(A \cup B) /\ Cardinality(A \cup B) \in Nat
        /\ Cardinality(A \cup B) <= Cardinality(A) + Cardinality(B)
    <3> HIDE DEF A, B
    <3>1. IsFiniteSet(A \cap B)
      BY <1>2, FS_Subset
    <3>2. Cardinality(A \cap B) \in Nat
      BY <3>1, FS_CardinalityType
    <3>3. IsFiniteSet(A \cup B)
          /\ Cardinality(A \cup B) = Cardinality(A) + Cardinality(B) - Cardinality(A \cap B)
      BY <1>2, <1>3, FS_Union
    <3> QED
      BY <1>2, <1>3, <3>2, <3>3, FS_CardinalityType
  <2>3. Cardinality(Objects) = MaxEntries + Cardinality(Turns)
    BY <1>1, FS_Interval DEF Objects
  <2>4. Cardinality(Objects) <= Cardinality(A \cup B)
    <3> HIDE DEF A, B
    <3> QED
      BY <2>1, <2>2, FS_Subset
  <2> HIDE DEF A, B
  <2> QED
    BY <1>1, <1>2, <1>3, <2>2, <2>3, <2>4
<1> HIDE DEF A, B
<1> QED
  BY <1>4 DEF NewObject

\* A turn that goes to a well-typed place.
LEMMA GoesTo ==
    ASSUME Types, NEW t \in Turns, NEW r \in Turn, r.pc # "fetch" => r.object = Null,
           Goto(t, r)
    PROVE  /\ turn' \in [Turns -> Turn]
           /\ \A u \in Turns : turn'[u].pc # "fetch" => turn'[u].object = Null
BY DEF Types, Goto

LEMMA HandedIsTyped ==
    ASSUME NEW k \in Keys, NEW o \in Objects, NEW r \in Handed(k, o)
    PROVE  r \in Turn /\ (r.pc # "fetch" => r.object = Null)
<1>1. CASE r = Idle
  BY <1>1, NoAge DEF Idle, Turn, Content, Blank, Versions
<1>2. CASE r = [Idle EXCEPT !.pc = "fetch", !.key = k, !.object = o]
  BY <1>2, NoAge DEF Idle, Turn, Content, Blank, Versions
<1> QED
  BY <1>1, <1>2 DEF Handed

LEMMA IdleIsTyped == Idle \in Turn /\ Idle.object = Null
BY NoAge DEF Idle, Turn, Content, Blank, Versions

LEMMA CachedIsTyped ==
    ASSUME Types, NEW k \in Keys, FreshContext(k), NEW r \in FromCache(k)
    PROVE  r \in Turn /\ (r.pc # "fetch" => r.object = Null)
<1>1. cache[k].object \in Objects
  BY DEF FreshContext, Types, Entry
<1> QED
  BY <1>1, HandedIsTyped DEF FromCache

LEMMA StampsAge ==
    ASSUME NEW limit \in Nat, NEW age \in 0..limit
    PROVE  Older(age, limit) \in 0..limit
BY DEF Older

\* Where the turns of a step go.
LEMMA TurnTypes ==
    ASSUME LockInv, Sizes, Types, [Next]_vars
    PROVE  /\ turn' \in [Turns -> Turn]
           /\ \A u \in Turns : turn'[u].pc # "fetch" => turn'[u].object = Null
<1>1. CASE UNCHANGED turn
  BY <1>1 DEF Types
<1>2. CASE \E t \in Turns : Ask(t)
  <2>1. PICK t \in Turns, k \in Keys :
           \E r \in IF FreshContext(k) THEN FromCache(k)
                    ELSE {[Idle EXCEPT !.key = k, !.pc = "lock"]} : Goto(t, r)
    BY <1>2 DEF Ask
  <2>2. PICK r \in IF FreshContext(k) THEN FromCache(k)
                   ELSE {[Idle EXCEPT !.key = k, !.pc = "lock"]} : Goto(t, r)
    BY <2>1
  <2>3. r \in Turn /\ (r.pc # "fetch" => r.object = Null)
    <3>1. CASE FreshContext(k)
      BY <2>2, <3>1, CachedIsTyped
    <3>2. CASE ~FreshContext(k)
      <4>1. r = [Idle EXCEPT !.key = k, !.pc = "lock"]
        BY <2>2, <3>2
      <4> QED
        BY <4>1, NoAge DEF Idle, Turn, Content, Blank, Versions
    <3> QED
      BY <3>1, <3>2
  <2> QED
    BY <2>2, <2>3, GoesTo
<1>3. CASE \E t \in Turns : EnterLock(t)
  <2>1. PICK t \in Turns : EnterLock(t)
    BY <1>3
  <2>2. turn[t].key \in Keys /\ turn[t].pc = "lock" /\ turn[t] \in Turn /\ turn[t].object = Null
    BY <2>1, Holds DEF EnterLock, At, Types
  <2>3. CASE FoundInLock(turn[t].key)
    BY <2>1, <2>2, <2>3, CachedIsTyped, GoesTo DEF EnterLock, FoundInLock
  <2>4. CASE ~FoundInLock(turn[t].key)
    <3> DEFINE r == [turn[t] EXCEPT !.since = 0,
                       !.pc = IF FreshEmbedding(Question(t)) THEN "gather" ELSE "embLock"]
    <3>1. r \in Turn /\ r.object = Null
      BY <2>2, NoAge DEF Turn
    <3>2. Goto(t, r)
      BY <2>1, <2>4 DEF EnterLock
    <3> QED
      BY <3>1, <3>2, GoesTo
  <2> QED
    BY <2>3, <2>4
<1>4. CASE \E t \in Turns : EnterEmbLock(t) \/ Embed(t) \/ StoreTerms(t)
  <2>1. PICK t \in Turns : EnterEmbLock(t) \/ Embed(t) \/ StoreTerms(t)
    BY <1>4
  <2>2. turn[t] \in Turn /\ turn[t].object = Null
    BY <2>1 DEF EnterEmbLock, Embed, StoreTerms, At, Types
  <2>3. PICK r : Goto(t, r) /\ r \in Turn /\ r.object = Null
    <3>1. CASE EnterEmbLock(t)
      <4>1. \A pc \in {"gather", "embed"} :
               LET r == [turn[t] EXCEPT !.pc = pc, !.since = 0]
               IN  r \in Turn /\ r.object = Null
        BY <2>2, NoAge DEF Turn
      <4>2. \E pc \in {"gather", "embed"} : Goto(t, [turn[t] EXCEPT !.pc = pc, !.since = 0])
        BY <3>1 DEF EnterEmbLock
      <4> QED
        BY <4>1, <4>2
    <3>2. CASE Embed(t)
      <4>1. LET r == [turn[t] EXCEPT !.pc = "gather"] IN r \in Turn /\ r.object = Null
        BY <2>2, NoAge DEF Turn
      <4>2. LET r == [turn[t] EXCEPT !.pc = "gather", !.content.degraded = TRUE]
            IN  r \in Turn /\ r.object = Null
        BY <2>2 DEF Turn, Content
      <4> QED
        BY <3>2, <4>1, <4>2 DEF Embed
    <3>3. CASE StoreTerms(t)
      <4>1. LET r == [turn[t] EXCEPT !.pc = "finish", !.termsSince = 0]
            IN  r \in Turn /\ r.object = Null
        BY <2>2, NoAge DEF Turn
      <4> QED
        BY <3>3, <4>1 DEF StoreTerms
    <3> QED
      BY <2>1, <3>1, <3>2, <3>3
  <2> QED
    BY <2>3, GoesTo
<1>5. CASE \E t \in Turns : Gather(t)
  <2>1. PICK t \in Turns : Gather(t)
    BY <1>5
  <2>2. turn[t] \in Turn /\ turn[t].object = Null /\ turn[t].key \in Keys
    BY <2>1, Holds DEF Gather, At, Types, Building
  <2>3. Version(Conn(t)) \in Versions /\ termCache[Conn(t)].terms \in Versions
    BY <2>2, LenProperties DEF Conn, Keys, Types, Db, Version, Versions, TermEntry
  <2>4. PICK pc \in {"finish", "readTerms"}, terms \in Versions :
           Goto(t, [turn[t] EXCEPT !.content.cat = Version(Conn(t)), !.pc = pc,
                                   !.content.terms = terms])
    BY <2>1, <2>2, <2>3 DEF Gather
  <2>5. LET r == [turn[t] EXCEPT !.content.cat = Version(Conn(t)), !.pc = pc,
                                 !.content.terms = terms]
        IN  r \in Turn /\ r.object = Null
    BY <2>2, <2>3 DEF Turn, Content
  <2> QED
    BY <2>4, <2>5, GoesTo
<1>6. CASE \E t \in Turns : Finish(t)
  <2>1. PICK t \in Turns : Finish(t)
    BY <1>6
  <2>2. turn[t].key \in Keys /\ turn[t].object = Null
    BY <2>1, Holds DEF Finish, At, Building, Types
  <2>3. NewObject \in Objects
    BY <2>2, ObjectIsFree
  <2>4. PICK r \in Handed(turn[t].key, NewObject) : Goto(t, r)
    BY <2>1 DEF Finish
  <2> QED
    BY <2>2, <2>3, <2>4, HandedIsTyped, GoesTo
<1>7. CASE \E t \in Turns : AppendMissing(t) \/ Abort(t)
  BY <1>7, IdleIsTyped, GoesTo DEF AppendMissing, Abort
<1>8. CASE Tick
  <2>1. ASSUME NEW t \in Turns
        PROVE  turn'[t] \in Turn /\ turn'[t].pc = turn[t].pc /\ turn'[t].object = turn[t].object
    <3>1. turn[t] \in Turn
      BY DEF Types
    <3>2. Older(turn[t].since, ContextTtl) \in 0..ContextTtl
          /\ Older(turn[t].termsSince, TermTtl) \in 0..TermTtl
      BY <3>1, StampsAge, TtlAssumption DEF Turn
    <3> DEFINE since == IF Stamped(t) THEN Older(turn[t].since, ContextTtl) ELSE 0
               terms == IF At(t, "readTerms") THEN Older(turn[t].termsSince, TermTtl) ELSE 0
    <3>3. turn'[t] = [turn[t] EXCEPT !.since = since, !.termsSince = terms]
      BY <1>8 DEF Tick
    <3>4. since \in 0..ContextTtl /\ terms \in 0..TermTtl
      BY <3>2, NoAge
    <3> HIDE DEF since, terms
    <3> QED
      BY <3>1, <3>3, <3>4 DEF Turn
  <2>2. turn' = [t \in Turns |-> turn'[t]]
    BY <1>8 DEF Tick
  <2> QED
    BY <2>1, <2>2 DEF Types
<1> QED
  BY <1>1, <1>2, <1>3, <1>4, <1>5, <1>6, <1>7, <1>8
  DEF Next, vars, EditTerms, CommitTerms, Introspect

\* What the caches hold after a step.
LEMMA EntryTypes ==
    ASSUME LockInv, Sizes, Types, [Next]_vars
    PROVE  /\ cache' \in [Keys -> Entry \cup {Null}]
           /\ termCache' \in [Connections -> TermEntry]
           /\ embedded' \in [Questions -> 0..ContextTtl]
           /\ lastFail' \in [Questions -> 0..ContextTtl]
<1> USE TtlAssumption
<1>1. CASE Tick
  <2>1. cache' \in [Keys -> Entry \cup {Null}]
    <3>1. ASSUME NEW e \in Entry PROVE Aged(e) \in Entry
      <4>1. ContextTtl \in 0..ContextTtl /\ Blank \in Content
        BY DEF Blank, Content, Versions
      <4>2. e.age + 1 < ContextTtl => e.age + 1 \in 0..ContextTtl
        BY DEF Entry
      <4> QED
        BY <4>1, <4>2 DEF Aged, Entry
    <3> QED
      BY <1>1, <3>1 DEF Tick, Types
  <2>2. termCache' \in [Connections -> TermEntry]
    <3>1. \A e \in TermEntry : e.age + 1 < TermTtl => [e EXCEPT !.age = @ + 1] \in TermEntry
      BY DEF TermEntry
    <3>2. NoTerms \in TermEntry
      BY DEF NoTerms, TermEntry, Versions
    <3> QED
      BY <1>1, <3>1, <3>2 DEF Tick, Types
  <2> QED
    BY <1>1, <2>1, <2>2, StampsAge DEF Tick, Types
<1>2. CASE \E t \in Turns : Finish(t)
  <2>1. PICK t \in Turns : Finish(t)
    BY <1>2
  <2>2. turn[t].key \in Keys /\ turn[t].object = Null /\ turn[t] \in Turn
    BY <2>1, Holds DEF Finish, At, Building, Types
  <2> DEFINE new == [object |-> NewObject, age |-> ContextStamp(turn[t]),
                     content |-> turn[t].content]
  <2>3. new \in Entry
    BY <2>2, ObjectIsFree DEF Entry, ContextStamp, Turn
  <2>4. \A trimmed \in Trimmed : trimmed \in [Keys -> Entry \cup {Null}]
    BY DEF Trimmed, Types
  <2>5. PICK trimmed \in Trimmed : cache' = [trimmed EXCEPT ![turn[t].key] = new]
    BY <2>1 DEF Finish
  <2> HIDE DEF new
  <2>6. cache' \in [Keys -> Entry \cup {Null}]
    BY <2>3, <2>4, <2>5
  <2> QED
    BY <2>1, <2>6 DEF Finish, Types
<1>3. CASE \E t \in Turns : StoreTerms(t)
  <2>1. PICK t \in Turns : StoreTerms(t)
    BY <1>3
  <2>2. turn[t].key \in Keys /\ turn[t] \in Turn
    BY <2>1, Holds DEF StoreTerms, At, Building, Types
  <2>3. [age |-> TermStamp(turn[t]), terms |-> turn[t].content.terms] \in TermEntry
    BY <2>2 DEF TermStamp, TermEntry, Turn, Content
  <2> QED
    BY <2>1, <2>3 DEF StoreTerms, Types
<1>4. CASE \E t \in Turns : Embed(t)
  <2>1. PICK t \in Turns : Embed(t)
    BY <1>4
  <2>2. turn[t].since \in 0..ContextTtl /\ 0 \in 0..ContextTtl
    BY DEF Types, Turn
  <2> QED
    BY <2>1, <2>2 DEF Embed, Types
<1>5. CASE \E c \in Connections : EditTerms(c)
  BY <1>5 DEF EditTerms, Types, NoTerms, TermEntry, Versions
<1> QED
  BY <1>1, <1>2, <1>3, <1>4, <1>5
  DEF Types, Next, vars, Ask, EnterLock, EnterEmbLock, Gather, AppendMissing, Abort, CommitTerms,
      Introspect

LEMMA DbTypes ==
    ASSUME Types, [Next]_vars
    PROVE  db' \in [Connections -> Db] /\ editing' \in [Connections -> BOOLEAN]
<1>1. Bound + 1 \in Nat
  BY TtlAssumption DEF Bound
<1>2. ASSUME NEW c \in Connections PROVE Committed(c) \in [Connections -> Db]
  <2>1. Append(db[c], 0) \in Db
    BY <1>1, AppendProperties DEF Types, Db
  <2> QED
    BY <2>1 DEF Committed, Types
<1>3. CASE \E c \in Connections : EditTerms(c) \/ CommitTerms(c) \/ Introspect(c)
  BY <1>2, <1>3 DEF EditTerms, CommitTerms, Introspect, Types
<1>4. CASE Tick
  <2>1. ASSUME NEW c \in Connections
        PROVE  [v \in DOMAIN db[c] |-> Older(db[c][v], Bound + 1)] \in Db
    <3>1. db[c] \in Seq(0..(Bound + 1))
      BY DEF Types, Db
    <3>2. DOMAIN db[c] = 1..Len(db[c]) /\ Len(db[c]) \in Nat
      BY <3>1, LenProperties
    <3>3. \A v \in 1..Len(db[c]) : Older(db[c][v], Bound + 1) \in 0..(Bound + 1)
      BY <1>1, <3>1, ElementOfSeq, StampsAge
    <3> QED
      BY <3>2, <3>3, IsASeq DEF Db
  <2> QED
    BY <1>4, <2>1 DEF Tick, Types
<1> QED
  BY <1>3, <1>4
  DEF Types, Next, vars, Ask, EnterLock, EnterEmbLock, Embed, Gather, StoreTerms, Finish,
      AppendMissing, Abort

-----------------------------------------------------------------------------
LEMMA ContextInvariant == Spec => [](LockInv /\ Sizes /\ Types)
<1>1. LockInv /\ Sizes /\ Types /\ [Next]_vars => (LockInv /\ Sizes /\ Types)'
  <2> SUFFICES ASSUME LockInv, Sizes, Types, [Next]_vars
               PROVE  LockInv' /\ Sizes' /\ Types'
    OBVIOUS
  <2>1. LockInv' /\ Sizes'
    BY LockSteps, CopiesSteps, CacheSteps DEF Sizes
  <2>2. Types'
    BY TurnTypes, EntryTypes, DbTypes DEF Types
  <2> QED
    BY <2>1, <2>2
<1> QED
  BY <1>1, InitContext, InitTypes, PTL DEF Spec

-----------------------------------------------------------------------------
\* A lock is held by a turn that still does what it guards (context_builder.py:136, 138).
THEOREM LocksComeBack == Spec => []LocksAreHeld
<1>1. LockInv => LocksAreHeld
  BY DEF LockInv
<1> QED
  BY <1>1, ContextInvariant, PTL

\* Builders of several keys never fill the cache beyond its maximum (context_builder.py:334).
THEOREM CacheStaysBounded == Spec => []CacheIsBounded
<1>1. Sizes => CacheIsBounded
  BY DEF Sizes
<1> QED
  BY <1>1, ContextInvariant, PTL

\* However many turns extend the context they share, no table is in it twice
\* (rebuild_context.py).
THEOREM NothingAppendedTwice == Spec => []AppendedOnce
<1>1. Sizes => AppendedOnce
  BY DEF Sizes, AppendedOnce
<1> QED
  BY <1>1, ContextInvariant, PTL

\* The caches and locks, with their types, are sound whatever turns do with them
\* (context_builder.py, glossary_resolver.py).
THEOREM CachesStaySound == Spec => []CachesAreSound
<1>1. LockInv /\ Sizes /\ Types => CachesAreSound
  BY DEF LockInv, Shape, Sizes, Types, CachesAreSound, TypeOK, AppendedOnce
<1> QED
  BY <1>1, ContextInvariant, PTL

\* A turn starts to build only what no other builds and no fresh entry holds.
THEOREM OneBuilder == Spec => NoRedundantBuild
<1> DEFINE Alone(t) ==
             At(t, "lock") /\ turn'[t].pc \in {"gather", "embLock"} =>
               /\ ~FreshContext(turn[t].key)
               /\ \A u \in Turns \ {t} : turn[u].key = turn[t].key =>
                    turn[u].pc \in {"idle", "lock", "fetch"}
<1>1. ASSUME LockInv, [Next]_vars, NEW t \in Turns, At(t, "lock"),
             turn'[t].pc \in {"gather", "embLock"}
      PROVE  /\ ~FreshContext(turn[t].key)
             /\ \A u \in Turns \ {t} : turn[u].key = turn[t].key =>
                  turn[u].pc \in {"idle", "lock", "fetch"}
  <2>1. EnterLock(t)
    <3>1. ~(Others \/ UNCHANGED vars)
      BY <1>1, OtherSteps DEF At
    <3>2. PICK u \in Turns :
             \/ Ask(u) \/ EnterLock(u) \/ EnterEmbLock(u) \/ Embed(u) \/ Gather(u)
             \/ StoreTerms(u) \/ Finish(u) \/ AppendMissing(u) \/ Abort(u)
      BY <1>1, <3>1 DEF Next, Others
    <3>3. PICK r : Step(u, r)
      BY <1>1, <3>2, TurnSteps
    <3>4. u = t
      BY <1>1, <3>3, OneTurn DEF At
    <3>5. ~Abort(t)
      <4>1. Abort(t) => turn'[t] = Idle
        BY <1>1 DEF Abort, Goto, LockInv, Shape
      <4> QED
        BY <1>1, <4>1 DEF Idle
    <3> QED
      BY <1>1, <3>2, <3>4, <3>5
      DEF At, Ask, EnterEmbLock, Embed, Gather, StoreTerms, Finish, AppendMissing
  <2>2. ~FoundInLock(turn[t].key)
    <3> SUFFICES ASSUME FoundInLock(turn[t].key) PROVE FALSE
      OBVIOUS
    <3>1. PICK r \in FromCache(turn[t].key) : turn' = [turn EXCEPT ![t] = r]
      BY <2>1 DEF EnterLock, Goto
    <3>2. r.pc \in {"idle", "fetch"} /\ turn'[t] = r
      BY <1>1, <3>1, HandedOver DEF FromCache, LockInv, Shape
    <3> QED
      BY <1>1, <3>2
  <2>3. lock[turn[t].key] = Null
    BY <2>1 DEF EnterLock
  <2>4. \A u \in Turns : turn[u].key = turn[t].key => turn[u].pc \notin Building
    BY <1>1, <2>3, Holds, TurnsAssumption
  <2> QED
    BY <1>1, <2>2, <2>4 DEF FoundInLock, LockInv, Shape
<1>2. LockInv /\ [Next]_vars => [\A t \in Turns : Alone(t)]_vars
  BY <1>1
<1> QED
  BY <1>2, ContextInvariant, PTL DEF Spec, NoRedundantBuild

-----------------------------------------------------------------------------
(* How old an answer may be *)

\* Version v was superseded at most age ticks ago, or not at all.
Lasted(commits, v, age) == v < Len(commits) => commits[v + 1] <= age

\* What is made of a content age ticks after its time stamp, given the commits of
\* each connection and the last failure for each question.
Linked(commits, k, content, age) ==
    /\ Lasted(commits[k[1]], content.cat, age)
    /\ Lasted(commits[k[1]], content.terms, age + (TermTtl - 1))
Failed(failures, k, content, age) == content.degraded => failures[k[2]] <= age

\* A turn on its way: what it has read by now was superseded after its time stamp,
\* but for the terms it found in their cache.
TurnFits(r, commits, failures) ==
    /\ r.pc \in {"lock", "embLock", "embed"} => ~r.content.degraded
    /\ r.pc \in {"gather", "readTerms", "finish"} /\ r.since < ContextTtl =>
         Failed(failures, r.key, r.content, r.since)
    /\ r.pc \in {"readTerms", "finish"} /\ r.since < ContextTtl =>
         Linked(commits, r.key, r.content, r.since)
    /\ r.pc = "readTerms" /\ r.termsSince < TermTtl =>
         Lasted(commits[r.key[1]], r.content.terms, r.termsSince)

EntryFits(k, e, commits, failures) ==
    e.age < ContextTtl => /\ Linked(commits, k, e.content, e.age)
                          /\ Failed(failures, k, e.content, e.age)

TermsFit(c, e, commits) == e.age < TermTtl => Lasted(commits[c], e.terms, e.age)

TurnsFit == \A t \in Turns : TurnFits(turn[t], db, lastFail)
CacheFits == \A k \in Keys : cache[k] # Null => EntryFits(k, cache[k], db, lastFail)
TermCacheFits == \A c \in Connections : TermsFit(c, termCache[c], db)

Recent == TurnsFit /\ CacheFits /\ TermCacheFits

\* From one commits and failures to the next, ages grow by n at most.
Ages(n, commits, failures, commits2, failures2) ==
    /\ \A c \in Connections, v, age \in Nat :
         Lasted(commits[c], v, age) => Lasted(commits2[c], v, age + n)
    /\ \A q \in Questions, age \in Nat : failures[q] <= age => failures2[q] <= age + n

LEMMA MoreAge ==
    ASSUME NEW m \in Nat, NEW s \in Seq(0..m), NEW v \in Nat, NEW age \in Nat, NEW more \in Nat,
           age <= more, Lasted(s, v, age)
    PROVE  Lasted(s, v, more)
<1>1. SUFFICES ASSUME v < Len(s) PROVE s[v + 1] <= more
  BY DEF Lasted
<1>2. v + 1 \in 1..Len(s) /\ s[v + 1] \in 0..m
  BY <1>1, LenProperties, ElementOfSeq
<1> QED
  BY <1>1, <1>2 DEF Lasted

\* A commit supersedes one version, now.
LEMMA CommitAges ==
    ASSUME Types, NEW d \in Connections, NEW c \in Connections, db' = Committed(d),
           NEW v \in Nat, NEW age \in Nat, Lasted(db[c], v, age)
    PROVE  Lasted(db'[c], v, age)
<1>1. CASE c # d
  BY <1>1 DEF Committed, Types
<1>2. CASE c = d
  <2>1. db[c] \in Seq(0..(Bound + 1)) /\ 0 \in 0..(Bound + 1)
    BY TtlAssumption DEF Types, Db, Bound
  <2>2. db'[c] = Append(db[c], 0)
    BY <1>2 DEF Committed, Types
  <2> DEFINE s == db[c]
             n == Append(db[c], 0)
  <2>3. /\ Len(n) = Len(s) + 1 /\ n[Len(s) + 1] = 0 /\ Len(s) \in Nat
        /\ \A i \in 1..Len(s) : n[i] = s[i]
    BY <2>1, AppendProperties, LenProperties
  <2>4. Lasted(s, v, age)
    OBVIOUS
  <2> HIDE DEF s, n
  <2>5. Lasted(n, v, age)
    <3>1. CASE v < Len(s)
      BY <2>3, <2>4, <3>1 DEF Lasted
    <3>2. CASE v = Len(s)
      BY <2>3, <3>2 DEF Lasted
    <3>3. CASE v > Len(s)
      BY <2>3, <3>3 DEF Lasted
    <3> QED
      BY <2>3, <3>1, <3>2, <3>3
  <2> QED
    BY <2>2, <2>5 DEF n
<1> QED
  BY <1>1, <1>2

LEMMA TickAges ==
    ASSUME Types, Tick
    PROVE  Ages(1, db, lastFail, db', lastFail')
<1>1. ASSUME NEW c \in Connections, NEW v \in Nat, NEW age \in Nat, Lasted(db[c], v, age)
      PROVE  Lasted(db'[c], v, age + 1)
  <2>1. db[c] \in Seq(0..(Bound + 1)) /\ Bound + 1 \in Nat
    BY TtlAssumption DEF Types, Db, Bound
  <2>2. db'[c] = [i \in 1..Len(db[c]) |-> Older(db[c][i], Bound + 1)] /\ Len(db[c]) \in Nat
    BY <2>1, LenProperties DEF Tick
  <2>3. Len(db'[c]) = Len(db[c])
    <3>1. \A i \in 1..Len(db[c]) : Older(db[c][i], Bound + 1) \in 0..(Bound + 1)
      BY <2>1, ElementOfSeq, StampsAge
    <3> DEFINE s == db'[c]
    <3>2. s \in [1..Len(db[c]) -> 0..(Bound + 1)]
      BY <2>2, <3>1
    <3> HIDE DEF s
    <3>3. Len(s) = Len(db[c])
      BY <2>2, <3>2, IsASeq, LenProperties
    <3> QED
      BY <3>3 DEF s
  <2>4. CASE v < Len(db[c])
    <3>1. v + 1 \in 1..Len(db[c]) /\ db[c][v + 1] \in 0..(Bound + 1) /\ db[c][v + 1] <= age
      BY <1>1, <2>1, <2>2, <2>4, ElementOfSeq DEF Lasted
    <3>2. db'[c][v + 1] <= age + 1
      BY <2>1, <2>2, <3>1 DEF Older
    <3> QED
      BY <3>2 DEF Lasted
  <2> QED
    BY <2>2, <2>3, <2>4 DEF Lasted
<1>2. ASSUME NEW q \in Questions, NEW age \in Nat, lastFail[q] <= age
      PROVE  lastFail'[q] <= age + 1
  <2>1. lastFail[q] \in 0..ContextTtl
    BY DEF Types
  <2>2. lastFail'[q] = Older(lastFail[q], ContextTtl)
    BY DEF Tick
  <2> QED
    BY <1>2, <2>1, <2>2, TtlAssumption DEF Older
<1> QED
  BY <1>1, <1>2 DEF Ages

\* In every step but Tick no time passes.
LEMMA NothingAges ==
    ASSUME Types, [Next]_vars, ~Tick
    PROVE  Ages(0, db, lastFail, db', lastFail')
<1>1. db' = db \/ \E d \in Connections : db' = Committed(d)
  BY DEF Next, vars, Ask, EnterLock, EnterEmbLock, Embed, Gather, StoreTerms, Finish,
         AppendMissing, Abort, EditTerms, CommitTerms, Introspect
<1>2. lastFail' = lastFail \/ \E q : lastFail' = [lastFail EXCEPT ![q] = 0]
  BY DEF Next, vars, Ask, EnterLock, EnterEmbLock, Embed, Gather, StoreTerms, Finish,
         AppendMissing, Abort, EditTerms, CommitTerms, Introspect
<1>3. \A c \in Connections, v, age \in Nat :
        Lasted(db[c], v, age) => Lasted(db'[c], v, age + 0)
  <2>1. \A age \in Nat : age + 0 = age
    OBVIOUS
  <2> QED
    BY <1>1, <2>1, CommitAges
<1>4. \A q \in Questions, age \in Nat : lastFail[q] <= age => lastFail'[q] <= age + 0
  BY <1>2 DEF Types
<1> QED
  BY <1>3, <1>4 DEF Ages

\* What fits goes on to fit as it ages.
LEMMA LinkedAges ==
    ASSUME NEW n \in Nat, NEW d, NEW f, NEW d2, NEW f2, Ages(n, d, f, d2, f2),
           NEW k \in Keys, NEW content \in Content, NEW age \in Nat
    PROVE  /\ Linked(d, k, content, age) => Linked(d2, k, content, age + n)
           /\ Failed(f, k, content, age) => Failed(f2, k, content, age + n)
<1>1. k[1] \in Connections /\ k[2] \in Questions /\ content.cat \in Nat /\ content.terms \in Nat
  BY DEF Keys, Content, Versions
<1>2. age + (TermTtl - 1) \in Nat /\ (age + (TermTtl - 1)) + n = (age + n) + (TermTtl - 1)
  BY TtlAssumption
<1> QED
  BY <1>1, <1>2 DEF Ages, Linked, Failed

LEMMA TurnKeeps ==
    ASSUME NEW d, NEW f, NEW d2, NEW f2, Ages(0, d, f, d2, f2),
           NEW r \in Turn, r.pc \in Building => r.key \in Keys, TurnFits(r, d, f)
    PROVE  TurnFits(r, d2, f2)
<1>1. r.since \in Nat /\ r.termsSince \in Nat /\ r.content \in Content
      /\ r.content.terms \in Nat /\ r.since + 0 = r.since /\ r.termsSince + 0 = r.termsSince
  BY TtlAssumption DEF Turn, Content, Versions
<1>2. CASE r.pc \notin Building
  BY <1>2 DEF TurnFits, Building
<1>3. CASE r.pc \in Building
  <2>1. r.key \in Keys /\ r.key[1] \in Connections
    BY <1>3 DEF Keys
  <2>2. /\ Linked(d, r.key, r.content, r.since) => Linked(d2, r.key, r.content, r.since)
        /\ Failed(f, r.key, r.content, r.since) => Failed(f2, r.key, r.content, r.since)
    BY <1>1, <2>1, LinkedAges
  <2>3. Lasted(d[r.key[1]], r.content.terms, r.termsSince) =>
          Lasted(d2[r.key[1]], r.content.terms, r.termsSince)
    BY <1>1, <2>1 DEF Ages
  <2> QED
    BY <2>2, <2>3 DEF TurnFits
<1> QED
  BY <1>2, <1>3

LEMMA EntryKeeps ==
    ASSUME NEW d, NEW f, NEW d2, NEW f2, Ages(0, d, f, d2, f2),
           NEW k \in Keys, NEW e \in Entry, EntryFits(k, e, d, f)
    PROVE  EntryFits(k, e, d2, f2)
<1>1. e.age \in Nat /\ e.content \in Content /\ e.age + 0 = e.age
  BY TtlAssumption DEF Entry
<1>2. /\ Linked(d, k, e.content, e.age) => Linked(d2, k, e.content, e.age)
      /\ Failed(f, k, e.content, e.age) => Failed(f2, k, e.content, e.age)
  BY <1>1, LinkedAges
<1> QED
  BY <1>2 DEF EntryFits

LEMMA TermsKeep ==
    ASSUME NEW d, NEW f, NEW d2, NEW f2, Ages(0, d, f, d2, f2),
           NEW c \in Connections, NEW e \in TermEntry, TermsFit(c, e, d)
    PROVE  TermsFit(c, e, d2)
<1>1. e.age \in Nat /\ e.terms \in Nat /\ e.age + 0 = e.age
  BY TtlAssumption DEF TermEntry, Versions
<1> QED
  BY <1>1 DEF TermsFit, Ages

LEMMA InitRecent == Init => Recent
BY TtlAssumption
DEF Init, Recent, TurnsFit, CacheFits, TermCacheFits, TurnFits, TermsFit, Idle, NoTerms

-----------------------------------------------------------------------------
\* The one turn that a step moves fits where it goes, and so the others.
LEMMA OneFits ==
    ASSUME LockInv, Types, Recent, Ages(0, db, lastFail, db', lastFail'),
           NEW t \in Turns, NEW r, Goto(t, r), TurnFits(r, db', lastFail')
    PROVE  TurnsFit'
<1>1. ASSUME NEW u \in Turns PROVE TurnFits(turn'[u], db', lastFail')
  <2>1. CASE u = t
    BY <2>1 DEF Goto, Types
  <2>2. CASE u # t
    <3>1. turn'[u] = turn[u] /\ turn[u] \in Turn /\ TurnFits(turn[u], db, lastFail)
      BY <2>2 DEF Goto, Types, Recent, TurnsFit
    <3>2. turn[u].pc \in Building => turn[u].key \in Keys
      BY DEF LockInv, Shape
    <3> QED
      BY <3>1, <3>2, TurnKeeps
  <2> QED
    BY <2>1, <2>2
<1> QED
  BY <1>1 DEF TurnsFit

\* Turns that are not building, or whose context is already made, carry nothing.
LEMMA OutsideFits ==
    ASSUME NEW r, r.pc \in {"idle", "fetch"}, NEW d, NEW f
    PROVE  TurnFits(r, d, f)
BY DEF TurnFits

\* The turn that is building and what is known of it.
LEMMA BuilderIs ==
    ASSUME LockInv, Types, Recent, NEW t \in Turns
    PROVE  /\ turn[t] \in Turn /\ turn[t].content \in Content
           /\ turn[t].since \in 0..ContextTtl /\ turn[t].termsSince \in 0..TermTtl
           /\ TurnFits(turn[t], db, lastFail)
           /\ turn[t].pc \in {"lock"} \cup Building =>
                turn[t].key \in Keys /\ Conn(t) \in Connections /\ Question(t) \in Questions
BY DEF LockInv, Shape, Types, Turn, Recent, TurnsFit, Conn, Question, Keys

LEMMA GatherFits ==
    ASSUME LockInv, Types, Recent, NEW t \in Turns, Gather(t)
    PROVE  TurnsFit'
<1> DEFINE c == Conn(t)
           linked == [turn[t] EXCEPT !.content.cat = Version(c)]
           R(pc, terms) == [linked EXCEPT !.pc = pc, !.content.terms = terms]
<1>1. /\ turn[t] \in Turn /\ turn[t].content \in Content /\ turn[t].pc = "gather"
      /\ turn[t].since \in 0..ContextTtl /\ TurnFits(turn[t], db, lastFail)
      /\ turn[t].key \in Keys /\ c \in Connections /\ UNCHANGED <<db, lastFail>>
  BY BuilderIs DEF Gather, At, Building
<1>2. db[c] \in Seq(0..(Bound + 1)) /\ Bound + 1 \in Nat /\ Len(db[c]) \in Nat
  BY <1>1, TtlAssumption, LenProperties DEF Types, Db, Bound
<1>3. Ages(0, db, lastFail, db', lastFail')
  BY <1>1 DEF Ages
<1>4. \A age : Lasted(db[c], Version(c), age)
  BY <1>2 DEF Lasted, Version
<1>5. ASSUME NEW pc, NEW terms, pc \in {"finish", "readTerms"},
             Goto(t, R(pc, terms)),
             turn[t].since < ContextTtl => Lasted(db[c], terms, turn[t].since + (TermTtl - 1)),
             pc = "readTerms" => \A age : Lasted(db[c], terms, age)
      PROVE  TurnsFit'
  <2> DEFINE r == R(pc, terms)
  <2>1. /\ r.pc = pc /\ r.key = turn[t].key /\ r.since = turn[t].since
        /\ r.termsSince = turn[t].termsSince
    BY <1>1 DEF Turn
  <2>2. /\ r.content.cat = Version(c) /\ r.content.terms = terms
        /\ r.content.degraded = turn[t].content.degraded
    BY <1>1 DEF Turn, Content
  <2>3. Goto(t, r)
    BY <1>5
  <2> HIDE DEF r, R, linked
  <2>4. TurnFits(r, db, lastFail)
    BY <1>1, <1>4, <1>5, <2>1, <2>2 DEF TurnFits, Failed, Linked, Conn
  <2> QED
    BY <1>1, <1>3, <2>3, <2>4, OneFits
<1>6. CASE FreshTerms(c)
  <2>1. Goto(t, R("finish", termCache[c].terms))
    BY <1>6 DEF Gather
  <2>2. /\ termCache[c].age \in Nat /\ termCache[c].terms \in Nat /\ termCache[c].age < TermTtl
        /\ Lasted(db[c], termCache[c].terms, termCache[c].age)
    BY <1>1, <1>6, TtlAssumption
    DEF FreshTerms, Types, TermEntry, Versions, Recent, TermCacheFits, TermsFit
  <2>3. /\ turn[t].since + (TermTtl - 1) \in Nat
        /\ termCache[c].age <= turn[t].since + (TermTtl - 1)
    BY <1>1, <2>2, TtlAssumption
  <2>4. Lasted(db[c], termCache[c].terms, turn[t].since + (TermTtl - 1))
    BY <1>2, <2>2, <2>3, MoreAge
  <2> HIDE DEF R
  <2> QED
    BY <1>5, <2>1, <2>4
<1>7. CASE ~FreshTerms(c)
  <2>1. Goto(t, R("readTerms", Version(c)))
    BY <1>7 DEF Gather
  <2> HIDE DEF R
  <2> QED
    BY <1>4, <1>5, <2>1
<1> QED
  BY <1>6, <1>7

LEMMA EmbedFits ==
    ASSUME LockInv, Types, Recent, NEW t \in Turns, Embed(t),
           Ages(0, db, lastFail, db', lastFail')
    PROVE  TurnsFit'
<1>1. /\ turn[t] \in Turn /\ turn[t].content \in Content /\ turn[t].pc = "embed"
      /\ turn[t].since \in 0..ContextTtl /\ ~turn[t].content.degraded /\ Question(t) \in Questions
  BY BuilderIs DEF Embed, At, Building, TurnFits
<1>2. CASE Goto(t, [turn[t] EXCEPT !.pc = "gather"])
  <2> DEFINE r == [turn[t] EXCEPT !.pc = "gather"]
  <2>1. r.pc = "gather" /\ r.content = turn[t].content
    BY <1>1 DEF Turn
  <2> HIDE DEF r
  <2>2. TurnFits(r, db', lastFail')
    BY <1>1, <2>1 DEF TurnFits, Failed
  <2> QED
    BY <1>2, <2>2, OneFits DEF r
<1>3. CASE /\ lastFail' = [lastFail EXCEPT ![Question(t)] = 0]
           /\ Goto(t, [turn[t] EXCEPT !.pc = "gather", !.content.degraded = TRUE])
  <2> DEFINE r == [turn[t] EXCEPT !.pc = "gather", !.content.degraded = TRUE]
  <2>1. r.pc = "gather" /\ r.key = turn[t].key /\ r.since = turn[t].since
    BY <1>1 DEF Turn
  <2>2. lastFail'[Question(t)] = 0
    BY <1>1, <1>3 DEF Types
  <2> HIDE DEF r
  <2>3. TurnFits(r, db', lastFail')
    BY <1>1, <2>1, <2>2 DEF TurnFits, Failed, Question
  <2> QED
    BY <1>3, <2>3, OneFits DEF r
<1> QED
  BY <1>2, <1>3 DEF Embed

LEMMA EnterFits ==
    ASSUME LockInv, Types, Recent, NEW t \in Turns, EnterLock(t) \/ EnterEmbLock(t),
           Ages(0, db, lastFail, db', lastFail')
    PROVE  TurnsFit'
<1>1. /\ turn[t] \in Turn /\ turn[t].content \in Content /\ ~turn[t].content.degraded
  BY BuilderIs DEF EnterLock, EnterEmbLock, At, TurnFits
<1>2. CASE \E r \in FromCache(turn[t].key) : Goto(t, r)
  <2>1. PICK r \in FromCache(turn[t].key) : Goto(t, r)
    BY <1>2
  <2>2. r.pc \in {"idle", "fetch"}
    BY HandedOver DEF FromCache
  <2> QED
    BY <2>1, <2>2, OutsideFits, OneFits
<1>3. ASSUME NEW pc \in {"gather", "embLock", "embed"},
             Goto(t, [turn[t] EXCEPT !.pc = pc, !.since = 0])
      PROVE  TurnsFit'
  <2> DEFINE r == [turn[t] EXCEPT !.pc = pc, !.since = 0]
  <2>1. r.pc = pc /\ r.content = turn[t].content
    BY <1>1 DEF Turn
  <2> HIDE DEF r
  <2>2. TurnFits(r, db', lastFail')
    BY <1>1, <2>1 DEF TurnFits, Failed
  <2> QED
    BY <1>3, <2>2, OneFits DEF r
<1>4. CASE EnterLock(t) /\ ~FoundInLock(turn[t].key)
  <2> DEFINE pc == IF FreshEmbedding(Question(t)) THEN "gather" ELSE "embLock"
  <2>1. Goto(t, [turn[t] EXCEPT !.since = 0, !.pc = pc])
    BY <1>4 DEF EnterLock
  <2>2. [turn[t] EXCEPT !.since = 0, !.pc = pc] = [turn[t] EXCEPT !.pc = pc, !.since = 0]
    BY <1>1 DEF Turn
  <2>3. pc \in {"gather", "embLock", "embed"}
    OBVIOUS
  <2> HIDE DEF pc
  <2> QED
    BY <1>3, <2>1, <2>2, <2>3
<1>5. CASE EnterEmbLock(t)
  <2>1. \E pc \in {"gather", "embed"} : Goto(t, [turn[t] EXCEPT !.pc = pc, !.since = 0])
    BY <1>5 DEF EnterEmbLock
  <2> QED
    BY <1>3, <2>1
<1> QED
  BY <1>2, <1>4, <1>5 DEF EnterLock

LEMMA StoreFits ==
    ASSUME LockInv, Types, Recent, NEW t \in Turns, StoreTerms(t),
           Ages(0, db, lastFail, db', lastFail')
    PROVE  TurnsFit' /\ TermCacheFits'
<1>1. /\ turn[t] \in Turn /\ turn[t].pc = "readTerms" /\ TurnFits(turn[t], db, lastFail)
      /\ turn[t].key \in Keys /\ UNCHANGED <<db, lastFail>> /\ Conn(t) \in Connections
  BY BuilderIs DEF StoreTerms, At, Building
<1>2. TurnsFit'
  <2> DEFINE r == [turn[t] EXCEPT !.pc = "finish", !.termsSince = 0]
  <2>1. /\ r.pc = "finish" /\ r.content = turn[t].content /\ r.since = turn[t].since
        /\ r.key = turn[t].key
    BY <1>1 DEF Turn
  <2>2. Goto(t, r)
    BY DEF StoreTerms
  <2> HIDE DEF r
  <2>3. TurnFits(r, db', lastFail')
    BY <1>1, <2>1 DEF TurnFits
  <2> QED
    BY <2>2, <2>3, OneFits
<1>3. TermCacheFits'
  <2> DEFINE e == [age |-> turn[t].termsSince, terms |-> turn[t].content.terms]
  <2>1. termCache' = [termCache EXCEPT ![Conn(t)] = e]
    BY DEF StoreTerms, TermStamp
  <2>2. TermsFit(Conn(t), e, db)
    BY <1>1 DEF TurnFits, TermsFit, Conn
  <2> HIDE DEF e
  <2>3. \A c \in Connections : termCache'[c] = IF c = Conn(t) THEN e ELSE termCache[c]
    BY <1>1, <2>1 DEF Types
  <2> QED
    BY <1>1, <2>2, <2>3 DEF Recent, TermCacheFits
<1> QED
  BY <1>2, <1>3

\* What the cache keeps still fits, and what is stored was still fitting in hand.
LEMMA FinishFits ==
    ASSUME LockInv, Types, Recent, NEW t \in Turns, Finish(t),
           Ages(0, db, lastFail, db', lastFail')
    PROVE  TurnsFit' /\ CacheFits'
<1>1. /\ turn[t] \in Turn /\ turn[t].pc = "finish" /\ TurnFits(turn[t], db, lastFail)
      /\ turn[t].key \in Keys /\ UNCHANGED <<db, lastFail>>
  BY BuilderIs DEF Finish, At, Building
<1>2. TurnsFit'
  <2>1. PICK r \in Handed(turn[t].key, NewObject) : Goto(t, r)
    BY DEF Finish
  <2>2. r.pc \in {"idle", "fetch"}
    BY HandedOver
  <2> QED
    BY <2>1, <2>2, OutsideFits, OneFits
<1>3. CacheFits'
  <2> DEFINE new == [object |-> NewObject, age |-> turn[t].since, content |-> turn[t].content]
  <2>1. PICK trimmed \in Trimmed : cache' = [trimmed EXCEPT ![turn[t].key] = new]
    BY DEF Finish, ContextStamp
  <2>2. EntryFits(turn[t].key, new, db, lastFail)
    BY <1>1 DEF TurnFits, EntryFits
  <2> HIDE DEF new
  <2>3. DOMAIN trimmed = Keys /\ \A k \in Keys : trimmed[k] \in {cache[k], Null}
    BY <2>1 DEF Trimmed, Types
  <2>4. \A k \in Keys : cache'[k] = IF k = turn[t].key THEN new ELSE trimmed[k]
    BY <2>1, <2>3
  <2> QED
    BY <1>1, <2>2, <2>3, <2>4 DEF Recent, CacheFits
<1> QED
  BY <1>2, <1>3

LEMMA RestFits ==
    ASSUME LockInv, Types, Recent, NEW t \in Turns, Ask(t) \/ AppendMissing(t) \/ Abort(t),
           Ages(0, db, lastFail, db', lastFail')
    PROVE  TurnsFit'
<1>1. CASE \E k \in Keys : \E r \in FromCache(k) : Goto(t, r)
  <2>1. PICK k \in Keys : \E r \in FromCache(k) : Goto(t, r)
    BY <1>1
  <2>2. PICK r \in FromCache(k) : Goto(t, r)
    BY <2>1
  <2>3. r.pc \in {"idle", "fetch"}
    BY HandedOver DEF FromCache
  <2> QED
    BY <2>2, <2>3, OutsideFits, OneFits
<1>2. CASE \E k \in Keys : Goto(t, [Idle EXCEPT !.key = k, !.pc = "lock"])
  <2>1. PICK k \in Keys : Goto(t, [Idle EXCEPT !.key = k, !.pc = "lock"])
    BY <1>2
  <2> DEFINE r == [Idle EXCEPT !.key = k, !.pc = "lock"]
  <2>2. r.pc = "lock" /\ r.content = Blank
    BY DEF Idle
  <2> HIDE DEF r
  <2>3. TurnFits(r, db', lastFail')
    BY <2>2 DEF TurnFits, Blank
  <2> QED
    BY <2>1, <2>3, OneFits DEF r
<1>3. CASE Goto(t, Idle)
  BY <1>3, OneFits, OutsideFits DEF Idle
<1> QED
  BY <1>1, <1>2, <1>3 DEF Ask, AppendMissing, Abort

\* Time passes for a turn as it does for what it has read.
LEMMA TickFits == ASSUME LockInv, Types, Recent, Tick PROVE Recent'
<1>1. Ages(1, db, lastFail, db', lastFail')
  BY TickAges
<1>2. TurnsFit'
  <2>1. ASSUME NEW t \in Turns PROVE TurnFits(turn'[t], db', lastFail')
    <3> DEFINE since == IF Stamped(t) THEN Older(turn[t].since, ContextTtl) ELSE 0
               terms == IF At(t, "readTerms") THEN Older(turn[t].termsSince, TermTtl) ELSE 0
               r == [turn[t] EXCEPT !.since = since, !.termsSince = terms]
    <3>1. /\ turn[t] \in Turn /\ turn[t].content \in Content
          /\ turn[t].since \in 0..ContextTtl /\ turn[t].termsSince \in 0..TermTtl
          /\ TurnFits(turn[t], db, lastFail)
          /\ turn[t].pc \in {"lock"} \cup Building => turn[t].key \in Keys
      BY BuilderIs
    <3>2. turn'[t] = r
      BY DEF Tick
    <3>3. /\ r.pc = turn[t].pc /\ r.key = turn[t].key /\ r.content = turn[t].content
          /\ r.since = since /\ r.termsSince = terms
      BY <3>1 DEF Turn
    <3>4. turn[t].pc \in {"gather", "readTerms", "finish"} /\ since < ContextTtl =>
            turn[t].since < ContextTtl /\ since = turn[t].since + 1
      BY <3>1, TtlAssumption DEF Stamped, Older
    <3>5. turn[t].pc = "readTerms" /\ terms < TermTtl =>
            turn[t].termsSince < TermTtl /\ terms = turn[t].termsSince + 1
      BY <3>1, TtlAssumption DEF At, Older
    <3> HIDE DEF r, since, terms
    <3>6. CASE turn[t].pc \in Building
      <4>1. /\ turn[t].key \in Keys /\ turn[t].key[1] \in Connections
            /\ turn[t].since \in Nat /\ turn[t].termsSince \in Nat /\ turn[t].content.terms \in Nat
        BY <3>1, <3>6, TtlAssumption DEF Keys, Content, Versions
      <4>2. /\ Linked(db, turn[t].key, turn[t].content, turn[t].since) =>
                 Linked(db', turn[t].key, turn[t].content, turn[t].since + 1)
            /\ Failed(lastFail, turn[t].key, turn[t].content, turn[t].since) =>
                 Failed(lastFail', turn[t].key, turn[t].content, turn[t].since + 1)
        BY <1>1, <3>1, <4>1, LinkedAges
      <4>3. Lasted(db[turn[t].key[1]], turn[t].content.terms, turn[t].termsSince) =>
              Lasted(db'[turn[t].key[1]], turn[t].content.terms, turn[t].termsSince + 1)
        BY <1>1, <4>1 DEF Ages
      <4> QED
        BY <3>1, <3>2, <3>3, <3>4, <3>5, <4>2, <4>3 DEF TurnFits
    <3>7. CASE turn[t].pc \notin Building
      BY <3>1, <3>2, <3>3, <3>7 DEF TurnFits, Building
    <3> QED
      BY <3>6, <3>7
  <2> QED
    BY <2>1 DEF TurnsFit
<1>3. CacheFits'
  <2>1. ASSUME NEW k \in Keys, cache'[k] # Null PROVE EntryFits(k, cache'[k], db', lastFail')
    <3>1. cache'[k] = Aged(cache[k]) /\ cache[k] # Null
      BY <2>1 DEF Tick
    <3>2. cache[k] \in Entry /\ EntryFits(k, cache[k], db, lastFail)
      BY <3>1 DEF Types, Recent, CacheFits
    <3>3. cache[k].age \in Nat /\ cache[k].content \in Content
      BY <3>2, TtlAssumption DEF Entry
    <3>4. CASE cache[k].age + 1 < ContextTtl
      <4>1. cache'[k].age = cache[k].age + 1 /\ cache'[k].content = cache[k].content
        BY <3>1, <3>2, <3>4 DEF Aged, Entry
      <4>2. cache[k].age < ContextTtl
        BY <3>3, <3>4, TtlAssumption
      <4> QED
        BY <1>1, <3>2, <3>3, <4>1, <4>2, LinkedAges DEF EntryFits
    <3>5. CASE ~(cache[k].age + 1 < ContextTtl)
      <4>1. cache'[k].age = ContextTtl
        BY <3>1, <3>2, <3>5 DEF Aged, Entry
      <4> QED
        BY <4>1, TtlAssumption DEF EntryFits
    <3> QED
      BY <3>4, <3>5
  <2> QED
    BY <2>1 DEF CacheFits
<1>4. TermCacheFits'
  <2>1. ASSUME NEW c \in Connections PROVE TermsFit(c, termCache'[c], db')
    <3>1. termCache[c] \in TermEntry /\ TermsFit(c, termCache[c], db)
      BY DEF Types, Recent, TermCacheFits
    <3>2. termCache[c].age \in Nat /\ termCache[c].terms \in Nat
      BY <3>1, TtlAssumption DEF TermEntry, Versions
    <3>3. CASE termCache[c].age + 1 < TermTtl
      <4>1. /\ termCache'[c].age = termCache[c].age + 1 /\ termCache'[c].terms = termCache[c].terms
        BY <3>1, <3>3 DEF Tick, TermEntry
      <4>2. termCache[c].age < TermTtl
        BY <3>2, <3>3, TtlAssumption
      <4> QED
        BY <1>1, <3>1, <3>2, <4>1, <4>2 DEF TermsFit, Ages
    <3>4. CASE ~(termCache[c].age + 1 < TermTtl)
      <4>1. termCache'[c].age = TermTtl
        BY <3>4 DEF Tick, NoTerms
      <4> QED
        BY <4>1, TtlAssumption DEF TermsFit
    <3> QED
      BY <3>3, <3>4
  <2> QED
    BY <2>1 DEF TermCacheFits
<1> QED
  BY <1>2, <1>3, <1>4 DEF Recent

\* What a step does not touch.
LEMMA CacheKeeps ==
    ASSUME Types, Recent, Ages(0, db, lastFail, db', lastFail'), UNCHANGED cache
    PROVE  CacheFits'
BY EntryKeeps DEF Types, Recent, CacheFits

LEMMA TermCacheKeeps ==
    ASSUME Types, Recent, Ages(0, db, lastFail, db', lastFail'), UNCHANGED termCache
    PROVE  TermCacheFits'
BY TermsKeep DEF Types, Recent, TermCacheFits

LEMMA TurnsKeep ==
    ASSUME LockInv, Types, Recent, Ages(0, db, lastFail, db', lastFail'), UNCHANGED turn
    PROVE  TurnsFit'
BY TurnKeeps DEF LockInv, Shape, Types, Recent, TurnsFit

LEMMA RecentStep == ASSUME LockInv, Types, Recent, [Next]_vars PROVE Recent'
<1>1. CASE Tick
  BY <1>1, TickFits
<1>2. CASE ~Tick
  <2>1. Ages(0, db, lastFail, db', lastFail')
    BY <1>2, NothingAges
  <2>2. ASSUME NEW t \in Turns, Ask(t) \/ AppendMissing(t) \/ Abort(t) PROVE Recent'
    <3>1. UNCHANGED cache /\ UNCHANGED termCache
      BY <2>2 DEF Ask, AppendMissing, Abort
    <3> QED
      BY <2>1, <2>2, <3>1, RestFits, CacheKeeps, TermCacheKeeps DEF Recent
  <2>3. ASSUME NEW t \in Turns, EnterLock(t) \/ EnterEmbLock(t) PROVE Recent'
    <3>1. UNCHANGED cache /\ UNCHANGED termCache
      BY <2>3 DEF EnterLock, EnterEmbLock
    <3> QED
      BY <2>1, <2>3, <3>1, EnterFits, CacheKeeps, TermCacheKeeps DEF Recent
  <2>4. ASSUME NEW t \in Turns, Embed(t) PROVE Recent'
    <3>1. UNCHANGED cache /\ UNCHANGED termCache
      BY <2>4 DEF Embed
    <3> QED
      BY <2>1, <2>4, <3>1, EmbedFits, CacheKeeps, TermCacheKeeps DEF Recent
  <2>5. ASSUME NEW t \in Turns, Gather(t) PROVE Recent'
    <3>1. UNCHANGED cache /\ UNCHANGED termCache
      BY <2>5 DEF Gather
    <3> QED
      BY <2>1, <2>5, <3>1, GatherFits, CacheKeeps, TermCacheKeeps DEF Recent
  <2>6. ASSUME NEW t \in Turns, StoreTerms(t) PROVE Recent'
    <3>1. UNCHANGED cache
      BY <2>6 DEF StoreTerms
    <3> QED
      BY <2>1, <2>6, <3>1, StoreFits, CacheKeeps DEF Recent
  <2>7. ASSUME NEW t \in Turns, Finish(t) PROVE Recent'
    <3>1. UNCHANGED termCache
      BY <2>7 DEF Finish
    <3> QED
      BY <2>1, <2>7, <3>1, FinishFits, TermCacheKeeps DEF Recent
  <2>8. ASSUME NEW c \in Connections, EditTerms(c) PROVE Recent'
    <3>1. /\ UNCHANGED cache /\ UNCHANGED turn /\ UNCHANGED db
          /\ termCache' = [termCache EXCEPT ![c] = NoTerms]
      BY <2>8 DEF EditTerms
    <3>2. TermCacheFits'
      BY <3>1, TtlAssumption DEF Types, NoTerms, Recent, TermCacheFits, TermsFit
    <3> QED
      BY <2>1, <3>1, <3>2, TurnsKeep, CacheKeeps DEF Recent
  <2>9. ASSUME NEW c \in Connections, CommitTerms(c) \/ Introspect(c) PROVE Recent'
    <3>1. UNCHANGED cache /\ UNCHANGED turn /\ UNCHANGED termCache
      BY <2>9 DEF CommitTerms, Introspect
    <3> QED
      BY <2>1, <3>1, TurnsKeep, CacheKeeps, TermCacheKeeps DEF Recent
  <2>10. CASE UNCHANGED vars
    <3>1. UNCHANGED cache /\ UNCHANGED turn /\ UNCHANGED termCache
      BY <2>10 DEF vars
    <3> QED
      BY <2>1, <3>1, TurnsKeep, CacheKeeps, TermCacheKeeps DEF Recent
  <2> QED
    BY <1>2, <2>2, <2>3, <2>4, <2>5, <2>6, <2>7, <2>8, <2>9, <2>10 DEF Next
<1> QED
  BY <1>1, <1>2

\* In every reachable state, whatever is cached or under way is as recent as its time
\* stamp says.
LEMMA RecentInvariant == Spec => [](LockInv /\ Types /\ Recent)
<1>1. Init => Recent
  BY InitRecent
<1>2. LockInv /\ Types /\ Recent /\ [Next]_vars => Recent'
  BY RecentStep
<1> QED
  BY <1>1, <1>2, ContextInvariant, PTL DEF Spec

\* A hit is a fresh entry.
LEMMA HitIs ==
    ASSUME LockInv, Types, [Next]_vars, NEW t \in Turns, Hit(t)
    PROVE  LET k == turn'[t].key IN k \in Keys /\ FreshContext(k)
<1>1. At(t, "idle") \/ At(t, "lock")
  BY DEF Hit
<1>2. Ask(t) \/ EnterLock(t)
  <2>1. ASSUME NEW u \in Turns, u # t,
               \/ Ask(u) \/ EnterLock(u) \/ EnterEmbLock(u) \/ Embed(u) \/ Gather(u)
               \/ StoreTerms(u) \/ Finish(u) \/ AppendMissing(u) \/ Abort(u)
        PROVE  turn'[t] = turn[t]
    BY <2>1, TurnSteps, OneTurn
  <2>2. turn'[t].pc # turn[t].pc
    BY <1>1 DEF Hit, At
  <2>3. Others \/ UNCHANGED vars => turn'[t].pc = turn[t].pc
    BY OtherSteps
  <2>4. PICK u \in Turns : \/ Ask(u) \/ EnterLock(u) \/ EnterEmbLock(u) \/ Embed(u) \/ Gather(u)
                           \/ StoreTerms(u) \/ Finish(u) \/ AppendMissing(u) \/ Abort(u)
    BY <2>2, <2>3 DEF Next, Others
  <2>5. u = t
    BY <2>1, <2>2, <2>4
  <2>6. ~Abort(t)
    BY DEF Abort, Goto, Types, Idle, Hit
  <2> QED
    BY <1>1, <2>4, <2>5, <2>6
    DEF At, EnterEmbLock, Embed, Gather, StoreTerms, Finish, AppendMissing
<1>3. PICK k \in Keys : FreshContext(k) /\ \E r \in FromCache(k) : Goto(t, r)
  <2>1. CASE Ask(t)
    <3>1. PICK k \in Keys : \E r \in IF FreshContext(k) THEN FromCache(k)
                                     ELSE {[Idle EXCEPT !.key = k, !.pc = "lock"]} : Goto(t, r)
      BY <2>1 DEF Ask
    <3>2. CASE FreshContext(k)
      BY <3>1, <3>2
    <3>3. CASE ~FreshContext(k)
      BY <3>1, <3>3 DEF Goto, Types, Idle, Hit
    <3> QED
      BY <3>2, <3>3
  <2>2. CASE EnterLock(t)
    <3>1. turn[t].key \in Keys
      BY <2>2 DEF EnterLock, At, LockInv, Shape
    <3>2. CASE FoundInLock(turn[t].key)
      BY <2>2, <3>1, <3>2 DEF EnterLock, FoundInLock
    <3>3. CASE ~FoundInLock(turn[t].key)
      <4> DEFINE pc == IF FreshEmbedding(Question(t)) THEN "gather" ELSE "embLock"
      <4>1. Goto(t, [turn[t] EXCEPT !.since = 0, !.pc = pc])
        BY <2>2, <3>3 DEF EnterLock
      <4>2. pc # "fetch"
        OBVIOUS
      <4> HIDE DEF pc
      <4>3. turn[t] \in Turn
        BY DEF Types
      <4>4. turn'[t].pc = pc
        BY <4>1, <4>3 DEF Goto, Types, Turn
      <4> QED
        BY <4>2, <4>4 DEF Hit
    <3> QED
      BY <3>2, <3>3
  <2> QED
    BY <1>2, <2>1, <2>2
<1>4. turn'[t].key = k
  <2>1. PICK r \in FromCache(k) : Goto(t, r)
    BY <1>3
  <2>2. turn'[t] = r
    BY <2>1 DEF Goto, Types
  <2>3. r # Idle
    BY <2>2 DEF Hit, Idle
  <2>4. r = [Idle EXCEPT !.pc = "fetch", !.key = k, !.object = cache[k].object]
    BY <2>3, <2>1 DEF FromCache, Handed
  <2> QED
    BY <2>2, <2>4 DEF Idle
<1> QED
  BY <1>3, <1>4

\* A cached context rests on a catalogue and on terms that were superseded no longer
\* ago than the lifetimes of the caches it went through, whatever commits, edits and
\* other turns came between (context_builder.py, glossary_resolver.py).
THEOREM HitsAreRecent == Spec => HitIsRecent
<1> DEFINE Fit == \A t \in Turns : Hit(t) =>
                    LET c == turn'[t].key[1] IN
                    /\ LastedTo(c, Given(t).cat, ContextTtl - 1)
                    /\ LastedTo(c, Given(t).terms, Bound)
<1>1. LockInv /\ Types /\ Recent /\ [Next]_vars => Fit
  <2> SUFFICES ASSUME LockInv, Types, Recent, [Next]_vars, NEW t \in Turns, Hit(t)
               PROVE  LET c == turn'[t].key[1] IN
                      /\ LastedTo(c, Given(t).cat, ContextTtl - 1)
                      /\ LastedTo(c, Given(t).terms, Bound)
    OBVIOUS
  <2> DEFINE k == turn'[t].key
             e == cache[k]
  <2>1. k \in Keys /\ FreshContext(k)
    BY HitIs
  <2>2. e \in Entry /\ e.age < ContextTtl /\ EntryFits(k, e, db, lastFail)
    BY <2>1 DEF FreshContext, Types, Recent, CacheFits
  <2> HIDE DEF k
  <2>3. /\ db[k[1]] \in Seq(0..(Bound + 1)) /\ Bound + 1 \in Nat
        /\ e.content.cat \in Nat /\ e.content.terms \in Nat /\ e.age \in Nat
    BY <2>1, <2>2, TtlAssumption DEF Types, Db, Keys, Entry, Content, Versions, Bound
  <2>4. /\ Lasted(db[k[1]], e.content.cat, e.age)
        /\ Lasted(db[k[1]], e.content.terms, e.age + (TermTtl - 1))
    BY <2>2 DEF EntryFits, Linked
  <2>5. /\ ContextTtl - 1 \in Nat /\ e.age <= ContextTtl - 1
        /\ e.age + (TermTtl - 1) \in Nat /\ Bound \in Nat /\ e.age + (TermTtl - 1) <= Bound
    BY <2>2, <2>3, TtlAssumption DEF Bound
  <2>6. Lasted(db[k[1]], e.content.cat, ContextTtl - 1) /\ Lasted(db[k[1]], e.content.terms, Bound)
    BY <2>3, <2>4, <2>5, MoreAge
  <2> QED
    BY <2>6 DEF LastedTo, Lasted, Version, Given, k
<1> HIDE DEF Fit
<1>2. Spec => [][Fit]_vars
  BY <1>1, RecentInvariant, PTL DEF Spec
<1> QED
  BY <1>2 DEF HitIsRecent, Fit

\* A context made without an embedding is handed out only within one lifetime of a
\* failure to embed its question.
THEOREM DegradedHitsAreRecent == Spec => DegradedOnlyAfterFailure
<1> DEFINE Fit == \A t \in Turns : Hit(t) /\ Given(t).degraded =>
                    lastFail[turn'[t].key[2]] < ContextTtl
<1>1. LockInv /\ Types /\ Recent /\ [Next]_vars => Fit
  <2> SUFFICES ASSUME LockInv, Types, Recent, [Next]_vars, NEW t \in Turns, Hit(t),
                      Given(t).degraded
               PROVE  lastFail[turn'[t].key[2]] < ContextTtl
    OBVIOUS
  <2> DEFINE k == turn'[t].key
             e == cache[k]
  <2>1. k \in Keys /\ FreshContext(k)
    BY HitIs
  <2>2. e \in Entry /\ e.age < ContextTtl /\ EntryFits(k, e, db, lastFail)
    BY <2>1 DEF FreshContext, Types, Recent, CacheFits
  <2>3. e.content.degraded
    BY DEF Given
  <2> HIDE DEF k
  <2>4. lastFail[k[2]] \in 0..ContextTtl /\ e.age \in Nat
    BY <2>1, <2>2, TtlAssumption DEF Keys, Types, Entry
  <2>5. lastFail[k[2]] <= e.age
    BY <2>2, <2>3 DEF EntryFits, Failed
  <2> QED
    BY <2>2, <2>4, <2>5, TtlAssumption DEF k
<1> HIDE DEF Fit
<1>2. Spec => [][Fit]_vars
  BY <1>1, RecentInvariant, PTL DEF Spec
<1> QED
  BY <1>2 DEF DegradedOnlyAfterFailure, Fit
=============================================================================
