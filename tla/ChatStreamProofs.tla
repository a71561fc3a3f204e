-------------------------- MODULE ChatStreamProofs --------------------------
(***************************************************************************)
(* Proofs about ChatStream: for any numbers of turns, sessions, events and *)
(* faults.                                                                 *)
(***************************************************************************)
EXTENDS ChatStream, FunctionTheorems, FiniteSetTheorems, SequenceTheorems, WellFoundedInduction, TLAPS

Pcs == {"none", "start", "load", "run", "write", "title", "done"}
Kinds == TurnKinds \cup {"none"}
Base == [turn: Turns \cup Before \cup {Null}, context: BOOLEAN]
Task == [session: Sessions \cup {Null}, pc: Pcs, kind: Kinds, cached: BOOLEAN, base: Base]
Stream == [pc: {"none", "request", "wait", "yielded", "closed"},
           end: {"none", "answer", "explained", "clarification", "error"}]
Answered == {"answer", "explained", "clarification"}

\* A turn whose question was sent.
Sent(t) == ~StreamAt(t, "none")

\* The question that waits is the last one sent, and the only one whose fate is open.
OpenIsLast ==
    /\ \A t, u \in Turns : u < t /\ Sent(t) => Sent(u)
    /\ \A t \in Turns : open = t =>
         Sent(t) /\ outcome[t] = "none" /\ \A u \in Turns : Sent(u) => u <= t
    /\ \A t \in Turns : Sent(t) /\ outcome[t] = "none" => open = t

\* Each turn shows two messages at most.
ShownIsSent ==
    /\ \A i \in DOMAIN shown : Sent(shown[i].turn)
    /\ \A k \in 0..MaxTurns : (\A t \in Turns : Sent(t) => t <= k) =>
         Len(shown) + (IF open = Null THEN 0 ELSE 1) <= 2 * k
    /\ open # Null => Len(shown) > 0

Unsaved == {"start", "load", "run", "write"}

\* The task r, the stream st, the queue q and the outcome o of a turn agree.
Agree(r, st, q, o) ==
    /\ r.pc \in Unsaved \cup {"title"} \/ st.pc = "request" => r.session # Null
    /\ r.pc \in {"write", "title", "done"} => r.kind # "none"
    /\ r.cached => r.pc = "write" /\ r.kind = "answer"
    /\ r.pc = "start" => q = 0
    /\ st.pc \in {"none", "request"} => r.pc = "none" /\ q = 0
    /\ st.end # "none" => r.pc = "none" /\ q = 0 /\ st.pc = "closed"
    /\ st.pc = "none" => o = "none"
    /\ o \in Answered => st.end = o

TurnsAgree == \A t \in Turns : Agree(turn[t], stream[t], queue[t], outcome[t])

\* Once a turn has a row of kind k, its task does not write again, and tells the user
\* that it ended as the row says, or that it failed.
Written(k, r, st, o) ==
    /\ st.pc \notin {"none", "request"} /\ r.pc \notin Unsaved
    /\ r.pc = "title" => r.kind = k
    /\ r.pc = "done" => r.kind \in {k, "failed"}
    /\ st.end \in {"none", k, "error"}
    /\ o \in {"none", k, "error", "withdrawn", "silence"}

RowsAgree ==
    \A s \in Sessions : \A i \in DOMAIN rows[s] :
        LET row == rows[s][i]  u == row.turn
        IN  IF u \in Turns THEN Written(row.kind, turn[u], stream[u], outcome[u])
            ELSE outcome[u] = row.kind

\* A reply that was read or is waited for.
Hoped(t) == open = t \/ outcome[t] \in Answered

HopedInOrder ==
    \A s \in Sessions : \A i, j \in DOMAIN rows[s] :
        /\ rows[s][i].turn = rows[s][j].turn => i = j
        /\ i < j /\ Hoped(rows[s][i].turn) /\ Hoped(rows[s][j].turn)
              => rows[s][i].turn < rows[s][j].turn

ChatInv ==
    /\ TypeOK /\ made \in 0..MaxSessions
    /\ OpenIsLast /\ ShownIsSent /\ TurnsAgree /\ RowsAgree /\ HopedInOrder

-----------------------------------------------------------------------------
(* What the steps make of a task *)

LEMMA NoTaskIs ==
    /\ NoTask \in Task /\ NoTask.pc = "none" /\ NoTask.kind = "none"
    /\ NoTask.session = Null /\ NoTask.cached = FALSE /\ NoTask.base = NoBase
    /\ NoBase \in Base
BY DEF NoTask, NoBase, Task, Base, Pcs, Kinds, TurnKinds

LEMMA TaskGoes ==
    ASSUME NEW r \in Task, NEW pc \in Pcs
    PROVE  LET n == [r EXCEPT !.pc = pc]
           IN  /\ n \in Task /\ n.pc = pc /\ n.kind = r.kind
               /\ n.session = r.session /\ n.cached = r.cached
BY DEF Task

LEMMA TaskWrites ==
    ASSUME NEW r \in Task, NEW pc \in Pcs, NEW kind \in Kinds
    PROVE  LET n == [r EXCEPT !.pc = pc, !.kind = kind]
           IN  /\ n \in Task /\ n.pc = pc /\ n.kind = kind
               /\ n.session = r.session /\ n.cached = r.cached
BY DEF Task

\* A task that has come to its write.
ToWrite(r, kind) == [r EXCEPT !.pc = "write", !.kind = kind]

LEMMA ToWriteIs ==
    ASSUME NEW r \in Task, NEW kind \in Kinds
    PROVE  /\ ToWrite(r, kind) \in Task
           /\ ToWrite(r, kind).pc = "write" /\ ToWrite(r, kind).kind = kind
           /\ ToWrite(r, kind).session = r.session /\ ToWrite(r, kind).cached = r.cached
BY DEF ToWrite, Task, Pcs

LEMMA TaskLoads ==
    ASSUME NEW r \in Task, NEW pc \in Pcs, NEW base \in Base
    PROVE  LET n == [r EXCEPT !.pc = pc, !.base = base]
           IN  /\ n \in Task /\ n.pc = pc /\ n.kind = r.kind
               /\ n.session = r.session /\ n.cached = r.cached
BY DEF Task

LEMMA TaskIsSent ==
    ASSUME NEW r \in Task, NEW s \in Sessions
    PROVE  LET n == [r EXCEPT !.session = s]
           IN  /\ n \in Task /\ n.pc = r.pc /\ n.kind = r.kind
               /\ n.session = s /\ n.cached = r.cached
BY DEF Task

LEMMA StreamGoes ==
    ASSUME NEW st \in Stream, NEW pc \in {"none", "request", "wait", "yielded", "closed"}
    PROVE  LET n == [st EXCEPT !.pc = pc]
           IN  n \in Stream /\ n.pc = pc /\ n.end = st.end
BY DEF Stream

\* One message per turn and kind is enough for every question and reply.
LEMMA MessagesAre ==
    ASSUME NEW t \in Turns
    PROVE  /\ Question(t) \in [turn: Turns, role: {"user", "reply"}] /\ Question(t).turn = t
           /\ Reply(t) \in [turn: Turns, role: {"user", "reply"}] /\ Reply(t).turn = t
BY DEF Question, Reply

LEMMA NoNull == Null \notin Turns /\ Null \notin Sessions /\ Null \notin Before
BY NullAssumption

LEMMA TurnsAre == Turns \subseteq Nat \ {0} /\ Before \subseteq Int /\ Turns \cap Before = {}
BY BoundsAssumption DEF Turns, Before

LEMMA AllTurns ==
    /\ IsFiniteSet(Turns \cup Before)
    /\ Cardinality(Turns \cup Before) = MaxTurns + Cardinality(Before)
<1>1. IsFiniteSet(Turns) /\ Cardinality(Turns) = MaxTurns
  BY FS_Interval, BoundsAssumption DEF Turns
<1>2. IsFiniteSet(Before) /\ Cardinality(Before) \in Nat
  <2>1. IsFiniteSet({-1}) /\ IsFiniteSet({-1} \cup {0})
    BY FS_Singleton, FS_AddElement
  <2>2. Before = {-1} \cup {0}
    BY DEF Before
  <2> QED
    BY <2>1, <2>2, FS_CardinalityType
<1>3. Turns \cap Before = {} /\ Cardinality(Turns \cap Before) = 0
  BY TurnsAre, FS_EmptySet
<1>4. /\ IsFiniteSet(Turns \cup Before)
      /\ Cardinality(Turns \cup Before)
           = Cardinality(Turns) + Cardinality(Before) - Cardinality(Turns \cap Before)
  BY <1>1, <1>2, FS_Union
<1> QED
  BY <1>1, <1>2, <1>3, <1>4, BoundsAssumption

\* A session has no more rows than there are turns, as none has two.
LEMMA FewRows ==
    ASSUME NEW q \in Seq(Row),
           \A i, j \in DOMAIN q : q[i].turn = q[j].turn => i = j
    PROVE  Len(q) <= MaxTurns + Cardinality(Before)
<1> DEFINE f == [i \in 1..Len(q) |-> q[i].turn]
<1>1. Len(q) \in Nat /\ DOMAIN q = 1..Len(q) /\ \A i \in 1..Len(q) : q[i] \in Row
  BY LenProperties, ElementOfSeq
<1>2. f \in [1..Len(q) -> Turns \cup Before]
  BY <1>1 DEF Row
<1>3. f \in Injection(1..Len(q), Turns \cup Before)
  BY <1>1, <1>2, Fun_IsInj
<1>4. Cardinality(1..Len(q)) <= Cardinality(Turns \cup Before)
  BY <1>3, AllTurns, FS_Injection
<1>5. Cardinality(1..Len(q)) = Len(q)
  BY <1>1, FS_Interval
<1> QED
  BY <1>4, <1>5, AllTurns

-----------------------------------------------------------------------------
(* One turn moves on *)

LEMMA Typed ==
    ASSUME TypeOK
    PROVE  /\ turn \in [Turns -> Task] /\ stream \in [Turns -> Stream]
           /\ queue \in [Turns -> 0..MaxEvents] /\ faults \in 0..MaxFaults
           /\ rows \in [Sessions -> Seq(Row)]
BY DEF TypeOK, Task, Stream, Pcs, Kinds, TurnKinds, Base

LEMMA ShownAre ==
    ASSUME TypeOK
    PROVE  /\ Len(shown) \in Nat /\ DOMAIN shown = 1..Len(shown)
           /\ \A i \in DOMAIN shown : shown[i].turn \in Turns
<1> DEFINE Message == [turn: Turns, role: {"user", "reply"}]
<1>1. shown \in Seq(Message)
  BY DEF TypeOK
<1>2. \A m \in Message : m.turn \in Turns
  OBVIOUS
<1> HIDE DEF Message
<1>3. Len(shown) \in Nat /\ DOMAIN shown = 1..Len(shown) /\ \A i \in 1..Len(shown) : shown[i] \in Message
  BY <1>1, LenProperties, ElementOfSeq
<1> QED
  BY <1>2, <1>3

\* The task, the stream and the queue of turn t, and no other's.
OnlyTurn(t) ==
    /\ turn' \in [Turns -> Task] /\ stream' \in [Turns -> Stream]
    /\ queue' \in [Turns -> 0..MaxEvents] /\ faults' \in 0..MaxFaults
    /\ \A u \in Turns \ {t} :
         turn'[u] = turn[u] /\ stream'[u] = stream[u] /\ queue'[u] = queue[u]
    /\ stream[t].pc # "none" /\ stream'[t].pc # "none"
    /\ Agree(turn'[t], stream'[t], queue'[t], outcome[t])
    /\ \A k \in Kinds : Written(k, turn[t], stream[t], outcome[t])
                           => Written(k, turn'[t], stream'[t], outcome[t])
    /\ UNCHANGED <<client, made, kept, outcome>>

LEMMA OneTurn ==
    ASSUME ChatInv, NEW t \in Turns, OnlyTurn(t)
    PROVE  /\ OpenIsLast' /\ ShownIsSent' /\ TurnsAgree'
           /\ rows' \in [Sessions -> Seq(Row)]
                /\ (\A s \in Sessions : Len(rows'[s]) <= MaxTurns + Cardinality(Before))
              => TypeOK' /\ (made \in 0..MaxSessions)'
<1>1. \A u \in Turns : Sent(u)' <=> Sent(u)
  BY DEF OnlyTurn, Sent, StreamAt
<1>2. UNCHANGED <<shown, open, session, creating, made, kept, outcome>>
  BY DEF OnlyTurn, client
<1>3. OpenIsLast'
  BY <1>1, <1>2 DEF ChatInv, OpenIsLast
<1>4. ShownIsSent'
  <2>1. \A i \in DOMAIN shown : shown[i].turn \in Turns
    BY ShownAre DEF ChatInv
  <2> QED
    BY <1>1, <1>2, <2>1 DEF ChatInv, ShownIsSent
<1>5. TurnsAgree'
  BY <1>2 DEF OnlyTurn, ChatInv, TurnsAgree
<1>6. ASSUME rows' \in [Sessions -> Seq(Row)],
             \A s \in Sessions : Len(rows'[s]) <= MaxTurns + Cardinality(Before)
      PROVE  TypeOK' /\ (made \in 0..MaxSessions)'
  BY <1>2, <1>6 DEF OnlyTurn, ChatInv, TypeOK, Task, Stream, Pcs, Kinds, TurnKinds, Base
<1> QED
  BY <1>3, <1>4, <1>5, <1>6

\* Rows are of turns, and of the kinds a task ends with.
LEMMA RowsAre ==
    ASSUME TypeOK, NEW s \in Sessions, NEW i \in DOMAIN rows[s]
    PROVE  /\ rows[s] \in Seq(Row) /\ rows[s][i] \in Row
           /\ rows[s][i].turn \in Turns \cup Before /\ rows[s][i].kind \in Kinds
<1>1. rows[s] \in Seq(Row)
  BY Typed
<1>2. rows[s][i] \in Row
  BY <1>1, LenProperties, ElementOfSeq
<1> QED
  BY <1>1, <1>2 DEF Row, Kinds, TurnKinds

LEMMA KeepsRows ==
    ASSUME ChatInv, NEW t \in Turns, OnlyTurn(t), UNCHANGED rows
    PROVE  ChatInv'
<1>1. TypeOK' /\ (made \in 0..MaxSessions)' /\ OpenIsLast' /\ ShownIsSent' /\ TurnsAgree'
  BY OneTurn, Typed DEF ChatInv, TypeOK
<1>2. UNCHANGED <<open, outcome>>
  BY DEF OnlyTurn, client
<1>3. RowsAgree'
  <2> SUFFICES ASSUME NEW s \in Sessions, NEW i \in DOMAIN rows[s]
               PROVE  LET row == rows[s][i]  u == row.turn
                      IN  IF u \in Turns THEN Written(row.kind, turn'[u], stream'[u], outcome'[u])
                          ELSE outcome'[u] = row.kind
    BY DEF RowsAgree
  <2> DEFINE row == rows[s][i]
             u == row.turn
  <2>1. u \in Turns \cup Before /\ row.kind \in Kinds
    BY RowsAre DEF ChatInv
  <2>2. IF u \in Turns THEN Written(row.kind, turn[u], stream[u], outcome[u])
        ELSE outcome[u] = row.kind
    BY DEF ChatInv, RowsAgree
  <2> HIDE DEF row, u
  <2>3. IF u \in Turns THEN Written(row.kind, turn'[u], stream'[u], outcome'[u])
        ELSE outcome'[u] = row.kind
    BY <1>2, <2>1, <2>2 DEF OnlyTurn
  <2> QED
    BY <2>3 DEF row, u
<1>4. HopedInOrder'
  BY <1>2 DEF ChatInv, HopedInOrder, Hoped
<1> QED
  BY <1>1, <1>3, <1>4 DEF ChatInv

LEMMA AddsRow ==
    ASSUME ChatInv, NEW t \in Turns, OnlyTurn(t), At(t, "write"), rows' = Saved(t),
           Written(turn[t].kind, turn'[t], stream'[t], outcome[t])
    PROVE  ChatInv'
<1> DEFINE home == turn[t].session
           new == [turn |-> t, kind |-> turn[t].kind,
                   context |-> turn[t].kind = "answer" /\ ~turn[t].cached]
<1>1. /\ turn[t] \in Task /\ Agree(turn[t], stream[t], queue[t], outcome[t])
      /\ TypeOK /\ rows \in [Sessions -> Seq(Row)]
  BY Typed DEF ChatInv, TurnsAgree
<1>2. home \in Sessions /\ turn[t].kind \in Kinds \ {"none"}
  BY <1>1 DEF Agree, At, Task, Unsaved
<1>3. new \in Row /\ new.turn = t /\ new.kind = turn[t].kind
  BY <1>2 DEF Row, Kinds, TurnKinds
<1>4. rows' = [rows EXCEPT ![home] = Append(rows[home], new)]
  BY DEF Saved
<1> HIDE DEF new
<1>5. rows' \in [Sessions -> Seq(Row)] /\ \A s \in Sessions \ {home} : rows'[s] = rows[s]
  BY <1>1, <1>2, <1>3, <1>4, AppendProperties
<1>6. /\ rows'[home] = Append(rows[home], new)
      /\ Len(rows[home]) \in Nat /\ Len(rows'[home]) = Len(rows[home]) + 1
      /\ DOMAIN rows[home] = 1..Len(rows[home]) /\ DOMAIN rows'[home] = 1..(Len(rows[home]) + 1)
      /\ \A i \in DOMAIN rows[home] : rows'[home][i] = rows[home][i]
      /\ rows'[home][Len(rows[home]) + 1] = new
  BY <1>1, <1>2, <1>3, <1>4, AppendProperties, LenProperties
<1> DEFINE last == Len(rows[home]) + 1
<1>7. \A s \in Sessions : \A i \in DOMAIN rows'[s] :
        \/ i \in DOMAIN rows[s] /\ rows'[s][i] = rows[s][i]
        \/ s = home /\ i = last /\ rows'[s][i] = new
  <2>1. ASSUME NEW i \in DOMAIN rows'[home]
        PROVE  \/ i \in DOMAIN rows[home] /\ rows'[home][i] = rows[home][i]
               \/ i = last /\ rows'[home][i] = new
    BY <1>6
  <2> QED
    BY <1>5, <2>1
<1>8. UNCHANGED <<open, outcome>>
  BY DEF OnlyTurn, client
\* The turn had no row before.
<1>9. \A s \in Sessions : \A i \in DOMAIN rows[s] : rows[s][i].turn # t
  <2> SUFFICES ASSUME NEW s \in Sessions, NEW i \in DOMAIN rows[s], rows[s][i].turn = t
               PROVE  FALSE
    OBVIOUS
  <2>1. Written(rows[s][i].kind, turn[t], stream[t], outcome[t])
    BY DEF ChatInv, RowsAgree
  <2> QED
    BY <2>1 DEF Written, At, Unsaved
<1>10. RowsAgree'
  <2> SUFFICES ASSUME NEW s \in Sessions, NEW i \in DOMAIN rows'[s]
               PROVE  LET row == rows'[s][i]  u == row.turn
                      IN  IF u \in Turns THEN Written(row.kind, turn'[u], stream'[u], outcome'[u])
                          ELSE outcome'[u] = row.kind
    BY DEF RowsAgree
  <2>1. CASE rows'[s][i] = new
    BY <1>3, <1>8, <2>1
  <2>2. CASE i \in DOMAIN rows[s] /\ rows'[s][i] = rows[s][i]
    <3> DEFINE row == rows[s][i]
               u == row.turn
    <3>1. u \in Turns \cup Before /\ u # t
      BY <1>1, <1>9, <2>2, RowsAre
    <3>2. IF u \in Turns THEN Written(row.kind, turn[u], stream[u], outcome[u])
          ELSE outcome[u] = row.kind
      BY <2>2 DEF ChatInv, RowsAgree
    <3> HIDE DEF row, u
    <3>3. IF u \in Turns THEN Written(row.kind, turn'[u], stream'[u], outcome'[u])
          ELSE outcome'[u] = row.kind
      BY <1>8, <3>1, <3>2 DEF OnlyTurn
    <3> QED
      BY <2>2, <3>3 DEF row, u
  <2> QED
    BY <1>7, <2>1, <2>2
\* If its reply is still hoped for, it is the last turn that was sent.
<1>11. ASSUME NEW u \in Turns \cup Before, Hoped(u), Hoped(t), u # t,
              u \in Turns => Sent(u)
       PROVE  u < t
  <2>1. open = t
    <3>1. outcome[t] \notin Answered
      <4>1. outcome[t] \in Answered => stream[t].end = outcome[t]
        BY <1>1 DEF Agree
      <4>2. stream[t].end # "none" => turn[t].pc = "none"
        BY <1>1 DEF Agree
      <4> QED
        BY <4>1, <4>2 DEF At, Answered
    <3> QED
      BY <1>11, <3>1 DEF Hoped
  <2>2. CASE u \in Turns
    BY <1>11, <2>1, <2>2, TurnsAre DEF ChatInv, OpenIsLast
  <2>3. CASE u \in Before
    BY <2>3, BoundsAssumption DEF Turns, Before
  <2> QED
    BY <2>2, <2>3
<1>12. HopedInOrder'
  <2> SUFFICES ASSUME NEW s \in Sessions, NEW i \in DOMAIN rows'[s], NEW j \in DOMAIN rows'[s]
               PROVE  /\ rows'[s][i].turn = rows'[s][j].turn => i = j
                      /\ i < j /\ Hoped(rows'[s][i].turn) /\ Hoped(rows'[s][j].turn)
                           => rows'[s][i].turn < rows'[s][j].turn
    BY <1>8 DEF HopedInOrder, Hoped
  <2> DEFINE u == rows'[s][i].turn
             v == rows'[s][j].turn
  <2>1. /\ i \in DOMAIN rows[s] => rows[s][i].turn \in Turns \cup Before /\ rows[s][i].turn # t
        /\ j \in DOMAIN rows[s] => rows[s][j].turn \in Turns \cup Before /\ rows[s][j].turn # t
    BY <1>1, <1>9, RowsAre
  <2>2. i \in DOMAIN rows[s] /\ rows[s][i].turn \in Turns => Sent(rows[s][i].turn)
    BY DEF ChatInv, RowsAgree, Written, Sent, StreamAt
  <2>3. CASE i \in DOMAIN rows[s] /\ j \in DOMAIN rows[s]
             /\ rows'[s][i] = rows[s][i] /\ rows'[s][j] = rows[s][j]
    BY <2>3 DEF ChatInv, HopedInOrder
  <2>4. CASE i \in DOMAIN rows[s] /\ rows'[s][i] = rows[s][i] /\ s = home /\ j = last /\ rows'[s][j] = new
    BY <1>3, <1>11, <2>1, <2>2, <2>4
  <2>5. CASE j \in DOMAIN rows[s] /\ rows'[s][j] = rows[s][j] /\ s = home /\ i = last /\ rows'[s][i] = new
    <3>1. ~(i < j)
      BY <1>6, <2>5
    <3> QED
      BY <1>3, <2>1, <2>5, <3>1
  <2>6. CASE s = home /\ i = last /\ j = last
    <3>1. ~(i < j)
      BY <1>6, <2>6
    <3> QED
      BY <2>6, <3>1
  <2> QED
    BY <1>7, <2>3, <2>4, <2>5, <2>6
<1>13. TypeOK' /\ (made \in 0..MaxSessions)' /\ OpenIsLast' /\ ShownIsSent' /\ TurnsAgree'
  <2>1. ASSUME NEW s \in Sessions PROVE Len(rows'[s]) <= MaxTurns + Cardinality(Before)
    BY <1>5, <1>12, FewRows DEF HopedInOrder
  <2> QED
    BY <1>5, <2>1, OneTurn
<1> QED
  BY <1>10, <1>12, <1>13 DEF ChatInv

-----------------------------------------------------------------------------
(* The browser *)

Message == [turn: Turns, role: {"user", "reply"}]

\* What stays as it is when the messages, the turn that waits and the outcomes change.
LEMMA ClientOnly ==
    ASSUME ChatInv, UNCHANGED <<session, made, kept, turn, stream, queue, rows>>,
           shown' \in Seq(Message), Len(shown') <= 2 * MaxTurns, open' \in Turns \cup {Null},
           creating' \in 0..MaxSessions, made + creating' \in 0..MaxSessions,
           outcome' \in [Turns \cup Before -> Outcomes],
           faults' \in 0..MaxFaults
    PROVE  TypeOK' /\ (made \in 0..MaxSessions)'
BY DEF ChatInv, TypeOK, Message

\* The fate of the turn that waits is decided.
LEMMA Settles ==
    ASSUME ChatInv, NEW t \in Turns, open = t, open' = Null,
           NEW o \in Outcomes \ {"none"},
           outcome' = [outcome EXCEPT ![t] = o],
           o \in Answered => stream[t].end = o,
           UNCHANGED <<session, made, kept, turn, stream, queue, rows>>,
           creating' \in 0..MaxSessions, made + creating' \in 0..MaxSessions,
           faults' \in 0..MaxFaults,
           shown' \in Seq(Message), Len(shown') <= Len(shown) + 1,
           \A i \in DOMAIN shown' : Sent(shown'[i].turn)
    PROVE  ChatInv'
<1>1. /\ Sent(t) /\ outcome[t] = "none" /\ Null \notin Turns
      /\ \A u \in Turns : Sent(u) /\ outcome[u] = "none" => u = t
  BY NoNull DEF ChatInv, OpenIsLast
<1>2. /\ outcome \in [Turns \cup Before -> Outcomes]
      /\ outcome'[t] = o /\ \A u \in (Turns \cup Before) \ {t} : outcome'[u] = outcome[u]
      /\ outcome' \in [Turns \cup Before -> Outcomes]
  BY DEF ChatInv, TypeOK
<1>3. \A u \in Turns : Sent(u)' <=> Sent(u)
  BY DEF Sent, StreamAt
<1>4. Len(shown') \in Nat /\ DOMAIN shown' = 1..Len(shown')
      /\ \A i \in DOMAIN shown' : shown'[i].turn \in Turns
  <2>1. /\ Len(shown') \in Nat /\ DOMAIN shown' = 1..Len(shown')
        /\ \A i \in 1..Len(shown') : shown'[i] \in Message
    BY LenProperties, ElementOfSeq
  <2> QED
    BY <2>1 DEF Message
<1>5. OpenIsLast'
  BY <1>1, <1>2, <1>3 DEF ChatInv, OpenIsLast
<1>6. ShownIsSent'
  <2>1. \A i \in DOMAIN shown' : stream'[shown'[i].turn].pc # "none"
    BY DEF Sent, StreamAt
  <2>2. ASSUME NEW k \in 0..MaxTurns, \A u \in Turns : Sent(u) => u <= k
        PROVE  Len(shown') <= 2 * k
    <3>1. Len(shown) + 1 <= 2 * k
      BY <1>1, <2>2 DEF ChatInv, ShownIsSent
    <3>2. Len(shown) \in Nat
      BY ShownAre DEF ChatInv
    <3> QED
      BY <1>4, <2>2, <3>1, <3>2
  <2>3. \A k \in 0..MaxTurns : (\A u \in Turns : Sent(u)' => u <= k) =>
           Len(shown') + (IF open' = Null THEN 0 ELSE 1) <= 2 * k
    BY <1>3, <1>4, <2>2
  <2> QED
    BY <2>1, <2>3 DEF ShownIsSent, Sent, StreamAt
<1>7. TypeOK' /\ (made \in 0..MaxSessions)'
  <2>1. Len(shown') <= 2 * MaxTurns
    <3>1. MaxTurns \in 0..MaxTurns /\ \A u \in Turns : u <= MaxTurns
      BY BoundsAssumption DEF Turns
    <3>2. Len(shown) + 1 <= 2 * MaxTurns /\ Len(shown) \in Nat
      BY <1>1, <3>1, ShownAre DEF ChatInv, ShownIsSent
    <3> QED
      BY <1>4, <3>2, BoundsAssumption
  <2> QED
    BY <1>2, <2>1, ClientOnly
<1>8. TurnsAgree'
  <2>1. ASSUME NEW u \in Turns PROVE Agree(turn[u], stream[u], queue[u], outcome'[u])
    <3>1. Agree(turn[u], stream[u], queue[u], outcome[u])
      BY DEF ChatInv, TurnsAgree
    <3>2. CASE u # t
      BY <1>2, <3>1, <3>2
    <3>3. CASE u = t
      BY <1>1, <1>2, <3>1, <3>3 DEF Agree, Sent, StreamAt
    <3> QED
      BY <3>2, <3>3
  <2> QED
    BY <2>1 DEF TurnsAgree
<1>9. RowsAgree'
  <2> SUFFICES ASSUME NEW s \in Sessions, NEW i \in DOMAIN rows[s]
               PROVE  LET row == rows[s][i]  u == row.turn
                      IN  IF u \in Turns THEN Written(row.kind, turn[u], stream[u], outcome'[u])
                          ELSE outcome'[u] = row.kind
    BY DEF RowsAgree
  <2> DEFINE row == rows[s][i]
             u == row.turn
  <2>1. u \in Turns \cup Before /\ row.kind \in Kinds
    BY RowsAre DEF ChatInv
  <2>2. IF u \in Turns THEN Written(row.kind, turn[u], stream[u], outcome[u])
        ELSE outcome[u] = row.kind
    BY DEF ChatInv, RowsAgree
  <2>3. o \in Outcomes \ {"none"}
    OBVIOUS
  <2> HIDE DEF row, u
  <2>4. IF u \in Turns THEN Written(row.kind, turn[u], stream[u], outcome'[u])
        ELSE outcome'[u] = row.kind
    <3>1. CASE u # t
      BY <1>2, <2>1, <2>2, <3>1
    <3>2. CASE u = t
      BY <1>2, <2>2, <2>3, <3>2 DEF Written, Outcomes, Answered
    <3> QED
      BY <3>1, <3>2
  <2> QED
    BY <2>4 DEF row, u
<1>10. HopedInOrder'
  <2>1. \A u \in Turns \cup Before : Hoped(u)' => Hoped(u)
    <3>1. \A u \in Turns \cup Before : u # Null
      BY NoNull
    <3> QED
      BY <1>2, <3>1 DEF Hoped
  <2>2. \A s \in Sessions : \A i \in DOMAIN rows[s] : rows[s][i].turn \in Turns \cup Before
    BY RowsAre DEF ChatInv
  <2> QED
    BY <2>1, <2>2 DEF ChatInv, HopedInOrder
<1> QED
  BY <1>5, <1>6, <1>7, <1>8, <1>9, <1>10 DEF ChatInv

\* The messages without the question that is withdrawn.
LEMMA WithdrawnIs ==
    ASSUME TypeOK, Len(shown) > 0
    PROVE  /\ Withdrawn = SubSeq(shown, 1, Len(shown) - 1)
           /\ Withdrawn \in Seq(Message) /\ Len(Withdrawn) = Len(shown) - 1
           /\ \A i \in DOMAIN Withdrawn : i \in DOMAIN shown /\ Withdrawn[i] = shown[i]
<1>1. shown \in Seq(Message) /\ Len(shown) \in Nat /\ DOMAIN shown = 1..Len(shown)
  BY ShownAre DEF TypeOK, Message
<1>2. Withdrawn = SubSeq(shown, 1, Len(shown) - 1)
  BY <1>1 DEF Withdrawn
<1>3. /\ SubSeq(shown, 1, Len(shown) - 1) \in Seq(Message)
      /\ Len(SubSeq(shown, 1, Len(shown) - 1)) = Len(shown) - 1
      /\ \A i \in 1..(Len(shown) - 1) : SubSeq(shown, 1, Len(shown) - 1)[i] = shown[i]
      /\ DOMAIN SubSeq(shown, 1, Len(shown) - 1) = 1..(Len(shown) - 1)
  BY <1>1, SubSeqProperties, LenProperties
<1>4. \A i \in 1..(Len(shown) - 1) : i \in DOMAIN shown
  BY <1>1
<1> QED
  BY <1>2, <1>3, <1>4

\* A message is added at the end.
LEMMA MessageAdded ==
    ASSUME TypeOK, NEW m \in Message
    PROVE  /\ Append(shown, m) \in Seq(Message) /\ Len(Append(shown, m)) = Len(shown) + 1
           /\ \A i \in DOMAIN Append(shown, m) :
                \/ i \in DOMAIN shown /\ Append(shown, m)[i] = shown[i]
                \/ Append(shown, m)[i] = m
<1>1. shown \in Seq(Message) /\ Len(shown) \in Nat /\ DOMAIN shown = 1..Len(shown)
  BY ShownAre DEF TypeOK, Message
<1>2. /\ Append(shown, m) \in Seq(Message) /\ Len(Append(shown, m)) = Len(shown) + 1
      /\ \A i \in 1..Len(shown) : Append(shown, m)[i] = shown[i]
      /\ Append(shown, m)[Len(shown) + 1] = m
      /\ DOMAIN Append(shown, m) = 1..(Len(shown) + 1)
  BY <1>1, AppendProperties, LenProperties
<1> QED
  BY <1>1, <1>2

LEMMA ReplyShown ==
    ASSUME ChatInv, NEW t \in Turns, open = t
    PROVE  /\ Append(shown, Reply(t)) \in Seq(Message)
           /\ Len(Append(shown, Reply(t))) = Len(shown) + 1
           /\ \A i \in DOMAIN Append(shown, Reply(t)) : Sent(Append(shown, Reply(t))[i].turn)
<1>1. TypeOK /\ Sent(t) /\ \A i \in DOMAIN shown : Sent(shown[i].turn)
  BY DEF ChatInv, OpenIsLast, ShownIsSent
<1>2. Reply(t) \in Message /\ Reply(t).turn = t
  BY MessagesAre DEF Message
<1> HIDE DEF Message
<1> QED
  BY <1>1, <1>2, MessageAdded

LEMMA SessionsCount ==
    ASSUME ChatInv
    PROVE  creating \in 0..MaxSessions /\ made + creating \in 0..MaxSessions /\ made \in 0..MaxSessions
           /\ faults \in 0..MaxFaults /\ MaxFaults \in Nat /\ MaxSessions \in Nat
BY BoundsAssumption DEF ChatInv, TypeOK

LEMMA ReadChat == ASSUME ChatInv, NEW t \in Turns, Read(t) PROVE ChatInv'
<1>1. /\ open = t /\ open' = Null /\ stream[t].end # "none"
      /\ UNCHANGED <<session, creating, made, kept, turn, stream, queue, rows, faults>>
  BY DEF Read
<1>2. creating' \in 0..MaxSessions /\ made + creating' \in 0..MaxSessions /\ faults' \in 0..MaxFaults
  BY <1>1, SessionsCount
<1>3. Len(shown) \in Nat /\ TypeOK /\ \A i \in DOMAIN shown : Sent(shown[i].turn)
  BY ShownAre DEF ChatInv, ShownIsSent
<1>4. CASE shown' = Append(shown, Reply(t)) /\ outcome' = [outcome EXCEPT ![t] = stream[t].end]
  <2> DEFINE o == stream[t].end
  <2>1. o \in Outcomes \ {"none"}
    BY <1>1, Typed DEF ChatInv, Stream, Outcomes
  <2>2. outcome' = [outcome EXCEPT ![t] = o] /\ stream[t].end = o
    BY <1>4
  <2> HIDE DEF o
  <2>3. /\ shown' \in Seq(Message) /\ Len(shown') <= Len(shown) + 1
        /\ \A i \in DOMAIN shown' : Sent(shown'[i].turn)
    BY <1>1, <1>3, <1>4, ReplyShown
  <2> QED
    BY <1>1, <1>2, <2>1, <2>2, <2>3, Settles
\* Nothing is shown of a result that cannot be read.
<1>5. CASE UNCHANGED shown /\ outcome' = [outcome EXCEPT ![t] = "silence"]
  <2>1. "silence" \in Outcomes \ {"none"} /\ "silence" \notin Answered
    BY DEF Outcomes, Answered
  <2>2. shown \in Seq(Message)
    BY <1>3 DEF TypeOK, Message
  <2>3. shown' \in Seq(Message) /\ Len(shown') <= Len(shown) + 1
        /\ \A i \in DOMAIN shown' : Sent(shown'[i].turn)
    BY <1>3, <1>5, <2>2
  <2> QED
    BY <1>1, <1>2, <1>5, <2>1, <2>3, Settles
<1> QED
  BY <1>4, <1>5 DEF Read

LEMMA BreakChat == ASSUME ChatInv, NEW t \in Turns, Break(t) PROVE ChatInv'
<1>1. /\ open = t /\ open' = Null /\ shown' = Append(shown, Reply(t))
      /\ outcome' = [outcome EXCEPT ![t] = "error"] /\ faults < MaxFaults /\ faults' = faults + 1
      /\ UNCHANGED <<session, creating, made, kept, turn, stream, queue, rows>>
  BY DEF Break, Fault
<1>2. faults' \in 0..MaxFaults
  BY <1>1, SessionsCount
<1>4. /\ shown' \in Seq(Message) /\ Len(shown') <= Len(shown) + 1
      /\ \A i \in DOMAIN shown' : Sent(shown'[i].turn)
  <2>1. Len(shown) \in Nat
    BY ShownAre DEF ChatInv
  <2> QED
    BY <1>1, <2>1, ReplyShown
<1>5. creating' \in 0..MaxSessions /\ made + creating' \in 0..MaxSessions /\ faults' \in 0..MaxFaults
  BY <1>1, <1>2, SessionsCount
<1> QED
  BY <1>1, <1>4, <1>5, Settles DEF Outcomes, Answered

LEMMA CancelChat == ASSUME ChatInv, Cancel PROVE ChatInv'
<1>1. /\ open # Null /\ open' = Null /\ shown' = Withdrawn
      /\ outcome' = [outcome EXCEPT ![open] = "withdrawn"]
      /\ UNCHANGED <<session, creating, made, kept, turn, stream, queue, rows, faults>>
  BY DEF Cancel
<1>2. open \in Turns /\ TypeOK /\ Len(shown) > 0 /\ \A i \in DOMAIN shown : Sent(shown[i].turn)
  BY <1>1 DEF ChatInv, TypeOK, ShownIsSent
<1>3. /\ shown' \in Seq(Message) /\ Len(shown') <= Len(shown) + 1
      /\ \A i \in DOMAIN shown' : Sent(shown'[i].turn)
  BY <1>1, <1>2, WithdrawnIs, ShownAre
<1> QED
  BY <1>1, <1>2, <1>3, SessionsCount, Settles DEF Outcomes, Answered

LEMMA ResetChat == ASSUME ChatInv, Reset PROVE ChatInv'
<1>1. /\ made + creating < MaxSessions /\ open' = Null /\ shown' = <<>> /\ creating' = creating + 1
      /\ outcome' = IF open = Null THEN outcome ELSE [outcome EXCEPT ![open] = "withdrawn"]
      /\ UNCHANGED <<session, made, kept, turn, stream, queue, rows, faults>>
  BY DEF Reset, Abandoned
<1>2. /\ creating' \in 0..MaxSessions /\ made + creating' \in 0..MaxSessions /\ faults' \in 0..MaxFaults
      /\ made \in 0..MaxSessions
  BY <1>1, SessionsCount
<1>3. /\ shown' \in Seq(Message) /\ Len(shown') = 0 /\ DOMAIN shown' = {}
      /\ Len(shown) \in Nat
  BY <1>1, EmptySeq, LenProperties, ShownAre DEF ChatInv
<1>4. CASE open # Null
  <2>1. open \in Turns /\ outcome' = [outcome EXCEPT ![open] = "withdrawn"]
    BY <1>1, <1>4 DEF ChatInv, TypeOK
  <2>2. Len(shown') <= Len(shown) + 1 /\ \A i \in DOMAIN shown' : Sent(shown'[i].turn)
    BY <1>3
  <2> QED
    BY <1>1, <1>2, <1>3, <2>1, <2>2, Settles DEF Outcomes, Answered
<1>5. CASE open = Null
  <2>1. UNCHANGED <<open, session, made, kept, turn, stream, queue, rows, faults, outcome>>
    BY <1>1, <1>5
  <2>2. TypeOK' /\ (made \in 0..MaxSessions)'
    <3>1. Len(shown') <= 2 * MaxTurns
      BY <1>3, BoundsAssumption
    <3> QED
      BY <1>1, <1>2, <1>3, <2>1, <3>1, ClientOnly DEF ChatInv, TypeOK
  <2>3. OpenIsLast' /\ TurnsAgree'
    BY <2>1 DEF ChatInv, OpenIsLast, TurnsAgree, Sent, StreamAt
  <2>4. ShownIsSent'
    BY <1>1, <1>3 DEF ShownIsSent
  <2>5. RowsAgree' /\ HopedInOrder'
    BY <2>1 DEF ChatInv, RowsAgree, HopedInOrder, Hoped
  <2> QED
    BY <2>2, <2>3, <2>4, <2>5 DEF ChatInv
<1> QED
  BY <1>4, <1>5

LEMMA CreatesSession == ASSUME ChatInv, SessionCreated PROVE ChatInv'
<1>1. /\ creating > 0 /\ creating' = creating - 1
      /\ UNCHANGED <<shown, open, turn, stream, queue, rows, outcome>>
      /\ \/ made' = made + 1 /\ session' = made + 1 /\ kept' = kept \cup {made + 1} /\ UNCHANGED faults
         \/ faults < MaxFaults /\ faults' = faults + 1 /\ UNCHANGED <<made, session, kept>>
  BY DEF SessionCreated, Fault
<1>2. kept \subseteq 1..made /\ session \in Sessions \cup {Null}
  BY DEF ChatInv, TypeOK
<1>3. /\ creating' \in 0..MaxSessions /\ made' + creating' \in 0..MaxSessions
      /\ faults' \in 0..MaxFaults /\ made' \in 0..MaxSessions
  BY <1>1, SessionsCount
<1>4. kept' \subseteq 1..made' /\ session' \in Sessions \cup {Null}
  <2>1. CASE made' = made + 1 /\ session' = made + 1 /\ kept' = kept \cup {made + 1}
    <3>1. made + 1 \in Sessions /\ 1..made \subseteq 1..(made + 1) /\ made + 1 \in 1..(made + 1)
      BY <1>1, <1>3, <2>1, SessionsCount DEF Sessions
    <3> QED
      BY <1>2, <2>1, <3>1
  <2>2. CASE UNCHANGED <<made, session, kept>>
    BY <1>2, <2>2
  <2> QED
    BY <1>1, <2>1, <2>2
<1>5. TypeOK'
  BY <1>1, <1>3, <1>4 DEF ChatInv, TypeOK
<1>6. OpenIsLast' /\ ShownIsSent' /\ TurnsAgree'
  BY <1>1 DEF ChatInv, OpenIsLast, ShownIsSent, TurnsAgree, Sent, StreamAt
<1>7. RowsAgree' /\ HopedInOrder'
  BY <1>1 DEF ChatInv, RowsAgree, HopedInOrder, Hoped
<1> QED
  BY <1>3, <1>5, <1>6, <1>7 DEF ChatInv

LEMMA DeletesSession == ASSUME ChatInv, NEW s \in Sessions, Delete(s) PROVE ChatInv'
<1>1. /\ s \in kept /\ faults < MaxFaults /\ faults' = faults + 1
      /\ kept' = kept \ {s} /\ rows' = [rows EXCEPT ![s] = <<>>]
      /\ UNCHANGED <<shown, open, session, creating, made, turn, stream, queue, outcome>>
  BY DEF Delete, Fault, client
<1>2. /\ rows \in [Sessions -> Seq(Row)] /\ <<>> \in Seq(Row) /\ Len(<<>>) = 0
      /\ DOMAIN <<>> = {}
  BY Typed, EmptySeq, LenProperties DEF ChatInv
<1>3. /\ rows' \in [Sessions -> Seq(Row)] /\ rows'[s] = <<>>
      /\ \A u \in Sessions \ {s} : rows'[u] = rows[u]
  BY <1>1, <1>2
<1>4. TypeOK' /\ (made \in 0..MaxSessions)'
  <2>1. faults' \in 0..MaxFaults /\ kept' \subseteq 1..made
    <3>1. faults' \in 0..MaxFaults
      BY <1>1, SessionsCount
    <3>2. kept \subseteq 1..made
      BY DEF ChatInv, TypeOK
    <3> QED
      BY <1>1, <3>1, <3>2
  <2>2. \A u \in Sessions : Len(rows'[u]) <= MaxTurns + Cardinality(Before)
    <3>1. 0 <= MaxTurns + Cardinality(Before)
      <4>1. MaxTurns + Cardinality(Before) \in Nat
        BY AllTurns, FS_CardinalityType
      <4> QED
        BY <4>1
    <3> QED
      BY <1>2, <1>3, <3>1 DEF ChatInv, TypeOK
  <2> QED
    BY <1>1, <1>3, <2>1, <2>2 DEF ChatInv, TypeOK
<1>5. OpenIsLast' /\ ShownIsSent' /\ TurnsAgree'
  BY <1>1 DEF ChatInv, OpenIsLast, ShownIsSent, TurnsAgree, Sent, StreamAt
<1>6. \A u \in Sessions : \A i \in DOMAIN rows'[u] : i \in DOMAIN rows[u] /\ rows'[u] = rows[u]
  BY <1>2, <1>3
<1>7. RowsAgree'
  BY <1>1, <1>6 DEF ChatInv, RowsAgree
<1>8. HopedInOrder'
  BY <1>1, <1>6 DEF ChatInv, HopedInOrder, Hoped
<1> QED
  BY <1>4, <1>5, <1>7, <1>8 DEF ChatInv

LEMMA InitChat == ASSUME Init PROVE ChatInv
<1>1. /\ shown = <<>> /\ open = Null /\ kept = 1..made /\ faults = 0
      /\ turn = [t \in Turns |-> NoTask] /\ stream = [t \in Turns |-> [pc |-> "none", end |-> "none"]]
      /\ queue = [t \in Turns |-> 0]
      /\ outcome = [t \in Turns \cup Before |->
                      CASE t = -1 -> "answer" [] t = 0 -> "clarification" [] OTHER -> "none"]
      /\ \/ /\ session = 1 /\ creating = 0 /\ made = 1
            /\ rows = [s \in Sessions |-> IF s = 1 THEN OldRows ELSE <<>>]
         \/ /\ session = Null /\ creating = 1 /\ made = 0
            /\ rows = [s \in Sessions |-> <<>>]
  BY DEF Init
<1>2. /\ OldRows \in Seq(Row) /\ Len(OldRows) = 2 /\ DOMAIN OldRows = 1..2
      /\ OldRows[1].turn = -1 /\ OldRows[1].kind = "answer"
      /\ OldRows[2].turn = 0 /\ OldRows[2].kind = "clarification"
  BY DEF OldRows, Row, Before, TurnKinds
<1>3. <<>> \in Seq(Row) /\ Len(<<>>) = 0 /\ DOMAIN <<>> = {} /\ <<>> \in Seq(Message)
  BY EmptySeq, LenProperties
<1>4. 1 \in 0..MaxSessions /\ 0 \in 0..MaxSessions /\ 1 \in Sessions /\ 0 \in 0..MaxEvents
      /\ 0 \in 0..MaxFaults
  BY BoundsAssumption DEF Sessions
<1>5. \A t \in Turns : outcome[t] = "none" /\ turn[t] = NoTask /\ queue[t] = 0
                        /\ stream[t].pc = "none" /\ stream[t].end = "none"
  BY <1>1, TurnsAre, BoundsAssumption DEF Turns
<1>6. outcome[-1] = "answer" /\ outcome[0] = "clarification" /\ -1 \notin Turns /\ 0 \notin Turns
      /\ outcome \in [Turns \cup Before -> Outcomes]
  BY <1>1, BoundsAssumption DEF Turns, Before, Outcomes
<1>7. Cardinality(Before) = 2
  <2>1. IsFiniteSet({-1}) /\ Cardinality({-1}) = 1
    BY FS_Singleton
  <2>2. Cardinality({-1} \cup {0}) = 2
    <3>1. Cardinality({-1} \cup {0}) = IF 0 \in {-1} THEN Cardinality({-1}) ELSE Cardinality({-1}) + 1
      BY <2>1, FS_AddElement
    <3>2. 0 \notin {-1}
      OBVIOUS
    <3> QED
      BY <2>1, <3>1, <3>2
  <2>3. Before = {-1} \cup {0}
    BY DEF Before
  <2> QED
    BY <2>2, <2>3
<1>8. /\ rows \in [Sessions -> Seq(Row)]
      /\ \A s \in Sessions : rows[s] = <<>> \/ rows[s] = OldRows
  BY <1>1, <1>2, <1>3
<1>9. turn \in [Turns -> Task] /\ stream \in [Turns -> Stream] /\ queue \in [Turns -> 0..MaxEvents]
  BY <1>1, <1>4, NoTaskIs DEF Stream
<1>10. TypeOK /\ made \in 0..MaxSessions
  <2>1. ASSUME NEW s \in Sessions PROVE Len(rows[s]) <= MaxTurns + Cardinality(Before)
    <3>1. Len(rows[s]) = 0 \/ Len(rows[s]) = 2
      BY <1>2, <1>3, <1>8
    <3> DEFINE n == Len(rows[s])
    <3> HIDE DEF n
    <3>2. n = 0 \/ n = 2 => n <= MaxTurns + 2
      BY BoundsAssumption
    <3>3. n <= MaxTurns + 2
      BY <3>1, <3>2 DEF n
    <3> QED
      BY <1>7, <3>3 DEF n
  <2>2. shown \in Seq(Message) /\ Len(shown) <= 2 * MaxTurns
    BY <1>1, <1>3, BoundsAssumption
  <2>3. made + creating \in 0..MaxSessions
    BY <1>1, <1>4
  <2> QED
    BY <1>1, <1>4, <1>6, <1>8, <1>9, <2>1, <2>2, <2>3 DEF TypeOK, Message, Task, Stream, Pcs, Kinds, TurnKinds, Base
<1>11. OpenIsLast /\ ShownIsSent
  BY <1>1, <1>3, <1>5, NoNull DEF OpenIsLast, ShownIsSent, Sent, StreamAt
<1>12. TurnsAgree
  BY <1>5, NoTaskIs DEF TurnsAgree, Agree, Unsaved
<1>13. RowsAgree
  <2>1. ASSUME NEW s \in Sessions, rows[s] = OldRows, NEW i \in DOMAIN rows[s]
        PROVE  rows[s][i].turn \notin Turns /\ outcome[rows[s][i].turn] = rows[s][i].kind
    <3>1. i = 1 \/ i = 2
      BY <1>2, <2>1
    <3> QED
      BY <1>2, <1>6, <2>1, <3>1
  <2>2. \A s \in Sessions : rows[s] = <<>> => DOMAIN rows[s] = {}
    BY <1>3
  <2> QED
    BY <1>8, <2>1, <2>2 DEF RowsAgree
<1>14. HopedInOrder
  <2>1. ASSUME NEW s \in Sessions, rows[s] = OldRows, NEW i \in DOMAIN rows[s], NEW j \in DOMAIN rows[s]
        PROVE  /\ rows[s][i].turn = rows[s][j].turn => i = j
               /\ i < j => rows[s][i].turn < rows[s][j].turn
    <3>1. (i = 1 \/ i = 2) /\ (j = 1 \/ j = 2)
      BY <1>2, <2>1
    <3> QED
      BY <1>2, <2>1, <3>1
  <2>2. \A s \in Sessions : rows[s] = <<>> => DOMAIN rows[s] = {}
    BY <1>3
  <2> QED
    BY <1>8, <2>1, <2>2 DEF HopedInOrder
<1> QED
  BY <1>10, <1>11, <1>12, <1>13, <1>14 DEF ChatInv

LEMMA SendChat == ASSUME ChatInv, NEW t \in Turns, Send(t) PROVE ChatInv'
<1>1. /\ stream[t].pc = "none" /\ (\A u \in 1..(t - 1) : stream[u].pc # "none")
      /\ open = Null /\ session # Null /\ open' = t
      /\ shown' = Append(shown, Question(t))
      /\ stream' = [stream EXCEPT ![t].pc = "request"]
      /\ turn' = [turn EXCEPT ![t].session = session]
      /\ UNCHANGED <<session, creating, made, kept, queue, rows, outcome, faults>>
  BY DEF Send, StreamAt
<1>2. /\ turn \in [Turns -> Task] /\ stream \in [Turns -> Stream] /\ session \in Sessions
      /\ TypeOK /\ t # Null
  BY <1>1, Typed, NoNull DEF ChatInv, TypeOK
<1> DEFINE r == [turn[t] EXCEPT !.session = session]
           st == [stream[t] EXCEPT !.pc = "request"]
<1>3. /\ r \in Task /\ r.pc = turn[t].pc /\ r.session = session /\ r.kind = turn[t].kind
      /\ r.cached = turn[t].cached
  BY <1>2, TaskIsSent
<1>4. st \in Stream /\ st.pc = "request" /\ st.end = stream[t].end
  BY <1>2, StreamGoes
<1>5. turn' = [turn EXCEPT ![t] = r] /\ stream' = [stream EXCEPT ![t] = st]
  BY <1>1, <1>2
<1> HIDE DEF r, st
<1>6. /\ turn' \in [Turns -> Task] /\ turn'[t] = r /\ \A u \in Turns \ {t} : turn'[u] = turn[u]
      /\ stream' \in [Turns -> Stream] /\ stream'[t] = st
      /\ \A u \in Turns \ {t} : stream'[u] = stream[u]
  BY <1>2, <1>3, <1>4, <1>5
<1>7. \A u \in Turns : Sent(u)' <=> Sent(u) \/ u = t
  BY <1>4, <1>6 DEF Sent, StreamAt
<1>8. \A u \in Turns : Sent(u) <=> u < t
  <2>1. \A u \in Turns : u < t => u \in 1..(t - 1)
    BY BoundsAssumption DEF Turns
  <2>2. \A u \in Turns : t < u => ~Sent(u)
    BY <1>1 DEF ChatInv, OpenIsLast, Sent, StreamAt
  <2>3. \A u \in Turns : u < t => Sent(u)
    BY <1>1, <2>1 DEF Sent, StreamAt
  <2>4. ~Sent(t)
    BY <1>1 DEF Sent, StreamAt
  <2> QED
    BY <2>2, <2>3, <2>4, TurnsAre
<1>9. outcome[t] = "none" /\ Agree(turn[t], stream[t], queue[t], outcome[t])
  BY <1>1 DEF ChatInv, TurnsAgree, Agree
<1>10. OpenIsLast'
  <2>1. \A u \in Turns : Sent(u)' <=> u <= t
    BY <1>7, <1>8, TurnsAre
  <2>2. \A u, v \in Turns : v < u /\ Sent(u)' => Sent(v)'
    BY <2>1, TurnsAre
  <2>3. \A u \in Turns : open' = u => Sent(u)' /\ outcome'[u] = "none"
                                        /\ \A v \in Turns : Sent(v)' => v <= u
    BY <1>1, <1>9, <2>1, TurnsAre
  <2>4. ASSUME NEW u \in Turns, Sent(u)', outcome'[u] = "none" PROVE open' = u
    BY <1>1, <1>2, <1>7, <2>4, NoNull DEF ChatInv, OpenIsLast
  <2> QED
    BY <2>2, <2>3, <2>4 DEF OpenIsLast
<1>11. /\ shown' \in Seq(Message) /\ Len(shown') = Len(shown) + 1 /\ Len(shown) \in Nat
       /\ \A i \in DOMAIN shown' : \/ i \in DOMAIN shown /\ shown'[i] = shown[i]
                                   \/ shown'[i].turn = t
  <2>1. Question(t) \in Message /\ Question(t).turn = t
    BY MessagesAre DEF Message
  <2> HIDE DEF Message
  <2> QED
    BY <1>1, <1>2, <2>1, MessageAdded, ShownAre
<1>12. ShownIsSent'
  <2>1. \A i \in DOMAIN shown' : stream'[shown'[i].turn].pc # "none"
    <3>1. \A i \in DOMAIN shown : shown[i].turn \in Turns /\ Sent(shown[i].turn)
      BY ShownAre DEF ChatInv, ShownIsSent
    <3>2. \A u \in Turns : Sent(u) \/ u = t => stream'[u].pc # "none"
      BY <1>4, <1>6 DEF Sent, StreamAt
    <3> QED
      BY <1>11, <3>1, <3>2
  <2>2. ASSUME NEW k \in 0..MaxTurns, \A u \in Turns : Sent(u)' => u <= k
        PROVE  Len(shown') + 1 <= 2 * k
    <3>1. t <= k /\ k - 1 \in 0..MaxTurns
      <4>1. t <= k
        BY <1>7, <2>2
      <4>2. t \in Nat \ {0}
        BY TurnsAre
      <4> QED
        BY <4>1, <4>2, BoundsAssumption
    <3>2. \A u \in Turns : Sent(u) => u <= k - 1
      BY <1>8, <3>1, TurnsAre
    <3>3. Len(shown) <= 2 * (k - 1)
      BY <1>1, <1>11, <3>1, <3>2 DEF ChatInv, ShownIsSent
    <3> QED
      BY <1>11, <3>3
  <2>3. \A k \in 0..MaxTurns : (\A u \in Turns : Sent(u)' => u <= k) =>
           Len(shown') + (IF open' = Null THEN 0 ELSE 1) <= 2 * k
    BY <1>1, <1>2, <2>2
  <2>4. Len(shown') > 0
    BY <1>11
  <2> QED
    BY <2>1, <2>3, <2>4 DEF ShownIsSent, Sent, StreamAt
<1>13. TypeOK' /\ (made \in 0..MaxSessions)'
  <2>1. Len(shown') <= 2 * MaxTurns
    <3>1. MaxTurns \in 0..MaxTurns /\ \A u \in Turns : u <= MaxTurns
      BY BoundsAssumption DEF Turns
    <3>2. Len(shown') + 1 <= 2 * MaxTurns
      BY <1>1, <1>2, <1>12, <3>1 DEF ShownIsSent
    <3> QED
      BY <1>11, <3>2, BoundsAssumption
  <2> QED
    BY <1>1, <1>6, <1>11, <2>1 DEF ChatInv, TypeOK, Message, Task, Stream, Pcs, Kinds, TurnKinds, Base
<1>14. TurnsAgree'
  <2>1. Agree(r, st, queue[t], outcome[t])
    BY <1>1, <1>2, <1>3, <1>4, <1>9, NoNull DEF Agree, Unsaved
  <2> QED
    BY <1>1, <1>6, <2>1 DEF ChatInv, TurnsAgree
<1>15. \A s \in Sessions : \A i \in DOMAIN rows[s] :
          rows[s][i].turn \in Turns \cup Before /\ rows[s][i].turn # t /\ rows[s][i].kind \in Kinds
  BY <1>1, <1>2, RowsAre DEF ChatInv, RowsAgree, Written
<1>16. RowsAgree'
  BY <1>1, <1>6, <1>15 DEF ChatInv, RowsAgree
<1>17. HopedInOrder'
  <2>1. \A u \in Turns \cup Before : u # t => (Hoped(u)' <=> Hoped(u))
    BY <1>1, NoNull DEF Hoped
  <2> QED
    BY <1>1, <1>15, <2>1 DEF ChatInv, HopedInOrder
<1> QED
  BY <1>10, <1>12, <1>13, <1>14, <1>16, <1>17 DEF ChatInv
-----------------------------------------------------------------------------
(* The event stream and the task *)

LEMMA TurnIs ==
    ASSUME ChatInv, NEW t \in Turns
    PROVE  /\ TypeOK /\ turn[t] \in Task /\ stream[t] \in Stream /\ queue[t] \in 0..MaxEvents
           /\ Agree(turn[t], stream[t], queue[t], outcome[t])
           /\ turn \in [Turns -> Task] /\ stream \in [Turns -> Stream]
           /\ queue \in [Turns -> 0..MaxEvents] /\ faults \in 0..MaxFaults
           /\ turn = [turn EXCEPT ![t] = turn[t]] /\ stream = [stream EXCEPT ![t] = stream[t]]
           /\ queue = [queue EXCEPT ![t] = queue[t]]
           /\ turn[t].pc \in Pcs /\ turn[t].kind \in Kinds
           /\ outcome[t] \in Outcomes
<1>1. /\ TypeOK /\ Agree(turn[t], stream[t], queue[t], outcome[t])
      /\ turn \in [Turns -> Task] /\ stream \in [Turns -> Stream]
      /\ queue \in [Turns -> 0..MaxEvents] /\ faults \in 0..MaxFaults
  BY Typed DEF ChatInv, TurnsAgree
<1>2. outcome[t] \in Outcomes
  BY DEF ChatInv, TypeOK
<1>3. /\ turn = [turn EXCEPT ![t] = turn[t]] /\ stream = [stream EXCEPT ![t] = stream[t]]
      /\ queue = [queue EXCEPT ![t] = queue[t]]
  BY <1>1
<1>4. turn[t].pc \in Pcs /\ turn[t].kind \in Kinds
  BY <1>1 DEF Task
<1> QED
  BY <1>1, <1>2, <1>3, <1>4

\* What is to be shown of a step of turn t.
LEMMA TurnMoves ==
    ASSUME ChatInv, NEW t \in Turns, NEW r \in Task, NEW st \in Stream, NEW q \in 0..MaxEvents,
           turn' = [turn EXCEPT ![t] = r], stream' = [stream EXCEPT ![t] = st],
           queue' = [queue EXCEPT ![t] = q], faults' \in 0..MaxFaults,
           UNCHANGED <<client, made, kept, outcome>>,
           stream[t].pc # "none", st.pc # "none", Agree(r, st, q, outcome[t]),
           \A k \in Kinds : Written(k, turn[t], stream[t], outcome[t])
                              => Written(k, r, st, outcome[t])
    PROVE  OnlyTurn(t) /\ turn'[t] = r /\ stream'[t] = st
<1>1. /\ turn' \in [Turns -> Task] /\ turn'[t] = r /\ \A u \in Turns \ {t} : turn'[u] = turn[u]
      /\ stream' \in [Turns -> Stream] /\ stream'[t] = st
      /\ \A u \in Turns \ {t} : stream'[u] = stream[u]
      /\ queue' \in [Turns -> 0..MaxEvents] /\ queue'[t] = q
      /\ \A u \in Turns \ {t} : queue'[u] = queue[u]
  BY TurnIs
<1> QED
  BY <1>1 DEF OnlyTurn

LEMMA AcceptChat == ASSUME ChatInv, NEW t \in Turns, Accept(t) PROVE ChatInv'
<1> DEFINE r == [turn[t] EXCEPT !.pc = "start"]
           st == [stream[t] EXCEPT !.pc = "wait"]
<1>1. /\ r \in Task /\ r.pc = "start" /\ r.session = turn[t].session
      /\ r.cached = turn[t].cached
  <2>1. turn[t] \in Task /\ "start" \in Pcs
    BY TurnIs DEF Pcs
  <2> QED
    BY <2>1, TaskGoes
<1>2. st \in Stream /\ st.pc = "wait" /\ st.end = stream[t].end
  BY TurnIs, StreamGoes
<1>3. turn' = [turn EXCEPT ![t] = r] /\ stream' = [stream EXCEPT ![t] = st]
  BY TurnIs DEF Accept, Goto
<1> HIDE DEF r, st
<1>4. /\ stream[t].pc = "request" /\ UNCHANGED <<client, made, kept, queue, rows, outcome, faults>>
  BY DEF Accept, StreamAt
<1>5. Agree(r, st, queue[t], outcome[t])
  BY <1>1, <1>2, <1>4, TurnIs DEF Agree, Unsaved
<1>6. OnlyTurn(t)
  BY <1>1, <1>2, <1>3, <1>4, <1>5, TurnIs, TurnMoves DEF Written
<1> QED
  BY <1>4, <1>6, KeepsRows

LEMMA GetEventChat == ASSUME ChatInv, NEW t \in Turns, GetEvent(t) PROVE ChatInv'
<1> DEFINE st == [stream[t] EXCEPT !.pc = "yielded"]
           q == queue[t] - 1
<1>1. st \in Stream /\ st.pc = "yielded" /\ st.end = stream[t].end
  BY TurnIs, StreamGoes
<1>2. stream' = [stream EXCEPT ![t] = st] /\ queue' = [queue EXCEPT ![t] = q]
  BY TurnIs DEF GetEvent
<1>3. /\ stream[t].pc = "wait" /\ queue[t] > 0
      /\ UNCHANGED <<client, made, kept, turn, rows, outcome, faults>>
  BY DEF GetEvent, StreamAt
<1>4. q \in 0..MaxEvents
  BY <1>3, TurnIs, BoundsAssumption
<1> HIDE DEF st, q
<1>5. Agree(turn[t], st, q, outcome[t])
  <2>1. queue[t] # 0
    BY <1>3
  <2> QED
    BY <1>1, <1>3, <2>1, TurnIs DEF Agree
<1>6. \A k \in Kinds : Written(k, turn[t], stream[t], outcome[t])
                         => Written(k, turn[t], st, outcome[t])
  BY <1>1 DEF Written
<1>7. OnlyTurn(t)
  BY <1>1, <1>2, <1>3, <1>4, <1>5, <1>6, TurnIs, TurnMoves
<1> QED
  BY <1>3, <1>7, KeepsRows

\* The next get(), or the end of the stream.
LEMMA LoopChat ==
    ASSUME ChatInv, NEW t \in Turns, stream[t].pc \in {"wait", "yielded"}, Loop(t),
           UNCHANGED <<client, made, kept, queue, rows, outcome, faults>>
    PROVE  ChatInv'
<1>1. stream[t].end = "none" /\ outcome[t] \notin Answered
  BY TurnIs DEF Agree, Answered
<1>2. CASE stream' = [stream EXCEPT ![t].pc = "wait"] /\ UNCHANGED turn
  <2> DEFINE st == [stream[t] EXCEPT !.pc = "wait"]
  <2>1. st \in Stream /\ st.pc = "wait" /\ st.end = stream[t].end
    BY TurnIs, StreamGoes
  <2>2. stream' = [stream EXCEPT ![t] = st]
    BY <1>2, TurnIs
  <2> HIDE DEF st
  <2>3. Agree(turn[t], st, queue[t], outcome[t])
    BY <1>1, <2>1, TurnIs DEF Agree
  <2>4. \A k \in Kinds : Written(k, turn[t], stream[t], outcome[t])
                           => Written(k, turn[t], st, outcome[t])
    BY <2>1 DEF Written
  <2>5. OnlyTurn(t)
    BY <1>2, <2>1, <2>2, <2>3, <2>4, TurnIs, TurnMoves
  <2> QED
    BY <2>5, KeepsRows
<1>3. CASE /\ ~GoesOn(t)
           /\ stream' = [stream EXCEPT ![t] =
                [pc |-> "closed", end |-> IF turn[t].kind = "failed" THEN "error" ELSE turn[t].kind]]
           /\ Goto(t, NoTask)
  <2> DEFINE end == IF turn[t].kind = "failed" THEN "error" ELSE turn[t].kind
             st == [pc |-> "closed", end |-> end]
  <2>1. turn[t].pc = "done" /\ queue[t] = 0
    BY <1>3, TurnIs, BoundsAssumption DEF GoesOn, Done, At
  <2>2. turn[t].kind \in Kinds \ {"none"}
    BY <2>1, TurnIs DEF Agree
  <2>3. /\ end \in Answered \cup {"error"}
        /\ \A k \in Kinds : turn[t].kind \in {k, "failed"} => end \in {"none", k, "error"}
    BY <2>2 DEF Kinds, TurnKinds, Answered
  <2>4. st \in Stream /\ st.pc = "closed" /\ st.end = end
    BY <2>3 DEF Stream, Answered
  <2>5. turn' = [turn EXCEPT ![t] = NoTask] /\ stream' = [stream EXCEPT ![t] = st]
    BY <1>3 DEF Goto
  <2> HIDE DEF st, end
  <2>6. Agree(NoTask, st, queue[t], outcome[t])
    BY <1>1, <2>1, <2>4, NoTaskIs DEF Agree, Unsaved
  <2>7. \A k \in Kinds : Written(k, turn[t], stream[t], outcome[t])
                           => Written(k, NoTask, st, outcome[t])
    BY <2>1, <2>3, <2>4, NoTaskIs DEF Written, Unsaved
  <2>8. OnlyTurn(t)
    BY <2>4, <2>5, <2>6, <2>7, NoTaskIs, TurnIs, TurnMoves
  <2> QED
    BY <2>8, KeepsRows
<1> QED
  BY <1>2, <1>3 DEF Loop

LEMMA DisconnectedChat == ASSUME ChatInv, NEW t \in Turns, Disconnected(t) PROVE ChatInv'
<1> DEFINE st == [stream[t] EXCEPT !.pc = "closed"]
<1>1. st \in Stream /\ st.pc = "closed" /\ st.end = stream[t].end
  BY TurnIs, StreamGoes
<1>2. /\ stream' = [stream EXCEPT ![t] = st] /\ queue' = [queue EXCEPT ![t] = 0]
      /\ UNCHANGED <<client, made, kept, outcome, faults>>
      /\ 0 \in 0..MaxEvents
  BY TurnIs, BoundsAssumption DEF Disconnected
<1> HIDE DEF st
<1>3. CASE StreamAt(t, "wait") /\ Goto(t, NoTask) /\ MaybeSaved(t)
  <2>1. turn' = [turn EXCEPT ![t] = NoTask] /\ stream[t].pc = "wait"
    BY <1>3 DEF Goto, StreamAt
  <2>2. stream[t].end = "none" /\ outcome[t] \notin Answered
    BY <2>1, TurnIs DEF Agree, Answered
  <2>3. Agree(NoTask, st, 0, outcome[t])
    BY <1>1, <2>2, NoTaskIs DEF Agree, Unsaved
  <2>4. \A k \in Kinds : Written(k, NoTask, st, outcome[t])
    BY <1>1, <2>2, NoTaskIs, TurnIs DEF Written, Unsaved, Outcomes, Answered
  <2>5. OnlyTurn(t) /\ turn'[t] = NoTask /\ stream'[t] = st
    BY <1>1, <1>2, <2>1, <2>3, <2>4, NoTaskIs, TurnIs, TurnMoves
  <2>6. CASE UNCHANGED rows
    BY <2>5, <2>6, KeepsRows
  <2>7. CASE At(t, "write") /\ rows' = Saved(t)
    BY <2>4, <2>5, <2>7, TurnIs, AddsRow
  <2> QED
    BY <1>3, <2>6, <2>7 DEF MaybeSaved
<1>4. CASE stream[t].pc \in {"request", "yielded"} /\ UNCHANGED <<turn, rows>>
  <2>1. stream[t].end = "none" /\ (stream[t].pc = "request" => turn[t].pc = "none")
    BY <1>4, TurnIs DEF Agree
  <2>2. Agree(turn[t], st, 0, outcome[t])
    BY <1>1, <1>4, <2>1, TurnIs DEF Agree
  <2>3. \A k \in Kinds : Written(k, turn[t], stream[t], outcome[t])
                           => Written(k, turn[t], st, outcome[t])
    BY <1>1 DEF Written
  <2>4. OnlyTurn(t)
    BY <1>1, <1>2, <1>4, <2>2, <2>3, TurnIs, TurnMoves
  <2> QED
    BY <1>4, <2>4, KeepsRows
<1> QED
  BY <1>3, <1>4 DEF Disconnected

\* What is to be shown of a step of the task of turn t: it ends, goes on, or comes to its
\* write; after the write it ends with the kind of its row, or fails.
LEMMA TaskMoves ==
    ASSUME ChatInv, NEW t \in Turns, turn[t].pc \in Unsaved \cup {"title"},
           NEW r \in Task, NEW q \in 0..MaxEvents,
           turn' = [turn EXCEPT ![t] = r], queue' = [queue EXCEPT ![t] = q],
           faults' \in 0..MaxFaults, UNCHANGED <<client, made, kept, stream, outcome>>,
           r.pc \in {"none", "done"} \/ (r.session = turn[t].session /\ r.pc \in Unsaved \cup {"title"}),
           r.pc # "start", r.pc \in {"write", "title", "done"} => r.kind # "none",
           r.cached => r.pc = "write" /\ r.kind = "answer",
           turn[t].pc = "title" =>
             /\ r.pc \in {"none", "done"}
             /\ r.pc = "done" => r.kind \in {turn[t].kind, "failed"}
    PROVE  OnlyTurn(t) /\ turn'[t] = r /\ stream'[t] = stream[t]
<1>1. /\ stream[t].pc \notin {"none", "request"} /\ stream[t].end = "none"
      /\ turn[t].session # Null
  BY TurnIs DEF Agree, Unsaved
<1>2. Agree(r, stream[t], q, outcome[t])
  BY <1>1, TurnIs DEF Agree, Unsaved
<1>3. \A k \in Kinds : Written(k, turn[t], stream[t], outcome[t])
                         => Written(k, r, stream[t], outcome[t])
  BY DEF Written, Unsaved
<1> QED
  BY <1>1, <1>2, <1>3, TurnIs, TurnMoves

\* The task returns or raises: its result is kept, or nobody waits for it.
LEMMA FinishedIs ==
    ASSUME NEW t \in Turns, NEW kind \in Kinds, Finished(t, kind)
    PROVE  \E r \in Task : /\ turn' = [turn EXCEPT ![t] = r]
                           /\ r.pc \in {"none", "done"} /\ ~r.cached
                           /\ r.pc = "done" => r.kind = kind
<1> DEFINE n == [NoTask EXCEPT !.pc = "done", !.kind = kind]
<1>1. n \in Task /\ n.pc = "done" /\ n.kind = kind /\ ~n.cached
  <2>1. NoTask \in Task /\ ~NoTask.cached /\ "done" \in Pcs
    BY NoTaskIs DEF Pcs
  <2> QED
    BY <2>1, TaskWrites
<1>2. turn' = [turn EXCEPT ![t] = IF StreamAt(t, "closed") THEN NoTask ELSE n]
  BY DEF Finished, Goto
<1> HIDE DEF n
<1> QED
  BY <1>1, <1>2, NoTaskIs

\* A task that has not come to its write, or is past it, ends.
LEMMA FinishesChat ==
    ASSUME ChatInv, NEW t \in Turns, NEW kind \in Kinds \ {"none"}, Finished(t, kind),
           turn[t].pc \in Unsaved \cup {"title"},
           turn[t].pc = "title" => kind \in {turn[t].kind, "failed"},
           faults' \in 0..MaxFaults, UNCHANGED <<client, made, kept, stream, queue, outcome>>
    PROVE  /\ OnlyTurn(t) /\ stream'[t] = stream[t] /\ turn'[t].pc \in {"none", "done"}
           /\ turn'[t].pc = "done" => turn'[t].kind = kind
<1>1. PICK r \in Task : /\ turn' = [turn EXCEPT ![t] = r] /\ ~r.cached
                        /\ r.pc \in {"none", "done"} /\ (r.pc = "done" => r.kind = kind)
  BY FinishedIs
<1>2. queue' = [queue EXCEPT ![t] = queue[t]] /\ queue[t] \in 0..MaxEvents
  BY TurnIs
<1>3. queue' = [queue EXCEPT ![t] = queue[t]] /\ UNCHANGED <<client, made, kept, stream, outcome>>
  BY <1>2
<1>4. stream[t].pc \notin {"none", "request"} /\ stream[t].end = "none"
  BY TurnIs DEF Agree, Unsaved
<1>5. Agree(r, stream[t], queue[t], outcome[t])
  BY <1>1, <1>4, TurnIs DEF Agree, Unsaved
<1>6. \A k \in Kinds : Written(k, turn[t], stream[t], outcome[t])
                         => Written(k, r, stream[t], outcome[t])
  BY <1>1 DEF Written, Unsaved
<1>7. stream' = [stream EXCEPT ![t] = stream[t]] /\ stream[t] \in Stream
  BY TurnIs
<1>8. OnlyTurn(t) /\ turn'[t] = r /\ stream'[t] = stream[t]
  BY <1>1, <1>2, <1>3, <1>4, <1>5, <1>6, <1>7, TurnMoves
<1> QED
  BY <1>1, <1>8

\* A progress event finds room: nobody has to make any.
LEMMA EmittedIs ==
    ASSUME ChatInv, NEW t \in Turns, queue[t] < MaxEvents
    PROVE  \E q \in 0..MaxEvents : Emitted(t) = [queue EXCEPT ![t] = q]
<1> DEFINE n == queue[t] + 1
<1>1. n \in 0..MaxEvents
  BY TurnIs, BoundsAssumption
<1>2. Emitted(t) = queue \/ Emitted(t) = [queue EXCEPT ![t] = n]
  BY DEF Emitted
<1> HIDE DEF n
<1> QED
  BY <1>1, <1>2, TurnIs

LEMMA StartChat == ASSUME ChatInv, NEW t \in Turns, Start(t) PROVE ChatInv'
<1>1. /\ turn[t].pc = "start" /\ turn[t] \in Task
      /\ UNCHANGED <<client, made, kept, stream, rows, outcome, faults>>
      /\ faults' \in 0..MaxFaults
  BY TurnIs DEF Start, At
<1>2. queue[t] < MaxEvents
  <2>1. queue[t] = 0
    BY <1>1, TurnIs DEF Agree
  <2> QED
    BY <2>1, BoundsAssumption
<1>3. PICK q \in 0..MaxEvents : Emitted(t) = [queue EXCEPT ![t] = q]
  BY <1>2, EmittedIs
<1>4. CASE Finished(t, "answer") /\ UNCHANGED queue
  <2>1. OnlyTurn(t)
    BY <1>1, <1>4, FinishesChat DEF Kinds, TurnKinds, Unsaved
  <2> QED
    BY <1>1, <2>1, KeepsRows
<1>5. CASE /\ Goto(t, [turn[t] EXCEPT !.pc = "write", !.kind = "answer", !.cached = TRUE])
           /\ queue' = Emitted(t)
  <2> DEFINE r == [turn[t] EXCEPT !.pc = "write", !.kind = "answer", !.cached = TRUE]
  <2>1. r \in Task /\ r.pc = "write" /\ r.kind = "answer" /\ r.session = turn[t].session
    <3>1. turn[t] \in Task /\ "write" \in Pcs /\ "answer" \in Kinds
      BY <1>1 DEF Pcs, Kinds, TurnKinds
    <3> QED
      BY <3>1 DEF Task
  <2>2. turn' = [turn EXCEPT ![t] = r]
    BY <1>5 DEF Goto
  <2> HIDE DEF r
  <2>3. OnlyTurn(t)
    BY <1>1, <1>3, <1>5, <2>1, <2>2, TaskMoves DEF Unsaved
  <2> QED
    BY <1>1, <2>3, KeepsRows
<1>6. CASE Goto(t, [turn[t] EXCEPT !.pc = "load"]) /\ queue' = Emitted(t)
  <2> DEFINE r == [turn[t] EXCEPT !.pc = "load"]
  <2>1. r \in Task /\ r.pc = "load" /\ r.session = turn[t].session /\ r.cached = turn[t].cached
    <3>1. "load" \in Pcs
      BY DEF Pcs
    <3> QED
      BY <1>1, <3>1, TaskGoes
  <2>2. turn' = [turn EXCEPT ![t] = r]
    BY <1>6 DEF Goto
  <2> HIDE DEF r
  <2>3. ~turn[t].cached
    BY <1>1, TurnIs DEF Agree
  <2>4. OnlyTurn(t)
    BY <1>1, <1>3, <1>6, <2>1, <2>2, <2>3, TaskMoves DEF Unsaved
  <2> QED
    BY <1>1, <2>4, KeepsRows
<1> QED
  BY <1>4, <1>5, <1>6 DEF Start

\* A set of indices that is not empty has a last one.
LEMMA MaxIs ==
    ASSUME NEW n \in Nat, NEW T \in SUBSET (1..n), T # {}
    PROVE  Max(T) \in T /\ \A i \in T : i <= Max(T)
<1> DEFINE below == {n - i : i \in T}
<1>1. \A i \in T : n - i \in Nat
  OBVIOUS
<1>2. below \subseteq Nat /\ below # {}
  BY <1>1
<1>3. \E x \in below : \A y \in below : ~(y < x)
  <2> HIDE DEF below
  <2> DEFINE R == OpToRel(<, Nat)
  <2>1. \A x, y \in Nat : x < y => <<x, y>> \in R
    BY DEF OpToRel
  <2>2. IsWellFoundedOn(R, Nat)
    BY NatLessThanWellFounded
  <2> HIDE DEF R
  <2>3. PICK x \in below : \A y \in below : ~(<<y, x>> \in R)
    BY <1>2, <2>2, WFMin
  <2>4. \A y \in below : ~(y < x)
    BY <1>2, <2>1, <2>3
  <2> QED
    BY <2>4
<1>4. PICK i \in T : \A y \in below : ~(y < n - i)
  BY <1>3
<1>5. \A j \in T : ~(n - j < n - i)
  BY <1>4
<1>6. \A j \in T : i >= j
  BY <1>5
<1> HIDE DEF below
<1> QED
  BY <1>6 DEF Max

\* What load_history takes from a row is the turn and the context of a row.
LEMMA BaseIs ==
    ASSUME TypeOK, NEW s \in Sessions
    PROVE  LastQuery(s) \in Base
<1> DEFINE n == Len(rows[s])
           found == {i \in 1..n : i > n - MaxLoaded /\ Usable(rows[s][i])}
<1>1. CASE found = {}
  BY <1>1, NoTaskIs DEF LastQuery
<1>2. CASE found # {}
  <2>1. n \in Nat /\ DOMAIN rows[s] = 1..n
    BY Typed, LenProperties
  <2>2. Max(found) \in found
    BY <1>2, <2>1, MaxIs
  <2>3. Max(found) \in DOMAIN rows[s] /\ LastQuery(s) = [turn |-> rows[s][Max(found)].turn,
                                                  context |-> rows[s][Max(found)].context]
    BY <1>2, <2>1, <2>2 DEF LastQuery
  <2> DEFINE i == Max(found)
  <2> HIDE DEF i
  <2>4. i \in DOMAIN rows[s] => rows[s][i] \in Row
    BY RowsAre
  <2>5. LastQuery(s) = [turn |-> rows[s][i].turn, context |-> rows[s][i].context]
        /\ rows[s][i] \in Row
    BY <2>3, <2>4 DEF i
  <2> QED
    BY <2>5 DEF Row, Base
<1> QED
  BY <1>1, <1>2

\* What a load gives the turn, and what a step of it leaves.
LEMMA LoadedIs ==
    ASSUME ChatInv, NEW t \in Turns, turn[t].pc = "load", NEW base \in Base,
           turn' = [turn EXCEPT ![t] = [turn[t] EXCEPT !.pc = "run", !.base = base]]
    PROVE  /\ turn'[t].base = base
           /\ UNCHANGED <<client, made, kept, stream, queue, outcome>> /\ faults' \in 0..MaxFaults
                => OnlyTurn(t)
<1> DEFINE r == [turn[t] EXCEPT !.pc = "run", !.base = base]
<1>1. /\ turn[t] \in Task /\ queue[t] \in 0..MaxEvents
      /\ queue = [queue EXCEPT ![t] = queue[t]] /\ ~turn[t].cached /\ "run" \in Pcs
  BY TurnIs DEF Agree, Pcs
<1>2. r \in Task /\ r.pc = "run" /\ r.session = turn[t].session /\ r.cached = turn[t].cached
  <2>1. turn[t] \in Task /\ "run" \in Pcs
    BY TurnIs DEF Pcs
  <2> QED
    BY <2>1, TaskLoads
<1>3. r.base = base
  BY <1>1 DEF Task
<1> HIDE DEF r
<1>4. turn' = [turn EXCEPT ![t] = r] /\ turn \in [Turns -> Task]
  BY TurnIs DEF r
<1>5. turn'[t].base = base
  BY <1>3, <1>4
<1>6. ASSUME UNCHANGED <<client, made, kept, stream, queue, outcome>>, faults' \in 0..MaxFaults
      PROVE  OnlyTurn(t)
  <2>1. queue' = [queue EXCEPT ![t] = queue[t]]
    BY <1>1, <1>6
  <2> QED
    BY <1>1, <1>2, <1>4, <1>6, <2>1, TaskMoves DEF Unsaved
<1> QED
  BY <1>5, <1>6

LEMMA LoadHistoryChat ==
    ASSUME ChatInv, NEW t \in Turns, LoadHistory(t)
    PROVE  /\ ChatInv'
           /\ \/ turn'[t].base = LastQuery(turn[t].session)
              \/ turn'[t].base = NoBase /\ faults' > faults
<1>1. /\ turn[t].pc = "load"
      /\ UNCHANGED <<client, made, kept, stream, queue, rows, outcome>>
      /\ turn[t].session \in Sessions
  BY TurnIs DEF LoadHistory, At, Agree, Unsaved, Task
<1>2. LastQuery(turn[t].session) \in Base /\ NoBase \in Base
  BY <1>1, TurnIs, BaseIs, NoTaskIs
<1>3. faults' \in 0..MaxFaults /\ (Fault => faults' > faults)
  BY TurnIs, BoundsAssumption DEF LoadHistory, Fault
<1>4. PICK base \in Base :
        /\ Loaded(t, base)
        /\ base = LastQuery(turn[t].session) \/ (base = NoBase /\ Fault)
  BY <1>2 DEF LoadHistory
<1>5. turn' = [turn EXCEPT ![t] = [turn[t] EXCEPT !.pc = "run", !.base = base]]
  BY <1>4 DEF Loaded, Goto
<1>6. turn'[t].base = base /\ OnlyTurn(t)
  BY <1>1, <1>3, <1>5, LoadedIs
<1> QED
  BY <1>1, <1>3, <1>4, <1>6, KeepsRows

LEMMA EmitChat == ASSUME ChatInv, NEW t \in Turns, Emit(t) PROVE ChatInv'
<1>1. /\ turn[t].pc = "run" /\ queue[t] < MaxEvents /\ stream[t].pc # "closed"
      /\ queue' = Emitted(t)
      /\ UNCHANGED <<client, made, kept, turn, stream, rows, outcome, faults>>
  BY DEF Emit, At, StreamAt
<1>2. PICK q \in 0..MaxEvents : queue' = [queue EXCEPT ![t] = q]
  BY <1>1, EmittedIs
<1>3. /\ turn' = [turn EXCEPT ![t] = turn[t]] /\ turn[t] \in Task /\ faults' \in 0..MaxFaults
      /\ ~turn[t].cached
  BY <1>1, TurnIs DEF Agree
<1>4. OnlyTurn(t)
  BY <1>1, <1>2, <1>3, TaskMoves DEF Unsaved
<1> QED
  BY <1>1, <1>4, KeepsRows

LEMMA RunChat == ASSUME ChatInv, NEW t \in Turns, Run(t) PROVE ChatInv'
<1>1. /\ turn[t].pc = "run" /\ turn[t] \in Task
      /\ UNCHANGED <<client, made, kept, stream, queue, rows, outcome, faults>>
      /\ faults' \in 0..MaxFaults /\ queue[t] \in 0..MaxEvents
      /\ queue' = [queue EXCEPT ![t] = queue[t]]
  BY TurnIs DEF Run, At
<1>2. ASSUME NEW kind \in Kinds \ {"none"},
             Goto(t, [turn[t] EXCEPT !.pc = "write", !.kind = kind])
      PROVE  OnlyTurn(t)
  <2> DEFINE r == ToWrite(turn[t], kind)
  <2>1. /\ r \in Task /\ r.pc = "write" /\ r.kind = kind
        /\ r.session = turn[t].session /\ r.cached = turn[t].cached
    BY <1>1, ToWriteIs
  <2>2. turn' = [turn EXCEPT ![t] = r]
    BY <1>2 DEF Goto, ToWrite
  <2> HIDE DEF r
  <2>3. ~turn[t].cached
    BY <1>1, TurnIs DEF Agree
  <2> QED
    BY <1>1, <2>1, <2>2, <2>3, TaskMoves DEF Unsaved
<1>3. ASSUME Finished(t, "failed") PROVE OnlyTurn(t)
  BY <1>1, <1>3, FinishesChat DEF Kinds, TurnKinds, Unsaved
<1>4. TurnKinds = Kinds \ {"none"}
  BY DEF Kinds, TurnKinds
<1>5. OnlyTurn(t)
  BY <1>2, <1>3, <1>4 DEF Run
<1> QED
  BY <1>1, <1>5, KeepsRows

LEMMA WriteChat == ASSUME ChatInv, NEW t \in Turns, Write(t) PROVE ChatInv'
<1>1. /\ turn[t].pc = "write" /\ turn[t] \in Task /\ turn[t].kind \in Kinds \ {"none"}
      /\ turn[t].cached => turn[t].kind = "answer"
      /\ UNCHANGED <<client, made, kept, stream, queue, outcome>>
      /\ faults' \in 0..MaxFaults /\ queue[t] \in 0..MaxEvents
      /\ queue' = [queue EXCEPT ![t] = queue[t]]
  <2>1. turn[t].pc = "write" /\ UNCHANGED <<client, made, kept, stream, queue, outcome>>
        /\ (UNCHANGED faults \/ Fault)
    BY DEF Write, At
  <2>2. faults' \in 0..MaxFaults
    BY <2>1, TurnIs, BoundsAssumption DEF Fault
  <2>3. turn[t].kind # "none" /\ (turn[t].cached => turn[t].kind = "answer")
    BY <2>1, TurnIs DEF Agree
  <2> QED
    BY <2>1, <2>2, <2>3, TurnIs
<1>2. /\ stream[t].pc \notin {"none", "request"} /\ stream[t].end = "none"
      /\ outcome[t] \in {"none", "error", "withdrawn", "silence"}
  BY <1>1, TurnIs DEF Agree, Answered, Outcomes
<1>3. OnlyTurn(t) /\ Written(turn[t].kind, turn'[t], stream'[t], outcome[t])
  <2>1. CASE turn[t].cached /\ Finished(t, "answer")
    <3>1. /\ OnlyTurn(t) /\ stream'[t] = stream[t] /\ turn'[t].pc \in {"none", "done"}
          /\ turn'[t].pc = "done" => turn'[t].kind = "answer"
      BY <1>1, <2>1, FinishesChat DEF Kinds, TurnKinds, Unsaved
    <3> QED
      BY <1>1, <1>2, <2>1, <3>1 DEF Written, Unsaved
  <2>2. CASE ~turn[t].cached /\ Goto(t, [turn[t] EXCEPT !.pc = "title"])
    <3> DEFINE r == [turn[t] EXCEPT !.pc = "title"]
    <3>1. r \in Task /\ r.pc = "title" /\ r.kind = turn[t].kind /\ r.session = turn[t].session
          /\ r.cached = turn[t].cached
      <4>1. "title" \in Pcs
        BY DEF Pcs
      <4> QED
        BY <1>1, <4>1, TaskGoes
    <3>2. turn' = [turn EXCEPT ![t] = r]
      BY <2>2 DEF Goto
    <3> HIDE DEF r
    <3>3. OnlyTurn(t) /\ turn'[t] = r /\ stream'[t] = stream[t]
      BY <1>1, <2>2, <3>1, <3>2, TaskMoves DEF Unsaved
    <3> QED
      BY <1>1, <1>2, <3>1, <3>3 DEF Written, Unsaved
  <2> QED
    BY <2>1, <2>2 DEF Write, AfterWrite
<1>4. CASE UNCHANGED rows
  BY <1>3, <1>4, KeepsRows
<1>5. CASE rows' = Saved(t)
  BY <1>1, <1>3, <1>5, AddsRow DEF At
<1> QED
  BY <1>4, <1>5 DEF Write

LEMMA RetitleChat == ASSUME ChatInv, NEW t \in Turns, Retitle(t) PROVE ChatInv'
<1>1. /\ turn[t].pc = "title" /\ turn[t].kind \in Kinds \ {"none"}
      /\ UNCHANGED <<client, made, kept, stream, queue, rows, outcome, faults>>
      /\ faults' \in 0..MaxFaults
      /\ Finished(t, turn[t].kind) \/ Finished(t, "failed")
  BY TurnIs DEF Retitle, At, Agree
<1>2. PICK kind \in {turn[t].kind, "failed"} : Finished(t, kind)
  BY <1>1
<1>3. kind \in Kinds \ {"none"}
  BY <1>1 DEF Kinds, TurnKinds
<1>4. OnlyTurn(t)
  BY <1>1, <1>2, <1>3, FinishesChat
<1> QED
  BY <1>1, <1>4, KeepsRows

-----------------------------------------------------------------------------
(* The invariant *)

LEMMA NextChat == ASSUME ChatInv, [Next]_vars PROVE ChatInv'
<1>1. ASSUME NEW t \in Turns, Send(t) \/ Read(t) \/ Break(t) \/ Disconnected(t) PROVE ChatInv'
  BY <1>1, SendChat, ReadChat, BreakChat, DisconnectedChat
<1>2. ASSUME NEW t \in Turns, Serve(t) PROVE ChatInv'
  <2>1. CASE Resume(t)
    BY <2>1, LoopChat DEF Resume, StreamAt
  <2>2. CASE WaitTimesOut(t)
    BY <2>2, LoopChat DEF WaitTimesOut, GivesUp, StreamAt
  <2> QED
    BY <1>2, <2>1, <2>2, AcceptChat, GetEventChat DEF Serve
<1>3. ASSUME NEW t \in Turns, Compute(t) PROVE ChatInv'
  BY <1>3, StartChat, LoadHistoryChat, RunChat, WriteChat, RetitleChat DEF Compute
<1>4. ASSUME NEW t \in Turns, Emit(t) PROVE ChatInv'
  BY <1>4, EmitChat
<1>5. CASE Cancel \/ Reset \/ SessionCreated
  BY <1>5, CancelChat, ResetChat, CreatesSession
<1>6. ASSUME NEW s \in Sessions, Delete(s) PROVE ChatInv'
  BY <1>6, DeletesSession
<1>7. CASE UNCHANGED vars
  BY <1>7 DEF vars, client, ChatInv, TypeOK, OpenIsLast, ShownIsSent, TurnsAgree, RowsAgree,
              HopedInOrder, Sent, StreamAt, Hoped
<1> QED
  BY <1>1, <1>2, <1>3, <1>4, <1>5, <1>6, <1>7 DEF Next

THEOREM ChatInvariant == Spec => []ChatInv
<1>1. Init => ChatInv
  BY InitChat
<1>2. ChatInv /\ [Next]_vars => ChatInv'
  BY NextChat
<1> QED
  BY <1>1, <1>2, PTL DEF Spec

\* However turns overlap, are given up or fail: no progress event is left behind when the
\* result goes out, and the rows of a session are in the order of the replies.
THEOREM ChatStaysSound == Spec => []ChatIsSound
<1>1. ASSUME ChatInv PROVE ChatIsSound
  <2>1. TypeOK
    BY <1>1 DEF ChatInv
  <2>2. EventsBeforeResult
    BY <1>1 DEF ChatInv, TurnsAgree, Agree, EventsBeforeResult
  <2>3. \A t : Replied(t) => Hoped(t)
    BY DEF Replied, Hoped, Answered
  <2>4. HistoryInOrder
    BY <1>1, <2>3 DEF ChatInv, HopedInOrder, HistoryInOrder
  <2> QED
    BY <2>1, <2>2, <2>4 DEF ChatIsSound
<1> QED
  BY <1>1, ChatInvariant, PTL

-----------------------------------------------------------------------------
(* What a turn follows up on *)

\* A row of a turn that ended with an answer, as the user saw it, is an answer's.
LEMMA AnswersHaveRows ==
    ASSUME ChatInv, NEW s \in Sessions, NEW i \in DOMAIN rows[s],
           outcome[rows[s][i].turn] = "answer"
    PROVE  Usable(rows[s][i])
BY DEF ChatInv, RowsAgree, Written, Usable

\* A turn whose row says answer ended so for the user, or was given up, unless the user
\* still waits for it.
LEMMA RowsAreAnswers ==
    ASSUME ChatInv, NEW s \in Sessions, NEW i \in DOMAIN rows[s], Usable(rows[s][i])
    PROVE  LET b == rows[s][i].turn
           IN  \/ GivenUp(b) \/ outcome[b] = "answer"
               \/ b \in Turns /\ open = b /\ turn[b].pc \notin Unsaved
<1> DEFINE b == rows[s][i].turn
<1>1. b \in Turns \cup Before
  BY RowsAre DEF ChatInv
<1>2. IF b \in Turns THEN Written("answer", turn[b], stream[b], outcome[b])
      ELSE outcome[b] = "answer"
  BY DEF ChatInv, RowsAgree, Usable
<1> HIDE DEF b
<1>3. CASE b \in Turns
  <2>1. /\ outcome[b] \in {"none", "answer", "error", "withdrawn", "silence"}
        /\ turn[b].pc \notin Unsaved /\ Sent(b)
    BY <1>2, <1>3 DEF Written, Sent, StreamAt
  <2>2. outcome[b] = "none" => open = b
    BY <1>3, <2>1 DEF ChatInv, OpenIsLast
  <2> QED
    BY <1>3, <2>1, <2>2 DEF b, GivenUp
<1>4. CASE b \notin Turns
  BY <1>2, <1>4 DEF b
<1> QED
  BY <1>3, <1>4

\* A turn that loads the history and was not given up is the one the user waits for.
LEMMA LoadsForTheUser ==
    ASSUME ChatInv, NEW t \in Turns, turn[t].pc = "load", ~GivenUp(t)
    PROVE  open = t
<1>1. stream[t].pc # "none" /\ stream[t].end = "none"
  BY TurnIs DEF Agree
<1>2. outcome[t] = "none"
  BY <1>1, TurnIs DEF Agree, GivenUp, Answered, Outcomes
<1> QED
  BY <1>1, <1>2 DEF ChatInv, OpenIsLast, Sent, StreamAt

LEMMA LoadsLastAnswer ==
    ASSUME ChatInv, NEW t \in Turns, LoadHistory(t), ~GivenUp(t)
    PROVE  FollowsLastAnswer(t)
<1>8. SUFFICES ASSUME turn'[t].base = LastQuery(turn[t].session) PROVE FollowsLastAnswer(t)
  <2>1. ASSUME turn'[t].base = NoBase, faults' > faults PROVE FollowsLastAnswer(t)
    BY <2>1 DEF FollowsLastAnswer, NoBase
  <2> QED
    BY <2>1, LoadHistoryChat
<1> DEFINE s == turn[t].session
           n == Len(rows[s])
           found == {i \in 1..n : i > n - MaxLoaded /\ Usable(rows[s][i])}
           base == LastQuery(s)
           b == turn'[t].base.turn
<1>1. turn[t].pc = "load" /\ turn[t] \in Task /\ turn \in [Turns -> Task] /\ TypeOK
  BY TurnIs DEF LoadHistory, At
<1>2. s \in Sessions
  BY <1>1, TurnIs DEF Agree, Unsaved, Task
<1>3. turn'[t].base = base
  BY <1>8
<1>4. n \in Nat /\ DOMAIN rows[s] = 1..n /\ MaxLoaded \in Nat
  BY <1>1, <1>2, Typed, LenProperties, BoundsAssumption
<1>5. \A i \in Answers(s) : i \in 1..n /\ Usable(rows[s][i])
  BY <1>2, <1>4, AnswersHaveRows DEF Answers
<1>6. CASE found = {}
  <2>1. b = Null
    <3>1. base = NoBase
      BY <1>6 DEF LastQuery
    <3>2. NoBase.turn = Null
      BY DEF NoBase
    <3> QED
      BY <1>3, <3>1, <3>2
  <2>2. \A i \in Answers(s) : i <= n - MaxLoaded
    BY <1>4, <1>5, <1>6
  <2> QED
    BY <2>1, <2>2 DEF FollowsLastAnswer
<1>7. CASE found # {}
  <2> DEFINE i == Max(found)
  <2>1. i \in found /\ \A j \in found : j <= i
    <3>1. found \in SUBSET (1..n)
      OBVIOUS
    <3> HIDE DEF found, n
    <3> QED
      BY <1>4, <1>7, <3>1, MaxIs
  <2>2. b = rows[s][i].turn
    <3>1. base = [turn |-> rows[s][i].turn, context |-> rows[s][i].context]
      BY <1>7 DEF LastQuery
    <3> HIDE DEF base, i
    <3> QED
      BY <1>3, <3>1
  <2> HIDE DEF i, b
  <2>3. i \in DOMAIN rows[s] /\ Usable(rows[s][i]) /\ i > n - MaxLoaded
    BY <1>4, <2>1
  <2>4. b \in Turns \cup Before /\ b # Null
    BY <1>1, <1>2, <2>2, <2>3, RowsAre, NoNull
  <2>5. GivenUp(b) \/ outcome[b] = "answer"
    <3>1. \/ GivenUp(b) \/ outcome[b] = "answer"
          \/ b \in Turns /\ open = b /\ turn[b].pc \notin Unsaved
      BY <1>2, <2>2, <2>3, RowsAreAnswers
    <3>2. open = t
      BY <1>1, LoadsForTheUser
    <3> QED
      BY <1>1, <3>1, <3>2 DEF Unsaved
  <2>6. ASSUME outcome[b] = "answer" PROVE i \in Answers(s) /\ i = Max(Answers(s))
    <3>1. i \in Answers(s)
      BY <2>2, <2>3, <2>6 DEF Answers
    <3>2. ASSUME NEW j \in Answers(s) PROVE j <= i
      <4>1. j \in 1..n /\ Usable(rows[s][j]) /\ i \in 1..n
        BY <1>4, <1>5, <2>3
      <4>2. CASE j > n - MaxLoaded
        BY <2>1, <4>1, <4>2
      <4>3. CASE ~(j > n - MaxLoaded)
        <5> HIDE DEF n
        <5> QED
          BY <1>4, <2>3, <4>1, <4>3
      <4> QED
        BY <4>2, <4>3
    <3>3. Answers(s) \in SUBSET (1..n) /\ Answers(s) # {}
      BY <1>5, <3>1
    <3> HIDE DEF n, found
    <3>4. Max(Answers(s)) \in Answers(s) /\ \A j \in Answers(s) : j <= Max(Answers(s))
      BY <1>4, <3>3, MaxIs
    <3>5. Max(Answers(s)) <= i /\ i <= Max(Answers(s)) /\ i \in Nat /\ Max(Answers(s)) \in Nat
      BY <1>4, <3>1, <3>2, <3>3, <3>4
    <3> QED
      BY <3>1, <3>5
  <2> QED
    BY <2>2, <2>4, <2>5, <2>6 DEF FollowsLastAnswer, b
<1> QED
  BY <1>6, <1>7

\* A turn follows up on the last answer the user was given in its session, unless that has
\* no row or lies too far back, its history could not be loaded, or a turn the user had
\* given up on was saved after it.  Explanations and questions back are no answers.
THEOREM FollowUps == Spec => FollowUpContext
<1>1. ASSUME ChatInv
      PROVE  \A t \in Turns : LoadHistory(t) /\ ~GivenUp(t) => FollowsLastAnswer(t)
  BY <1>1, LoadsLastAnswer
<1> QED
  BY <1>1, ChatInvariant, PTL DEF FollowUpContext

-----------------------------------------------------------------------------
(* The contract of the chat *)

LEMMA ContractInit == Init => Contract!Init
BY DEF Init, Contract!Init

\* What the user does and what comes back are steps of the contract, the rest is not seen.
LEMMA ContractStep ==
    ASSUME ChatInv, [Next]_vars
    PROVE  [Contract!Next]_<<shown, open>>
<1>1. ASSUME NEW t \in Turns, Send(t) PROVE Contract!Ask
  <2>1. open = Null /\ open' = t /\ shown' = Append(shown, Question(t))
    BY <1>1 DEF Send
  <2>2. \A u \in Turns : Sent(u) => u < t
    <3>1. stream[t].pc = "none"
      BY <1>1 DEF Send, StreamAt
    <3> QED
      BY <3>1, TurnsAre DEF ChatInv, OpenIsLast, Sent, StreamAt
  <2>3. \A i \in DOMAIN shown : shown[i].turn < t
    BY <2>2, ShownAre DEF ChatInv, ShownIsSent
  <2> QED
    BY <2>1, <2>3, TurnsAre DEF Contract!Ask, Contract!Question, Question
<1>2. ASSUME NEW t \in Turns, Read(t) \/ Break(t) PROVE Contract!Answered \/ Contract!Silence
  BY <1>2, NoNull DEF Read, Break, Contract!Answered, Contract!Silence, Contract!Reply, Reply
<1>3. ASSUME Cancel PROVE Contract!Withdraw
  BY <1>3, WithdrawnIs DEF Cancel, ChatInv, ShownIsSent, Contract!Withdraw
<1>4. ASSUME Reset PROVE Contract!Clear
  BY <1>4 DEF Reset, Abandoned, Contract!Clear
<1>5. ASSUME NEW t \in Turns, Disconnected(t) \/ Serve(t) \/ Compute(t) \/ Emit(t)
      PROVE  UNCHANGED <<shown, open>>
  BY <1>5 DEF Disconnected, Serve, Compute, Emit, Accept, GetEvent, Resume, WaitTimesOut, Start,
              LoadHistory, Run, Write, Retitle, client
<1>6. ASSUME SessionCreated \/ \E s \in Sessions : Delete(s) PROVE UNCHANGED <<shown, open>>
  BY <1>6 DEF SessionCreated, Delete, client
<1>7. CASE UNCHANGED vars
  BY <1>7 DEF vars, client
<1> QED
  BY <1>1, <1>2, <1>3, <1>4, <1>5, <1>6, <1>7 DEF Next, Contract!Next

\* Whatever the server, the network and other clients do, the user sees a chat: questions
\* in order, one open at a time, and no reply that is doubled, late or of another question.
THEOREM KeepsChat == Spec => KeepsChatContract
<1>1. Init => Contract!Init
  BY ContractInit
<1>2. ChatInv /\ [Next]_vars => [Contract!Next]_<<shown, open>>
  BY ContractStep
<1> QED
  BY <1>1, <1>2, ChatInvariant, PTL DEF Spec, KeepsChatContract, Contract!Spec
=============================================================================
