----------------------------- MODULE ChatStream -----------------------------
(***************************************************************************)
(* A chat from the browser to the history table and back: the Angular      *)
(* client (angular-test chat.service.ts), the event stream of              *)
(* api/v1/endpoints/query.py, the task that computes a turn                *)
(* (query_service.execute_nl_query), and the rows of query_executions the  *)
(* next turn of the session starts from (load_history, write_history).     *)
(*                                                                         *)
(* One browser tab, turns numbered in the order they are sent.  The client *)
(* is atomic between two user or network events, the stream and the task   *)
(* between two awaits.  An abort reaches the handler of the request before *)
(* the next click.                                                         *)
(***************************************************************************)
EXTENDS Integers, Sequences, FiniteSets, FiniteSetsExt

CONSTANTS
    Null,
    MaxLoaded,    \* _MAX_TURNS: rows load_history reads
    MaxTurns,     \* bound: questions sent
    MaxSessions,  \* bound: sessions created
    MaxEvents,    \* bound: progress events in a queue
    MaxFaults     \* bound: broken connections, lost history writes, failed loads,
                  \* failed requests for a session, deleted sessions

Turns == 1..MaxTurns
Sessions == 1..MaxSessions

\* Turns of a stored session, shown before the page was loaded.
Before == {-1, 0}

ASSUME NullAssumption == Null \notin Turns \cup Sessions \cup Before
ASSUME BoundsAssumption ==
    /\ MaxLoaded \in Nat \ {0} /\ MaxTurns \in Nat /\ MaxEvents \in Nat \ {0}
    /\ MaxSessions \in Nat \ {0} /\ MaxFaults \in Nat

VARIABLES
    shown,     \* messages of the chat service
    open,      \* the send whose request is in flight: isLoading, abortController
    session,   \* sessionId of the chat service
    creating,  \* POST /sessions in flight
    made,      \* sessions made so far
    kept,      \* rows of chat_sessions
    turn,      \* the task of each turn
    stream,    \* the event stream of each turn
    queue,     \* event_queue of each turn: how many events are in it
    rows,      \* query_executions of each session, oldest first
    outcome,   \* history: what the user saw become of a turn
    faults

client == <<shown, open, session, creating>>
vars == <<client, made, kept, turn, stream, queue, rows, outcome, faults>>

Question(t) == [turn |-> t, role |-> "user"]
Reply(t) == [turn |-> t, role |-> "reply"]

\* What a turn can come to: a query that was answered, an explanation of the
\* last result (explain_result), a question back, or an error.
TurnKinds == {"answer", "explained", "clarification", "failed"}

\* What the user can see become of a turn; "silence" is an end without a bubble.
Outcomes == {"none", "answer", "explained", "clarification", "error", "withdrawn", "silence"}

Row == [turn: Turns \cup Before, kind: TurnKinds, context: BOOLEAN]
NoBase == [turn |-> Null, context |-> FALSE]

\* The request is not accepted yet, or the task was cancelled or waited for.
NoTask == [session |-> Null, pc |-> "none", kind |-> "none", cached |-> FALSE, base |-> NoBase]

TypeOK ==
    /\ shown \in Seq([turn: Turns, role: {"user", "reply"}]) /\ Len(shown) <= 2 * MaxTurns
    /\ open \in Turns \cup {Null}
    /\ session \in Sessions \cup {Null}
    /\ creating \in 0..MaxSessions /\ made + creating \in 0..MaxSessions
    /\ kept \subseteq 1..made
    /\ turn \in [Turns -> [session: Sessions \cup {Null},
                           pc: {"none", "start", "load", "run", "write", "title", "done"},
                           kind: TurnKinds \cup {"none"},
                           cached: BOOLEAN,
                           base: [turn: Turns \cup Before \cup {Null}, context: BOOLEAN]]]
    /\ stream \in [Turns -> [pc: {"none", "request", "wait", "yielded", "closed"},
                             end: {"none", "answer", "explained", "clarification", "error"}]]
    /\ queue \in [Turns -> 0..MaxEvents]
    /\ rows \in [Sessions -> Seq(Row)] /\ \A s \in Sessions : Len(rows[s]) <= MaxTurns + Cardinality(Before)
    /\ outcome \in [Turns \cup Before -> Outcomes]
    /\ faults \in 0..MaxFaults

\* What the stored session holds: an answer, then a clarification.
OldRows == <<[turn |-> -1, kind |-> "answer", context |-> TRUE],
             [turn |-> 0, kind |-> "clarification", context |-> FALSE]>>

\* The page is opened: init() finds a stored session, or asks for one.
Init ==
    /\ shown = <<>> /\ open = Null
    /\ \/ /\ session = 1 /\ creating = 0 /\ made = 1
          /\ rows = [s \in Sessions |-> IF s = 1 THEN OldRows ELSE <<>>]
       \/ /\ session = Null /\ creating = 1 /\ made = 0
          /\ rows = [s \in Sessions |-> <<>>]
    /\ kept = 1..made
    /\ turn = [t \in Turns |-> NoTask]
    /\ stream = [t \in Turns |-> [pc |-> "none", end |-> "none"]]
    /\ queue = [t \in Turns |-> 0]
    /\ outcome = [t \in Turns \cup Before |->
                    CASE t = -1 -> "answer" [] t = 0 -> "clarification" [] OTHER -> "none"]
    /\ faults = 0

At(t, pc) == turn[t].pc = pc
StreamAt(t, pc) == stream[t].pc = pc
Goto(t, r) == turn' = [turn EXCEPT ![t] = r]
Done(t) == At(t, "done")
Fault == faults < MaxFaults /\ faults' = faults + 1

-----------------------------------------------------------------------------
(* The browser *)

\* sendMessage: nothing is sent while a reply is awaited or without a session.
Send(t) ==
    /\ StreamAt(t, "none") /\ \A u \in 1..(t - 1) : ~StreamAt(u, "none")
    /\ open = Null /\ session # Null
    /\ shown' = Append(shown, Question(t)) /\ open' = t
    /\ stream' = [stream EXCEPT ![t].pc = "request"]
    /\ turn' = [turn EXCEPT ![t].session = session]
    /\ UNCHANGED <<session, creating, made, kept, queue, rows, outcome, faults>>

\* The reader has reached the end of the stream: a result or an error is shown.
\* A result JSON.parse refuses is skipped (a NaN in its rows), and nothing is.
Read(t) ==
    /\ open = t /\ stream[t].end # "none" /\ open' = Null
    /\ \/ shown' = Append(shown, Reply(t)) /\ outcome' = [outcome EXCEPT ![t] = stream[t].end]
       \/ /\ stream[t].end = "answer"
          /\ UNCHANGED shown /\ outcome' = [outcome EXCEPT ![t] = "silence"]
    /\ UNCHANGED <<session, creating, made, kept, turn, stream, queue, rows, faults>>

\* The request is refused or the connection breaks: an error bubble.
Break(t) ==
    /\ open = t /\ Fault
    /\ open' = Null /\ shown' = Append(shown, Reply(t))
    /\ outcome' = [outcome EXCEPT ![t] = "error"]
    /\ UNCHANGED <<session, creating, made, kept, turn, stream, queue, rows>>

\* The abort filters the question out of the messages.
Withdrawn == [i \in 1..(Len(shown) - 1) |-> shown[i]]

\* cancelQuery.
Cancel ==
    /\ open # Null
    /\ open' = Null /\ shown' = Withdrawn
    /\ outcome' = [outcome EXCEPT ![open] = "withdrawn"]
    /\ UNCHANGED <<session, creating, made, kept, turn, stream, queue, rows, faults>>

\* Fault variant: the request in flight is not aborted.
Abandoned_Not == open

\* The request in flight is aborted.
Abandoned == Null

\* resetChat: the old session stays the current one until the new one is there.
Reset ==
    /\ made + creating < MaxSessions
    /\ open' = Abandoned /\ shown' = <<>> /\ creating' = creating + 1
    /\ outcome' = IF open = Null THEN outcome ELSE [outcome EXCEPT ![open] = "withdrawn"]
    /\ UNCHANGED <<session, made, kept, turn, stream, queue, rows, faults>>

\* createNewSession: the reply of POST /sessions; a failure is logged only.
SessionCreated ==
    /\ creating > 0 /\ creating' = creating - 1
    /\ \/ /\ made' = made + 1 /\ session' = made + 1
          /\ kept' = kept \cup {made + 1} /\ UNCHANGED faults
       \/ Fault /\ UNCHANGED <<made, session, kept>>
    /\ UNCHANGED <<shown, open, turn, stream, queue, rows, outcome>>

-----------------------------------------------------------------------------
(* The event stream *)

\* The request is accepted; the generator is resumed after its first event, and
\* creates the task.
Accept(t) ==
    /\ StreamAt(t, "request")
    /\ Goto(t, [turn[t] EXCEPT !.pc = "start"])
    /\ stream' = [stream EXCEPT ![t].pc = "wait"]
    /\ UNCHANGED <<client, made, kept, queue, rows, outcome, faults>>

\* Fault variant: the queue is not looked at once the task is done.
GoesOn_TaskOnly(t) == ~Done(t)

\* The loop condition; both halves are read without an await between them.
GoesOn(t) == ~Done(t) \/ queue[t] > 0

\* To the next get(), or to the result or the error of the task.
Loop(t) ==
    \/ /\ GoesOn(t)
       /\ stream' = [stream EXCEPT ![t].pc = "wait"] /\ UNCHANGED turn
    \/ /\ ~GoesOn(t)
       /\ stream' = [stream EXCEPT ![t] =
            [pc |-> "closed", end |-> IF turn[t].kind = "failed" THEN "error" ELSE turn[t].kind]]
       /\ Goto(t, NoTask)

GetEvent(t) ==
    /\ StreamAt(t, "wait") /\ queue[t] > 0
    /\ stream' = [stream EXCEPT ![t].pc = "yielded"]
    /\ queue' = [queue EXCEPT ![t] = @ - 1]
    /\ UNCHANGED <<client, made, kept, turn, rows, outcome, faults>>

Resume(t) ==
    /\ StreamAt(t, "yielded") /\ Loop(t)
    /\ UNCHANGED <<client, made, kept, queue, rows, outcome, faults>>

\* Fault variant: get() is awaited without a timeout.
GivesUp_Never(t) == FALSE

\* get() has waited 0.5 s: the only way on when the task is done meanwhile.
GivesUp(t) == StreamAt(t, "wait") /\ queue[t] = 0

WaitTimesOut(t) ==
    /\ GivesUp(t) /\ Done(t) /\ Loop(t)
    /\ UNCHANGED <<client, made, kept, queue, rows, outcome, faults>>

\* A row of the turn, for the session it was asked in.
Saved(t) ==
    LET row == [turn |-> t, kind |-> turn[t].kind,
                context |-> turn[t].kind = "answer" /\ ~turn[t].cached]
    IN  [rows EXCEPT ![turn[t].session] = Append(@, row)]

\* A cancelled task that is at its commit: the row is there or not.
MaybeSaved(t) ==
    \/ UNCHANGED rows
    \/ At(t, "write") /\ turn[t].session \in kept /\ rows' = Saved(t)

\* The client has gone: its stream is cancelled in get(), and cancels the task;
\* or it is thrown away where it yields, and the task runs on.
Disconnected(t) ==
    /\ open # t
    /\ \/ StreamAt(t, "wait") /\ Goto(t, NoTask) /\ MaybeSaved(t)
       \/ stream[t].pc \in {"request", "yielded"} /\ UNCHANGED <<turn, rows>>
    /\ stream' = [stream EXCEPT ![t].pc = "closed"]
    /\ queue' = [queue EXCEPT ![t] = 0]
    /\ UNCHANGED <<client, made, kept, outcome, faults>>

-----------------------------------------------------------------------------
(* The task: execute_nl_query *)

\* Progress events. Nobody reads the queue of a stream that was thrown away.
Emitted(t) == IF StreamAt(t, "closed") THEN queue ELSE [queue EXCEPT ![t] = @ + 1]

\* The task returns or raises; nobody waits for it once its stream is thrown away.
Finished(t, kind) ==
    Goto(t, IF StreamAt(t, "closed") THEN NoTask ELSE [NoTask EXCEPT !.pc = "done", !.kind = kind])

\* The result of another request, no row; the cached SQL; or the pipeline.
Start(t) ==
    /\ At(t, "start")
    /\ \/ Finished(t, "answer") /\ UNCHANGED queue
       \/ /\ Goto(t, [turn[t] EXCEPT !.pc = "write", !.kind = "answer", !.cached = TRUE])
          /\ queue' = Emitted(t)
       \/ Goto(t, [turn[t] EXCEPT !.pc = "load"]) /\ queue' = Emitted(t)
    /\ UNCHANGED <<client, made, kept, stream, rows, outcome, faults>>

\* Fault variant: rows that are no successful query turns count, too.
Usable_Any(row) == row.kind # "none"

\* Query turns that succeeded.
Usable(row) == row.kind = "answer"

\* The row the SQL, the columns and the context of the last query are taken from.
LastQuery(s) ==
    LET n == Len(rows[s])
        found == {i \in 1..n : i > n - MaxLoaded /\ Usable(rows[s][i])}
    IN  IF found = {} THEN NoBase
        ELSE LET row == rows[s][Max(found)] IN [turn |-> row.turn, context |-> row.context]

Loaded(t, base) == Goto(t, [turn[t] EXCEPT !.pc = "run", !.base = base])

\* A load that fails is an empty history, and the turn goes on.
LoadHistory(t) ==
    /\ At(t, "load")
    /\ \/ Loaded(t, LastQuery(turn[t].session)) /\ UNCHANGED faults
       \/ Loaded(t, NoBase) /\ Fault
    /\ UNCHANGED <<client, made, kept, stream, queue, rows, outcome>>

Emit(t) ==
    /\ At(t, "run") /\ queue[t] < MaxEvents
    /\ ~StreamAt(t, "closed") /\ queue' = Emitted(t)
    /\ UNCHANGED <<client, made, kept, turn, stream, rows, outcome, faults>>

\* The nodes of QueryPipeline up to write_history; or they raise or time out.
\* Without a last result there is nothing to explain, and the reply asks back.
Run(t) ==
    /\ At(t, "run")
    /\ \/ \E kind \in TurnKinds :
            /\ kind = "explained" => turn[t].base.turn # Null
            /\ Goto(t, [turn[t] EXCEPT !.pc = "write", !.kind = kind])
       \/ Finished(t, "failed")
    /\ UNCHANGED <<client, made, kept, stream, queue, rows, outcome, faults>>

\* The cached path returns, the pipeline goes on to the title of the session.
AfterWrite(t) ==
    IF turn[t].cached THEN Finished(t, "answer") ELSE Goto(t, [turn[t] EXCEPT !.pc = "title"])

\* write_history, or the write of the cached path: an error is swallowed, and
\* a session that is gone is one.
Write(t) ==
    /\ At(t, "write")
    /\ AfterWrite(t)
    /\ \/ turn[t].session \in kept /\ rows' = Saved(t) /\ UNCHANGED faults
       \/ turn[t].session \notin kept /\ UNCHANGED <<rows, faults>>
       \/ Fault /\ UNCHANGED rows
    /\ UNCHANGED <<client, made, kept, stream, queue, outcome>>

\* The title and the time of update are read and written back: a session that
\* is gone is left alone, one that goes in between makes the update raise.
Retitle(t) ==
    /\ At(t, "title")
    /\ \/ Finished(t, turn[t].kind)
       \/ turn[t].session \notin kept /\ Finished(t, "failed")
    /\ UNCHANGED <<client, made, kept, stream, queue, rows, outcome, faults>>

\* delete_session, by another client.
Delete(s) ==
    /\ s \in kept /\ Fault
    /\ kept' = kept \ {s} /\ rows' = [rows EXCEPT ![s] = <<>>]
    /\ UNCHANGED <<client, made, turn, stream, queue, outcome>>

-----------------------------------------------------------------------------
Serve(t) ==
    \/ Accept(t) \/ GetEvent(t) \/ Resume(t) \/ WaitTimesOut(t)
Compute(t) ==
    \/ Start(t) \/ LoadHistory(t) \/ Run(t) \/ Write(t) \/ Retitle(t)

Next ==
    \/ \E t \in Turns : \/ Send(t) \/ Read(t) \/ Break(t) \/ Disconnected(t)
                        \/ Serve(t) \/ Compute(t) \/ Emit(t)
    \/ Cancel \/ Reset \/ SessionCreated
    \/ \E s \in Sessions : Delete(s)

Spec == Init /\ [][Next]_vars

\* The client reads, the server runs, and what a task awaits returns or times
\* out; nobody has to click.
FairSpec ==
    /\ Spec
    /\ \A t \in Turns : WF_vars(Read(t)) /\ WF_vars(Serve(t)) /\ WF_vars(Compute(t))

-----------------------------------------------------------------------------
\* Nothing a task has put is lost: when the result or the error goes out, all
\* its progress events are out.
EventsBeforeResult ==
    \A t \in Turns : stream[t].end # "none" => queue[t] = 0

\* The rows of a session are in the order of its turns as the user saw them,
\* and a turn has one at most; a turn that was given up on may come late.
Replied(t) == outcome[t] \in {"answer", "explained", "clarification"}
HistoryInOrder ==
    \A s \in Sessions : \A i, j \in DOMAIN rows[s] :
        /\ rows[s][i].turn = rows[s][j].turn => i = j
        /\ i < j /\ Replied(rows[s][i].turn) /\ Replied(rows[s][j].turn)
              => rows[s][i].turn < rows[s][j].turn

\* The stream and the history of a session, however turns overlap, are in order.
ChatIsSound == TypeOK /\ EventsBeforeResult /\ HistoryInOrder

\* What a turn is taken to follow up on is the last answer the user was given
\* in this session and that has a row, unless that lies MaxLoaded rows back, or
\* unless a turn the user has given up on, or lost, was saved after it.  With
\* nothing to follow up on, that answer lies so far back, or the load has failed.
GivenUp(t) == outcome[t] \in {"withdrawn", "error", "silence"}
Answers(s) == {i \in DOMAIN rows[s] : outcome[rows[s][i].turn] = "answer"}
FollowsLastAnswer(t) ==
    LET s == turn[t].session  b == turn'[t].base.turn  n == Len(rows[s])
    IN  IF b = Null
        THEN (\A i \in Answers(s) : i <= n - MaxLoaded) \/ faults' > faults
        ELSE \/ GivenUp(b)
             \/ \E i \in Answers(s) : rows[s][i].turn = b /\ i = Max(Answers(s))
FollowUpContext == [][\A t \in Turns : LoadHistory(t) /\ ~GivenUp(t) => FollowsLastAnswer(t)]_vars

\* The chat the user sees keeps its contract, whatever the server does.
Contract == INSTANCE ChatContract
KeepsChatContract == Contract!Spec

\* A question does not keep the chat busy for ever.
LoadingEnds == open # Null ~> open = Null
=============================================================================
