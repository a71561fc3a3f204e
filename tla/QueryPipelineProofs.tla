------------------------ MODULE QueryPipelineProofs ------------------------
(***************************************************************************)
(* Theorems about one chat turn, for every set of tables, every catalogue  *)
(* and every retry budget.                                                 *)
(***************************************************************************)
EXTENDS QueryPipeline, TLAPS

\* A SQL text to run is a SQL text or nothing.
LEMMA SqlToRunType ==
    ASSUME NEW s \in GraphState
    PROVE  SqlToRun(s) \in MaybeSql
BY DEF SqlToRun, GraphState

\* The tables the validator misses are tables.
LEMMA MissingTablesType ==
    ASSUME NEW q \in MaybeSql, NEW schema
    PROVE  MissingTables(q, schema) \in SUBSET Tables
BY DEF MissingTables, MaybeSql, Sql

\* resolve_turn leaves a well-typed state whatever the LLM's verdict.
LEMMA ResolvedType ==
    ASSUME NEW s \in GraphState, NEW v \in Verdict
    PROVE  Resolved(s, v) \in GraphState
<1>1. Clarify(s) \in GraphState
  BY DEF Clarify, GraphState, Actions
<1>2. ASSUME NEW a \in Actions, NEW m \in FollowUpModes
      PROVE  [s EXCEPT !.action = a, !.mode = m] \in GraphState
  BY <1>2 DEF GraphState
<1>3. ASSUME NEW t \in GraphState PROVE ForgetPriorTurn(t) \in GraphState
  BY <1>3 DEF ForgetPriorTurn, GraphState
<1>4. v.action \in Actions /\ v.mode \in FollowUpModes /\ s.mode \in FollowUpModes
  BY DEF Verdict, Actions, GraphState
<1> DEFINE flagged == IF v.action = "follow_up_query_refinement" /\ ~UseFollowUpPath
                      THEN "query" ELSE v.action
           switch == s.lqc # NoContext /\ v.topicSwitch
           heuristic == /\ s.lqc # NoContext /\ ~switch /\ v.signals
                        /\ flagged # "follow_up_query_refinement"
           action == IF heuristic THEN "follow_up_query_refinement" ELSE flagged
           mode == IF heuristic THEN "rewrite_sql" ELSE v.mode
           kept == IF action = "follow_up_query_refinement" THEN mode ELSE s.mode
           next == [s EXCEPT !.action = action, !.mode = kept]
<1>5. action \in Actions /\ kept \in FollowUpModes
  BY <1>4 DEF Actions, FollowUpModes
<1>6. next \in GraphState
  <2> HIDE DEF action, kept
  <2> QED BY <1>2, <1>5
<1>7. Resolved(s, v) \in {Clarify(s), next, ForgetPriorTurn(next)}
  BY DEF Resolved
<1> QED
  <2> HIDE DEF next
  <2> QED BY <1>1, <1>3, <1>6, <1>7

\* Every step of a turn keeps the types.
LEMMA TypeStep == TypeOK /\ [Next]_vars => TypeOK'
<1> SUFFICES ASSUME TypeOK, [Next]_vars PROVE TypeOK'
  OBVIOUS
<1> USE BudgetAssumption, NamesAssumption
<1>1. CASE LoadHistory
  <2>1. PICK h \in HistoryBundle :
          st' = [st EXCEPT !.history = h.rows, !.lqc = h.lqc, !.preview = h.preview]
    BY <1>1 DEF LoadHistory
  <2>2. h.rows \in BOOLEAN /\ h.preview \in BOOLEAN /\ h.lqc \in LastQueryContext \cup {NoContext}
    BY DEF HistoryBundle
  <2>3. st' \in GraphState
    BY <2>1, <2>2 DEF TypeOK, GraphState
  <2> QED BY <1>1, <2>3 DEF LoadHistory, At, Quiet, TypeOK, Nodes
<1>2. CASE ResolveTurn
  <2>1. st' \in GraphState
    <3>1. CASE st' = [st EXCEPT !.action = "show_schema"]
      BY <3>1 DEF TypeOK, GraphState, Actions
    <3>2. CASE st' = [st EXCEPT !.action = "query"]
      BY <3>2 DEF TypeOK, GraphState, Actions
    <3>3. CASE \E v \in Verdict : st' = Resolved(st, v)
      BY <3>3, ResolvedType DEF TypeOK
    <3> QED BY <1>2, <3>1, <3>2, <3>3 DEF ResolveTurn
  <2>2. pc' \in Nodes \cup Ended
    BY <1>2 DEF ResolveTurn, FollowResolveEdge, ResolveEdges, Nodes, Ended
  <2> QED BY <1>2, <2>1, <2>2 DEF ResolveTurn, At, Quiet, TypeOK
<1>3. CASE HandleFollowUp
  <2>1. st' \in GraphState
    <3>1. CASE st' = ReuseAnswer(st)
      <4>1. CASE st.lqc # NoContext
        <5>1. st.lqc.sql \in MaybeSql
          BY <4>1 DEF TypeOK, GraphState, LastQueryContext, MaybeSql
        <5> QED BY <3>1, <5>1 DEF ReuseAnswer, Clarify, TypeOK, GraphState, Actions
      <4> QED BY <3>1, <4>1 DEF ReuseAnswer, Clarify, TypeOK, GraphState, Actions
    <3>2. CASE \E q \in MaybeSql : st' = RewriteSql(st, q)
      <4>1. PICK q \in MaybeSql : st' = RewriteSql(st, q)
        BY <3>2
      <4>2. [st EXCEPT !.action = "query"] \in GraphState
        BY DEF TypeOK, GraphState, Actions
      <4>3. [st EXCEPT !.generatedSql = q, !.sql = q, !.action = "follow_up_rewrite_sql"]
              \in GraphState
        BY DEF TypeOK, GraphState, Actions
      <4> QED BY <4>1, <4>2, <4>3 DEF RewriteSql
    <3>3. CASE st' = [st EXCEPT !.action = "query"]
      BY <3>3 DEF TypeOK, GraphState, Actions
    <3> QED BY <1>3, <3>1, <3>2, <3>3 DEF HandleFollowUp
  <2>2. pc' \in Nodes \cup Ended
    BY <1>3 DEF HandleFollowUp, RouteAfterFollowUp, Nodes
  <2> QED BY <1>3, <2>1, <2>2 DEF HandleFollowUp, At, Quiet, TypeOK
<1>4. CASE BuildContext
  <2>1. st' \in GraphState
    <3>1. PICK linked \in SUBSET Catalog :
            st' = [st EXCEPT !.prompt = IF st.scoped THEN "scoped" ELSE "plain",
                             !.schema = linked, !.cached = linked]
      BY <1>4 DEF BuildContext
    <3>2. (IF st.scoped THEN "scoped" ELSE "plain") \in {"none", "plain", "scoped"}
      OBVIOUS
    <3> QED BY <3>1, <3>2 DEF TypeOK, GraphState
  <2> QED BY <1>4, <2>1 DEF BuildContext, At, Quiet, TypeOK, Nodes
<1>5. CASE SimilarityCheck
  <2>1. st' \in GraphState
    <3>1. CASE st' = [st EXCEPT !.shortcut = FALSE]
      BY <3>1 DEF TypeOK, GraphState
    <3>2. ASSUME NEW q \in Sql,
                 st' = [st EXCEPT !.shortcut = TRUE, !.sql = q, !.generatedSql = q]
          PROVE  st' \in GraphState
      BY <3>2 DEF TypeOK, GraphState, MaybeSql
    <3> QED BY <1>5, <3>1, <3>2 DEF SimilarityCheck
  <2>2. pc' \in Nodes
    BY <1>5 DEF SimilarityCheck, Nodes
  <2> QED BY <1>5, <2>1, <2>2 DEF SimilarityCheck, At, Quiet, TypeOK
<1>6. CASE ComposeSql
  <2>1. st' \in GraphState
    <3>1. ClarifyError(st, "attempts") \in GraphState
      BY DEF ClarifyError, TypeOK, GraphState, Actions, Errors
    <3>2. ScopeViolation(st) \in GraphState
      BY DEF ScopeViolation, ClarifyError, TypeOK, GraphState, Actions, Errors, MaybeSql
    <3>3. NothingComposed(st) \in GraphState
      <4>1. [st EXCEPT !.composeRetry = @ + 1, !.action = "no_sql_retry",
                       !.generatedSql = NoSql] \in GraphState
        <5>1. st.composeRetry + 1 \in Nat /\ NoSql \in MaybeSql /\ "no_sql_retry" \in Actions
          BY DEF TypeOK, GraphState, Actions, MaybeSql
        <5> QED BY <5>1 DEF TypeOK, GraphState
      <4>2. ClarifyError(st, "no_sql") \in GraphState
        BY DEF ClarifyError, TypeOK, GraphState, Actions, Errors
      <4> QED BY <4>1, <4>2 DEF NothingComposed
    <3>4. \A q \in Sql : Composed(st, q) \in GraphState
      BY DEF Composed, TypeOK, GraphState, Actions, MaybeSql
    <3> QED BY <1>6, <3>1, <3>2, <3>3, <3>4 DEF ComposeSql
  <2>2. pc' \in Nodes
    BY <1>6 DEF ComposeSql, RouteAfterCompose, Nodes
  <2> QED BY <1>6, <2>1, <2>2 DEF ComposeSql, At, Quiet, TypeOK
<1>7. CASE ValidateSql
  <2>1. MissingTables(st.generatedSql, st.schema) \in SUBSET Tables
    BY MissingTablesType DEF TypeOK, GraphState
  <2>2. st' \in GraphState
    BY <1>7, <2>1 DEF ValidateSql, Validated, TypeOK, GraphState
  <2>3. pc' \in Nodes
    BY <1>7 DEF ValidateSql, RouteAfterValidate, Nodes
  <2> QED BY <1>7, <2>2, <2>3 DEF ValidateSql, At, Quiet, TypeOK
<1>8. CASE RebuildContext
  <2>1. ASSUME NEW base \in SUBSET Catalog, NEW n \in 0..MaxRelinks
        PROVE  Rebuilt(st, base, n) \in GraphState
    BY <2>1 DEF Rebuilt, TypeOK, GraphState
  <2>2. RebuildFailed(st) \in GraphState
    BY DEF RebuildFailed, TypeOK, GraphState, Errors
  <2>3. st.cached \in SUBSET Catalog /\ st.relinks \in 0..MaxRelinks
    BY DEF TypeOK, GraphState
  <2>4. st.relinks < MaxRelinks => st.relinks + 1 \in 0..MaxRelinks
    BY <2>3
  <2>5. st' \in GraphState
    BY <1>8, <2>1, <2>2, <2>3, <2>4 DEF RebuildContext
  <2>6. pc' \in Nodes
    BY <1>8 DEF RebuildContext, RouteAfterRebuild, Nodes
  <2> QED BY <1>8, <2>5, <2>6 DEF RebuildContext, At, Quiet, TypeOK
<1>9. CASE HandleError
  <2>1. Exhausted(st) \in GraphState
    BY DEF Exhausted, ClarifyError, TypeOK, GraphState, Actions, Errors
  <2>2. AutoFixed(st) \in GraphState
    <3>1. SqlToRun(st) \in MaybeSql /\ NoSql \in MaybeSql /\ st.retry + 1 \in Nat
      BY SqlToRunType DEF TypeOK, GraphState, MaybeSql
    <3> QED BY <3>1 DEF AutoFixed, TypeOK, GraphState
  <2>3. \A q \in Sql : LlmFixed(st, q) \in GraphState
    <3>1. \A q \in Sql : q \in MaybeSql
      BY DEF MaybeSql
    <3>2. NoSql \in MaybeSql /\ st.retry + 1 \in Nat /\ "query" \in Actions
      BY DEF TypeOK, GraphState, MaybeSql, Actions
    <3> QED BY <3>1, <3>2 DEF LlmFixed, TypeOK, GraphState
  <2>4. st' \in GraphState
    BY <1>9, <2>1, <2>2, <2>3 DEF HandleError
  <2>5. pc' \in Nodes
    BY <1>9 DEF HandleError, RouteAfterHandleError, TargetNodeRead, Nodes
  <2> QED BY <1>9, <2>4, <2>5 DEF HandleError, At, Quiet, TypeOK
<1>10. CASE ExecuteSql
  <2>1. \A e \in {"db", "db_distinct"} : ExecutionFailed(st, e) \in GraphState
    BY SqlToRunType DEF ExecutionFailed, TypeOK, GraphState, Errors
  <2>2. \A o \in {"empty", "rows"} : Executed(st, o) \in GraphState
    BY SqlToRunType DEF Executed, TypeOK, GraphState, Errors
  <2>3. st' \in GraphState
    BY <1>10, <2>1, <2>2 DEF ExecuteSql
  <2>4. pc' \in Nodes
    BY <1>10 DEF ExecuteSql, RouteAfterExecute, Nodes
  <2> QED BY <1>10, <2>3, <2>4 DEF ExecuteSql, At, TypeOK
<1>11. CASE AnswerFromState
  <2>1. st' \in GraphState
    BY <1>11 DEF AnswerFromState, Clarify, TypeOK, GraphState, Actions
  <2> QED BY <1>11, <2>1 DEF AnswerFromState, At, Quiet, TypeOK, Nodes
<1>12. CASE WriteHistory
  <2>1. HistoryRow(st) \in SavedRow
    BY SqlToRunType DEF HistoryRow, TurnType, SavedRow, TypeOK, GraphState
  <2> QED BY <1>12, <2>1 DEF WriteHistory, At, TypeOK, Nodes
<1>13. CASE Respond
  BY <1>13 DEF Respond, Reply, TypeOK, GraphState, MaybeSql, Ended
<1>14. CASE NodeRaises
  BY <1>14 DEF NodeRaises, TypeOK, Ended
<1>15. CASE PipelineTimeout
  BY <1>15 DEF PipelineTimeout, TypeOK, Ended
<1>16. CASE UNCHANGED vars
  BY <1>16 DEF vars, TypeOK
<1> QED BY <1>1, <1>2, <1>3, <1>4, <1>5, <1>6, <1>7, <1>8, <1>9, <1>10, <1>11,
           <1>12, <1>13, <1>14, <1>15, <1>16 DEF Next, Node

\* The merged partial updates of the nodes keep GraphState, and the saved row
\* and the reply of execute_nl_query, well typed.
THEOREM TypeCorrect == Spec => []TypeOK
<1>1. Init => TypeOK
  BY BudgetAssumption
  DEF Init, FreshState, TypeOK, GraphState, Nodes, MaybeSql, Actions, FollowUpModes, Errors
<1> QED BY <1>1, TypeStep, PTL DEF Spec

-----------------------------------------------------------------------------
\* What most nodes leave alone in GraphState.
KeepsProgress(s, t) ==
    /\ t.retry = s.retry /\ t.composeRetry = s.composeRetry
    /\ t.error = s.error /\ t.result = s.result /\ t.answer = s.answer

\* The invariant without VettedBeforeExecution, which is about SQL texts only.
ProgressInv ==
    /\ RetryBudget /\ RunsArePaidFor
    /\ FreshBeforeSql /\ NoResultBeforeEnd
    /\ FollowUpNodeByAction /\ ClarificationEndsTurn
    /\ ErrorEndsAsClarification /\ ReportedAnswerIsCurrent
    /\ ResultComesFromRun /\ EndAgreesWithRuns

\* The verdict of resolve_turn touches the action, the mode and the memory of
\* the previous turn, nothing else.
LEMMA ResolvedKeeps ==
    ASSUME NEW s \in GraphState, NEW v \in Verdict
    PROVE  KeepsProgress(s, Resolved(s, v))
BY DEF Resolved, Clarify, ForgetPriorTurn, GraphState, KeepsProgress

\* A node that asks back changes the action and the error, not the counters.
LEMMA AskingKeeps ==
    ASSUME NEW s \in GraphState, NEW e,
           NEW t \in {Clarify(s), ClarifyError(s, e), ScopeViolation(s), Exhausted(s)}
    PROVE  /\ t.action = "clarification"
           /\ t.retry = s.retry /\ t.composeRetry = s.composeRetry
           /\ t.result = s.result /\ t.answer = s.answer
<1>1. CASE t = Clarify(s)
  BY <1>1 DEF Clarify, GraphState
<1>2. ASSUME NEW f, t = ClarifyError(s, f)
      PROVE  /\ t.action = "clarification"
             /\ t.retry = s.retry /\ t.composeRetry = s.composeRetry
             /\ t.result = s.result /\ t.answer = s.answer
  BY <1>2 DEF ClarifyError, GraphState
<1>3. CASE t = ScopeViolation(s)
  BY <1>3 DEF ScopeViolation, ClarifyError, GraphState
<1> QED BY <1>1, <1>2, <1>3 DEF Exhausted

\* A correction costs exactly one retry.
LEMMA FixCostsRetry ==
    ASSUME NEW s \in GraphState, NEW t,
           t = AutoFixed(s) \/ \E q \in Sql : t = LlmFixed(s, q)
    PROVE  /\ t.retry = s.retry + 1 /\ t.composeRetry = s.composeRetry
           /\ t.result = s.result /\ t.answer = s.answer
           /\ t.action \in {s.action, "query"}
<1>1. CASE t = AutoFixed(s)
  BY <1>1 DEF AutoFixed, GraphState
<1>2. ASSUME NEW q \in Sql, t = LlmFixed(s, q)
      PROVE  /\ t.retry = s.retry + 1 /\ t.composeRetry = s.composeRetry
             /\ t.result = s.result /\ t.answer = s.answer
             /\ t.action \in {s.action, "query"}
  BY <1>2 DEF LlmFixed, GraphState
<1> QED BY <1>1, <1>2

\* A step before any SQL exists, to a node that is not past it.
LEMMA EarlyStep ==
    ASSUME TypeOK, TypeOK', ProgressInv, KeepsProgress(st, st'),
           pc \in BeforeSql, UNCHANGED <<row, reply, stored, dbRuns>>,
           pc' \in Nodes \ {"handle_follow_up", "write_history", "respond", "handle_error"},
           st'.action # "clarification"
    PROVE  ProgressInv'
BY DEF ProgressInv, RetryBudget, RunsArePaidFor, FreshBeforeSql, NoResultBeforeEnd,
       FollowUpNodeByAction, ClarificationEndsTurn, ErrorEndsAsClarification,
       ReportedAnswerIsCurrent, ResultComesFromRun, EndAgreesWithRuns, KeepsProgress, TypeOK, GraphState, AfterGraph,
       BeforeSql, AfterRun, Nodes, Ended

\* Every step of a turn keeps the counters, the error and the answer in line
\* with where the turn is.
LEMMA ProgressStep ==
    ASSUME TypeOK, TypeOK', ProgressInv, [Next]_vars
    PROVE  ProgressInv'
<1> USE BudgetAssumption
<1> USE DEF ProgressInv, RetryBudget, RunsArePaidFor, FreshBeforeSql, NoResultBeforeEnd,
        FollowUpNodeByAction, ClarificationEndsTurn, ErrorEndsAsClarification,
        ReportedAnswerIsCurrent, ResultComesFromRun, EndAgreesWithRuns, AfterGraph, BeforeSql, AfterRun, Nodes, Ended
<1>1. CASE LoadHistory
  <2>1. KeepsProgress(st, st') /\ st'.action = st.action
    BY <1>1 DEF LoadHistory, KeepsProgress, TypeOK, GraphState
  <2> QED BY <1>1, <2>1, EarlyStep DEF LoadHistory, At, Quiet
<1>2. CASE ResolveTurn
  <2>1. KeepsProgress(st, st')
    <3>1. CASE \E v \in Verdict : st' = Resolved(st, v)
      BY <3>1, ResolvedKeeps DEF TypeOK
    <3> QED BY <1>2, <3>1 DEF ResolveTurn, KeepsProgress, TypeOK, GraphState
  <2>2. pc = "resolve_turn" /\ UNCHANGED <<row, reply, stored, dbRuns>>
    BY <1>2 DEF ResolveTurn, At, Quiet
  <2>3. /\ pc' \in {"build_context", "handle_follow_up", "answer_from_state",
                    "write_history", "raised"}
        /\ st'.action = "clarification" => pc' = "write_history"
        /\ pc' = "handle_follow_up" => st'.action = "follow_up_query_refinement"
    BY <1>2 DEF ResolveTurn, FollowResolveEdge, RouteAfterResolve, ResolveEdges
  <2> QED BY <2>1, <2>2, <2>3 DEF KeepsProgress, TypeOK, GraphState
<1>3. CASE HandleFollowUp
  <2>1. /\ st'.retry = st.retry /\ st'.composeRetry = st.composeRetry
        /\ st'.error = st.error /\ st'.result = st.result
        /\ st'.answer \in {st.answer, "prior"}
        /\ st'.answer = "prior" => pc' = "execute_sql"
        /\ st'.action = "clarification" => pc' = "write_history"
        /\ pc' \in {"build_context", "execute_sql", "write_history"}
    <3>1. CASE st' = ReuseAnswer(st)
      <4>1. CASE st.lqc # NoContext /\ st.lqc.answered
        <5>1. st.lqc.sql # NoSql
          BY <4>1, NamesAssumption DEF TypeOK, GraphState, LastQueryContext
        <5>2. st' = [st EXCEPT !.answer = "prior", !.generatedSql = st.lqc.sql,
                               !.sql = st.lqc.sql]
          BY <3>1, <4>1 DEF ReuseAnswer
        <5>3. st'.sql # NoSql /\ st'.action = st.action /\ st'.answer = "prior"
          BY <5>1, <5>2 DEF TypeOK, GraphState
        <5>4. st.action = "follow_up_query_refinement" /\ pc' = RouteAfterFollowUp(st')
          BY <1>3 DEF HandleFollowUp, At
        <5>5. pc' = "execute_sql"
          BY <5>3, <5>4 DEF RouteAfterFollowUp
        <5> QED BY <5>2, <5>3, <5>4, <5>5 DEF TypeOK, GraphState
      <4>2. CASE ~(st.lqc # NoContext /\ st.lqc.answered)
        <5>1. st' = Clarify(st)
          BY <3>1, <4>2 DEF ReuseAnswer
        <5>2. pc' = RouteAfterFollowUp(st') /\ st.answer = "none"
          BY <1>3 DEF HandleFollowUp, At
        <5>3. st'.action = "clarification" /\ KeepsProgress(st, st')
          BY <5>1 DEF Clarify, KeepsProgress, TypeOK, GraphState
        <5>4. pc' = "write_history"
          BY <5>2, <5>3 DEF RouteAfterFollowUp
        <5> QED BY <5>2, <5>3, <5>4 DEF KeepsProgress
      <4> QED BY <4>1, <4>2
    <3>2. CASE \E q \in MaybeSql : st' = RewriteSql(st, q)
      BY <1>3, <3>2 DEF HandleFollowUp, At, RewriteSql, RouteAfterFollowUp, TypeOK, GraphState
    <3>3. CASE st' = [st EXCEPT !.action = "query"]
      BY <1>3, <3>3 DEF HandleFollowUp, At, RouteAfterFollowUp, TypeOK, GraphState
    <3> QED BY <1>3, <3>1, <3>2, <3>3 DEF HandleFollowUp
  <2>2. pc = "handle_follow_up" /\ UNCHANGED <<row, reply, stored, dbRuns>>
    BY <1>3 DEF HandleFollowUp, At, Quiet
  <2> QED BY <2>1, <2>2 DEF TypeOK, GraphState
<1>4. CASE BuildContext
  <2>1. KeepsProgress(st, st') /\ st'.action = st.action
    BY <1>4 DEF BuildContext, KeepsProgress, TypeOK, GraphState
  <2> QED BY <1>4, <2>1, EarlyStep DEF BuildContext, At, Quiet
<1>5. CASE SimilarityCheck
  <2>1. KeepsProgress(st, st') /\ st'.action = st.action
    BY <1>5 DEF SimilarityCheck, KeepsProgress, TypeOK, GraphState
  <2> QED BY <1>5, <2>1, EarlyStep DEF SimilarityCheck, At, Quiet
<1>6. CASE ComposeSql
  <2>1. /\ st'.retry = st.retry /\ st'.composeRetry \in 0..MaxComposeRetries
        /\ st'.result = st.result /\ st'.answer = st.answer
        /\ \/ st'.action = "clarification" /\ pc' = "write_history"
           \/ st'.action = "no_sql_retry" /\ pc' = "compose_sql" /\ st'.error = st.error
           \/ st'.action = "query" /\ pc' = "validate_sql" /\ st'.error = st.error
    <3>1. pc' = RouteAfterCompose(st')
      BY <1>6 DEF ComposeSql
    <3>2. st.error = "none" /\ st.composeRetry \in 0..MaxComposeRetries
      BY <1>6 DEF ComposeSql, At, TypeOK, GraphState
    <3>3. ASSUME NEW e, st' = ClarifyError(st, e) \/ st' = ScopeViolation(st)
          PROVE  /\ st'.action = "clarification" /\ st'.retry = st.retry
                 /\ st'.composeRetry = st.composeRetry
                 /\ st'.result = st.result /\ st'.answer = st.answer
      BY <3>3, AskingKeeps DEF TypeOK
    <3>4. ASSUME st' = NothingComposed(st), st.composeRetry < MaxComposeRetries
          PROVE  /\ st'.action = "no_sql_retry" /\ st'.retry = st.retry
                 /\ st'.composeRetry = st.composeRetry + 1 /\ st'.error = st.error
                 /\ st'.result = st.result /\ st'.answer = st.answer
      BY <3>4 DEF NothingComposed, TypeOK, GraphState
    <3>5. ASSUME NEW q \in Sql, st' = Composed(st, q)
          PROVE  KeepsProgress(st, st') /\ st'.action = "query"
      BY <3>5 DEF Composed, KeepsProgress, TypeOK, GraphState
    <3>6. CASE st' = NothingComposed(st)
      <4>1. CASE st.composeRetry < MaxComposeRetries
        BY <3>1, <3>2, <3>4, <3>6, <4>1 DEF RouteAfterCompose
      <4>2. CASE ~(st.composeRetry < MaxComposeRetries)
        <5>1. st' = ClarifyError(st, "no_sql")
          BY <3>6, <4>2 DEF NothingComposed
        <5> QED BY <3>1, <3>2, <3>3, <5>1 DEF RouteAfterCompose
      <4> QED BY <4>1, <4>2
    <3>7. CASE st' = ClarifyError(st, "attempts") \/ st' = ScopeViolation(st)
      BY <3>1, <3>2, <3>3, <3>7 DEF RouteAfterCompose
    <3>8. CASE \E q \in Sql : st' = Composed(st, q)
      BY <3>1, <3>2, <3>5, <3>8 DEF RouteAfterCompose, KeepsProgress
    <3> QED BY <1>6, <3>6, <3>7, <3>8 DEF ComposeSql
  <2>2. pc = "compose_sql" /\ UNCHANGED <<row, reply, stored, dbRuns>>
    BY <1>6 DEF ComposeSql, At, Quiet
  <2> QED BY <2>1, <2>2 DEF TypeOK, GraphState
<1>7. CASE ValidateSql
  <2>1. KeepsProgress(st, st') /\ st'.action = st.action
    BY <1>7 DEF ValidateSql, Validated, KeepsProgress, TypeOK, GraphState
  <2>2. /\ pc = "validate_sql" /\ UNCHANGED <<row, reply, stored, dbRuns>>
        /\ pc' \in {"execute_sql", "rebuild_context", "handle_error"}
    BY <1>7 DEF ValidateSql, At, Quiet, RouteAfterValidate
  <2> QED BY <2>1, <2>2 DEF KeepsProgress, TypeOK, GraphState
<1>8. CASE RebuildContext
  <2>1. /\ st'.retry = st.retry /\ st'.composeRetry = st.composeRetry
        /\ st'.result = st.result /\ st'.answer = st.answer /\ st'.action = st.action
    <3>1. ASSUME NEW base, NEW n, st' = Rebuilt(st, base, n)
          PROVE  KeepsProgress(st, st') /\ st'.action = st.action
      BY <3>1 DEF Rebuilt, KeepsProgress, TypeOK, GraphState
    <3>2. CASE st' = RebuildFailed(st)
      BY <3>2 DEF RebuildFailed, TypeOK, GraphState
    <3> QED BY <1>8, <3>1, <3>2 DEF RebuildContext, KeepsProgress
  <2>2. /\ pc = "rebuild_context" /\ UNCHANGED <<row, reply, stored, dbRuns>>
        /\ pc' \in {"validate_sql", "handle_error"}
    BY <1>8 DEF RebuildContext, At, Quiet, RouteAfterRebuild
  <2> QED BY <2>1, <2>2 DEF TypeOK, GraphState
<1>9. CASE HandleError
  <2>1. /\ st'.composeRetry = st.composeRetry
        /\ st'.result = st.result /\ st'.answer = st.answer
        /\ \/ st'.retry = st.retry /\ st'.action = "clarification" /\ pc' = "write_history"
           \/ /\ st.retry < MaxRetries /\ st'.retry = st.retry + 1
              /\ st'.action # "clarification" /\ pc' = "validate_sql"
    <3>1. pc' = RouteAfterHandleError(st')
      BY <1>9 DEF HandleError
    <3>2. CASE st' = Exhausted(st)
      <4>1. st' = ClarifyError(st, "exhausted")
        BY <3>2 DEF Exhausted
      <4> QED BY <3>1, <4>1, AskingKeeps DEF RouteAfterHandleError, TypeOK
    <3>3. CASE /\ \/ st' = AutoFixed(st)
                  \/ \E q \in Sql : st' = LlmFixed(st, q)
               /\ ~CannotRetry(st)
      <4>1. st.action # "clarification" /\ st.retry < MaxRetries
        BY <1>9, <3>3 DEF HandleError, At, CannotRetry, TypeOK, GraphState
      <4>2. /\ st'.composeRetry = st.composeRetry /\ st'.retry = st.retry + 1
            /\ st'.result = st.result /\ st'.answer = st.answer
            /\ st'.action \in {st.action, "query"}
        BY <3>3, FixCostsRetry DEF TypeOK
      <4> QED BY <3>1, <4>1, <4>2 DEF RouteAfterHandleError, TargetNodeRead
    <3> QED BY <1>9, <3>2, <3>3 DEF HandleError
  <2>2. pc = "handle_error" /\ UNCHANGED <<row, reply, stored, dbRuns>>
    BY <1>9 DEF HandleError, At, Quiet
  <2> QED BY <2>1, <2>2 DEF TypeOK, GraphState
<1>10. CASE ExecuteSql
  <2>1. /\ st'.retry = st.retry /\ st'.composeRetry = st.composeRetry
        /\ st'.action = st.action
        /\ \/ /\ st'.error # "none" /\ st'.result = "none" /\ st'.answer = "none"
              /\ pc' = "handle_error"
           \/ /\ st'.error = "none" /\ st'.result # "none" /\ st'.answer = "fresh"
              /\ pc' = "write_history"
    <3>1. CASE \E e \in {"db", "db_distinct"} : st' = ExecutionFailed(st, e)
      BY <1>10, <3>1 DEF ExecuteSql, ExecutionFailed, RouteAfterExecute, TypeOK, GraphState
    <3>2. CASE \E o \in {"empty", "rows"} : st' = Executed(st, o)
      BY <1>10, <3>2 DEF ExecuteSql, Executed, RouteAfterExecute, TypeOK, GraphState
    <3> QED BY <1>10, <3>1, <3>2 DEF ExecuteSql
  <2>2. pc = "execute_sql" /\ dbRuns' = dbRuns + 1 /\ UNCHANGED <<row, reply, stored>>
    BY <1>10 DEF ExecuteSql, At
  <2> QED BY <2>1, <2>2 DEF TypeOK, GraphState
<1>11. CASE AnswerFromState
  <2>1. /\ st'.retry = st.retry /\ st'.composeRetry = st.composeRetry
        /\ st'.error = st.error /\ st'.result = st.result
        /\ st'.answer \in {"none", "explained"}
    BY <1>11 DEF AnswerFromState, At, Clarify, TypeOK, GraphState
  <2>2. /\ pc = "answer_from_state" /\ pc' = "write_history"
        /\ UNCHANGED <<row, reply, stored, dbRuns>>
    BY <1>11 DEF AnswerFromState, At, Quiet
  <2> QED BY <2>1, <2>2 DEF TypeOK, GraphState
<1>12. CASE WriteHistory
  <2>1. HistoryRow(st).status = "success"
    BY <1>12 DEF WriteHistory, At, HistoryRow, TurnType
  <2> QED BY <1>12, <2>1 DEF WriteHistory, At, TypeOK, GraphState
<1>13. CASE Respond
  <2>1. Reply(st) # "error"
    BY <1>13 DEF Respond, Reply
  <2> QED BY <1>13, <2>1 DEF Respond, TypeOK, GraphState
<1>14. CASE NodeRaises
  BY <1>14 DEF NodeRaises, TypeOK, GraphState
<1>15. CASE PipelineTimeout
  BY <1>15 DEF PipelineTimeout, TypeOK, GraphState
<1>16. CASE UNCHANGED vars
  BY <1>16 DEF vars
<1> QED BY <1>1, <1>2, <1>3, <1>4, <1>5, <1>6, <1>7, <1>8, <1>9, <1>10, <1>11,
           <1>12, <1>13, <1>14, <1>15, <1>16 DEF Next, Node

\* Every way into execute_sql vets the SQL it brings.
LEMMA VettedStep ==
    ASSUME TypeOK, ProgressInv, VettedBeforeExecution, [Next]_vars
    PROVE  VettedBeforeExecution'
<1> SUFFICES ASSUME pc' = "execute_sql" PROVE VettedBeforeExecution'
  BY DEF VettedBeforeExecution
<1> USE DEF At
<1>1. CASE HandleFollowUp
  <2>1. st.retry = 0 /\ st.action = "follow_up_query_refinement"
    BY <1>1 DEF HandleFollowUp, ProgressInv, FreshBeforeSql, BeforeSql, FollowUpNodeByAction
  <2>2. pc' = RouteAfterFollowUp(st')
    BY <1>1 DEF HandleFollowUp
  <2>3. CASE st.mode = "reuse_answer" /\ st' = ReuseAnswer(st)
    <3>1. CASE st.lqc # NoContext /\ st.lqc.answered
      <4>1. st' = [st EXCEPT !.answer = "prior", !.generatedSql = st.lqc.sql, !.sql = st.lqc.sql]
        BY <2>3, <3>1 DEF ReuseAnswer
      <4>2. /\ st'.retry = 0 /\ st'.lqc = st.lqc /\ st'.mode = "reuse_answer"
            /\ st'.generatedSql = st'.lqc.sql
        BY <2>1, <2>3, <4>1 DEF TypeOK, GraphState
      <4> QED BY <3>1, <4>2 DEF VettedBeforeExecution
    <3>2. CASE ~(st.lqc # NoContext /\ st.lqc.answered)
      <4>1. st'.action = "clarification"
        BY <2>3, <3>2 DEF ReuseAnswer, Clarify, TypeOK, GraphState
      <4> QED BY <2>2, <4>1 DEF RouteAfterFollowUp
    <3> QED BY <3>1, <3>2
  <2>4. ASSUME NEW q \in MaybeSql, st' = RewriteSql(st, q)
        PROVE  VettedBeforeExecution'
    <3>1. CASE /\ st.lqc # NoContext /\ q # NoSql
               /\ PassesRewriteCheck(q, st.lqc.schema)
      <4>1. st' = [st EXCEPT !.generatedSql = q, !.sql = q, !.action = "follow_up_rewrite_sql"]
        BY <2>4, <3>1 DEF RewriteSql
      <4>2. /\ st'.retry = 0 /\ st'.lqc = st.lqc /\ st'.action = "follow_up_rewrite_sql"
            /\ st'.generatedSql = q
        BY <2>1, <4>1 DEF TypeOK, GraphState
      <4> QED BY <3>1, <4>2 DEF VettedBeforeExecution
    <3>2. CASE ~ /\ st.lqc # NoContext /\ q # NoSql
                 /\ PassesRewriteCheck(q, st.lqc.schema)
      <4>1. st'.action = "query"
        BY <2>4, <3>2 DEF RewriteSql, TypeOK, GraphState
      <4> QED BY <2>2, <4>1 DEF RouteAfterFollowUp
    <3> QED BY <3>1, <3>2
  <2>5. CASE st' = [st EXCEPT !.action = "query"]
    <3>1. st'.action = "query"
      BY <2>5 DEF TypeOK, GraphState
    <3> QED BY <2>2, <3>1 DEF RouteAfterFollowUp
  <2> QED BY <1>1, <2>3, <2>4, <2>5 DEF HandleFollowUp
<1>2. CASE SimilarityCheck
  <2>1. st.retry = 0
    BY <1>2 DEF SimilarityCheck, ProgressInv, FreshBeforeSql, BeforeSql
  <2>2. st'.shortcut /\ st'.retry = st.retry
    BY <1>2 DEF SimilarityCheck, TypeOK, GraphState
  <2> QED BY <2>1, <2>2 DEF VettedBeforeExecution
<1>3. CASE ValidateSql
  <2>1. st' = Validated(st) /\ ~st'.issues
    BY <1>3 DEF ValidateSql, RouteAfterValidate
  <2>2. PassesValidator(st.generatedSql, st.schema)
    BY <2>1 DEF Validated, TypeOK, GraphState
  <2>3. st'.generatedSql = st.generatedSql /\ st'.schema = st.schema
    BY <2>1, <2>2 DEF Validated, TypeOK, GraphState
  <2> QED BY <2>2, <2>3 DEF VettedBeforeExecution
<1>4. CASE UNCHANGED vars
  BY <1>4 DEF vars, VettedBeforeExecution
<1>5. CASE LoadHistory \/ BuildContext \/ AnswerFromState \/ WriteHistory \/ Respond
  BY <1>5 DEF LoadHistory, BuildContext, AnswerFromState, WriteHistory, Respond
<1>6. CASE ResolveTurn
  BY <1>6 DEF ResolveTurn, FollowResolveEdge, ResolveEdges
<1>7. CASE ComposeSql
  BY <1>7 DEF ComposeSql, RouteAfterCompose
<1>8. CASE RebuildContext
  BY <1>8 DEF RebuildContext, RouteAfterRebuild
<1>9. CASE HandleError
  BY <1>9 DEF HandleError, RouteAfterHandleError, TargetNodeRead
<1>10. CASE ExecuteSql
  BY <1>10 DEF ExecuteSql, RouteAfterExecute
<1>11. CASE NodeRaises \/ PipelineTimeout
  BY <1>11 DEF NodeRaises, PipelineTimeout
<1> QED BY <1>1, <1>2, <1>3, <1>4, <1>5, <1>6, <1>7, <1>8, <1>9, <1>10, <1>11 DEF Next, Node

-----------------------------------------------------------------------------
\* The texts a turn composes, runs and stores.
SqlInv ==
    /\ RebuildIsForCurrentSql /\ FlagsAreSpent
    /\ ScopedTurnIsComposedInScope /\ PromptIsScoped
    /\ QueriesAreVetted /\ CachedSqlWasVetted /\ StoredAtEnd

\* What most nodes leave alone of what decides about texts.
KeepsSql(s, t) ==
    /\ t.rebuild = s.rebuild /\ t.force = s.force
    /\ t.scoped = s.scoped /\ t.shortcut = s.shortcut /\ t.prompt = s.prompt

LEMMA ResolvedKeepsSql ==
    ASSUME NEW s \in GraphState, NEW v \in Verdict
    PROVE  KeepsSql(s, Resolved(s, v))
BY DEF Resolved, Clarify, ForgetPriorTurn, GraphState, KeepsSql

LEMMA AskingKeepsSql ==
    ASSUME NEW s \in GraphState, NEW e,
           NEW t \in {Clarify(s), ClarifyError(s, e), ScopeViolation(s), Exhausted(s)}
    PROVE  KeepsSql(s, t) /\ t.action = "clarification"
<1>1. CASE t = Clarify(s)
  BY <1>1 DEF Clarify, GraphState, KeepsSql
<1>2. ASSUME NEW f, t = ClarifyError(s, f)
      PROVE  KeepsSql(s, t) /\ t.action = "clarification"
  BY <1>2 DEF ClarifyError, GraphState, KeepsSql
<1>3. CASE t = ScopeViolation(s)
  BY <1>3 DEF ScopeViolation, ClarifyError, GraphState, KeepsSql
<1> QED BY <1>1, <1>2, <1>3 DEF Exhausted

\* A node that keeps what decides about texts, and goes neither to a rebuild, to
\* the composer, nor to a run; one that ends the graph has no result.
LEMMA QuietSqlStep ==
    ASSUME TypeOK, SqlInv, KeepsSql(st, st'), pc \in Nodes \ {"rebuild_context"},
           UNCHANGED <<reply, stored>>,
           pc' \in (Nodes \cup Ended)
                     \ {"rebuild_context", "similarity_check", "compose_sql", "execute_sql"},
           pc' \in {"write_history", "respond"} => st'.result = "none"
    PROVE  SqlInv'
<1> USE DEF SqlInv
<1>1. RebuildIsForCurrentSql' /\ FlagsAreSpent'
  BY DEF RebuildIsForCurrentSql, FlagsAreSpent, KeepsSql
<1>2. ScopedTurnIsComposedInScope' /\ PromptIsScoped'
  BY DEF ScopedTurnIsComposedInScope, PromptIsScoped, KeepsSql
<1>3. stored = NoSql
  BY DEF StoredAtEnd, Nodes, Ended
<1>4. QueriesAreVetted' /\ CachedSqlWasVetted' /\ StoredAtEnd'
  BY <1>3 DEF QueriesAreVetted, CachedSqlWasVetted, StoredAtEnd
<1> QED BY <1>1, <1>2, <1>4

\* Every step keeps the texts in line with where the turn is.
LEMMA SqlStep ==
    ASSUME TypeOK, TypeOK', ProgressInv, SqlInv, [Next]_vars
    PROVE  SqlInv'
<1>1. pc \in Nodes \ {"write_history", "respond"} => st.result = "none" /\ stored = NoSql
  BY DEF ProgressInv, NoResultBeforeEnd, SqlInv, StoredAtEnd, Nodes, Ended
<1>2. CASE LoadHistory
  <2>1. KeepsSql(st, st') /\ st'.result = st.result
    BY <1>2 DEF LoadHistory, KeepsSql, TypeOK, GraphState
  <2> QED BY <1>2, <2>1, QuietSqlStep DEF LoadHistory, At, Nodes
<1>3. CASE ResolveTurn
  <2>1. KeepsSql(st, st') /\ st'.result = st.result
    <3>1. CASE \E v \in Verdict : st' = Resolved(st, v)
      BY <3>1, ResolvedKeepsSql, ResolvedKeeps DEF TypeOK, KeepsProgress
    <3> QED BY <1>3, <3>1 DEF ResolveTurn, KeepsSql, TypeOK, GraphState
  <2>2. pc = "resolve_turn" /\ pc' \in ResolveEdges \cup {"raised"} /\ UNCHANGED <<reply, stored>>
    BY <1>3 DEF ResolveTurn, FollowResolveEdge, At
  <2> QED BY <1>1, <2>1, <2>2, QuietSqlStep DEF ResolveEdges, Nodes, Ended
<1>4. CASE HandleFollowUp
  <2>1. KeepsSql(st, st') /\ st'.result = st.result
    <3>1. CASE st' = ReuseAnswer(st)
      BY <3>1 DEF ReuseAnswer, Clarify, KeepsSql, TypeOK, GraphState
    <3>2. CASE \E q \in MaybeSql : st' = RewriteSql(st, q)
      BY <3>2 DEF RewriteSql, KeepsSql, TypeOK, GraphState
    <3> QED BY <1>4, <3>1, <3>2 DEF HandleFollowUp, KeepsSql, TypeOK, GraphState
  <2>2. /\ pc = "handle_follow_up" /\ UNCHANGED <<reply, stored>>
        /\ pc' \in {"write_history", "build_context", "execute_sql"}
        /\ pc' = "execute_sql" => st'.action # "query"
    BY <1>4 DEF HandleFollowUp, RouteAfterFollowUp, At
  <2>3. CASE pc' = "execute_sql"
    <3>1. QueriesAreVetted' /\ RebuildIsForCurrentSql' /\ FlagsAreSpent'
      BY <2>1, <2>2, <2>3
      DEF QueriesAreVetted, QueryWasVetted, RebuildIsForCurrentSql, FlagsAreSpent, SqlInv, KeepsSql, Nodes
    <3>2. ScopedTurnIsComposedInScope' /\ PromptIsScoped' /\ CachedSqlWasVetted' /\ StoredAtEnd'
      BY <1>1, <2>1, <2>2, <2>3
      DEF ScopedTurnIsComposedInScope, PromptIsScoped, CachedSqlWasVetted, StoredAtEnd, SqlInv,
          KeepsSql, Nodes
    <3> QED BY <3>1, <3>2 DEF SqlInv
  <2>4. CASE pc' # "execute_sql"
    BY <1>1, <2>1, <2>2, <2>4, QuietSqlStep DEF Nodes
  <2> QED BY <2>3, <2>4
<1>5. CASE BuildContext
  <2>1. PICK linked \in SUBSET Catalog :
          st' = [st EXCEPT !.prompt = IF st.scoped THEN "scoped" ELSE "plain",
                           !.schema = linked, !.cached = linked]
    BY <1>5 DEF BuildContext
  <2>2. /\ st'.rebuild = st.rebuild /\ st'.force = st.force
        /\ st'.scoped = st.scoped /\ st'.shortcut = st.shortcut
        /\ st.scoped => st'.prompt = "scoped"
    BY <2>1 DEF TypeOK, GraphState
  <2>3. pc = "build_context" /\ pc' = "similarity_check" /\ UNCHANGED stored
    BY <1>5 DEF BuildContext, At
  <2> QED
    BY <1>1, <2>2, <2>3
    DEF SqlInv, RebuildIsForCurrentSql, FlagsAreSpent, ScopedTurnIsComposedInScope,
        PromptIsScoped, QueriesAreVetted, CachedSqlWasVetted, StoredAtEnd, Nodes
<1>6. CASE SimilarityCheck
  <2>1. /\ st'.rebuild = st.rebuild /\ st'.force = st.force
        /\ st'.scoped = st.scoped /\ st'.prompt = st.prompt
        /\ st'.shortcut => ~st.scoped
        /\ pc' = IF st'.shortcut THEN "execute_sql" ELSE "compose_sql"
    BY <1>6 DEF SimilarityCheck, MayShortcut, TypeOK, GraphState
  <2>2. pc = "similarity_check" /\ UNCHANGED stored
    BY <1>6 DEF SimilarityCheck, At
  <2> QED
    BY <1>1, <2>1, <2>2
    DEF SqlInv, RebuildIsForCurrentSql, FlagsAreSpent, ScopedTurnIsComposedInScope,
        PromptIsScoped, QueriesAreVetted, QueryWasVetted, CachedSqlWasVetted, StoredAtEnd, Nodes
<1>7. CASE ComposeSql
  <2>1. pc = "compose_sql" /\ UNCHANGED <<reply, stored>> /\ pc' = RouteAfterCompose(st')
    BY <1>7 DEF ComposeSql, At
  <2>2. CASE st'.action = "clarification" /\ KeepsSql(st, st') /\ st'.result = st.result
    BY <1>1, <2>1, <2>2, QuietSqlStep DEF RouteAfterCompose, Nodes
  <2>3. CASE st' = NothingComposed(st) /\ st.composeRetry < MaxComposeRetries
    <3>1. KeepsSql(st, st') /\ st'.action = "no_sql_retry"
      BY <2>3 DEF NothingComposed, KeepsSql, TypeOK, GraphState
    <3>2. pc' = "compose_sql"
      BY <2>1, <3>1 DEF RouteAfterCompose
    <3> QED
      BY <1>1, <2>1, <3>1, <3>2
      DEF SqlInv, RebuildIsForCurrentSql, FlagsAreSpent, ScopedTurnIsComposedInScope,
          PromptIsScoped, QueriesAreVetted, CachedSqlWasVetted, StoredAtEnd, KeepsSql, Nodes
  <2>4. ASSUME NEW q \in Sql, st' = Composed(st, q)
        PROVE  SqlInv'
    <3>1. /\ ~st'.rebuild /\ st'.action = "query"
          /\ st'.scoped = st.scoped /\ st'.shortcut = st.shortcut
      BY <2>4 DEF Composed, TypeOK, GraphState
    <3>2. pc' = "validate_sql"
      BY <2>1, <3>1 DEF RouteAfterCompose
    <3> QED
      BY <1>1, <2>1, <3>1, <3>2
      DEF SqlInv, RebuildIsForCurrentSql, FlagsAreSpent, ScopedTurnIsComposedInScope,
          PromptIsScoped, QueriesAreVetted, CachedSqlWasVetted, StoredAtEnd, Nodes
  <2>5. ASSUME NEW e, st' = ClarifyError(st, e)
        PROVE  SqlInv'
    BY <2>2, <2>5, AskingKeepsSql, AskingKeeps DEF TypeOK
  <2>6. CASE st' = ScopeViolation(st)
    BY <2>2, <2>6, AskingKeepsSql, AskingKeeps DEF TypeOK
  <2>7. CASE st' = NothingComposed(st) /\ ~(st.composeRetry < MaxComposeRetries)
    BY <2>5, <2>7 DEF NothingComposed
  <2> QED BY <1>7, <2>3, <2>4, <2>5, <2>6, <2>7 DEF ComposeSql
<1>8. CASE ValidateSql
  <2> DEFINE missing == MissingTables(st.generatedSql, st.schema)
             passes == PassesValidator(st.generatedSql, st.schema)
  <2>1. /\ st' = Validated(st) /\ pc' = RouteAfterValidate(st')
        /\ pc = "validate_sql" /\ UNCHANGED stored
    BY <1>8 DEF ValidateSql, At
  <2>2. /\ st'.scoped = st.scoped /\ st'.shortcut = st.shortcut
        /\ st'.generatedSql = st.generatedSql /\ st'.schema = st.schema
    BY <2>1 DEF Validated, TypeOK, GraphState
  <2>3. CASE passes
    <3>1. ~st'.issues /\ ~st'.rebuild
      BY <2>1, <2>3 DEF Validated, TypeOK, GraphState
    <3>2. pc' = "execute_sql"
      BY <2>1, <3>1 DEF RouteAfterValidate
    <3> QED
      BY <1>1, <2>1, <2>2, <2>3, <3>1, <3>2
      DEF SqlInv, RebuildIsForCurrentSql, FlagsAreSpent, ScopedTurnIsComposedInScope,
          PromptIsScoped, QueriesAreVetted, QueryWasVetted, CachedSqlWasVetted, StoredAtEnd, Nodes
  <2>4. CASE ~passes /\ missing # {}
    <3>1. st'.issues /\ st'.rebuild /\ st'.force = missing
      BY <2>1, <2>4 DEF Validated, TypeOK, GraphState
    <3>2. pc' = "rebuild_context"
      BY <2>1, <2>4, <3>1 DEF RouteAfterValidate
    <3> QED
      BY <1>1, <2>1, <2>2, <2>4, <3>1, <3>2
      DEF SqlInv, RebuildIsForCurrentSql, FlagsAreSpent, ScopedTurnIsComposedInScope,
          PromptIsScoped, QueriesAreVetted, CachedSqlWasVetted, StoredAtEnd, Nodes
  <2>5. CASE ~passes /\ missing = {}
    <3>1. st'.issues /\ st'.rebuild = st.rebuild /\ st'.force = st.force
      BY <2>1, <2>5 DEF Validated, TypeOK, GraphState
    <3>2. ~st.rebuild \/ st.force = {}
      BY <2>1 DEF SqlInv, FlagsAreSpent, Nodes
    <3>3. pc' = "handle_error"
      BY <2>1, <3>1, <3>2 DEF RouteAfterValidate
    <3> QED
      BY <1>1, <2>1, <2>2, <3>1, <3>2, <3>3
      DEF SqlInv, RebuildIsForCurrentSql, FlagsAreSpent, ScopedTurnIsComposedInScope,
          PromptIsScoped, QueriesAreVetted, CachedSqlWasVetted, StoredAtEnd, Nodes
  <2> QED BY <2>3, <2>4, <2>5
<1>9. CASE RebuildContext
  <2>1. ASSUME NEW base, NEW n, st' = Rebuilt(st, base, n)
        PROVE  ~st'.rebuild /\ st'.scoped = st.scoped /\ st'.shortcut = st.shortcut
    BY <2>1 DEF Rebuilt, TypeOK, GraphState
  <2>2. ASSUME st' = RebuildFailed(st)
        PROVE  ~st'.rebuild /\ st'.scoped = st.scoped /\ st'.shortcut = st.shortcut
    BY <2>2 DEF RebuildFailed, TypeOK, GraphState
  <2>3. ~st'.rebuild /\ st'.scoped = st.scoped /\ st'.shortcut = st.shortcut
    BY <1>9, <2>1, <2>2 DEF RebuildContext
  <2>4. /\ pc = "rebuild_context" /\ pc' \in {"handle_error", "validate_sql"}
        /\ UNCHANGED stored
    BY <1>9 DEF RebuildContext, RouteAfterRebuild, At
  <2> QED
    BY <1>1, <2>3, <2>4
    DEF SqlInv, RebuildIsForCurrentSql, FlagsAreSpent, ScopedTurnIsComposedInScope,
        PromptIsScoped, QueriesAreVetted, CachedSqlWasVetted, StoredAtEnd, Nodes
<1>10. CASE HandleError
  <2>1. /\ pc = "handle_error" /\ pc' \in {"write_history", "validate_sql"}
        /\ UNCHANGED <<reply, stored>>
    BY <1>10 DEF HandleError, RouteAfterHandleError, TargetNodeRead, At
  <2>2. CASE st' = Exhausted(st)
    <3>1. KeepsSql(st, st') /\ st'.result = st.result
      BY <2>2, AskingKeepsSql, AskingKeeps DEF TypeOK
    <3> QED BY <1>1, <2>1, <3>1, QuietSqlStep DEF Nodes
  <2>3. CASE st' = AutoFixed(st)
    <3>1. KeepsSql(st, st') /\ st'.result = st.result
      BY <2>3 DEF AutoFixed, KeepsSql, TypeOK, GraphState
    <3> QED BY <1>1, <2>1, <3>1, QuietSqlStep DEF Nodes
  <2>4. ASSUME NEW q \in Sql, st' = LlmFixed(st, q)
        PROVE  SqlInv'
    <3>1. /\ ~st'.rebuild /\ st'.result = st.result
          /\ st'.scoped = st.scoped /\ st'.shortcut = st.shortcut
      BY <2>4 DEF LlmFixed, TypeOK, GraphState
    <3> QED
      BY <1>1, <2>1, <3>1
      DEF SqlInv, RebuildIsForCurrentSql, FlagsAreSpent, ScopedTurnIsComposedInScope,
          PromptIsScoped, QueriesAreVetted, CachedSqlWasVetted, StoredAtEnd, Nodes
  <2> QED BY <1>10, <2>2, <2>3, <2>4 DEF HandleError
<1>11. CASE ExecuteSql
  <2>1. /\ pc = "execute_sql" /\ UNCHANGED stored
        /\ pc' = RouteAfterExecute(st')
    BY <1>11 DEF ExecuteSql, At
  <2>2. /\ st'.rebuild = st.rebuild /\ st'.force = st.force
        /\ st'.scoped = st.scoped /\ st'.shortcut = st.shortcut
        /\ st'.action = st.action /\ st'.schema = st.schema
        /\ st'.sql = SqlToRun(st) /\ st'.generatedSql = SqlToRun(st)
        /\ pc' = "handle_error" \/ pc' = "write_history"
    <3>1. CASE \E e \in {"db", "db_distinct"} : st' = ExecutionFailed(st, e)
      BY <2>1, <3>1 DEF ExecutionFailed, RouteAfterExecute, TypeOK, GraphState
    <3>2. CASE \E o \in {"empty", "rows"} : st' = Executed(st, o)
      BY <2>1, <3>2 DEF Executed, RouteAfterExecute, TypeOK, GraphState
    <3> QED BY <1>11, <3>1, <3>2 DEF ExecuteSql
  <2>3. QueryWasVetted'
    <3> SUFFICES ASSUME st'.action = "query", ~st'.shortcut
                 PROVE  PassesValidator(st'.generatedSql, st'.schema)
      BY DEF QueryWasVetted
    <3>1. PassesValidator(st.generatedSql, st.schema)
      BY <2>1, <2>2 DEF SqlInv, QueriesAreVetted, QueryWasVetted
    <3>2. SqlToRun(st) = st.generatedSql
      BY <3>1 DEF PassesValidator, SqlToRun
    <3> QED BY <2>2, <3>1, <3>2
  <2> QED
    BY <1>1, <2>1, <2>2, <2>3
    DEF SqlInv, RebuildIsForCurrentSql, FlagsAreSpent, ScopedTurnIsComposedInScope,
        PromptIsScoped, QueriesAreVetted, CachedSqlWasVetted, StoredAtEnd, Nodes
<1>12. CASE AnswerFromState
  <2>1. KeepsSql(st, st') /\ st'.result = st.result
    BY <1>12 DEF AnswerFromState, Clarify, KeepsSql, TypeOK, GraphState
  <2> QED BY <1>1, <1>12, <2>1, QuietSqlStep DEF AnswerFromState, At, Nodes
<1>13. CASE WriteHistory
  BY <1>13
  DEF WriteHistory, At, SqlInv, RebuildIsForCurrentSql, FlagsAreSpent,
      ScopedTurnIsComposedInScope, PromptIsScoped, QueriesAreVetted, QueryWasVetted,
      CachedSqlWasVetted, StoredAtEnd, Nodes, Ended
<1>14. CASE Respond
  <2>1. /\ pc = "respond" /\ pc' \in {"done", "raised"} /\ UNCHANGED <<st, dbRuns>>
        /\ stored' = IF ShouldCache(st) THEN st.sql ELSE NoSql
    BY <1>14 DEF Respond
  <2>2. ASSUME stored' # NoSql
        PROVE  /\ stored' = st.generatedSql /\ st.result = "rows" /\ QueryWasVetted
               /\ st.action = "query" /\ dbRuns = 1
    <3>1. /\ ShouldCache(st) /\ stored' = st.sql
      BY <2>1, <2>2
    <3>2. st.result = "rows" /\ st.action = "query" /\ st.retry = 0
      BY <3>1 DEF ShouldCache
    <3>3. dbRuns = 1
      BY <2>1, <3>2 DEF ProgressInv, RetryBudget, ResultComesFromRun, TypeOK
    <3> QED BY <2>1, <3>1, <3>2, <3>3 DEF SqlInv, QueriesAreVetted
  <2>3. CachedSqlWasVetted'
    BY <2>1, <2>2 DEF CachedSqlWasVetted, QueryWasVetted
  <2> QED
    BY <2>1, <2>3
    DEF SqlInv, RebuildIsForCurrentSql, FlagsAreSpent, ScopedTurnIsComposedInScope,
        PromptIsScoped, QueriesAreVetted, StoredAtEnd, Nodes, Ended
<1>15. CASE NodeRaises \/ PipelineTimeout
  <2>1. UNCHANGED <<st, stored, dbRuns>> /\ pc' \in Ended
    BY <1>15 DEF NodeRaises, PipelineTimeout, Ended
  <2> QED
    BY <2>1
    DEF SqlInv, RebuildIsForCurrentSql, FlagsAreSpent, ScopedTurnIsComposedInScope,
        PromptIsScoped, QueriesAreVetted, CachedSqlWasVetted, StoredAtEnd, Nodes, Ended
<1>16. CASE UNCHANGED vars
  BY <1>16
  DEF vars, SqlInv, RebuildIsForCurrentSql, FlagsAreSpent, ScopedTurnIsComposedInScope,
      PromptIsScoped, QueriesAreVetted, QueryWasVetted, CachedSqlWasVetted, StoredAtEnd
<1> QED BY <1>2, <1>3, <1>4, <1>5, <1>6, <1>7, <1>8, <1>9, <1>10, <1>11, <1>12,
           <1>13, <1>14, <1>15, <1>16 DEF Next, Node

-----------------------------------------------------------------------------
\* Counters, vetting, clarifications, errors and answers of a turn agree with
\* where the turn is, in every reachable state.
THEOREM PipelineSafe == Spec => []PipelineInv
<1>1. Init => ProgressInv /\ VettedBeforeExecution
  BY BudgetAssumption
  DEF Init, FreshState, ProgressInv, RetryBudget, RunsArePaidFor, FreshBeforeSql,
      NoResultBeforeEnd, FollowUpNodeByAction, ClarificationEndsTurn,
      ErrorEndsAsClarification, ReportedAnswerIsCurrent, ResultComesFromRun,
      EndAgreesWithRuns, AfterGraph, BeforeSql, AfterRun, Nodes, Ended, VettedBeforeExecution
<1>2. Init => SqlInv
  BY DEF Init, FreshState, SqlInv, RebuildIsForCurrentSql, FlagsAreSpent,
         ScopedTurnIsComposedInScope, PromptIsScoped, QueriesAreVetted, CachedSqlWasVetted,
         StoredAtEnd, Nodes
<1>3. ProgressInv /\ VettedBeforeExecution /\ SqlInv => PipelineInv
  BY DEF ProgressInv, SqlInv, PipelineInv
<1>4. /\ TypeOK /\ TypeOK' /\ ProgressInv /\ VettedBeforeExecution /\ SqlInv /\ [Next]_vars
      => ProgressInv' /\ VettedBeforeExecution' /\ SqlInv'
  BY ProgressStep, VettedStep, SqlStep
<1> QED BY <1>1, <1>2, <1>3, <1>4, TypeCorrect, PTL DEF Spec

\* A user with a scope has no SQL composed, and no sample taken, outside it,
\* through all the retries and rebuilds of the turn.
THEOREM ScopeIsKept == Spec => []ScopedTurnIsComposedInScope
<1>1. PipelineInv => ScopedTurnIsComposedInScope
  BY DEF PipelineInv
<1> QED BY <1>1, PipelineSafe, PTL

\* What enters the cross-session cache was run once, as it is, and vetted.
THEOREM OnlyVettedSqlIsCached == Spec => []CachedSqlWasVetted
<1>1. PipelineInv => CachedSqlWasVetted
  BY DEF PipelineInv
<1> QED BY <1>1, PipelineSafe, PTL

\* No rebuild acts on flags of an earlier SQL of the correction cycle.
THEOREM RebuildsAreCurrent == Spec => []RebuildIsForCurrentSql
<1>1. PipelineInv => RebuildIsForCurrentSql
  BY DEF PipelineInv
<1> QED BY <1>1, PipelineSafe, PTL

\* At most MaxRetries corrections, and one more run than corrections.
THEOREM BudgetHolds == Spec => []RetryBudget
<1>1. PipelineInv => RetryBudget
  BY DEF PipelineInv
<1> QED BY <1>1, PipelineSafe, PTL

\* No SQL text reaches the customer's database unvetted.
THEOREM OnlyVettedSqlRuns == Spec => []VettedBeforeExecution
<1>1. PipelineInv => VettedBeforeExecution
  BY DEF PipelineInv
<1> QED BY <1>1, PipelineSafe, PTL

\* Every error left when the graph ends is put to the user as a question, and
\* the answer is that of the last run.
THEOREM EndingsAgree ==
    Spec => [](ErrorEndsAsClarification /\ ReportedAnswerIsCurrent /\ ClarificationEndsTurn)
<1>1. PipelineInv =>
        ErrorEndsAsClarification /\ ReportedAnswerIsCurrent /\ ClarificationEndsTurn
  BY DEF PipelineInv
<1> QED BY <1>1, PipelineSafe, PTL

-----------------------------------------------------------------------------
\* Only execute_sql produces or clears a result and counts a run.
LEMMA OnlyRunsProduceResults ==
    ASSUME TypeOK, Node, ~ExecuteSql
    PROVE  st'.result = st.result /\ dbRuns' = dbRuns
<1> USE DEF At, Quiet
<1>1. CASE LoadHistory
  BY <1>1 DEF LoadHistory, TypeOK, GraphState
<1>2. CASE ResolveTurn
  <2>1. CASE \E v \in Verdict : st' = Resolved(st, v)
    BY <1>2, <2>1, ResolvedKeeps DEF ResolveTurn, KeepsProgress, TypeOK
  <2> QED BY <1>2, <2>1 DEF ResolveTurn, TypeOK, GraphState
<1>3. CASE HandleFollowUp
  <2>1. CASE st' = ReuseAnswer(st)
    BY <1>3, <2>1 DEF HandleFollowUp, ReuseAnswer, Clarify, TypeOK, GraphState
  <2>2. CASE \E q \in MaybeSql : st' = RewriteSql(st, q)
    BY <1>3, <2>2 DEF HandleFollowUp, RewriteSql, TypeOK, GraphState
  <2> QED BY <1>3, <2>1, <2>2 DEF HandleFollowUp, TypeOK, GraphState
<1>4. CASE BuildContext
  BY <1>4 DEF BuildContext, TypeOK, GraphState
<1>5. CASE SimilarityCheck
  BY <1>5 DEF SimilarityCheck, TypeOK, GraphState
<1>6. CASE ComposeSql
  <2>1. CASE st' = NothingComposed(st)
    <3>1. CASE st.composeRetry < MaxComposeRetries
      BY <1>6, <2>1, <3>1 DEF ComposeSql, NothingComposed, TypeOK, GraphState
    <3>2. CASE ~(st.composeRetry < MaxComposeRetries)
      <4>1. st' = ClarifyError(st, "no_sql")
        BY <2>1, <3>2 DEF NothingComposed
      <4> QED BY <1>6, <4>1, AskingKeeps DEF ComposeSql, TypeOK
    <3> QED BY <3>1, <3>2
  <2>2. CASE st' = ClarifyError(st, "attempts") \/ st' = ScopeViolation(st)
    BY <1>6, <2>2, AskingKeeps DEF ComposeSql, TypeOK
  <2>3. CASE \E q \in Sql : st' = Composed(st, q)
    BY <1>6, <2>3 DEF ComposeSql, Composed, TypeOK, GraphState
  <2> QED BY <1>6, <2>1, <2>2, <2>3 DEF ComposeSql
<1>7. CASE ValidateSql
  BY <1>7 DEF ValidateSql, Validated, TypeOK, GraphState
<1>8. CASE RebuildContext
  <2>1. ASSUME NEW base, NEW n, st' = Rebuilt(st, base, n) PROVE st'.result = st.result
    BY <2>1 DEF Rebuilt, TypeOK, GraphState
  <2>2. CASE st' = RebuildFailed(st)
    BY <1>8, <2>2 DEF RebuildContext, RebuildFailed, TypeOK, GraphState
  <2> QED BY <1>8, <2>1, <2>2 DEF RebuildContext
<1>9. CASE HandleError
  <2>1. CASE st' = Exhausted(st)
    <3>1. st' = ClarifyError(st, "exhausted")
      BY <2>1 DEF Exhausted
    <3> QED BY <1>9, <3>1, AskingKeeps DEF HandleError, TypeOK
  <2>2. CASE st' = AutoFixed(st) \/ \E q \in Sql : st' = LlmFixed(st, q)
    BY <1>9, <2>2, FixCostsRetry DEF HandleError, TypeOK
  <2> QED BY <1>9, <2>1, <2>2 DEF HandleError
<1>10. CASE AnswerFromState
  BY <1>10 DEF AnswerFromState, Clarify, TypeOK, GraphState
<1>11. CASE WriteHistory \/ Respond
  BY <1>11 DEF WriteHistory, Respond
<1> QED BY <1>1, <1>2, <1>3, <1>4, <1>5, <1>6, <1>7, <1>8, <1>9, <1>10, <1>11 DEF Node

\* Every step of the pipeline is a step of the contract or a stutter.
LEMMA ContractStep ==
    ASSUME TypeOK, TypeOK', PipelineInv, PipelineInv', [Next]_vars
    PROVE  [Contract!ContractNext]_(Contract!contractVars)
<1> USE BudgetAssumption
<1> USE DEF Contract!ContractNext, Contract!contractVars, Contract!RunStatement,
            Contract!Answer, Contract!AskBack, Contract!Abort
<1>1. CASE ExecuteSql
  <2>1. /\ pc = "execute_sql" /\ dbRuns' = dbRuns + 1 /\ UNCHANGED reply
        /\ pc' \in {"handle_error", "write_history"}
    BY <1>1 DEF ExecuteSql, At, RouteAfterExecute
  <2>2. dbRuns \in Nat /\ dbRuns < MaxRetries + 1 /\ st.result = "none"
    BY <2>1 DEF PipelineInv, RetryBudget, NoResultBeforeEnd, Nodes, TypeOK, GraphState
  <2>3. Ending = "open" /\ Ending' = "open"
    BY <2>1 DEF Ending
  <2>4. LastOutcome # "ok" /\ LastOutcome' \in {"ok", "failed"}
    BY <2>1, <2>2 DEF LastOutcome
  <2> QED BY <2>1, <2>2, <2>3, <2>4
<1>2. CASE Node /\ ~ExecuteSql /\ ~Respond
  <2>1. LastOutcome' = LastOutcome /\ dbRuns' = dbRuns
    BY <1>2, OnlyRunsProduceResults DEF LastOutcome
  <2>2. pc \in Nodes
    BY <1>2 DEF Node, LoadHistory, ResolveTurn, HandleFollowUp, BuildContext, SimilarityCheck,
                ComposeSql, ValidateSql, RebuildContext, HandleError, AnswerFromState,
                WriteHistory, At, Nodes
  <2>3. pc' \in Nodes \cup {"raised"}
    BY <1>2 DEF Node, LoadHistory, ResolveTurn, FollowResolveEdge, ResolveEdges,
                HandleFollowUp, RouteAfterFollowUp, BuildContext, SimilarityCheck,
                ComposeSql, RouteAfterCompose, ValidateSql, RouteAfterValidate,
                RebuildContext, RouteAfterRebuild, HandleError, RouteAfterHandleError,
                AnswerFromState, WriteHistory, Nodes
  <2>4. Ending = "open" /\ Ending' \in {"open", "aborted"}
    BY <2>2, <2>3 DEF Ending, Nodes
  <2> QED BY <2>1, <2>4
<1>3. CASE Respond
  <2>1. pc = "respond" /\ UNCHANGED <<st, dbRuns>>
    BY <1>3 DEF Respond
  <2>2. Ending = "open" /\ LastOutcome' = LastOutcome
    BY <2>1 DEF Ending, LastOutcome
  <2>3. CASE pc' = "raised"
    BY <2>1, <2>2, <2>3 DEF Ending
  <2>4. CASE pc' = "done" /\ reply' = Reply(st)
    <3>1. reply' # "error"
      BY DEF PipelineInv, ErrorEndsAsClarification
    <3>2. CASE st.action = "clarification"
      <4>1. Ending' = "asked"
        BY <2>4, <3>2 DEF Reply, Ending
      <4>2. LastOutcome # "ok"
        BY <2>1, <3>2 DEF PipelineInv, ReportedAnswerIsCurrent, AfterGraph, LastOutcome
      <4> QED BY <2>1, <2>2, <4>1, <4>2
    <3>3. CASE st.action # "clarification"
      <4>1. Ending' = "answered"
        BY <2>4, <3>1, <3>3 DEF Reply, Ending
      <4>2. LastOutcome # "failed"
        BY <2>1, <3>3 DEF PipelineInv, EndAgreesWithRuns, AfterGraph, LastOutcome, TypeOK
      <4> QED BY <2>1, <2>2, <4>1, <4>2
    <3> QED BY <3>2, <3>3
  <2> QED BY <1>3, <2>3, <2>4 DEF Respond
<1>4. CASE NodeRaises \/ PipelineTimeout
  <2>1. /\ pc \in Nodes /\ pc' \in {"raised", "timed_out"}
        /\ UNCHANGED <<st, reply, dbRuns>>
    BY <1>4 DEF NodeRaises, PipelineTimeout, Nodes
  <2>2. Ending = "open" /\ Ending' = "aborted" /\ LastOutcome' = LastOutcome
    BY <2>1 DEF Ending, LastOutcome, Nodes
  <2> QED BY <2>1, <2>2
<1>5. CASE UNCHANGED vars
  BY <1>5 DEF vars, Ending, LastOutcome
<1> QED BY <1>1, <1>2, <1>3, <1>4, <1>5 DEF Next

\* The pipeline keeps the contract of a turn, whatever the tables, the
\* catalogue and the budgets.
THEOREM KeepsContract == Spec => ImplementsContract
<1>1. Init => Contract!ContractInit
  BY DEF Init, Contract!ContractInit, LastOutcome, Ending
<1>2. /\ TypeOK /\ TypeOK' /\ PipelineInv /\ PipelineInv' /\ [Next]_vars
      => [Contract!ContractNext]_(Contract!contractVars)
  BY ContractStep
<1> QED BY <1>1, <1>2, TypeCorrect, PipelineSafe, PTL
        DEF Spec, ImplementsContract, Contract!ContractSpec

-----------------------------------------------------------------------------
(* How many nodes a turn can still run.  Three cycles of the graph repeat nodes; each  *)
(* round of one costs a retry, a composition or a relink, and five nodes at most.       *)

Missing(s) == MissingTables(s.generatedSql, s.schema)

NodesBeforeEnd(node, missing) ==
    CASE node = "load_history" -> 13
      [] node = "resolve_turn" -> 12
      [] node = "handle_follow_up" -> 11
      [] node = "build_context" -> 10
      [] node = "similarity_check" -> 9
      [] node = "compose_sql" -> 8
      [] node = "validate_sql" -> IF missing = {} THEN 5 ELSE 7
      [] node = "rebuild_context" -> 6
      [] node \in {"execute_sql", "answer_from_state"} -> 4
      [] node = "handle_error" -> 3
      [] node = "write_history" -> 2
      [] node = "respond" -> 1
      [] node \in Ended -> 0

RoundsLeft(s) ==
    (MaxRetries - s.retry) + (MaxComposeRetries - s.composeRetry) + (MaxRelinks - s.relinks)

NodesLeft == NodesBeforeEnd(pc, Missing(st)) + 5 * RoundsLeft(st)

\* The context of a turn is the cached one: what a rebuild appends to this is in that.
ContextIsCached == st.schema = st.cached

NodeCounts ==
    NodesLeft' < NodesLeft \/ (pc = "rebuild_context" /\ ~(st.force \subseteq Catalog))

LEMMA Ranks ==
    ASSUME NEW m
    PROVE  /\ NodesBeforeEnd("load_history", m) = 13
           /\ NodesBeforeEnd("resolve_turn", m) = 12
           /\ NodesBeforeEnd("handle_follow_up", m) = 11
           /\ NodesBeforeEnd("build_context", m) = 10
           /\ NodesBeforeEnd("similarity_check", m) = 9
           /\ NodesBeforeEnd("compose_sql", m) = 8
           /\ NodesBeforeEnd("validate_sql", m) = (IF m = {} THEN 5 ELSE 7)
           /\ NodesBeforeEnd("rebuild_context", m) = 6
           /\ NodesBeforeEnd("execute_sql", m) = 4
           /\ NodesBeforeEnd("answer_from_state", m) = 4
           /\ NodesBeforeEnd("handle_error", m) = 3
           /\ NodesBeforeEnd("write_history", m) = 2
           /\ NodesBeforeEnd("respond", m) = 1
           /\ \A e \in Ended : NodesBeforeEnd(e, m) = 0
<1>1. NodesBeforeEnd("load_history", m) = 13
  BY DEF NodesBeforeEnd, Ended
<1>2. NodesBeforeEnd("resolve_turn", m) = 12
  BY DEF NodesBeforeEnd, Ended
<1>3. NodesBeforeEnd("handle_follow_up", m) = 11
  BY DEF NodesBeforeEnd, Ended
<1>4. NodesBeforeEnd("build_context", m) = 10
  BY DEF NodesBeforeEnd, Ended
<1>5. NodesBeforeEnd("similarity_check", m) = 9
  BY DEF NodesBeforeEnd, Ended
<1>6. NodesBeforeEnd("compose_sql", m) = 8
  BY DEF NodesBeforeEnd, Ended
<1>7. NodesBeforeEnd("validate_sql", m) = (IF m = {} THEN 5 ELSE 7)
  BY DEF NodesBeforeEnd, Ended
<1>8. NodesBeforeEnd("rebuild_context", m) = 6
  BY DEF NodesBeforeEnd, Ended
<1>9. NodesBeforeEnd("execute_sql", m) = 4
  BY DEF NodesBeforeEnd, Ended
<1>10. NodesBeforeEnd("answer_from_state", m) = 4
  BY DEF NodesBeforeEnd, Ended
<1>11. NodesBeforeEnd("handle_error", m) = 3
  BY DEF NodesBeforeEnd, Ended
<1>12. NodesBeforeEnd("write_history", m) = 2
  BY DEF NodesBeforeEnd, Ended
<1>13. NodesBeforeEnd("respond", m) = 1
  BY DEF NodesBeforeEnd, Ended
<1>14. \A e \in Ended : NodesBeforeEnd(e, m) = 0
  BY DEF NodesBeforeEnd, Ended
<1> QED BY <1>1, <1>2, <1>3, <1>4, <1>5, <1>6, <1>7, <1>8, <1>9, <1>10, <1>11, <1>12, <1>13, <1>14

LEMMA ContextStep == TypeOK /\ ContextIsCached /\ [Next]_vars => ContextIsCached'
<1> SUFFICES ASSUME TypeOK, ContextIsCached, [Next]_vars PROVE ContextIsCached'
  OBVIOUS
<1> USE DEF ContextIsCached
<1> st \in GraphState
  BY DEF TypeOK
<1>1. CASE LoadHistory
  BY <1>1 DEF LoadHistory, GraphState
<1>2. CASE ResolveTurn
  BY <1>2 DEF ResolveTurn, Resolved, ForgetPriorTurn, Clarify, GraphState
<1>3. CASE HandleFollowUp
  BY <1>3 DEF HandleFollowUp, ReuseAnswer, RewriteSql, Clarify, GraphState
<1>4. CASE BuildContext
  BY <1>4 DEF BuildContext, GraphState
<1>5. CASE SimilarityCheck
  BY <1>5 DEF SimilarityCheck, GraphState
<1>6. CASE ComposeSql
  BY <1>6 DEF ComposeSql, ClarifyError, ScopeViolation, NothingComposed, Composed, GraphState
<1>7. CASE ValidateSql
  <2>1. st'.schema = st.schema /\ st'.cached = st.cached
    <3>1. st' = Validated(st)
      BY <1>7 DEF ValidateSql
    <3>2. CASE PassesValidator(st.generatedSql, st.schema)
      BY <3>1, <3>2 DEF Validated, GraphState
    <3>3. CASE ~PassesValidator(st.generatedSql, st.schema)
                 /\ MissingTables(st.generatedSql, st.schema) # {}
      BY <3>1, <3>3 DEF Validated, GraphState
    <3>4. CASE ~PassesValidator(st.generatedSql, st.schema)
                 /\ MissingTables(st.generatedSql, st.schema) = {}
      BY <3>1, <3>4 DEF Validated, GraphState
    <3> QED BY <3>2, <3>3, <3>4
  <2> QED BY <2>1
<1>8. CASE RebuildContext
  <2>1. CASE st' = RebuildFailed(st)
    BY <2>1 DEF RebuildFailed, GraphState
  <2>2. ASSUME NEW linked, NEW n, st' = Rebuilt(st, linked, n) PROVE st'.schema = st'.cached
    BY <2>2 DEF Rebuilt, GraphState
  <2> QED BY <1>8, <2>1, <2>2 DEF RebuildContext
<1>9. CASE HandleError
  BY <1>9 DEF HandleError, Exhausted, ClarifyError, AutoFixed, LlmFixed, GraphState
<1>10. CASE ExecuteSql
  BY <1>10 DEF ExecuteSql, ExecutionFailed, Executed, GraphState
<1>11. CASE AnswerFromState
  BY <1>11 DEF AnswerFromState, Clarify, GraphState
<1>12. CASE UNCHANGED st
  BY <1>12
<1>13. CASE WriteHistory \/ Respond \/ NodeRaises \/ PipelineTimeout \/ UNCHANGED vars
  BY <1>12, <1>13 DEF WriteHistory, Respond, NodeRaises, PipelineTimeout, vars
<1> QED BY <1>1, <1>2, <1>3, <1>4, <1>5, <1>6, <1>7, <1>8, <1>9, <1>10, <1>11, <1>13 DEF Next, Node

LEMMA RoundsAreCounted ==
    ASSUME TypeOK, PipelineInv
    PROVE  RoundsLeft(st) \in Nat /\ NodesLeft \in Nat
<1>1. /\ st.retry \in 0..MaxRetries /\ st.composeRetry \in 0..MaxComposeRetries
      /\ st.relinks \in 0..MaxRelinks
  BY BudgetAssumption DEF TypeOK, GraphState, PipelineInv, RetryBudget
<1>2. RoundsLeft(st) \in Nat
  BY <1>1, BudgetAssumption DEF RoundsLeft
<1>3. \A m : NodesBeforeEnd(pc, m) \in 0..13
  BY DEF TypeOK, Nodes, Ended, NodesBeforeEnd
<1>4. NodesBeforeEnd(pc, Missing(st)) \in Nat
  BY <1>3
<1> QED BY <1>2, <1>4 DEF NodesLeft

\* No round of a cycle is given back.
SameRounds(s, t) ==
    t.retry = s.retry /\ t.composeRetry = s.composeRetry /\ t.relinks = s.relinks

LEMMA ForwardCounts ==
    ASSUME TypeOK, PipelineInv, SameRounds(st, st'),
           NodesBeforeEnd(pc', Missing(st')) < NodesBeforeEnd(pc, Missing(st)),
           pc' \in Nodes \cup Ended
    PROVE  NodesLeft' < NodesLeft
<1>1. RoundsLeft(st') = RoundsLeft(st)
  BY DEF SameRounds, RoundsLeft
<1>2. RoundsLeft(st) \in Nat
  BY RoundsAreCounted
<1>3. NodesBeforeEnd(pc, Missing(st)) \in Nat /\ NodesBeforeEnd(pc', Missing(st')) \in Nat
  BY DEF NodesBeforeEnd, Nodes, Ended, TypeOK
<1>4. NodesLeft' = NodesBeforeEnd(pc', Missing(st')) + 5 * RoundsLeft(st')
  BY DEF NodesLeft
<1> QED BY <1>1, <1>2, <1>3, <1>4 DEF NodesLeft

\* A round costs more than the node it goes back to.
LEMMA RoundCounts ==
    ASSUME TypeOK, TypeOK', PipelineInv, PipelineInv',
           RoundsLeft(st') = RoundsLeft(st) - 1,
           NodesBeforeEnd(pc', Missing(st')) < NodesBeforeEnd(pc, Missing(st)) + 5
    PROVE  NodesLeft' < NodesLeft
<1>1. RoundsLeft(st) \in Nat
  BY RoundsAreCounted
<1>2. NodesBeforeEnd(pc, Missing(st)) \in Nat /\ NodesBeforeEnd(pc', Missing(st')) \in Nat
  BY DEF NodesBeforeEnd, Nodes, Ended, TypeOK
<1>3. NodesLeft' = NodesBeforeEnd(pc', Missing(st')) + 5 * RoundsLeft(st')
  BY DEF NodesLeft
<1> DEFINE a == RoundsLeft(st)
           b == NodesBeforeEnd(pc, Missing(st))
           c == NodesBeforeEnd(pc', Missing(st'))
<1>4. c + 5 * (a - 1) < b + 5 * a
  <2>1. a \in Nat /\ b \in Nat /\ c \in Nat /\ c < b + 5
    BY <1>1, <1>2
  <2> HIDE DEF a, b, c
  <2> QED BY <2>1
<1> QED BY <1>3, <1>4 DEF NodesLeft

LEMMA CountStep ==
    ASSUME TypeOK, TypeOK', PipelineInv, PipelineInv', ContextIsCached, Next
    PROVE  NodeCounts
<1> st \in GraphState /\ st' \in GraphState /\ pc \in Nodes \cup Ended /\ pc' \in Nodes \cup Ended
  BY DEF TypeOK
<1> DEFINE Forward == SameRounds(st, st')
                        /\ NodesBeforeEnd(pc', Missing(st')) < NodesBeforeEnd(pc, Missing(st))
<1>f. Forward => NodeCounts
  BY ForwardCounts DEF NodeCounts
<1>r. \A m :
        /\ NodesBeforeEnd("load_history", m) = 13
        /\ NodesBeforeEnd("resolve_turn", m) = 12
        /\ NodesBeforeEnd("handle_follow_up", m) = 11
        /\ NodesBeforeEnd("build_context", m) = 10
        /\ NodesBeforeEnd("similarity_check", m) = 9
        /\ NodesBeforeEnd("compose_sql", m) = 8
        /\ NodesBeforeEnd("validate_sql", m) = (IF m = {} THEN 5 ELSE 7)
        /\ NodesBeforeEnd("rebuild_context", m) = 6
        /\ NodesBeforeEnd("execute_sql", m) = 4
        /\ NodesBeforeEnd("answer_from_state", m) = 4
        /\ NodesBeforeEnd("handle_error", m) = 3
        /\ NodesBeforeEnd("write_history", m) = 2
        /\ NodesBeforeEnd("respond", m) = 1
        /\ \A e \in Ended : NodesBeforeEnd(e, m) = 0
  BY Ranks
<1>1. CASE LoadHistory
  <2>1. SameRounds(st, st')
    BY <1>1 DEF LoadHistory, GraphState, SameRounds
  <2>2. pc = "load_history" /\ pc' = "resolve_turn"
    BY <1>1 DEF LoadHistory, At
  <2> QED BY <1>f, <2>1, <2>2, <1>r
<1>2. CASE ResolveTurn
  <2>1. SameRounds(st, st')
    BY <1>2 DEF ResolveTurn, Resolved, ForgetPriorTurn, Clarify, GraphState, SameRounds
  <2>2. pc = "resolve_turn" /\ pc' \in ResolveEdges \cup {"raised"}
    BY <1>2 DEF ResolveTurn, At, FollowResolveEdge
  <2> QED BY <1>f, <2>1, <2>2, <1>r DEF ResolveEdges, Ended
<1>3. CASE HandleFollowUp
  <2>1. SameRounds(st, st')
    BY <1>3 DEF HandleFollowUp, ReuseAnswer, RewriteSql, Clarify, GraphState, SameRounds
  <2>2. pc = "handle_follow_up" /\ pc' \in {"write_history", "build_context", "execute_sql"}
    BY <1>3 DEF HandleFollowUp, At, RouteAfterFollowUp
  <2> QED BY <1>f, <2>1, <2>2, <1>r
<1>4. CASE BuildContext
  <2>1. SameRounds(st, st')
    BY <1>4 DEF BuildContext, GraphState, SameRounds
  <2>2. pc = "build_context" /\ pc' = "similarity_check"
    BY <1>4 DEF BuildContext, At
  <2> QED BY <1>f, <2>1, <2>2, <1>r
<1>5. CASE SimilarityCheck
  <2>1. SameRounds(st, st')
    BY <1>5 DEF SimilarityCheck, GraphState, SameRounds
  <2>2. pc = "similarity_check" /\ pc' \in {"execute_sql", "compose_sql"}
    BY <1>5 DEF SimilarityCheck, At
  <2> QED BY <1>f, <2>1, <2>2, <1>r
<1>6. CASE ComposeSql
  <2>1. pc = "compose_sql" /\ pc' = RouteAfterCompose(st')
    BY <1>6 DEF ComposeSql, At
  <2>2. CASE st' = NothingComposed(st) /\ st.composeRetry < MaxComposeRetries
    <3>1. /\ st'.retry = st.retry /\ st'.composeRetry = st.composeRetry + 1
          /\ st'.relinks = st.relinks /\ st'.action = "no_sql_retry"
      BY <2>2 DEF NothingComposed, GraphState
    <3>2. RoundsLeft(st') = RoundsLeft(st) - 1
      BY <3>1, BudgetAssumption DEF RoundsLeft, GraphState
    <3>3. pc' = "compose_sql"
      BY <2>1, <3>1 DEF RouteAfterCompose
    <3> QED BY <2>1, <3>2, <3>3, RoundCounts, <1>r DEF NodeCounts
  <2>3. CASE ~(st' = NothingComposed(st) /\ st.composeRetry < MaxComposeRetries)
    <3>1. SameRounds(st, st') /\ st'.action # "no_sql_retry"
      BY <1>6, <2>3 DEF ComposeSql, ClarifyError, ScopeViolation, NothingComposed, Composed,
                        GraphState, SameRounds
    <3>2. pc' \in {"write_history", "validate_sql"}
      BY <2>1, <3>1 DEF RouteAfterCompose
    <3> QED BY <1>f, <2>1, <3>1, <3>2, <1>r
  <2> QED BY <2>2, <2>3
<1>7. CASE ValidateSql
  <2>1. st' = Validated(st) /\ pc = "validate_sql" /\ pc' = RouteAfterValidate(st')
    BY <1>7 DEF ValidateSql, At
  <2>2. CASE PassesValidator(st.generatedSql, st.schema)
    <3>1. SameRounds(st, st') /\ ~st'.issues
      BY <2>1, <2>2 DEF Validated, GraphState, SameRounds
    <3> QED BY <1>f, <2>1, <3>1, <1>r DEF RouteAfterValidate
  <2>3. CASE ~PassesValidator(st.generatedSql, st.schema) /\ Missing(st) # {}
    <3>1. SameRounds(st, st')
      BY <2>1, <2>3 DEF Validated, GraphState, SameRounds, Missing
    <3>2. pc' \in {"execute_sql", "rebuild_context", "handle_error"}
      BY <2>1 DEF RouteAfterValidate
    <3> QED BY <1>f, <2>1, <2>3, <3>1, <3>2, <1>r
  <2>4. CASE ~PassesValidator(st.generatedSql, st.schema) /\ Missing(st) = {}
    <3>1. SameRounds(st, st') /\ st'.rebuild = st.rebuild /\ st'.force = st.force /\ st'.issues
      BY <2>1, <2>4 DEF Validated, GraphState, SameRounds, Missing
    <3>2. ~st.rebuild \/ st.force = {}
      BY <2>1 DEF PipelineInv, FlagsAreSpent, Nodes
    <3>3. pc' = "handle_error"
      BY <2>1, <3>1, <3>2 DEF RouteAfterValidate
    <3> QED BY <1>f, <2>1, <3>1, <3>3, <1>r
  <2> QED BY <2>2, <2>3, <2>4
<1>8. CASE RebuildContext
  <2>1. pc = "rebuild_context" /\ pc' = RouteAfterRebuild(st')
    BY <1>8 DEF RebuildContext, At
  <2>2. pc' \in {"validate_sql", "handle_error"}
    BY <2>1 DEF RouteAfterRebuild
  <2>3. CASE st' = RebuildFailed(st)
    <3>1. SameRounds(st, st') /\ st'.error # "none"
      BY <2>3 DEF RebuildFailed, SameRounds, GraphState
    <3> QED BY <1>f, <2>1, <3>1, <1>r DEF RouteAfterRebuild
  <2>4. CASE st' = Rebuilt(st, st.cached, st.relinks)
    <3>1. SUFFICES ASSUME st.force \subseteq Catalog PROVE NodeCounts
      BY <2>1 DEF NodeCounts
    <3>2. /\ SameRounds(st, st') /\ st'.generatedSql = st.generatedSql
          /\ st'.schema = st.cached \cup (st.force \cap Catalog)
      BY <2>4 DEF Rebuilt, SameRounds, GraphState
    <3>3. st.force # {} /\ st.force = MissingTables(st.generatedSql, st.schema)
      BY <2>1 DEF PipelineInv, RebuildIsForCurrentSql
    <3>4. st'.schema = st.schema \cup MissingTables(st.generatedSql, st.schema)
      BY <3>1, <3>2, <3>3 DEF ContextIsCached
    <3>5. Missing(st') = {}
      BY <3>2, <3>4 DEF Missing, MissingTables
    <3> QED BY <1>f, <2>1, <2>2, <3>2, <3>5, <1>r
  <2>5. ASSUME NEW linked \in SUBSET Catalog, st.relinks < MaxRelinks,
               st' = Rebuilt(st, linked, st.relinks + 1)
        PROVE  NodeCounts
    <3>1. /\ st'.retry = st.retry /\ st'.composeRetry = st.composeRetry
          /\ st'.relinks = st.relinks + 1
      BY <2>5 DEF Rebuilt, GraphState
    <3>2. RoundsLeft(st') = RoundsLeft(st) - 1
      BY <3>1, BudgetAssumption DEF RoundsLeft, GraphState
    <3> QED BY <2>1, <2>2, <3>2, RoundCounts, <1>r DEF NodeCounts
  <2> QED BY <1>8, <2>3, <2>4, <2>5 DEF RebuildContext
<1>9. CASE HandleError
  <2>1. pc = "handle_error" /\ pc' \in {"write_history", "execute_sql", "validate_sql"}
    BY <1>9 DEF HandleError, At, RouteAfterHandleError
  <2>2. CASE st' = Exhausted(st)
    <3>1. SameRounds(st, st') /\ st'.action = "clarification"
      BY <2>2 DEF Exhausted, ClarifyError, SameRounds, GraphState
    <3>2. pc' = "write_history"
      BY <1>9, <3>1 DEF HandleError, RouteAfterHandleError
    <3> QED BY <1>f, <2>1, <3>1, <3>2, <1>r
  <2>3. CASE st' = AutoFixed(st) \/ \E q \in Sql : st' = LlmFixed(st, q)
    <3>1. st'.retry = st.retry + 1 /\ st'.composeRetry = st.composeRetry
      BY <2>3, FixCostsRetry
    <3>2. st'.relinks = st.relinks
      <4>1. CASE st' = AutoFixed(st)
        BY <4>1 DEF AutoFixed, GraphState
      <4>2. ASSUME NEW q \in Sql, st' = LlmFixed(st, q) PROVE st'.relinks = st.relinks
        BY <4>2 DEF LlmFixed, GraphState
      <4> QED BY <2>3, <4>1, <4>2
    <3>3. RoundsLeft(st') = RoundsLeft(st) - 1
      BY <3>1, <3>2, BudgetAssumption DEF RoundsLeft, GraphState
    <3> QED BY <2>1, <3>3, RoundCounts, <1>r DEF NodeCounts
  <2> QED BY <1>9, <2>2, <2>3 DEF HandleError
<1>10. CASE ExecuteSql
  <2>1. SameRounds(st, st')
    BY <1>10 DEF ExecuteSql, ExecutionFailed, Executed, SameRounds, GraphState
  <2>2. pc = "execute_sql" /\ pc' \in {"handle_error", "write_history"}
    BY <1>10 DEF ExecuteSql, RouteAfterExecute, At
  <2> QED BY <1>f, <2>1, <2>2, <1>r
<1>11. CASE AnswerFromState
  <2>1. SameRounds(st, st')
    BY <1>11 DEF AnswerFromState, Clarify, SameRounds, GraphState
  <2>2. pc = "answer_from_state" /\ pc' = "write_history"
    BY <1>11 DEF AnswerFromState, At
  <2> QED BY <1>f, <2>1, <2>2, <1>r
<1>12. CASE WriteHistory
  BY <1>f, <1>12, <1>r DEF WriteHistory, At, SameRounds
<1>13. CASE Respond
  BY <1>f, <1>13, <1>r DEF Respond, SameRounds, Ended
<1>14. CASE NodeRaises \/ PipelineTimeout
  <2>1. SameRounds(st, st') /\ pc \in Nodes /\ pc' \in {"raised", "timed_out"}
    BY <1>14 DEF NodeRaises, PipelineTimeout, SameRounds, Nodes
  <2>2. NodesBeforeEnd(pc', Missing(st')) = 0
    BY <2>1, <1>r DEF Ended
  <2>3. NodesBeforeEnd(pc, Missing(st)) > 0
    BY <2>1, <1>r DEF Nodes
  <2> QED BY <1>f, <2>1, <2>2, <2>3
<1> QED BY <1>1, <1>2, <1>3, <1>4, <1>5, <1>6, <1>7, <1>8, <1>9, <1>10, <1>11, <1>12, <1>13, <1>14
        DEF Next, Node

\* Whatever the LLM and the databases answer, each node leaves fewer to run, of at most 13 and
\* five for each retry: the cycles of the graph do not go on for ever, but for one, a rebuild
\* that is asked for a table the catalogue does not have (llm/graph/graph.py;
\* nodes/rebuild_context.py).
THEOREM EveryNodeCounts ==
    Spec => /\ [](NodesLeft \in 0..(13 + 5 * (MaxRetries + MaxComposeRetries + MaxRelinks)))
            /\ [][NodeCounts]_vars
<1>1. Init => ContextIsCached
  BY DEF Init, FreshState, ContextIsCached
<1>2. TypeOK /\ TypeOK' /\ PipelineInv /\ PipelineInv' /\ ContextIsCached /\ [Next]_vars
        => [NodeCounts]_vars
  BY CountStep
<1>3. TypeOK /\ PipelineInv
        => NodesLeft \in 0..(13 + 5 * (MaxRetries + MaxComposeRetries + MaxRelinks))
  <2> SUFFICES ASSUME TypeOK, PipelineInv
               PROVE  NodesLeft \in 0..(13 + 5 * (MaxRetries + MaxComposeRetries + MaxRelinks))
    OBVIOUS
  <2>1. NodesLeft \in Nat /\ RoundsLeft(st) \in Nat
    BY RoundsAreCounted
  <2>2. RoundsLeft(st) <= MaxRetries + MaxComposeRetries + MaxRelinks
    <3>1. st.retry \in Nat /\ st.composeRetry \in Nat /\ st.relinks \in Nat
      BY BudgetAssumption DEF TypeOK, GraphState
    <3> QED BY <3>1, BudgetAssumption DEF RoundsLeft
  <2>3. \A m : NodesBeforeEnd(pc, m) \in 0..13
    BY DEF TypeOK, Nodes, Ended, NodesBeforeEnd
  <2>4. NodesBeforeEnd(pc, Missing(st)) \in 0..13
    BY <2>3
  <2> QED BY <2>1, <2>2, <2>4, BudgetAssumption DEF NodesLeft
<1> QED BY <1>1, <1>2, <1>3, ContextStep, TypeCorrect, PipelineSafe, PTL DEF Spec
=============================================================================
