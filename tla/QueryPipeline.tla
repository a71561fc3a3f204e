--------------------------- MODULE QueryPipeline ---------------------------
(***************************************************************************)
(* One chat turn of the LangGraph pipeline: backend/app/llm/graph.         *)
(*                                                                         *)
(* pc names the node LangGraph runs next, st is GraphState.  A node        *)
(* returns a partial dict that LangGraph merges into the state, so every   *)
(* action is st' = [st EXCEPT ...] over the keys that node returns: a key  *)
(* it does not return keeps its stale value, as in the code.  Answers of   *)
(* the LLM and of the databases are nondeterministic choices.              *)
(***************************************************************************)
EXTENDS Naturals

CONSTANTS
    Tables,           \* names a SQL text can use as a table (CTE names too)
    Catalog,          \* names among them held by CachedTable for the connection
    NoSql,            \* None, or the empty string, where a SQL text is expected
    NoContext,        \* last_query_context is None
    NoRow,            \* no QueryExecution was saved
    MaxRetries,        \* handle_error._MAX_RETRIES
    MaxComposeRetries, \* compose_sql._MAX_COMPOSE_RETRIES
    MaxTotalAttempts,  \* compose_sql._MAX_TOTAL_ATTEMPTS
    UseFollowUpPath,   \* settings.use_follow_up_path
    MaxRelinks         \* bound: expiries of the cached context within one turn

(***************************************************************************)
(* A SQL text, reduced to what the validator and the router tell apart.    *)
(* "blocked" is rejected by check_sql_safety or is not a SELECT / WITH;    *)
(* "malformed" has an unknown column or does not parse.                    *)
(***************************************************************************)
Sql == [refs: SUBSET Tables, form: {"clean", "malformed", "blocked"}]
MaybeSql == Sql \cup {NoSql}

LastQueryContext == [sql: Sql, answered: BOOLEAN, schema: SUBSET Catalog]

ASSUME BudgetAssumption ==
    /\ MaxRetries \in Nat /\ MaxComposeRetries \in Nat
    /\ MaxTotalAttempts \in Nat /\ MaxRelinks \in Nat
    /\ UseFollowUpPath \in BOOLEAN
ASSUME NamesAssumption ==
    /\ Catalog \subseteq Tables
    /\ NoSql \notin Sql
    /\ NoContext \notin LastQueryContext

VARIABLES
    pc,       \* the node to run next, or how the run ended
    st,       \* GraphState
    row,      \* the QueryExecution saved by write_history
    reply,    \* what execute_nl_query did with the final state
    stored,   \* the SQL handed to set_cached_sql
    dbRuns    \* history variable: runs of execute_sql in this turn

vars == <<pc, st, row, reply, stored, dbRuns>>

Nodes == {"load_history", "resolve_turn", "handle_follow_up", "build_context",
          "similarity_check", "compose_sql", "validate_sql", "rebuild_context",
          "handle_error", "execute_sql", "answer_from_state", "write_history",
          "respond"}
Ended == {"done", "raised", "timed_out"}

Actions == {"none", "query", "follow_up_query_refinement", "follow_up_rewrite_sql",
            "explain_result", "show_schema", "clarification", "no_sql_retry",
            "show_sql"}
FollowUpModes == {"none", "reuse_answer", "rewrite_sql", "needs_full_compose"}
Errors == {"none", "scope", "attempts", "no_sql", "rebuild", "db", "db_distinct",
           "exhausted"}

GraphState ==
    [scoped: BOOLEAN,           \* user_role = "user" with a resource or employee id
     unscopedQuestion: BOOLEAN, \* _is_unscoped_question(resolved_question)
     history: BOOLEAN,          \* loaded_history is not empty
     lqc: LastQueryContext \cup {NoContext},
     preview: BOOLEAN,          \* last_result_columns and preview rows exist
     action: Actions,
     mode: FollowUpModes,
     prompt: {"none", "plain", "scoped"},
     schema: SUBSET Catalog,    \* the keys of schema_tables
     cached: SUBSET Catalog,    \* tables of the BuiltContext in _CONTEXT_CACHE
     relinks: 0..MaxRelinks,
     shortcut: BOOLEAN,
     generatedSql: MaybeSql,
     sql: MaybeSql,
     issues: BOOLEAN,           \* validation_issues is not empty
     rebuild: BOOLEAN,          \* needs_context_rebuild
     force: SUBSET Tables,      \* force_include_tables
     retry: Nat,                \* retry_count
     composeRetry: Nat,         \* compose_retry_count
     result: {"none", "empty", "rows"},
     error: Errors,
     answer: {"none", "prior", "fresh", "explained"}]

SavedRow == [turn: {"query", "clarification", "explain_result"},
             status: {"success", "error"},
             sql: MaybeSql,
             context: BOOLEAN,       \* turn_context is not null
             schema: SUBSET Catalog] \* turn_context["schema_tables"]

TypeOK ==
    /\ pc \in Nodes \cup Ended
    /\ st \in GraphState
    /\ row \in SavedRow \cup {NoRow}
    /\ reply \in {"none", "clarification", "answer", "error"}
    /\ stored \in MaybeSql
    /\ dbRuns \in Nat

-----------------------------------------------------------------------------
\* sql_validator.SQLValidatorAgent: an empty schema skips the schema checks.
MissingTables(q, schema) ==
    IF q = NoSql \/ schema = {} THEN {}
    ELSE IF q.form = "blocked" THEN {} ELSE q.refs \ schema

PassesValidator(q, schema) ==
    /\ q # NoSql
    /\ q.form # "blocked"
    /\ schema # {} => q.form = "clean" /\ q.refs \subseteq schema

\* handle_follow_up._validate_sql_against_schema on the cached schema: the
\* tables, but neither the safety patterns nor unqualified column names.  A
\* rejected qualified column has the effect of an LLM that returned nothing.
PassesRewriteCheck(q, schema) == schema # {} /\ q.refs \subseteq schema

\* What `generated_sql or sql` evaluates to.
SqlToRun(s) == IF s.generatedSql # NoSql THEN s.generatedSql ELSE s.sql

FreshState(scoped, unscoped) ==
    [scoped |-> scoped, unscopedQuestion |-> unscoped, history |-> FALSE,
     lqc |-> NoContext, preview |-> FALSE, action |-> "none", mode |-> "none",
     prompt |-> "none", schema |-> {}, cached |-> {}, relinks |-> 0,
     shortcut |-> FALSE, generatedSql |-> NoSql, sql |-> NoSql,
     issues |-> FALSE, rebuild |-> FALSE, force |-> {}, retry |-> 0,
     composeRetry |-> 0, result |-> "none", error |-> "none", answer |-> "none"]

Init ==
    /\ pc = "load_history"
    /\ \E scoped, unscoped \in BOOLEAN : st = FreshState(scoped, unscoped)
    /\ row = NoRow
    /\ reply = "none"
    /\ stored = NoSql
    /\ dbRuns = 0

At(node) == pc = node /\ UNCHANGED <<reply, stored>>
Quiet == UNCHANGED <<row, dbRuns>>

Clarify(s) == [s EXCEPT !.action = "clarification"]
ClarifyError(s, e) == [s EXCEPT !.action = "clarification", !.error = e]

-----------------------------------------------------------------------------
\* load_history: no session, no rows and a failed read all give the empty
\* bundle; a turn served from the SQL cache left a row without turn_context.
HistoryBundle ==
    {h \in [rows: BOOLEAN, preview: BOOLEAN,
            lqc: {c \in LastQueryContext : c.sql.form = "clean"} \cup {NoContext}] :
        h.preview \/ h.lqc # NoContext => h.rows}

LoadHistory ==
    /\ At("load_history") /\ Quiet
    /\ \E h \in HistoryBundle :
         st' = [st EXCEPT !.history = h.rows, !.lqc = h.lqc, !.preview = h.preview]
    /\ pc' = "resolve_turn"

-----------------------------------------------------------------------------
RouteAfterResolve(s) ==
    CASE s.action = "follow_up_query_refinement" ->
            IF s.mode = "needs_full_compose" THEN "build_context" ELSE "handle_follow_up"
      [] s.action = "query" -> "build_context"
      [] s.action = "show_schema" -> "show_schema"
      [] s.action = "explain_result" -> "answer_from_state"
      [] OTHER -> "write_history"

\* The path map graph.py gives to add_conditional_edges("resolve_turn", ...);
\* LangGraph raises KeyError on a route outside it.
ResolveEdges == {"build_context", "handle_follow_up", "answer_from_state", "write_history"}

FollowResolveEdge ==
    pc' = LET r == RouteAfterResolve(st') IN IF r \in ResolveEdges THEN r ELSE "raised"

ForgetPriorTurn(s) == [s EXCEPT !.lqc = NoContext, !.preview = FALSE]

\* What resolve_turn makes of a parsed LLM verdict about the current message.
Resolved(s, verdict) ==
    LET flagged == IF verdict.action = "follow_up_query_refinement" /\ ~UseFollowUpPath
                   THEN "query" ELSE verdict.action
        switch == s.lqc # NoContext /\ verdict.topicSwitch
        heuristic == /\ s.lqc # NoContext /\ ~switch /\ verdict.signals
                     /\ flagged # "follow_up_query_refinement"
        action == IF heuristic THEN "follow_up_query_refinement" ELSE flagged
        mode == IF heuristic THEN "rewrite_sql" ELSE verdict.mode
        next == [s EXCEPT !.action = action,
                          !.mode = IF action = "follow_up_query_refinement"
                                   THEN mode ELSE s.mode]
    IN  IF flagged # "clarification" /\ ~verdict.confident THEN Clarify(s)
        ELSE IF \/ action = "query" /\ switch
                \/ action = "follow_up_query_refinement" /\ mode = "needs_full_compose"
             THEN ForgetPriorTurn(next)
             ELSE next

Verdict ==
    [action: {"query", "follow_up_query_refinement", "explain_result",
              "clarification", "show_sql"},
     mode: FollowUpModes, confident: BOOLEAN, topicSwitch: BOOLEAN, signals: BOOLEAN]

ResolveTurn ==
    /\ At("resolve_turn") /\ Quiet
    /\ \/ st' = [st EXCEPT !.action = "show_schema"]  \* schema question, any turn
       \/ st' = [st EXCEPT !.action = "query"]        \* first turn, or the LLM failed
       \/ st.history /\ \E v \in Verdict : st' = Resolved(st, v)
    /\ FollowResolveEdge

-----------------------------------------------------------------------------
RouteAfterFollowUp(s) ==
    LET hasSql == s.sql # NoSql \/ s.generatedSql # NoSql
    IN  CASE s.action = "clarification" -> "write_history"
          [] s.action = "query" -> "build_context"
          [] /\ s.action \notin {"clarification", "query"}
             /\ s.action = "follow_up_rewrite_sql" \/ hasSql -> "execute_sql"
          [] OTHER -> "write_history"

ReuseAnswer(s) ==
    IF s.lqc # NoContext /\ s.lqc.answered
    THEN [s EXCEPT !.answer = "prior", !.generatedSql = s.lqc.sql, !.sql = s.lqc.sql]
    ELSE Clarify(s)

\* rewritten is the LLM's SQL, NoSql when the call failed or returned nothing.
RewriteSql(s, rewritten) ==
    IF s.lqc # NoContext /\ rewritten # NoSql /\ PassesRewriteCheck(rewritten, s.lqc.schema)
    THEN [s EXCEPT !.generatedSql = rewritten, !.sql = rewritten,
                   !.action = "follow_up_rewrite_sql"]
    ELSE [s EXCEPT !.action = "query"]

HandleFollowUp ==
    /\ At("handle_follow_up") /\ Quiet
    /\ \/ st.mode = "reuse_answer" /\ st' = ReuseAnswer(st)
       \/ st.mode = "rewrite_sql" /\ \E q \in MaybeSql : st' = RewriteSql(st, q)
       \/ /\ st.mode \notin {"reuse_answer", "rewrite_sql"}
          /\ st' = [st EXCEPT !.action = "query"]
    /\ pc' = RouteAfterFollowUp(st')

-----------------------------------------------------------------------------
\* build_context_node: schema linking picks any part of the catalogue.
BuildContext ==
    /\ At("build_context") /\ Quiet
    /\ \E linked \in SUBSET Catalog :
         st' = [st EXCEPT !.prompt = IF st.scoped THEN "scoped" ELSE "plain",
                          !.schema = linked, !.cached = linked]
    /\ pc' = "similarity_check"

\* similarity_check: skipped for scoped users; only a first turn may take the
\* shortcut, any other match is a hint for the composer.
\* Fault variant: the shortcut without the RBAC test.
MayShortcut_AnyUser(s) == ~s.history

MayShortcut(s) == ~s.scoped /\ ~s.history

SimilarityCheck ==
    /\ At("similarity_check") /\ Quiet
    /\ \/ st' = [st EXCEPT !.shortcut = FALSE]
       \/ /\ MayShortcut(st)
          /\ \E sample \in Sql :
               st' = [st EXCEPT !.shortcut = TRUE, !.sql = sample, !.generatedSql = sample]
    /\ pc' = IF st'.shortcut THEN "execute_sql" ELSE "compose_sql"

-----------------------------------------------------------------------------
\* Fault variant: a composer that gave up is validated like any other.
RouteAfterCompose_NoGiveUp(s) ==
    IF s.action = "no_sql_retry" THEN "compose_sql" ELSE "validate_sql"

RouteAfterCompose(s) ==
    CASE s.action = "no_sql_retry" -> "compose_sql"
      [] s.action = "clarification" -> "write_history"
      [] OTHER -> "validate_sql"

TooManyAttempts(s) == s.retry + s.composeRetry >= MaxTotalAttempts

Composed(s, q) ==
    [s EXCEPT !.generatedSql = q, !.action = "query", !.issues = FALSE,
              !.rebuild = FALSE, !.force = {}]

NothingComposed(s) ==
    IF s.composeRetry < MaxComposeRetries
    THEN [s EXCEPT !.composeRetry = @ + 1, !.action = "no_sql_retry", !.generatedSql = NoSql]
    ELSE ClarifyError(s, "no_sql")

ScopeViolation(s) == [ClarifyError(s, "scope") EXCEPT !.generatedSql = NoSql]

ComposeSql ==
    /\ At("compose_sql") /\ Quiet
    /\ IF TooManyAttempts(st) THEN st' = ClarifyError(st, "attempts")
       ELSE IF st.scoped /\ st.unscopedQuestion THEN st' = ScopeViolation(st)
       ELSE \/ st.scoped /\ st' = ScopeViolation(st)
            \/ st' = NothingComposed(st)
            \/ \E q \in Sql : st' = Composed(st, q)
    /\ pc' = RouteAfterCompose(st')

-----------------------------------------------------------------------------
Validated(s) ==
    LET missing == MissingTables(s.generatedSql, s.schema)
    IN  IF PassesValidator(s.generatedSql, s.schema)
        THEN [s EXCEPT !.issues = FALSE, !.rebuild = FALSE, !.force = {}]
        ELSE IF missing # {}
        THEN [s EXCEPT !.issues = TRUE, !.rebuild = TRUE, !.force = missing]
        ELSE [s EXCEPT !.issues = TRUE]

RouteAfterValidate(s) ==
    IF ~s.issues THEN "execute_sql"
    ELSE IF s.rebuild /\ s.force # {} THEN "rebuild_context" ELSE "handle_error"

ValidateSql ==
    /\ At("validate_sql") /\ Quiet
    /\ st' = Validated(st)
    /\ pc' = RouteAfterValidate(st')

\* rebuild_context appends the forced tables to the BuiltContext it gets.  The
\* cached object is the one of build_context_node and keeps what was appended;
\* its TTL (300s) outlives the pipeline timeout (45s), so a relink from
\* scratch happens at most MaxRelinks times in a turn.
\* Fault variant: the rebuild flags survive.
Rebuilt_KeepsFlags(s, base, relinks) ==
    LET tables == base \cup (s.force \cap Catalog)
    IN  [s EXCEPT !.schema = tables, !.cached = tables, !.relinks = relinks,
                  !.issues = FALSE]

Rebuilt(s, base, relinks) ==
    LET tables == base \cup (s.force \cap Catalog)
    IN  [s EXCEPT !.prompt = "plain", !.schema = tables, !.cached = tables,
                  !.relinks = relinks, !.rebuild = FALSE, !.force = {}, !.issues = FALSE]

RebuildFailed(s) == [s EXCEPT !.error = "rebuild", !.rebuild = FALSE]

RouteAfterRebuild(s) == IF s.error # "none" THEN "handle_error" ELSE "validate_sql"

RebuildContext ==
    /\ At("rebuild_context") /\ Quiet
    /\ \/ st' = Rebuilt(st, st.cached, st.relinks)
       \/ /\ st.relinks < MaxRelinks
          /\ \E linked \in SUBSET Catalog : st' = Rebuilt(st, linked, st.relinks + 1)
       \/ st' = RebuildFailed(st)
    /\ pc' = RouteAfterRebuild(st')

-----------------------------------------------------------------------------
\* handle_error returns "_target_node", but GraphState declares no such key:
\* LangGraph drops it, so the router reads None and takes its default.
\* Fault variant: the key survives and execution errors skip re-validation.
TargetNodeRead_Kept(s) ==
    IF s.error \in {"db", "db_distinct"} THEN "execute_sql" ELSE "validate_sql"

TargetNodeRead(s) == "none"

RouteAfterHandleError(s) ==
    IF s.action = "clarification" THEN "write_history"
    ELSE IF TargetNodeRead(s) = "execute_sql" THEN "execute_sql" ELSE "validate_sql"

SchemaForFix(s) ==
    IF s.schema = {} /\ s.lqc # NoContext THEN s.lqc.schema ELSE s.schema

Exhausted(s) == ClarifyError(s, "exhausted")

CannotRetry(s) ==
    \/ s.retry >= MaxRetries
    \/ s.error # "none" /\ SchemaForFix(s) = {}

\* Fault variants: a correction that costs no retry.
AutoFixed_Uncounted(s) == [s EXCEPT !.generatedSql = SqlToRun(s), !.sql = NoSql]

LlmFixed_Uncounted(s, q) ==
    [s EXCEPT !.generatedSql = q, !.sql = NoSql, !.action = "query",
              !.issues = FALSE, !.rebuild = FALSE, !.force = {}]

\* SELECT DISTINCT rewritten to GROUP BY: same tables, same columns.
AutoFixed(s) == [s EXCEPT !.generatedSql = SqlToRun(s), !.sql = NoSql, !.retry = @ + 1]

LlmFixed(s, q) ==
    [s EXCEPT !.generatedSql = q, !.sql = NoSql, !.action = "query", !.retry = @ + 1,
              !.issues = FALSE, !.rebuild = FALSE, !.force = {}]

\* The second Exhausted is an empty or an identical correction by the LLM.
HandleError ==
    /\ At("handle_error") /\ Quiet
    /\ IF CannotRetry(st) THEN st' = Exhausted(st)
       ELSE \/ st.error = "db_distinct" /\ st' = AutoFixed(st)
            \/ st' = Exhausted(st)
            \/ \E q \in Sql : st' = LlmFixed(st, q)
    /\ pc' = RouteAfterHandleError(st')

-----------------------------------------------------------------------------

ExecutionFailed(s, e) ==
    [s EXCEPT !.sql = SqlToRun(s), !.generatedSql = SqlToRun(s),
              !.result = "none", !.error = e, !.answer = "none"]

Executed(s, outcome) ==
    [s EXCEPT !.sql = SqlToRun(s), !.generatedSql = SqlToRun(s),
              !.result = outcome, !.error = "none", !.answer = "fresh"]

\* Fault variant: a failed run ends the turn.
RouteAfterExecute_NoRetry(s) == "write_history"

RouteAfterExecute(s) == IF s.error # "none" THEN "handle_error" ELSE "write_history"

\* The connector repeats check_sql_safety, so a blocked text always fails.
ExecuteSql ==
    /\ At("execute_sql") /\ UNCHANGED row
    /\ \/ \E e \in {"db", "db_distinct"} : st' = ExecutionFailed(st, e)
       \/ /\ SqlToRun(st) # NoSql /\ SqlToRun(st).form # "blocked"
          /\ \E outcome \in {"empty", "rows"} : st' = Executed(st, outcome)
    /\ dbRuns' = dbRuns + 1
    /\ pc' = RouteAfterExecute(st')

\* answer_from_state: an LLM failure is swallowed into a fixed answer.
AnswerFromState ==
    /\ At("answer_from_state") /\ Quiet
    /\ st' = IF st.preview THEN [st EXCEPT !.answer = "explained"] ELSE Clarify(st)
    /\ pc' = "write_history"

-----------------------------------------------------------------------------
TurnType(s) ==
    IF s.action \in {"clarification", "explain_result"} THEN s.action ELSE "query"

HistoryRow(s) ==
    LET turn == TurnType(s)
        context == turn = "query" /\ s.result # "none" /\ s.error = "none"
    IN  [turn |-> turn,
         status |-> IF s.error # "none" /\ turn = "query" THEN "error" ELSE "success",
         sql |-> SqlToRun(s),
         context |-> context,
         schema |-> IF context THEN s.schema ELSE {}]

\* write_history: a failed insert is logged and swallowed.
WriteHistory ==
    /\ At("write_history") /\ UNCHANGED <<st, dbRuns>>
    /\ row' \in {HistoryRow(st), NoRow}
    /\ pc' = "respond"

\* Fault variant: corrected SQL is cached too.
ShouldCache_Corrected(s) ==
    s.action = "query" /\ s.sql # NoSql /\ s.error = "none" /\ s.result = "rows"

ShouldCache(s) ==
    /\ s.action = "query" /\ s.sql # NoSql /\ s.error = "none"
    /\ s.retry = 0 /\ s.result = "rows"

Reply(s) ==
    CASE s.action = "clarification" -> "clarification"
      [] s.action # "clarification" /\ s.error # "none" /\ s.result = "none" -> "error"
      [] OTHER -> "answer"

\* execute_nl_query after ainvoke: the SQL cache, the session title (a
\* database call that may raise), then the payload or AppError 422.
Respond ==
    /\ pc = "respond"
    /\ stored' = IF ShouldCache(st) THEN st.sql ELSE NoSql
    /\ \/ pc' = "done" /\ reply' = Reply(st)
       \/ pc' = "raised" /\ UNCHANGED reply
    /\ UNCHANGED <<st, row, dbRuns>>

\* An exception no node catches: a resolver verdict of the wrong shape, the
\* app database, the LLM client, or get_or_create_connector.
NodeRaises ==
    /\ pc \in {"resolve_turn", "handle_follow_up", "build_context", "compose_sql",
              "handle_error", "execute_sql"}
    /\ pc' = "raised"
    /\ UNCHANGED <<st, row, reply, stored, dbRuns>>

\* asyncio.wait_for(ainvoke, pipeline_timeout_seconds) cancels the graph.
PipelineTimeout ==
    /\ pc \in Nodes \ {"respond"}
    /\ pc' = "timed_out"
    /\ UNCHANGED <<st, row, reply, stored, dbRuns>>

Node ==
    \/ LoadHistory \/ ResolveTurn \/ HandleFollowUp
    \/ BuildContext \/ SimilarityCheck \/ ComposeSql
    \/ ValidateSql \/ RebuildContext \/ HandleError
    \/ ExecuteSql \/ AnswerFromState \/ WriteHistory \/ Respond

Next == Node \/ NodeRaises \/ PipelineTimeout

Spec == Init /\ [][Next]_vars

\* Every node awaits calls that return or fail, so a ready node runs.
FairSpec == Spec /\ WF_vars(Node)

-----------------------------------------------------------------------------
(* Safety *)

AfterGraph == pc \in {"write_history", "respond", "done"}

\* The counters that bound the correction cycle are respected, and every run
\* against the customer's database after the first was paid for with a retry,
\* over all three cycles of the graph (compose, rebuild, correct).
RetryBudget ==
    /\ st.retry <= MaxRetries
    /\ st.composeRetry <= MaxComposeRetries
    /\ dbRuns <= st.retry + (IF pc = "execute_sql" THEN 0 ELSE 1)

\* What execute_sql is about to run was vetted for this very text: by the
\* validator against the current schema, or, before any correction, as a stored
\* sample query, as the previous turn's own SQL, or by the rewrite check
\* against the previous turn's schema.
VettedBeforeExecution ==
    pc = "execute_sql" =>
        \/ PassesValidator(st.generatedSql, st.schema)
        \/ /\ st.retry = 0
           /\ \/ st.shortcut
              \/ /\ st.lqc # NoContext
                 /\ \/ st.mode = "reuse_answer" /\ st.generatedSql = st.lqc.sql
                    \/ /\ st.action = "follow_up_rewrite_sql"
                       /\ PassesRewriteCheck(st.generatedSql, st.lqc.schema)

\* rebuild_context is entered for tables the current SQL misses in the current
\* schema, never on flags left over from an earlier SQL of the cycle.
RebuildIsForCurrentSql ==
    pc = "rebuild_context" =>
        st.force # {} /\ st.force = MissingTables(st.generatedSql, st.schema)

\* Once a node has turned the turn into a clarification no other node of the
\* pipeline runs: it is saved and sent.
ClarificationEndsTurn ==
    st.action = "clarification" => pc \in {"write_history", "respond"} \cup Ended

\* An error still present when the graph ends is reported as a question to the
\* user: the 422 of execute_nl_query and the "error" status of write_history
\* are never used.
ErrorEndsAsClarification ==
    /\ AfterGraph /\ st.error # "none" => st.action = "clarification"
    /\ reply # "error"
    /\ row # NoRow => row.status = "success"

\* The answer saved and sent is that of the last run of execute_sql, which
\* succeeded; no answer of the previous turn outlives a failed run.
ReportedAnswerIsCurrent ==
    AfterGraph =>
        /\ st.answer = "fresh" <=> st.result # "none"
        /\ st.answer # "prior"
        /\ st.result # "none" => st.error = "none" /\ st.action # "clarification"

\* A scoped user's SQL is composed under the scope constraints: no stored
\* sample replaces it, and no retry reaches the composer with a plain prompt.
ScopedTurnIsComposedInScope ==
    st.scoped =>
        /\ ~st.shortcut
        /\ pc = "compose_sql" => st.prompt = "scoped"

\* SQL enters the cross-session SQL cache only if it is the text of the only
\* run of the turn, returned rows, and passed the validator or is a sample.
CachedSqlWasVetted ==
    stored # NoSql =>
        /\ stored = st.generatedSql /\ dbRuns = 1 /\ st.result = "rows"
        /\ st.shortcut \/ PassesValidator(stored, st.schema)

-----------------------------------------------------------------------------
(* The inductive invariant behind the safety properties *)

BeforeSql == {"load_history", "resolve_turn", "handle_follow_up", "build_context",
              "similarity_check", "compose_sql"}
AfterRun == {"handle_error", "write_history", "respond"} \cup Ended

\* Runs are paid for one node earlier than RetryBudget says.
RunsArePaidFor == dbRuns <= st.retry + (IF pc \in AfterRun THEN 1 ELSE 0)

\* Nothing has been run, corrected or failed before the SQL exists.
FreshBeforeSql ==
    pc \in BeforeSql \cup {"answer_from_state"} =>
        st.retry = 0 /\ st.error = "none" /\ dbRuns = 0

\* No result exists until the turn is over, and a reused answer only travels
\* from handle_follow_up to execute_sql.
NoResultBeforeEnd ==
    pc \in Nodes \ {"write_history", "respond"} =>
        /\ st.result = "none"
        /\ st.answer \in (IF pc = "execute_sql" THEN {"none", "prior"} ELSE {"none"})

\* handle_follow_up may keep the action it got: it only ever gets this one.
FollowUpNodeByAction ==
    pc = "handle_follow_up" => st.action = "follow_up_query_refinement"

\* What LastOutcome reads off the state: a result was produced by a run.
ResultComesFromRun == st.result # "none" => dbRuns > 0

\* An ended graph without a run ends without a result and without a failure
\* that is not a question.
EndAgreesWithRuns ==
    AfterGraph /\ dbRuns > 0 /\ st.result = "none" => st.action = "clarification"

\* Flags that ask for a rebuild are acted on at once, or spent.
FlagsAreSpent ==
    pc \in Nodes \ {"rebuild_context"} => ~st.rebuild \/ st.force = {}

\* The composer is reached past build_context_node, which picks its prompt.
PromptIsScoped == pc = "similarity_check" /\ st.scoped => st.prompt = "scoped"

\* A query that runs, or that has run and has a result, was composed and passed
\* the validator, or is a sample; what a follow-up runs is no "query".
QueryWasVetted == st.action = "query" => st.shortcut \/ PassesValidator(st.generatedSql, st.schema)
QueriesAreVetted ==
    /\ pc = "execute_sql" => QueryWasVetted
    /\ pc \in {"write_history", "respond"} /\ st.result # "none" =>
          st.sql = st.generatedSql /\ QueryWasVetted

StoredAtEnd == stored # NoSql => pc \in Ended

\* The conjunction the proofs of QueryPipelineProofs show inductive: a turn
\* never counts, vets, reports or ends otherwise than its routers intend.
PipelineInv ==
    /\ RetryBudget /\ RunsArePaidFor
    /\ FreshBeforeSql /\ NoResultBeforeEnd
    /\ VettedBeforeExecution
    /\ FollowUpNodeByAction /\ ClarificationEndsTurn
    /\ ErrorEndsAsClarification /\ ReportedAnswerIsCurrent
    /\ ResultComesFromRun /\ EndAgreesWithRuns
    /\ RebuildIsForCurrentSql /\ FlagsAreSpent
    /\ ScopedTurnIsComposedInScope /\ PromptIsScoped
    /\ QueriesAreVetted /\ CachedSqlWasVetted /\ StoredAtEnd

-----------------------------------------------------------------------------
(* Refinement: the turn keeps TurnContract *)

LastOutcome ==
    IF dbRuns = 0 THEN "none" ELSE IF st.result # "none" THEN "ok" ELSE "failed"

Ending ==
    CASE pc \in {"raised", "timed_out"} -> "aborted"
      [] pc = "done" /\ reply = "answer" -> "answered"
      [] pc = "done" /\ reply = "clarification" -> "asked"
      [] pc = "done" /\ reply \notin {"answer", "clarification"} -> "error"
      [] OTHER -> "open"

Contract == INSTANCE TurnContract
    WITH MaxRuns <- MaxRetries + 1, runs <- dbRuns, last <- LastOutcome, ending <- Ending

\* The pipeline implements the contract of a turn: bounded statements, none
\* after a success, and one ending that agrees with the last statement.
ImplementsContract == Contract!ContractSpec

-----------------------------------------------------------------------------
(* Liveness *)

\* When every table a SQL can name is in the catalogue, the nodes alone bring
\* the turn to an end, without the 45 s timeout.
Terminates == <>(pc \in Ended)
=============================================================================
