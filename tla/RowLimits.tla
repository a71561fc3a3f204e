----------------------------- MODULE RowLimits ------------------------------
(***************************************************************************)
(* How execute_query of the two connectors keeps an answer small: a limit  *)
(* is put into the text of the statement (connectors/postgresql:           *)
(* _inject_limit, connectors/sqlserver: _inject_top), one row more than    *)
(* asked for is fetched, and the rest is cut off.                          *)
(*                                                                         *)
(* A statement is its form and its limits.  A SELECT reads a subquery or   *)
(* (form "with") a common table expression, each row of which gives `fan`  *)
(* rows; a set operation, which may start with a parenthesis ("grouped"),  *)
(* takes the first `loses` rows out of its first branch (EXCEPT) or adds   *)
(* `adds` rows to it (UNION ALL).  `inner` is the limit of the subquery or *)
(* the first branch; `outer` is the limit of the whole, or in T-SQL, where *)
(* a set operation has none, of its second branch.  Rows are counted;      *)
(* their order is the database's.                                          *)
(***************************************************************************)
EXTENDS Naturals

CONSTANTS
    MaxRows,      \* max_rows
    MaxLimit,     \* bound: limits written in statements
    MaxSize,      \* bound: rows of a table
    Fans,         \* bound: rows the outer query makes of one row
    None          \* no limit is written

Limits == 0..MaxLimit \cup {None}
Sizes == 0..MaxSize

Dialects == {"postgresql", "sqlserver"}
Selects == {"select", "with"}
SetOperations == {"set", "grouped"}

\* wrap: the limit of a query around the statement.  mentions: LIMIT and a blank are
\* somewhere in the text, as in the name of a column.
Statement(forms, fans, losses, additions) ==
    [dialect: Dialects, form: forms, outer: Limits, inner: Limits, wrap: {None},
     mentions: BOOLEAN, size: Sizes, fan: fans, loses: losses, adds: additions]

Statements ==
    Statement(Selects, Fans, {0}, {0}) \cup Statement(SetOperations, {1}, Sizes, {0})
        \cup Statement(SetOperations, {1}, {0}, Sizes)

Lesser(a, b) == IF a < b THEN a ELSE b
Monus(a, b) == IF a < b THEN 0 ELSE a - b

\* What a limit leaves of n rows.
Cut(n, limit) == IF limit = None THEN n ELSE Lesser(n, limit)

HasBranchLimits(s) == s.dialect = "sqlserver" /\ s.form \in SetOperations

\* What the database answers.
Combined(s) ==
    LET first == Cut(s.size, s.inner) IN
    IF HasBranchLimits(s) THEN Monus(first, Cut(s.loses, s.outer)) + Cut(s.adds, s.outer)
    ELSE Cut(s.fan * Monus(first, s.loses) + s.adds, s.outer)

RowsOf(s) == Cut(Combined(s), s.wrap)

\* T-SQL has no WITH inside a query.
IsRefused(s) == s.form = "with" /\ s.wrap # None

\* re.search: the first limit in the text.  Only a TOP stands before what it limits.
OuterIsFirst(s) == s.dialect = "sqlserver" /\ s.form = "select"

First(s) ==
    IF OuterIsFirst(s) THEN (IF s.outer # None THEN "outer" ELSE "inner")
    ELSE (IF s.inner # None THEN "inner" ELSE "outer")

\* Fault variant: the limit is replaced although it is the smaller one.
Capped_Raises(limit, n) == n

\* Replaced if it is greater, left alone otherwise.
Capped(limit, n) == IF limit <= n THEN limit ELSE n

HasLimit(s) == s.outer # None \/ s.inner # None

\* Where there is no limit: a LIMIT behind the whole, or a TOP behind the first SELECT,
\* which is that of the first branch, or of a query around what starts otherwise.
WithNewLimit(s, n) ==
    CASE s.dialect = "postgresql" -> [s EXCEPT !.outer = n]
      [] s.dialect = "sqlserver" /\ s.mentions -> s
      [] s.dialect = "sqlserver" /\ ~s.mentions /\ s.form = "select" -> [s EXCEPT !.outer = n]
      [] s.dialect = "sqlserver" /\ ~s.mentions /\ s.form = "set" -> [s EXCEPT !.inner = n]
      [] OTHER -> [s EXCEPT !.wrap = n]

\* _inject_limit and _inject_top.
Inject(s, n) ==
    IF ~HasLimit(s) THEN WithNewLimit(s, n)
    ELSE IF First(s) = "outer" THEN [s EXCEPT !.outer = Capped(@, n)]
    ELSE [s EXCEPT !.inner = Capped(@, n)]

Asked(maxRows) == maxRows + 1

\* execute_query, of a statement that the database takes.
ExecuteQuery(s) ==
    LET fetched == RowsOf(Inject(s, Asked(MaxRows))) IN
    [rows |-> Lesser(fetched, MaxRows), truncated |-> fetched > MaxRows]

-----------------------------------------------------------------------------
(* Properties of a statement *)

\* The limit that is found first is greater than the cap.
IsLowered(s, part) == s[part] # None /\ First(s) = part /\ s[part] > Asked(MaxRows)

\* It is the limit of a subquery.
SubqueryIsCut(s) == s.form \in Selects /\ IsLowered(s, "inner")

\* It is the limit of a branch, or the first branch of T-SQL gets one, and the operation
\* takes rows away.
BranchIsCut(s) ==
    /\ s.form \in SetOperations /\ s.loses > 0
    /\ \/ IsLowered(s, "inner")
       \/ HasBranchLimits(s) /\ IsLowered(s, "outer")
       \/ HasBranchLimits(s) /\ s.form = "set" /\ ~HasLimit(s) /\ ~s.mentions

\* The answer has all the rows the statement asks for, or max_rows of them and says
\* that it is truncated, unless it was only a part of the statement that was cut.
AnswerIsHonest(s) ==
    LET answer == ExecuteQuery(s) IN
    IsRefused(Inject(s, Asked(MaxRows))) \/ SubqueryIsCut(s) \/ BranchIsCut(s) \/
        /\ answer.rows = Lesser(RowsOf(s), MaxRows)
        /\ answer.truncated <=> RowsOf(s) > MaxRows
=============================================================================
