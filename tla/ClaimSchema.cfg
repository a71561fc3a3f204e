SPECIFICATION Spec
CONSTANTS
  t1 = t1
  t2 = t2
  Tables = {t1, t2}
  Catalog = {t1}
  NoSql = NoSql
  NoContext = NoContext
  NoRow = NoRow
  MaxRetries = 3
  MaxComposeRetries = 2
  MaxTotalAttempts = 3
  UseFollowUpPath = TRUE
  MaxRelinks = 1
INVARIANTS
  SchemaQuestionIsAnswered
\* A turn ends: done, raised and timed_out have no successor.
CHECK_DEADLOCK FALSE
