SPECIFICATION FairSpec
CONSTANTS
  t1 = t1
  t2 = t2
  Tables = {t1, t2}
  Catalog = {t1, t2}
  NoSql = NoSql
  NoContext = NoContext
  NoRow = NoRow
  MaxRetries = 1
  MaxComposeRetries = 1
  MaxTotalAttempts = 3
  UseFollowUpPath = TRUE
  MaxRelinks = 1
INVARIANT RebuildIsForCurrentSql
PROPERTY Terminates
\* A turn ends: done, raised and timed_out have no successor.
CHECK_DEADLOCK FALSE
