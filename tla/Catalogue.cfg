SPECIFICATION SuiteSpec
CONSTANTS
  dbo = dbo
  other = other
  a = a
  b = b
  i1 = i1
  i2 = i2
  Null = Null
  Introspectors <- MCIntrospectors
  Tables <- MCTables
  Dbo = dbo
  Worlds <- MCWorlds
  Backups = {}
  ForeignKeys <- MCForeignKeys
  Allowed = {}
  Columns = {0, 1}
  MaxBatches = 2
  MaxEdits = 1
  MaxDdl = 1
  Callers = {i1, i2}
  Texts = {"w1", "w2", "w3"}
  MaxMemory = 2
  Ttl = 2
  Attempts = 2
  MaxSwitches = 1
  Linked <- MCLinked
  Lowercase = {"u1", "u2"}
  MaxTables = 1
  MaxVector = 2
  MaxBoosting = 1
  MaxExtra = 1
  KeyColumns <- MCKeyColumns
  KeyNames <- MCKeyNames
  MaxRows = 3
  MaxLimit = 5
  MaxSize = 6
  Fans = {0, 1, 2}
SYMMETRY Symmetry
INVARIANTS
  CatalogueIsSound
  ContextIsComplete
  VectorsRunOut
  KeysAreTrue
  AnswerIsHonest
PROPERTIES
  ManualWorkSurvives
CHECK_DEADLOCK FALSE
