SPECIFICATION SuiteSpec
CONSTANTS
  Users = {u1, u2}
  Clients = {c1, c2}
  Requests = {r1, r2}
  Changes <- MCChanges
  Null = Null
  Lifetime = 2
  Rows = {"row1", "row2"}
  MaxEditions = 2
  MaxCatalogues = 2
  Importers = {"i1", "i2"}
  MaxDocs = 4
  MaxChunks = 1
SYMMETRY Symmetry
INVARIANTS
  RightsFade
  ScriptIsSound
PROPERTIES
  LastAdminGoesOnlyByRace
  ImportReplaces
CHECK_DEADLOCK FALSE
