SPECIFICATION SuiteSpec
CONSTANTS
  Tasks = {t1, t2}
  Texts = {x, y}
  Null = Null
  MaxWords = 3
  Overlap = 1
  Tables = {"a", "b"}
  Columns = {"c", "d"}
  Raws = {0, 1}
  Displays = {"x", "y"}
  Unnamed = ""
  JsonTexts <- MCJsonTexts
  JsonValues <- MCJsonValues
  MaxRows = 2
SYMMETRY Symmetry
INVARIANTS
  EmbeddingsAreTrue
  DocumentIsKept
  PromptAndReplyAreKept
CHECK_DEADLOCK FALSE
