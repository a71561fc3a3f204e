SPECIFICATION Spec
CONSTANTS
  t1 = t1  t2 = t2  c1 = c1  c2 = c2  q1 = q1
  Turns = {t1, t2}
  Connections = {c1, c2}
  Questions = {q1}
  Null = Null
  MaxEntries = 1
  ContextTtl = 1
  TermTtl = 2
  MaxEdits = 1
SYMMETRY Symmetry
INVARIANTS
  CachesAreSound
PROPERTIES
  HitIsRecent
  DegradedOnlyAfterFailure
  NoRedundantBuild
