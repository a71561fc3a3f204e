SPECIFICATION Spec
CONSTANTS
  a1 = a1  a2 = a2  c1 = c1  c2 = c2  o1 = o1  o2 = o2  o3 = o3  o4 = o4
  Tasks = {a1, a2}
  Ids = {c1, c2}
  Objs = {o1, o2, o3, o4}
  NoObj = NoObj
  NoId = NoId
  MaxCached = 1
  MaxVersion = 1
SYMMETRY Symmetry
INVARIANTS
  RegistryIsSound
  SoundAlone
