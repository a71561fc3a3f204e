SPECIFICATION Spec
CONSTANTS
  r1 = r1  r2 = r2  r3 = r3
  Requests = {r1, r2}
  NoSql = NoSql
  Window = 3
  MaxVersion = 1
  MaxFaults = 1
SYMMETRY Symmetry
INVARIANTS
  CoalescingIsSound
  FollowerWaitsFirst
