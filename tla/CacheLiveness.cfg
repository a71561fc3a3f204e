SPECIFICATION FairSpec
CONSTANTS
  r1 = r1  r2 = r2  r3 = r3
  Requests = {r1, r2}
  NoSql = NoSql
  Window = 1
  MaxVersion = 1
  MaxFaults = 0
PROPERTIES EveryRequestEnds StaleSqlIsThrownOut
