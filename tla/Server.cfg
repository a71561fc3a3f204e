SPECIFICATION FairSuiteSpec
CONSTANTS
  Tasks = {"a1", "a2"}
  Ids = {"c1"}
  Objs = {"o1", "o2", "o3"}
  NoObj = "none"
  NoId = "none"
  MaxCached = 1
  MaxVersion = 1
  Columns = {"glossary", "metrics", "tables"}
  Proxy = "tables"
  Dimensions = {768, 1536}
  MaxRetries = 2
  MaxStops = 2
  Turns = {"t1", "t2"}
  Resolvers = {"tables", "glossary", "knowledge"}
  PoolSize = 3
  Retries = 1
  MaxFaults = 1
INVARIANTS
  StartupIsSound
  SourcesAreSearched
PROPERTIES
  StartEnds
  EveryCallReturns
  SessionsAreReleased
CHECK_DEADLOCK FALSE
