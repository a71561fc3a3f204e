SPECIFICATION FairSpec
CONSTANTS
  Null = Null
  MaxLoaded = 2
  MaxTurns = 2
  MaxSessions = 2
  MaxEvents = 1
  MaxFaults = 1
INVARIANTS
  ChatIsSound
PROPERTIES
  FollowUpContext
  KeepsChatContract
  LoadingEnds
CHECK_DEADLOCK FALSE
