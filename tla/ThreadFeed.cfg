SPECIFICATION FairSpec
CONSTANTS
  InitialLogs <- MCInitialLogs
  MaxEvents = 4
  MaxGap = 2
  Window = 1
  Servers <- BothServers
  MaxSubscriptions = 2
  MaxViews = 1
INVARIANTS
  TypeOK
  ThreadIsFold
  CacheIsFold
  LiveIsCaughtUp
PROPERTIES
  CatchesUp
CHECK_DEADLOCK FALSE
