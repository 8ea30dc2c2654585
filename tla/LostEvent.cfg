SPECIFICATION Spec
CONSTANTS
  InitialLogs <- MCInitialLogs
  MaxEvents = 4
  MaxGap = 2
  Window = 1
  Servers <- BothServers
  MaxSubscriptions = 2
  MaxViews = 1
INVARIANTS
  LiveShowsAll
CHECK_DEADLOCK FALSE
