SPECIFICATION Spec
CONSTANTS
  m1 = m1
  m2 = m2
  m3 = m3
  f1 = f1
  None = None
  Compaction = Compaction
  Msgs <- All
  Attached <- OneAttached
  Flushers <- OneFlusher
  DrainCap = 1
  MaxSessions = 1
  MaxCompactions = 1
INVARIANTS
  TypeOK
  PendingIsOnce
  ClaimsExclude
  NothingStranded
  ClaimIsHeld
  ExitAfterTurn
CHECK_DEADLOCK FALSE
