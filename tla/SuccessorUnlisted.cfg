SPECIFICATION Spec
CONSTANTS
  m1 = m1
  m2 = m2
  m3 = m3
  f1 = f1
  None = None
  Compaction = Compaction
  Msgs <- Plain
  Attached <- NoneAttached
  Flushers <- OneFlusher
  DrainCap = 1
  MaxSessions = 2
  MaxCompactions = 0
INVARIANTS
  LiveIsListed
CHECK_DEADLOCK FALSE
