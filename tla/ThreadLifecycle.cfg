SPECIFICATION Spec
CONSTANTS
  Threads <- MCThreads
  Requests <- MCQuestion
  ThreadOf <- MCOfQuestion
  Approvals <- MCNone
  Swept <- MCThreads
  MaxIntents = 1
  MaxRestarts = 1
INVARIANTS
  TypeOK
  SettledIsQuiet
PROPERTIES
  SettleStands
