SPECIFICATION FairSpec
CONSTANTS
  a1 = a1
  a2 = a2
  g1 = g1
  slot = slot
  Clients <- MCClients
  Acp <- MCAcp
  Slot = slot
  MaxArrivals = 2
  MaxTurns = 1
  MaxReloads = 1
INVARIANTS
  TypeOK
  PermitIsExclusive
  NoWaiterForgotten
  ReloadLeavesNothing
PROPERTIES
  ReloadEndsOrSleeps
  ClientsLeave
CHECK_DEADLOCK FALSE
