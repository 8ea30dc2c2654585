SPECIFICATION FairSpec
CONSTANTS
  c1 = c1
  c2 = c2
  Ids <- MCIds
  Aggregates <- MCAggregates
  Commands <- MCCommands
  Plans <- MCPlans
  Order <- MCOrder
  Required <- MCRequired
  Initially <- MCInitially
  ReplayLimit = 4
  MaxLog = 3
  MaxDispatches = 3
  MaxFaults = 2
  MaxCrashes = 1
INVARIANTS
  TypeOK
  OneBlockPerCommand
  ReceiptsMatchLog
  AckedIsDurable
  ConflictIsReuse
  ModelIsLog
  FeedIsLog
  ProjectorsNeverSkip
PROPERTIES
  ReceiptsFinal
  ImplementsCommandLog
  EveryDispatchAnswered
CHECK_DEADLOCK FALSE
