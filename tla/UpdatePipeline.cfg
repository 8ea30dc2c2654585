SPECIFICATION FairSpec
CONSTANTS
  Versions <- FourVersions
  None = None
  MaxRuns = 3
  MaxCrashes = 2
INVARIANTS
  TypeOK
  Bootable
  FailedRunChangesNothing
  ReportIsTrue
PROPERTIES
  NeverDowngrades
  RunEnds
CHECK_DEADLOCK FALSE
