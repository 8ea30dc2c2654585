SPECIFICATION Spec
CONSTANTS
  Versions <- FourVersions
  None = None
  MaxRuns = 1
  MaxCrashes = 0
INVARIANTS
  FailedRunSwitchedNothing
CHECK_DEADLOCK FALSE
