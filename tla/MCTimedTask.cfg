SPECIFICATION LiveSpec
CONSTANTS
  NULL = NULL
  Tasks = {t1, t2, t3}
  Periods <- MCPeriods
  MaxTimedEvent = 3
  CanFail = TRUE
CHECK_DEADLOCK FALSE
INVARIANTS
  RunningAgrees
PROPERTIES
  RemovedNeverStarts
  HandlesAreStable
  RemovedIsFreed
