SPECIFICATION LiveSpec
CONSTANTS
  e1 = e1
  e2 = e2
  e3 = e3
  e4 = e4
  h1 = h1
  w1 = w1
  NULL = NULL
  Events <- MCEvents
  Handles <- MCHandles
  Work <- MCWork
  Diffs <- MCDiffs
  Times <- MCTimes
  IndexMax = 3
  DefaultCapacity = 3
  StartTime = 0
  MaxTime = 1
  MaxQueue = 1
CHECK_DEADLOCK FALSE
INVARIANTS
  Sorted
  PositionsAgree
  HandlesAgree
  RunningEventIsPrivate
PROPERTIES
  ImplementsTimerService
  EventsAreServed
