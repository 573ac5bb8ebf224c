SPECIFICATION CLiveSpec
CONSTANTS
  c1 = c1
  c2 = c2
  c3 = c3
  NULL = NULL
  ContextCells <- MCContextCells
  MaxContexts = 2
  Failures <- SomeFail
  MaxFailed = 1
  NoEvent = NoEvent
  Top <- MCTop
  BackoffLut <- MCBackoffLut
  DecayLut <- MCDecayLut
  Results <- MCResults
  MaxQuiet = 4
  OutOfMemory = TRUE
  Recreate = TRUE
CHECK_DEADLOCK FALSE
INVARIANTS
  PenaltyCanEnd
  ContextsAreReached
  GlobalsAreCounted
PROPERTIES
  CooldownIsEarned
  DelaysEscalate
  PenaltyEnds
