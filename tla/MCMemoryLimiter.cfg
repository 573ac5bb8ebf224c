SPECIFICATION Spec
CONSTANTS
  b1 = b1
  b2 = b2
  b3 = b3
  NULL = NULL
  Blocks <- MCBlocks
  Sizes <- MCSizes
  Limits <- MCLimits
  Header = 1
  SystemLimit = 2
CHECK_DEADLOCK FALSE
SYMMETRY Symmetry
INVARIANTS
  AllocatedIsTheSum
  ReserveIsLeft
PROPERTIES
  OnlyResizingBreaksTheList
