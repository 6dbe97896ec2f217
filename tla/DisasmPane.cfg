SPECIFICATION Spec
CONSTANTS
  TempSize = 6
  BufSizes = {0, 1, 4, 5, 7}
  LineSizes = {2, 3}
  MaxCount = 3
  MaxRounds = 3
INVARIANTS InBounds
PROPERTIES ShownIsListing NeededIsHonest
CHECK_DEADLOCK FALSE
