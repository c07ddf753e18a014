\* Every build, sizes at the limits.
SPECIFICATION Spec
CONSTANTS
  Builds <- AllBuilds
  Sizes <- EdgeSizes
  SIZE_MAX = 8388607
INVARIANTS
  TypeOK
  RoomForCopies
  FreeMatches
CHECK_DEADLOCK FALSE
