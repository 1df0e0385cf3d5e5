SPECIFICATION Spec
CONSTANTS
  k1 = k1
  k2 = k2
  k3 = k3
  k4 = k4
  k5 = k5
  Key <- MCKey
  Hash <- MCHash
  Val = {v1, v2}
  NULL = NULL
  MIN_NODES = 2
  LH_LOAD_MULT = 3
  UP_LOAD = 3
  DOWN_LOAD = 1
  MaxNodes = 6
  Careful = TRUE
  MallocFails = TRUE
  ReallocFails = FALSE
INVARIANTS AllVisited LiveChain NoSecondVisit ReadsInBounds
PROPERTIES ImplementsDictionary WalkEnds
