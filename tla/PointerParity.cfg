SPECIFICATION Spec
CONSTANTS
  main = main
  MaxTracked = 3
  SentinelLimit = 2
  MemoryEnd = 8
  MinHeader = 1
  MaxLayout = 5
  ElementCounts = {0, 1, 2, 3}
  Indices <- BothSides
  MaxInt = 4
  MaxAllocations = 4
  MaxOffset = 3
  None = None
INVARIANTS
  AcceptedRunsNatively
  LivenessAgrees
  RejectedUsesTrap
CHECK_DEADLOCK FALSE
