SPECIFICATION Spec
CONSTANTS
  Values = {v1, v2}
  Moved = Moved
  Counts <- CountsAroundZero
  Alignments = {0, 1, 3}
  Offsets <- OffsetsAroundZero
  MaxInt = 1
  MaxAllocations = 2
  MaxNesting = 2
INVARIANTS
  ValueLinear
PROPERTIES
  FreedStaysDead
  ImplementsRawStorage
CHECK_DEADLOCK FALSE
