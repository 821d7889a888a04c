SPECIFICATION Spec
CONSTANTS
  MaxFrames = 5
  MaxWrites = 1
  None = None
INVARIANTS
  NoInternalError
  CallersBelow
  WritesSeen
CHECK_DEADLOCK FALSE
