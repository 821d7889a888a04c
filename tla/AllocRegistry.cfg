SPECIFICATION Spec
CONSTANTS
  Threads = {t1, t2}
  MaxTracked = 2
  SentinelLimit = 2
  MemoryEnd = 7
  MinHeader = 1
  MaxLayout = 3
  Sizes = {0, 1, 2, 5}
  Aligns = {1, 3}
  MaxAllocations = 4
  MaxOffset = 2
  None = None
INVARIANTS
  ReleaseSound
  BlocksAccounted
  LawfulNeverTraps
  OwnedIsLive
  FreedDetected
CHECK_DEADLOCK FALSE
