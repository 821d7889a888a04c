SPECIFICATION FairSpec
CONSTANTS
  Threads = {t1, t2}
  Rows = {r1, r2, r3}
  MaxEdges = 3
  MaxBroken = 1
  MaxRequests = 1
  None = None
INVARIANTS
  NoReentry
  MemoSound
  OrderIndependent
PROPERTIES
  Answered
CHECK_DEADLOCK FALSE
