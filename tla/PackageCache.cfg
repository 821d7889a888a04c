SPECIFICATION CacheSpec
CONSTANTS
  Actors = {1, 2, 4}
  ProcessOf <- Alone
  BuildOf <- TwoBuilds
  KeepOthers = 0
  MaxCrashes = 1
  SlowBuilds = TRUE
  Faults = {"open", "dir", "create", "build", "write", "rename", "remove"}
  NoFile = NoFile
  p1 = p1
  p2 = p2
  p3 = p3
  p4 = p4
  b1 = b1
  b2 = b2
INVARIANTS
  CachedComplete
  LockExcludes
CHECK_DEADLOCK FALSE
