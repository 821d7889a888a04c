SPECIFICATION CacheFairSpec
CONSTANTS
  Actors = {1, 2, 3}
  ProcessOf <- Alone
  BuildOf <- TwoBuilds
  KeepOthers = 0
  MaxCrashes = 1
  SlowBuilds = TRUE
  Faults = {"open", "dir", "create", "build", "write", "rename"}
  NoFile = NoFile
  p1 = p1
  p2 = p2
  p3 = p3
  p4 = p4
  b1 = b1
  b2 = b2
INVARIANTS
  LockHasHolder
PROPERTIES
  MappedStable
  Served
CHECK_DEADLOCK FALSE
