SPECIFICATION Spec
CONSTANTS
  L1 = L1
  T1 = T1
  T2 = T2
  NoLabel = NoLabel
  LoopLabels = {L1}
  TryLabels = {T1, T2}
  Functions <- NestedFunctions
INVARIANTS
  NeverLost
  BindsVerified
  ArgumentsDefined
CHECK_DEADLOCK FALSE
