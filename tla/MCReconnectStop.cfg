SPECIFICATION Spec
CONSTANTS
  Kinds <- TelinkOnly
  Limits <- NoLimitOrTwo
  Raised <- SlowOnly
  StormThreshold = 2
  MaxLevel = 1
  FailureCap = 2
  MaxLoops = 2
INVARIANT StopEndsLoops
CHECK_DEADLOCK FALSE
