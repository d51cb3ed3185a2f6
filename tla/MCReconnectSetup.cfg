SPECIFICATION Spec
CONSTANTS
  Kinds <- BothKinds
  Limits <- NoLimitOrTwo
  Raised <- SlowOnly
  StormThreshold = 2
  MaxLevel = 1
  FailureCap = 2
  MaxLoops = 2
INVARIANT CoreRetries
CHECK_DEADLOCK FALSE
