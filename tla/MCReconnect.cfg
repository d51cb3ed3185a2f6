SPECIFICATION Spec
CONSTANTS
  Kinds <- BothKinds
  Limits <- NoLimitOrTwo
  Raised <- SlowOrUnsupported
  StormThreshold = 2
  MaxLevel = 1
  FailureCap = 2
  MaxLoops = 2
INVARIANTS TypeOK OneLoop Pursued SigStopsClean IssuesTracked BackoffEarned IInv
PROPERTIES RecoveryClearsIssues LossLeadsToAttempt StopCompletes
CHECK_DEADLOCK FALSE
