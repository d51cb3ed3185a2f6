SPECIFICATION Spec
CONSTANTS
  max_retries = 2
  MaxRuns = 2
  MaxSessions = 3
  MaxFaults = 2
  Kinds = {"good", "oob", "full"}
INVARIANTS TypeOK Agreement
PROPERTY RunEnds
CHECK_DEADLOCK FALSE
