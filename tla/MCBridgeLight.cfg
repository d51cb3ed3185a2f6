SPECIFICATION Spec
CONSTANTS
  Programs <- MCPrograms
  MaxCalls = 3
  max_retries = 2
  command_retries = 2
  MaxPolls = 2
  MaxFaults = 1
INVARIANT TypeOK
PROPERTIES InCallOrder CallsEnd
CHECK_DEADLOCK FALSE
