SPECIFICATION Spec
CONSTANTS
  c1 = c1
  Callers <- MCCallers
  Requests <- MCRequests
  Perishable = {2}
  max_retries = 1
  send_retries = 2
  max_size = 1
  MaxSessions = 2
INVARIANTS TypeOK SessionConsistent InOrderAndFresh
PROPERTY LossNoticed
CHECK_DEADLOCK FALSE
