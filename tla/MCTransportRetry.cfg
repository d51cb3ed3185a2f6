SPECIFICATION Spec
CONSTANTS
  r1 = r1
  r2 = r2
  r3 = r3
  n1 = n1
  NoRequest = NoRequest
  Requests <- MCRequests
  Nodes <- MCNodes
  Target <- MCTarget
  Payload <- MCPayload
  Priority <- MCPriority
  Expects <- MCExpects
  Perishable <- MCPerishable
  per_device_limit = 1
  total_limit = 2
  max_retries = 1
  MaxStops = 0
CHECK_DEADLOCK FALSE
INVARIANT RetriesAreSent
