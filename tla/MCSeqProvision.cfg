SPECIFICATION Spec
CONSTANTS
  e1 = e1
  e2 = e2
  Entries <- MCEntries
  NoSeq = NoSeq
  SEQ_SAFETY_MARGIN = 1
  SEQ_PERSIST_INTERVAL = 2
  MAX_SEQ = 3
  InitialChoices = {}
  ProvisionSeqs = {1}
  MaxRestarts = 0
INVARIANT ReplaySafe
CHECK_DEADLOCK FALSE
