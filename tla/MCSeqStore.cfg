SPECIFICATION Spec
CONSTANTS
  e1 = e1
  e2 = e2
  Entries <- MCEntries
  NoSeq = NoSeq
  SEQ_SAFETY_MARGIN = 1
  SEQ_PERSIST_INTERVAL = 2
  MAX_SEQ = 2
  InitialChoices = {0, 2}
  ProvisionSeqs = {1}
  MaxRestarts = 1
SYMMETRY MCSymmetry
INVARIANTS TypeOK OnlyThroughDoors IInv
PROPERTIES DiskNeverRegresses FreshSpec
CHECK_DEADLOCK FALSE
