SPECIFICATION Spec
CONSTANTS
  s1 = s1
  s2 = s2
  Senders = {s1, s2}
  Programs <- MCPrograms
  max_retries = 2
  DEFAULT_SIG_MESH_MAX_RETRIES = 2
  DEFAULT_MAX_COMMAND_RETRIES = 2
  MaxSessions = 2
  MaxFaults = 2
  SeqNumbers <- MCSeqNumbers
INVARIANTS TypeOK ClientTracked AnsweredInOrder WholeIsRead NotAppliedTwice ShownIsActual
CHECK_DEADLOCK FALSE
