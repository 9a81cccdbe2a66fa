CONSTANTS
  p1 = p1
  p2 = p2
  Procs = {p1, p2}
  NINODES = 3
  NINODE = 4
  DirNames = {"a", "b"}
  Calls <- MCCalls
SPECIFICATION Spec
INVARIANT
  NoWaitCycle
CHECK_DEADLOCK FALSE
