CONSTANTS
  NPROC = 3
  NCPU = 1
  NCHAN = 0
  MaxPid = 3
  Priorities <- NoPriorities
  Pids = {}
SPECIFICATION FairSpec
PROPERTY
  RunnableRuns
CHECK_DEADLOCK FALSE
