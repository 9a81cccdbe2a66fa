CONSTANTS
  NPROC = 4
  NCPU = 2
  NCHAN = 0
  MaxPid = 4
  Priorities <- MCPriorities
  Pids = {2}
SPECIFICATION Spec
INVARIANTS
  CpuOwnsProc
  StackWhileInUse
  ParentAlive
  WaitHasReason
  LookupsFind
CHECK_DEADLOCK FALSE
