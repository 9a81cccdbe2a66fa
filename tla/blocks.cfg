CONSTANTS
  LOGSTART = 2
  NLOG = 3
  BPG = 4
  IPG = 4
  IPB = 2
  NGROUPS = 4
  BSIZE = 2
  NDIRECT = 1
  NINDIRECT = 1
  MAXOPBLOCKS = 6
  Procs = {"p", "q"}
  Inodes = {1, 2}
  Opens <- MCOpens
  Sizes <- MCSizes
SPECIFICATION BlocksSpec
INVARIANTS
  
  ContentsKept
  
CHECK_DEADLOCK FALSE
