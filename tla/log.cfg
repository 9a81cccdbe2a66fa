CONSTANTS
  p1 = p1
  p2 = p2
  p3 = p3
  Procs <- ThreeProcs
  Vals = {0, 1}
  MAXOPBLOCKS = 2
  LOGSIZE = 4
  size = 4
  NHOME = 3
  OpBlocks = 1
SPECIFICATION Spec
SYMMETRY Sym
INVARIANTS
  IdleIsDurable
  SleepersHaveReason
  
PROPERTIES
  TxSpec
