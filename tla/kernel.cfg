CONSTANTS
  NPAGES = 15
  Slots = {1, 2, 3}
  PGSIZE = 2
  KERNBASE = 8
  NPTENTRIES = 2
  KTABS = 1
  Sbrks <- MCSbrks
  Programs <- MCPrograms
  ShrinkToZero = FALSE
  NFILE = 3
  NOFILE = 2
  FProcs = {1, 2}
  NPIPE = 1
  SCpus = {0, 1}
  Threads = {2, 3}
  MaxDepth = 3
  INPUT_BUF = 3
  WORD = 6
  CReaders = {1, 2}
  Counts = {2}
  ROWS = 3
  COLS = 2
  Procs = {"p1", "p2", "p3"}
  Readers = {"p1", "p2"}
  Writers = {"p2", "p3"}
  Vals = {0}
  PIPESIZE = 2
  Wrap = 4
  MaxLen = 3
  Kills = {"p1"}
SPECIFICATION Spec
INVARIANTS
  PagesAccounted
  
  FilesSound
  LocksKept
  NoSpinCycle
  OnScreen
  SleepersHaveReason

  
