CONSTANTS
  INPUT_BUF = 3
  WORD = 6
  CReaders = {1}
  Counts = {1, 2}
  ROWS = 3
  COLS = 2
  TWORD = 8
  Sleepers = {1, 2}
  Naps = {0, 1, 4}
  NPROCS = 5
  NOFILES = 5
  PIPESIZE = 1
  OUTPUT = 2
  Lines <- MCLines
SPECIFICATION MCSpec
INVARIANTS
  PromptAlone
PROPERTIES
  ConsoleIsDiscipline
  ReadersServed
  SleptEnough
  SleepEnds
  LineEnds
