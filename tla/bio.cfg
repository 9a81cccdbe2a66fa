CONSTANTS
  p1 = p1
  p2 = p2
  None = None
  Procs = {p1, p2}
  Blocks = {1, 2, 3}
  Vals = {0, 1}
  NBUF = 2
  Errors = FALSE
SPECIFICATION FairSpec
INVARIANTS
  BuffersSound
PROPERTIES
  StoreSpec
  RequestAnswered
CHECK_DEADLOCK FALSE
