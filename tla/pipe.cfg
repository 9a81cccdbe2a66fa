CONSTANTS
  p1 = p1
  p2 = p2
  p3 = p3
  Procs = {p1, p2}
  Readers = {p1}
  Writers = {p2}
  Vals = {0, 1}
  PIPESIZE = 2
  Wrap = 4
  MaxLen = 3
  Kills = {p1, p2}
SPECIFICATION FairSpec
PROPERTIES
  FifoSpec
  CallsReturn
CHECK_DEADLOCK FALSE
