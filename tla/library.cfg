CONSTANTS
  LWORD = 32
  DIRSIZ = 2
  NUL = NUL
  MAXARGS = 3
  HEADER = 2
  NALLOC = 5
  BRKMAX = 16
  Sizes = {1, 3, 9}
  LOGSTART = 2
  NLOG = 3
  BPG = 7
  IPG = 4
  IPB = 2
  NGROUPS = 4
  BSIZE = 2
  NDIRECT = 2
  NINDIRECT = 2
  MaxFiles = 2
  EntryMax = 4
INIT Init
NEXT Next
INVARIANTS
  ParserRight
  StringsRight
  ArgsChecked
  HeapSound
  ImageOK
CHECK_DEADLOCK FALSE
