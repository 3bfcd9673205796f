SPECIFICATION Spec
CONSTANTS
  Word = 4096
  Half = 128
  NameMod = 3
  SampleBytes = 2
  Kib = 3
  PageBytes = 12
  NChannels = 3
  MaxChunkKib = 12
  Intersample = 2
  ChunkKibs = {4, 11}
  Paths <- MCPaths
  Dirs <- MCDirs
  Requests <- MCRequests
  MayFail = TRUE
  Batch = 12
  MaxHead = 36
  MaxSnap = 2
  MaxCapture = 1
  None = None
INVARIANTS
  FileIsTiled
  RangeIsCovered
  CompleteIsOnDisk
  ReportedOnce
  NamesDiffer
CHECK_DEADLOCK FALSE
