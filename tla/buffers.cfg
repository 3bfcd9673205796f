SPECIFICATION Spec
CONSTANTS
  StrbufAlloc = 4
  ChunkAlloc = 3
  FileChunks = {1, 2}
  MayMapFail = TRUE
  MaxAsk = 5
  MaxCounted = 4
  MaxOut = 1
INVARIANTS
  OneHolder
  TextIsOwn
  PoolsLast
CHECK_DEADLOCK FALSE
