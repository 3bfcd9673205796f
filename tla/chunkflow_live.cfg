SPECIFICATION FairSpec
CONSTANTS
  s1 = s1
  s2 = s2
  f1 = f1
  f2 = f2
  None = None
  Snap = {s1, s2}
  Frame = {f1}
  NChunk = 2
  Cut <- TwoCuts
  Start = {0}
  Count = {0, 2}
  Window = 2
  HighWater = 3
  Budget = 8
  MaxHead = 4
  MaxBatch = 2
  MaxCapture = 1
  MapMayFail = FALSE
INVARIANTS
  FileAccounting
  TidiedOnce
PROPERTIES
  ChunkComesBack
  ChunkLeavesWriter
  SnapshotEnds
