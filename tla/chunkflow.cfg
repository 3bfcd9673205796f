SPECIFICATION Spec
CONSTANTS
  s1 = s1
  s2 = s2
  f1 = f1
  f2 = f2
  None = None
  Snap = {s1, s2}
  Frame = {f1, f2}
  NChunk = 2
  Cut <- TwoCuts
  Start = {0}
  Count = {0, 1}
  Window = 2
  HighWater = 3
  Budget = 8
  MaxHead = 4
  MaxBatch = 3
  MaxCapture = 2
  MapMayFail = TRUE
SYMMETRY Symmetry
INVARIANTS
  OnePlace
  FrameOwnership
  PendingCount
  BudgetConserved
  QueuedChunkKeepsData
PROPERTIES
  KeepsPromise
  FreedByTheLast
CHECK_DEADLOCK FALSE
