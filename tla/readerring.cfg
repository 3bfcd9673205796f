SPECIFICATION FairSpec
CONSTANTS
  Page = 2
  Chunk = 2
  BufSize = {8, 12}
  HwmPercent = {50}
  WindowSize = {4}
  MinBuf = 8
  MaxBuf = 20
  MinWindow = 2
  MaxWindow = 12
  Default <- DefaultSetting
  Unset = Unset
  SyncWait = 0
  DryPeriod = 0
  Batch = {4}
  MaxBatch = 4
  MaxHead = 16
  MaxCapture = 2
CHECK_DEADLOCK FALSE
INVARIANTS
  RingBound
  WindowKept
  StateMatchesAdc
PROPERTY
  DrySpellEnds
