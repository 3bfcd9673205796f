SPECIFICATION Spec
CONSTANTS
  Page = 2
  Chunk = 2
  BufSize = {8}
  HwmPercent = {50}
  WindowSize = {2}
  MinBuf = 8
  MaxBuf = 20
  MinWindow = 2
  MaxWindow = 12
  Default <- DefaultSetting
  Unset = Unset
  SyncWait = 1
  DryPeriod = 1
  Batch = {1, 3}
  MaxBatch = 4
  MaxHead = 16
  MaxCapture = 2
CHECK_DEADLOCK FALSE
INVARIANTS
  NoOverrun
