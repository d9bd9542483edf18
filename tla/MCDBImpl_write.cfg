SPECIFICATION Spec
CONSTANTS
  Clients = {c1, c2}
  BG = bgthread
  NULL = null
  BatchSizes = {0, 2}
  WriteBufferSize = 0
  MaxGroupSize = 2
  CompactionTrigger = 1
  SlowdownTrigger = 1
  StopTrigger = 1
  MaxManualLevels = 1
  EnvReports = TRUE
  MaxBatches = 3
  MaxCompactRanges = 1
  MaxManualRounds = 0
  MaxSuspends = 0
  MaxDeepens = 0
  MaxFaults = 1
  MaxSpurious = 0
SYMMETRY Symmetry
INVARIANTS
  AckedRecoverable
  SyncRecoverable
  AckedReadable
  ArrivalOrder
  NoLostWakeup
  NoAckAfterError
  NoStrandedWaiter
