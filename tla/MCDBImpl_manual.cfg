SPECIFICATION Spec
CONSTANTS
  Clients = {c1, c2}
  BG = bgthread
  NULL = null
  BatchSizes = {1}
  WriteBufferSize = 0
  MaxGroupSize = 2
  CompactionTrigger = 1
  SlowdownTrigger = 1
  StopTrigger = 2
  MaxManualLevels = 1
  EnvReports = TRUE
  MaxBatches = 3
  MaxCompactRanges = 1
  MaxManualRounds = 1
  MaxSuspends = 0
  MaxDeepens = 0
  MaxFaults = 1
  MaxSpurious = 0
INVARIANTS
  ManualStillThere
CHECK_DEADLOCK FALSE
