SPECIFICATION FairSpec
CONSTANTS
  Clients = {c1, c2}
  BG = bgthread
  NULL = null
  BatchSizes = {1}
  WriteBufferSize = 0
  MaxGroupSize = 2
  CompactionTrigger = 1
  SlowdownTrigger = 1
  StopTrigger = 2
  MaxManualLevels = 1
  EnvReports = TRUE
  MaxBatches = 2
  MaxCompactRanges = 1
  MaxManualRounds = 1
  MaxSuspends = 0
  MaxDeepens = 0
  MaxFaults = 0
  MaxSpurious = 1
PROPERTIES
  CallsReturn
