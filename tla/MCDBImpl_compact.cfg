SPECIFICATION Spec
CONSTANTS
  Clients = {c1, c2}
  BG = bgthread
  NULL = null
  BatchSizes = {1}
  WriteBufferSize = 0
  MaxGroupSize = 2
  CompactionTrigger = 1
  SlowdownTrigger = 1
  StopTrigger = 2
  MaxManualLevels = 2
  EnvReports = TRUE
  MaxBatches = 1
  MaxCompactRanges = 2
  MaxManualRounds = 2
  MaxSuspends = 0
  MaxDeepens = 1
  MaxFaults = 0
  MaxSpurious = 1
SYMMETRY Symmetry
INVARIANTS
  ManualStillThere
