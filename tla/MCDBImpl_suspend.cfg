SPECIFICATION Spec
CONSTANTS
  Clients = {c1, c2}
  BG = bgthread
  NULL = null
  BatchSizes = {1}
  WriteBufferSize = 0
  MaxGroupSize = 2
  CompactionTrigger = 1
  SlowdownTrigger = 1
  StopTrigger = 1
  MaxManualLevels = 1
  EnvReports = FALSE
  MaxBatches = 3
  MaxCompactRanges = 0
  MaxManualRounds = 0
  MaxSuspends = 2
  MaxDeepens = 1
  MaxFaults = 1
  MaxSpurious = 0
SYMMETRY Symmetry
INVARIANTS
  IInv
  
  ClosedIsQuiet
CHECK_DEADLOCK FALSE
