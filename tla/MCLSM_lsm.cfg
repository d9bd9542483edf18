SPECIFICATION MCSpec
CONSTANTS
  NumKeys = 2
  kNumLevels = 4
  kMaxMemCompactLevel = 2
  kL0_CompactionTrigger = 2
  kL0_StopWritesTrigger = 3
  kMaxSequenceNumber = 9
  GrandParentFactor = 0
  ExpandedFactor = 3
  Level1Size = 2
  LevelFactor = 2
  Configs <- SmallConfigs
  Batches <- TwoKeyBatches
  Ranges <- WholeRange
  MaxSequence = 4
INVARIANTS
  
  NeededFilesExist
 
CHECK_DEADLOCK FALSE
