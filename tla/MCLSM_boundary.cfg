SPECIFICATION MCSpec
CONSTANTS
  NumKeys = 2
  kNumLevels = 4
  kMaxMemCompactLevel = 2
  kL0_CompactionTrigger = 2
  kL0_StopWritesTrigger = 3
  kMaxSequenceNumber = 9
  GrandParentFactor = 1
  ExpandedFactor = 3
  Level1Size = 1
  LevelFactor = 2
  Configs <- SplitFiles
  Batches <- TwiceBatches
  Ranges <- WholeRange
  MaxSequence = 2
INVARIANTS
  NewerFirst
CHECK_DEADLOCK FALSE
