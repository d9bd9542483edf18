SPECIFICATION MCSpec
CONSTANTS
  Configs <- SafeConfigs
  WriteBufferSize = 1
INVARIANTS
  
  SequencesOrderWrites
 
CHECK_DEADLOCK FALSE
