SPECIFICATION FairSpec
CONSTANTS
  NULL = null
  Threads = {t1, t2, t3}
  Configs <- BothHandles

  
PROPERTIES
  SignalReturns
CHECK_DEADLOCK FALSE
