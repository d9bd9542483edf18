SPECIFICATION MCSpec
CONSTANTS
  Configs <- WinConfigs
  WriteBufferSize = 1
INVARIANTS
  PromisedReturns
CHECK_DEADLOCK FALSE
