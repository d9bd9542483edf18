SPECIFICATION MCSpec
CONSTANTS
  Keys = {k1, k2}
  Handles = {h1, h2, h3}
  Values = {v1}
  Charges = {1, 2}
  NULL = NULL
  Capacity = 2
INVARIANTS
  CacheInv
  UsageExact
  OpenWhileUsed
  ClosedBeforeDelete
  NothingLeaks
  FindsExactly
  ReadsComplete
  DestroyedOnce
PROPERTY ImplementsCursor
CHECK_DEADLOCK FALSE
