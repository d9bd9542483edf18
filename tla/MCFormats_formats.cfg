SPECIFICATION MCSpec
CONSTANT NULL = NULL
INVARIANTS
  ReadsExactly
  TableReadsBack
  BatchAppliedExactly
  
  DecompressExact
  CodesReadBack
  OutputExact
PROPERTIES
  BlockImplementsCursor
  LoopsEnd
CHECK_DEADLOCK FALSE
