\* freesp -A 2 followed by a plain freesp.
CONSTANTS
  AgCount = 2
  AgBlocks = 100
  AgBlkLog = 7
  IntBits = 10
  Agfl <- MCAgfl
  AgflValid <- MCAgflValid
  Root <- MCRoot
  Levels <- MCLevels
  Ptrs <- MCPtrs
  Recs <- MCRecs
  MagicOK <- MCMagicOK
  FreeRecs <- MCFreeRecs
  TreeBlocks <- MCTreeBlocks
  MaxDepth = 2
  MaxBuckets = 8
  Args <- MCArgsAlign
  Unreadable = {}
SPECIFICATION Spec
INVARIANT HistogramThisCommand
