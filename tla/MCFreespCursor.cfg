\* A bno btree leaf set_cur cannot read.
CONSTANTS
  AgCount = 2
  AgBlocks = 100
  AgBlkLog = 7
  IntBits = 10
  Agfl <- MCAgfl
  AgflValid <- MCAgflValid
  Root <- MCRoot
  Levels <- MCLevels
  Ptrs <- MCPtrs
  Recs <- MCRecs
  MagicOK <- MCMagicOK
  FreeRecs <- MCFreeRecs
  TreeBlocks <- MCTreeBlocks
  MaxDepth = 2
  MaxBuckets = 8
  Args <- MCArgs
  Unreadable <- MCUnreadable
SPECIFICATION Spec
INVARIANT CursorRestored
\* Sessions stop at the bound on the cursor stack depth.
CHECK_DEADLOCK FALSE
