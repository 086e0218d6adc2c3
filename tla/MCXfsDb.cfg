\* Sessions of freesp, logformat and untorn_write_max commands.
CONSTANTS
  AgCount = 2
  AgBlocks = 100
  AgBlkLog = 7
  IntBits = 10
  Agfl <- MCAgfl
  AgflValid <- MCAgflValid
  Root <- MCRoot
  Levels <- MCLevels
  Ptrs <- MCPtrs
  Recs <- MCRecs
  MagicOK <- MCMagicOK
  FreeRecs <- MCFreeRecs
  TreeBlocks <- MCTreeBlocks
  MaxDepth = 2
  MaxBuckets = 8
  Args <- MCArgs
  Unreadable = {}
  BlockSize = 4
  LogV2 = TRUE
  SbLogSunit = 8
  MaxLsunit = 32
  Reflink = TRUE
  ItemSpace <- MCItemSpace
  FinishRes <- MCFinishRes
  LogformatArgs <- MCLogformatArgs
  UntornArgs <- MCUntornArgs
  InitLogs <- MCInitLogs
  ObjBytes = 36
  ParentRecSize = 12
  SfForks <- MCSfForks
  CorruptObjs <- MCCorruptObjs
SPECIFICATION Spec
INVARIANTS HistogramCountsScan MaxAwuFits AttrShortPrintsEntries
PROPERTIES LogformatFormatsValid
