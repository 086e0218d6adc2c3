\* Slab safety, sort completion and refinement of SlabSpec, under FairSpec (no symmetry: liveness is checked).
CONSTANTS
  Keys = {1, 2}
  MaxItems = 4
  ItemSz = 1
  MinSlabNr = 1
  MaxSlabSize = 2
  SerialSortMax = 2
  w1 = w1  w2 = w2  c1 = c1  c2 = c2
  Workers <- MCWorkers
  Cursors <- MCCursors
  AdvanceAnyTime = FALSE
SPECIFICATION FairSpec
INVARIANT TypeOK StoreShape AppendOrderLaw NoLossNoDup MergeOrder WorkerExclusive
PROPERTIES SortJoin SortCompletes SlabRefinement
