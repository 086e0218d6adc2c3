\* Phase 5 with two fs scan workers and two inodes, beside a jdm caller
\* whose inode number may be freed and reused once (generations 1 and 2),
\* passing an attr list buffer below and above the (scaled) list maximum.
CONSTANTS
  w1 = w1  w2 = w2  i1 = i1  i2 = i2
  Workers <- MCWorkers
  Inodes <- MCInodes
  NrAttrNs = 3
  Ino = 7
  MaxGen = 2
  ListMax = 4
  BufSizes = {2, 5}
SPECIFICATION Spec
INVARIANT TypeOK SuccessMeansClean FdClosedOnce CancelledOnlyOnFailure JdmCallsReachBulkstatInode
