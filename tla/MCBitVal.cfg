\* Little-endian build: decode and write over every offset and width.
CONSTANTS
  NBBY = 2
  BufBytes = 9
  InitBufs <- MCInitBufs
  MaxWrites = 1
  HostBigEndian = FALSE
SPECIFICATION Spec
INVARIANT GetBitValDecodes
PROPERTY SetBitValWrites
\* An xfs_db session may end after any command; the write bound ends it here.
CHECK_DEADLOCK FALSE
