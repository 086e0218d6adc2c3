\* Big-endian build: the scrape loop tests the sign on the last bit read.
CONSTANTS
  NBBY = 2
  BufBytes = 9
  InitBufs <- MCInitBufs
  MaxWrites = 1
  HostBigEndian = TRUE
SPECIFICATION Spec
INVARIANT GetBitValDecodes
\* An xfs_db session may end after any command; the write bound ends it here.
CHECK_DEADLOCK FALSE
