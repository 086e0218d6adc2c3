\* Path lists of up to 4 components; lsattr/chattr on a path that another
\* process may rename between the calls, on kernels with and without
\* file_getattr.
CONSTANTS
  Inos = {1, 2}
  NameLens = {0, 2}
  MaxComponents = 2
  MaxListLen = 4
  MaxBuf = 8
  r = r
  p = p
  HaveFileGetattr = TRUE
  Inodes = {r, p}
  Kind <- MCKind
  InitAttrs <- MCInitAttrs
  XflagValues = {0, 1}
SPECIFICATION Spec
INVARIANT TypeOK WillLoopMeansRepeatOrTooLong ToStringFitsOrFails OpenBlocksOnlyAfterRename
PROPERTY ChattrKeepsOtherFields
