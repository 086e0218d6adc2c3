\* An xfs_io session of inject and mincore commands.
CONSTANTS
  TagNames <- MCTagNames
  NoName = "NULL"
  InjectArgs <- MCInjectArgs
  PageSize = 2
  Mappings <- MCMappings
  MincoreArgs <- MCMincoreArgs
  SizeBits = 8
SPECIFICATION Spec
INVARIANT MincoreReportsResidentRuns
PROPERTY InjectTagsUnion
