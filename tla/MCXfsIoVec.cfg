\* mincore over a mapping, or a range, whose length is not a page multiple.
CONSTANTS
  TagNames <- MCTagNames
  NoName = "NULL"
  InjectArgs <- MCInjectArgs
  PageSize = 2
  Mappings <- MCMappings
  MincoreArgs <- MCMincoreArgs
  SizeBits = 8
SPECIFICATION Spec
INVARIANT VecHoldsMincore
