CONSTANTS
  Mtab <- MCMtab
  Projects <- MCProjects
  MaxInits = 2
  MaxIds = 12
SPECIFICATION Spec
INVARIANT TypeOK XfsFirst StringsOwned ProjectOnItsMount LookupsFindMount
