SPECIFICATION Spec
CONSTANTS
  MaxStringsBytes = 4
  MaxFatSlices = 3
  MaxDescriptors = 3
  MaxThunks = 3
  MaxExportNames = 3
  MaxMembers = 3
  Files <- MCFiles
INVARIANTS
  TypeOK
  LossesAreTold
  WholeIsExact
  ErrorsAndReasonsAgree
  NoObjectIsLost
  PathsAreUnique
CHECK_DEADLOCK FALSE
