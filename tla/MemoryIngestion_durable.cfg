SPECIFICATION Spec
CONSTANTS
  MaxVersion = 2
  MaxForeign = 2
INVARIANTS
  IngestionInv
  AckedCommitIsDurable
PROPERTIES
  FollowsDurableMemory
  RequestIsTakenUp
