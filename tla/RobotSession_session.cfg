SPECIFICATION Spec
CONSTANTS
  Requests = {c1, c2}
  Nobody = Nobody
  HistoryLimit = 1
  MaxGeneration = 2
  MaxRevision = 2
INVARIANTS SessionInv OutcomeFollowsCommand
PROPERTIES FollowsCommand CallsEnd
CHECK_DEADLOCK FALSE
