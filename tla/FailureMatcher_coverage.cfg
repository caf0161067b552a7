SPECIFICATION Spec
CONSTANTS
  Failures = {f1, f2}
  Resolutions = {r1}
  Nobody = Nobody
  QueueMax = 2
  ReconcileLimit = 1
INVARIANTS TypeOK PendingIsCovered SuggestionIsAnnounced
PROPERTIES FollowsDecision PendingIsClaimed
