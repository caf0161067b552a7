SPECIFICATION Spec
CONSTANTS
  Failures = {f1}
  Resolutions = {r1}
  Nobody = Nobody
  QueueMax = 2
  ReconcileLimit = 1
PROPERTY MatchingIsDecided
