SPECIFICATION Safety
SYMMETRY RowSymmetry
CONSTANTS
  Failures = {f1, f2}
  NoFailure = NoFailure
  MaxAttempts = 2
  MaxPending = 2
  StartGrace = TRUE
  PlanOf <- OneCorrection
INVARIANTS
  RecoveryInv
  PlanThenOneContinuation
  SettledByObservation
PROPERTIES
  DispatchUnderNewestClaim
  RetryNeedsRecurrence
  LedgerSafety
