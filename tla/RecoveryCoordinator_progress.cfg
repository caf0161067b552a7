SPECIFICATION Spec
CONSTANTS
  Failures = {f1}
  NoFailure = NoFailure
  MaxAttempts = 2
  MaxPending = 1
  StartGrace = TRUE
  PlanOf <- OneCorrection
PROPERTIES
  LockReleased
  NotificationReplayed
  LedgerPromise
