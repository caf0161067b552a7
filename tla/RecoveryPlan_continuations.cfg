SPECIFICATION Spec
CONSTANTS
  Flows <- MCFlows
  Memories <- MCMemories
  None = None
  MaxRewind = 1
  MaxRows = 2
INVARIANTS PlanInv SentForRememberedStep AcceptedAtRememberedStep BoundMeansExecutable
