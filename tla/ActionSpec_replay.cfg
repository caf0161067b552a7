SPECIFICATION Spec
CONSTANTS
  Specs <- MCSpecs
  Texts = {"", "a", "b"}
  Extras = {"note"}
  Equal <- SameJson
  Valid <- ValidArguments
  Described <- Documents
  Spelled <- MCSpelled
  MaxChanges = 1
  MaxGeneration = 2
INVARIANTS ReplayInv JudgedRightly RunsAsRecorded NoUnattendedDownload
CHECK_DEADLOCK FALSE
