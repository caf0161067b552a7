SPECIFICATION Spec
CONSTANTS
  s1 = s1
  p1 = p1
  u1 = u1
  n1 = n1
  b1 = b1
  Solutions = {s1, p1, n1, u1, b1}
  Posted = {p1}
  Broken = {b1}
  Unusable = {u1}
  Untextual = {n1}
  FailureOf <- MCFailureOf
  CommandsOf <- MCCommandsOf
  Known = {"dock", "wait", "slide(forward, 1.5)"}
  Raising = {"slide(forward, 1.5)"}
  NoCommand = "No commands recorded"
  Absent = Absent
  Empty = Empty
  Nobody = Nobody
  MaxClock = 2
INVARIANTS LegacyInv DeletedIsStored MatchedIsProposable RobotGetsOneSolution
PROPERTY SolutionsEnd
