SPECIFICATION Spec
CONSTANTS
  m1 = m1
  m2 = m2
  m3 = m3
  m4 = m4
  Memories <- MCMemories
  Size <- MCSize
  Revocable = {m1, m2, m3, m4}
  NoMemory = NoMemory
  MaxSearches = 2
  MaxHits = 2
  MaxReads = 2
  MaxChars = 4
  MaxMemoryChars = 4
  MaxTurns = 5
INVARIANTS LoopInv SelectionWasRead RevokedIsNotApplied BudgetsHold
PROPERTY RetrievalEnds
