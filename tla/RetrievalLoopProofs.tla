------------------------ MODULE RetrievalLoopProofs ------------------------
(***************************************************************************)
(* Machine-checked read-before-select, for every corpus, every budget and  *)
(* every model.                                                            *)
(***************************************************************************)
EXTENDS RetrievalLoop, FiniteSetTheorems, TLAPS

\* Before the loop ends it decides nothing.
LEMMA InitEstablishes ==
  ASSUME Init
  PROVE  LoopInv
BY RetrievalAssumption
   DEF Init, LoopInv, TypeOK, SelectionWasRead, RefusalHasEvidence

\* A revocation before the check is filtered out by it, a later one is late.
LEMMA RevocationPreserves ==
  ASSUME LoopInv,
         (\E m \in Revocable : Revoke(m)) \/ WithoutRevoked \/ CheckFails
  PROVE  LoopInv'
BY RetrievalAssumption
   DEF LoopInv, TypeOK, SelectionWasRead, RefusalHasEvidence, Revoke,
       WithoutRevoked, CheckFails, Decide, snapshot, used, outcome

\* The exhaustive read makes the whole corpus selectable, and nothing else.
LEMMA OpeningPreserves ==
  ASSUME LoopInv, NothingToRead \/ AutoRead \/ Browse
  PROVE  LoopInv'
BY RetrievalAssumption
   DEF LoopInv, TypeOK, SelectionWasRead, RefusalHasEvidence, NothingToRead,
       AutoRead, Browse, NoSolution, Decide, snapshot, used, outcome

\* A choice after the exhaustive read is a choice among what was read.
LEMMA EndingPreserves ==
  ASSUME LoopInv, Choose \/ TurnsExhausted \/ AgentFails
  PROVE  LoopInv'
BY RetrievalAssumption
   DEF LoopInv, TypeOK, SelectionWasRead, RefusalHasEvidence, Choose,
       TurnsExhausted, AgentFails, NoSolution, Decide, snapshot, used

\* Hits are documents of the snapshot.
LEMMA SearchFinds ==
  ASSUME LoopInv, Search
  PROVE  /\ discovered' \in SUBSET corpus /\ discovered \subseteq discovered'
         /\ searches' \in 0 .. MaxSearches
         /\ Undecided \/ NoSolution
<1>1. CASE searches < MaxSearches
  <2>1. PICK hits \in kSubset(Smaller(MaxHits, Cardinality(corpus)), corpus) :
          discovered' = discovered \cup hits
    BY <1>1 DEF Search
  <2>2. hits \in SUBSET corpus
    BY DEF kSubset
  <2> QED BY <1>1, <2>1, <2>2, RetrievalAssumption DEF Search, LoopInv, TypeOK
<1>2. CASE ~ (searches < MaxSearches)
  BY <1>2 DEF Search, LoopInv, TypeOK
<1> QED BY <1>1, <1>2

\* A turn of the model adds to what is read only what was discovered.
LEMMA ModelTurnPreserves ==
  ASSUME LoopInv, ModelTurn
  PROVE  LoopInv'
<1> USE RetrievalAssumption DEF LoopInv, TypeOK, Turn, snapshot, outcome
<1>1. CASE Search
  <2>1. /\ discovered' \in SUBSET corpus /\ discovered \subseteq discovered'
        /\ searches' \in 0 .. MaxSearches
        /\ Undecided \/ NoSolution
    BY <1>1, SearchFinds
  <2>2. UNCHANGED <<snapshot, read>> /\ turn' = turn + 1 /\ stage = "browse" /\ turn < MaxTurns
    BY <1>1 DEF Search
  <2>3. TypeOK'
    BY <2>1, <2>2 DEF Undecided, NoSolution, Decide
  <2> QED BY <2>1, <2>2, <2>3
          DEF Undecided, NoSolution, Decide, SelectionWasRead, RefusalHasEvidence
<1>2. ASSUME NEW requested \in Requests, Read(requested)
      PROVE  LoopInv'
  <2>1. /\ read' \in SUBSET discovered /\ read \subseteq read'
        /\ Undecided \/ NoSolution
        /\ UNCHANGED <<snapshot, searches, discovered>>
        /\ turn' = turn + 1 /\ stage = "browse" /\ turn < MaxTurns
    BY <1>2 DEF Read
  <2>2. TypeOK'
    BY <2>1 DEF Undecided, NoSolution, Decide
  <2> QED BY <2>1, <2>2
          DEF Undecided, NoSolution, Decide, SelectionWasRead, RefusalHasEvidence
<1>3. ASSUME NEW m \in Memories, FinishApply(m)
      PROVE  LoopInv'
  BY <1>3 DEF FinishApply, NoSolution, Decide, SelectionWasRead, RefusalHasEvidence
<1>4. CASE FinishEmpty
  BY <1>4 DEF FinishEmpty, Undecided, Decide, SelectionWasRead, RefusalHasEvidence
<1> QED BY <1>1, <1>2, <1>3, <1>4 DEF ModelTurn

\* Every turn of _retrieve_memory_choice keeps the invariant.
LEMMA NextPreserves ==
  ASSUME LoopInv, [Next]_vars
  PROVE  LoopInv'
<1>1. CASE UNCHANGED vars
  BY <1>1 DEF LoopInv, TypeOK, SelectionWasRead, RefusalHasEvidence, vars, snapshot, used,
             outcome
<1>2. CASE Next
  BY <1>1, <1>2, RevocationPreserves, OpeningPreserves, EndingPreserves,
     ModelTurnPreserves DEF Next
<1> QED BY <1>1, <1>2

-----------------------------------------------------------------------------
(* The budget of characters.                                               *)

\* A document and its characters are finite sets.
LEMMA CharactersFinite ==
  ASSUME NEW S \in SUBSET Memories
  PROVE  IsFiniteSet(Characters(S))
<1> DEFINE Document == [m \in S |-> {m} \X (1 .. Size[m])]
           Documents == {{m} \X (1 .. Size[m]) : m \in S}
<1>1. IsFiniteSet(S)
  BY RetrievalAssumption, FS_Subset
<1>2. IsFiniteSet(Documents)
  <2>1. Document \in Surjection(S, Documents)
    BY DEF Surjection
  <2> QED BY <1>1, <2>1, FS_Surjection
<1>3. ASSUME NEW D \in Documents PROVE IsFiniteSet(D)
  <2>1. PICK m \in S : D = {m} \X (1 .. Size[m])
    OBVIOUS
  <2>2. Size[m] \in Int
    BY RetrievalAssumption
  <2>3. IsFiniteSet({m})
    BY FS_Singleton, Zenon
  <2>4. IsFiniteSet(1 .. Size[m])
    BY <2>2, FS_Interval
  <2> QED BY <2>1, <2>3, <2>4, FS_Product
<1> QED BY <1>2, <1>3, FS_UNION DEF Characters

\* What is read in two requests that share no document counts once each.
LEMMA TotalAddsUp ==
  ASSUME NEW S \in SUBSET Memories, NEW T \in SUBSET Memories, S \cap T = {}
  PROVE  /\ Total(S) \in Nat /\ Total(T) \in Nat
         /\ Total(S \cup T) = Total(S) + Total(T)
<1>1. IsFiniteSet(Characters(S)) /\ IsFiniteSet(Characters(T))
  BY CharactersFinite
<1>2. Characters(S \cup T) = Characters(S) \cup Characters(T)
  BY DEF Characters
<1>3. Characters(S) \cap Characters(T) = {}
  BY DEF Characters
<1>4. Total(S) \in Nat /\ Total(T) \in Nat
  BY <1>1, FS_CardinalityType DEF Total
<1>5. Cardinality(Characters(S) \cup Characters(T)) =
        Cardinality(Characters(S)) + Cardinality(Characters(T)) - Cardinality({})
  BY <1>1, <1>3, FS_Union
<1>6. Total(S \cup T) = Total(S) + Total(T) - 0
  BY <1>2, <1>5, FS_EmptySet DEF Total
<1> QED BY <1>4, <1>6

LEMMA TotalOfNothing ==
  Total({}) = 0
<1>1. Characters({}) = {}
  BY DEF Characters
<1> QED BY <1>1, FS_EmptySet DEF Total

\* What is read, and what is asked for, can be counted.
LEMMA CountingReads ==
  ASSUME NEW S \in SUBSET Memories
  PROVE  IsFiniteSet(S) /\ Cardinality(S) \in Nat /\ Total(S) \in Nat
<1>1. IsFiniteSet(S)
  BY RetrievalAssumption, FS_Subset
<1>2. Cardinality(S) \in Nat
  BY <1>1, FS_CardinalityType
<1>3. Total(S) \in Nat
  BY CharactersFinite, FS_CardinalityType DEF Total
<1> QED BY <1>1, <1>2, <1>3

\* Only AutoRead and Read read; the first reads a corpus that fits, the
\* second what fits beside what was read, and counts each document once.
LEMMA BudgetsPreserved ==
  ASSUME LoopInv, BudgetsHold, [Next]_vars
  PROVE  BudgetsHold'
<1> USE DEF BudgetsHold
<1>1. CASE AutoRead
  BY <1>1 DEF AutoRead, Eligible
<1>2. ASSUME NEW requested \in Requests, Read(requested)
      PROVE  BudgetsHold'
  <2> DEFINE new == requested \ read
  <2>1. /\ read \in SUBSET Memories /\ new \in SUBSET Memories
        /\ read \cap new = {}
    BY DEF LoopInv, TypeOK, Requests
  <2>2. CASE new # {} /\ WithinBudget(new) /\ read' = read \cup new
                     /\ chars' = chars + Total(new)
    <3>1. /\ Total(read) \in Nat /\ Total(new) \in Nat
          /\ Total(read') = Total(read) + Total(new)
      BY <2>1, <2>2, TotalAddsUp
    <3>2. Total(read') <= MaxChars /\ chars' = Total(read')
      BY <2>2, <3>1 DEF WithinBudget
    <3>3. /\ Cardinality(read) \in Nat /\ Cardinality(new) \in Nat
          /\ IsFiniteSet(read) /\ IsFiniteSet(new)
      BY <2>1, CountingReads
    <3>4. Cardinality(read') = Cardinality(read) + Cardinality(new)
      BY <2>1, <2>2, <3>3, FS_Union, FS_EmptySet
    <3>5. Cardinality(read') <= MaxReads
      BY <2>2, <3>3, <3>4, RetrievalAssumption DEF WithinBudget
    <3> QED BY <3>2, <3>5
  <2>3. CASE UNCHANGED <<read, chars>>
    BY <2>3
  <2> QED BY <1>2, <2>2, <2>3 DEF Read
<1>3. CASE UNCHANGED <<read, chars>>
  BY <1>3
<1>4. CASE Next
  <2>1. AutoRead \/ (\E requested \in Requests : Read(requested)) \/ UNCHANGED <<read, chars>>
    BY <1>4 DEF Next, Revoke, WithoutRevoked, CheckFails, NothingToRead, Choose, Browse,
               ModelTurn, Search, FinishEmpty, FinishApply, TurnsExhausted, AgentFails,
               vars, used
  <2> QED BY <1>1, <1>2, <1>3, <2>1
<1> QED BY <1>3, <1>4 DEF vars, used

-----------------------------------------------------------------------------
(* The theorems.                                                           *)

\* Whatever the model answers, what it reads was found and what it selects
\* was read.
THEOREM InvariantHolds ==
  Safety => []LoopInv
BY InitEstablishes, NextPreserves, PTL DEF Safety

\* Read before select: process_failure copies only the actions of a document
\* that was read for this failure.
THEOREM SelectionsWereRead ==
  Safety => []SelectionWasRead
<1>1. LoopInv => SelectionWasRead
  BY DEF LoopInv
<1> QED BY <1>1, InvariantHolds, PTL

\* The model cannot give up on a corpus it has not looked into.
THEOREM RefusalsHaveEvidence ==
  Safety => []RefusalHasEvidence
<1>1. LoopInv => RefusalHasEvidence
  BY DEF LoopInv
<1> QED BY <1>1, InvariantHolds, PTL

\* SEARCH_FLOW.md: "Search/read counts and cumulative content have hard
\* bounds": whatever the model asks for, however its requests overlap, what
\* was read is within MAX_READ_DOCUMENTS and MAX_TOTAL_READ_CHARS, and
\* read_chars counts each document once.
THEOREM BudgetsAreKept ==
  Safety => []BudgetsHold
<1>1. Init => BudgetsHold
  BY TotalOfNothing, FS_EmptySet, RetrievalAssumption DEF Init, BudgetsHold
<1> QED BY <1>1, InvariantHolds, BudgetsPreserved, PTL DEF Safety

\* What was revoked before the check is not in the snapshot that is chosen
\* from.
THEOREM RevokedMemoriesAreNotApplied ==
  Safety => []RevokedIsNotApplied
<1>1. LoopInv => RevokedIsNotApplied
  BY DEF LoopInv, TypeOK, SelectionWasRead, RevokedIsNotApplied
<1> QED BY <1>1, InvariantHolds, PTL

\* What is left of the loop at most, in steps of the code and the model.
Remaining ==
  CASE stage = "check" -> MaxTurns + 3
    [] stage = "start" -> MaxTurns + 2
    [] stage = "browse" -> MaxTurns - turn + 1
    [] stage = "choose" -> 1
    [] stage = "done" -> 0

RunsDown ==
  /\ Remaining \in Nat
  /\ \/ Remaining' < Remaining
     \/ Remaining' = Remaining /\ \E m \in Revocable : Revoke(m)
     \/ UNCHANGED vars

\* Every step but an operator's brings the outcome nearer, so the model is
\* asked _MAX_RETRIEVAL_TURNS times at most (with WF_vars(Next), why
\* RetrievalEnds holds).
THEOREM LoopRunsDown ==
  Safety => [][RunsDown]_vars
<1>1. LoopInv /\ [Next]_vars => [RunsDown]_vars
  <2> SUFFICES ASSUME LoopInv, Next PROVE RunsDown
    OBVIOUS
  <2> USE RetrievalAssumption DEF RunsDown, Remaining
  <2>1. Remaining \in Nat /\ turn \in 0 .. MaxTurns /\ (stage # "done" => Remaining > 0)
    BY DEF LoopInv, TypeOK
  <2>2. CASE \E m \in Revocable : Revoke(m)
    BY <2>1, <2>2 DEF Revoke, used
  <2>3. CASE stage # "done" /\ stage' = "done"
    BY <2>1, <2>3
  <2>4. CASE stage = "check" /\ stage' = "start"
    BY <2>1, <2>4
  <2>5. CASE stage = "start" /\ stage' \in {"choose", "browse"} /\ turn' = 0
    BY <2>1, <2>5
  <2>6. CASE stage = "browse" /\ stage' \in {"browse", "done"} /\ turn' = turn + 1
    BY <2>1, <2>6
  <2>7. CASE WithoutRevoked \/ CheckFails \/ NothingToRead \/ AutoRead \/ Choose
             \/ Browse \/ TurnsExhausted \/ AgentFails
    BY <2>3, <2>4, <2>5, <2>7
       DEF WithoutRevoked, CheckFails, NothingToRead, AutoRead, Choose, Browse,
           TurnsExhausted, AgentFails, NoSolution, Decide, used, LoopInv
  <2>8. CASE ModelTurn
    BY <2>6, <2>8
       DEF ModelTurn, Turn, Search, Read, FinishApply, FinishEmpty, Undecided,
           NoSolution, Decide
  <2> QED BY <2>2, <2>7, <2>8 DEF Next
<1> QED BY <1>1, InvariantHolds, PTL DEF Safety
=============================================================================
