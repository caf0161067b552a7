--------------------------- MODULE RetrievalLoop ---------------------------
(***************************************************************************)
(* How one failure gets its memory: resolver._retrieve_memory_choice over  *)
(* an immutable MemoryRetrievalIndex, with the language model as an        *)
(* adversary that may ask for anything its schemas allow.                  *)
(*                                                                         *)
(* The corpus is what the index holds of safe documents, without those     *)
(* that operators have revoked when _without_revoked asks; operators may   *)
(* revoke more of them afterwards.                                         *)
(*                                                                         *)
(* A small corpus is read whole and the model chooses; in a larger one the *)
(* model searches and reads, turn by turn, within budgets.  What ranks     *)
(* first depends on the query, so a search returns any set of hits of the  *)
(* size the code returns: there is no cut-off by score.                    *)
(***************************************************************************)
EXTENDS Integers, FiniteSets, FiniteSetsExt

CONSTANTS
  Memories,        \* identifiers the model can name, in the corpus or not
  Revocable,       \* bound on those that operators revoke
  NoMemory,        \* no choice
  Size,            \* characters of each document
  MaxSearches,     \* MAX_SEARCH_CALLS
  MaxHits,         \* MAX_SEARCH_RESULTS
  MaxReads,        \* MAX_READ_DOCUMENTS
  MaxChars,        \* MAX_TOTAL_READ_CHARS
  MaxMemoryChars,  \* MAX_MEMORY_READ_CHARS
  MaxTurns         \* _MAX_RETRIEVAL_TURNS

ASSUME RetrievalAssumption ==
  /\ IsFiniteSet(Memories) /\ NoMemory \notin Memories
  /\ Revocable \subseteq Memories
  /\ Size \in [Memories -> Nat]
  /\ MaxSearches \in Nat \ {0} /\ MaxHits \in Nat \ {0}
  /\ MaxReads \in Nat \ {0} /\ MaxTurns \in Nat \ {0}
  /\ MaxChars \in Nat \ {0} /\ MaxMemoryChars \in Nat \ {0}

VARIABLES
  corpus,      \* safe documents of the snapshot, unrevoked after "check"
  revoked,     \* resolutions with a revoked_at
  late,        \* ghost: those that got it after the check
  stage,       \* "check", "start", "choose" (all is read), "browse" or "done"
  turn,        \* turns the model has used
  searches,    \* searches_used
  discovered,  \* discovered_ids
  read,        \* read_documents
  chars,       \* read_chars
  decision,    \* outcome, "none" before
  chosen,      \* memory it applies
  by           \* who concluded: the "model" or the "code"

snapshot == <<corpus, revoked, late>>
used    == <<turn, searches, discovered, read, chars>>
outcome == <<decision, chosen, by>>
vars    == <<snapshot, stage, used, outcome>>

\* The characters of some documents, one by one, and how many they are.
Characters(S) == UNION {{m} \X (1 .. Size[m]) : m \in S}
Total(S)      == Cardinality(Characters(S))

Smaller(m, n) == IF m < n THEN m ELSE n

Init ==
  /\ corpus \in SUBSET Memories
  /\ revoked \in SUBSET Revocable /\ late = {}
  /\ stage = "check"
  /\ turn = 0 /\ searches = 0 /\ discovered = {} /\ read = {} /\ chars = 0
  /\ decision = "none" /\ chosen = NoMemory /\ by = "code"

-----------------------------------------------------------------------------
Decide(d, m, who) ==
  /\ stage' = "done"
  /\ decision' = d /\ chosen' = m /\ by' = who

\* _retrieval_no_solution.
NoSolution == Decide("no_solution", NoMemory, "code")

Undecided == UNCHANGED <<stage, outcome>>

\* An operator revokes a resolution, at any time.
Revoke(m) ==
  /\ stage # "done" /\ m \notin revoked
  /\ revoked' = revoked \cup {m}
  /\ late' = IF stage = "check" THEN late ELSE late \cup {m}
  /\ UNCHANGED <<corpus, stage, used, outcome>>

\* Mutant: when the revocations cannot be read, nothing counts as revoked.
WithoutRevokedIfKnown ==
  /\ stage = "check"
  /\ stage' = "start"
  /\ corpus' \in {corpus, corpus \ revoked}
  /\ UNCHANGED <<revoked, late, used, outcome>>

\* _without_revoked.
WithoutRevoked ==
  /\ stage = "check"
  /\ stage' = "start"
  /\ corpus' = corpus \ revoked
  /\ UNCHANGED <<revoked, late, used, outcome>>

\* The index or the revocations cannot be read: process_failure then writes
\* "failed".
CheckFails ==
  /\ stage = "check"
  /\ Decide("failed", NoMemory, "code")
  /\ UNCHANGED <<snapshot, used>>

\* No safe memory is left: the model is not asked.
NothingToRead ==
  /\ stage = "start" /\ corpus = {}
  /\ NoSolution
  /\ UNCHANGED <<snapshot, used>>

\* auto_read_eligibility.
Eligible ==
  /\ Cardinality(corpus) <= MaxReads
  /\ \A m \in corpus : Size[m] <= MaxMemoryChars
  /\ Total(corpus) <= MaxChars

AutoRead ==
  /\ stage = "start" /\ corpus # {} /\ Eligible
  /\ stage' = "choose"
  /\ read' = corpus /\ chars' = Total(corpus)
  /\ UNCHANGED <<snapshot, turn, searches, discovered, outcome>>

\* choose_memory: an identifier that was not supplied is an error.
Choose ==
  /\ stage = "choose"
  /\ \/ \E m \in read : Decide("apply", m, "model")
     \/ Decide("no_solution", NoMemory, "model")
  /\ UNCHANGED <<snapshot, used>>

Browse ==
  /\ stage = "start" /\ corpus # {} /\ ~ Eligible
  /\ stage' = "browse"
  /\ UNCHANGED <<snapshot, used, outcome>>

\* The model takes one of its turns.
Turn ==
  /\ stage = "browse" /\ turn < MaxTurns
  /\ turn' = turn + 1
  /\ UNCHANGED snapshot

Search ==
  /\ Turn
  /\ IF searches < MaxSearches
       THEN /\ searches' = searches + 1
            /\ \E hits \in kSubset(Smaller(MaxHits, Cardinality(corpus)), corpus) :
                 discovered' = discovered \cup hits
            /\ Undecided
       ELSE NoSolution /\ UNCHANGED <<searches, discovered>>
  /\ UNCHANGED <<read, chars>>

\* Mutant: the budget is compared with this request only.
WithinBudgetOfRequest(new) ==
  /\ Cardinality(new) <= MaxReads
  /\ \A m \in new : Size[m] <= MaxMemoryChars
  /\ Total(new) <= MaxChars

\* The checks of the loop and those of MemoryRetrievalIndex.read.
WithinBudget(new) ==
  /\ Cardinality(new) <= MaxReads - Cardinality(read)
  /\ \A m \in new : Size[m] <= MaxMemoryChars
  /\ chars + Total(new) <= MaxChars

\* What was read already is left out of a request; the rest is read whole
\* or the retrieval ends.
Read(requested) ==
  /\ Turn
  /\ LET new == requested \ read
     IN  IF new = {}
           THEN Undecided /\ UNCHANGED <<read, chars>>
           ELSE IF new \subseteq discovered /\ chars < MaxChars /\ WithinBudget(new)
                  THEN /\ read' = read \cup new
                       /\ chars' = chars + Total(new)
                       /\ Undecided
                  ELSE NoSolution /\ UNCHANGED <<read, chars>>
  /\ UNCHANGED <<searches, discovered>>

\* Mutant: finding is mistaken for reading.
FinishApplyDiscovered(m) ==
  /\ Turn
  /\ IF m \in discovered THEN Decide("apply", m, "model") ELSE NoSolution
  /\ UNCHANGED <<searches, discovered, read, chars>>

FinishApply(m) ==
  /\ Turn
  /\ IF m \in read THEN Decide("apply", m, "model") ELSE NoSolution
  /\ UNCHANGED <<searches, discovered, read, chars>>

\* Mutant: a search that was not followed up suffices.
FinishEmptyAfterSearch ==
  /\ Turn
  /\ IF searches = 0 THEN Undecided ELSE Decide("no_solution", NoMemory, "model")
  /\ UNCHANGED <<searches, discovered, read, chars>>

\* The model is told to search and read before it concludes.
FinishEmpty ==
  /\ Turn
  /\ IF searches = 0 \/ read = {}
       THEN Undecided
       ELSE Decide("no_solution", NoMemory, "model")
  /\ UNCHANGED <<searches, discovered, read, chars>>

\* Mutant: a model that has not finished is given another round.
TurnsRestart ==
  /\ stage = "browse" /\ turn = MaxTurns
  /\ turn' = 0
  /\ UNCHANGED <<snapshot, stage, searches, discovered, read, chars, outcome>>

TurnsExhausted ==
  /\ stage = "browse" /\ turn = MaxTurns
  /\ NoSolution
  /\ UNCHANGED <<snapshot, used>>

\* The model's answer breaks its schema, names a memory that was not supplied
\* or does not come; process_failure then writes "failed".
AgentFails ==
  /\ stage \in {"choose", "browse"}
  /\ Decide("failed", NoMemory, "code")
  /\ UNCHANGED <<snapshot, used>>

Requests == {S \in SUBSET Memories : S # {}}

ModelTurn ==
  \/ Search \/ FinishEmpty
  \/ \E requested \in Requests : Read(requested)
  \/ \E m \in Memories : FinishApply(m)

Next ==
  \/ \E m \in Revocable : Revoke(m)
  \/ WithoutRevoked \/ CheckFails \/ NothingToRead \/ AutoRead \/ Choose \/ Browse
  \/ ModelTurn \/ TurnsExhausted \/ AgentFails
  \/ stage = "done" /\ UNCHANGED vars

Safety == Init /\ [][Next]_vars

\* The loop goes on as long as the model answers, whatever it answers.
Spec == Safety /\ WF_vars(Next)

-----------------------------------------------------------------------------
\* Every variable has its type; that of chars is in BudgetsHold.
TypeOK ==
  /\ corpus \in SUBSET Memories
  /\ revoked \in SUBSET Revocable /\ late \in SUBSET Revocable
  /\ stage \in {"check", "start", "choose", "browse", "done"}
  /\ turn \in 0 .. MaxTurns /\ searches \in 0 .. MaxSearches
  /\ discovered \in SUBSET corpus /\ read \in SUBSET corpus
  /\ decision \in {"none", "apply", "no_solution", "failed"}
  /\ chosen \in Memories \cup {NoMemory} /\ by \in {"model", "code"}

\* SEARCH_FLOW.md: "A model cannot select an unread ID, invent an ID": what
\* is applied is in the snapshot, was returned by a search of this failure or
\* by the exhaustive read, and was read.
SelectionWasRead ==
  decision = "apply" =>
    /\ chosen \in read /\ chosen \in corpus
    /\ turn > 0 => chosen \in discovered

\* "Drop memories whose source resolution an operator has revoked"
\* (_without_revoked): a revoked memory is applied only when it was revoked
\* after the check, however the reads of the database go.
RevokedIsNotApplied == decision = "apply" => chosen \notin revoked \ late

\* The model's own "no solution" rests on evidence: everything was read, or
\* something that a search had found.
RefusalHasEvidence ==
  decision = "no_solution" /\ by = "model" =>
    \/ read = corpus
    \/ searches > 0 /\ read # {} /\ read \subseteq discovered

\* SEARCH_FLOW.md: "Search/read counts and cumulative content have hard
\* bounds": over all requests together, however they overlap.
BudgetsHold ==
  /\ Cardinality(read) <= MaxReads
  /\ Total(read) <= MaxChars /\ chars = Total(read)

\* Whatever the model keeps asking for, the failure gets an outcome.
RetrievalEnds == <>(decision # "none")

\* Why a selection was read: what is read by request was discovered, and a
\* decision is made only when the loop ends.
LoopInv ==
  /\ TypeOK
  /\ decision = "none" <=> stage # "done"
  /\ stage = "choose" => turn = 0 /\ read = corpus
  /\ stage \in {"check", "start"} => turn = 0 /\ read = {} /\ discovered = {}
  /\ stage = "check" => late = {}
  /\ stage # "check" /\ decision # "failed" => corpus \cap revoked \subseteq late
  /\ stage = "browse" => read \subseteq discovered
  /\ SelectionWasRead
  /\ RefusalHasEvidence
=============================================================================
