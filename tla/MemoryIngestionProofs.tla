----------------------- MODULE MemoryIngestionProofs -----------------------
(***************************************************************************)
(* Machine-checked durability of the acknowledged memory commit, for every *)
(* number of evidence versions and of foreign commits.                     *)
(***************************************************************************)
EXTENDS MemoryIngestion, SequenceTheorems, TLAPS

-----------------------------------------------------------------------------
(* Histories.                                                              *)

\* A branch without commits is in every history.
LEMMA EmptyHistory ==
  NoCommit \in Histories
BY DEF Histories, NoCommit

\* A history is part of itself.
LEMMA WithinReflexive ==
  ASSUME NEW h \in Histories
  PROVE  Within(h, h) /\ Within(NoCommit, h)
BY DEF Within, Histories, NoCommit

\* Histories within histories, as fast-forwards make them.
LEMMA WithinTransitive ==
  ASSUME NEW f \in Histories, NEW g \in Histories, NEW h \in Histories,
         Within(f, g), Within(g, h)
  PROVE  Within(f, h)
BY DEF Within, Histories

\* A longer history of the same branch has every commit of the shorter one.
LEMMA AppendGrows ==
  ASSUME NEW h \in Histories, NEW v \in 0 .. MaxVersion
  PROVE  /\ Append(h, v) \in Histories /\ Append(h, v) # NoCommit
         /\ Within(h, Append(h, v))
         /\ Append(h, v)[Len(Append(h, v))] = v
BY DEF Within, Histories, NoCommit

\* The newest commit of the document ends a history of its own.
LEMMA NewestIsCommit ==
  ASSUME NEW h \in Histories, NEW n \in 1 .. Len(h), Newest(h, n)
  PROVE  /\ SubSeq(h, 1, n) \in Histories /\ SubSeq(h, 1, n) # NoCommit
         /\ Within(SubSeq(h, 1, n), h)
         /\ SubSeq(h, 1, n)[Len(SubSeq(h, 1, n))] # Foreign
<1>1. /\ n \in Int /\ 1 <= n
      /\ \A i \in 1 .. n : h[i] \in 0 .. MaxVersion
  BY IngestionAssumption DEF Histories
<1>2. /\ SubSeq(h, 1, n) \in Histories /\ Len(SubSeq(h, 1, n)) = n
      /\ \A i \in 1 .. n : SubSeq(h, 1, n)[i] = h[i]
  BY <1>1, SubSeqProperties DEF Histories
<1> QED BY <1>1, <1>2 DEF Within, Histories, NoCommit, Newest

\* Every other commit of the document is older.
LEMMA NewestIsLast ==
  ASSUME NEW h \in Histories, NEW n \in 1 .. Len(h), Newest(h, n),
         NEW g \in Histories, Within(g, h), g # NoCommit, g[Len(g)] # Foreign
  PROVE  Within(g, SubSeq(h, 1, n))
<1>1. Len(g) \in 1 .. Len(h)
  BY DEF Within, Histories, NoCommit
<1>2. Len(g) <= n
  BY <1>1 DEF Within, Newest, Histories
<1> QED BY <1>1, <1>2 DEF Within, Histories

-----------------------------------------------------------------------------
(* What the remote has it keeps.                                           *)

\* A durable commit stays durable while the remote only grows.
LEMMA DurableStays ==
  ASSUME NEW h \in Histories, remote \in Histories, remote' \in Histories,
         Within(remote, remote'), Durable(h), h # NoCommit
  PROVE  Within(h, remote') /\ h[Len(h)] # Foreign
<1>1. Within(h, remote) /\ h[Len(h)] # Foreign
  BY DEF Durable
<1> QED BY <1>1, WithinTransitive

\* A pull moves the checkout along its own history, or not at all.
LEMMA PullGrows ==
  ASSUME IngestionInv, PullEffect
  PROVE  local' \in Histories
BY DEF IngestionInv, TypeOK, PullEffect

\* A push moves the remote to the checkout, which has all its commits.
LEMMA PushGrows ==
  ASSUME IngestionInv, PushEffect
  PROVE  remote' \in Histories /\ Within(remote, remote') /\ remote' = local
BY DEF IngestionInv, TypeOK, PushEffect

\* Steps that make no commit known to anybody: the row is left alone or
\* loses its commit, the coroutine stays where it is or ends, the thread too.
LEMMA NothingLearned ==
  ASSUME IngestionInv,
         remote' \in Histories, Within(remote, remote'),
         UNCHANGED <<local, file, known, kind, ver, expected, tracked, sha>>,
         UNCHANGED <<gitVer, gitSha>>,
         step' \in {step, "idle"}, git' \in {git, "idle"},
         evidence' \in Versions,
         rowSha' \in {rowSha, NoCommit},
         rowStatus' \in {"none", "pending", "ingesting", "ingested", "failed"},
         rowStatus' # "ingested" => rowSha' = NoCommit
  PROVE  IngestionInv'
<1> USE DEF IngestionInv, TypeOK
<1>1. TypeOK'
  BY EmptyHistory
<1>2. Provenance'
  BY DurableStays DEF Provenance, Durable
<1>3. Succession'
  BY WithinReflexive DEF Succession
<1> QED BY <1>1, <1>2, <1>3

\* The checkout moves while no thread is about to push from it.
LEMMA CheckoutMoves ==
  ASSUME IngestionInv, local' \in Histories, file' \in 0 .. MaxVersion,
         git # "push", git' \in {"idle", "write", "commit"},
         git' # "idle" => git # "idle",
         UNCHANGED <<evidence, row, remote, gitVer, gitSha>>,
         UNCHANGED <<kind, ver, expected, tracked, sha>>,
         known' \in {known, NoCommit},
         \/ UNCHANGED step
         \/ step' = "idle"
         \/ step = "check" /\ step' \in {"present", "draft"}
  PROVE  IngestionInv'
<1> USE DEF IngestionInv, TypeOK, row
<1>1. TypeOK'
  BY EmptyHistory
<1>2. Provenance'
  BY DEF Provenance, Durable
<1>3. Succession'
  BY DEF Succession
<1> QED BY <1>1, <1>2, <1>3

-----------------------------------------------------------------------------
(* Every step preserves the invariant.                                     *)

\* learn_resolution keeps the invariant.
LEMMA CoroutinePreserves ==
  ASSUME IngestionInv, Coroutine
  PROVE  IngestionInv'
<1> USE IngestionAssumption DEF IngestionInv, TypeOK
<1>0. Within(remote, remote)
  BY WithinReflexive
<1>1. CASE Claim \/ BeginUntracked
  <2> USE <1>1 DEF Claim, BeginUntracked, row, repo, thread
  <2>1. TypeOK'
    <3>1. ver' \in 0 .. MaxVersion
      BY DEF Versions
    <3>2. tracked' \in BOOLEAN
      BY Zenon
    <3> QED BY <3>1, <3>2, EmptyHistory
  <2>2. Provenance'
    BY DEF Provenance, Durable, Versions, Foreign
  <2>3. Succession'
    BY WithinReflexive DEF Succession
  <2> QED BY <2>1, <2>2, <2>3
<1>2. CASE CheckSourceHash
  BY <1>2, PullGrows, CheckoutMoves DEF CheckSourceHash, row, thread
<1>3. CASE RememberedCommit
  <2> USE <1>3 DEF RememberedCommit, row, repo, thread
  <2>1. TypeOK'
    OBVIOUS
  <2>2. Provenance'
    BY DEF Provenance, Durable
  <2>3. Succession'
    BY DEF Succession
  <2> QED BY <2>1, <2>2, <2>3
<1>4. CASE LatestCommit
  <2> USE <1>4 DEF LatestCommit, row, thread
  <2>1. remote' \in Histories /\ Within(remote, remote') /\ remote' = local
    BY PushGrows
  <2>2. PICK n \in 1 .. Len(local) : Newest(local, n) /\ sha' = SubSeq(local, 1, n)
    OBVIOUS
  <2>3. /\ sha' \in Histories /\ sha' # NoCommit /\ Within(sha', remote')
        /\ sha'[Len(sha')] # Foreign
    BY <2>1, <2>2, NewestIsCommit
  <2>4. Within(rowSha, sha')
    <3>1. CASE rowSha = NoCommit
      BY <2>3, <3>1, WithinReflexive
    <3>2. CASE rowSha # NoCommit
      <4>1. Within(rowSha, local) /\ rowSha[Len(rowSha)] # Foreign
        BY <2>1, <3>2, DurableStays DEF Provenance
      <4> QED BY <2>2, <3>2, <4>1, NewestIsLast
    <3> QED BY <3>1, <3>2
  <2>5. TypeOK'
    BY <2>1, <2>3
  <2>6. Provenance'
    BY <2>1, <2>3, DurableStays DEF Provenance, Durable
  <2>7. Succession'
    BY <2>4 DEF Succession
  <2> QED BY <2>5, <2>6, <2>7
<1>5. CASE NoProvenance \/ LearnFails
  <2>1. remote' \in Histories /\ Within(remote, remote')
    BY <1>0, <1>5, PushGrows DEF NoProvenance, LearnFails, repo
  <2> QED BY <1>5, <2>1, NothingLearned
          DEF NoProvenance, LearnFails, Fail, row, repo, thread
<1>6. CASE StartWrite
  <2> USE <1>6 DEF StartWrite, row, repo
  <2>1. TypeOK'
    BY DEF Histories, NoCommit
  <2>2. Provenance'
    BY DEF Provenance, Durable
  <2>3. Succession'
    BY DEF Succession
  <2> QED BY <2>1, <2>2, <2>3
<1>7. CASE Acknowledge
  <2> USE <1>7 DEF Acknowledge, row, repo, thread
  <2>1. TypeOK'
    OBVIOUS
  <2>2. Provenance'
    BY DEF Provenance, Durable
  <2>3. Succession'
    BY WithinReflexive DEF Succession
  <2> QED BY <2>1, <2>2, <2>3
<1>8. CASE Cancel
  <2>1. remote' \in Histories /\ Within(remote, remote')
    BY <1>0, <1>8, PushGrows DEF Cancel
  <2> QED BY <1>8, <2>1, NothingLearned DEF Cancel, row, thread
<1> QED BY <1>1, <1>2, <1>3, <1>4, <1>5, <1>6, <1>7, <1>8 DEF Coroutine

\* The git commands of MemoryStore keep the invariant.
LEMMA ThreadPreserves ==
  ASSUME IngestionInv, Thread
  PROVE  IngestionInv'
<1> USE IngestionAssumption DEF IngestionInv, TypeOK
<1>1. CASE GitPull \/ GitWrite
  <2>1. local' \in Histories
    BY <1>1, PullGrows DEF GitPull, GitWrite
  <2> QED BY <1>1, <2>1, CheckoutMoves DEF GitPull, GitWrite, row, learn
<1>2. CASE GitCommit
  <2> USE <1>2 DEF GitCommit, row, learn
  <2>1. CASE UNCHANGED <<local, gitSha>>
    <3>1. TypeOK'
      BY <2>1
    <3>2. Provenance' /\ Succession'
      BY <2>1 DEF Provenance, Succession, Durable
    <3> QED BY <3>1, <3>2
  <2>2. CASE local' = Append(local, gitVer) /\ gitSha' = local'
    <3>1. local' \in Histories /\ local'[Len(local')] # Foreign
      BY <2>2, AppendGrows DEF Provenance
    <3>2. TypeOK'
      BY <2>2, <3>1
    <3>3. Provenance' /\ Succession'
      BY <2>2, <3>1 DEF Provenance, Succession, Durable
    <3> QED BY <3>2, <3>3
  <2> QED BY <2>1, <2>2
<1>3. CASE GitPush
  <2> USE <1>3 DEF GitPush, row
  <2>1. remote' \in Histories /\ Within(remote, remote') /\ remote' = local
    BY PushGrows
  <2>2. gitSha # NoCommit =>
          /\ Within(gitSha, remote') /\ gitSha[Len(gitSha)] # Foreign
          /\ Within(rowSha, gitSha)
    <3>1. Within(local, local)
      BY WithinReflexive
    <3>2. Within(rowSha, local)
      BY <2>1, DurableStays, WithinReflexive DEF Provenance
    <3> QED BY <2>1, <3>1, <3>2 DEF Provenance
  <2>3. TypeOK'
    BY <2>1
  <2>4. Provenance'
    BY <2>1, <2>2, DurableStays DEF Provenance, Durable
  <2>5. Succession'
    BY <2>2 DEF Succession
  <2> QED BY <2>3, <2>4, <2>5
<1>4. CASE GitFails
  <2>1. Within(remote, remote)
    BY WithinReflexive
  <2> QED BY <1>4, <2>1, NothingLearned DEF GitFails, Fail, row, repo, learn
<1> QED BY <1>1, <1>2, <1>3, <1>4 DEF Thread

\* Another writer, a crash and a restart keep the invariant.
LEMMA EnvironmentPreserves ==
  ASSUME IngestionInv, Environment
  PROVE  IngestionInv'
<1> USE IngestionAssumption DEF IngestionInv, TypeOK
<1>1. CASE Request \/ EvidenceImproves \/ ForeignPush
  <2>1. remote' \in Histories /\ Within(remote, remote')
    <3>1. Foreign \in 0 .. MaxVersion
      BY DEF Foreign
    <3>2. CASE UNCHANGED remote
      BY <3>2, WithinReflexive
    <3>3. CASE ForeignPush
      BY <3>1, <3>3, AppendGrows DEF ForeignPush
    <3> QED BY <1>1, <3>2, <3>3 DEF Request, EvidenceImproves, repo
  <2>2. evidence' \in Versions
    BY <1>1 DEF Request, EvidenceImproves, ForeignPush, Versions
  <2> QED BY <1>1, <2>1, <2>2, NothingLearned
          DEF Request, EvidenceImproves, ForeignPush, row, repo, learn, thread
<1>2. CASE Crash
  <2> USE <1>2 DEF Crash, row
  <2>1. TypeOK'
    BY DEF Histories, NoCommit
  <2>2. Provenance'
    BY DEF Provenance, Durable
  <2>3. Succession'
    BY DEF Succession
  <2> QED BY <2>1, <2>2, <2>3
<1> QED BY <1>1, <1>2 DEF Environment

\* The invariant holds with an empty checkout.
LEMMA InitEstablishes ==
  ASSUME Init
  PROVE  IngestionInv
<1> USE IngestionAssumption
<1>1. TypeOK
  <2>1. 1 \in Versions /\ 0 \in 0 .. MaxVersion
    BY DEF Versions
  <2> QED BY <2>1, EmptyHistory DEF Init, TypeOK
<1>2. Provenance
  BY DEF Init, Provenance, Durable
<1>3. Succession
  BY DEF Init, Succession
<1> QED BY <1>1, <1>2, <1>3 DEF IngestionInv

\* Every step keeps the invariant.
LEMMA NextPreserves ==
  ASSUME IngestionInv, [Next]_vars
  PROVE  IngestionInv'
<1>1. CASE Next
  BY <1>1, CoroutinePreserves, ThreadPreserves, EnvironmentPreserves DEF Next
<1>2. CASE UNCHANGED vars
  <2> USE <1>2 DEF vars, row, repo, learn, thread
  <2>1. TypeOK' /\ Provenance' /\ Succession'
    BY DEF IngestionInv, TypeOK, Provenance, Succession, Durable
  <2> QED BY <2>1 DEF IngestionInv
<1> QED BY <1>1, <1>2

-----------------------------------------------------------------------------
(* The theorems.                                                           *)

\* Types, provenance and succession hold in every reachable state, whatever
\* fails, is cancelled or crashes between two git commands.
THEOREM InvariantHolds ==
  Safety => []IngestionInv
BY InitEstablishes, NextPreserves, PTL DEF Safety

\* The commit on an ingested failure row is at the remote, and records the
\* document.
THEOREM AcknowledgementsAreDurable ==
  Safety => []AckedCommitIsDurable
<1>1. IngestionInv => AckedCommitIsDurable
  BY DEF IngestionInv, Provenance, AckedCommitIsDurable
<1> QED BY <1>1, InvariantHolds, PTL

\* An ingested row stays ingested, and its commit is only ever replaced by
\* one that contains it.
THEOREM CommitsNeverRegress ==
  Safety => ShaNeverRegresses
<1>1. ASSUME IngestionInv, [Next]_vars, rowStatus = "ingested"
      PROVE  rowStatus' = "ingested" /\ Within(rowSha, rowSha')
  <2>1. Within(rowSha, rowSha)
    BY <1>1, WithinReflexive DEF IngestionInv, TypeOK
  <2>2. CASE Acknowledge
    <3>1. CASE UNCHANGED row
      BY <1>1, <2>1, <3>1 DEF row
    <3>2. CASE step = "ack" /\ sha # NoCommit /\ rowSha' = sha /\ UNCHANGED rowStatus
      BY <1>1, <3>2 DEF IngestionInv, Succession
    <3> QED BY <1>1, <2>2, <3>1, <3>2 DEF Acknowledge
  <2>3. CASE UNCHANGED row
    BY <1>1, <2>1, <2>3 DEF row
  <2>4. Acknowledge \/ UNCHANGED row
    BY <1>1 DEF Next, vars, Coroutine, Thread, Environment, Claim,
       BeginUntracked, CheckSourceHash, RememberedCommit, LatestCommit,
       NoProvenance, StartWrite, LearnFails, Cancel, GitPull, GitWrite,
       GitCommit, GitPush, GitFails, Fail, Request, EvidenceImproves,
       ForeignPush, Crash
  <2> QED BY <2>2, <2>3, <2>4
<1>2. IngestionInv /\ [Next]_vars =>
        [rowStatus = "ingested" =>
           rowStatus' = "ingested" /\ Within(rowSha, rowSha')]_vars
  BY <1>1
<1> QED BY <1>2, InvariantHolds, PTL DEF Safety, ShaNeverRegresses
-----------------------------------------------------------------------------
(* Ingestion implements DurableMemory.                                     *)

\* The branch only grows while the row keeps its commit.
LEMMA GrowthFollows ==
  ASSUME IngestionInv, remote' \in Histories, Within(remote, remote'),
         UNCHANGED rowSha
  PROVE  Memory!Next
BY DEF Memory!Next, Memory!Push, Memory!Within, Within

\* A row that gets a commit gets a durable one, not older than its own.
LEMMA AcknowledgementFollows ==
  ASSUME IngestionInv, step = "ack", sha # NoCommit, rowSha' = sha,
         UNCHANGED remote
  PROVE  Memory!Next
<1>1. Within(rowSha, sha) /\ Within(sha, remote) /\ sha[Len(sha)] # Foreign
  BY DEF IngestionInv, Succession, Provenance, Durable
<1> QED BY <1>1 DEF Memory!Next, Memory!Acknowledge, Memory!Within, Within

\* Every step is one of DurableMemory's, or none to it.
LEMMA StepsFollow ==
  ASSUME IngestionInv, [Next]_vars
  PROVE  [Memory!Next]_<<remote, rowSha>>
<1> USE DEF IngestionInv, TypeOK
<1>1. CASE UNCHANGED <<remote, rowSha>>
  BY <1>1
<1>2. CASE PushEffect /\ UNCHANGED rowSha
  BY <1>2, PushGrows, GrowthFollows
<1>3. CASE ForeignPush
  <2>1. Append(remote, Foreign) \in Histories
        /\ Within(remote, Append(remote, Foreign))
    BY IngestionAssumption, AppendGrows DEF Foreign
  <2> QED BY <1>3, <2>1, GrowthFollows DEF ForeignPush, row
<1>4. CASE Acknowledge
  <2>1. CASE UNCHANGED row
    BY <1>1, <1>4, <2>1 DEF Acknowledge, row, repo
  <2>2. CASE step = "ack" /\ rowSha' = sha /\ sha # NoCommit
    BY <1>4, <2>2, AcknowledgementFollows DEF Acknowledge, repo
  <2>3. CASE step = "ack" /\ rowSha' = sha /\ sha = NoCommit /\ rowStatus # "ingested"
    BY <1>1, <1>4, <2>3 DEF Acknowledge, repo
  <2> QED BY <1>4, <2>1, <2>2, <2>3 DEF Acknowledge
<1>5. CASE Claim \/ BeginUntracked \/ CheckSourceHash \/ RememberedCommit
           \/ StartWrite \/ LearnFails
  BY <1>1, <1>5 DEF Claim, BeginUntracked, CheckSourceHash, RememberedCommit,
     StartWrite, LearnFails, Fail, row, repo
<1>6. CASE LatestCommit \/ Cancel
  BY <1>1, <1>2, <1>6 DEF LatestCommit, Cancel, row, repo
<1>7. CASE NoProvenance
  <2>1. PushEffect /\ UNCHANGED rowSha
    BY <1>7 DEF NoProvenance, Fail, row
  <2> QED BY <1>2, <2>1
<1>8. CASE Coroutine
  BY <1>4, <1>5, <1>6, <1>7, <1>8 DEF Coroutine
<1>9. CASE Thread
  BY <1>1, <1>2, <1>9 DEF Thread, GitPull, GitWrite, GitCommit, GitPush,
     GitFails, Fail, row, repo
<1>10. CASE Environment
  BY <1>1, <1>3, <1>10 DEF Environment, Request, EvidenceImproves, Crash,
     row, repo
<1>11. CASE UNCHANGED vars
  BY <1>1, <1>11 DEF vars, row, repo
<1> QED BY <1>8, <1>9, <1>10, <1>11 DEF Next

\* The remote branch and the acknowledged commit are those of DurableMemory:
\* every push fast-forwards, and every acknowledgement is durable.
THEOREM ImplementsDurableMemory ==
  Safety => FollowsDurableMemory
<1>1. Init => Memory!Init
  BY DEF Init, Memory!Init
<1>2. IngestionInv /\ [Next]_vars => [Memory!Next]_<<remote, rowSha>>
  BY StepsFollow
<1> QED BY <1>1, <1>2, InvariantHolds, PTL
           DEF Safety, FollowsDurableMemory, Memory!Spec

\* _push and _pull_ff_only only ever fast-forward: no step, a crash or a lost
\* checkout included, takes a commit off the remote branch.
THEOREM RemoteOnlyGrows ==
  Safety => [][Within(remote, remote')]_vars
<1>1. IngestionInv /\ [Next]_vars => [Within(remote, remote')]_vars
  <2> SUFFICES ASSUME IngestionInv, [Next]_vars PROVE Within(remote, remote')
    OBVIOUS
  <2>1. [Memory!Next]_<<remote, rowSha>>
    BY StepsFollow
  <2>2. Len(remote) \in Nat
    BY DEF IngestionInv, TypeOK, Histories
  <2> QED BY <2>1, <2>2 DEF Memory!Next, Memory!Push, Memory!Acknowledge,
          Memory!Within, Within
<1> QED BY <1>1, InvariantHolds, PTL DEF Safety

=============================================================================
