-------------------------- MODULE MemoryIngestion --------------------------
(***************************************************************************)
(* Learning ONE recovery memory: resolver.learn_resolution, the ingestion  *)
(* acknowledgement on the failure row, and memory_store.GitMemoryStore     *)
(* writing the Markdown document through a local checkout to a remote      *)
(* branch that other writers push to as well.                              *)
(*                                                                         *)
(* A commit is the version of the document it records (Foreign for anybody *)
(* else's commit), a history the sequence of its commits, and a commit SHA *)
(* the history that ends in it.  Evidence can improve while an older       *)
(* version is being learned.                                               *)
(*                                                                         *)
(* The coroutine can be cancelled (reconnect, shutdown), but the git work  *)
(* it awaits runs in a thread that nobody cancels; only a crash ends both. *)
(***************************************************************************)
EXTENDS Integers, Sequences, FiniteSets

CONSTANTS
  MaxVersion,   \* bound on the improvements of the evidence
  MaxForeign    \* bound on the commits of other writers

ASSUME IngestionAssumption == MaxVersion \in Nat \ {0} /\ MaxForeign \in Nat

VARIABLES
  evidence,   \* newest version of the resolution and its failure row
  rowStatus,  \* memory_status; "none": not requested for this resolution
  rowSha,     \* memory_commit_sha
  remote,     \* history of the memory branch at the remote
  local,      \* history of the branch in the checkout
  file,       \* version in the working tree, 0 if there is no file
  known,      \* _known_commit_shas of the resolution
  step,       \* where learn_resolution is
  kind,       \* acknowledgement it returned from _claim_memory_ingestion
  ver,        \* version it read
  expected,   \* memory_commit_sha it read with an ingested row
  tracked,    \* the row it read was ingested for this resolution
  sha,        \* commit it is about to acknowledge
  git,        \* where the write_memory thread is
  gitVer,     \* version that thread writes
  gitSha      \* commit that thread made, if any

row    == <<rowStatus, rowSha>>
repo   == <<remote, local, file>>
learn  == <<step, kind, ver, expected, tracked, sha>>
thread == <<git, gitVer, gitSha>>
vars   == <<evidence, row, repo, known, learn, thread>>

Foreign  == 0
Versions == 1 .. MaxVersion
NoCommit == <<>>

\* Every commit of the first history is in the second one.
Within(h, g) == Len(h) <= Len(g) /\ \A i \in 1 .. Len(h) : h[i] = g[i]

\* n is the newest commit of the document in a history.
Newest(h, n) ==
  /\ n \in 1 .. Len(h) /\ h[n] # Foreign
  /\ \A m \in n + 1 .. Len(h) : h[m] = Foreign

\* A history ends with version v of the document, or with none if v is 0.
Records(h, v) ==
  \/ v = 0 /\ \A n \in 1 .. Len(h) : h[n] = Foreign
  \/ \E n \in 1 .. Len(h) : Newest(h, n) /\ v = h[n]

ForeignCommits(h) == {n \in 1 .. Len(h) : h[n] = Foreign}

Init ==
  /\ evidence = 1
  /\ rowStatus = "none" /\ rowSha = NoCommit
  /\ remote = NoCommit /\ local = NoCommit /\ file = 0
  /\ known = NoCommit
  /\ step = "idle" /\ kind = "untracked" /\ ver = 0
  /\ expected = NoCommit /\ tracked = FALSE /\ sha = NoCommit
  /\ git = "idle" /\ gitVer = 0 /\ gitSha = NoCommit

-----------------------------------------------------------------------------
(* Git, as GitMemoryStore runs it.                                         *)

\* pull --ff-only: refused when both sides have commits of their own.
PullEffect ==
  /\ Within(local, remote) \/ Within(remote, local)
  /\ local' = IF Len(local) < Len(remote) THEN remote ELSE local

\* Mutant: a rejected push is not noticed.
PushEffectUnchecked == remote' \in {remote, local}

\* Mutant: a push that is rejected is forced.
PushEffectForced == remote' = local

\* push: refused unless the remote only gains commits.
PushEffect ==
  /\ Within(remote, local)
  /\ remote' = local

-----------------------------------------------------------------------------
(* learn_resolution.                                                       *)

\* Any exception after the claim: a claimed row is marked failed, unless
\* that write fails as well.
Fail ==
  /\ step' = "idle"
  /\ \/ /\ kind = "claimed" /\ rowStatus = "ingesting"
        /\ rowStatus' = "failed" /\ rowSha' = NoCommit
     \/ UNCHANGED row
  /\ UNCHANGED <<evidence, kind, ver, expected, tracked, sha>>

\* The rows are read and the ingestion is claimed by compare-and-set.  The
\* claim is outside the try block: when its reply is lost nothing undoes it.
Claim ==
  /\ step = "idle"
  /\ rowStatus \in {"pending", "failed"}
  /\ rowStatus' = "ingesting" /\ rowSha' = NoCommit
  /\ step' \in {"check", "idle"}
  /\ kind' = "claimed" /\ ver' = evidence
  /\ UNCHANGED <<evidence, expected, tracked, sha, repo, known, thread>>

\* Not requested, or ingested before: learned without a claim.  A row that
\* is "ingesting" is taken to be owned elsewhere, and skipped.
BeginUntracked ==
  /\ step = "idle"
  /\ rowStatus \in {"none", "ingested"}
  /\ step' = "check"
  /\ kind' = "untracked" /\ ver' = evidence
  /\ tracked' = (rowStatus = "ingested") /\ expected' = rowSha
  /\ UNCHANGED <<evidence, row, sha, repo, known, thread>>

\* has_source_hash(refresh=True): the working tree is what is compared.
CheckSourceHash ==
  /\ step = "check" /\ git = "idle"
  /\ PullEffect
  /\ step' = IF file = ver THEN "present" ELSE "draft"
  /\ UNCHANGED <<evidence, row, remote, file, known, kind, ver, expected,
                 tracked, sha, thread>>

\* Provenance of a document that is there already: remembered by this
\* process, or the newest commit of the file after a push.
RememberedCommit ==
  /\ step = "present" /\ known # NoCommit
  /\ sha' = known
  /\ step' = "ack"
  /\ UNCHANGED <<evidence, row, repo, known, kind, ver, expected, tracked,
                 thread>>

\* latest_memory_commit.
LatestCommit ==
  /\ step = "present" /\ known = NoCommit /\ git = "idle"
  /\ PushEffect
  /\ \E n \in 1 .. Len(local) :
       Newest(local, n) /\ sha' = SubSeq(local, 1, n)
  /\ step' = "ack"
  /\ UNCHANGED <<evidence, row, local, file, known, kind, ver, expected,
                 tracked, thread>>

\* The push is done, but no commit has ever recorded the file.
NoProvenance ==
  /\ step = "present" /\ known = NoCommit /\ git = "idle"
  /\ PushEffect
  /\ \A n \in 1 .. Len(local) : local[n] = Foreign
  /\ Fail
  /\ UNCHANGED <<local, file, known, thread>>

\* generalize_resolution succeeded; write_memory starts in its thread.
StartWrite ==
  /\ step = "draft" /\ git = "idle"
  /\ step' = "store"
  /\ git' = "pull" /\ gitVer' = ver /\ gitSha' = NoCommit
  /\ UNCHANGED <<evidence, row, repo, known, kind, ver, expected, tracked, sha>>

\* Any read, model call or git command of the coroutine may fail.
LearnFails ==
  /\ step \in {"check", "present", "draft", "ack"}
  /\ Fail
  /\ UNCHANGED <<repo, known, thread>>

\* _mark_memory_ingested for a claim; for a row ingested before, a
\* compare-and-set of the commit when there is a new one.
Acknowledge ==
  /\ step = "ack"
  /\ step' = "idle"
  /\ IF kind = "claimed" /\ rowStatus = "ingesting"
       THEN rowStatus' = "ingested" /\ rowSha' = sha
       ELSE IF /\ kind = "untracked" /\ tracked
               /\ sha \notin {NoCommit, expected}
               /\ rowStatus = "ingested" /\ rowSha = expected
              THEN rowSha' = sha /\ UNCHANGED rowStatus
              ELSE UNCHANGED row
  /\ UNCHANGED <<evidence, kind, ver, expected, tracked, sha, repo, known,
                 thread>>

\* Disconnect or shutdown.  A thread that is writing goes on; so does one
\* that was about to push.
Cancel ==
  /\ step # "idle"
  /\ step' = "idle"
  /\ \/ UNCHANGED remote
     \/ step = "present" /\ known = NoCommit /\ git = "idle" /\ PushEffect
  /\ UNCHANGED <<evidence, row, local, file, known, kind, ver, expected,
                 tracked, sha, thread>>

-----------------------------------------------------------------------------
(* write_memory.                                                           *)

GitPull ==
  /\ git = "pull"
  /\ PullEffect
  /\ git' = "write"
  /\ UNCHANGED <<evidence, row, remote, file, known, learn, gitVer, gitSha>>

GitWrite ==
  /\ git = "write"
  /\ file' = gitVer
  /\ git' = "commit"
  /\ UNCHANGED <<evidence, row, remote, local, known, learn, gitVer, gitSha>>

\* Mutant: the commit is remembered before it is pushed.
GitCommitRemembered ==
  /\ git = "commit"
  /\ IF Records(local, gitVer)
       THEN UNCHANGED <<local, gitSha, known>>
       ELSE local' = Append(local, gitVer) /\ gitSha' = local' /\ known' = local'
  /\ git' = "push"
  /\ UNCHANGED <<evidence, row, remote, file, learn, gitVer>>

\* Nothing is staged when the branch already records this version.
GitCommit ==
  /\ git = "commit"
  /\ IF Records(local, gitVer)
       THEN UNCHANGED <<local, gitSha>>
       ELSE local' = Append(local, gitVer) /\ gitSha' = local'
  /\ git' = "push"
  /\ UNCHANGED <<evidence, row, remote, file, known, learn, gitVer>>

\* Only now does the coroutine, if it still waits, learn of the commit.
GitPush ==
  /\ git = "push"
  /\ PushEffect
  /\ git' = "idle"
  /\ IF step = "store"
       THEN /\ step' = "ack" /\ sha' = gitSha
            /\ known' = IF gitSha # NoCommit THEN gitSha ELSE known
       ELSE UNCHANGED <<step, sha, known>>
  /\ UNCHANGED <<evidence, row, local, file, kind, ver, expected, tracked,
                 gitVer, gitSha>>

\* Mutant: the failure of the thread is not noticed.
GitFailsSilently ==
  /\ git # "idle"
  /\ git' = "idle"
  /\ UNCHANGED <<evidence, row, learn, repo, known, gitVer, gitSha>>

GitFails ==
  /\ git # "idle"
  /\ git' = "idle"
  /\ IF step = "store" THEN Fail ELSE UNCHANGED <<evidence, row, learn>>
  /\ UNCHANGED <<repo, known, gitVer, gitSha>>

-----------------------------------------------------------------------------
(* The other parties.                                                      *)

\* The operator interface asks for the memory of this resolution.
Request ==
  /\ rowStatus = "none"
  /\ rowStatus' = "pending"
  /\ UNCHANGED <<evidence, rowSha, repo, known, learn, thread>>

EvidenceImproves ==
  /\ evidence < MaxVersion
  /\ evidence' = evidence + 1
  /\ UNCHANGED <<row, repo, known, learn, thread>>

ForeignPush ==
  /\ Cardinality(ForeignCommits(remote)) < MaxForeign
  /\ remote' = Append(remote, Foreign)
  /\ UNCHANGED <<evidence, row, local, file, known, learn, thread>>

\* The process dies and is started again, on the old checkout or, when its
\* volume is gone too, on a fresh clone.
Crash ==
  /\ step' = "idle" /\ git' = "idle" /\ known' = NoCommit
  /\ \/ UNCHANGED <<local, file>>
     \/ local' = remote /\ file' \in {v \in 0 .. MaxVersion : Records(remote, v)}
  /\ UNCHANGED <<evidence, row, remote, kind, ver, expected, tracked, sha,
                 gitVer, gitSha>>

-----------------------------------------------------------------------------
Coroutine ==
  \/ Claim \/ BeginUntracked \/ CheckSourceHash
  \/ RememberedCommit \/ LatestCommit \/ NoProvenance
  \/ StartWrite \/ LearnFails \/ Acknowledge \/ Cancel

Thread == GitPull \/ GitWrite \/ GitCommit \/ GitPush \/ GitFails

Environment == Request \/ EvidenceImproves \/ ForeignPush \/ Crash

Next == Coroutine \/ Thread \/ Environment

Safety == Init /\ [][Next]_vars

\* Realtime events and reconnects keep asking for the resolution, every step
\* that is possible again and again succeeds at last, and what cannot succeed
\* fails.
Fairness ==
  /\ WF_vars(LearnFails) /\ WF_vars(GitFails)
  /\ SF_vars(Claim) /\ SF_vars(BeginUntracked)
  /\ SF_vars(CheckSourceHash) /\ SF_vars(RememberedCommit)
  /\ SF_vars(LatestCommit) /\ SF_vars(NoProvenance)
  /\ SF_vars(StartWrite) /\ SF_vars(Acknowledge)
  /\ SF_vars(GitPull) /\ SF_vars(GitWrite) /\ SF_vars(GitCommit)
  /\ SF_vars(GitPush)

Spec == Safety /\ Fairness

-----------------------------------------------------------------------------
Histories == Seq(0 .. MaxVersion)

\* Every variable has its type, and only an ingested row carries a commit.
TypeOK ==
  /\ evidence \in Versions
  /\ rowStatus \in {"none", "pending", "ingesting", "ingested", "failed"}
  /\ rowSha \in Histories
  /\ rowStatus # "ingested" => rowSha = NoCommit
  /\ remote \in Histories /\ local \in Histories /\ file \in 0 .. MaxVersion
  /\ known \in Histories
  /\ step \in {"idle", "check", "present", "draft", "store", "ack"}
  /\ kind \in {"claimed", "untracked"} /\ ver \in 0 .. MaxVersion
  /\ expected \in Histories /\ tracked \in BOOLEAN /\ sha \in Histories
  /\ git \in {"idle", "pull", "write", "commit", "push"}
  /\ gitVer \in 0 .. MaxVersion /\ gitSha \in Histories

\* A commit of the document, and one the remote has.
Durable(h) ==
  h # NoCommit => /\ Within(h, remote)
                  /\ h[Len(h)] # Foreign

\* The acknowledged commit is at the remote and records this document
\* (SEARCH_FLOW.md: "Supabase is acknowledged with the remotely durable Git
\* commit"), through failed pushes, cancelled coroutines whose thread goes
\* on, crashes and lost checkouts.
AckedCommitIsDurable == Durable(rowSha)

\* Refreshing the commit of an ingested row never replaces it by an older
\* one, although the commit comes from a cache of this process, from the
\* write or from git log.
ShaNeverRegresses ==
  [][rowStatus = "ingested" => rowStatus' = "ingested" /\ Within(rowSha, rowSha')]_vars

Acknowledging == rowStatus # "ingested" /\ rowStatus' = "ingested"

\* SEARCH_FLOW.md: "the file is committed and pushed; and" only then
\* "Supabase is acknowledged", and, when an earlier push failed,
\* "reconciliation pushes that commit before marking the memory as ingested":
\* the remote branch has a commit of the version that is acknowledged.
PushedBeforeAcknowledged ==
  [][Acknowledging => \E n \in 1 .. Len(remote) : remote[n] = ver]_vars

\* A request is taken up by some pass, although passes are cancelled, crash,
\* and fail for ever on a checkout that has diverged from the remote.
RequestIsTakenUp == rowStatus = "pending" ~> rowStatus # "pending"

\* The remote branch and the acknowledged commit go the way DurableMemory
\* describes: no push removes a commit, the one of another writer included
\* that came in between the pull and the push.
Memory == INSTANCE DurableMemory WITH branch <- remote, acked <- rowSha

FollowsDurableMemory == Memory!Spec

\* README.md: the resolver "reconciles ... successful demonstrated resolutions
\* on startup, so Realtime is not the durable queue": an ingestion that was
\* begun is settled, by whoever takes the resolution up next.
IngestionSettles == rowStatus = "ingesting" ~> rowStatus # "ingesting"

-----------------------------------------------------------------------------
(* Why the acknowledged commit is durable and never regresses.             *)

\* Every commit that can still reach the row is at the remote already; the
\* thread's own is where the checkout ends.
Provenance ==
  /\ Durable(rowSha) /\ Durable(known)
  /\ step = "ack" => Durable(sha)
  /\ git = "push" /\ gitSha # NoCommit =>
       gitSha = local /\ local[Len(local)] # Foreign
  /\ git \in {"pull", "write", "commit"} => gitSha = NoCommit
  /\ git # "idle" => gitVer # Foreign
  /\ step # "idle" => ver # Foreign

\* No commit that can still reach the row is older than the row's.
Succession ==
  /\ known # NoCommit => Within(rowSha, known)
  /\ step = "ack" /\ sha # NoCommit => Within(rowSha, sha)
  /\ step = "ack" /\ sha # NoCommit /\ known # NoCommit => sha = known

IngestionInv == TypeOK /\ Provenance /\ Succession
=============================================================================
