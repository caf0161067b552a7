# A TLA+ model of the failure resolver

Robots run *Flows*, trees of actions with indices. When a step fails, the robot
pauses, and an analyser writes a row to the Supabase table `failure_events`.
This service matches the failure with recoveries that operators demonstrated
earlier, and, for allow-listed robots, carries the recovery out by itself. The
modules in this directory model its concurrent parts; TLC checks them on small
instances and TLAPS proves the most important results for every instance.

## 1. The system

```
 analyser, operators                     robot (Brain)
        |                                     ^ |  commands, answers,
        v                                     | v  Flow frames
  Supabase tables  --Realtime-->  matcher    RobotSession
  failure_events   <--reads/CAS-- runtime -->RecoveryCoordinator --RPC--> sessions
  flow_failure_resolutions          |  ^
                                    v  |
                      RetrievalLoop    MemoryIngestion --git--> memory branch
```

One process runs (the deployment allows one task), on one asyncio event loop;
git commands run in threads. (The legacy service is another
program, with one thread that blocks.) Between two awaits a coroutine is atomic, and that
is the grain of every model here.

| Component (source) | State | Operations | What makes it correct |
|---|---|---|---|
| Recovery coordinator (`recovery_executor.py`) | pending and dirty failure ids, robot locks, active recovery by step; in the database: session status, attempts, lease, pinned plan | notify, reconcile, process a failure, attach a recurrence, prepare, grace, claim, dispatch, observe, finish, stop | commands are never repeated on doubt; a retry needs a definitive recurrence; the budget of attempts holds across restarts; attempts and locks do not stay held |
| Plans and continuations (`recovery_executor.py`, `resolver.py`) | plan of a memory, of a row, of a session | parse, bind to a Flow, pin, validate, send guarded, check the answer | the robot resumes at the step the operator demonstrated, however the Flow was edited |
| Robot session (`robot_session.py`) | connection and generation, pending requests, newest and past Flow frames | connect, request, settle, time out, wait for a Flow | what a caller is told is what happened at the robot |
| Matcher runtime (`resolver.py`, `observer.py`) | subscriptions, queue, worker, `matcher_status` | subscribe, reconcile, enqueue, claim, match, finish | no pending failure is overlooked; decisions are final; suggestions reach the coordinator |
| Memory ingestion (`resolver.py`, `memory_store.py`) | `memory_status`, acknowledged commit, checkout, remote branch, remembered commits | claim, compare source hash, write, commit, push, acknowledge | the acknowledged commit is durable and never regresses |
| Retrieval (`resolver.py`, `retrieval.py`, `agent.py`) | found and read documents, budgets; in the database: revocations | check revocations, search, read, finish | only what was read and not revoked is applied; budgets hold; it ends |
| Live action-spec validation (`recovery_executor.py`) | newest commands frame of the connection | validate corrections against the robot's command schemas, before prepare and before dispatch | what is sent is described by the live spec and runs as it was recorded |
| Legacy SQS service (`main.py`, `sqs_handler.py`, `solution_executor.py`, `robot_interface.py`) | SQS messages, solution files, Qdrant, `index.json` | poll, receive, store, delete, propose, execute command by command | no acknowledged solution is lost; only a known, recorded solution moves the robot; the default container does not import it |

**How they interact.** The runtime's worker calls the coordinator
(`notify_failure`) before and after it matches a row. The coordinator reads the
row again and drives a session through database functions; it sends through
`RobotSession.request_command` and learns the outcome through `wait_for_flow`.
The worker learns memories between failures; a learned memory is a candidate of
the next retrieval. Rows of `failure_events` are shared by analyser, operators,
matcher (`matcher_status`), ingestion (`memory_status`) and coordinator
(`mark_non_executable`).

**What is hard.** Replies that are lost after the write took effect; a process
that dies between two writes; leases that lapse under a live worker; the robot
reconnecting, moving on or having its Flow edited between two checks;
recurrences of the step that is being recovered; signals that arrive while
their row is in hand; threads that outlive the coroutine that awaited them; a
language model that may ask for anything. `PROJECT.json` lists the hazards at
their lines, with the properties aimed at them.

## 2. The modules

| Module | Models | Size of a step |
|---|---|---|
| `RecoveryLedger` | abstract: one recovery session from outside, with the commands that ever left under each attempt | a database transition or a dispatch |
| `RecoveryCoordinator` | the coordinator for one robot and one step, several failure rows; database functions, robot, operator, clock, lifecycle | code between two awaits; an RPC with its three outcomes (done, done and reply lost, not done) |
| `RecoveryPlan` | the continuation from memory to robot, over edited Flows | one function of the code |
| `JsonValue`, `JsonSchema` | JSON values; what the validator computes on them, and the set a schema describes | none: operators |
| `ActionSpec` | the judgement of a correction under changing specs and connections | one judgement, frame or change |
| `RobotCommand` | abstract: what `request_command` promises its callers | one call, departure, answer or outcome |
| `RobotSession` | one socket, overlapping and cancelled commands, Flow history | code between two awaits; one message |
| `FailureDecision` | abstract: the life of a failure row's decision | one write of `matcher_status` |
| `FailureMatcher` | subscriptions, queue and worker, several failures and resolutions | code between two awaits |
| `DurableMemory` | abstract: a remote branch that grows and commits acknowledged from it | a push or an acknowledgement |
| `MemoryIngestion` | one resolution from claim to acknowledgement, with checkout and remote | one git command or table write |
| `RetrievalLoop` | one retrieval with an adversarial model and revoking operators | one turn |
| `LegacyService` | solutions of the prototype from queue or request to the robot, and the loops that share its thread | one write to a file, the store or the queue; one command of the executor |

Four modules implement an abstract one, each by an `INSTANCE ... WITH` whose
specification is a property of a run and the subject of a theorem:

| Detailed | Abstract | Mapping |
|---|---|---|
| `RecoveryCoordinator` | `RecoveryLedger` | the ledger's variables are among the coordinator's |
| `RobotSession` | `RobotCommand` | `told` from `call` and `result`, `fate` from what the robot received, accepted and refused |
| `FailureMatcher` | `FailureDecision` | `status` is `matcher_status`; `announced` are the rows of whose decision the present connection has told the coordinator |
| `MemoryIngestion` | `DurableMemory` | `branch` is the remote, `acked` is `memory_commit_sha` |

The `MC...` modules
give constants of their shape (plans, sizes, Flows) to TLC and the symmetry
set; the other modules need none. Each module's mutant operators (marked
"Mutant:") change one definition as a plausible bug would; they are what shows
that every property can fail.

### How state and actions correspond to the code

*RecoveryCoordinator.* `status, attempts, pinned, lapsed, linked` are the
session's columns and the rows' `recovery_session_id`; `task` and `dirty` are
`_pending_failure_ids` and `_dirty_failure_ids`; `phase` is the program counter of the
one task that holds the robot lock; `cur` is `current_failure_id`; `tok` the
run token, which is the attempt's number; `held` what became of the
`FlowPointer` the task validated against ("current" as long as no newer frame
came); `watch` the state of `_execution_outcome_predicate`. `sent`, `resumes`
and `seen` are history: commands that left, and what the robot's frames proved
since the last one. Flow frames are the nine classes that
`classify_flow_outcome` and the predicate tell apart; a frame may miss the
predicate, because the history it is read from is bounded. An attempt ends
along one of three ways: its `finish` takes effect and the reply is read; the RPC
fails; or the reply to an effective `finish` cannot be parsed. The last two
(`FinishRaises`) raise inside the `try`, and the handler finishes a second time,
as `unknown` and with the same token. So for that one call a task holds the lock
beside a session that is settled already, which is the exception `Ownership`
makes; that the database refuses the second call then is part of
`FinishEffect`.

*RecoveryPlan.* A Flow is its enabled actions in tree order, each with index,
command and place (area and item); file name and id are one identity.
`memory` in a session and `resumed` are ghosts: where the plan came from, and
what the robot really did. The robot is not assumed to check the guards. A
guard the snapshot had no value for is left out of the arguments and matches
anything (`GuardedArguments`, `ArgumentsAgree`): a plan bound to a Flow without
a commit leaves for one that has a commit.

*ActionSpec.* A spec is a function from commands to inputs, a JSON value a tagged
tuple, so that `1`, `1.0` and `true` are told apart the way the code does. The
judgement is written after the code (`Executable` and what it calls). What it
computes on nested data is recursive and stands in `JsonSchema`, as operators
that the configuration gives to `ActionSpec`'s constants: `Valid` is
`ValidArguments`, `Equal` is `SameJson`. The third one, `Described`, is the
reference: `Documents` enumerates as a set what a schema describes, and knows
nothing of the judgement. `Demonstrate` records arguments in the three forms
memories have. The robot checks what it gets against its own spec and fills in
its own placeholders. `judged` and `used` are history.

*RobotSession.* `lock` is `_send_lock`, `call` the program counter of each
`request_command`, `born` the generation it began in, `future` its entry in
`_pending`. `Transmit` is separate from `SendReturns` and `SendFails` because
`send` can raise after the bytes have left. `pending` is the set of
`_pending`'s keys: a cancellation in the lock's queue or inside `send` is no `Exception`, and leaves the
entry behind. The ghost `after` of a frame says
which commands the robot had accepted by then.

*FailureMatcher.* A signal is the row it names, since the worker reads the row
again; signals on the wire form a set. `lost` collects the rows whose last
signal of this connection was dropped: by a full queue, by the limit of the
read of pending rows or of the coordinator's `reconcile`, by an exception, or by
an `Outage`, shorter than `disconnect_grace_seconds`, through which `run` goes
on without reading the tables again. A row leaves `lost` with its next signal,
and every new connection starts with nothing excused and nothing announced
(`NothingOwed`); what the limit cuts off it must excuse anew.
`RequestMayLand` is the request in flight when a task is cancelled or dies.

*MemoryIngestion.* A version stands for the text of the document, a history is
the sequence of commits of a branch, a commit SHA the history that ends in it:
two equal SHAs are equal histories, and "older" is "prefix of".

*RetrievalLoop.* A search returns any hits of the size the code returns. The
model may request any nonempty set of identifiers, in the corpus or not.
`_without_revoked` runs once, before the first turn; `late` is what was revoked
after it.

*LegacyService.* `thread` says which poll loop has the thread: a loop sleeps only
after it has received nothing, and the server answers only while both sleep.
`step` is the line of `process_sqs_solution` or
`index_solution` that is next; as the callback never awaits, only a crash gets
between two of them. `files` are the `solution_<second>.md` of each failure, `torn` says
that `index.json` was truncated and not yet rewritten. A point's id is a hash of
the second, salted by each process, so that a new point may or may not replace one of the
same second. `stamps` is history. A command is the sequence of its lines, and
`ReadBack` what `extract_solution` gets out of the markdown: a line break splits a
command, cuts it, or ends the list; an empty list comes back as the text
"No commands recorded". `Untextual` messages have a command that is no string, which raises
only after the file is written. `StartExecution` stands for an operator who
runs what the service proposes; `ExecuteCommand` is one turn of the executor's
loop, in which a command may fail and one of `Raising` always does before
anything is sent, such as `slide(forward, 1.5)`, which `TEST_GUIDE.md:263` gives
as its example and `robot_interface.py:176` cannot convert.

### Code outside the repository

The SQL of the database functions is not here; `PrepareEffect`, `ClaimEffect`
and `FinishEffect` are what the callers rely on: an existing session of the
step is returned, only `ready` or `failed` can be claimed, only the holder of
the newest run token can finish, and only while the attempt runs, and `failed` at the last attempt becomes
`timed_out`. Robot, analyser, operator, Realtime and other writers of the
memory branch are nondeterministic environments.

## 3. What the runs check

| Run | Instance | Question | Result |
|---|---|---|---|
| `attempts` | 2 rows (symmetric), 2 attempts, 1 correction, grace | rows of one step racing for the lock and joining each other's session; what leaves under an attempt, and what an outcome rests on | holds |
| `progress` | 1 row, 2 attempts, 1 correction, grace, room for 1 task | attempts and locks are given back, coalesced notifications are replayed; the ledger's liveness | holds |
| `session` | 2 commands, 2 connections, 2 frames, history of 1 | callers are told the truth, once, also when some are cancelled; every command ends; the abstract promise of a command | holds |
| `replay` | 16 specs, 1 change, 2 connections | what is sent is described by the live spec, runs as recorded, downloads nothing | holds |
| `continuations` | 5 versions of Flows, 7 memories, rewind 1, 2 rows | the remembered step is resumed and acknowledged | holds |
| `coverage` | 2 failures, 1 resolution, queue of 2, limit 1 | nothing is overlooked or starved but what this connection is known to have dropped; decisions stand, as in the abstract life of a decision | holds |
| `stuck_matching` | 1 failure, 1 resolution | `matching` is followed by a decision | violated |
| `durable` | 2 versions, 2 foreign commits | the acknowledged commit is durable and never regresses, nobody's commit is removed, every request is taken up | holds |
| `unpushed` | 2 versions | acknowledged means pushed | violated |
| `stuck_ingesting` | 1 version | `ingesting` is followed by an end of the ingestion | violated |
| `budgets` | 4 identifiers of sizes 1 to 5, all revocable, 2 searches, 2 reads, 5 turns | adversarial model within its bounds; nothing revoked is applied | holds |
| `solutions` | 5 solutions (queued, posted, unusable, with a command that is no string, not JSON), 2 seconds, any crashes | no acknowledged solution is lost, found failures have a file to propose from, the robot takes one recorded solution's commands in order, good messages get through | holds |

Where an inductive invariant or a refinement contains a property (the type
invariants, `ClaimedRowIsLinked`, `RefusalHasEvidence`, `NotSentNeverArrives`,
`AnswersAreTheRobots`, `ShaNeverRegresses`), the run checks the stronger one,
and the proofs draw the conclusion by name.

**Why the bounds are enough.** Two rows are what a race needs: one holds the
lock, the other attaches, waits or is coalesced; a third would only repeat the
second's part. Two attempts show the retry and the last attempt; that budgets
of any size behave alike is proved (section 5). One correction separates "before",
"between" and "after" dispatch. In `RobotSession` one command can hold the lock
while the other waits through a reconnect, and a history of one frame already
drops frames. The queue of two and the limit of one make both the full queue
and the cut-off happen with three signals. Two versions let a remembered
commit be behind the document, and two foreign commits let another writer come
in between pull and push twice, so that a checkout diverges for good. The Flows of `MCRecoveryPlan` contain shifted
indices, a duplicated index, a changed place, an edited commit and none; the
memories, a `$rerun`, rewinds of 0, 1 and one too many, and arguments
that disagree with their own evidence. In `RetrievalLoop` the corpora go from
empty through those read whole to those that exceed each budget in turn. The
specs of `MCActionSpec` differ in one respect or two: a default changed,
added, removed or unreadable, an enumeration, a type and its synonym, dotted
names against a declared object, an open object, a path inside another, a
confirmation, a download; one change is what can lie between two judgements of
one correction. In `LegacyService` two solutions of one failure can share a
second or not, which takes two seconds, and a crash can tear either file. One
solution has a command that always raises, one a line that is read as a command of
its own, one a heading that cuts off the rest.

**Size.** The larger runs have some 2.6 million distinct states (`attempts`),
980,000 (`coverage`), 390,000 (`continuations`), 260,000 (`solutions`) and 220,000
(`replay`).

**Deadlock** is checked, except in `RobotSession` and `ActionSpec`: in the first
all calls end, and connections and frames are bounded; in the second
connections and changes are bounded, so that a command can be left without a frame to be
judged by. These instances really stop.

**Fairness.** Coroutines that can run do run (asyncio is a fair scheduler);
awaits of RPCs, sends and waits end, because each has a timeout in the code or
in the client library; `asyncio.Lock` serves its waiters in order, hence strong
fairness of `AcquireLock` and `TakeLock`; the clock makes leases lapse; the
supervisor restarts the process. `ExpireLease` gets strong fairness:
reconciliation runs on a timer for ever, so that under recurring crashes and
failed passes one pass at last succeeds. In `MemoryIngestion` strong fairness is
assumed of every step, in favour of the code: the violations show
even so. In `LegacyService` the callback runs on once it has started, a poll loop whose
sleep is over gets its turn before the other one gets a second (`Wake`), the queue shows
every message again and again (`Receive`), and what may fail for a solution
does not go on failing for ever (`Mishap`). That the failures loop ever sleeps
does not follow from the code: while its queue shows messages it keeps the
thread, and `poll_solutions` does not run, although `INTEGRATION_GUIDE.md:92`
promises a poll every five seconds. `SolutionsEnd` therefore states this as its
premise, `FailuresPause`, instead of taking it into the fairness.
Nothing is assumed of robot, matcher, operator, connection quality or
the language model, other than that its call ends.

## 4. What the violated runs show

* `stuck_matching`: after the claim, a lost reply, an exception in `_store_for`
  (outside the `try`), a cancellation or a crash leaves the row in `matching`;
  reconciliation reads `pending` rows only.
* `unpushed`: two ways lead there. The source hash is compared with the working
  tree (`memory_store.py:497`), which may hold a text that no commit records;
  what is pushed and acknowledged then is the commit before it. And
  `_known_commit_shas` answers (`resolver.py:904`) for a document whose newest
  commit was not pushed, and the branch that would push is skipped.
* `stuck_ingesting`: a row left in `ingesting` by a lost reply, a cancellation or
  a crash counts as owned elsewhere for ever: startup and reconciliation, which
  the repository's README says make up for interrupted work, pass it over. A
  commit made before the interruption stays local unless another resolution's
  push takes it along.

In `unpushed` the acknowledged commit itself is still durable
(`AckedCommitIsDurable`): what is wrong is that it is not the newest version.
`IngestionSettles` and `RequestIsTakenUp` are the two halves of one promise: a
request is always taken up, also from a checkout that has diverged, but what
was taken up need not be settled.

One divergence of wording has no run. `classify_flow_outcome` also accepts a
success status *at* the failed step, where the stored message says the Flow
advanced *past* it; `SettledByObservation` therefore says "beyond the step, or
at rest in a success status".

The legacy documents disagree with the code in two more places, both part of the
model and neither with a run: `slide(forward, 1.5)` of `TEST_GUIDE.md:263` never
reaches the robot, while the rest of its solution does (`ExecuteCommand`), and the queue of
solutions is not polled every five seconds (`INTEGRATION_GUIDE.md:92`) while
failures keep coming (`FailuresPause`).

## 5. What is proved

All proofs are checked by TLAPS, for any constants that satisfy the modules'
assumptions.

*RecoveryCoordinatorProofs.* `CoordinatorInv` is inductive. `TypeOK` and the
properties are not: that a command is not repeated depends on the worker's place
(`Accounting` ties `phase` and `done` to `sent` and `resumes`), that only one
run owns the session on `Ownership`, that outcomes rest on frames on
`Evidence` (what the predicate has concluded is backed by `seen`), that
`timed_out` is reached in time on `Lifecycle`. The proof has one lemma per group
of actions and one for leaving the lock (`Releases`). From the invariant follow
`PlanIsSentOnce`, `OutcomesAreObserved`, `ClaimsAreForLinkedRows`, the action
property `RetriesNeedRecurrence`, and
`ImplementsLedger`: every step is a step of the ledger or leaves it alone. What
the ledger forbids the coordinator therefore never does
(`SettledSessionsStaySettled`).

`RecoveryInv`, which the run checks, adds what the process keeps in memory.
`TaskInv`: one failure has the lock exactly while the program counter is past
its acquisition, a coalesced notification belongs to a row with a task, and
pending rows stay within `_MAX_PENDING_FAILURES`; this last one counts a set,
with the library's facts on cardinality. `FrameInv`: what the lock holder
validated is the newest frame of the present connection as long as it counts as
current. `AllAcknowledged`: past the continuation every correction was
acknowledged. From it follow that a command leaves only under the newest claim,
over a live connection, paused, with a spec that validates
(`CommandsNeedNewestClaim`), that an attempt counts as accepted only after all
its acknowledgements (`AcceptedAfterAcknowledgements`), and that a coalesced
notification is dropped only by a restart or by the execution that replays it
(`NotificationsAreNotForgotten`), which is the safety part of
`NotificationReplayed`.
Assumed: the budget is at least one, plans are finite, the rows' sentinel is no
row.

*FailureMatcherProofs.* `TypeOK`, `PendingIsCovered` and `SuggestionIsAnnounced`
are inductive together. The argument: subscribing precedes reading, so a row
that becomes claimable after the read has a signal on its way; apart from the
drops in `lost`, only the worker takes a signal away, and what it has in hand
before the claim counts. Of suggestions `reconcile` announces as many as its
limit allows. That the code loses signals in an outage, a full queue or at a
limit is not contradicted but named: the invariants say that these are the only
ways, and that no connection inherits them from the one before.
`ImplementsDecision` has one step per action: the guarded updates of a row are
exactly the moves of `FailureDecision`, and a new connection owes its announcements again. `DecisionsAreFinal` draws the
consequence for the rows.

*MemoryIngestionProofs.* `IngestionInv` adds to the types where each commit that
can still reach the row has been (`Provenance`: at the remote, or at the end of
the checkout while the thread is about to push) and that none of them is older
than the row's (`Succession`). With it, `ImplementsDurableMemory`: a push is
refused unless the remote is a prefix of what is pushed, and no step shortens
the remote (`RemoteOnlyGrows`).

*RetrievalLoopProofs.* `LoopInv` is inductive: read documents were discovered,
and what the corpus still has of the revoked was revoked late
(`RevokedMemoriesAreNotApplied`). `BudgetsAreKept` needs the characters of a
set of documents, a sum. `Total` counts them: `Characters(S)` is the set of
pairs of a document and a place in it, so that disjoint reads add up by the
cardinality of unions (`TotalAddsUp`) and no fold has to be reasoned about.
`BudgetsHold` says both what is within the budgets and that `chars` counts
what was read; with `LoopInv` it is inductive. `LoopRunsDown` gives the
measure that each step but a revocation makes smaller, the argument behind
`RetrievalEnds`.

*RobotSessionProofs.* `SessionInv` is inductive. `CallsAndCommands` ties what
reached the robot to the place of its call; `AnswersAreTrue` follows an answer
from the socket through the future to the result; `FramesFollow` says that what
comes after an answer, in the socket and then in the history, was published
after it, which is why a frame newer than the acknowledgement's revision is an
outcome. `ImplementsCommand` rests on `CallsAndCommands`: a command reported as
not sent was never received, and the lock's holder is the only one that sends.
`OutcomesAreFinal` is what a caller may conclude: what it was told stays true.
Lemmas on appending to the socket and on dropping from the full history come
first.

*LegacyServiceProofs.* `LegacyInv` adds to the types that recorded files belong
to their failures (`FilesAreRecorded`), that the solution in hand owns the newest file
of its failure (`InHand`), and that an empty newest file has an owner who will
come back (`EmptyIsRetried`), and that an execution was given one valid file's commands and
carries them out in order (`GivenOne`). `SolutionsAreStored`, `FoundIsProposable` and
`OneSolution` follow; the second needs that a failure with files has a
newest one (`Latest`, by well-foundedness of the numbers). Assumed: the text
that stands for no commands is not a known command, and a command has a line.

*RecoveryPlanProofs.* `StrongerInvariant` follows a plan through its life: the
row's plan is the bound form of its memory, the session's plan was the plan of
a row of the same step and bound to some version of its Flow, what was sent was
validated against the view, in the guards it carries, and an accepted reply names the view's step.
`ContinuationsAreRemembered`, `AcceptedResumesAreRemembered`, `BoundPlansExecute`
and `InvariantHolds` follow. Assumed: where a Flow has a commit, identity and
commit determine its actions.

*ActionSpecProofs.* `ReplayInv` is inductive: the record of what the
operator gave explicitly is about the record's own arguments, what left passed
the judgement by the frame it was judged by, and what the robot ran with are
those arguments and the defaults of the spec it then had. Therefore a
correction runs as it was recorded if the robot's spec has not changed since
(`CorrectionsRunAsRecorded`: `_validate_action_provenance` compared the same
arguments and defaults), and never downloads a model
(`DownloadsAreAttended`); both hold whatever the validator accepts and whatever
equality of values is. `JudgementsAreRight` needs more, and states it as
hypotheses: `ValidatorAgrees`, that `Valid` accepts exactly the described
arguments, and `EqualityAgrees`, that `Equal` compares objects name by name and
finds a value equal to itself, both for the arguments of remembered corrections only. The theorem says that
time, reconnects and changing specs add no error to theirs.

**Model-checked only.** Everything temporal under fairness
(`LockReleased`, `LedgerPromise`, `NotificationReplayed`, `CallsEnd`,
`PendingIsClaimed`, `RequestIsTakenUp`, `RetrievalEnds`, `SolutionsEnd`):
liveness and ENABLED are out of the prover's reach. Their safety parts are
theorems where they have one (`NotificationsAreNotForgotten`, `LoopRunsDown`,
`ImplementsLedger`). And the two hypotheses of `JudgementsAreRight` for the
operators of `JsonSchema`: values and schemas nest, and recursive operators and
induction over data are out of reach. The run `replay` checks
`JudgedRightly` with those operators, on every spec and correction of its
instance.

## 6. What is not modelled

* In `ActionSpec`: specs that are malformed (the code refuses them like
  unsuitable ones), inputs inside an object that have defaults of their own, and
  several corrections of one plan (each is judged alone). That the robot fills
  in its own placeholders is assumed. A record without effective arguments is
  accepted only if the live spec has no defaults, which `JudgedRightly` names
  as its exception. In `RecoveryCoordinator` the verdict is an input (`spec`)
  that can change with any frame.
* Lease length against the worst-case duration of an attempt: leases may lapse
  at any time, which covers every setting.
* Ranking, snippets, prompts, the Markdown and hashing of memory documents, evidence
  projection: data, abstracted to identities and versions.
* Several robots in one coordinator (they share only the database), the main
  and the dev memory branch (two independent instances).
* The cap of retries and of back-off delays: fairness stands for them.
* In `JsonSchema`: numbers are whole, so that an exclusive bound is the next
  inclusive one, and `SameJson` is exact where the code compares floats.
* In the legacy service: the contents of the queue of failures (its messages store nothing;
  that it keeps the thread is modelled), `send_result`,
  and what an answer of the robot's API looks like.
* HTTP endpoints, settings parsing, deployment.

## 7. Plan

Done: the seven detailed modules of the first plan (coordinator and ledger,
ingestion, matcher, retrieval, robot session, continuation); then the judgement
of corrections, the legacy service, cancellation in the robot session,
revocation in retrieval, the abstract specifications `RobotCommand`,
`FailureDecision` and `DurableMemory` with their refinements, the proofs of
the robot session and of the legacy service, those of the judgement of
corrections and of the retrieval budgets, and the coordinator's tasks, frames
and acknowledgements. Every safety property that a run expects to hold is
now a theorem, `JudgedRightly` under its hypotheses.

The runs are few and each asks several questions of one instance; new
components are to replace or extend runs rather than add one per property.

What is left:

1. A composition of `RobotSession` and `RecoveryCoordinator`: the receipt and
   the frames that the coordinator assumes, derived from the session (that a
   frame can fall out of the history is in the coordinator's model already).
   `RobotCommand` is what the
   coordinator's dispatch would be composed with.
2. The memory branches of `FailureMatcher`: a failure of a dev robot is matched
   with the dev branch, and a lost checkout in one of them.
3. The projection of evidence into a memory document, as far as it decides
   which demonstrations become corrections.
4. Proofs: measures like that of `LoopRunsDown`, for an attempt of the
   coordinator and for a call of the session.
