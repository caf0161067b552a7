--------------------- MODULE RecoveryCoordinatorProofs ---------------------
(***************************************************************************)
(* Machine-checked safety of RecoveryCoordinator for every number of       *)
(* failure rows, every plan and every attempt budget.                      *)
(***************************************************************************)
EXTENDS RecoveryCoordinator, FiniteSetTheorems, TLAPS

-----------------------------------------------------------------------------
(* The pure parts of the outcome predicate.                                *)

\* A verdict stays a verdict, and every result is one of the known ones.
LEMMA ObserveType ==
  ASSUME NEW w \in Watches, NEW frame \in FlowFrames
  PROVE  Observe(w, frame) \in Watches
BY DEF Observe, Decisive, Classify, Watches, Verdicts, FlowFrames

\* Before the acknowledgement is handled the predicate sees nothing.
LEMMA ObserveOff ==
  ASSUME NEW frame \in FlowFrames
  PROVE  Observe("off", frame) = "off"
BY DEF Observe

\* What the robot showed is only ever added to.
LEMMA LearnKeeps ==
  ASSUME NEW facts \in SUBSET Facts, NEW frame \in FlowFrames
  PROVE  facts \subseteq Learn(facts, frame) /\ Learn(facts, frame) \subseteq Facts
BY DEF Learn, Facts

\* A frame that changes the verdict is itself the evidence for it.
LEMMA ObserveJustified ==
  ASSUME NEW w \in Watches, NEW frame \in FlowFrames,
         NEW facts \in SUBSET Facts,
         w = "started" => "ran" \in facts,
         w = "failed" => "recurred" \in facts,
         w = "recovered" => facts \cap {"advanced", "rested"} # {}
  PROVE  /\ Observe(w, frame) = "started" => "ran" \in Learn(facts, frame)
         /\ Observe(w, frame) = "failed" => "recurred" \in Learn(facts, frame)
         /\ Observe(w, frame) = "recovered" =>
              Learn(facts, frame) \cap {"advanced", "rested"} # {}
BY DEF Observe, Decisive, Classify, Watches, Verdicts, FlowFrames, Learn, Facts

-----------------------------------------------------------------------------
(* Steps fall into few kinds by what they leave alone.  The part of the    *)
(* invariant that speaks of the durable session alone is kept apart.       *)

SessionInv ==
  /\ SessionTypeOK /\ Lifecycle
  /\ PlanThenOneContinuation /\ SettledByObservation

\* A step that leaves the session and the evidence alone keeps that part.
LEMMA SessionUntouched ==
  ASSUME CoordinatorInv, UNCHANGED <<ledger, seen>>
  PROVE  SessionInv'
BY DEF CoordinatorInv, TypeOK, SessionInv, ledger, SessionTypeOK, Lifecycle,
       PlanThenOneContinuation, SettledByObservation, Active

\* Nothing the invariant says depends on the tasks outside the lock.
LEMMA OnlyTasksChange ==
  ASSUME CoordinatorInv, TaskTypeOK',
         UNCHANGED <<ledger, rows, worker, robot, seen>>
  PROVE  CoordinatorInv'
BY SessionUntouched
   DEF CoordinatorInv, TypeOK, ledger, rows, worker, robot, SessionInv,
       RowTypeOK, WorkerTypeOK, RobotTypeOK, Ownership, Accounting, Evidence,
       RowBinding, ClaimedRowIsLinked, VerdictAtClose

\* A finished task leaves a well-typed task table.
LEMMA EndTaskType ==
  ASSUME CoordinatorInv, NEW f, EndTask(f)
  PROVE  TaskTypeOK'
BY DEF CoordinatorInv, TypeOK, TaskTypeOK, EndTask, TaskStates

\* The holder of the lock is gone: nothing is owned, whatever became of the
\* session meanwhile.
HolderGone ==
  /\ phase' = "idle" /\ job' = NoFailure /\ cur' = NoFailure
  /\ tok' = 0 /\ done' = 0 /\ held' = "none" /\ watch' = "off"

\* Whoever leaves _execute_target gives up the lock and the registration.
LEMMA HolderLeaves ==
  ASSUME CoordinatorInv, HolderGone, SessionInv',
         RowTypeOK', TaskTypeOK', RobotTypeOK',
         attempts' >= attempts, UNCHANGED <<sent, resumes, seen>>
  PROVE  CoordinatorInv'
<1> USE CoordinatorAssumption DEF CoordinatorInv, TypeOK
<1>1. WorkerTypeOK'
  BY DEF HolderGone, WorkerTypeOK, Phases, Watches, Verdicts
<1>2. /\ Ownership' /\ Evidence' /\ RowBinding' /\ ClaimedRowIsLinked'
      /\ VerdictAtClose'
  BY DEF HolderGone, Ownership, Evidence, RowBinding, ClaimedRowIsLinked,
         VerdictAtClose, Owning, InLoop
<1>3. Accounting'
  BY DEF HolderGone, Accounting, SessionInv, SessionTypeOK, Attempts
<1> QED BY <1>1, <1>2, <1>3 DEF SessionInv

\* The holder leaves, and nothing but the rows changed with it.
LEMMA Releases ==
  ASSUME CoordinatorInv, Release, UNCHANGED <<ledger, robot, seen>>,
         \/ UNCHANGED rows
         \/ RowTypeOK'
  PROVE  CoordinatorInv'
<1>1. RowTypeOK' /\ RobotTypeOK'
  BY DEF CoordinatorInv, TypeOK, rows, robot, RowTypeOK, RobotTypeOK
<1>2. TaskTypeOK' /\ HolderGone
  BY EndTaskType DEF Release, HolderGone
<1>3. attempts' >= attempts /\ UNCHANGED <<sent, resumes, seen>>
  BY DEF CoordinatorInv, TypeOK, SessionTypeOK, ledger
<1> QED BY <1>1, <1>2, <1>3, SessionUntouched, HolderLeaves

\* The row is taken back from the matcher.
LEMMA NonExecutableReleases ==
  ASSUME CoordinatorInv, MarkNonExecutable
  PROVE  CoordinatorInv'
<1>1. RowTypeOK'
  BY DEF CoordinatorInv, TypeOK, RowTypeOK, MarkNonExecutable
<1> QED BY <1>1, Releases DEF MarkNonExecutable

\* The holder moves on before it has claimed anything.
LEMMA HolderPrepares ==
  ASSUME CoordinatorInv, SessionInv', RowTypeOK',
         UNCHANGED <<attempts, sent, resumes, tasks, robot, seen>>,
         UNCHANGED <<job, tok, done, watch>>,
         phase \in Phases \ (Owning \cup {"idle"}),
         phase' \in Phases \ (Owning \cup {"idle"}),
         phase' \in {"prepared", "grace"} => job \in linked',
         phase' = "check" => cur' \in linked',
         cur' \in {cur, job},
         held' \in {"none", "current", "stale", "lost"}
  PROVE  CoordinatorInv'
<1> USE DEF CoordinatorInv, TypeOK
<1>1. WorkerTypeOK' /\ TaskTypeOK' /\ RobotTypeOK'
  BY DEF WorkerTypeOK, TaskTypeOK, RobotTypeOK, tasks, robot
<1>2. Ownership' /\ RowBinding' /\ ClaimedRowIsLinked' /\ VerdictAtClose'
  BY DEF Ownership, RowBinding, ClaimedRowIsLinked, VerdictAtClose, Owning,
         InLoop
<1>3. Accounting'
  BY DEF Accounting, Owning, Attempts
<1>4. Evidence'
  BY DEF Evidence, Ownership, Owning
<1> QED BY <1>1, <1>2, <1>3, <1>4 DEF SessionInv

\* A finish call raised: whatever became of the session, the holder gives the
\* attempt up or is gone.
LEMMA FinishRaisesPreserves ==
  ASSUME CoordinatorInv, phase \in {"accept", "close"}, FinishRaises, SessionInv',
         UNCHANGED <<attempts, pinned, sent, resumes, rows, robot, seen>>
  PROVE  CoordinatorInv'
<1> USE DEF CoordinatorInv, TypeOK
<1>1. RowTypeOK' /\ RobotTypeOK'
  BY DEF rows, robot, RowTypeOK, RobotTypeOK
<1>2. CASE Release
  BY <1>1, <1>2, EndTaskType, HolderLeaves DEF Release, HolderGone, SessionTypeOK
<1>3. CASE Goto("abort") /\ UNCHANGED <<job, cur, tok, done, held, watch>>
  <2>1. TaskTypeOK' /\ WorkerTypeOK'
    BY <1>3 DEF Goto, tasks, TaskTypeOK, WorkerTypeOK, Phases, InLoop, Owning
  <2>2. /\ Ownership' /\ Accounting' /\ Evidence' /\ RowBinding'
        /\ ClaimedRowIsLinked' /\ VerdictAtClose'
    BY <1>3 DEF Goto, rows, Ownership, Accounting, Evidence, RowBinding,
                ClaimedRowIsLinked, VerdictAtClose, InLoop, Owning
  <2> QED BY <1>1, <2>1, <2>2 DEF SessionInv
<1> QED BY <1>2, <1>3 DEF FinishRaises

\* An answer the finish RPC accepts: a failed or recovered session rests on
\* what was seen, and the last failed attempt exhausts the budget.
LEMMA FinishSound ==
  ASSUME CoordinatorInv, NEW k \in Attempts,
         NEW result \in {"awaiting_outcome", "recovered", "failed", "unknown"},
         FinishEffect(k, result), UNCHANGED seen,
         result = "failed" => "recurred" \in seen,
         result = "recovered" => seen \cap {"advanced", "rested"} # {}
  PROVE  SessionInv'
<1> USE CoordinatorAssumption
       DEF CoordinatorInv, TypeOK, SessionInv, FinishEffect, Holds, Active
<1>1. SessionTypeOK'
  BY DEF SessionTypeOK, Statuses, Terminal
<1>2. Lifecycle'
  BY DEF Lifecycle, SessionTypeOK, Attempts
<1>3. PlanThenOneContinuation' /\ SettledByObservation'
  BY DEF PlanThenOneContinuation, SettledByObservation
<1> QED BY <1>1, <1>2, <1>3

-----------------------------------------------------------------------------
(* Every step preserves the invariant: one step per action.                *)

\* Kept by notification and by the tasks that do not hold the lock.
LEMMA TaskStepsPreserve ==
  ASSUME CoordinatorInv, NEW f \in Failures,
         Notify(f) \/ ColdCandidate(f) \/ Task(f)
  PROVE  CoordinatorInv'
<1> USE DEF CoordinatorInv, TypeOK
<1>1. CASE Notify(f) \/ ColdCandidate(f)
  <2>1. TaskTypeOK'
    BY <1>1 DEF Notify, ColdCandidate, TaskTypeOK, TaskStates
  <2> QED BY <1>1, <2>1, OnlyTasksChange DEF Notify, ColdCandidate
<1>2. CASE FirstRead(f)
  <2>1. TaskTypeOK'
    BY <1>2 DEF FirstRead, TaskTypeOK, TaskStates
  <2> QED BY <1>2, <2>1, OnlyTasksChange DEF FirstRead
<1>3. CASE FirstReadFails(f) \/ SkipIneligible(f)
  BY <1>3, EndTaskType, OnlyTasksChange DEF FirstReadFails, SkipIneligible
<1>4. CASE AwaitLock(f)
  <2>1. TaskTypeOK'
    BY <1>4 DEF AwaitLock, TaskTypeOK, TaskStates
  <2> QED BY <1>4, <2>1, OnlyTasksChange DEF AwaitLock
<1>5. CASE AttachRecurrence(f)
  <2> USE <1>5 DEF AttachRecurrence
  <2>1. SessionInv' /\ TaskTypeOK' /\ RobotTypeOK'
    BY SessionUntouched, EndTaskType DEF robot, RobotTypeOK
  <2>2. RowTypeOK' /\ WorkerTypeOK'
    BY DEF RowTypeOK, WorkerTypeOK
  <2>3. RowBinding' /\ ClaimedRowIsLinked' /\ VerdictAtClose'
    BY DEF RowBinding, ClaimedRowIsLinked, VerdictAtClose
  <2>4. Ownership' /\ Accounting' /\ Evidence'
    BY DEF ledger, Ownership, Accounting, Evidence
  <2> QED BY <2>1, <2>2, <2>3, <2>4 DEF SessionInv
<1>6. CASE AcquireLock(f)
  <2> USE <1>6 DEF AcquireLock
  <2>1. SessionInv' /\ RobotTypeOK' /\ RowTypeOK'
    BY SessionUntouched DEF rows, robot, RobotTypeOK, RowTypeOK
  <2>2. TaskTypeOK' /\ WorkerTypeOK'
    BY DEF TaskTypeOK, TaskStates, WorkerTypeOK, Phases
  <2>3. /\ RowBinding' /\ ClaimedRowIsLinked' /\ VerdictAtClose'
        /\ Ownership' /\ Accounting' /\ Evidence'
    BY DEF ledger, rows, VerdictAtClose, RowBinding, ClaimedRowIsLinked, InLoop, Owning,
           Ownership, Accounting, Evidence
  <2> QED BY <2>1, <2>2, <2>3 DEF SessionInv
<1> QED BY <1>1, <1>2, <1>3, <1>4, <1>5, <1>6 DEF Task

\* Preparing a session pins the plan before anything was sent.
LEMMA PrepareSound ==
  ASSUME CoordinatorInv, NEW f \in Failures, PrepareEffect(f), UNCHANGED seen
  PROVE  SessionInv' /\ RowTypeOK' /\ UNCHANGED <<attempts, sent, resumes>>
<1> USE CoordinatorAssumption DEF CoordinatorInv, TypeOK, PrepareEffect
<1>1. SessionTypeOK' /\ RowTypeOK'
  BY DEF SessionTypeOK, RowTypeOK, Statuses
<1>2. Lifecycle' /\ SettledByObservation'
  BY DEF Lifecycle, SettledByObservation
<1>3. PlanThenOneContinuation'
  <2>1. CASE status = "none"
    BY <2>1 DEF PlanThenOneContinuation, Lifecycle, Accounting, SessionTypeOK,
                Attempts
  <2>2. CASE status # "none"
    BY <2>2 DEF PlanThenOneContinuation
  <2> QED BY <2>1, <2>2
<1> QED BY <1>1, <1>2, <1>3 DEF SessionInv

\* Kept by the lock holder up to its claim.
LEMMA PreparationPreserves ==
  ASSUME CoordinatorInv,
         \/ Reread \/ TakePointer \/ TakeCommands \/ WaitTimesOut
         \/ RefuseDispatch \/ RejectPlan \/ Prepare \/ BeginGrace \/ EndGrace
  PROVE  CoordinatorInv'
<1> USE DEF CoordinatorInv, TypeOK
<1>1. CASE \/ WaitTimesOut
           \/ RefuseDispatch
           \/ RejectPlan
  BY <1>1, Releases, NonExecutableReleases
     DEF WaitTimesOut, RefuseDispatch, RejectPlan
<1>2. CASE Reread \/ TakePointer \/ TakeCommands
  <2>1. CASE UNCHANGED <<ledger, rows, robot, seen>> /\ Release
    BY <2>1, Releases
  <2>2. CASE phase \in {"reread", "pointer", "commands"} /\ ~ Release
    <3>1. SessionInv' /\ RowTypeOK' /\ UNCHANGED <<attempts, sent, resumes>>
      BY <1>2, SessionUntouched
         DEF Reread, TakePointer, TakeCommands, ledger, rows, RowTypeOK
    <3>2. UNCHANGED <<tasks, robot, seen, job, cur, tok, done, watch>>
      BY <1>2, <2>2 DEF Reread, TakePointer, TakeCommands, Goto
    <3>3. /\ phase' \in {"pointer", "commands", "prepare"}
          /\ held' \in {"none", "current", "stale", "lost"}
      BY <1>2, <2>2
         DEF Reread, TakePointer, TakeCommands, Goto, WorkerTypeOK
    <3> QED BY <2>2, <3>1, <3>2, <3>3, HolderPrepares DEF Phases, Owning, InLoop
  <2> QED BY <1>2, <2>1, <2>2 DEF Reread, TakePointer, TakeCommands
<1>3. CASE Prepare
  <2>1. CASE UNCHANGED <<ledger, rows>> /\ Release
    BY <1>3, <2>1, Releases DEF Prepare
  <2>2. CASE PrepareEffect(job)
    <3>1. SessionInv' /\ RowTypeOK' /\ UNCHANGED <<attempts, sent, resumes>>
      BY <1>3, <2>2, PrepareSound DEF Prepare, RowBinding
    <3>2. CASE Release
      <4>1. HolderGone /\ TaskTypeOK' /\ RobotTypeOK'
        BY <1>3, <3>2, EndTaskType
           DEF Release, HolderGone, Prepare, robot, RobotTypeOK
      <4> QED BY <1>3, <3>1, <4>1, HolderLeaves DEF Prepare, SessionTypeOK
    <3>3. CASE Goto("prepared") /\ UNCHANGED <<job, cur, tok, done, held, watch>>
      <4>1. job \in linked' /\ held' \in {"none", "current", "stale", "lost"}
        BY <2>2, <3>3 DEF PrepareEffect, WorkerTypeOK
      <4> QED BY <1>3, <3>1, <3>3, <4>1, HolderPrepares
              DEF Prepare, Goto, Phases, Owning, InLoop
    <3> QED BY <1>3, <2>2, <3>2, <3>3 DEF Prepare
  <2> QED BY <1>3, <2>1, <2>2 DEF Prepare
<1>4. CASE BeginGrace \/ EndGrace
  <2>1. CASE Release
    BY <1>4, <2>1, Releases DEF BeginGrace, EndGrace, Release, Goto
  <2>2. CASE ~ Release
    <3>1. SessionInv' /\ RowTypeOK' /\ UNCHANGED <<attempts, sent, resumes>>
      BY <1>4, SessionUntouched DEF BeginGrace, EndGrace, ledger, rows, RowTypeOK
    <3>2. /\ UNCHANGED <<tasks, robot, seen, job, tok, done, held, watch>>
          /\ phase \in {"prepared", "grace"} /\ UNCHANGED linked
      BY <1>4, <2>2 DEF BeginGrace, EndGrace, Goto, rows
    <3>3. \/ phase' = "grace" /\ UNCHANGED cur
          \/ phase' = "check" /\ cur' = job
      BY <1>4, <2>2 DEF BeginGrace, EndGrace, Goto
    <3> QED BY <3>1, <3>2, <3>3, HolderPrepares
            DEF Phases, Owning, InLoop, RowBinding, WorkerTypeOK
  <2> QED BY <2>1, <2>2
<1> QED BY <1>1, <1>2, <1>3, <1>4

\* The verdict the lock holder reports rests on what was seen.
LEMMA VerdictSound ==
  ASSUME CoordinatorInv, phase = "close", FinishEffect(tok, watch),
         UNCHANGED seen
  PROVE  SessionInv' /\ UNCHANGED <<attempts, pinned, sent, resumes>>
<1>1. tok \in Attempts /\ status \in {"running", "awaiting_outcome"}
  BY DEF CoordinatorInv, Ownership, Owning, FinishEffect, Holds, Active
<1>2. watch \in {"recovered", "failed", "unknown"}
  BY DEF CoordinatorInv, VerdictAtClose, Verdicts
<1> QED BY <1>1, <1>2, FinishSound DEF CoordinatorInv, Evidence, FinishEffect

\* Kept by the claim and by every step under the claimed attempt.
LEMMA AttemptStepsPreserve ==
  ASSUME CoordinatorInv,
         \/ Claim \/ AcceptClaim \/ SendCorrection \/ SendResume
         \/ CorrectionAcknowledged \/ ResumeAcknowledged \/ AbandonAttempt
         \/ ReportAccepted \/ OutcomeObserved \/ ReportOutcome \/ ReportUnknown
  PROVE  CoordinatorInv'
<1> USE CoordinatorAssumption DEF CoordinatorInv, TypeOK
<1>1. CASE Claim
  <2>1. CASE UNCHANGED <<ledger, rows>> /\ Release
    BY <1>1, <2>1, Releases DEF Claim
  <2>2. CASE ClaimEffect /\ linked' = linked \cup {cur} /\ UNCHANGED matcher
    <3>1. RowTypeOK' /\ RobotTypeOK'
      BY <1>1, <2>2
         DEF Claim, RowTypeOK, RobotTypeOK, robot, ClaimedRowIsLinked, InLoop
    <3>2. attempts \in Nat /\ attempts' = attempts + 1 /\ attempts' \in Attempts
      BY <2>2 DEF ClaimEffect, SessionTypeOK, Lifecycle, Attempts
    <3>3. SessionInv'
      <4>1. SessionTypeOK'
        <5>1. attempts' \in 0 .. MaxAttempts
          BY <3>2 DEF Attempts
        <5>2. status' \in Statuses
          BY <2>2 DEF ClaimEffect, Statuses, Active
        <5>3. lapsed' \in BOOLEAN
          BY <2>2 DEF ClaimEffect
        <5>4. UNCHANGED <<pinned, sent, resumes>>
          BY <2>2 DEF ClaimEffect
        <5> QED BY <5>1, <5>2, <5>3, <5>4 DEF SessionTypeOK
      <4>2. Lifecycle' /\ SettledByObservation' /\ PlanThenOneContinuation'
        BY <2>2 DEF ClaimEffect, Lifecycle, SettledByObservation,
                    PlanThenOneContinuation
      <4> QED BY <4>1, <4>2 DEF SessionInv
    <3>4. UNCHANGED <<sent, resumes, seen>>
      BY <1>1, <2>2 DEF Claim, ClaimEffect
    <3>5. CASE Release
      <4>1. HolderGone /\ TaskTypeOK'
        BY <3>5, EndTaskType DEF Release, HolderGone
      <4> QED BY <3>1, <3>2, <3>3, <3>4, <4>1, HolderLeaves
    <3>6. CASE /\ Goto("claimed") /\ tok' = attempts' /\ done' = 0
               /\ UNCHANGED <<job, cur, held, watch>>
      <4>1. TaskTypeOK' /\ WorkerTypeOK'
        BY <3>2, <3>6
           DEF Goto, tasks, TaskTypeOK, WorkerTypeOK, Phases, InLoop, Owning,
               Attempts
      <4>2. /\ Ownership' /\ RowBinding' /\ ClaimedRowIsLinked'
            /\ VerdictAtClose'
        BY <1>1, <2>2, <3>2, <3>6
           DEF Claim, ClaimEffect, Goto, Ownership, Owning, RowBinding,
               ClaimedRowIsLinked, VerdictAtClose, InLoop
      <4>3. Accounting'
        BY <2>2, <3>2, <3>4, <3>6
           DEF ClaimEffect, Goto, Accounting, SessionTypeOK, Attempts
      <4>4. Evidence'
        BY <1>1, <2>2, <3>2, <3>4, <3>6
           DEF Claim, ClaimEffect, Goto, Evidence, Ownership, Lifecycle,
               SettledByObservation
      <4> QED BY <3>1, <3>3, <4>1, <4>2, <4>3, <4>4 DEF SessionInv
    <3> QED BY <1>1, <2>2, <3>5, <3>6 DEF Claim
  <2> QED BY <1>1, <2>1, <2>2 DEF Claim
<1>2. CASE AcceptClaim \/ OutcomeObserved \/ AbandonAttempt
  <2>1. CASE Release /\ UNCHANGED <<ledger, rows, robot, seen>>
    BY <2>1, Releases
  <2>2. CASE /\ UNCHANGED <<ledger, rows, tasks, robot, seen>>
             /\ UNCHANGED <<job, cur, tok, done, held, watch>>
             /\ phase \in Owning /\ phase' \in {"execute", "abort", "close"}
             /\ phase' = "execute" => phase = "claimed"
             /\ phase' = "close" => phase = "watch" /\ watch \in Verdicts
    <3>1. SessionInv' /\ RowTypeOK' /\ TaskTypeOK' /\ RobotTypeOK'
      BY <2>2, SessionUntouched
         DEF rows, tasks, robot, RowTypeOK, TaskTypeOK, RobotTypeOK
    <3>2. WorkerTypeOK' /\ RowBinding' /\ ClaimedRowIsLinked'
      BY <2>2 DEF WorkerTypeOK, Phases, InLoop, Owning, RowBinding,
                  ClaimedRowIsLinked, rows
    <3>3. Ownership' /\ Accounting' /\ Evidence' /\ VerdictAtClose'
      BY <2>2 DEF Ownership, Accounting, Evidence, Owning, ledger, VerdictAtClose
    <3> QED BY <3>1, <3>2, <3>3 DEF SessionInv
  <2> QED BY <1>2, <2>1, <2>2
          DEF AcceptClaim, OutcomeObserved, AbandonAttempt, Goto, Owning, Verdicts
<1>3. CASE SendCorrection
  <2> USE <1>3 DEF SendCorrection, Goto
  <2>1. tok \in Attempts /\ tok = attempts /\ done \in Nat
    BY DEF Ownership, Owning, WorkerTypeOK
  <2>2. SessionInv'
    BY <2>1 DEF SessionInv, SessionTypeOK, Lifecycle, PlanThenOneContinuation,
                SettledByObservation, Accounting, Ownership
  <2>3. RowTypeOK' /\ TaskTypeOK' /\ RobotTypeOK' /\ WorkerTypeOK'
    BY DEF rows, tasks, robot, RowTypeOK, TaskTypeOK, RobotTypeOK, WorkerTypeOK,
           Phases, InLoop, Owning
  <2>4. Ownership' /\ RowBinding' /\ ClaimedRowIsLinked' /\ Evidence'
    BY DEF rows, Ownership, RowBinding, ClaimedRowIsLinked, Evidence, InLoop,
           Owning
  <2>5. Accounting'
    BY <2>1 DEF Accounting, SessionTypeOK, Attempts
  <2> QED BY <2>2, <2>3, <2>4, <2>5 DEF SessionInv, VerdictAtClose
<1>4. CASE SendResume
  <2> USE <1>4 DEF SendResume, Goto
  <2>1. tok \in Attempts /\ tok = attempts /\ done \in Nat
    BY DEF Ownership, Owning, WorkerTypeOK
  <2>2. SessionInv'
    BY <2>1 DEF SessionInv, SessionTypeOK, Lifecycle, PlanThenOneContinuation,
                SettledByObservation, Accounting, Ownership
  <2>3. RowTypeOK' /\ TaskTypeOK' /\ RobotTypeOK' /\ WorkerTypeOK'
    BY DEF rows, tasks, robot, RowTypeOK, TaskTypeOK, RobotTypeOK, WorkerTypeOK,
           Phases, InLoop, Owning
  <2>4. Ownership' /\ RowBinding' /\ ClaimedRowIsLinked' /\ Evidence'
    BY DEF rows, Ownership, RowBinding, ClaimedRowIsLinked, Evidence, InLoop,
           Owning
  <2>5. Accounting'
    BY <2>1 DEF Accounting, SessionTypeOK, Attempts
  <2> QED BY <2>2, <2>3, <2>4, <2>5 DEF SessionInv, VerdictAtClose
<1>5. CASE CorrectionAcknowledged \/ ResumeAcknowledged
  <2> USE <1>5 DEF CorrectionAcknowledged, ResumeAcknowledged, Goto
  <2>1. SessionInv' /\ RowTypeOK' /\ TaskTypeOK' /\ RobotTypeOK'
    BY SessionUntouched
       DEF rows, tasks, robot, RowTypeOK, TaskTypeOK, RobotTypeOK
  <2>2. WorkerTypeOK' /\ RowBinding' /\ ClaimedRowIsLinked' /\ VerdictAtClose'
    BY DEF rows, WorkerTypeOK, RowBinding, ClaimedRowIsLinked, Phases, InLoop,
           Owning, Watches, Verdicts, VerdictAtClose
  <2>3. Ownership' /\ Accounting' /\ Evidence'
    BY DEF ledger, Ownership, Accounting, Evidence, Owning, WorkerTypeOK,
           SessionTypeOK, Attempts
  <2> QED BY <2>1, <2>2, <2>3 DEF SessionInv
<1>6. CASE ReportAccepted
  <2>1. CASE FinishRaises /\ UNCHANGED ledger
    BY <1>6, <2>1, SessionUntouched, FinishRaisesPreserves
       DEF ReportAccepted, ledger
  <2>2. CASE FinishEffect(tok, "awaiting_outcome")
    <3>1. tok \in Attempts
      BY <1>6 DEF ReportAccepted, Ownership, Owning
    <3>2. /\ SessionInv' /\ UNCHANGED <<attempts, pinned, sent, resumes, seen>>
          /\ status' = "awaiting_outcome"
      BY <1>6, <2>2, <3>1, FinishSound DEF ReportAccepted, FinishEffect
    <3>3. RowTypeOK' /\ RobotTypeOK'
      BY <1>6 DEF ReportAccepted, rows, robot, RowTypeOK, RobotTypeOK
    <3>4. CASE FinishRaises
      BY <1>6, <3>2, <3>4, FinishRaisesPreserves DEF ReportAccepted
    <3>5. CASE Goto("watch") /\ UNCHANGED <<job, cur, tok, done, held, watch>>
      <4>1. TaskTypeOK' /\ WorkerTypeOK'
        BY <3>5 DEF Goto, tasks, TaskTypeOK, WorkerTypeOK, Phases, InLoop, Owning
      <4>2. RowBinding' /\ ClaimedRowIsLinked' /\ Evidence' /\ VerdictAtClose'
        BY <1>6, <3>2, <3>5
           DEF ReportAccepted, Goto, rows, RowBinding, ClaimedRowIsLinked,
               Evidence, InLoop, Owning, VerdictAtClose
      <4>3. Ownership' /\ Accounting'
        BY <1>6, <3>2, <3>5
           DEF ReportAccepted, Goto, Ownership, Accounting, Owning
      <4> QED BY <3>2, <3>3, <4>1, <4>2, <4>3 DEF SessionInv
    <3> QED BY <1>6, <2>2, <3>4, <3>5 DEF ReportAccepted
  <2> QED BY <1>6, <2>1, <2>2 DEF ReportAccepted
<1>7. CASE ReportOutcome
  <2>1. CASE FinishRaises /\ UNCHANGED ledger
    BY <1>7, <2>1, SessionUntouched, FinishRaisesPreserves
       DEF ReportOutcome, ledger
  <2>2. CASE FinishEffect(tok, watch)
    <3>1. SessionInv' /\ UNCHANGED <<attempts, pinned, sent, resumes>>
      BY <1>7, <2>2, VerdictSound DEF ReportOutcome
    <3>2. RowTypeOK' /\ RobotTypeOK'
      BY <1>7 DEF ReportOutcome, rows, robot, RowTypeOK, RobotTypeOK
    <3>3. CASE FinishRaises
      BY <1>7, <3>1, <3>3, FinishRaisesPreserves DEF ReportOutcome
    <3>4. CASE /\ status' = "failed" /\ Goto("check") /\ held' = "current"
               /\ tok' = 0 /\ done' = 0 /\ watch' = "off"
               /\ UNCHANGED <<job, cur>>
      <4>1. TaskTypeOK' /\ WorkerTypeOK'
        BY <3>4 DEF Goto, tasks, TaskTypeOK, WorkerTypeOK, Phases, InLoop,
                    Watches, Verdicts
      <4>2. /\ Ownership' /\ RowBinding' /\ ClaimedRowIsLinked' /\ Evidence'
            /\ VerdictAtClose'
        BY <1>7, <3>4
           DEF ReportOutcome, Goto, rows, Ownership, RowBinding,
               ClaimedRowIsLinked, Evidence, InLoop, Owning, VerdictAtClose
      <4>3. Accounting'
        BY <3>1, <3>4 DEF Goto, Accounting
      <4> QED BY <3>1, <3>2, <4>1, <4>2, <4>3 DEF SessionInv
    <3> QED BY <1>7, <2>2, <3>3, <3>4 DEF ReportOutcome
  <2> QED BY <1>7, <2>1, <2>2 DEF ReportOutcome
<1>8. CASE ReportUnknown
  <2>1. CASE UNCHANGED <<ledger, rows, robot, seen>> /\ Release
    BY <2>1, Releases
  <2>2. CASE FinishEffect(tok, "unknown")
    <3>1. tok \in Attempts
      BY <1>8 DEF ReportUnknown, Ownership, Owning
    <3>2. SessionInv' /\ UNCHANGED <<attempts, pinned, sent, resumes, seen>>
      BY <1>8, <2>2, <3>1, FinishSound DEF ReportUnknown, FinishEffect
    <3>3. RowTypeOK' /\ RobotTypeOK'
      BY <1>8 DEF ReportUnknown, rows, robot, RowTypeOK, RobotTypeOK
    <3> QED BY <1>8, <3>2, <3>3, EndTaskType, HolderLeaves
            DEF ReportUnknown, Release, HolderGone, SessionTypeOK
  <2> QED BY <1>8, <2>1, <2>2 DEF ReportUnknown
<1> QED BY <1>1, <1>2, <1>3, <1>4, <1>5, <1>6, <1>7, <1>8

\* Kept by the robot's frames: what the predicate concludes, it has seen.
LEMMA RobotPreserves ==
  ASSUME CoordinatorInv, Robot
  PROVE  CoordinatorInv'
<1> USE DEF CoordinatorInv, TypeOK
<1>1. CASE Connect \/ Disconnect \/ \E s \in {"ok", "lacks"} : CommandsFrame(s)
  <2> USE <1>1 DEF Connect, Disconnect, CommandsFrame
  <2>1. /\ SessionInv' /\ UNCHANGED <<ledger, rows, task, dirty, seen>>
        /\ UNCHANGED <<phase, job, cur, tok, done, watch>>
    BY SessionUntouched DEF tasks, worker
  <2>2. RowTypeOK' /\ TaskTypeOK' /\ RobotTypeOK'
    BY DEF rows, tasks, RowTypeOK, TaskTypeOK, RobotTypeOK, Specs
  <2>3. WorkerTypeOK'
    BY DEF worker, WorkerTypeOK
  <2>4. /\ Ownership' /\ Accounting' /\ Evidence' /\ RowBinding'
        /\ ClaimedRowIsLinked' /\ VerdictAtClose'
    BY <2>1 DEF ledger, rows, Ownership, Accounting, Evidence, RowBinding,
                ClaimedRowIsLinked, VerdictAtClose
  <2> QED BY <2>1, <2>2, <2>3, <2>4 DEF SessionInv
<1>2. ASSUME NEW frame \in FlowFrames, FlowFrame(frame) PROVE CoordinatorInv'
  <2> USE <1>2 DEF FlowFrame
  <2>1. seen \subseteq seen' /\ seen' \subseteq Facts
    BY LearnKeeps DEF RobotTypeOK
  <2>2. /\ watch' \in Watches
        /\ watch = "off" => watch' = "off"
        /\ watch \in Verdicts => watch' = watch
    BY ObserveType, ObserveOff DEF WorkerTypeOK, Observe, Verdicts
  <2>3. /\ watch' = "started" => "ran" \in seen'
        /\ watch' = "failed" => "recurred" \in seen'
        /\ watch' = "recovered" => seen' \cap {"advanced", "rested"} # {}
    <3>1. CASE watch' = watch
      BY <2>1, <3>1 DEF Evidence
    <3>2. CASE watch' = Observe(watch, frame)
      BY <3>2, ObserveJustified DEF Evidence, WorkerTypeOK, RobotTypeOK
    <3> QED BY <3>1, <3>2
  <2>4. SessionInv'
    BY <2>1 DEF SessionInv, ledger, SessionTypeOK, Lifecycle,
                PlanThenOneContinuation, SettledByObservation
  <2>5. RowTypeOK' /\ TaskTypeOK' /\ RobotTypeOK' /\ WorkerTypeOK'
    BY <2>1, <2>2 DEF rows, tasks, RowTypeOK, TaskTypeOK, RobotTypeOK,
                      WorkerTypeOK
  <2>6. /\ Ownership' /\ Accounting' /\ RowBinding' /\ ClaimedRowIsLinked'
        /\ VerdictAtClose'
    BY <2>2 DEF ledger, rows, Ownership, Accounting, RowBinding,
                ClaimedRowIsLinked, VerdictAtClose
  <2>7. Evidence'
    BY <2>1, <2>3 DEF Evidence, ledger
  <2> QED BY <2>4, <2>5, <2>6, <2>7 DEF SessionInv
<1> QED BY <1>1, <1>2 DEF Robot

\* Kept by a session step of somebody else, while a worker may be executing:
\* only the status and the lease of the session change.
LEMMA SessionMovesUnderWorker ==
  ASSUME CoordinatorInv, SessionInv',
         UNCHANGED <<attempts, pinned, sent, resumes>>,
         UNCHANGED <<rows, tasks, worker, robot, seen>>,
         phase \in Owning \ {"abort"} =>
           status' \in {"running", "awaiting_outcome", "unknown"},
         phase \in {"claimed", "execute", "ack", "resume_ack", "accept"} =>
           status' \in {"running", "unknown"}
  PROVE  CoordinatorInv'
<1> USE DEF CoordinatorInv, TypeOK
<1>1. RowTypeOK' /\ TaskTypeOK' /\ RobotTypeOK' /\ WorkerTypeOK'
  BY DEF rows, tasks, robot, worker, RowTypeOK, TaskTypeOK, RobotTypeOK,
         WorkerTypeOK
<1>2. /\ Ownership' /\ Accounting' /\ Evidence' /\ RowBinding'
      /\ ClaimedRowIsLinked' /\ VerdictAtClose'
  BY DEF rows, worker, Ownership, Accounting, Evidence, RowBinding,
         ClaimedRowIsLinked, VerdictAtClose
<1> QED BY <1>1, <1>2 DEF SessionInv

\* The process ends with every task; the session is as it was left.
LEMMA ProcessEndsPreserves ==
  ASSUME CoordinatorInv, ProcessEnds, SessionInv', UNCHANGED <<attempts, sent, resumes>>
  PROVE  CoordinatorInv'
<1>1. HolderGone /\ UNCHANGED <<sent, resumes, seen>>
  BY DEF ProcessEnds, HolderGone
<1>2. RowTypeOK' /\ TaskTypeOK' /\ RobotTypeOK'
  BY DEF CoordinatorInv, TypeOK, ProcessEnds, rows, RowTypeOK, TaskTypeOK,
         TaskStates, RobotTypeOK, Specs
<1>3. attempts' >= attempts
  BY DEF CoordinatorInv, TypeOK, SessionTypeOK
<1> QED BY <1>1, <1>2, <1>3, HolderLeaves

\* Kept by the matcher, the operator, the clock, reconciliation and the
\* service lifecycle.
LEMMA EnvironmentPreserves ==
  ASSUME CoordinatorInv, ExpireLease \/ Environment
  PROVE  CoordinatorInv'
<1> USE DEF CoordinatorInv, TypeOK
<1>1. ASSUME NEW f \in Failures, MatcherFinishes(f) PROVE CoordinatorInv'
  <2> USE <1>1 DEF MatcherFinishes
  <2>1. SessionInv' /\ RowTypeOK'
    BY SessionUntouched DEF RowTypeOK
  <2>2. TaskTypeOK' /\ RobotTypeOK' /\ WorkerTypeOK'
    BY DEF tasks, robot, worker, TaskTypeOK, RobotTypeOK, WorkerTypeOK
  <2>3. /\ Ownership' /\ Accounting' /\ Evidence' /\ RowBinding'
        /\ ClaimedRowIsLinked' /\ VerdictAtClose'
    BY DEF ledger, worker, Ownership, Accounting, Evidence, RowBinding,
           ClaimedRowIsLinked, VerdictAtClose
  <2> QED BY <2>1, <2>2, <2>3 DEF SessionInv
<1>2. CASE OperatorCancels
  <2> USE <1>2 DEF OperatorCancels
  <2>1. SessionInv'
    BY DEF SessionInv, SessionTypeOK, Statuses, Terminal, Lifecycle,
           PlanThenOneContinuation, SettledByObservation
  <2>2. phase \notin Owning \ {"abort"}
    BY DEF Ownership
  <2> QED BY <2>1, <2>2, SessionMovesUnderWorker DEF Owning
<1>3. CASE LeaseLapses \/ ExpireLease
  <2> USE <1>3 DEF LeaseLapses, ExpireLease, Active
  <2>1. SessionInv'
    BY DEF SessionInv, SessionTypeOK, Statuses, Terminal, Lifecycle,
           PlanThenOneContinuation, SettledByObservation
  <2> QED BY <2>1, SessionMovesUnderWorker DEF Ownership
<1>4. CASE Crash
  <2>1. SessionInv' /\ UNCHANGED <<attempts, sent, resumes>>
    BY <1>4, SessionUntouched DEF Crash, ProcessEnds, ledger
  <2> QED BY <1>4, <2>1, ProcessEndsPreserves DEF Crash
<1>5. CASE Stop
  <2>1. CASE UNCHANGED ledger
    <3>1. SessionInv' /\ UNCHANGED <<attempts, sent, resumes>>
      BY <1>5, <2>1, SessionUntouched DEF Stop, ProcessEnds, ledger
    <3> QED BY <1>5, <3>1, ProcessEndsPreserves DEF Stop
  <2>2. CASE Dispatched /\ FinishEffect(tok, "unknown")
    <3>1. tok \in Attempts
      BY <2>2 DEF Dispatched, Ownership, Owning
    <3>2. SessionInv' /\ UNCHANGED <<attempts, sent, resumes>>
      BY <1>5, <2>2, <3>1, FinishSound DEF Stop, ProcessEnds, FinishEffect
    <3> QED BY <1>5, <3>2, ProcessEndsPreserves DEF Stop
  <2> QED BY <1>5, <2>1, <2>2 DEF Stop
<1>6. CASE Start
  <2>1. TaskTypeOK'
    BY <1>6 DEF Start, TaskTypeOK
  <2> QED BY <1>6, <2>1, OnlyTasksChange DEF Start
<1> QED BY <1>1, <1>2, <1>3, <1>4, <1>5, <1>6 DEF Environment

-----------------------------------------------------------------------------
(* The inductive invariant, and what follows from it.                      *)

\* Nothing has been claimed or sent when the service first starts.
LEMMA InitEstablishes == Init => CoordinatorInv
<1> SUFFICES ASSUME Init PROVE CoordinatorInv
  OBVIOUS
<1> USE CoordinatorAssumption DEF Init
<1>1. SessionTypeOK
  <2>1. status \in Statuses /\ lapsed \in BOOLEAN
    BY DEF Statuses
  <2>2. attempts \in 0 .. MaxAttempts /\ pinned \in Nat
    OBVIOUS
  <2>3. sent \in [Attempts -> Nat] /\ resumes \in [Attempts -> Nat]
    OBVIOUS
  <2> QED BY <2>1, <2>2, <2>3 DEF SessionTypeOK
<1>2. RowTypeOK
  BY DEF RowTypeOK
<1>3. TaskTypeOK
  BY DEF TaskTypeOK, TaskStates
<1>4. WorkerTypeOK
  BY DEF WorkerTypeOK, Phases, Watches
<1>5. RobotTypeOK
  BY DEF RobotTypeOK, Specs
<1>6. Ownership /\ Lifecycle /\ Evidence /\ VerdictAtClose /\ RowBinding
  BY DEF Ownership, Owning, Lifecycle, Evidence, VerdictAtClose, RowBinding
<1>7. Accounting /\ PlanThenOneContinuation
  BY DEF Accounting, PlanThenOneContinuation
<1>8. SettledByObservation /\ ClaimedRowIsLinked
  BY DEF SettledByObservation, ClaimedRowIsLinked, InLoop, Owning
<1> QED BY <1>1, <1>2, <1>3, <1>4, <1>5, <1>6, <1>7, <1>8
        DEF CoordinatorInv, TypeOK

\* Every step of the specification preserves the invariant.
LEMMA NextPreserves == CoordinatorInv /\ [Next]_vars => CoordinatorInv'
<1> SUFFICES ASSUME CoordinatorInv, [Next]_vars PROVE CoordinatorInv'
  OBVIOUS
<1>1. CASE \E f \in Failures : Notify(f) \/ Task(f) \/ ColdCandidate(f)
  BY <1>1, TaskStepsPreserve
<1>2. CASE Execution
  BY <1>2, PreparationPreserves, AttemptStepsPreserve DEF Execution
<1>3. CASE ExpireLease \/ Environment
  BY <1>3, EnvironmentPreserves
<1>4. CASE Robot
  BY <1>4, RobotPreserves
<1>5. CASE UNCHANGED vars
  <2>1. TaskTypeOK' /\ UNCHANGED <<ledger, rows, worker, robot, seen>>
    BY <1>5 DEF vars, tasks, CoordinatorInv, TypeOK, TaskTypeOK
  <2> QED BY <2>1, OnlyTasksChange
<1> QED BY <1>1, <1>2, <1>3, <1>4, <1>5 DEF Next

\* The inductive invariant holds in every reachable state.
THEOREM InvariantHolds == Safety => []CoordinatorInv
BY InitEstablishes, NextPreserves, PTL DEF Safety

\* Every variable keeps its type; in particular attempts never exceed
\* RECOVERY_MAX_ATTEMPTS.
THEOREM TypesHold == Safety => []TypeOK
<1>1. CoordinatorInv => TypeOK
  BY DEF CoordinatorInv
<1> QED BY <1>1, InvariantHolds, PTL

\* README.md: the selected corrections, then one guarded $resume_flow.
THEOREM PlanIsSentOnce == Safety => []PlanThenOneContinuation
<1>1. CoordinatorInv => PlanThenOneContinuation
  BY DEF CoordinatorInv
<1> QED BY <1>1, InvariantHolds, PTL

\* classify_flow_outcome and the predicate: no verdict without its evidence.
THEOREM OutcomesAreObserved == Safety => []SettledByObservation
<1>1. CoordinatorInv => SettledByObservation
  BY DEF CoordinatorInv
<1> QED BY <1>1, InvariantHolds, PTL

\* _attach_active_recurrence: only a linked row becomes the current one.
THEOREM ClaimsAreForLinkedRows == Safety => []ClaimedRowIsLinked
<1>1. CoordinatorInv => ClaimedRowIsLinked
  BY DEF CoordinatorInv
<1> QED BY <1>1, InvariantHolds, PTL

-----------------------------------------------------------------------------
(* The tasks, the robot lock and the frame its holder validated against.   *)

Early == {"idle", "reread", "pointer"}   \* no frame was taken yet

\* The lock holder leaves, moves on with the frame it took, or takes the
\* newest one, which is a pause at the step.
HolderMoves ==
  /\ UNCHANGED robot /\ phase # "idle"
  /\ \/ Release
     \/ /\ UNCHANGED <<tasks, job>> /\ phase' \in Phases \ {"idle"}
        /\ \/ held' = held /\ (phase \in Early <=> phase' \in Early)
           \/ held' = "current" /\ paused /\ phase' \notin Early

\* Every await of process_failure under the lock is one of these.
LEMMA ExecutionMoves ==
  ASSUME Execution
  PROVE  HolderMoves
<1> USE DEF HolderMoves, Goto, Phases, InLoop, Owning, Early
<1>1. CASE Reread \/ TakePointer \/ TakeCommands \/ WaitTimesOut
  BY <1>1 DEF Reread, TakePointer, TakeCommands, WaitTimesOut
<1>2. CASE RefuseDispatch \/ RejectPlan
  BY <1>2 DEF RefuseDispatch, RejectPlan, MarkNonExecutable
<1>3. CASE Prepare \/ BeginGrace \/ EndGrace
  BY <1>3 DEF Prepare, BeginGrace, EndGrace
<1>4. CASE Claim \/ AcceptClaim \/ SendCorrection \/ SendResume
  BY <1>4 DEF Claim, AcceptClaim, SendCorrection, SendResume
<1>5. CASE CorrectionAcknowledged \/ ResumeAcknowledged \/ AbandonAttempt \/ ReportAccepted
  BY <1>5 DEF CorrectionAcknowledged, ResumeAcknowledged, AbandonAttempt, ReportAccepted,
     FinishRaises
<1>6. CASE OutcomeObserved \/ ReportOutcome \/ ReportUnknown
  BY <1>6 DEF OutcomeObserved, ReportOutcome, ReportUnknown, FinishRaises
<1> QED BY <1>1, <1>2, <1>3, <1>4, <1>5, <1>6 DEF Execution

\* A task that ends leaves room for another one, or reads its row again.
LEMMA EndTaskPreserves ==
  ASSUME TaskTypeOK, TaskInv, NEW f \in Pending, EndTask(f)
  PROVE  /\ Pending' \subseteq Pending /\ dirty' \subseteq Pending'
         /\ \A g \in Failures : task'[g] = "holding" <=> task[g] = "holding" /\ g # f
         /\ f \in dirty => task'[f] = "reading"
BY DEF TaskTypeOK, TaskInv, Pending, EndTask

\* Fewer tasks than before are few enough.
LEMMA FewerPending ==
  ASSUME TaskInv, Pending' \subseteq Pending
  PROVE  IsFiniteSet(Pending') /\ Cardinality(Pending') <= MaxPending
<1>1. /\ IsFiniteSet(Pending') /\ IsFiniteSet(Pending)
      /\ Cardinality(Pending') <= Cardinality(Pending)
  BY FS_Subset DEF TaskInv
<1>2. Cardinality(Pending') \in Nat /\ Cardinality(Pending) \in Nat
  BY <1>1, FS_CardinalityType
<1> QED BY <1>1, <1>2, CoordinatorAssumption DEF TaskInv

\* The finally block of process_failure gives back the lock and the task.
LEMMA ReleaseFreesTheLock ==
  ASSUME CoordinatorInv, TaskInv, phase # "idle", Release
  PROVE  TaskInv'
<1> USE DEF CoordinatorInv, TypeOK, TaskTypeOK, RowBinding
<1>1. job \in Pending /\ task[job] = "holding"
  BY DEF TaskInv, Pending
<1>2. /\ Pending' \subseteq Pending /\ dirty' \subseteq Pending'
      /\ \A g \in Failures : task'[g] = "holding" <=> task[g] = "holding" /\ g # job
  BY <1>1, EndTaskPreserves DEF Release
<1>3. phase' = "idle" /\ up' = up
  BY DEF Release, EndTask
<1>4. \A g \in Failures : task'[g] # "holding"
  BY <1>2 DEF TaskInv
<1> QED BY <1>2, <1>3, <1>4, FewerPending DEF TaskInv

\* notify_failure refuses the task beyond the bound.
LEMMA NotifyBounds ==
  ASSUME CoordinatorInv, TaskInv, NEW f \in Failures, Notify(f)
  PROVE  TaskInv'
<1> USE DEF CoordinatorInv, TypeOK, TaskTypeOK
<1>1. CASE f \in Pending
  BY <1>1 DEF Notify, TaskInv, Pending, worker
<1>2. CASE f \notin Pending
  <2>1. Pending' = Pending \cup {f}
    BY <1>2 DEF Notify, Pending
  <2>2. IsFiniteSet(Pending) /\ Cardinality(Pending) \in Nat
    BY FS_CardinalityType DEF TaskInv
  <2>3. IsFiniteSet(Pending') /\ Cardinality(Pending') = Cardinality(Pending) + 1
    BY <1>2, <2>1, <2>2, FS_AddElement
  <2>4. Cardinality(Pending') <= MaxPending
    BY <1>2, <2>2, <2>3, CoordinatorAssumption DEF Notify
  <2>5. /\ up /\ up' = up /\ dirty' = dirty /\ phase' = phase /\ job' = job
        /\ \A g \in Failures : task'[g] = "holding" <=> task[g] = "holding"
    BY <1>2 DEF Notify, Pending, worker
  <2> QED BY <2>1, <2>3, <2>4, <2>5 DEF TaskInv
<1> QED BY <1>1, <1>2

\* A task before the lock ends, waits for the lock or takes it.
LEMMA TaskStepsKeepTheLock ==
  ASSUME CoordinatorInv, TaskInv, NEW f \in Failures, Task(f)
  PROVE  TaskInv'
<1> USE DEF CoordinatorInv, TypeOK, TaskTypeOK
<1>1. CASE FirstReadFails(f) \/ AttachRecurrence(f) \/ SkipIneligible(f)
  <2>1. /\ EndTask(f) /\ UNCHANGED <<phase, job>>
        /\ task[f] \in {"reading", "eligible", "ineligible"}
    BY <1>1 DEF FirstReadFails, AttachRecurrence, SkipIneligible, worker
  <2>2. f \in Pending
    BY <2>1 DEF Pending
  <2>3. /\ Pending' \subseteq Pending /\ dirty' \subseteq Pending'
        /\ \A g \in Failures : task'[g] = "holding" <=> task[g] = "holding" /\ g # f
        /\ up' = up
    BY <2>1, <2>2, EndTaskPreserves DEF EndTask
  <2> QED BY <2>1, <2>3, FewerPending DEF TaskInv
<1>2. CASE FirstRead(f) \/ AwaitLock(f) \/ AcquireLock(f)
  <2>1. Pending' = Pending /\ dirty' = dirty /\ up' = up
    BY <1>2 DEF FirstRead, AwaitLock, AcquireLock, Pending
  <2>2. \A g \in Failures : task'[g] = "holding" <=> phase' # "idle" /\ job' = g
    BY <1>2 DEF FirstRead, AwaitLock, AcquireLock, TaskInv, worker
  <2> QED BY <2>1, <2>2 DEF TaskInv
<1> QED BY <1>1, <1>2 DEF Task

\* No step gives a second task the lock, forgets a coalesced notification or
\* lets a task outlive the process.
LEMMA TasksPreserved ==
  ASSUME CoordinatorInv, TaskInv, [Next]_vars
  PROVE  TaskInv'
<1>1. CASE UNCHANGED <<tasks, phase, job>>
  BY <1>1 DEF TaskInv, Pending, tasks
<1>2. CASE \E f \in Failures : Notify(f) \/ Task(f) \/ ColdCandidate(f)
  BY <1>2, NotifyBounds, TaskStepsKeepTheLock DEF ColdCandidate
<1>3. CASE Execution
  <2>1. CASE Release
    BY <1>3, <2>1, ExecutionMoves, ReleaseFreesTheLock DEF HolderMoves
  <2>2. CASE UNCHANGED <<tasks, job>> /\ phase # "idle" /\ phase' # "idle"
    BY <2>2 DEF TaskInv, Pending, tasks
  <2> QED BY <1>3, <2>1, <2>2, ExecutionMoves DEF HolderMoves
<1>4. CASE ProcessEnds
  <2>1. Pending' = {} /\ dirty' = {} /\ phase' = "idle"
        /\ \A g \in Failures : task'[g] # "holding"
    BY <1>4 DEF ProcessEnds, Pending
  <2>2. IsFiniteSet({}) /\ Cardinality({}) = 0
    BY FS_EmptySet
  <2> QED BY <2>1, <2>2, CoordinatorAssumption DEF TaskInv
<1>5. CASE Start
  BY <1>5 DEF Start, TaskInv, Pending, worker
<1>6. CASE ExpireLease \/ Robot \/ Environment
  <2>1. ProcessEnds \/ Start \/ UNCHANGED <<tasks, phase, job>>
    BY <1>6 DEF ExpireLease, Robot, Connect, Disconnect, FlowFrame, CommandsFrame,
                Environment, MatcherFinishes, OperatorCancels, LeaseLapses, Crash, Stop,
                worker
  <2> QED BY <1>1, <1>4, <1>5, <2>1
<1> QED BY <1>1, <1>2, <1>3, <1>6 DEF Next, vars, worker

\* A frame stops being current with the next one and with its connection.
LEMMA FramesPreserved ==
  ASSUME CoordinatorInv, TaskInv, FrameInv, [Next]_vars
  PROVE  FrameInv'
<1> USE DEF FrameInv
<1>1. CASE UNCHANGED <<up, phase, held, robot>>
  BY <1>1 DEF robot
<1>2. CASE \E f \in Failures : Notify(f) \/ Task(f) \/ ColdCandidate(f)
  BY <1>2 DEF Notify, ColdCandidate, Task, FirstRead, FirstReadFails, AttachRecurrence,
              SkipIneligible, AwaitLock, AcquireLock, EndTask, worker, robot
<1>3. CASE Execution
  <2>1. HolderMoves
    BY <1>3, ExecutionMoves
  <2>2. CASE Release
    BY <2>1, <2>2 DEF HolderMoves, Release, EndTask, robot
  <2>3. CASE ~ Release
    BY <2>1, <2>3 DEF HolderMoves, Early, tasks, robot
  <2> QED BY <2>2, <2>3
<1>4. CASE Robot
  BY <1>4 DEF Robot, Connect, Disconnect, FlowFrame, CommandsFrame, tasks, worker, robot,
              CoordinatorInv, TypeOK, WorkerTypeOK
<1>5. CASE ExpireLease \/ Environment
  BY <1>5 DEF ExpireLease, Environment, MatcherFinishes, OperatorCancels, LeaseLapses,
              Crash, Stop, Start, ProcessEnds, tasks, worker, robot
<1> QED BY <1>1, <1>2, <1>3, <1>4, <1>5 DEF Next, vars, tasks, worker

\* A plan is pinned before its session can be claimed, so an acknowledgement
\* that completes it completes it for good.
LEMMA AcknowledgedPreserved ==
  ASSUME CoordinatorInv, AllAcknowledged, [Next]_vars
  PROVE  AllAcknowledged'
<1> USE DEF AllAcknowledged
<1>1. CASE UNCHANGED <<pinned, phase, done>>
  BY <1>1
<1>2. CASE phase' \notin {"resume_ack", "accept"}
  BY <1>2
<1>3. CASE Execution
  <2>1. CASE SendResume
    BY <2>1 DEF SendResume
  <2>2. CASE ResumeAcknowledged
    BY <2>2 DEF ResumeAcknowledged, ledger
  <2>3. CASE \/ Reread \/ TakePointer \/ TakeCommands \/ WaitTimesOut \/ RefuseDispatch
             \/ RejectPlan \/ Prepare \/ BeginGrace \/ EndGrace \/ Claim \/ AcceptClaim
             \/ SendCorrection \/ CorrectionAcknowledged
    BY <1>2, <2>3
       DEF Reread, TakePointer, TakeCommands, WaitTimesOut, RefuseDispatch, RejectPlan,
           MarkNonExecutable, Prepare, BeginGrace, EndGrace, Claim, AcceptClaim,
           SendCorrection, CorrectionAcknowledged, Release, Goto
  <2>4. CASE \/ AbandonAttempt \/ ReportAccepted \/ OutcomeObserved \/ ReportOutcome
             \/ ReportUnknown
    BY <1>2, <2>4
       DEF AbandonAttempt, ReportAccepted, OutcomeObserved, ReportOutcome, ReportUnknown,
           FinishRaises, Release, Goto
  <2> QED BY <1>3, <2>1, <2>2, <2>3, <2>4 DEF Execution
<1>4. CASE \E f \in Failures : Notify(f) \/ Task(f) \/ ColdCandidate(f)
  BY <1>1, <1>4 DEF Notify, ColdCandidate, Task, FirstRead, FirstReadFails,
     AttachRecurrence, SkipIneligible, AwaitLock, AcquireLock, ledger, worker
<1>5. CASE ExpireLease \/ Robot \/ Environment
  BY <1>1, <1>2, <1>5 DEF ExpireLease, Robot, Connect, Disconnect, FlowFrame,
     CommandsFrame, Environment, MatcherFinishes, OperatorCancels, LeaseLapses, Crash,
     Stop, ProcessEnds, Start, ledger, worker
<1> QED BY <1>1, <1>3, <1>4, <1>5 DEF Next, vars, ledger, worker

\* The invariant of the runs: the session's, the tasks', the frames' and the
\* acknowledgements'.
THEOREM RecoveryInvariantHolds == Safety => []RecoveryInv
<1>1. Init => TaskInv /\ FrameInv /\ AllAcknowledged
  <2> SUFFICES ASSUME Init PROVE TaskInv /\ FrameInv /\ AllAcknowledged
    OBVIOUS
  <2>1. Pending = {}
    BY DEF Init, Pending
  <2>2. IsFiniteSet({}) /\ Cardinality({}) = 0
    BY FS_EmptySet
  <2> QED BY <2>1, <2>2, CoordinatorAssumption DEF Init, TaskInv, FrameInv, AllAcknowledged
<1> QED BY <1>1, InvariantHolds, TasksPreserved, FramesPreserved, AcknowledgedPreserved, PTL
        DEF Safety, RecoveryInv

-----------------------------------------------------------------------------
(* What a step may do: the action properties.                              *)

\* Robot commands leave in two actions only.
LEMMA OnlySendsDispatch ==
  ASSUME Next
  PROVE  \/ SendCorrection \/ SendResume
         \/ UNCHANGED <<sent, resumes>>
<1>1. CASE \E f \in Failures : Notify(f) \/ Task(f) \/ ColdCandidate(f)
  BY <1>1 DEF Notify, ColdCandidate, Task, FirstRead, FirstReadFails,
              AttachRecurrence, SkipIneligible, AwaitLock, AcquireLock, ledger
<1>2. CASE Execution /\ ~ SendCorrection /\ ~ SendResume
  <2>1. CASE \/ Reread \/ TakePointer \/ TakeCommands \/ WaitTimesOut
             \/ RefuseDispatch \/ RejectPlan \/ Prepare \/ BeginGrace
             \/ EndGrace
    BY <2>1 DEF Reread, TakePointer, TakeCommands, WaitTimesOut,
                RefuseDispatch, RejectPlan, MarkNonExecutable, Prepare,
                PrepareEffect, BeginGrace, EndGrace, ledger
  <2>2. CASE \/ Claim \/ AcceptClaim \/ CorrectionAcknowledged
             \/ ResumeAcknowledged \/ AbandonAttempt \/ ReportAccepted
             \/ OutcomeObserved \/ ReportOutcome \/ ReportUnknown
    BY <2>2 DEF Claim, ClaimEffect, AcceptClaim, CorrectionAcknowledged,
                ResumeAcknowledged, AbandonAttempt, ReportAccepted,
                OutcomeObserved, ReportOutcome, ReportUnknown, FinishEffect,
                ledger
  <2> QED BY <1>2, <2>1, <2>2 DEF Execution
<1>3. CASE Robot
  BY <1>3 DEF Robot, Connect, Disconnect, FlowFrame, CommandsFrame, ledger
<1>4. CASE ExpireLease \/ Environment
  BY <1>4 DEF ExpireLease, Environment, MatcherFinishes, OperatorCancels,
              LeaseLapses, Crash, Stop, Start, FinishEffect, ledger
<1> QED BY <1>1, <1>2, <1>3, <1>4 DEF Next, Execution

\* claim_attempt and _require_live_execution_state before every dispatch:
\* whoever sends holds the newest claim, nothing leaves once the session
\* waits, is settled or is cancelled, and the robot was last seen paused at
\* the step.
THEOREM CommandsNeedNewestClaim == Safety => DispatchUnderNewestClaim
<1>1. RecoveryInv /\ [Next]_vars =>
        [Dispatches => /\ tok = attempts /\ status \in {"running", "unknown"}
                       /\ conn /\ paused /\ spec = "ok"]_vars
  <2> SUFFICES ASSUME RecoveryInv, Next, Dispatches
               PROVE  /\ tok = attempts /\ status \in {"running", "unknown"}
                      /\ conn /\ paused /\ spec = "ok"
    OBVIOUS
  <2>1. SendCorrection \/ SendResume
    BY OnlySendsDispatch DEF Dispatches
  <2>2. phase = "execute" /\ Live
    BY <2>1 DEF SendCorrection, SendResume
  <2>3. tok = attempts /\ status \in {"running", "unknown"}
    BY <2>2 DEF RecoveryInv, CoordinatorInv, Ownership, Owning
  <2>4. conn /\ paused /\ spec = "ok"
    BY <2>2 DEF RecoveryInv, FrameInv, Live
  <2> QED BY <2>3, <2>4
<1> QED BY <1>1, RecoveryInvariantHolds, PTL DEF Safety, DispatchUnderNewestClaim

\* _dirty_failure_ids: a coalesced notification leaves the set only for
\* another read of its row, or with the process: no interleaving of the task
\* that ends with the one that notifies loses it.
ReplayedOrLost(f) == f \in dirty' \/ task'[f] = "reading" \/ ~ up'

THEOREM NotificationsAreNotForgotten ==
  Safety => [][\A f \in dirty : ReplayedOrLost(f)]_vars
<1>1. RecoveryInv /\ [Next]_vars => [\A f \in dirty : ReplayedOrLost(f)]_vars
  <2> SUFFICES ASSUME RecoveryInv, Next PROVE \A f \in dirty : ReplayedOrLost(f)
    OBVIOUS
  <2> USE DEF RecoveryInv, CoordinatorInv, TypeOK, TaskTypeOK, ReplayedOrLost
  <2>1. ASSUME NEW f \in Failures, EndTask(f)
        PROVE  \A g \in dirty : ReplayedOrLost(g)
    BY <2>1 DEF EndTask
  <2>2. CASE dirty \subseteq dirty' \/ ~ up'
    BY <2>2
  <2>3. CASE \E f \in Failures : Notify(f) \/ Task(f) \/ ColdCandidate(f)
    BY <2>1, <2>2, <2>3 DEF Notify, ColdCandidate, Task, FirstRead, FirstReadFails,
       AttachRecurrence, SkipIneligible, AwaitLock, AcquireLock
  <2>4. CASE Execution
    <3>1. CASE Release
      BY <2>1, <2>4, <3>1, ExecutionMoves DEF HolderMoves, Release, RowBinding
    <3> QED BY <2>2, <2>4, <3>1, ExecutionMoves DEF HolderMoves, tasks
  <2>5. CASE ExpireLease \/ Robot \/ Environment
    BY <2>2, <2>5 DEF ExpireLease, Robot, Connect, Disconnect, FlowFrame, CommandsFrame,
       Environment, MatcherFinishes, OperatorCancels, LeaseLapses, Crash, Stop, Start,
       ProcessEnds, tasks
  <2> QED BY <2>3, <2>4, <2>5 DEF Next
<1> QED BY <1>1, RecoveryInvariantHolds, PTL DEF Safety

\* README.md: only a definitive recurrence consumes another attempt.
THEOREM RetriesNeedRecurrence == Safety => RetryNeedsRecurrence
<1>1. CoordinatorInv /\ [Next]_vars =>
        [Dispatches /\ tok > 1 /\ sent[tok] = 0 /\ resumes[tok] = 0
           => "recurred" \in seen]_vars
  <2> SUFFICES ASSUME CoordinatorInv, Next, Dispatches, tok > 1, sent[tok] = 0
               PROVE  "recurred" \in seen
    OBVIOUS
  <2>1. SendCorrection \/ SendResume
    BY OnlySendsDispatch DEF Dispatches
  <2>2. phase = "execute"
    BY <2>1 DEF SendCorrection, SendResume
  <2> QED BY <2>2 DEF CoordinatorInv, Evidence
<1> QED BY <1>1, InvariantHolds, PTL DEF Safety, RetryNeedsRecurrence

-----------------------------------------------------------------------------
(* The coordinator implements the ledger.                                  *)

\* An answer the finish RPC accepts is one of the ledger's three endings.
LEMMA FinishImplements ==
  ASSUME CoordinatorInv, NEW k \in Attempts,
         NEW result \in {"awaiting_outcome", "recovered", "failed", "unknown"},
         FinishEffect(k, result),
         result = "awaiting_outcome" => resumes[k] = 1
  PROVE  Ledger!LedgerNext
<1> USE DEF FinishEffect, Holds, Active, Ledger!LedgerNext
<1>1. CASE result = "awaiting_outcome"
  BY <1>1 DEF Ledger!AwaitOutcome, Ledger!Attempts, Attempts
<1>2. CASE result \in {"recovered", "failed"}
  BY <1>2 DEF Ledger!Settle
<1>3. CASE result = "unknown"
  BY <1>3 DEF Ledger!GiveUp, Ledger!Active
<1> QED BY <1>1, <1>2, <1>3

\* A step of the lock holder is one ledger step or none.
LEMMA ExecutionImplements ==
  ASSUME CoordinatorInv, Execution
  PROVE  Ledger!LedgerNext \/ UNCHANGED Ledger!ledgerVars
<1> USE DEF CoordinatorInv, TypeOK, Ledger!ledgerVars
<1>1. CASE \/ Reread \/ TakePointer \/ TakeCommands \/ WaitTimesOut
           \/ RefuseDispatch \/ RejectPlan \/ BeginGrace \/ EndGrace
           \/ AcceptClaim \/ CorrectionAcknowledged \/ ResumeAcknowledged
           \/ AbandonAttempt \/ OutcomeObserved
  BY <1>1 DEF Reread, TakePointer, TakeCommands, WaitTimesOut, RefuseDispatch,
              RejectPlan, MarkNonExecutable, BeginGrace, EndGrace, AcceptClaim,
              CorrectionAcknowledged, ResumeAcknowledged, AbandonAttempt,
              OutcomeObserved, ledger
<1>2. CASE Prepare
  <2>1. CASE PrepareEffect(job)
    <3>1. PlanOf[job] \in Nat
      BY <1>2, CoordinatorAssumption DEF Prepare, RowBinding
    <3> QED BY <2>1, <3>1 DEF PrepareEffect, Ledger!LedgerNext, Ledger!Pin
  <2> QED BY <1>2, <2>1 DEF Prepare, ledger
<1>3. CASE Claim
  <2>1. CASE ClaimEffect
    BY <2>1, CoordinatorAssumption
       DEF ClaimEffect, Lifecycle, Ledger!LedgerNext, Ledger!BeginAttempt
  <2> QED BY <1>3, <2>1 DEF Claim, ledger
<1>4. CASE SendCorrection \/ SendResume
  <2>1. tok = attempts /\ tok \in Attempts /\ status \in {"running", "unknown"}
    BY <1>4 DEF SendCorrection, SendResume, Ownership, Owning
  <2>2. sent[tok] = done /\ resumes[tok] = 0
    BY <1>4 DEF SendCorrection, SendResume, Accounting
  <2>3. CASE SendCorrection
    BY <2>1, <2>2, <2>3 DEF SendCorrection, Ledger!LedgerNext,
       Ledger!SendCorrection, Ledger!Attempts, Attempts
  <2>4. CASE SendResume
    <3>1. resumes' = [resumes EXCEPT ![attempts] = 1]
      BY <2>1, <2>2, <2>4 DEF SendResume, SessionTypeOK
    <3> QED BY <2>1, <2>2, <2>4, <3>1 DEF SendResume, Ledger!LedgerNext,
            Ledger!SendResume, Ledger!Attempts, Attempts
  <2> QED BY <1>4, <2>3, <2>4
<1>5. CASE ReportAccepted \/ ReportOutcome \/ ReportUnknown
  <2>1. tok \in Attempts
    BY <1>5 DEF ReportAccepted, ReportOutcome, ReportUnknown, Ownership, Owning
  <2>2. /\ ReportAccepted => resumes[tok] = 1
        /\ ReportOutcome => watch \in {"recovered", "failed", "unknown"}
    BY DEF ReportAccepted, ReportOutcome, Accounting, VerdictAtClose, Verdicts
  <2>3. \/ UNCHANGED ledger
        \/ ReportAccepted /\ FinishEffect(tok, "awaiting_outcome")
        \/ ReportOutcome /\ FinishEffect(tok, watch)
        \/ ReportUnknown /\ FinishEffect(tok, "unknown")
    BY <1>5 DEF ReportAccepted, ReportOutcome, ReportUnknown
  <2> QED BY <2>1, <2>2, <2>3, FinishImplements DEF ledger
<1> QED BY <1>1, <1>2, <1>3, <1>4, <1>5 DEF Execution

\* Every other step too.
LEMMA StepsImplement ==
  ASSUME CoordinatorInv, [Next]_vars
  PROVE  [Ledger!LedgerNext]_Ledger!ledgerVars
<1> USE DEF Ledger!ledgerVars
<1>1. CASE \E f \in Failures : Notify(f) \/ Task(f) \/ ColdCandidate(f)
  BY <1>1 DEF Notify, ColdCandidate, Task, FirstRead, FirstReadFails,
              AttachRecurrence, SkipIneligible, AwaitLock, AcquireLock, ledger
<1>2. CASE Execution
  BY <1>2, ExecutionImplements
<1>3. CASE Robot
  BY <1>3 DEF Robot, Connect, Disconnect, FlowFrame, CommandsFrame, ledger
<1>4. CASE ExpireLease
  BY <1>4 DEF ExpireLease, Active, Ledger!LedgerNext, Ledger!GiveUp,
              Ledger!Active
<1>5. CASE Environment
  <2>1. CASE OperatorCancels
    BY <2>1 DEF OperatorCancels, Ledger!LedgerNext, Ledger!Withdraw
  <2>2. CASE Stop
    <3>1. CASE Dispatched /\ FinishEffect(tok, "unknown")
      <4>1. tok \in Attempts
        BY <3>1 DEF Dispatched, CoordinatorInv, Ownership, Owning
      <4> QED BY <3>1, <4>1, FinishImplements
    <3> QED BY <2>2, <3>1 DEF Stop, ledger
  <2>3. CASE LeaseLapses \/ Crash \/ Start \/ \E f \in Failures : MatcherFinishes(f)
    BY <2>3 DEF LeaseLapses, Crash, Start, MatcherFinishes, ledger
  <2> QED BY <1>5, <2>1, <2>2, <2>3 DEF Environment
<1>6. CASE UNCHANGED vars
  BY <1>6 DEF vars, ledger
<1> QED BY <1>1, <1>2, <1>3, <1>4, <1>5, <1>6 DEF Next

\* The coordinator with its robot, its restarts and its lost replies shows
\* its environment nothing the session ledger does not promise.
THEOREM ImplementsLedger == Safety => LedgerSafety
<1>1. Init => Ledger!LedgerInit
  BY DEF Init, Ledger!LedgerInit, Attempts, Ledger!Attempts
<1>2. CoordinatorInv /\ [Next]_vars => [Ledger!LedgerNext]_Ledger!ledgerVars
  BY StepsImplement
<1> QED BY <1>1, <1>2, InvariantHolds, PTL
        DEF Safety, LedgerSafety, Ledger!LedgerSafety

\* The session of a step is settled once (_TERMINAL_SESSION_STATUSES), its plan
\* is pinned once, and its attempts only grow.
SettledForGood ==
  /\ status \in Terminal => status' = status /\ attempts' = attempts
  /\ status # "none" => pinned' = pinned
  /\ attempts' \in {attempts, attempts + 1}

\* What the ledger promises of every step, the coordinator keeps.
THEOREM SettledSessionsStaySettled == Safety => [][SettledForGood]_vars
<1>1. CoordinatorInv /\ [Next]_vars => [SettledForGood]_vars
  <2> SUFFICES ASSUME CoordinatorInv, [Next]_vars PROVE SettledForGood
    OBVIOUS
  <2>1. [Ledger!LedgerNext]_Ledger!ledgerVars
    BY StepsImplement
  <2> QED BY <2>1
          DEF SettledForGood, Terminal, Ledger!LedgerNext, Ledger!ledgerVars, Ledger!Pin,
              Ledger!BeginAttempt, Ledger!SendCorrection, Ledger!SendResume,
              Ledger!AwaitOutcome, Ledger!Settle, Ledger!GiveUp, Ledger!Withdraw,
              Ledger!Active
<1> QED BY <1>1, InvariantHolds, PTL DEF Safety

\* The session waits for an outcome of this attempt from now on.
Accepted == status # "awaiting_outcome" /\ status' = "awaiting_outcome"

\* _execute_attempt: the database is told that an attempt was accepted only
\* when the robot has acknowledged every correction of the pinned plan and the
\* one continuation of the newest attempt; what is settled as an outcome
\* later (SettledByObservation) is the outcome of a plan that ran.
THEOREM AcceptedAfterAcknowledgements ==
  Safety => [][Accepted => /\ done = pinned /\ sent[attempts] = pinned
                           /\ resumes[attempts] = 1]_vars
<1>1. RecoveryInv /\ [Next]_vars =>
        [Accepted => /\ done = pinned /\ sent[attempts] = pinned
                     /\ resumes[attempts] = 1]_vars
  <2> SUFFICES ASSUME RecoveryInv, Next, Accepted
               PROVE  /\ done = pinned /\ sent[attempts] = pinned
                      /\ resumes[attempts] = 1
    OBVIOUS
  <2> USE DEF Accepted, RecoveryInv, CoordinatorInv
  <2>1. CASE ReportAccepted
    <3>1. phase = "accept" /\ tok = attempts /\ tok \in Attempts
      BY <2>1 DEF ReportAccepted, Ownership, Owning
    <3> QED BY <3>1 DEF AllAcknowledged, Accounting, PlanThenOneContinuation
  <2>2. CASE Execution /\ ~ ReportAccepted
    <3>1. CASE \/ Reread \/ TakePointer \/ TakeCommands \/ WaitTimesOut \/ RefuseDispatch
               \/ RejectPlan \/ Prepare \/ BeginGrace \/ EndGrace \/ Claim \/ AcceptClaim
               \/ SendCorrection \/ SendResume \/ CorrectionAcknowledged
      BY <3>1
         DEF Reread, TakePointer, TakeCommands, WaitTimesOut, RefuseDispatch, RejectPlan,
             MarkNonExecutable, Prepare, PrepareEffect, BeginGrace, EndGrace, Claim,
             ClaimEffect, AcceptClaim, SendCorrection, SendResume,
             CorrectionAcknowledged, ledger
    <3>2. CASE \/ ResumeAcknowledged \/ AbandonAttempt \/ OutcomeObserved
               \/ ReportUnknown
      BY <3>2 DEF ResumeAcknowledged, AbandonAttempt, OutcomeObserved, ReportUnknown,
                  FinishEffect, ledger
    <3>3. CASE ReportOutcome
      BY <3>3 DEF ReportOutcome, FinishEffect, VerdictAtClose, Verdicts, ledger
    <3> QED BY <2>2, <3>1, <3>2, <3>3 DEF Execution
  <2>3. CASE ~ Execution
    BY <2>3 DEF Next, Notify, ColdCandidate, Task, FirstRead, FirstReadFails,
       AttachRecurrence, SkipIneligible, AwaitLock, AcquireLock, ExpireLease, Robot,
       Connect, Disconnect, FlowFrame, CommandsFrame, Environment, MatcherFinishes,
       OperatorCancels, LeaseLapses, Crash, Stop, FinishEffect, Start, ledger
  <2> QED BY <2>1, <2>2, <2>3
<1> QED BY <1>1, RecoveryInvariantHolds, PTL DEF Safety
=============================================================================
