------------------------ MODULE RecoveryCoordinator ------------------------
(***************************************************************************)
(* recovery_executor.RecoveryCoordinator: automatic recovery of ONE robot  *)
(* paused at ONE Flow step, from a notified failure row to the end of the  *)
(* recovery session, with everything that can interrupt it: the robot      *)
(* moving or reconnecting, lost RPC replies, lapsed leases, operator       *)
(* cancellation, service stop, crash and restart.                          *)
(*                                                                         *)
(* One robot is enough because the coordinator shares nothing between      *)
(* robots but the database; one step is enough because the session, the    *)
(* active-recovery table and the robot lock are all keyed by it.  Several  *)
(* failure rows of that step (recurrences) compete for it.                 *)
(*                                                                         *)
(* A step of the model is the code between two awaits.  The effect of an   *)
(* RPC and the caller's continuation are one step, with two more outcomes: *)
(* the RPC takes effect but its reply is lost, or it never takes effect.   *)
(***************************************************************************)
EXTENDS Naturals, FiniteSets

CONSTANTS
  Failures,     \* failure_events rows, all of the same robot, Flow and step
  NoFailure,    \* no row
  MaxAttempts,  \* RECOVERY_MAX_ATTEMPTS
  PlanOf,       \* PlanOf[f]: corrections in the plan the matcher chose for f
  MaxPending,   \* _MAX_PENDING_FAILURES
  StartGrace    \* start_grace_seconds > 0

ASSUME CoordinatorAssumption ==
  /\ NoFailure \notin Failures
  /\ MaxAttempts \in Nat \ {0}
  /\ PlanOf \in [Failures -> Nat]
  /\ MaxPending \in Nat
  /\ StartGrace \in BOOLEAN

VARIABLES
  status, attempts, pinned, sent, resumes,   \* see RecoveryLedger
  lapsed,    \* recovery_lease_expires_at has passed
  matcher,   \* matcher_status of each row
  linked,    \* rows whose recovery_session_id names the session
  up,        \* the service process runs
  task,      \* how far the task of each notified failure is
  dirty,     \* _dirty_failure_ids
  phase,     \* where the holder of the robot lock is
  job,       \* the failure it was notified of
  cur,       \* _ActiveRecovery.current_failure_id
  tok,       \* run token it holds (the number of the attempt it claimed)
  done,      \* corrections of that attempt the robot acknowledged
  held,      \* what became of the Flow frame it validated against
  watch,     \* verdict of the outcome predicate over the frames so far
  conn,      \* the robot websocket is connected
  paused,    \* RobotSession.latest_flow is an exact pause at the step
  spec,      \* RobotSession.latest_commands_frame against the plan
  seen       \* history: what the robot showed since the last dispatch

ledger == <<status, attempts, pinned, sent, resumes, lapsed>>
rows   == <<matcher, linked>>
tasks  == <<up, task, dirty>>
worker == <<phase, job, cur, tok, done, held, watch>>
robot  == <<conn, paused, spec>>
vars   == <<ledger, rows, tasks, worker, robot, seen>>

Attempts == 1 .. MaxAttempts
Active   == {"running", "awaiting_outcome"}
Terminal == {"recovered", "unknown", "timed_out", "cancelled"}
Statuses == {"none", "ready", "failed"} \cup Active \cup Terminal

\* A Flow frame as classify_flow_outcome and the predicate tell frames apart.
FlowFrames ==
  {"here",     \* paused at exactly this step
   "jumped",   \* paused at an earlier step
   "moving",   \* in_progress at or before this step
   "halted",   \* aborted or error at or before this step
   "rest",     \* a success status at exactly this step, not completed
   "reset",    \* a success status before this step, not completed
   "past",     \* any status beyond this step
   "done",     \* completed with a success status
   "other"}    \* another Flow, or no readable Flow

Specs == {"none", "ok", "lacks"}   \* no frame, validates, does not validate

\* Phases of the lock holder in the order of _execute_target.  The last eight
\* own a claimed attempt; from "ack" on a command of it may have left.
Owning  == {"claimed", "execute", "ack", "resume_ack", "accept", "watch",
            "close", "abort"}
InLoop  == {"check"} \cup Owning   \* _active_by_pointer is registered
Phases  == {"idle", "reread", "pointer", "commands", "prepare", "prepared",
            "grace"} \cup InLoop
TaskStates == {"none", "reading", "eligible", "ineligible", "queued", "holding"}
Facts   == {"ran", "recurred", "advanced", "rested"}
Verdicts == {"recovered", "failed", "unknown"}
Watches == {"off", "armed", "started"} \cup Verdicts

Init ==
  /\ status = "none" /\ attempts = 0 /\ pinned = 0 /\ lapsed = FALSE
  /\ sent = [k \in Attempts |-> 0]
  /\ resumes = [k \in Attempts |-> 0]
  /\ matcher = [f \in Failures |-> "pending"]
  /\ linked = {}
  /\ up = TRUE
  /\ task = [f \in Failures |-> "none"]
  /\ dirty = {}
  /\ phase = "idle" /\ job = NoFailure /\ cur = NoFailure
  /\ tok = 0 /\ done = 0 /\ held = "none" /\ watch = "off"
  /\ conn = FALSE /\ paused = FALSE /\ spec = "none"
  /\ seen = {}

-----------------------------------------------------------------------------
(* The database: row status as the project RPC mirrors it, and the RPCs.   *)

\* recovery_status in (None, "ready", "failed")
Claimable(f) == f \notin linked \/ status \in {"ready", "failed"}

Holds(k) == status \in Active /\ attempts = k

\* prepare_failure_recovery: a new session pins the row's plan; an existing
\* session of the same robot, Flow and step is returned as it is.
PrepareEffect(f) ==
  /\ linked' = linked \cup {f}
  /\ IF status = "none"
       THEN status' = "ready" /\ pinned' = PlanOf[f]
       ELSE UNCHANGED <<status, pinned>>
  /\ UNCHANGED <<attempts, sent, resumes, lapsed, matcher>>

\* claim_failure_recovery_attempt, behind its ready/failed guard.
ClaimEffect ==
  /\ status \in {"ready", "failed"}
  /\ status' = "running"
  /\ attempts' = attempts + 1
  /\ lapsed' = FALSE
  /\ UNCHANGED <<pinned, sent, resumes>>

\* Mutant: the last failed attempt does not exhaust the session.
FinishEffectWithoutBudget(k, result) ==
  /\ Holds(k)
  /\ result \in {"recovered", "failed"} => status = "awaiting_outcome"
  /\ result = "awaiting_outcome" => status = "running"
  /\ status' = result
  /\ lapsed' = (lapsed /\ status' \in Active)
  /\ UNCHANGED <<attempts, pinned, sent, resumes>>

\* finish_failure_recovery_attempt, bound to the run token.
FinishEffect(k, result) ==
  /\ Holds(k)
  /\ result \in {"recovered", "failed"} => status = "awaiting_outcome"
  /\ result = "awaiting_outcome" => status = "running"
  /\ status' = IF result = "failed" /\ attempts = MaxAttempts
                 THEN "timed_out" ELSE result
  /\ lapsed' = (lapsed /\ status' \in Active)
  /\ UNCHANGED <<attempts, pinned, sent, resumes>>

-----------------------------------------------------------------------------
(* The outcome predicate over the frames that follow the acknowledgement.  *)

\* Mutant: whatever is not progress counts as a failed attempt.
ClassifyOptimistically(frame) ==
  IF frame \in {"done", "past", "rest"} THEN "recovered" ELSE "failed"

\* classify_flow_outcome
Classify(frame) ==
  IF frame \in {"done", "past", "rest"} THEN "recovered"
  ELSE IF frame = "here" THEN "failed" ELSE "unknown"

\* Mutant: the pause published by the jump counts as an outcome.
DecisiveOnJumpPause(frame, started) ==
  frame \in {"done", "past", "rest", "reset", "other", "halted", "here", "jumped"}

\* _execution_outcome_predicate: the jump pause that precedes execution does
\* not count, and neither does progress up to the step.
Decisive(frame, started) ==
  \/ frame \in {"done", "past", "rest", "reset", "other", "halted"}
  \/ started /\ frame \in {"here", "jumped"}

Observe(w, frame) ==
  IF w \notin {"armed", "started"} THEN w
  ELSE IF Decisive(frame, w = "started") THEN Classify(frame)
  ELSE IF frame = "moving" THEN "started" ELSE w

\* What a frame proves about the Flow, given what was proved before.
Learn(facts, frame) ==
  facts \cup (IF frame = "moving" THEN {"ran"} ELSE {})
        \cup (IF frame = "here" /\ "ran" \in facts THEN {"recurred"} ELSE {})
        \cup (IF frame \in {"past", "done"} THEN {"advanced"} ELSE {})
        \cup (IF frame = "rest" THEN {"rested"} ELSE {})

-----------------------------------------------------------------------------
(* Notification: one task per failure id, later notifications coalesced.   *)

Pending == {f \in Failures : task[f] # "none"}

Notify(f) ==
  /\ up
  /\ IF f \in Pending
       THEN dirty' = dirty \cup {f} /\ UNCHANGED task
       ELSE /\ Cardinality(Pending) < MaxPending
            /\ task' = [task EXCEPT ![f] = "reading"]
            /\ UNCHANGED dirty
  /\ UNCHANGED <<ledger, rows, up, worker, robot, seen>>

\* Mutant: the coalesced notification is forgotten.
EndTaskWithoutReplay(f) ==
  /\ task' = [task EXCEPT ![f] = "none"]
  /\ dirty' = dirty \ {f}
  /\ UNCHANGED up

\* The finally block of _process_notified: replay a coalesced notification.
EndTask(f) ==
  /\ task' = [task EXCEPT ![f] = IF f \in dirty THEN "reading" ELSE "none"]
  /\ dirty' = dirty \ {f}
  /\ UNCHANGED up

\* Leaving process_failure with the robot lock held.
Release ==
  /\ EndTask(job)
  /\ phase' = "idle" /\ job' = NoFailure /\ cur' = NoFailure
  /\ tok' = 0 /\ done' = 0 /\ held' = "none" /\ watch' = "off"

\* Every await ends: a coroutine moves on within its process.
Goto(next) ==
  /\ phase' = next
  /\ UNCHANGED tasks

-----------------------------------------------------------------------------
(* process_failure before the robot lock.                                  *)

\* The first fetch: the row as it is now, judged later.
FirstRead(f) ==
  /\ task[f] = "reading"
  /\ task' = [task EXCEPT ![f] =
                IF matcher[f] = "solution_found" /\ Claimable(f)
                  THEN "eligible" ELSE "ineligible"]
  /\ UNCHANGED <<ledger, rows, up, dirty, worker, robot, seen>>

FirstReadFails(f) ==
  /\ task[f] = "reading"
  /\ EndTask(f)
  /\ UNCHANGED <<ledger, rows, worker, robot, seen>>

\* Mutant: the recurrence becomes current although its attach RPC failed.
AttachRecurrenceUnlinked(f) ==
  /\ task[f] \in {"eligible", "ineligible"}
  /\ phase \in InLoop
  /\ linked' \in {linked, linked \cup {f}}
  /\ cur' = f
  /\ EndTask(f)
  /\ UNCHANGED <<ledger, matcher, phase, job, tok, done, held, watch, robot,
                 seen>>

\* A recurrence of the step being recovered joins the session in flight.
AttachRecurrence(f) ==
  /\ task[f] \in {"eligible", "ineligible"}
  /\ phase \in InLoop
  /\ \/ linked' = linked \cup {f} /\ cur' \in {cur, f}
     \/ UNCHANGED <<linked, cur>>
  /\ EndTask(f)
  /\ UNCHANGED <<ledger, matcher, phase, job, tok, done, held, watch, robot,
                 seen>>

SkipIneligible(f) ==
  /\ task[f] = "ineligible"
  /\ phase \notin InLoop
  /\ EndTask(f)
  /\ UNCHANGED <<ledger, rows, worker, robot, seen>>

AwaitLock(f) ==
  /\ task[f] = "eligible"
  /\ phase \notin InLoop
  /\ task' = [task EXCEPT ![f] = "queued"]
  /\ UNCHANGED <<ledger, rows, up, dirty, worker, robot, seen>>

AcquireLock(f) ==
  /\ task[f] = "queued"
  /\ phase = "idle"
  /\ task' = [task EXCEPT ![f] = "holding"]
  /\ phase' = "reread" /\ job' = f
  /\ UNCHANGED <<ledger, rows, up, dirty, cur, tok, done, held, watch, robot,
                 seen>>

-----------------------------------------------------------------------------
(* process_failure and _execute_target under the robot lock, before claim. *)

\* The second fetch; parse_failure_recovery_target rejects any other row.
Reread ==
  /\ phase = "reread"
  /\ \/ /\ matcher[job] = "solution_found" /\ Claimable(job)
        /\ Goto("pointer")
        /\ UNCHANGED <<job, cur, tok, done, held, watch>>
     \/ Release
  /\ UNCHANGED <<ledger, rows, robot, seen>>

\* _fresh_paused_pointer: the frame every later check compares against.
TakePointer ==
  /\ phase = "pointer"
  /\ paused
  /\ held' = "current"
  /\ Goto("commands")
  /\ UNCHANGED <<ledger, rows, job, cur, tok, done, watch, robot, seen>>

\* wait_for_commands for the connection of that frame.
TakeCommands ==
  /\ phase = "commands"
  /\ held # "lost" /\ spec # "none"
  /\ Goto("prepare")
  /\ UNCHANGED <<ledger, rows, job, cur, tok, done, held, watch, robot, seen>>

\* Mutant: the wait for a commands frame has no timeout.
WaitTimesOutForFlowOnly ==
  /\ phase = "pointer"
  /\ Release
  /\ UNCHANGED <<ledger, rows, robot, seen>>

\* Neither wait is unbounded; a later reconciliation pass may try again.
WaitTimesOut ==
  /\ phase \in {"pointer", "commands"}
  /\ Release
  /\ UNCHANGED <<ledger, rows, robot, seen>>

\* _require_live_execution_state: same connection, same newest frame, and a
\* commands frame the plan validates against.
Live == conn /\ held = "current" /\ spec = "ok"

\* RecoveryNonExecutableError takes the row back from the matcher; every
\* other refusal leaves it to reconciliation.
MarkNonExecutable ==
  /\ matcher' = [matcher EXCEPT ![job] =
                   IF @ = "solution_found" THEN "no_solution" ELSE @]
  /\ Release
  /\ UNCHANGED <<ledger, linked, robot, seen>>

RefuseDispatch ==
  /\ phase \in {"prepare", "prepared", "check"}
  /\ ~ Live
  /\ phase = "prepare" => job \notin linked
  /\ \/ held = "current" /\ spec = "lacks" /\ MarkNonExecutable
     \/ Release /\ UNCHANGED <<ledger, rows, robot, seen>>

\* The row's or the session's plan does not validate for this Flow; the
\* write that says so may fail.
RejectPlan ==
  /\ phase \in {"prepare", "prepared"}
  /\ \/ MarkNonExecutable
     \/ Release /\ UNCHANGED <<ledger, rows, robot, seen>>

\* prepare for an unlinked row, project for a linked one; the session that
\* comes back decides.
Prepare ==
  /\ phase = "prepare"
  /\ job \in linked \/ Live
  /\ \/ /\ PrepareEffect(job)
        /\ IF status' \in {"ready", "failed"}
             THEN Goto("prepared") /\ UNCHANGED <<job, cur, tok, done, held, watch>>
             ELSE Release
     \/ PrepareEffect(job) /\ Release
     \/ Release /\ UNCHANGED <<ledger, rows>>
  /\ UNCHANGED <<robot, seen>>

BeginGrace ==
  /\ phase = "prepared"
  /\ Live
  /\ IF StartGrace THEN Goto("grace") /\ UNCHANGED cur
                   ELSE Goto("check") /\ cur' = job
  /\ UNCHANGED <<ledger, rows, job, tok, done, held, watch, robot, seen>>

\* The operator's cancellation window ends with a second project.
EndGrace ==
  /\ phase = "grace"
  /\ \/ /\ status \in {"ready", "failed"}
        /\ Goto("check")
        /\ cur' = job
        /\ UNCHANGED <<job, tok, done, held, watch>>
     \/ Release
  /\ UNCHANGED <<ledger, rows, robot, seen>>

-----------------------------------------------------------------------------
(* The attempt loop of _execute_target, and _execute_attempt.              *)

\* Mutant: a refused claim is taken for a claim of the attempt it names.
ClaimIgnoringRefusal ==
  /\ phase = "check"
  /\ Live
  /\ \/ ClaimEffect
     \/ status \notin {"ready", "failed"} /\ UNCHANGED ledger
  /\ Goto("claimed")
  /\ tok' = attempts' /\ done' = 0
  /\ UNCHANGED <<rows, job, cur, held, watch, robot, seen>>

Claim ==
  /\ phase = "check"
  /\ Live
  /\ \/ /\ ClaimEffect
        /\ linked' = linked \cup {cur}
        /\ UNCHANGED matcher
        /\ \/ /\ Goto("claimed")
              /\ tok' = attempts' /\ done' = 0
              /\ UNCHANGED <<job, cur, held, watch>>
           \/ Release                       \* the reply was lost
     \/ Release /\ UNCHANGED <<ledger, rows>>
  /\ UNCHANGED <<robot, seen>>

\* Nothing is dispatched under a claim whose record is malformed, or whose
\* Flow frame is no longer the newest: the attempt is closed as unknown, or
\* left to its lease when the record is beyond closing.
AcceptClaim ==
  /\ phase = "claimed"
  /\ \/ Live /\ Goto("execute") /\ UNCHANGED <<job, cur, tok, done, held, watch>>
     \/ Goto("abort") /\ UNCHANGED <<job, cur, tok, done, held, watch>>
     \/ Release
  /\ UNCHANGED <<ledger, rows, robot, seen>>

SendCorrection ==
  /\ phase = "execute"
  /\ Live
  /\ done < pinned
  /\ sent' = [sent EXCEPT ![tok] = @ + 1]
  /\ seen' = {}
  /\ Goto("ack")
  /\ UNCHANGED <<status, attempts, pinned, resumes, lapsed, rows,
                 job, cur, tok, done, held, watch, robot>>

SendResume ==
  /\ phase = "execute"
  /\ Live
  /\ done = pinned
  /\ resumes' = [resumes EXCEPT ![tok] = @ + 1]
  /\ seen' = {}
  /\ Goto("resume_ack")
  /\ UNCHANGED <<status, attempts, pinned, sent, lapsed, rows,
                 job, cur, tok, done, held, watch, robot>>

CorrectionAcknowledged ==
  /\ phase = "ack"
  /\ held # "lost"
  /\ done' = done + 1
  /\ Goto("execute")
  /\ UNCHANGED <<ledger, rows, job, cur, tok, held, watch, robot, seen>>

\* From this acknowledgement on every frame counts towards the outcome.
ResumeAcknowledged ==
  /\ phase = "resume_ack"
  /\ held # "lost"
  /\ watch' = "armed"
  /\ Goto("accept")
  /\ UNCHANGED <<ledger, rows, job, cur, tok, done, held, robot, seen>>

\* Mutant: a command without a usable answer is sent again.
ResendUnanswered ==
  /\ phase \in {"ack", "resume_ack"}
  /\ Goto("execute")
  /\ UNCHANGED <<ledger, rows, job, cur, tok, done, held, watch, robot, seen>>

\* Rejected, unanswered, answered by another connection or malformed; or the
\* live state changed between two commands; or the wait for the Flow ended
\* without a verdict.
AbandonAttempt ==
  /\ \/ phase \in {"ack", "resume_ack", "watch"}
     \/ phase = "execute" /\ ~ Live
     \/ phase = "accept" /\ held = "lost"
  /\ Goto("abort")
  /\ UNCHANGED <<ledger, rows, job, cur, tok, done, held, watch, robot, seen>>

\* A finish call raised, whether it took effect or not: a timeout and a
\* malformed reply (RecoveryContractError) are answered by _finish_unknown,
\* any other error leaves _execute_attempt.
FinishRaises ==
  \/ Goto("abort") /\ UNCHANGED <<job, cur, tok, done, held, watch>>
  \/ Release

ReportAccepted ==
  /\ phase = "accept"
  /\ \/ /\ FinishEffect(tok, "awaiting_outcome")
        /\ \/ Goto("watch") /\ UNCHANGED <<job, cur, tok, done, held, watch>>
           \/ FinishRaises
     \/ FinishRaises /\ UNCHANGED ledger
  /\ UNCHANGED <<rows, robot, seen>>

\* wait_for_flow returns the first decisive frame, if still connected.
OutcomeObserved ==
  /\ phase = "watch"
  /\ held # "lost"
  /\ watch \in Verdicts
  /\ Goto("close")
  /\ UNCHANGED <<ledger, rows, job, cur, tok, done, held, watch, robot, seen>>

\* After a failed attempt the loop goes on only from a newest frame that is
\* again an exact pause at the step.
ReportOutcome ==
  /\ phase = "close"
  /\ \/ /\ FinishEffect(tok, watch)
        /\ \/ /\ status' = "failed" /\ paused
              /\ Goto("check")
              /\ held' = "current" /\ tok' = 0 /\ done' = 0 /\ watch' = "off"
              /\ UNCHANGED <<job, cur>>
           \/ FinishRaises
     \/ FinishRaises /\ UNCHANGED ledger
  /\ UNCHANGED <<rows, robot, seen>>

\* _finish_unknown, once: the session may be settled already.
ReportUnknown ==
  /\ phase = "abort"
  /\ FinishEffect(tok, "unknown") \/ UNCHANGED ledger
  /\ Release
  /\ UNCHANGED <<rows, robot, seen>>

-----------------------------------------------------------------------------
(* The robot session: connections, Flow frames and commands frames.        *)

Connect ==
  /\ up /\ ~ conn
  /\ conn' = TRUE /\ paused' = FALSE /\ spec' = "none"
  /\ UNCHANGED <<ledger, rows, tasks, worker, seen>>

Disconnect ==
  /\ conn
  /\ conn' = FALSE /\ paused' = FALSE /\ spec' = "none"
  /\ held' = IF held = "none" THEN "none" ELSE "lost"
  /\ UNCHANGED <<ledger, rows, tasks, phase, job, cur, tok, done, watch, seen>>

\* A frame may fall out of _flow_history before the predicate sees it: from
\* the acknowledgement on frames are kept, but only so many of them while the
\* database is told of it.
FlowFrame(frame) ==
  /\ conn
  /\ paused' = (frame = "here")
  /\ held' = IF held = "current" THEN "stale" ELSE held
  /\ watch' \in IF held = "lost" THEN {watch} ELSE {watch, Observe(watch, frame)}
  /\ seen' = Learn(seen, frame)
  /\ UNCHANGED <<ledger, rows, tasks, phase, job, cur, tok, done, conn, spec>>

CommandsFrame(s) ==
  /\ conn
  /\ spec' = s
  /\ UNCHANGED <<ledger, rows, tasks, worker, conn, paused, seen>>

-----------------------------------------------------------------------------
(* The other parties: matcher, operator, clock, service lifecycle.         *)

\* FailureResolverProcessor finishes the row with or without a suggestion.
MatcherFinishes(f) ==
  /\ up
  /\ matcher[f] = "pending"
  /\ \E verdict \in {"solution_found", "no_solution"} :
       matcher' = [matcher EXCEPT ![f] = verdict]
  /\ UNCHANGED <<ledger, linked, tasks, worker, robot, seen>>

OperatorCancels ==
  /\ status \in {"ready", "failed"}
  /\ status' = "cancelled"
  /\ UNCHANGED <<attempts, pinned, sent, resumes, lapsed, rows, tasks, worker,
                 robot, seen>>

LeaseLapses ==
  /\ status \in Active /\ ~ lapsed
  /\ lapsed' = TRUE
  /\ UNCHANGED <<status, attempts, pinned, sent, resumes, rows, tasks, worker,
                 robot, seen>>

\* Mutant: reconciliation selects only one of the two active statuses.
ExpireLeaseOfAwaiting ==
  /\ up
  /\ status = "awaiting_outcome" /\ lapsed
  /\ status' = "unknown" /\ lapsed' = FALSE
  /\ UNCHANGED <<attempts, pinned, sent, resumes, rows, tasks, worker, robot,
                 seen>>

\* reconcile, first half: a lapsed attempt is ambiguous for ever.
ExpireLease ==
  /\ up
  /\ status \in Active /\ lapsed
  /\ status' = "unknown" /\ lapsed' = FALSE
  /\ UNCHANGED <<attempts, pinned, sent, resumes, rows, tasks, worker, robot,
                 seen>>

\* reconcile, second half: cold_candidates are notified again.
ColdCandidate(f) ==
  /\ matcher[f] = "solution_found"
  /\ Claimable(f)
  /\ Notify(f)

\* Every coroutine is gone; leases, rows and the session stay.
ProcessEnds ==
  /\ up
  /\ up' = FALSE
  /\ task' = [f \in Failures |-> "none"]
  /\ dirty' = {}
  /\ phase' = "idle" /\ job' = NoFailure /\ cur' = NoFailure
  /\ tok' = 0 /\ done' = 0 /\ held' = "none" /\ watch' = "off"
  /\ conn' = FALSE /\ paused' = FALSE /\ spec' = "none"
  /\ UNCHANGED <<rows, seen>>

Crash == ProcessEnds /\ UNCHANGED ledger

\* stop() cancels the tasks.  A task cancelled after a dispatch tries, for a
\* bounded time, to close its attempt; one cancelled before leaves it alone.
Dispatched ==
  \/ phase \in {"ack", "resume_ack", "accept", "watch", "close"}
  \/ phase = "execute" /\ done > 0

Stop ==
  /\ ProcessEnds
  /\ \/ Dispatched /\ FinishEffect(tok, "unknown")
     \/ UNCHANGED ledger

Start ==
  /\ ~ up
  /\ up' = TRUE
  /\ UNCHANGED <<ledger, rows, task, dirty, worker, robot, seen>>

-----------------------------------------------------------------------------
Task(f) ==
  \/ FirstRead(f) \/ FirstReadFails(f)
  \/ AttachRecurrence(f) \/ SkipIneligible(f) \/ AwaitLock(f)
  \/ AcquireLock(f)

Execution ==
  \/ Reread \/ TakePointer \/ TakeCommands \/ WaitTimesOut
  \/ RefuseDispatch \/ RejectPlan \/ Prepare \/ BeginGrace \/ EndGrace
  \/ Claim \/ AcceptClaim \/ SendCorrection \/ SendResume
  \/ CorrectionAcknowledged \/ ResumeAcknowledged \/ AbandonAttempt
  \/ ReportAccepted \/ OutcomeObserved \/ ReportOutcome \/ ReportUnknown

Robot ==
  \/ Connect \/ Disconnect
  \/ \E frame \in FlowFrames : FlowFrame(frame)
  \/ \E s \in {"ok", "lacks"} : CommandsFrame(s)

Environment ==
  \/ \E f \in Failures : MatcherFinishes(f)
  \/ OperatorCancels \/ LeaseLapses \/ Crash \/ Stop \/ Start

Next ==
  \/ \E f \in Failures : Notify(f) \/ Task(f) \/ ColdCandidate(f)
  \/ Execution
  \/ ExpireLease
  \/ Robot
  \/ Environment

\* Coroutines run, RPCs and bounded waits end, asyncio.Lock serves its queue
\* in order, the clock advances, the supervisor restarts the service, and
\* some reconciliation pass reaches the database; nothing is assumed of the
\* robot, the matcher or the operator.
Fairness ==
  /\ WF_vars(Execution)
  /\ \A f \in Failures : WF_vars(Task(f)) /\ SF_vars(AcquireLock(f))
  /\ WF_vars(LeaseLapses)
  /\ WF_vars(Start)
  /\ SF_vars(ExpireLease)

Safety == Init /\ [][Next]_vars
Spec   == Safety /\ Fairness

-----------------------------------------------------------------------------
SessionTypeOK ==
  /\ status \in Statuses /\ attempts \in 0 .. MaxAttempts /\ pinned \in Nat
  /\ sent \in [Attempts -> Nat] /\ resumes \in [Attempts -> Nat]
  /\ lapsed \in BOOLEAN

RowTypeOK ==
  /\ matcher \in [Failures -> {"pending", "solution_found", "no_solution"}]
  /\ linked \subseteq Failures

TaskTypeOK ==
  /\ up \in BOOLEAN /\ task \in [Failures -> TaskStates]
  /\ dirty \subseteq Failures

WorkerTypeOK ==
  /\ phase \in Phases
  /\ job \in Failures \cup {NoFailure} /\ cur \in Failures \cup {NoFailure}
  /\ tok \in 0 .. MaxAttempts /\ done \in Nat
  /\ held \in {"none", "current", "stale", "lost"} /\ watch \in Watches

RobotTypeOK ==
  /\ conn \in BOOLEAN /\ paused \in BOOLEAN /\ spec \in Specs
  /\ seen \subseteq Facts

\* Every variable has its type; in particular the RPCs' ready/failed guard
\* and the timed_out conversion keep attempts within the budget.
TypeOK ==
  SessionTypeOK /\ RowTypeOK /\ TaskTypeOK /\ WorkerTypeOK /\ RobotTypeOK

\* Under one attempt the robot gets at most the pinned corrections, and at
\* most one $resume_flow, only after all of them were sent (README.md: "the
\* exact demonstrated correction actions in order, and ... one guarded
\* $resume_flow continuation"), whatever is lost, cancelled or restarted.
PlanThenOneContinuation ==
  \A k \in Attempts :
    /\ resumes[k] <= 1
    /\ sent[k] <= pinned
    /\ resumes[k] = 1 => sent[k] = pinned

\* A session is failed (or out of attempts) only after the robot was seen
\* executing again and then paused at the same step since the last command;
\* it is recovered only after the Flow was seen beyond the step, or at rest
\* in a success status.
SettledByObservation ==
  /\ status \in {"failed", "timed_out"} => "recurred" \in seen
  /\ status = "recovered" => seen \cap {"advanced", "rested"} # {}

\* The failure row an attempt is claimed for belongs to the session, however
\* recurrences join it and whichever of their RPCs fail.
ClaimedRowIsLinked == phase \in InLoop => cur \in linked

Dispatches == sent' # sent \/ resumes' # resumes

\* A command leaves only under the newest claim, and never while the session
\* waits for its outcome, is ready, settled or cancelled: a command is never
\* sent again after an outcome was recorded.  ("unknown" can be written by
\* lease expiry under a worker that is still executing.)  And it leaves only
\* for a robot that is connected, whose newest Flow frame is a pause at the
\* step and whose newest action spec allows the plan, however many frames
\* came and went while the attempt was prepared (_require_live_execution_state).
DispatchUnderNewestClaim ==
  [][Dispatches => /\ tok = attempts /\ status \in {"running", "unknown"}
                   /\ conn /\ paused /\ spec = "ok"]_vars

\* The first command of a further attempt leaves only after a definitive
\* recurrence of the failed step (README.md: an ambiguous outcome "is not
\* sent again. A definitive recurrence ... consumes another attempt").
RetryNeedsRecurrence ==
  [][Dispatches /\ tok > 1 /\ sent[tok] = 0 /\ resumes[tok] = 0
       => "recurred" \in seen]_vars

\* Whatever the robot and the database do, the robot lock is given back.
LockReleased == phase # "idle" ~> phase = "idle"

\* A notification that arrives while its failure is being processed leads to
\* another read of the row, unless the service stops.
NotificationReplayed ==
  \A f \in Failures :
    f \in dirty ~> f \notin dirty /\ (task[f] = "reading" \/ ~ up)

\* The detailed specification implements the ledger's promise, with what the
\* database holds and what left for the robot.  The promise includes that no
\* attempt stays claimed for ever: its worker settles it, or its lease lapses
\* and reconciliation closes it.
Ledger == INSTANCE RecoveryLedger
  WITH status <- status, attempts <- attempts, pinned <- pinned,
       sent <- sent, resumes <- resumes
LedgerSafety == Ledger!LedgerSafety
LedgerPromise == Ledger!LedgerSpec

-----------------------------------------------------------------------------
(* Why the safety properties hold: the inductive invariant.                *)

\* A worker that owns an attempt owns the newest one, and the session is where
\* that worker left it unless its lease was expired under it; only when it
\* gives the attempt up may an outcome it reported stand already.
Ownership ==
  /\ phase \in Owning => tok = attempts /\ tok \in Attempts
  /\ phase \in Owning \ {"abort"} =>
       status \in {"running", "awaiting_outcome", "unknown"}
  /\ phase \in {"claimed", "execute", "ack", "resume_ack", "accept"} =>
       status \in {"running", "unknown"}
  /\ watch # "off" => phase \in {"accept", "watch", "close", "abort"}

\* A failed session has budget left, a session never claimed has used none.
Lifecycle ==
  /\ status \in {"none", "ready"} => attempts = 0
  /\ status = "failed" => attempts \in 1 .. MaxAttempts - 1

\* No command under an attempt that was not claimed yet; under the claimed
\* one, the worker's place tells exactly what left.
Accounting ==
  /\ \A k \in Attempts : k > attempts => sent[k] = 0 /\ resumes[k] = 0
  /\ phase \in {"claimed", "execute"} =>
       sent[tok] = done /\ done <= pinned /\ resumes[tok] = 0
  /\ phase = "ack" =>
       sent[tok] = done + 1 /\ done < pinned /\ resumes[tok] = 0
  /\ phase \in {"resume_ack", "accept", "watch", "close"} => resumes[tok] = 1

\* The verdict being formed rests on frames seen since the last command, and
\* a further attempt rests on the recurrence that ended the one before.
Evidence ==
  /\ watch = "started" => "ran" \in seen
  /\ watch = "failed" => "recurred" \in seen
  /\ watch = "recovered" => seen \cap {"advanced", "rested"} # {}
  /\ phase \in {"claimed", "execute"} /\ tok > 1 /\ sent[tok] = 0 =>
       "recurred" \in seen

\* An outcome is reported only once the predicate has decided.
VerdictAtClose == phase = "close" => watch \in Verdicts

\* Only an existing failure row is executed, and it is linked before its
\* session can be claimed.
RowBinding ==
  /\ phase # "idle" => job \in Failures
  /\ phase \in {"prepared", "grace"} => job \in linked

CoordinatorInv ==
  /\ TypeOK
  /\ Ownership /\ Lifecycle /\ Accounting /\ Evidence
  /\ VerdictAtClose /\ RowBinding
  /\ PlanThenOneContinuation /\ SettledByObservation /\ ClaimedRowIsLinked

\* One task for each failure and no more than _MAX_PENDING_FAILURES; a
\* coalesced notification has a task that will replay it; exactly one task
\* has the robot lock while it is held, and none outlives the process.
TaskInv ==
  /\ IsFiniteSet(Pending) /\ Cardinality(Pending) <= MaxPending
  /\ dirty \subseteq Pending
  /\ \A f \in Failures : task[f] = "holding" <=> phase # "idle" /\ job = f
  /\ ~ up => Pending = {}

\* Frames belong to the connection they arrived on, and the frame the lock
\* holder validated against is the newest one, a pause at the step, as long
\* as it counts as current.
FrameInv ==
  /\ ~ up => ~ conn
  /\ ~ conn => ~ paused /\ spec = "none"
  /\ held = "current" => conn /\ paused
  /\ held = "none" <=> phase \in {"idle", "reread", "pointer"}

\* The attempt is accepted only after every command of it.
AllAcknowledged == phase \in {"resume_ack", "accept"} => done = pinned

RecoveryInv == CoordinatorInv /\ TaskInv /\ FrameInv /\ AllAcknowledged
=============================================================================
