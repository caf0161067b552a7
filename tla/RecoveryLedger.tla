-------------------------- MODULE RecoveryLedger --------------------------
(***************************************************************************)
(* What the service promises about ONE database-backed recovery session,   *)
(* seen from outside: the durable session record (status, attempts, pinned *)
(* plan) together with the commands that ever left for the robot under it. *)
(*                                                                         *)
(* The session belongs to one (robot, Flow, step).  Its record lives in    *)
(* the Supabase table failure_recovery_sessions and changes only through   *)
(* the RPCs that recovery_executor.SupabaseRecoveryDatabase calls; their   *)
(* SQL is not in the repository, so the transitions below are the ones the *)
(* callers rely on (the lifecycle parse_recovery_session accepts, and the  *)
(* guards the comments at the call sites name).                            *)
(*                                                                         *)
(* RecoveryCoordinator.tla is the detailed specification; it is checked    *)
(* and proved to implement this one.                                       *)
(***************************************************************************)
EXTENDS Naturals

CONSTANT MaxAttempts    \* RecoveryExecutionSettings.max_attempts

VARIABLES
  status,    \* recovery_status; "none" before the first prepare RPC
  attempts,  \* recovery_attempts; also the identity of the newest run token
  pinned,    \* the pinned plan, abstracted to its number of corrections
  sent,      \* sent[k]: correction commands dispatched under attempt k
  resumes    \* resumes[k]: $resume_flow commands dispatched under attempt k

ledgerVars == <<status, attempts, pinned, sent, resumes>>

Active   == {"running", "awaiting_outcome"}
Terminal == {"recovered", "unknown", "timed_out", "cancelled"}
Statuses == {"none", "ready", "failed"} \cup Active \cup Terminal

Attempts == 1 .. MaxAttempts

LedgerTypeOK ==
  /\ status \in Statuses
  /\ attempts \in 0 .. MaxAttempts
  /\ pinned \in Nat
  /\ sent \in [Attempts -> Nat]
  /\ resumes \in [Attempts -> Nat]

LedgerInit ==
  /\ status = "none"
  /\ attempts = 0
  /\ pinned = 0
  /\ sent = [k \in Attempts |-> 0]
  /\ resumes = [k \in Attempts |-> 0]

-----------------------------------------------------------------------------
\* The plan is frozen once, when the session is first prepared.
Pin ==
  /\ status = "none"
  /\ status' = "ready"
  /\ pinned' \in Nat
  /\ UNCHANGED <<attempts, sent, resumes>>

\* An attempt starts from never-sent work or from a confirmed recurrence.
BeginAttempt ==
  /\ status \in {"ready", "failed"}
  /\ attempts < MaxAttempts
  /\ status' = "running"
  /\ attempts' = attempts + 1
  /\ UNCHANGED <<pinned, sent, resumes>>

\* Commands leave only under the newest attempt, corrections first, and no
\* command of any kind follows that attempt's continuation.  "unknown" is
\* among the statuses because a lease can be expired under a worker that is
\* still executing its attempt.
SendCorrection ==
  /\ status \in {"running", "unknown"}
  /\ attempts \in Attempts
  /\ resumes[attempts] = 0
  /\ sent[attempts] < pinned
  /\ sent' = [sent EXCEPT ![attempts] = @ + 1]
  /\ UNCHANGED <<status, attempts, pinned, resumes>>

SendResume ==
  /\ status \in {"running", "unknown"}
  /\ attempts \in Attempts
  /\ resumes[attempts] = 0
  /\ sent[attempts] = pinned
  /\ resumes' = [resumes EXCEPT ![attempts] = 1]
  /\ UNCHANGED <<status, attempts, pinned, sent>>

\* The robot acknowledged the continuation of this attempt.
AwaitOutcome ==
  /\ status = "running"
  /\ attempts \in Attempts
  /\ resumes[attempts] = 1
  /\ status' = "awaiting_outcome"
  /\ UNCHANGED <<attempts, pinned, sent, resumes>>

\* An observed outcome; the last failed attempt exhausts the budget.
Settle ==
  /\ status = "awaiting_outcome"
  /\ status' \in {"recovered",
                  IF attempts = MaxAttempts THEN "timed_out" ELSE "failed"}
  /\ UNCHANGED <<attempts, pinned, sent, resumes>>

\* Anything ambiguous, from any active state.
GiveUp ==
  /\ status \in Active
  /\ status' = "unknown"
  /\ UNCHANGED <<attempts, pinned, sent, resumes>>

\* The operator withdraws a session that is not being executed.
Withdraw ==
  /\ status \in {"ready", "failed"}
  /\ status' = "cancelled"
  /\ UNCHANGED <<attempts, pinned, sent, resumes>>

LedgerNext ==
  \/ Pin
  \/ BeginAttempt
  \/ SendCorrection
  \/ SendResume
  \/ AwaitOutcome
  \/ Settle
  \/ GiveUp
  \/ Withdraw

LedgerSafety == LedgerInit /\ [][LedgerNext]_ledgerVars

\* Every attempt that began is eventually settled or given up.
LedgerSpec == LedgerSafety /\ WF_ledgerVars(Settle \/ GiveUp)
=============================================================================
