--------------------------- MODULE FailureMatcher ---------------------------
(***************************************************************************)
(* The realtime runtime of resolver.py on top of observer.py: database     *)
(* changes arrive as signals, a bounded queue hands them to ONE worker,    *)
(* and the worker drives each analysed failure from "pending" through      *)
(* "matching" to a decision, notifying the recovery coordinator before and *)
(* after.  Realtime is not durable: every reconnect subscribes first and   *)
(* then reads what is waiting in the tables.                               *)
(*                                                                         *)
(* What a signal says is read back from the table, so a signal is the row  *)
(* it names, and notifications on their way to this process form a set.    *)
(* Signals do get lost while run() takes the connection to be up: lost     *)
(* remembers them, and every new connection starts with nothing excused.   *)
(* What matching computes is the subject of RetrievalLoop, what learning   *)
(* does the subject of MemoryIngestion; here both succeed or fail.         *)
(***************************************************************************)
EXTENDS Integers, Sequences, FiniteSets

CONSTANTS
  Failures,        \* rows of failure_events
  Resolutions,     \* rows of flow_failure_resolutions: resolved and applied
  Nobody,          \* no signal
  QueueMax,        \* maxsize of _fetch_queue
  ReconcileLimit   \* reconcile_limit

Signals == Failures \cup Resolutions

ASSUME MatcherAssumption ==
  /\ Nobody \notin Signals
  /\ Failures \cap Resolutions = {}
  /\ QueueMax \in Nat \ {0} /\ ReconcileLimit \in Nat \ {0}

VARIABLES
  matcher,   \* matcher_status of each row, "absent" before it is inserted
  analysed,  \* rows whose analysis_status is completed
  coming,    \* signals on their way through the subscription
  queue,     \* _fetch_queue
  conn,      \* stage of SupabaseFailureObserver.run
  found,     \* reconciliation rows not yet put into the queue
  work,      \* signal the fetch worker is on
  phase,     \* where the worker is
  verdict,   \* matcher_status the worker is about to write
  notified,  \* rows this connection has told the coordinator of since their decision
  lost       \* rows whose last signal of this connection was dropped

rows   == <<matcher, analysed>>
worker == <<work, phase, verdict>>
vars   == <<rows, coming, queue, conn, found, worker, notified, lost>>

Decisions == {"solution_found", "no_solution", "failed"}

Subscribed == {"resolutions", "failures", "up"}

Claimable(f) == matcher[f] = "pending" /\ f \in analysed

\* rows.order("created_at").limit(reconcile_limit): all, or as many as allowed.
UpToLimit(S) ==
  {T \in SUBSET S : IF T = S THEN Cardinality(T) <= ReconcileLimit
                             ELSE Cardinality(T) = ReconcileLimit}

Suggestions == {f \in Failures : matcher[f] = "solution_found"}

Queued == {queue[i] : i \in 1 .. Len(queue)}

Init ==
  /\ matcher = [f \in Failures |-> "absent"] /\ analysed = {}
  /\ coming = {} /\ queue = <<>>
  /\ conn = "down" /\ found = {}
  /\ work = Nobody /\ phase = "idle" /\ verdict = "no_solution"
  /\ notified = {} /\ lost = {}

-----------------------------------------------------------------------------
(* Writes to a row.  A subscriber is told of each.                         *)

\* Mutant: the subscription is made only after the tables have been read.
PublishLate(f) == coming' = IF conn = "up" THEN coming \cup {f} ELSE coming

Publish(f) == coming' = IF conn \in Subscribed THEN coming \cup {f} ELSE coming

Write(f, status) ==
  /\ matcher' = [matcher EXCEPT ![f] = status]
  /\ Publish(f)

NoWrite == UNCHANGED <<matcher, coming>>

\* _claim_failure: compare and set.
ClaimRow(f) == IF Claimable(f) THEN Write(f, "matching") ELSE NoWrite

\* Mutant: the decision is written whatever the row says by now.
FinishRowUnguarded(f) ==
  /\ Write(f, verdict)
  /\ notified' = notified \ {f}

\* _finish_failure: compare and set.
FinishRow(f) ==
  IF matcher[f] = "matching"
    THEN Write(f, verdict) /\ notified' = notified \ {f}
    ELSE NoWrite /\ UNCHANGED notified

\* The request the worker is waiting for may or may not have been executed
\* when the worker gives up on it.
RequestMayLand ==
  \/ NoWrite /\ UNCHANGED notified
  \/ phase = "claim" /\ ClaimRow(work) /\ UNCHANGED notified
  \/ phase = "finish" /\ FinishRow(work)

-----------------------------------------------------------------------------
(* The queue.                                                              *)

\* Mutant: a queue without maxsize.
PutUnbounded(s) == queue' = Append(queue, s) /\ lost' = lost \ {s}

\* Mutant: a signal for the row the worker has in hand is thought redundant.
PutUnlessInHand(s) ==
  IF Len(queue) < QueueMax
    THEN /\ queue' = IF s = work THEN queue ELSE Append(queue, s)
         /\ lost' = lost \ {s}
    ELSE UNCHANGED queue /\ lost' = lost \cup {s}

\* put_nowait: a signal that does not fit is dropped.
Put(s) ==
  IF Len(queue) < QueueMax
    THEN queue' = Append(queue, s) /\ lost' = lost \ {s}
    ELSE UNCHANGED queue /\ lost' = lost \cup {s}

\* _on_change, _on_resolution_change.
Deliver(s) ==
  /\ conn \in Subscribed /\ s \in coming
  /\ coming' = coming \ {s}
  /\ Put(s)
  /\ UNCHANGED <<rows, conn, found, worker, notified>>

-----------------------------------------------------------------------------
(* Connecting and disconnecting: run, _connect, _disconnect.               *)

\* What a connection owed ends with it; the next one owes everything again.
NothingOwed == coming' = {} /\ lost' = {} /\ notified' = {}

\* Both channels are subscribed, what an older subscription had is gone, and
\* _enqueue_reconciliation reads the resolved resolutions.
Subscribe ==
  /\ conn = "down" /\ work = Nobody
  /\ conn' = "resolutions"
  /\ NothingOwed
  /\ found' \in {S \in SUBSET Resolutions : Cardinality(S) <= ReconcileLimit}
  /\ UNCHANGED <<rows, queue, worker>>

\* Then the pending failures, the oldest up to the limit.
ReadPending ==
  /\ conn = "resolutions" /\ found = {}
  /\ conn' = "failures"
  /\ LET pending == {f \in Failures : Claimable(f)}
     IN  found' \in UpToLimit(pending) /\ lost' = (lost \cup pending) \ found'
  /\ UNCHANGED <<rows, coming, queue, worker, notified>>

EnqueueFound(s) ==
  /\ s \in found
  /\ found' = found \ {s}
  /\ Put(s)
  /\ UNCHANGED <<rows, coming, conn, worker, notified>>

\* The first one belongs to _connect; then the fetch worker starts.  A
\* suggestion whose recovery has begun is known to the coordinator.
StartWorker ==
  /\ conn = "failures" /\ found = {}
  /\ conn' = "up"
  /\ \E cold \in SUBSET Suggestions :
       \E told \in UpToLimit(cold) :
         /\ notified' = notified \cup told \cup (Suggestions \ cold)
         /\ lost' = lost \cup (cold \ told)
  /\ UNCHANGED <<rows, coming, queue, found, worker>>

\* The coordinator's own loop does it again as long as it has a database.
Reconcile ==
  /\ conn # "down"
  /\ \E cold \in SUBSET Suggestions :
       \E told \in UpToLimit(cold) : notified' = notified \cup told
  /\ UNCHANGED <<rows, coming, queue, conn, found, worker, lost>>

\* A step of _connect fails.
ConnectFails ==
  /\ conn \in {"resolutions", "failures"}
  /\ conn' = "down" /\ found' = {}
  /\ NothingOwed
  /\ UNCHANGED <<rows, queue, worker>>

\* The connection is unhealthy for less than disconnect_grace_seconds: run()
\* goes on as if nothing had happened, and what was sent meanwhile is gone.
Outage ==
  /\ conn \in Subscribed
  /\ \E missed \in SUBSET coming \ {{}} :
       coming' = coming \ missed /\ lost' = lost \cup missed
  /\ UNCHANGED <<rows, queue, conn, found, worker, notified>>

\* The connection is lost, or a stop was requested: no event arrives any
\* more, and the worker has the shutdown timeout to empty the queue.
Disconnect ==
  /\ conn = "up"
  /\ conn' = "closing"
  /\ NothingOwed
  /\ UNCHANGED <<rows, queue, found, worker>>

\* What the worker knew of the signal goes with it.
GiveUp ==
  /\ work' = Nobody /\ phase' = "idle"
  /\ verdict' = "no_solution"

\* _stop_fetch_worker, then _disconnect: a signal in hand is lost, those in
\* the queue stay there.
StopWorker ==
  /\ conn = "closing"
  /\ conn' = "down"
  /\ IF work = Nobody
       THEN NoWrite /\ UNCHANGED <<worker, notified, lost>>
       ELSE RequestMayLand /\ GiveUp /\ lost' = lost \cup {work}
  /\ UNCHANGED <<analysed, queue, found>>

\* The process dies, and a new one starts with nothing.
Crash ==
  /\ conn' = "down"
  /\ queue' = <<>> /\ found' = {}
  /\ RequestMayLand
  /\ GiveUp
  /\ UNCHANGED <<analysed, lost>>

-----------------------------------------------------------------------------
(* The fetch worker: _fetch_and_log_safe_row and process_failure.          *)

Working(p) == work # Nobody /\ phase = p

\* Mutant: the newest signal is served first.
TakeNewest ==
  /\ conn \in {"up", "closing"} /\ work = Nobody /\ queue # <<>>
  /\ work' = queue[Len(queue)] /\ queue' = SubSeq(queue, 1, Len(queue) - 1)
  /\ phase' = "learn"
  /\ notified' = notified \cup ({work'} \cap Failures)
  /\ UNCHANGED <<rows, coming, conn, found, verdict, lost>>

\* The coordinator hears of a failure before it is matched.
Take ==
  /\ conn \in {"up", "closing"} /\ work = Nobody /\ queue # <<>>
  /\ work' = Head(queue) /\ queue' = Tail(queue)
  /\ phase' = "learn"
  /\ notified' = notified \cup ({work'} \cap Failures)
  /\ UNCHANGED <<rows, coming, conn, found, verdict, lost>>

\* A resolution is learned; so is one the failure row asks for.
Learn ==
  /\ Working("learn")
  /\ \/ work \in Failures /\ phase' = "read" /\ UNCHANGED <<work, verdict>>
     \/ work \in Resolutions /\ GiveUp
  /\ UNCHANGED <<rows, coming, queue, conn, found, notified, lost>>

\* A row that is not pending, or not analysed yet, is skipped.
ReadRow ==
  /\ Working("read")
  /\ phase' = IF Claimable(work) THEN "claim" ELSE "notify"
  /\ UNCHANGED <<rows, coming, queue, conn, found, work, verdict, notified, lost>>

Claim ==
  /\ Working("claim")
  /\ ClaimRow(work)
  /\ phase' = IF Claimable(work) THEN "match" ELSE "notify"
  /\ UNCHANGED <<analysed, queue, conn, found, work, verdict, notified, lost>>

\* A decision, or an exception the handler turns into "failed".
Match ==
  /\ Working("match")
  /\ verdict' \in Decisions
  /\ phase' = "finish"
  /\ UNCHANGED <<rows, coming, queue, conn, found, work, notified, lost>>

\* After "failed" the exception is raised again: no second notification.
Finish ==
  /\ Working("finish")
  /\ FinishRow(work)
  /\ IF verdict = "failed"
       THEN GiveUp
       ELSE phase' = "notify" /\ verdict' = "no_solution" /\ UNCHANGED work
  /\ UNCHANGED <<analysed, queue, conn, found, lost>>

\* The decision's own reply is lost inside the try block.
FinishFails ==
  /\ Working("finish") /\ verdict # "failed"
  /\ RequestMayLand
  /\ verdict' = "failed"
  /\ UNCHANGED <<analysed, queue, conn, found, work, phase, lost>>

NotifyAgain ==
  /\ Working("notify")
  /\ notified' = notified \cup {work}
  /\ GiveUp
  /\ UNCHANGED <<rows, coming, queue, conn, found, lost>>

\* Any await outside the try block raises, or the write of "failed" does;
\* the worker logs it and goes on to the next signal.
SignalFails ==
  /\ work # Nobody /\ phase # "notify"
  /\ phase = "finish" => verdict = "failed"
  /\ RequestMayLand
  /\ GiveUp
  /\ lost' = lost \cup {work}
  /\ UNCHANGED <<analysed, queue, conn, found>>

-----------------------------------------------------------------------------
(* The other writers of failure_events.                                    *)

\* The analyser inserts a row before its analysis is complete, or after.
Insert(f) ==
  /\ matcher[f] = "absent"
  /\ Write(f, "pending")
  /\ analysed' \in {analysed, analysed \cup {f}}
  /\ UNCHANGED <<queue, conn, found, worker, notified, lost>>

CompleteAnalysis(f) ==
  /\ matcher[f] # "absent" /\ f \notin analysed
  /\ analysed' = analysed \cup {f}
  /\ Publish(f)
  /\ UNCHANGED <<matcher, queue, conn, found, worker, notified, lost>>

\* RecoveryCoordinator withdraws a suggestion that cannot be executed.
MarkNonExecutable(f) ==
  /\ matcher[f] = "solution_found"
  /\ Write(f, "no_solution")
  /\ UNCHANGED <<analysed, queue, conn, found, worker, notified, lost>>

\* Any other column changes, or a resolution does.
Touch(s) ==
  /\ conn \in Subscribed
  /\ s \in Failures => matcher[s] # "absent"
  /\ coming' = coming \cup {s}
  /\ UNCHANGED <<rows, queue, conn, found, worker, notified, lost>>

-----------------------------------------------------------------------------
Connection ==
  \/ Subscribe \/ ReadPending \/ StartWorker \/ Reconcile \/ Outage
  \/ \E s \in Signals : EnqueueFound(s) \/ Deliver(s)
  \/ ConnectFails \/ Disconnect \/ StopWorker \/ Crash

Worker ==
  \/ Take \/ Learn \/ ReadRow \/ Claim \/ Match
  \/ Finish \/ FinishFails \/ NotifyAgain \/ SignalFails

Environment ==
  \/ \E f \in Failures : Insert(f) \/ CompleteAnalysis(f) \/ MarkNonExecutable(f)
  \/ \E s \in Signals : Touch(s)

Next == Connection \/ Worker \/ Environment

Safety == Init /\ [][Next]_vars

\* The event loop runs what is ready, and run() reconnects for ever; nobody
\* promises that a connection breaks or a row changes.
Fairness ==
  /\ \A s \in Signals : WF_vars(Deliver(s)) /\ WF_vars(EnqueueFound(s))
  /\ WF_vars(Subscribe) /\ WF_vars(ReadPending) /\ WF_vars(StartWorker)
  /\ WF_vars(StopWorker)
  /\ WF_vars(Take) /\ WF_vars(Learn) /\ WF_vars(ReadRow) /\ WF_vars(Claim)
  /\ WF_vars(Match) /\ WF_vars(Finish) /\ WF_vars(NotifyAgain)

Spec == Safety /\ Fairness

-----------------------------------------------------------------------------
\* Every variable has its type, and the worker holds a signal exactly when
\* it is busy.
TypeOK ==
  /\ matcher \in [Failures -> {"absent", "pending", "matching"} \cup Decisions]
  /\ analysed \in SUBSET Failures
  /\ coming \in SUBSET Signals
  /\ queue \in Seq(Signals) /\ Len(queue) <= QueueMax
  /\ conn \in {"down", "resolutions", "failures", "up", "closing"}
  /\ found \in SUBSET Signals
  /\ work \in Signals \cup {Nobody}
  /\ phase \in {"idle", "learn", "read", "claim", "match", "finish", "notify"}
  /\ phase = "idle" <=> work = Nobody
  /\ phase \notin {"idle", "learn"} => work \in Failures
  /\ verdict \in Decisions
  /\ notified \in SUBSET Failures
  /\ lost \in SUBSET Signals

\* A signal for the row is on its way to the worker, or the last one that
\* this connection had or should have had was dropped: by an outage, a full
\* queue, the reconciliation limit or an error of the worker.
Underway(f) == f \in coming \cup Queued \cup found \cup lost

\* README.md: "reconciles pending failures on startup, so Realtime is not the
\* durable queue".  Once the tables have been read, every claimable failure
\* is underway or in the hands of the worker before its claim: none falls
\* between the subscription and the read, or between a read that finds its
\* analysis incomplete and the event that completes it, and what an earlier
\* connection dropped is back unless the limit cut it off.
PendingIsCovered ==
  conn \in {"failures", "up"} =>
    \A f \in Failures : Claimable(f) =>
      Underway(f) \/ (work = f /\ phase \in {"learn", "read", "claim"})

\* Every suggestion reaches the coordinator: the present connection has told
\* it of the row since the decision was written, or will.
SuggestionIsAnnounced ==
  conn = "up" => \A f \in Suggestions \ notified : Underway(f)

\* The rows and their announcements go the way FailureDecision describes,
\* through crashes and lost replies: above all a decision is final, even when
\* the reply to the write that made it is lost and the exception handler then
\* tries to write "failed"; only the coordinator may withdraw a suggestion.
Decision == INSTANCE FailureDecision WITH status <- matcher, announced <- notified

FollowsDecision == Decision!Spec

\* While the connection lasts, every claimable failure is claimed unless its
\* signal was dropped, whatever else keeps changing.
PendingIsClaimed ==
  \A f \in Failures :
    conn = "up" /\ Claimable(f) ~> ~ Claimable(f) \/ f \in lost \/ conn # "up"

\* README.md: "changes a pending failure to matching, then solution_found,
\* no_solution, or failed".
MatchingIsDecided ==
  \A f \in Failures : matcher[f] = "matching" ~> matcher[f] \in Decisions

\* The three together are inductive.
MatcherInv ==
  /\ TypeOK
  /\ PendingIsCovered
  /\ SuggestionIsAnnounced
=============================================================================
