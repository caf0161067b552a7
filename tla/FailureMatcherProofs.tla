------------------------ MODULE FailureMatcherProofs ------------------------
(***************************************************************************)
(* Machine-checked coverage of the pending failures, for every set of      *)
(* rows, every size of the queue and every reconciliation limit.           *)
(***************************************************************************)
EXTENDS FailureMatcher, SequenceTheorems, TLAPS

-----------------------------------------------------------------------------
(* The queue.                                                              *)

\* put_nowait keeps what is queued, and the new signal is queued or lost.
LEMMA PutKeeps ==
  ASSUME TypeOK, NEW s \in Signals, Put(s)
  PROVE  /\ queue' \in Seq(Signals) /\ Len(queue') <= QueueMax
         /\ lost' \in SUBSET Signals
         /\ Queued \subseteq Queued' /\ lost \subseteq lost' \cup Queued'
         /\ s \in Queued' \cup lost'
<1> USE DEF TypeOK, Put, Queued
<1>1. CASE Len(queue) < QueueMax
  <2> DEFINE q == Append(queue, s)
  <2>1. /\ q \in Seq(Signals) /\ Len(q) = Len(queue) + 1 /\ q[Len(q)] = s
        /\ \A i \in 1 .. Len(queue) : q[i] = queue[i]
    OBVIOUS
  <2>2. queue' = q /\ lost' = lost \ {s}
    BY <1>1
  <2> HIDE DEF q
  <2> QED BY <1>1, <2>1, <2>2, MatcherAssumption
<1>2. CASE ~ (Len(queue) < QueueMax)
  BY <1>2
<1> QED BY <1>1, <1>2

\* The head is the only signal that leaves the queue.
LEMMA HeadLeaves ==
  ASSUME TypeOK, queue # <<>>, queue' = Tail(queue)
  PROVE  /\ Head(queue) \in Signals
         /\ queue' \in Seq(Signals) /\ Len(queue') <= QueueMax
         /\ Queued \subseteq Queued' \cup {Head(queue)}
<1> USE DEF TypeOK
<1>1. /\ Head(queue) \in Signals /\ Tail(queue) \in Seq(Signals)
      /\ Len(Tail(queue)) = Len(queue) - 1
      /\ \A i \in 1 .. Len(Tail(queue)) : Tail(queue)[i] = queue[i + 1]
  BY HeadTailProperties
<1>2. Head(queue) = queue[1]
  OBVIOUS
<1>3. ASSUME NEW i \in 1 .. Len(queue)
      PROVE  queue[i] \in Queued' \cup {Head(queue)}
  <2>1. CASE i = 1
    BY <1>2, <2>1
  <2>2. CASE i # 1
    <3>1. i - 1 \in 1 .. Len(queue') /\ queue'[i - 1] = queue[i]
      BY <1>1, <2>2
    <3> QED BY <3>1 DEF Queued
  <2> QED BY <2>1, <2>2
<1> QED BY <1>1, <1>3, MatcherAssumption DEF Queued

-----------------------------------------------------------------------------
(* Writes to a row.                                                        *)

Statuses == {"absent", "pending", "matching"} \cup Decisions

\* What every write of a status leaves true: events of subscribed channels
\* are kept, and a row that changed is announced.
Announced ==
  /\ matcher' \in [Failures -> Statuses]
  /\ coming' \in SUBSET Signals
  /\ coming \subseteq coming'
  /\ conn \in Subscribed =>
       \A f \in Failures : matcher'[f] # matcher[f] => f \in coming'

\* A database write tells whoever subscribes: _finish_failure and Postgres CDC.
LEMMA WriteAnnounces ==
  ASSUME TypeOK, NEW f \in Failures, NEW status \in Statuses, Write(f, status)
  PROVE  Announced
BY DEF TypeOK, Write, Publish, Announced, Statuses, Signals

\* A request that may land announces what it does, and only a row that was
\* being matched becomes a suggestion.
LEMMA LandingAnnounces ==
  ASSUME TypeOK,
         \/ RequestMayLand
         \/ phase = "claim" /\ ClaimRow(work) /\ UNCHANGED notified
         \/ phase = "finish" /\ FinishRow(work)
  PROVE  /\ Announced
         /\ notified' \in SUBSET Failures
         /\ conn \in Subscribed => notified \subseteq notified' \cup coming'
         /\ \A f \in Failures : matcher'[f] = "pending" => matcher[f] = "pending"
<1> USE DEF TypeOK, Statuses
<1>1. CASE NoWrite /\ UNCHANGED notified
  BY <1>1 DEF NoWrite, Announced
<1>2. CASE phase = "claim" /\ ClaimRow(work) /\ UNCHANGED notified
  <2>1. CASE Write(work, "matching")
    <3>1. work \in Failures /\ "matching" \in Statuses
      BY <1>2
    <3>2. Announced
      BY <2>1, <3>1, WriteAnnounces
    <3> QED BY <1>2, <2>1, <3>1, <3>2 DEF Write
  <2>2. CASE NoWrite
    BY <1>2, <2>2 DEF NoWrite, Announced
  <2> QED BY <1>2, <2>1, <2>2 DEF ClaimRow
<1>3. CASE phase = "finish" /\ FinishRow(work)
  <2>1. CASE Write(work, verdict) /\ notified' = notified \ {work}
    <3>1. work \in Failures /\ verdict \in Statuses
      BY <1>3
    <3>2. Announced
      BY <2>1, <3>1, WriteAnnounces
    <3> QED BY <1>3, <2>1, <3>1, <3>2 DEF Write, Publish, Decisions
  <2>2. CASE NoWrite /\ UNCHANGED notified
    BY <1>3, <2>2 DEF NoWrite, Announced
  <2> QED BY <1>3, <2>1, <2>2 DEF FinishRow
<1> QED BY <1>1, <1>2, <1>3 DEF RequestMayLand

-----------------------------------------------------------------------------
(* Coverage survives every step that forgets no signal.                    *)

\* The signals a step may take out of the queue, the channel or the
\* reconciliation are those it puts elsewhere.
LEMMA CoverageStays ==
  ASSUME MatcherInv, TypeOK',
         conn' \in {"failures", "up"} => conn' = conn,
         \A f \in Failures : Underway(f) =>
           Underway(f)' \/ (work' = f /\ phase' = "learn" /\ f \in notified'),
         \A f \in Failures :
           work = f /\ phase \in {"learn", "read", "claim"} /\ Claimable(f)' =>
             Underway(f)' \/ (work' = f /\ phase' \in {"learn", "read", "claim"}),
         conn \in Subscribed =>
           \A f \in Failures : Claimable(f)' => Claimable(f) \/ Underway(f)',
         conn \in Subscribed =>
           \A f \in Failures : matcher'[f] = "solution_found" =>
             matcher[f] = "solution_found" \/ Underway(f)',
         conn \in Subscribed =>
           \A f \in notified : f \in notified' \/ Underway(f)'
  PROVE  MatcherInv'
<1> USE DEF MatcherInv
<1>1. PendingIsCovered'
  BY DEF PendingIsCovered, Subscribed
<1>2. SuggestionIsAnnounced'
  BY DEF SuggestionIsAnnounced, Suggestions, Subscribed, TypeOK
<1> QED BY <1>1, <1>2

\* Before the tables are read, and after the connection ends, nothing is
\* promised.
LEMMA NothingPromised ==
  ASSUME TypeOK', conn' \in {"down", "resolutions", "closing"}
  PROVE  MatcherInv'
BY DEF MatcherInv, PendingIsCovered, SuggestionIsAnnounced

\* Connecting, subscribing and reading the backlog keep the invariant.
LEMMA ConnectionPreserves ==
  ASSUME MatcherInv, Connection
  PROVE  MatcherInv'
<1> USE DEF MatcherInv
<1>1. CASE Subscribe \/ ConnectFails \/ Disconnect
  <2>1. TypeOK'
    BY <1>1 DEF TypeOK, Subscribe, ConnectFails, Disconnect, NothingOwed, rows,
       worker, Signals
  <2> QED BY <1>1, <2>1, NothingPromised DEF Subscribe, ConnectFails, Disconnect
<1>2. CASE StopWorker \/ Crash
  <2>1. /\ matcher' \in [Failures -> Statuses] /\ coming' \in SUBSET Signals
        /\ notified' \in SUBSET Failures
    <3>1. CASE RequestMayLand
      BY <3>1, LandingAnnounces DEF Announced
    <3>2. CASE NoWrite /\ UNCHANGED notified
      BY <3>2 DEF NoWrite, TypeOK, Statuses
    <3> QED BY <1>2, <3>1, <3>2 DEF StopWorker, Crash
  <2>2. queue' \in Seq(Signals) /\ Len(queue') <= QueueMax
    <3>1. CASE queue' = <<>>
      BY <3>1, MatcherAssumption
    <3>2. CASE queue' = queue
      BY <3>2 DEF TypeOK
    <3> QED BY <1>2, <3>1, <3>2 DEF StopWorker, Crash
  <2>3. TypeOK'
    BY <1>2, <2>1, <2>2 DEF TypeOK, StopWorker, Crash, GiveUp, Decisions, worker, Statuses
  <2> QED BY <1>2, <2>3, NothingPromised DEF StopWorker, Crash
<1>3. CASE ReadPending
  <2> USE <1>3 DEF ReadPending, rows, worker
  <2>1. TypeOK'
    BY DEF TypeOK, Signals, UpToLimit
  <2>2. PendingIsCovered'
    BY DEF PendingIsCovered, Underway, Claimable
  <2>3. SuggestionIsAnnounced'
    BY DEF SuggestionIsAnnounced
  <2> QED BY <2>1, <2>2, <2>3
<1>4. CASE StartWorker
  <2> USE <1>4 DEF StartWorker, rows, worker
  <2>0. PICK cold \in SUBSET Suggestions :
          \E told \in UpToLimit(cold) :
            /\ notified' = notified \cup told \cup (Suggestions \ cold)
            /\ lost' = lost \cup (cold \ told)
    OBVIOUS
  <2>1. PICK told \in UpToLimit(cold) :
          /\ notified' = notified \cup told \cup (Suggestions \ cold)
          /\ lost' = lost \cup (cold \ told)
    BY <2>0
  <2>2. told \subseteq cold /\ Suggestions' = Suggestions
    BY DEF UpToLimit, Suggestions
  <2>3. TypeOK'
    BY <2>1, <2>2 DEF TypeOK, Suggestions, Signals
  <2>4. PendingIsCovered'
    BY <2>1 DEF PendingIsCovered, Underway, Claimable, Queued
  <2>5. SuggestionIsAnnounced'
    BY <2>1, <2>2 DEF SuggestionIsAnnounced, Underway
  <2> QED BY <2>3, <2>4, <2>5
<1>5. ASSUME NEW s \in Signals, EnqueueFound(s) \/ Deliver(s)
      PROVE  MatcherInv'
  <2>1. /\ queue' \in Seq(Signals) /\ Len(queue') <= QueueMax
        /\ lost' \in SUBSET Signals
        /\ Queued \subseteq Queued' /\ lost \subseteq lost' \cup Queued'
        /\ s \in Queued' \cup lost'
    BY <1>5, PutKeeps DEF EnqueueFound, Deliver
  <2>2. TypeOK'
    BY <1>5, <2>1 DEF TypeOK, EnqueueFound, Deliver, rows, worker
  <2>3. \A f \in Failures : Underway(f) => Underway(f)'
    BY <1>5, <2>1 DEF EnqueueFound, Deliver, Underway
  <2>4. UNCHANGED <<matcher, analysed, conn, work, phase, notified>>
    BY <1>5 DEF EnqueueFound, Deliver, rows, worker
  <2> QED BY <2>2, <2>3, <2>4, CoverageStays DEF Claimable
<1>6. CASE Reconcile
  <2> USE <1>6 DEF Reconcile, rows, worker
  <2>1. notified \subseteq notified' /\ notified' \in SUBSET Failures
    BY DEF UpToLimit, Suggestions, TypeOK
  <2>2. TypeOK'
    BY <2>1 DEF TypeOK
  <2>3. \A f \in Failures : Underway(f) => Underway(f)'
    BY DEF Underway, Queued
  <2>4. UNCHANGED <<matcher, analysed, conn, work, phase>>
    OBVIOUS
  <2> QED BY <2>1, <2>2, <2>3, <2>4, CoverageStays DEF Claimable
<1>7. CASE Outage
  <2> USE <1>7 DEF Outage, rows, worker
  <2>1. TypeOK'
    BY DEF TypeOK
  <2>2. \A f \in Failures : Underway(f) => Underway(f)'
    BY DEF Underway, Queued
  <2>3. UNCHANGED <<matcher, analysed, conn, work, phase, notified>>
    OBVIOUS
  <2> QED BY <2>1, <2>2, <2>3, CoverageStays DEF Claimable
<1> QED BY <1>1, <1>2, <1>3, <1>4, <1>5, <1>6, <1>7 DEF Connection

\* The worker of _process_failures keeps the invariant.
LEMMA WorkerPreserves ==
  ASSUME MatcherInv, Worker
  PROVE  MatcherInv'
<1> USE DEF MatcherInv
<1>1. CASE Take
  <2>1. /\ Head(queue) \in Signals
        /\ queue' \in Seq(Signals) /\ Len(queue') <= QueueMax
        /\ Queued \subseteq Queued' \cup {Head(queue)}
    BY <1>1, HeadLeaves DEF Take
  <2>2. TypeOK'
    BY <1>1, <2>1, MatcherAssumption DEF TypeOK, Take, rows
  <2>3. \A f \in Failures :
          Underway(f) => \/ Underway(f)'
                         \/ work' = f /\ phase' = "learn" /\ f \in notified'
    BY <1>1, <2>1 DEF Take, Underway
  <2>4. /\ UNCHANGED <<matcher, analysed, conn>> /\ notified \subseteq notified'
        /\ work = Nobody
    BY <1>1 DEF Take, rows
  <2> QED BY <2>2, <2>3, <2>4, CoverageStays, MatcherAssumption DEF Claimable, Signals
<1>2. CASE Learn \/ ReadRow \/ Match \/ NotifyAgain
  <2> USE <1>2 DEF Learn, ReadRow, Match, NotifyAgain, GiveUp, Decisions, Working, rows
  <2>1. TypeOK'
    BY MatcherAssumption DEF TypeOK
  <2>2. \A f \in Failures : Underway(f) => Underway(f)'
    BY DEF Underway, Queued
  <2>3. \A f \in Failures :
          work = f /\ phase \in {"learn", "read", "claim"} /\ Claimable(f)' =>
            work' = f /\ phase' \in {"learn", "read", "claim"}
    BY MatcherAssumption DEF Claimable, TypeOK
  <2>4. UNCHANGED <<matcher, analysed, conn>> /\ notified \subseteq notified'
    OBVIOUS
  <2> QED BY <2>1, <2>2, <2>3, <2>4, CoverageStays DEF Claimable
<1>3. CASE Claim \/ Finish \/ FinishFails \/ SignalFails
  <2> USE <1>3 DEF Claim, Finish, FinishFails, SignalFails, GiveUp, Decisions, Working
  <2>1. /\ Announced
        /\ notified' \in SUBSET Failures
        /\ conn \in Subscribed => notified \subseteq notified' \cup coming'
        /\ \A f \in Failures : matcher'[f] = "pending" => matcher[f] = "pending"
    BY LandingAnnounces
  <2>2. TypeOK'
    <3>1. /\ work' \in Signals \cup {Nobody} /\ lost' \in SUBSET Signals
          /\ verdict' \in Decisions
          /\ phase' \in {"idle", "learn", "read", "claim", "match", "finish", "notify"}
      BY DEF TypeOK, Decisions
    <3>2. /\ phase' = "idle" <=> work' = Nobody
          /\ phase' \notin {"idle", "learn"} => work' \in Failures
      BY MatcherAssumption DEF TypeOK
    <3> QED BY <2>1, <3>1, <3>2 DEF TypeOK, Announced, Statuses
  <2>3. \A f \in Failures : Underway(f) => Underway(f)'
    BY <2>1 DEF Underway, Queued, Announced
  <2>4. \A f \in Failures :
          work = f /\ phase \in {"learn", "read", "claim"} /\ Claimable(f)' => Underway(f)'
    <3>1. CASE Claim
      BY <3>1 DEF ClaimRow, Write, NoWrite, Claimable, TypeOK
    <3>2. CASE SignalFails
      BY <3>2 DEF Underway
    <3> QED BY <3>1, <3>2
  <2>5. \A f \in Failures : Claimable(f)' => Claimable(f)
    BY <2>1 DEF Claimable
  <2>6. conn \in Subscribed =>
          \A f \in Failures : matcher'[f] # matcher[f] \/ f \in notified \ notified' =>
            Underway(f)'
    BY <2>1 DEF Announced, Underway
  <2> QED BY <2>2, <2>3, <2>4, <2>5, <2>6, CoverageStays DEF TypeOK
<1> QED BY <1>1, <1>2, <1>3 DEF Worker

\* New failures, breaking connections and crashes keep the invariant.
LEMMA EnvironmentPreserves ==
  ASSUME MatcherInv, Environment
  PROVE  MatcherInv'
<1> USE DEF MatcherInv
<1>1. ASSUME NEW f \in Failures,
             Insert(f) \/ CompleteAnalysis(f) \/ MarkNonExecutable(f)
      PROVE  MatcherInv'
  <2> USE <1>1 DEF Insert, CompleteAnalysis, MarkNonExecutable, worker
  <2>1. /\ matcher' \in [Failures -> Statuses]
        /\ coming' \in SUBSET Signals /\ coming \subseteq coming'
        /\ conn \in Subscribed => f \in coming'
        /\ \A g \in Failures \ {f} : matcher'[g] = matcher[g]
    <3>1. CASE Write(f, "pending") \/ Write(f, "no_solution")
      BY <3>1 DEF Write, Publish, TypeOK, Statuses, Signals, Decisions
    <3>2. CASE CompleteAnalysis(f)
      BY <3>2 DEF Publish, TypeOK, Statuses, Signals
    <3> QED BY <3>1, <3>2
  <2>2. TypeOK'
    BY <2>1 DEF TypeOK, Statuses, Decisions
  <2>3. \A g \in Failures : Underway(g) => Underway(g)'
    BY <2>1 DEF Underway, Queued
  <2>4. conn \in Subscribed => Underway(f)'
    BY <2>1 DEF Underway
  <2>5. \A g \in Failures \ {f} : Claimable(g)' = Claimable(g)
    BY <2>1 DEF Claimable
  <2>6. UNCHANGED <<conn, work, phase, notified>>
    OBVIOUS
  <2> QED BY <2>1, <2>2, <2>3, <2>4, <2>5, <2>6, CoverageStays
<1>2. ASSUME NEW s \in Signals, Touch(s)
      PROVE  MatcherInv'
  <2> USE <1>2 DEF Touch, rows, worker
  <2>1. TypeOK'
    BY DEF TypeOK
  <2>2. \A g \in Failures : Underway(g) => Underway(g)'
    BY DEF Underway, Queued
  <2>3. UNCHANGED <<matcher, analysed, conn, work, phase, notified>>
    OBVIOUS
  <2> QED BY <2>1, <2>2, <2>3, CoverageStays DEF Claimable
<1> QED BY <1>1, <1>2 DEF Environment

\* The invariant holds before run has connected.
LEMMA InitEstablishes ==
  ASSUME Init
  PROVE  MatcherInv
BY MatcherAssumption
   DEF Init, MatcherInv, TypeOK, PendingIsCovered, SuggestionIsAnnounced, Decisions

\* Every step keeps the invariant.
LEMMA NextPreserves ==
  ASSUME MatcherInv, [Next]_vars
  PROVE  MatcherInv'
<1>1. CASE Next
  BY <1>1, ConnectionPreserves, WorkerPreserves, EnvironmentPreserves DEF Next
<1>2. CASE UNCHANGED vars
  <2> USE <1>2 DEF vars, rows, worker
  <2>1. TypeOK' /\ PendingIsCovered' /\ SuggestionIsAnnounced'
    BY DEF MatcherInv, TypeOK, PendingIsCovered, SuggestionIsAnnounced,
       Suggestions, Claimable, Underway, Queued
  <2> QED BY <2>1 DEF MatcherInv
<1> QED BY <1>1, <1>2

-----------------------------------------------------------------------------
(* The theorems.                                                           *)

\* The inductive invariant of SupabaseAgentRuntime: where each failure is.
THEOREM InvariantHolds ==
  Safety => []MatcherInv
BY InitEstablishes, NextPreserves, PTL DEF Safety

\* Types hold, and the queue never exceeds its size.
THEOREM TypesHold ==
  Safety => []TypeOK
<1>1. MatcherInv => TypeOK
  BY DEF MatcherInv
<1> QED BY <1>1, InvariantHolds, PTL

\* No pending failure falls between the subscription and the tables.
THEOREM PendingFailuresAreCovered ==
  Safety => []PendingIsCovered
<1>1. MatcherInv => PendingIsCovered
  BY DEF MatcherInv
<1> QED BY <1>1, InvariantHolds, PTL

\* No suggestion escapes the coordinator's notice.
THEOREM SuggestionsAreAnnounced ==
  Safety => []SuggestionIsAnnounced
<1>1. MatcherInv => SuggestionIsAnnounced
  BY DEF MatcherInv
<1> QED BY <1>1, InvariantHolds, PTL

-----------------------------------------------------------------------------
(* The rows follow FailureDecision.                                        *)

\* What a step may do to the rows: nothing but announce, claim a row, or
\* decide one and forget its announcement.
LEMMA RequestsFollowDecision ==
  ASSUME TypeOK,
         \/ RequestMayLand
         \/ phase = "claim" /\ ClaimRow(work) /\ UNCHANGED notified
         \/ phase = "finish" /\ FinishRow(work)
  PROVE  [Decision!Next]_<<matcher, notified>>
<1> USE DEF TypeOK
<1>1. CASE NoWrite /\ UNCHANGED notified
  BY <1>1 DEF NoWrite
<1>2. CASE phase = "claim" /\ ClaimRow(work) /\ UNCHANGED notified
  <2>1. work \in Failures
    BY <1>2
  <2>2. CASE Claimable(work)
    <3>1. Decision!Claim(work)
      BY <1>2, <2>2 DEF ClaimRow, Write, Claimable, Decision!Claim, Decision!Move
    <3> QED BY <2>1, <3>1 DEF Decision!Next
  <2>3. CASE ~ Claimable(work)
    BY <1>2, <2>3 DEF ClaimRow, NoWrite
  <2> QED BY <2>2, <2>3
<1>3. CASE phase = "finish" /\ FinishRow(work)
  <2>1. work \in Failures
    BY <1>3
  <2>2. CASE matcher[work] = "matching"
    <3>1. Decision!Decide(work)
      BY <1>3, <2>2 DEF FinishRow, Write, Decisions, Decision!Decide,
         Decision!Move, Decision!Decisions
    <3> QED BY <2>1, <3>1 DEF Decision!Next
  <2>3. CASE matcher[work] # "matching"
    BY <1>3, <2>3 DEF FinishRow, NoWrite
  <2> QED BY <2>2, <2>3
<1> QED BY <1>1, <1>2, <1>3 DEF RequestMayLand

\* Telling the coordinator is an announcement.
LEMMA TellingFollowsDecision ==
  ASSUME TypeOK, NEW S \in SUBSET Failures, notified' = notified \cup S,
         UNCHANGED matcher
  PROVE  [Decision!Next]_<<matcher, notified>>
BY DEF Decision!Next, Decision!Announce

\* Every step is one of FailureDecision's, or none to it.
LEMMA StepsFollow ==
  ASSUME MatcherInv, [Next]_vars
  PROVE  [Decision!Next]_<<matcher, notified>>
<1> USE DEF MatcherInv
<1>1. CASE UNCHANGED <<matcher, notified>>
  BY <1>1
<1>2. CASE Environment
  <2>1. ASSUME NEW f \in Failures, Insert(f)
        PROVE  Decision!Insert(f)
    BY <2>1 DEF Insert, Write, Decision!Insert, Decision!Move
  <2>2. ASSUME NEW f \in Failures, MarkNonExecutable(f)
        PROVE  Decision!Withdraw(f)
    BY <2>2 DEF MarkNonExecutable, Write, Decision!Withdraw, Decision!Move
  <2> QED BY <1>2, <2>1, <2>2 DEF Environment, CompleteAnalysis, Touch, rows,
             Decision!Next
<1>3. CASE StartWorker \/ Reconcile
  <2>1. notified \subseteq notified' /\ notified' \in SUBSET Failures
    BY <1>3 DEF StartWorker, Reconcile, UpToLimit, Suggestions, TypeOK
  <2>2. notified' = notified \cup notified'
    BY <2>1
  <2> QED BY <1>3, <2>1, <2>2, TellingFollowsDecision DEF StartWorker, Reconcile, rows
<1>4. CASE StopWorker \/ Crash
  BY <1>4, RequestsFollowDecision DEF StopWorker, Crash, NoWrite
<1>11. CASE Subscribe \/ ConnectFails \/ Disconnect
  BY <1>11 DEF Subscribe, ConnectFails, Disconnect, NothingOwed, rows,
     Decision!Next, Decision!Forget
<1>5. CASE Connection
  BY <1>1, <1>3, <1>4, <1>5, <1>11 DEF Connection, ReadPending, EnqueueFound,
     Deliver, Outage, rows
<1>6. CASE Take
  BY <1>6, TellingFollowsDecision DEF Take, rows
<1>7. CASE NotifyAgain
  BY <1>7, TellingFollowsDecision DEF NotifyAgain, Working, TypeOK, rows
<1>8. CASE Claim \/ Finish \/ FinishFails \/ SignalFails
  BY <1>8, RequestsFollowDecision DEF Claim, Finish, FinishFails, SignalFails,
     Working
<1>9. CASE Worker
  BY <1>1, <1>6, <1>7, <1>8, <1>9 DEF Worker, Learn, ReadRow, Match, rows
<1>10. CASE UNCHANGED vars
  BY <1>1, <1>10 DEF vars, rows
<1> QED BY <1>2, <1>5, <1>9, <1>10 DEF Next

\* The rows and their announcements follow the abstract life of a decision:
\* every write of process_failure compares with the status it expects.
THEOREM ImplementsDecision ==
  Safety => FollowsDecision
<1>1. Init => Decision!Init
  BY DEF Init, Decision!Init
<1>2. MatcherInv /\ [Next]_vars => [Decision!Next]_<<matcher, notified>>
  BY StepsFollow
<1> QED BY <1>1, <1>2, InvariantHolds, PTL
           DEF Safety, FollowsDecision, Decision!Spec

\* A decision stands, except for a suggestion that is withdrawn, and no
\* decided row returns to the matcher.
DecidedForGood ==
  \A f \in Failures :
    /\ matcher[f] \in {"no_solution", "failed"} => matcher'[f] = matcher[f]
    /\ matcher[f] = "solution_found" =>
         matcher'[f] \in {"solution_found", "no_solution"}
    /\ matcher[f] = "matching" => matcher'[f] # "pending"

\* _claim_failure and _finish_failure compare with the status they expect: a
\* retried or late write never reopens or overwrites a decision.
THEOREM DecisionsAreFinal ==
  Safety => [][DecidedForGood]_vars
<1>1. MatcherInv /\ [Next]_vars => [DecidedForGood]_vars
  <2> SUFFICES ASSUME MatcherInv, [Next]_vars PROVE DecidedForGood
    OBVIOUS
  <2>1. [Decision!Next]_<<matcher, notified>>
    BY StepsFollow
  <2> QED BY <2>1 DEF DecidedForGood, MatcherInv, TypeOK, Decision!Next,
          Decision!Insert, Decision!Claim, Decision!Decide, Decision!Withdraw,
          Decision!Announce, Decision!Forget, Decision!Move, Decision!Decisions
<1> QED BY <1>1, InvariantHolds, PTL DEF Safety

=============================================================================
