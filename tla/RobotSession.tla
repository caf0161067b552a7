---------------------------- MODULE RobotSession ----------------------------
(***************************************************************************)
(* robot_session.RobotSession: one reconnecting duplex socket to a robot,  *)
(* commands correlated with their answers by request id, and a numbered    *)
(* history of the Flow frames the robot publishes, from which the outcome  *)
(* of a command is taken.                                                  *)
(*                                                                         *)
(* The robot answers in the order it acts and its messages arrive in       *)
(* order, but a connection may break at any time, and an answer may come   *)
(* over a later connection, or never.  Each Flow frame carries the ghost   *)
(* "after": the commands the robot had accepted when it published it.      *)
(***************************************************************************)
EXTENDS Integers, Sequences, FiniteSets

CONSTANTS
  Requests,       \* calls of request_command, each followed by a wait
  Nobody,         \* no request
  HistoryLimit,   \* _FLOW_HISTORY_LIMIT
  MaxGeneration,  \* bound on the connections
  MaxRevision     \* bound on the Flow frames

ASSUME SessionAssumption ==
  /\ Nobody \notin Requests
  /\ HistoryLimit \in Nat \ {0}
  /\ MaxGeneration \in Nat /\ MaxRevision \in Nat

VARIABLES
  conn,        \* "up"; "broken": dead but not yet invalidated; "rejecting";
               \* "down"
  generation,  \* _connection_generation
  inbound,     \* messages of the robot on their way, in order
  published,   \* Flow frames the robot has published
  received,    \* commands that reached the robot
  accepted,    \* those it acknowledged
  refused,     \* those it answered with an error
  revision,    \* _flow_revision
  history,     \* _flow_history
  lock,        \* holder of _send_lock
  pending,     \* _pending
  call,        \* where each request_command is
  born,        \* generation it started in
  future,      \* state of its future
  ackRevision, \* flow_revision_at_correlated_ack
  result,      \* what request_command returned or raised
  wait,        \* what became of the wait_for_flow that follows
  cursor,      \* its cursor
  basis        \* ghost of the frame it returned

link     == <<conn, generation>>
robot    == <<published, received, accepted, refused>>
frames   == <<revision, history>>
request  == <<lock, pending, call, born, future, ackRevision, result>>
waiting  == <<wait, cursor, basis>>
vars     == <<link, inbound, robot, frames, request, waiting>>

Open(r) == r \in pending /\ future[r] = "open"

Connected == conn \in {"up", "broken"}

\* What an answer amounts to: a receipt, an error, or nothing that makes
\* sense.
Says == {"receipt", "rejected", "unknown"}

Message == [answer : Requests \cup {Nobody}, says : Says, flow : BOOLEAN,
            after : SUBSET Requests]

\* Frames numbered up to n.
Frame(n) == [revision : 1 .. n, generation : 1 .. MaxGeneration,
             after : SUBSET Requests]

Init ==
  /\ conn = "down" /\ generation = 0 /\ inbound = <<>>
  /\ published = 0 /\ received = {} /\ accepted = {} /\ refused = {}
  /\ revision = 0 /\ history = <<>>
  /\ lock = Nobody /\ pending = {}
  /\ call = [r \in Requests |-> "idle"] /\ born = [r \in Requests |-> 0]
  /\ future = [r \in Requests |-> "open"]
  /\ ackRevision = [r \in Requests |-> 0]
  /\ result = [r \in Requests |-> "none"]
  /\ wait = [r \in Requests |-> "none"]
  /\ cursor = [r \in Requests |-> 0] /\ basis = [r \in Requests |-> {}]

-----------------------------------------------------------------------------
(* run: connecting, breaking, reconnecting.                                *)

\* _activate_connection.
Activate ==
  /\ conn = "down" /\ generation < MaxGeneration
  /\ conn' = "up" /\ generation' = generation + 1
  /\ UNCHANGED <<inbound, robot, frames, request, waiting>>

\* recv raises; the socket is closed before anybody is told.
Break ==
  /\ conn = "up"
  /\ conn' = "broken" /\ inbound' = <<>>
  /\ UNCHANGED <<generation, robot, frames, request, waiting>>

\* _invalidate_connection.
Invalidate ==
  /\ conn = "broken"
  /\ conn' = "rejecting"
  /\ UNCHANGED <<generation, inbound, robot, frames, request, waiting>>

\* _reject_pending_unknown.
RejectPending ==
  /\ conn = "rejecting"
  /\ conn' = "down"
  /\ future' = [r \in Requests |-> IF Open(r) THEN "unknown" ELSE future[r]]
  /\ UNCHANGED <<generation, inbound, robot, frames, lock, pending, call, born,
                 ackRevision, result, waiting>>

-----------------------------------------------------------------------------
(* request_command.                                                        *)

Return(r, what) ==
  /\ call' = [call EXCEPT ![r] = "done"]
  /\ pending' = pending \ {r}
  /\ result' = [result EXCEPT ![r] = what]

\* The request is registered, and waits for the send lock.
BeginRequest(r) ==
  /\ call[r] = "idle"
  /\ IF Connected
       THEN /\ call' = [call EXCEPT ![r] = "queued"]
            /\ pending' = pending \cup {r}
            /\ born' = [born EXCEPT ![r] = generation]
            /\ UNCHANGED result
       ELSE Return(r, "not_sent") /\ UNCHANGED born
  /\ UNCHANGED <<link, inbound, robot, frames, lock, future, ackRevision, waiting>>

\* With the lock, the connection must still be the one the request began on.
TakeLock(r) ==
  /\ call[r] = "queued" /\ lock = Nobody
  /\ IF Connected /\ born[r] = generation
       THEN /\ call' = [call EXCEPT ![r] = "sending"] /\ lock' = r
            /\ UNCHANGED <<pending, result>>
       ELSE Return(r, "not_sent") /\ UNCHANGED lock
  /\ UNCHANGED <<link, inbound, robot, frames, born, future, ackRevision, waiting>>

\* The command leaves, while send has not returned yet.
Transmit(r) ==
  /\ call[r] = "sending" /\ conn = "up" /\ born[r] = generation
  /\ received' = received \cup {r}
  /\ UNCHANGED <<link, inbound, published, accepted, refused, frames, request,
                 waiting>>

\* send returns; what becomes of the command is another matter.
SendReturns(r) ==
  /\ call[r] = "sending"
  /\ lock' = Nobody
  /\ call' = [call EXCEPT ![r] = "waiting"]
  /\ UNCHANGED <<link, inbound, robot, frames, pending, born, future,
                 ackRevision, result, waiting>>

\* Mutant: an exception of send is taken to mean that nothing was sent.
SendFailsAsNotSent(r) ==
  /\ call[r] = "sending"
  /\ lock' = Nobody
  /\ Return(r, "not_sent")
  /\ UNCHANGED <<link, inbound, robot, frames, born, future, ackRevision, waiting>>

\* Mutant: a failing send leaves the lock taken.
SendFailsKeepingLock(r) ==
  /\ call[r] = "sending"
  /\ Return(r, "unknown")
  /\ UNCHANGED <<link, inbound, robot, frames, lock, born, future, ackRevision,
                 waiting>>

\* send raises, perhaps after the command has left.
SendFails(r) ==
  /\ call[r] = "sending"
  /\ lock' = Nobody
  /\ Return(r, "unknown")
  /\ UNCHANGED <<link, inbound, robot, frames, born, future, ackRevision, waiting>>

\* The future is done and the caller runs again: a receipt counts only on
\* the connection the request began on.
Resume(r) ==
  /\ call[r] = "waiting" /\ future[r] # "open"
  /\ Return(r, IF future[r] = "receipt" /\ ~ (Connected /\ born[r] = generation)
                 THEN "unknown" ELSE future[r])
  /\ UNCHANGED <<link, inbound, robot, frames, lock, born, future, ackRevision,
                 waiting>>

TimeOut(r) ==
  /\ call[r] = "waiting" /\ future[r] = "open"
  /\ Return(r, "unknown")
  /\ UNCHANGED <<link, inbound, robot, frames, lock, born, future, ackRevision,
                 waiting>>

\* The caller is cancelled: no handler of Exception runs, so a request that
\* was not yet waiting for its answer stays in _pending.
Cancel(r) ==
  /\ call[r] \in {"queued", "sending", "waiting"}
  /\ call' = [call EXCEPT ![r] = "done"]
  /\ result' = [result EXCEPT ![r] = "cancelled"]
  /\ pending' = IF call[r] = "waiting" THEN pending \ {r} ELSE pending
  /\ lock' = IF lock = r THEN Nobody ELSE lock
  /\ UNCHANGED <<link, inbound, robot, frames, born, future, ackRevision, waiting>>

-----------------------------------------------------------------------------
(* The robot, as the messages it may send.                                 *)

Reply(m) == inbound' = IF conn = "up" THEN Append(inbound, m) ELSE inbound

\* An answer can be malformed, which is worst of a command the robot acted
\* on, and can bring the Flow along.
Accept(r) ==
  /\ r \in received \ (accepted \cup refused)
  /\ accepted' = accepted \cup {r}
  /\ \E flow \in BOOLEAN, says \in {"receipt", "unknown"} :
       /\ flow => published < MaxRevision
       /\ published' = published + (IF flow THEN 1 ELSE 0)
       /\ Reply([answer |-> r, says |-> says, flow |-> flow, after |-> accepted'])
  /\ UNCHANGED <<link, received, refused, frames, request, waiting>>

Refuse(r) ==
  /\ r \in received \ (accepted \cup refused)
  /\ refused' = refused \cup {r}
  /\ Reply([answer |-> r, says |-> "rejected", flow |-> FALSE, after |-> accepted])
  /\ UNCHANGED <<link, published, received, accepted, frames, request, waiting>>

PublishFlow ==
  /\ published < MaxRevision
  /\ published' = published + 1
  /\ Reply([answer |-> Nobody, says |-> "unknown", flow |-> TRUE, after |-> accepted])
  /\ UNCHANGED <<link, received, accepted, refused, frames, request, waiting>>

-----------------------------------------------------------------------------
(* _handle_message.                                                        *)

\* Mutant: an answer settles any open request, whatever its id.
SettleUncorrelated(m) ==
  LET open == {r \in Requests : Open(r)}
  IN  IF m.answer # Nobody /\ open # {}
        THEN \E r \in open :
               /\ future' = [future EXCEPT ![r] = m.says]
               /\ ackRevision' = [ackRevision EXCEPT ![r] = revision]
        ELSE UNCHANGED <<future, ackRevision>>

\* _settle_response: an answer nobody waits for is ignored.
Settle(m) ==
  LET r == m.answer
  IN  IF r \in Requests /\ Open(r)
        THEN /\ future' = [future EXCEPT ![r] = m.says]
             /\ ackRevision' = [ackRevision EXCEPT ![r] =
                                 IF m.says = "receipt" THEN revision ELSE @]
        ELSE UNCHANGED <<future, ackRevision>>

\* A bounded deque drops its oldest frame.
Keep(frame) ==
  LET h == Append(history, frame)
  IN  history' = IF Len(h) > HistoryLimit THEN Tail(h) ELSE h

\* The answer is settled before the Flow of the same message counts.
HandleMessage ==
  /\ conn = "up" /\ inbound # <<>>
  /\ inbound' = Tail(inbound)
  /\ LET m == Head(inbound)
     IN  /\ Settle(m)
         /\ IF m.flow
              THEN /\ revision' = revision + 1
                   /\ Keep([revision |-> revision', generation |-> generation,
                            after |-> m.after])
              ELSE UNCHANGED frames
  /\ UNCHANGED <<link, robot, lock, pending, call, born, result, waiting>>

-----------------------------------------------------------------------------
(* wait_for_flow, after a receipt, from its revision and generation on.    *)

\* Mutant: the wait looks at every frame of the connection.
BeginWaitFromStart(r) ==
  /\ result[r] = "receipt" /\ wait[r] = "none"
  /\ wait' = [wait EXCEPT ![r] = "waiting"]
  /\ cursor' = [cursor EXCEPT ![r] = 0]
  /\ UNCHANGED <<link, inbound, robot, frames, request, basis>>

BeginWait(r) ==
  /\ result[r] = "receipt" /\ wait[r] = "none"
  /\ wait' = [wait EXCEPT ![r] = "waiting"]
  /\ cursor' = [cursor EXCEPT ![r] = ackRevision[r]]
  /\ UNCHANGED <<link, inbound, robot, frames, request, basis>>

Unseen(r, i) ==
  /\ i \in 1 .. Len(history)
  /\ history[i].revision > cursor[r] /\ history[i].generation = born[r]

\* Frames are examined in order, each one once; the predicate may take any.
Examine(r) ==
  /\ wait[r] = "waiting" /\ Connected /\ born[r] = generation
  /\ \E i \in 1 .. Len(history) :
       /\ Unseen(r, i) /\ \A j \in 1 .. i - 1 : ~ Unseen(r, j)
       /\ cursor' = [cursor EXCEPT ![r] = history[i].revision]
       /\ \/ /\ wait' = [wait EXCEPT ![r] = "flow"]
             /\ basis' = [basis EXCEPT ![r] = history[i].after]
          \/ UNCHANGED <<wait, basis>>
  /\ UNCHANGED <<link, inbound, robot, frames, request>>

\* The connection changed, the timeout came first, or the caller is cancelled.
WaitFails(r) ==
  /\ wait[r] = "waiting"
  /\ wait' = [wait EXCEPT ![r] = "unknown"]
  /\ UNCHANGED <<link, inbound, robot, frames, request, cursor, basis>>

-----------------------------------------------------------------------------
Link == Activate \/ Break \/ Invalidate \/ RejectPending \/ HandleMessage

Caller(r) ==
  \/ BeginRequest(r) \/ TakeLock(r) \/ Transmit(r)
  \/ SendReturns(r) \/ SendFails(r)
  \/ Resume(r) \/ TimeOut(r) \/ Cancel(r)
  \/ BeginWait(r) \/ Examine(r) \/ WaitFails(r)

Robot == PublishFlow \/ \E r \in Requests : Accept(r) \/ Refuse(r)

Next == Link \/ Robot \/ \E r \in Requests : Caller(r)

Safety == Init /\ [][Next]_vars

\* The event loop runs what is ready, timeouts expire, and a send ends one
\* way or the other: the ping timeout closes a dead socket.
Fairness ==
  /\ WF_vars(Invalidate) /\ WF_vars(RejectPending)
  /\ \A r \in Requests :
       /\ SF_vars(TakeLock(r)) /\ WF_vars(SendReturns(r) \/ SendFails(r))
       /\ WF_vars(Resume(r)) /\ WF_vars(TimeOut(r)) /\ WF_vars(WaitFails(r))

Spec == Safety /\ Fairness

-----------------------------------------------------------------------------
\* Every variable has its type, the send lock is held exactly while a
\* command is being sent, and revisions number the frames of the history.
TypeOK ==
  /\ conn \in {"up", "broken", "rejecting", "down"}
  /\ generation \in 0 .. MaxGeneration /\ (conn # "down" => generation > 0)
  /\ inbound \in Seq(Message)
  /\ published \in 0 .. MaxRevision
  /\ received \in SUBSET Requests
  /\ accepted \in SUBSET received /\ refused \in SUBSET received
  /\ revision \in Nat
  /\ history \in Seq(Frame(revision))
  /\ Len(history) <= HistoryLimit
  /\ lock \in Requests \cup {Nobody} /\ pending \in SUBSET Requests
  /\ call \in [Requests -> {"idle", "queued", "sending", "waiting", "done"}]
  /\ \A r \in Requests : call[r] = "sending" <=> lock = r
  /\ born \in [Requests -> 0 .. MaxGeneration]
  /\ future \in [Requests -> {"open", "receipt", "rejected", "unknown"}]
  /\ ackRevision \in [Requests -> 0 .. revision]
  /\ result \in [Requests -> {"none", "receipt", "rejected", "unknown", "not_sent",
                           "cancelled"}]
  /\ wait \in [Requests -> {"none", "waiting", "flow", "unknown"}]
  /\ cursor \in [Requests -> 0 .. revision]
  /\ basis \in [Requests -> SUBSET Requests]

\* RobotCommandNotSentError: "known disconnected before a command was
\* dispatched".  A command reported so never reaches the robot, not even when
\* the connection changed while it waited for the send lock.
NotSentNeverArrives ==
  \A r \in Requests : result[r] = "not_sent" => r \notin received

\* A receipt or a rejection is the robot's answer to this very command,
\* although answers can be late and come over another connection.
AnswersAreTheRobots ==
  \A r \in Requests :
    /\ result[r] = "receipt" => r \in accepted
    /\ result[r] = "rejected" => r \in refused

\* The Flow frame taken for a command's outcome was published after the
\* robot had accepted the command: no frame from before it decides, whatever
\* was still on its way when the command was sent.
OutcomeFollowsCommand ==
  \A r \in Requests : wait[r] = "flow" => r \in basis[r]

\* Every command that was begun ends, although one send at a time holds the
\* lock, the robot may not answer, and the connection may not come back.
CallsEnd ==
  \A r \in Requests : call[r] \in {"queued", "sending", "waiting"} ~> call[r] = "done"

\* Through late answers, broken connections and cancelled callers, the calls
\* and their commands go the way RobotCommand describes.
Told(r) ==
  CASE call[r] = "idle" -> "none" [] call[r] = "done" -> result[r] [] OTHER -> "called"

Fate(r) ==
  CASE r \in accepted -> "accepted" [] r \in refused -> "refused"
    [] r \in received \ (accepted \cup refused) -> "left" [] OTHER -> "kept"

Command == INSTANCE RobotCommand
  WITH told <- [r \in Requests |-> Told(r)], fate <- [r \in Requests |-> Fate(r)]

FollowsCommand == Command!Spec

-----------------------------------------------------------------------------
(* Why outcomes are the robot's and follow the command.                    *)

\* A command leaves while its call sends it; the robot answers it once; and
\* only a cancelled call leaves a request behind.
CallsAndCommands ==
  /\ \A r \in Requests :
       /\ result[r] # "none" <=> call[r] = "done"
       /\ r \in received => call[r] \notin {"idle", "queued"}
       /\ future[r] # "open" => call[r] # "idle"
       /\ r \in pending =>
            call[r] \in {"queued", "sending", "waiting"} \/ result[r] = "cancelled"
  /\ accepted \cap refused = {}

\* Every answer, on its way, settled or returned, is one the robot gave.
AnswersAreTrue ==
  /\ \A i \in 1 .. Len(inbound) :
       LET m == inbound[i]
       IN  /\ m.says = "receipt" => m.answer \in m.after
           /\ m.says = "rejected" => m.answer \in refused
           /\ m.after \subseteq accepted
  /\ \A r \in Requests :
       /\ future[r] = "receipt" => r \in accepted
       /\ future[r] = "rejected" => r \in refused
       /\ result[r] \in {"receipt", "rejected"} => future[r] = result[r]

\* What comes after an answer was published after it, in the socket and in
\* the history.
FramesFollow ==
  /\ \A i, j \in 1 .. Len(inbound) : i <= j => inbound[i].after \subseteq inbound[j].after
  /\ \A r \in Requests : future[r] = "receipt" =>
       /\ \A i \in 1 .. Len(inbound) : r \in inbound[i].after
       /\ \A i \in 1 .. Len(history) :
            history[i].revision > ackRevision[r] => r \in history[i].after
       /\ wait[r] # "none" => ackRevision[r] <= cursor[r]
  /\ \A r \in Requests : wait[r] # "none" => result[r] = "receipt"

SessionInv ==
  /\ TypeOK
  /\ CallsAndCommands /\ AnswersAreTrue /\ FramesFollow
  /\ NotSentNeverArrives /\ OutcomeFollowsCommand
=============================================================================
