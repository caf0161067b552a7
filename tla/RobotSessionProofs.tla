------------------------- MODULE RobotSessionProofs -------------------------
(***************************************************************************)
(* Machine-checked correlation of commands, answers and frames, for any    *)
(* number of calls, connections and frames, and every size of the history. *)
(***************************************************************************)
EXTENDS RobotSession, SequenceTheorems, TLAPS

-----------------------------------------------------------------------------
(* The socket and the history.                                             *)

\* A message of the robot goes to the end of the socket, or nowhere.
LEMMA ReplyAppends ==
  ASSUME TypeOK, NEW m \in Message, Reply(m)
  PROVE  /\ inbound' \in Seq(Message)
         /\ \/ inbound' = inbound
            \/ /\ Len(inbound') = Len(inbound) + 1
               /\ inbound'[Len(inbound) + 1] = m
               /\ \A i \in 1 .. Len(inbound) : inbound'[i] = inbound[i]
<1> DEFINE q == Append(inbound, m)
<1>1. inbound \in Seq(Message)
  BY DEF TypeOK
<1>2. /\ q \in Seq(Message) /\ Len(q) = Len(inbound) + 1
      /\ q[Len(inbound) + 1] = m
      /\ \A i \in 1 .. Len(inbound) : q[i] = inbound[i]
  BY <1>1, AppendProperties
<1> HIDE DEF q
<1>3. inbound' = q \/ inbound' = inbound
  BY DEF Reply, q
<1> QED BY <1>1, <1>2, <1>3

\* Handling a message takes it from the front.
LEMMA HandlingTakes ==
  ASSUME TypeOK, inbound # <<>>, inbound' = Tail(inbound)
  PROVE  /\ Head(inbound) \in Message /\ Head(inbound) = inbound[1]
         /\ 1 \in 1 .. Len(inbound)
         /\ inbound' \in Seq(Message)
         /\ \A i \in 1 .. Len(inbound') :
              i + 1 \in 1 .. Len(inbound) /\ inbound'[i] = inbound[i + 1]
<1>1. inbound \in Seq(Message)
  BY DEF TypeOK
<1>2. /\ Head(inbound) \in Message /\ Tail(inbound) \in Seq(Message)
      /\ Len(Tail(inbound)) = Len(inbound) - 1
      /\ \A i \in 1 .. Len(Tail(inbound)) : Tail(inbound)[i] = inbound[i + 1]
  BY <1>1, HeadTailProperties
<1>3. Len(inbound) \in Nat \ {0} /\ Head(inbound) = inbound[1]
  BY <1>1, EmptySeq
<1> QED BY <1>2, <1>3

\* A frame goes to the end of the history, and pushes out at most others.
LEMMA KeepingKeeps ==
  ASSUME TypeOK, NEW frame \in Frame(revision + 1), Keep(frame)
  PROVE  /\ history' \in Seq(Frame(revision + 1))
         /\ Len(history') <= HistoryLimit
         /\ \A i \in 1 .. Len(history') :
              \/ history'[i] = frame
              \/ \E j \in 1 .. Len(history) : history'[i] = history[j]
<1> DEFINE h == Append(history, frame)
<1>1. revision \in Nat /\ history \in Seq(Frame(revision))
      /\ Len(history) <= HistoryLimit /\ Len(history) \in Nat
  BY DEF TypeOK
<1>2. Frame(revision) \subseteq Frame(revision + 1)
  BY <1>1 DEF Frame
<1>3. history \in Seq(Frame(revision + 1))
  BY <1>1, <1>2, SeqMonotonic
<1>4. /\ h \in Seq(Frame(revision + 1)) /\ Len(h) = Len(history) + 1
      /\ h[Len(history) + 1] = frame
      /\ \A i \in 1 .. Len(history) : h[i] = history[i]
  BY <1>3, AppendProperties
<1>5. h # <<>>
  BY <1>1, <1>4
<1>6. history' = IF Len(h) > HistoryLimit THEN Tail(h) ELSE h
  BY DEF Keep, h
<1> HIDE DEF h
<1>7. /\ Tail(h) \in Seq(Frame(revision + 1)) /\ Len(Tail(h)) = Len(h) - 1
      /\ \A i \in 1 .. Len(Tail(h)) : Tail(h)[i] = h[i + 1]
  BY <1>4, <1>5, HeadTailProperties
<1>8. CASE Len(h) > HistoryLimit
  <2>1. history' = Tail(h) /\ Len(history') = Len(history)
    BY <1>1, <1>4, <1>6, <1>7, <1>8
  <2>2. ASSUME NEW i \in 1 .. Len(history')
        PROVE  \/ history'[i] = frame
               \/ \E j \in 1 .. Len(history) : history'[i] = history[j]
    <3>1. history'[i] = h[i + 1]
      BY <1>7, <2>1
    <3>2. CASE i = Len(history)
      BY <1>4, <3>1, <3>2
    <3>3. CASE i # Len(history)
      <4>1. i + 1 \in 1 .. Len(history)
        BY <1>1, <2>1, <3>3
      <4> QED BY <1>4, <3>1, <4>1
    <3> QED BY <3>2, <3>3
  <2> QED BY <1>1, <1>7, <2>1, <2>2
<1>9. CASE ~ (Len(h) > HistoryLimit)
  <2>1. history' = h
    BY <1>6, <1>9
  <2>2. \A i \in 1 .. Len(history') : i \in 1 .. Len(history) \/ i = Len(history) + 1
    BY <1>1, <1>4, <2>1
  <2> QED BY <1>1, <1>4, <1>9, <2>1, <2>2, SessionAssumption
<1> QED BY <1>8, <1>9

-----------------------------------------------------------------------------
(* The connection.                                                         *)

\* _activate_connection, a breaking socket and _invalidate_connection: what
\* was on its way is lost, and nobody is told anything yet.
LEMMA ConnectingPreserves ==
  ASSUME SessionInv, Activate \/ Break \/ Invalidate
  PROVE  SessionInv'
<1> USE SessionAssumption DEF SessionInv, link, robot, frames, request, waiting
<1>1. UNCHANGED <<robot, frames, request, waiting>>
  BY DEF Activate, Break, Invalidate
<1>2. inbound' = inbound \/ inbound' = <<>>
  BY DEF Activate, Break, Invalidate
<1>3. TypeOK'
  <2>1. inbound' \in Seq(Message)
    <3>1. <<>> \in Seq(Message)
      OBVIOUS
    <3> QED BY <1>2, <3>1 DEF TypeOK
  <2>2. /\ conn' \in {"up", "broken", "rejecting", "down"}
        /\ generation' \in 0 .. MaxGeneration
        /\ conn' # "down" => generation' > 0
    BY DEF TypeOK, Activate, Break, Invalidate
  <2> QED BY <1>1, <2>1, <2>2 DEF TypeOK
<1>4. CallsAndCommands' /\ NotSentNeverArrives' /\ OutcomeFollowsCommand'
  BY <1>1 DEF CallsAndCommands, NotSentNeverArrives, OutcomeFollowsCommand
<1>5. AnswersAreTrue' /\ FramesFollow'
  <2>1. Len(<<>>) = 0
    OBVIOUS
  <2> QED BY <1>1, <1>2, <2>1 DEF AnswersAreTrue, FramesFollow
<1> QED BY <1>3, <1>4, <1>5

\* _reject_pending_unknown settles open requests only.
LEMMA RejectingPreserves ==
  ASSUME SessionInv, RejectPending
  PROVE  SessionInv'
<1> USE DEF SessionInv, RejectPending, robot, frames, request, waiting
<1>1. TypeOK'
  BY DEF TypeOK
<1>2. \A r \in Requests : future'[r] = future[r] \/ (future'[r] = "unknown" /\ Open(r))
  OBVIOUS
<1>3. \A r \in Requests : Open(r) => future[r] \notin {"receipt", "rejected", "unknown"}
  BY DEF Open
<1>4. CallsAndCommands' /\ NotSentNeverArrives' /\ OutcomeFollowsCommand'
  BY <1>2 DEF CallsAndCommands, NotSentNeverArrives, OutcomeFollowsCommand,
     Open, TypeOK
<1>5. AnswersAreTrue'
  BY <1>2, <1>3 DEF AnswersAreTrue
<1>6. FramesFollow'
  BY <1>2 DEF FramesFollow
<1> QED BY <1>1, <1>4, <1>5, <1>6

-----------------------------------------------------------------------------
(* request_command.                                                        *)

\* What a step of one call may do: it moves on, with the lock if it sends,
\* and what it returns is its future or promises nothing of the robot.
CallStep(r) ==
  /\ UNCHANGED <<link, inbound, robot, frames, future, ackRevision, waiting>>
  /\ call[r] # "done"
  /\ \E c \in {"queued", "sending", "waiting", "done"} :
       call' = [call EXCEPT ![r] = c]
  /\ call'[r] = "done" <=> result'[r] # "none"
  /\ \E o \in {"none", "receipt", "rejected", "unknown", "not_sent", "cancelled"} :
       /\ result' = [result EXCEPT ![r] = o]
       /\ o \in {"receipt", "rejected"} => o = future[r]
       /\ o = "not_sent" => call[r] \in {"idle", "queued"}
  /\ call'[r] = "queued" => call[r] = "idle"
  /\ lock' \in {lock, r, Nobody}
  /\ lock' = r <=> call'[r] = "sending"
  /\ lock' # lock => lock \in {r, Nobody}
  /\ pending' \in SUBSET Requests /\ pending' \subseteq pending \cup {r}
  /\ r \in pending' => call'[r] # "done" \/ result'[r] = "cancelled"
  /\ born' \in [Requests -> 0 .. MaxGeneration]

\* Every step of request_command is such a step.
LEMMA CallSteps ==
  ASSUME SessionInv, NEW r \in Requests,
         \/ BeginRequest(r) \/ TakeLock(r) \/ SendReturns(r) \/ SendFails(r)
         \/ Resume(r) \/ TimeOut(r) \/ Cancel(r)
  PROVE  CallStep(r)
<1> USE SessionAssumption DEF SessionInv, TypeOK, CallsAndCommands, CallStep
<1>1. CASE BeginRequest(r)
  <2>1. CASE Connected
    <3>1. /\ call[r] = "idle" /\ call' = [call EXCEPT ![r] = "queued"]
          /\ pending' = pending \cup {r}
          /\ born' = [born EXCEPT ![r] = generation]
          /\ lock' = lock
          /\ UNCHANGED <<link, inbound, robot, frames, future, ackRevision, waiting>>
      BY <1>1, <2>1 DEF BeginRequest
    <3>2. result' = [result EXCEPT ![r] = "none"]
      BY <1>1, <2>1 DEF BeginRequest
    <3>3. lock # r /\ call'[r] = "queued" /\ result'[r] = "none"
      BY <3>1, <3>2
    <3> QED BY <3>1, <3>2, <3>3
  <2>2. CASE ~ Connected
    BY <1>1, <2>2 DEF BeginRequest, Return
  <2> QED BY <2>1, <2>2
<1>2. CASE TakeLock(r)
  BY <1>2 DEF TakeLock, Return
<1>3. CASE SendReturns(r) \/ SendFails(r)
  BY <1>3 DEF SendReturns, SendFails, Return
<1>4. CASE Resume(r)
  BY <1>4 DEF Resume, Return
<1>5. CASE TimeOut(r)
  BY <1>5 DEF TimeOut, Return
<1>6. CASE Cancel(r)
  BY <1>6 DEF Cancel
<1> QED BY <1>1, <1>2, <1>3, <1>4, <1>5, <1>6

\* Such a step keeps the invariant.
LEMMA CallPreserves ==
  ASSUME SessionInv, NEW r \in Requests, CallStep(r)
  PROVE  SessionInv'
<1> USE SessionAssumption
    DEF SessionInv, CallStep, link, robot, frames, waiting
<1>1. TypeOK'
  <2>1. /\ lock' \in Requests \cup {Nobody} /\ pending' \in SUBSET Requests
        /\ call' \in [Requests -> {"idle", "queued", "sending", "waiting", "done"}]
        /\ result' \in [Requests -> {"none", "receipt", "rejected", "unknown",
                                     "not_sent", "cancelled"}]
    BY DEF TypeOK
  <2>2. ASSUME NEW q \in Requests
        PROVE  call'[q] = "sending" <=> lock' = q
    BY DEF TypeOK
  <2> QED BY <2>1, <2>2 DEF TypeOK
<1>2. CallsAndCommands'
  BY DEF CallsAndCommands, TypeOK
<1>3. AnswersAreTrue'
  BY DEF AnswersAreTrue, TypeOK
<1>4. FramesFollow'
  <2>1. \A q \in Requests : result[q] = "receipt" => result'[q] = "receipt"
    BY DEF CallsAndCommands, TypeOK
  <2> QED BY <2>1 DEF FramesFollow
<1>5. NotSentNeverArrives' /\ OutcomeFollowsCommand'
  BY DEF NotSentNeverArrives, OutcomeFollowsCommand, CallsAndCommands, TypeOK
<1> QED BY <1>1, <1>2, <1>3, <1>4, <1>5

\* A command leaves while it is sent.
LEMMA TransmitPreserves ==
  ASSUME SessionInv, NEW r \in Requests, Transmit(r)
  PROVE  SessionInv'
<1> USE SessionAssumption DEF SessionInv, Transmit, link, frames, request, waiting
<1>1. TypeOK'
  BY DEF TypeOK
<1>2. CallsAndCommands' /\ NotSentNeverArrives' /\ OutcomeFollowsCommand'
  BY DEF CallsAndCommands, NotSentNeverArrives, OutcomeFollowsCommand
<1>3. AnswersAreTrue' /\ FramesFollow'
  BY DEF AnswersAreTrue, FramesFollow
<1> QED BY <1>1, <1>2, <1>3

-----------------------------------------------------------------------------
(* The robot.                                                              *)

\* What the robot sends tells what it has accepted so far.
LEMMA RobotPreserves ==
  ASSUME SessionInv, Robot
  PROVE  SessionInv'
<1> USE SessionAssumption DEF SessionInv, link, frames, request, waiting
<1>1. PICK m \in Message :
        /\ Reply(m)
        /\ m.after = accepted'
        /\ m.says = "receipt" => m.answer \in accepted'
        /\ m.says = "rejected" => m.answer \in refused'
  <2>1. CASE PublishFlow
    <3>1. [answer |-> Nobody, says |-> "unknown", flow |-> TRUE, after |-> accepted]
            \in Message
      BY DEF Message, Says, TypeOK
    <3> QED BY <2>1, <3>1 DEF PublishFlow
  <2>2. ASSUME NEW r \in Requests, Accept(r)
        PROVE  \E m \in Message :
                 /\ Reply(m)
                 /\ m.after = accepted'
                 /\ m.says = "receipt" => m.answer \in accepted'
                 /\ m.says = "rejected" => m.answer \in refused'
    <3>1. PICK flow \in BOOLEAN, says \in {"receipt", "unknown"} :
            Reply([answer |-> r, says |-> says, flow |-> flow, after |-> accepted'])
      BY <2>2 DEF Accept
    <3>2. accepted' = accepted \cup {r}
      BY <2>2 DEF Accept
    <3>3. [answer |-> r, says |-> says, flow |-> flow, after |-> accepted'] \in Message
      BY <3>2 DEF Message, Says, TypeOK
    <3> QED BY <3>1, <3>2, <3>3
  <2>3. ASSUME NEW r \in Requests, Refuse(r)
        PROVE  \E m \in Message :
                 /\ Reply(m)
                 /\ m.after = accepted'
                 /\ m.says = "receipt" => m.answer \in accepted'
                 /\ m.says = "rejected" => m.answer \in refused'
    <3>1. [answer |-> r, says |-> "rejected", flow |-> FALSE, after |-> accepted]
            \in Message
      BY DEF Message, Says, TypeOK
    <3> QED BY <2>3, <3>1 DEF Refuse
  <2> QED BY <2>1, <2>2, <2>3 DEF Robot
<1>2. /\ UNCHANGED <<link, received, frames, request, waiting>>
      /\ accepted \subseteq accepted' /\ refused \subseteq refused'
      /\ accepted' \in SUBSET received /\ refused' \in SUBSET received
      /\ accepted' \cap refused' = {}
      /\ published' \in 0 .. MaxRevision
  <2> USE DEF TypeOK, CallsAndCommands
  <2>1. CASE PublishFlow
    BY <2>1 DEF PublishFlow
  <2>2. ASSUME NEW r \in Requests, Accept(r)
        PROVE  published' \in 0 .. MaxRevision
    BY <2>2 DEF Accept
  <2>3. ASSUME NEW r \in Requests, Accept(r)
        PROVE  /\ UNCHANGED <<link, received, refused, frames, request, waiting>>
               /\ accepted' = accepted \cup {r}
               /\ r \in received \ (accepted \cup refused)
    BY <2>3 DEF Accept
  <2>4. ASSUME NEW r \in Requests, Refuse(r)
        PROVE  /\ UNCHANGED <<link, published, received, accepted, frames,
                             request, waiting>>
               /\ refused' = refused \cup {r}
               /\ r \in received \ (accepted \cup refused)
    BY <2>4 DEF Refuse
  <2> QED BY <2>1, <2>2, <2>3, <2>4 DEF Robot
<1>3. /\ inbound' \in Seq(Message)
      /\ \/ inbound' = inbound
         \/ /\ Len(inbound') = Len(inbound) + 1
            /\ inbound'[Len(inbound) + 1] = m
            /\ \A i \in 1 .. Len(inbound) : inbound'[i] = inbound[i]
  BY <1>1, ReplyAppends
<1>4. Len(inbound) \in Nat
  BY DEF TypeOK
<1>5. TypeOK'
  BY <1>2, <1>3 DEF TypeOK
<1>6. CallsAndCommands' /\ NotSentNeverArrives' /\ OutcomeFollowsCommand'
  BY <1>2 DEF CallsAndCommands, NotSentNeverArrives, OutcomeFollowsCommand
<1>7. \A i \in 1 .. Len(inbound') :
        \/ i \in 1 .. Len(inbound) /\ inbound'[i] = inbound[i]
        \/ /\ inbound'[i] = m /\ i = Len(inbound) + 1
           /\ Len(inbound') = Len(inbound) + 1
  BY <1>3, <1>4
<1>8. AnswersAreTrue'
  BY <1>1, <1>2, <1>7 DEF AnswersAreTrue
<1>9. FramesFollow'
  <2>1. ASSUME NEW i \in 1 .. Len(inbound'), NEW j \in 1 .. Len(inbound'), i <= j
        PROVE  inbound'[i].after \subseteq inbound'[j].after
    <3>1. CASE j \in 1 .. Len(inbound) /\ inbound'[j] = inbound[j]
      <4>1. i \in 1 .. Len(inbound) /\ inbound'[i] = inbound[i]
        BY <1>3, <1>4, <2>1, <3>1
      <4> QED BY <2>1, <3>1, <4>1 DEF FramesFollow
    <3>2. CASE inbound'[j] = m
      <4>1. inbound'[i].after \subseteq accepted'
        BY <1>1, <1>2, <1>7 DEF AnswersAreTrue
      <4> QED BY <1>1, <3>2, <4>1
    <3> QED BY <1>7, <3>1, <3>2
  <2>2. ASSUME NEW r \in Requests, future[r] = "receipt", NEW i \in 1 .. Len(inbound')
        PROVE  r \in inbound'[i].after
    BY <1>1, <1>2, <1>7, <2>2 DEF FramesFollow, AnswersAreTrue
  <2> QED BY <1>2, <2>1, <2>2 DEF FramesFollow
<1> QED BY <1>5, <1>6, <1>8, <1>9

-----------------------------------------------------------------------------
(* _handle_message and wait_for_flow.                                      *)

\* An answer settles the open request it names, with what it says.
LEMMA Settling ==
  ASSUME SessionInv, NEW m \in Message, Settle(m)
  PROVE  /\ future' \in [Requests -> {"open", "receipt", "rejected", "unknown"}]
         /\ ackRevision' \in [Requests -> 0 .. revision]
         /\ \A r \in Requests :
              \/ future'[r] = future[r] /\ ackRevision'[r] = ackRevision[r]
              \/ /\ r = m.answer /\ future[r] = "open" /\ r \in pending
                 /\ future'[r] = m.says
                 /\ m.says = "receipt" => ackRevision'[r] = revision
<1>1. /\ future \in [Requests -> {"open", "receipt", "rejected", "unknown"}]
      /\ ackRevision \in [Requests -> 0 .. revision]
      /\ revision \in 0 .. revision
  BY DEF SessionInv, TypeOK
<1>2. m.says \in {"receipt", "rejected", "unknown"}
  BY DEF Message, Says
<1>3. CASE m.answer \in Requests /\ Open(m.answer)
  <2>1. /\ future' = [future EXCEPT ![m.answer] = m.says]
        /\ ackRevision' = [ackRevision EXCEPT ![m.answer] =
                              IF m.says = "receipt" THEN revision ELSE @]
    BY <1>3 DEF Settle
  <2> QED BY <1>1, <1>2, <1>3, <2>1 DEF Open
<1>4. CASE ~ (m.answer \in Requests /\ Open(m.answer))
  <2>1. UNCHANGED <<future, ackRevision>>
    BY <1>4 DEF Settle
  <2> QED BY <1>1, <2>1
<1> QED BY <1>3, <1>4

\* A message settles its answer before its Flow is counted, and the frames
\* behind an answer were published after it.
LEMMA HandlingPreserves ==
  ASSUME SessionInv, HandleMessage
  PROVE  SessionInv'
<1> USE SessionAssumption DEF SessionInv
<1> DEFINE m == Head(inbound)
           frame == [revision |-> revision + 1, generation |-> generation,
                     after |-> m.after]
<1>1. /\ m \in Message /\ m = inbound[1] /\ 1 \in 1 .. Len(inbound)
      /\ inbound' \in Seq(Message)
      /\ \A i \in 1 .. Len(inbound') :
           i + 1 \in 1 .. Len(inbound) /\ inbound'[i] = inbound[i + 1]
  BY HandlingTakes DEF HandleMessage
<1>2. /\ Settle(m)
      /\ UNCHANGED <<link, robot, lock, pending, call, born, result, waiting>>
      /\ \/ revision' = revision + 1 /\ Keep(frame)
         \/ UNCHANGED frames
  BY DEF HandleMessage
<1>3. frame \in Frame(revision + 1) /\ frame.after = m.after
  <2>1. generation \in 1 .. MaxGeneration /\ revision + 1 \in 1 .. revision + 1
    BY DEF HandleMessage, TypeOK
  <2> QED BY <1>1, <2>1 DEF Frame, Message
<1> HIDE DEF m, frame
<1>4. /\ revision \in Nat /\ revision' \in {revision, revision + 1}
      /\ history' \in Seq(Frame(revision')) /\ Len(history') <= HistoryLimit
      /\ \A i \in 1 .. Len(history') :
           \/ history'[i] = frame
           \/ \E j \in 1 .. Len(history) : history'[i] = history[j]
  BY <1>2, <1>3, KeepingKeeps DEF frames, TypeOK
<1>5. /\ future' \in [Requests -> {"open", "receipt", "rejected", "unknown"}]
      /\ ackRevision' \in [Requests -> 0 .. revision]
      /\ \A r \in Requests :
           \/ future'[r] = future[r] /\ ackRevision'[r] = ackRevision[r]
           \/ /\ r = m.answer /\ future[r] = "open" /\ r \in pending
              /\ future'[r] = m.says
              /\ m.says = "receipt" => ackRevision'[r] = revision
  BY <1>1, <1>2, Settling
<1>6. UNCHANGED <<link, robot, lock, pending, call, born, result, waiting>>
  BY <1>2
<1>7. TypeOK'
  <2>1. ackRevision' \in [Requests -> 0 .. revision'] /\ cursor' \in [Requests -> 0 .. revision']
    BY <1>4, <1>5, <1>6 DEF TypeOK, waiting
  <2> QED BY <1>1, <1>4, <1>5, <1>6, <2>1 DEF TypeOK, link, robot, waiting
<1>8. /\ m.says = "receipt" => m.answer \in m.after
      /\ m.says = "rejected" => m.answer \in refused
      /\ m.after \subseteq accepted
  BY <1>1 DEF AnswersAreTrue
<1>9. CallsAndCommands'
  BY <1>5, <1>6 DEF CallsAndCommands, robot, TypeOK
<1>10. AnswersAreTrue'
  <2>1. \A r \in Requests : result[r] \in {"receipt", "rejected"} => future[r] # "open"
    BY DEF AnswersAreTrue
  <2>2. ASSUME NEW i \in 1 .. Len(inbound')
        PROVE  LET n == inbound'[i]
               IN  /\ n.says = "receipt" => n.answer \in n.after
                   /\ n.says = "rejected" => n.answer \in refused'
                   /\ n.after \subseteq accepted'
    <3>1. i + 1 \in 1 .. Len(inbound) /\ inbound'[i] = inbound[i + 1]
      BY <1>1
    <3> QED BY <1>6, <3>1 DEF AnswersAreTrue, robot
  <2>3. ASSUME NEW r \in Requests
        PROVE  /\ future'[r] = "receipt" => r \in accepted'
               /\ future'[r] = "rejected" => r \in refused'
               /\ result'[r] \in {"receipt", "rejected"} => future'[r] = result'[r]
    BY <1>5, <1>6, <1>8, <2>1 DEF AnswersAreTrue, robot
  <2> QED BY <2>2, <2>3 DEF AnswersAreTrue
<1>11. NotSentNeverArrives' /\ OutcomeFollowsCommand'
  BY <1>6 DEF NotSentNeverArrives, OutcomeFollowsCommand, robot, waiting
<1>12. FramesFollow'
  <2>1. ASSUME NEW i \in 1 .. Len(inbound'), NEW j \in 1 .. Len(inbound'), i <= j
        PROVE  inbound'[i].after \subseteq inbound'[j].after
    <3>1. i + 1 <= j + 1
      BY <2>1
    <3>2. /\ i + 1 \in 1 .. Len(inbound) /\ inbound'[i] = inbound[i + 1]
          /\ j + 1 \in 1 .. Len(inbound) /\ inbound'[j] = inbound[j + 1]
      BY <1>1
    <3>3. \A k, l \in 1 .. Len(inbound) :
            k <= l => inbound[k].after \subseteq inbound[l].after
      BY DEF FramesFollow
    <3> QED BY <3>1, <3>2, <3>3
  <2>2. ASSUME NEW r \in Requests, future'[r] = "receipt", NEW i \in 1 .. Len(inbound')
        PROVE  r \in inbound'[i].after
    <3>1. CASE future[r] = "receipt"
      BY <1>1, <2>2, <3>1 DEF FramesFollow
    <3>2. CASE r = m.answer /\ m.says = "receipt"
      <4>1. 1 <= i + 1
        OBVIOUS
      <4>2. m.after \subseteq inbound'[i].after
        BY <1>1, <4>1 DEF FramesFollow
      <4> QED BY <1>8, <3>2, <4>2
    <3> QED BY <1>5, <2>2, <3>1, <3>2
  <2>3. ASSUME NEW r \in Requests, future'[r] = "receipt",
               NEW i \in 1 .. Len(history'), history'[i].revision > ackRevision'[r]
        PROVE  r \in history'[i].after
    <3>1. CASE future[r] = "receipt"
      <4>1. ackRevision'[r] = ackRevision[r] /\ r \in m.after
        BY <1>1, <1>5, <3>1 DEF FramesFollow
      <4> QED BY <1>3, <1>4, <2>3, <3>1, <4>1 DEF FramesFollow
    <3>2. CASE r = m.answer /\ m.says = "receipt" /\ ackRevision'[r] = revision
      <4>1. ASSUME NEW j \in 1 .. Len(history)
            PROVE  ~ (history[j].revision > revision)
        <5>1. history[j] \in Frame(revision)
          BY ElementOfSeq DEF TypeOK
        <5> QED BY <1>4, <5>1 DEF Frame
      <4> QED BY <1>3, <1>4, <1>8, <2>3, <3>2, <4>1
    <3> QED BY <1>5, <2>3, <3>1, <3>2
  <2>4. ASSUME NEW r \in Requests, future'[r] = "receipt", wait'[r] # "none"
        PROVE  ackRevision'[r] <= cursor'[r]
    <3>1. result[r] = "receipt" /\ future[r] = "receipt"
      BY <1>6, <2>4 DEF FramesFollow, AnswersAreTrue, waiting
    <3> QED BY <1>5, <1>6, <2>4, <3>1 DEF FramesFollow, waiting
  <2> QED BY <1>6, <2>1, <2>2, <2>3, <2>4 DEF FramesFollow, waiting
<1> QED BY <1>7, <1>9, <1>10, <1>11, <1>12

\* A wait begins behind the acknowledgement, and takes only later frames.
LEMMA WaitPreserves ==
  ASSUME SessionInv, NEW r \in Requests, BeginWait(r) \/ Examine(r) \/ WaitFails(r)
  PROVE  SessionInv'
<1> USE SessionAssumption DEF SessionInv, link, robot, frames, request
<1>1. /\ UNCHANGED <<link, inbound, robot, frames, request>>
      /\ result[r] = "receipt" /\ future[r] = "receipt"
  BY DEF BeginWait, Examine, WaitFails, FramesFollow, AnswersAreTrue
<1>2. /\ wait' \in [Requests -> {"none", "waiting", "flow", "unknown"}]
      /\ cursor' \in [Requests -> 0 .. revision]
      /\ basis' \in [Requests -> SUBSET Requests]
      /\ \A q \in Requests \ {r} :
           wait'[q] = wait[q] /\ cursor'[q] = cursor[q] /\ basis'[q] = basis[q]
      /\ wait'[r] # "none" => ackRevision[r] <= cursor'[r]
      /\ wait'[r] = "flow" => r \in basis'[r]
  <2>1. CASE BeginWait(r)
    BY <2>1 DEF BeginWait, TypeOK
  <2>2. CASE Examine(r)
    <3>1. PICK i \in 1 .. Len(history) :
            /\ Unseen(r, i)
            /\ cursor' = [cursor EXCEPT ![r] = history[i].revision]
            /\ \/ /\ wait' = [wait EXCEPT ![r] = "flow"]
                  /\ basis' = [basis EXCEPT ![r] = history[i].after]
               \/ UNCHANGED <<wait, basis>>
      BY <2>2 DEF Examine
    <3>2. history[i] \in Frame(revision)
      BY ElementOfSeq DEF TypeOK
    <3>3. /\ history[i].revision \in 1 .. revision
          /\ history[i].after \in SUBSET Requests
      BY <3>2 DEF Frame
    <3>4. wait[r] = "waiting" /\ ackRevision[r] <= cursor[r]
      BY <1>1, <2>2 DEF Examine, FramesFollow
    <3>5. history[i].revision > cursor[r]
      BY <3>1 DEF Unseen
    <3>6. ackRevision[r] \in Nat /\ cursor[r] \in Nat /\ revision \in Nat
      BY DEF TypeOK
    <3>7. history[i].revision > ackRevision[r]
      BY <3>3, <3>4, <3>5, <3>6
    <3>8. r \in history[i].after
      BY <1>1, <3>7 DEF FramesFollow
    <3>9. /\ wait \in [Requests -> {"none", "waiting", "flow", "unknown"}]
          /\ cursor \in [Requests -> 0 .. revision]
          /\ basis \in [Requests -> SUBSET Requests]
      BY DEF TypeOK
    <3>10. cursor' \in [Requests -> 0 .. revision] /\ cursor'[r] = history[i].revision
           /\ \A q \in Requests \ {r} : cursor'[q] = cursor[q]
      BY <3>1, <3>3, <3>6, <3>9
    <3>11. CASE wait' = [wait EXCEPT ![r] = "flow"]
                /\ basis' = [basis EXCEPT ![r] = history[i].after]
      BY <3>3, <3>6, <3>7, <3>8, <3>9, <3>10, <3>11
    <3>12. CASE UNCHANGED <<wait, basis>>
      BY <3>3, <3>4, <3>6, <3>7, <3>9, <3>10, <3>12
    <3> QED BY <3>1, <3>11, <3>12
  <2>3. CASE WaitFails(r)
    BY <1>1, <2>3 DEF WaitFails, TypeOK, FramesFollow
  <2> QED BY <2>1, <2>2, <2>3
<1>3. TypeOK'
  BY <1>1, <1>2 DEF TypeOK
<1>4. CallsAndCommands' /\ AnswersAreTrue' /\ NotSentNeverArrives'
  BY <1>1 DEF CallsAndCommands, AnswersAreTrue, NotSentNeverArrives
<1>5. OutcomeFollowsCommand'
  BY <1>2 DEF OutcomeFollowsCommand
<1>6. FramesFollow'
  BY <1>1, <1>2 DEF FramesFollow
<1> QED BY <1>3, <1>4, <1>5, <1>6

-----------------------------------------------------------------------------
(* The theorems.                                                           *)

\* A session starts with nothing sent and nothing heard.
LEMMA InitEstablishes ==
  ASSUME Init
  PROVE  SessionInv
<1>1. <<>> \in Seq(Message) /\ <<>> \in Seq(Frame(0)) /\ Len(<<>>) = 0
  OBVIOUS
<1>2. TypeOK
  BY <1>1, SessionAssumption DEF Init, TypeOK
<1> QED BY <1>1, <1>2
    DEF Init, SessionInv, CallsAndCommands, AnswersAreTrue, FramesFollow,
        NotSentNeverArrives, OutcomeFollowsCommand

\* Every step of the session keeps the invariant.
LEMMA NextPreserves ==
  ASSUME SessionInv, [Next]_vars
  PROVE  SessionInv'
<1>1. CASE UNCHANGED vars
  BY <1>1 DEF vars, link, robot, frames, request, waiting, SessionInv, TypeOK,
     CallsAndCommands, AnswersAreTrue, FramesFollow, NotSentNeverArrives,
     OutcomeFollowsCommand
<1>2. CASE Link
  BY <1>2, ConnectingPreserves, RejectingPreserves, HandlingPreserves DEF Link
<1>3. CASE Robot
  BY <1>3, RobotPreserves
<1>4. ASSUME NEW r \in Requests, Caller(r)
      PROVE  SessionInv'
  BY <1>4, CallSteps, CallPreserves, TransmitPreserves, WaitPreserves DEF Caller
<1> QED BY <1>1, <1>2, <1>3, <1>4 DEF Next

\* Answers and frames stay correlated with the commands they belong to.
THEOREM InvariantHolds ==
  Safety => []SessionInv
BY InitEstablishes, NextPreserves, PTL DEF Safety

\* Types hold, and the send lock belongs to the call that sends.
THEOREM TypesHold ==
  Safety => []TypeOK
<1>1. SessionInv => TypeOK
  BY DEF SessionInv
<1> QED BY <1>1, InvariantHolds, PTL

\* RobotCommandNotSentError is raised only for commands that never leave.
THEOREM NotSentCommandsStay ==
  Safety => []NotSentNeverArrives
<1>1. SessionInv => NotSentNeverArrives
  BY DEF SessionInv
<1> QED BY <1>1, InvariantHolds, PTL

\* What request_command returns or raises as an answer is the robot's own.
THEOREM AnswersAreCorrelated ==
  Safety => []AnswersAreTheRobots
<1>1. SessionInv => AnswersAreTheRobots
  BY DEF SessionInv, AnswersAreTrue, AnswersAreTheRobots
<1> QED BY <1>1, InvariantHolds, PTL

\* wait_for_flow returns no frame from before the robot accepted the command.
THEOREM OutcomesFollowCommands ==
  Safety => []OutcomeFollowsCommand
<1>1. SessionInv => OutcomeFollowsCommand
  BY DEF SessionInv
<1> QED BY <1>1, InvariantHolds, PTL

-----------------------------------------------------------------------------
(* The session implements RobotCommand.                                    *)

ToldAll == [r \in Requests |-> Told(r)]
FateAll == [r \in Requests |-> Fate(r)]

\* A step that leaves the calls and the robot alone is a stutter.
LEMMA Stuttering ==
  ASSUME UNCHANGED <<call, result, received, accepted, refused>>
  PROVE  UNCHANGED <<ToldAll, FateAll>>
BY DEF ToldAll, FateAll, Told, Fate

\* What has become of a command, case by case.
LEMMA FateIs ==
  ASSUME NEW r \in Requests, accepted \cap refused = {}
  PROVE  /\ r \in accepted => Fate(r) = "accepted"
         /\ r \in refused => Fate(r) = "refused"
         /\ r \notin received \cup accepted \cup refused => Fate(r) = "kept"
<1>1. r \in accepted => r \notin refused
  OBVIOUS
<1> QED BY <1>1 DEF Fate

\* A step of request_command begins the call, tells its outcome, or neither.
LEMMA CallFollows ==
  ASSUME SessionInv, NEW r \in Requests, CallStep(r)
  PROVE  [Command!Next]_<<ToldAll, FateAll>>
<1> USE DEF SessionInv, CallStep
<1>1. FateAll' = FateAll
  BY DEF FateAll, Fate, robot
<1>2. /\ call \in [Requests -> {"idle", "queued", "sending", "waiting", "done"}]
      /\ result \in [Requests -> {"none", "receipt", "rejected", "unknown",
                                  "not_sent", "cancelled"}]
      /\ result[r] = "none"
  BY DEF TypeOK, CallsAndCommands
<1>3. \A q \in Requests \ {r} : Told(q)' = Told(q)
  BY <1>2 DEF Told
<1>4. Told(r) = IF call[r] = "idle" THEN "none" ELSE "called"
  BY DEF Told
<1>5. CASE call'[r] # "done"
  <2>1. Told(r)' = "called"
    BY <1>2, <1>5 DEF Told
  <2>2. CASE call[r] = "idle"
    <3>1. ToldAll' = [ToldAll EXCEPT ![r] = "called"]
      BY <1>3, <2>1 DEF ToldAll
    <3>2. ToldAll[r] = "none"
      BY <1>4, <2>2 DEF ToldAll
    <3>3. Command!Call(r)
      BY <1>1, <3>1, <3>2 DEF Command!Call, ToldAll, FateAll
    <3> QED BY <3>3 DEF Command!Next
  <2>3. CASE call[r] # "idle"
    <3>1. ToldAll' = ToldAll
      BY <1>3, <1>4, <2>1, <2>3 DEF ToldAll
    <3> QED BY <1>1, <3>1
  <2> QED BY <2>2, <2>3
<1>6. CASE call'[r] = "done"
  <2>1. PICK o \in {"none", "receipt", "rejected", "unknown", "not_sent", "cancelled"} :
          /\ result' = [result EXCEPT ![r] = o]
          /\ o \in {"receipt", "rejected"} => o = future[r]
          /\ o = "not_sent" => call[r] \in {"idle", "queued"}
    OBVIOUS
  <2>2. result'[r] = o /\ o # "none"
    BY <1>2, <1>6, <2>1
  <2>3. Told(r)' = o
    BY <1>6, <2>2 DEF Told
  <2>4. ToldAll' = [ToldAll EXCEPT ![r] = o]
    BY <1>3, <2>3 DEF ToldAll
  <2>5. ToldAll[r] \in {"none", "called"}
    BY <1>4 DEF ToldAll
  <2>6. /\ o = "receipt" => FateAll[r] = "accepted"
        /\ o = "rejected" => FateAll[r] = "refused"
        /\ o = "not_sent" => FateAll[r] = "kept"
    <3>1. o = "receipt" => r \in accepted
      BY <2>1 DEF AnswersAreTrue
    <3>2. o = "rejected" => r \in refused /\ r \notin accepted
      BY <2>1 DEF AnswersAreTrue, CallsAndCommands
    <3>3. o = "not_sent" => r \notin received \cup accepted \cup refused
      BY <2>1 DEF CallsAndCommands, TypeOK
    <3>4. FateAll[r] = Fate(r) /\ accepted \cap refused = {}
      BY DEF FateAll, CallsAndCommands
    <3> QED BY <3>1, <3>2, <3>3, <3>4, FateIs
  <2>7. Command!Tell(r)
    BY <1>1, <2>2, <2>4, <2>5, <2>6
       DEF Command!Tell, Command!Outcomes, ToldAll, FateAll
  <2> QED BY <2>7 DEF Command!Next
<1> QED BY <1>5, <1>6

\* A command leaves while its call lasts.
LEMMA TransmitFollows ==
  ASSUME SessionInv, NEW r \in Requests, Transmit(r)
  PROVE  [Command!Next]_<<ToldAll, FateAll>>
<1> USE DEF SessionInv, Transmit, request
<1>1. ToldAll' = ToldAll
  BY DEF ToldAll, Told
<1>2. CASE r \in received
  <2>1. received' = received
    BY <1>2
  <2> QED BY <2>1, Stuttering
<1>3. CASE r \notin received
  <2>1. /\ r \notin accepted /\ r \notin refused
        /\ received' = received \cup {r} /\ UNCHANGED <<accepted, refused>>
    BY <1>3 DEF TypeOK
  <2>2. FateAll[r] = "kept" /\ FateAll' = [FateAll EXCEPT ![r] = "left"]
    <3>1. Fate(r) = "kept" /\ Fate(r)' = "left"
      BY <1>3, <2>1 DEF Fate
    <3>2. \A q \in Requests \ {r} : Fate(q)' = Fate(q)
      BY <2>1 DEF Fate
    <3> QED BY <3>1, <3>2 DEF FateAll
  <2>3. ToldAll[r] = "called"
    BY DEF ToldAll, Told
  <2>4. Command!Leave(r)
    BY <1>1, <2>2, <2>3 DEF Command!Leave, ToldAll, FateAll
  <2> QED BY <2>4 DEF Command!Next
<1> QED BY <1>2, <1>3

\* The robot answers a command once.
LEMMA RobotFollows ==
  ASSUME SessionInv, Robot
  PROVE  [Command!Next]_<<ToldAll, FateAll>>
<1> USE DEF SessionInv, request
<1>1. CASE PublishFlow
  BY <1>1, Stuttering DEF PublishFlow
<1>2. ASSUME NEW r \in Requests, Accept(r) \/ Refuse(r)
      PROVE  Command!Answer(r)
  <2>1. /\ UNCHANGED <<call, result, received>>
        /\ r \in received \ (accepted \cup refused)
        /\ \/ accepted' = accepted \cup {r} /\ refused' = refused
           \/ refused' = refused \cup {r} /\ accepted' = accepted
    BY <1>2 DEF Accept, Refuse
  <2>2. ToldAll' = ToldAll /\ FateAll[r] = "left"
    BY <2>1 DEF ToldAll, Told, FateAll, Fate
  <2>3. \/ FateAll' = [FateAll EXCEPT ![r] = "accepted"]
        \/ FateAll' = [FateAll EXCEPT ![r] = "refused"]
    <3>1. Fate(r)' \in {"accepted", "refused"}
      BY <2>1 DEF Fate
    <3>2. \A q \in Requests \ {r} : Fate(q)' = Fate(q)
      BY <2>1 DEF Fate
    <3> QED BY <3>1, <3>2 DEF FateAll
  <2> QED BY <2>2, <2>3 DEF Command!Answer, ToldAll, FateAll
<1> QED BY <1>1, <1>2 DEF Robot, Command!Next

\* Every step of the session is one of RobotCommand's, or none to it.
LEMMA StepsFollow ==
  ASSUME SessionInv, [Next]_vars
  PROVE  [Command!Next]_<<ToldAll, FateAll>>
<1>1. CASE UNCHANGED vars
  BY <1>1, Stuttering DEF vars, robot, request
<1>2. CASE Link
  <2>1. UNCHANGED <<call, result, received, accepted, refused>>
    BY <1>2 DEF Link, Activate, Break, Invalidate, RejectPending,
       HandleMessage, robot, request
  <2> QED BY <2>1, Stuttering
<1>3. CASE Robot
  BY <1>3, RobotFollows
<1>4. ASSUME NEW r \in Requests, Caller(r)
      PROVE  [Command!Next]_<<ToldAll, FateAll>>
  <2>1. CASE BeginWait(r) \/ Examine(r) \/ WaitFails(r)
    <3>1. UNCHANGED <<call, result, received, accepted, refused>>
      BY <2>1 DEF BeginWait, Examine, WaitFails, robot, request
    <3> QED BY <3>1, Stuttering
  <2> QED BY <1>4, <2>1, CallSteps, CallFollows, TransmitFollows DEF Caller
<1> QED BY <1>1, <1>2, <1>3, <1>4 DEF Next

\* Calls and commands follow the abstract promise of request_command: one
\* outcome each, and an outcome that names the robot's answer is true.
THEOREM ImplementsCommand ==
  Safety => FollowsCommand
<1>1. Init => Command!Init
  BY DEF Init, Command!Init, Told, Fate
<1>2. SessionInv /\ [Next]_vars => [Command!Next]_<<ToldAll, FateAll>>
  BY StepsFollow
<1> QED BY <1>1, <1>2, InvariantHolds, PTL
           DEF Safety, FollowsCommand, Command!Spec, ToldAll, FateAll

\* What a caller has been told stands, and so does what it says of the command:
\* one told not-sent stays at home, one answered keeps its answer.
ToldForGood ==
  \A r \in Requests :
    /\ Told(r) \notin {"none", "called"} => Told(r)' = Told(r)
    /\ Fate(r) \in {"accepted", "refused"} => Fate(r)' = Fate(r)
    /\ Told(r) = "not_sent" => Fate(r)' = "kept"

\* request_command returns or raises once, and no later message, timeout or
\* reconnect makes its outcome untrue.
THEOREM OutcomesAreFinal ==
  Safety => [][ToldForGood]_vars
<1>1. ASSUME SessionInv, [Next]_vars, NEW r \in Requests
      PROVE  /\ Told(r) \notin {"none", "called"} => Told(r)' = Told(r)
             /\ Fate(r) \in {"accepted", "refused"} => Fate(r)' = Fate(r)
             /\ Told(r) = "not_sent" => Fate(r)' = "kept"
  <2>1. [Command!Next]_<<ToldAll, FateAll>>
    BY <1>1, StepsFollow
  <2>2. /\ ToldAll[r] = Told(r) /\ FateAll[r] = Fate(r)
        /\ ToldAll'[r] = Told(r)' /\ FateAll'[r] = Fate(r)'
    BY DEF ToldAll, FateAll
  <2>3. ToldAll \in [Requests -> {Told(q) : q \in Requests}]
        /\ FateAll \in [Requests -> {Fate(q) : q \in Requests}]
    BY DEF ToldAll, FateAll
  <2>4. Told(r) = "not_sent" => Fate(r) = "kept"
    <3>1. Told(r) = "not_sent" => result[r] = "not_sent"
      BY DEF Told
    <3>2. result[r] = "not_sent" => r \notin received \cup accepted \cup refused
      BY <1>1 DEF SessionInv, CallsAndCommands, TypeOK, NotSentNeverArrives
    <3> QED BY <3>1, <3>2 DEF Fate
  <2>5. CASE UNCHANGED <<ToldAll, FateAll>>
    BY <2>2, <2>4, <2>5
  <2>6. ASSUME NEW q \in Requests,
               Command!Call(q) \/ Command!Leave(q) \/ Command!Answer(q) \/ Command!Tell(q)
        PROVE  /\ Told(r) \notin {"none", "called"} => Told(r)' = Told(r)
               /\ Fate(r) \in {"accepted", "refused"} => Fate(r)' = Fate(r)
               /\ Told(r) = "not_sent" => Fate(r)' = "kept"
    BY <2>2, <2>3, <2>4, <2>6
       DEF Command!Call, Command!Leave, Command!Answer, Command!Tell
  <2> QED BY <2>1, <2>5, <2>6 DEF Command!Next
<1>2. SessionInv /\ [Next]_vars => [ToldForGood]_vars
  BY <1>1 DEF ToldForGood
<1> QED BY <1>2, InvariantHolds, PTL DEF Safety

=============================================================================
