------------------------- MODULE RecoveryPlanProofs -------------------------
(***************************************************************************)
(* Wherever a memory's indices have gone, the continuation that is sent    *)
(* resumes at the step the memory remembers: for all versions of a Flow,   *)
(* all memories and all numbers of failure rows.                           *)
(***************************************************************************)
EXTENDS RecoveryPlan, TLAPS

\* The pointer was taken on a version of the Flow, at one of its actions.
IsPointer(p) == \E f \in Flows : \E i \in Indices(f) : p = Pointer(f, i)

Continues(p) == p.terminal \in {"$rerun", "$resume_flow"}

\* The plan is the memory's, wherever its indices have gone.
SameContinuation(p, m) ==
  /\ p.terminal = m.terminal
  /\ Continues(p) =>
       /\ p.current # None /\ Target(p) # None
       /\ Structure(p.current) = Structure(m.current)
       /\ Structure(Target(p)) = Structure(Target(m))

RowBound ==
  row.status = "solution_found" =>
    /\ IsPointer(row.pointer)
    /\ SameContinuation(row.plan, row.memory)
    /\ Continues(row.plan) =>
         /\ Parses(row.plan) /\ FitsStep(row.plan, row.pointer)
         /\ FitsFlow(row.plan, row.pointer)

SessionsBound == \A s \in sessions : SameContinuation(s.plan, s.memory)

SentGuarded ==
  sent # None =>
    /\ Parses(using.plan) /\ FitsStep(using.plan, view) /\ FitsFlow(using.plan, view)
    /\ Guards(sent, view) /\ sent.rewind = Rewind(using.plan)

ReplyTruthful ==
  resumed # None =>
    \E f \in Flows :
      /\ reply.id = f.id
      /\ \A field \in Optional : reply.says[field] = Stated(f, field)
      /\ resumed = ActionAt(f, reply.target)

AcceptedChecked ==
  accepted => Acknowledges(reply, view, Rewind(using.plan))

PointersTaken ==
  /\ row.status = "pending" => IsPointer(row.pointer)
  /\ view # None => IsPointer(view)

\* The inductive invariant: what the plans in use have gone through.
IInv ==
  /\ PlanInv /\ PointersTaken /\ RowBound /\ SessionsBound
  /\ SentGuarded /\ ReplyTruthful /\ AcceptedChecked
  /\ BoundMeansExecutable

-----------------------------------------------------------------------------
(* Lemmas about Flows and plans.                                           *)

\* flow_action_contexts: the action found at an index has that index.
LEMMA ActionFound ==
  ASSUME NEW f \in Flows, NEW i, ActionAt(f, i) # None
  PROVE  ActionAt(f, i).index = i /\ i \in Nat
<1>1. Positions(f, i) # {}
  BY DEF ActionAt
<1>2. PICK p \in Positions(f, i) : ActionAt(f, i) = f.actions[p]
  BY <1>1 DEF ActionAt
<1> QED BY <1>2, PlanAssumption DEF Positions

\* parse_flow_pointer: a pointer is of an action of its Flow.
LEMMA PointerFound ==
  ASSUME NEW p, IsPointer(p)
  PROVE  /\ p.flow \in Flows /\ p.index \in Nat
         /\ ActionAt(p.flow, p.index) # None
         /\ ActionAt(p.flow, p.index).index = p.index
         /\ ActionAt(p.flow, p.index).command = p.command
<1>0. PICK f \in Flows : \E i \in Indices(f) : p = Pointer(f, i)
  BY DEF IsPointer
<1>1. PICK i \in Indices(f) : p = Pointer(f, i)
  BY <1>0
<1>2. p.flow = f /\ p.index = i /\ p.command = ActionAt(f, i).command
  BY <1>1 DEF Pointer
<1>3. Positions(f, i) # {}
  BY <1>1 DEF Indices, Positions
<1>4. PICK q \in Positions(f, i) : ActionAt(f, i) = f.actions[q]
  BY <1>3 DEF ActionAt
<1>5. ActionAt(f, i) # None
  BY <1>1, <1>4, PlanAssumption DEF Positions
<1> QED BY <1>1, <1>2, <1>5, ActionFound

\* rebind_recovery_actions: what it returns is the remembered continuation,
\* and passes every check the coordinator makes on the same pointer.
LEMMA BindSound ==
  ASSUME NEW m \in Memories, NEW p, IsPointer(p), CanBind(m, p)
  PROVE  /\ SameContinuation(Rebind(m, p), m)
         /\ Continues(Rebind(m, p)) =>
              /\ Parses(Rebind(m, p)) /\ FitsStep(Rebind(m, p), p)
              /\ FitsFlow(Rebind(m, p), p)
<1> DEFINE b == Rebind(m, p)
<1>1. CASE m.terminal = "$rerun"
  <2>1. b = m /\ FitsFlow(m, p)
    BY <1>1 DEF Rebind, CanBind
  <2>2. m.current = ActionAt(p.flow, p.index)
    BY <2>1 DEF FitsFlow
  <2>3. m.current # None /\ FitsStep(m, p)
    BY <2>2, PointerFound DEF FitsStep
  <2> QED BY <1>1, <2>1, <2>3 DEF SameContinuation, Continues, Parses, Target
<1>2. CASE m.terminal = "$resume_flow"
  <2> DEFINE r == m.arguments.rewind
             current == ActionAt(p.flow, p.index)
             target  == ActionAt(p.flow, p.index - r)
  <2>1. Parses(m) /\ Unambiguous(p.flow) /\ SameSteps(m, p)
    BY <1>2 DEF CanBind
  <2>2. r \in 0 .. MaxRewind
    BY <1>2, <2>1 DEF Parses
  <2>3. /\ b.terminal = "$resume_flow"
        /\ b.arguments = GuardedArguments(p, r) /\ b.expected = b.arguments
        /\ b.current = current /\ b.target = target
        /\ b.arguments.rewind = r /\ b.arguments.index = p.index
        /\ b.arguments.command = p.command
        /\ b.arguments.mode = IF r = 0 THEN "retry_current" ELSE "rewind"
    BY <1>2 DEF Rebind, GuardedArguments
  <2>4. /\ current # None /\ target # None
        /\ Structure(m.current) = Structure(current)
        /\ Structure(m.target) = Structure(target)
    BY <2>1 DEF SameSteps
  <2>5. current.index = p.index /\ current.command = p.command /\ p.index \in Nat
        /\ p.flow \in Flows
    BY PointerFound
  <2>6. target.index = p.index - r
    BY <2>4, <2>5, ActionFound
  <2>7. r = 0 => target = current
    BY <2>5
  <2>8. Parses(b)
    BY <2>2, <2>3, <2>5, <2>6, <2>7 DEF Parses
  <2>9. FitsStep(b, p) /\ FitsFlow(b, p)
    BY <2>1, <2>3, <2>5 DEF FitsStep, FitsFlow
  <2>10. SameContinuation(b, m)
    BY <1>2, <2>3, <2>4 DEF SameContinuation, Target
  <2> QED BY <2>8, <2>9, <2>10
<1>3. CASE ~ Continues(m)
  <2>1. b = m
    BY <1>3 DEF Rebind, Continues
  <2> QED BY <1>3, <2>1 DEF SameContinuation, Continues
<1> QED BY <1>1, <1>2, <1>3 DEF Continues

\* resume_arguments_for_plan: every guard the arguments have is the one of
\* the pointer they are for.
LEMMA ArgumentsGuard ==
  ASSUME NEW p, NEW v, Parses(p), ArgumentsAgree(p, v)
  PROVE  /\ Guards(ResumeArguments(p, v), v)
         /\ ResumeArguments(p, v).rewind = Rewind(p)
<1>1. CASE p.terminal = "$rerun"
  <2>1. ResumeArguments(p, v) = GuardedArguments(v, 0) /\ Rewind(p) = 0
    BY <1>1 DEF ResumeArguments, Rewind
  <2>2. \A field \in DOMAIN v.flow.states : v.flow.states[field] = Stated(v.flow, field)
    BY DEF Stated
  <2> QED BY <2>1, <2>2 DEF GuardedArguments, Guards
<1>2. CASE p.terminal # "$rerun"
  BY <1>2 DEF ArgumentsAgree, ResumeArguments, Rewind
<1> QED BY <1>1, <1>2

\* The plan that fits the Flow goes on where it was meant to.
LEMMA TargetReached ==
  ASSUME NEW p, NEW v, IsPointer(v), Parses(p), FitsFlow(p, v)
  PROVE  /\ Continues(p) /\ Rewind(p) \in 0 .. MaxRewind
         /\ p.current = ActionAt(v.flow, v.index)
         /\ Target(p) = ActionAt(v.flow, v.index - Rewind(p))
<1>1. v.index \in Nat
  BY PointerFound
<1>2. Continues(p)
  BY DEF Parses, Continues
<1>3. Rewind(p) \in 0 .. MaxRewind
  BY PlanAssumption DEF Parses, Rewind
<1> QED BY <1>1, <1>2, <1>3 DEF FitsFlow, Target, Rewind, Continues

-----------------------------------------------------------------------------
(* The invariant.                                                          *)

\* The invariant holds before there is a failure row.
LEMMA InvInit == Init => IInv
BY PlanAssumption DEF Init, IInv, PlanInv, PointersTaken, RowBound, SessionsBound, SentGuarded,
       ReplyTruthful, AcceptedChecked, BoundMeansExecutable, NoRow

\* Editing the Flow of the robot changes nothing that was checked.
LEMMA InvReload == IInv /\ Reload => IInv'
BY DEF Reload, IInv, PlanInv, PointersTaken, RowBound, SessionsBound, SentGuarded,
       ReplyTruthful, AcceptedChecked, BoundMeansExecutable, executor

\* A failure row holds a pointer of the robot.
LEMMA InvCapture == IInv /\ Capture => IInv'
<1> SUFFICES ASSUME IInv, Capture PROVE IInv'
  OBVIOUS
<1>1. IsPointer(Pointer(flow, at))
  BY DEF IInv, PlanInv, IsPointer
<1>2. PlanInv'
  BY PlanAssumption DEF Capture, IInv, PlanInv, robot, executor
<1>3. PointersTaken' /\ RowBound' /\ BoundMeansExecutable'
  BY <1>1 DEF Capture, IInv, PointersTaken, RowBound, BoundMeansExecutable, executor
<1>4. SessionsBound' /\ SentGuarded' /\ ReplyTruthful' /\ AcceptedChecked'
  BY DEF Capture, IInv, SessionsBound, SentGuarded, ReplyTruthful, AcceptedChecked,
         executor
<1> QED BY <1>2, <1>3, <1>4 DEF IInv

\* process_failure binds what the coordinator can execute.
LEMMA InvBind == IInv /\ Bind => IInv'
<1> SUFFICES ASSUME IInv, Bind PROVE IInv'
  OBVIOUS
<1>1. row.status = "pending" /\ IsPointer(row.pointer) /\ view = None
  BY DEF Bind, IInv, PlanInv, PointersTaken
<1>2. PlanInv'
  BY <1>1 DEF Bind, IInv, PlanInv, robot, executor
<1>5. SessionsBound' /\ SentGuarded' /\ ReplyTruthful' /\ AcceptedChecked'
  BY DEF Bind, IInv, SessionsBound, SentGuarded, ReplyTruthful, AcceptedChecked, executor
<1>3. PICK m \in Memories :
        row' = IF CanBind(m, row.pointer)
                 THEN [status |-> "solution_found", pointer |-> row.pointer, memory |-> m,
                       plan |-> Rebind(m, row.pointer), linked |-> FALSE]
                 ELSE [status |-> "no_solution"]
  BY DEF Bind
<1>4. UNCHANGED executor
  BY DEF Bind
<1>6. PointersTaken' /\ RowBound' /\ BoundMeansExecutable'
  <2>1. CASE CanBind(m, row.pointer)
    <3>1. /\ row'.status = "solution_found" /\ row'.pointer = row.pointer
          /\ row'.memory = m /\ row'.plan = Rebind(m, row.pointer)
      BY <1>3, <2>1
    <3>2. RowBound'
      BY <1>1, <2>1, <3>1, BindSound DEF RowBound
    <3>3. view' = None
      BY <1>1, <1>4 DEF executor
    <3> QED BY <3>1, <3>2, <3>3 DEF PointersTaken, BoundMeansExecutable
  <2>2. CASE ~ CanBind(m, row.pointer)
    BY <1>1, <1>3, <1>4, <2>2 DEF PointersTaken, RowBound, BoundMeansExecutable, executor
  <2> QED BY <2>1, <2>2
<1> QED BY <1>2, <1>5, <1>6 DEF IInv

\* _fresh_paused_pointer takes a pointer of the step of the row.
LEMMA InvLook == IInv /\ Look => IInv'
<1> SUFFICES ASSUME IInv, Look PROVE IInv'
  OBVIOUS
<1>1. IsPointer(Pointer(flow, at))
  BY DEF IInv, PlanInv, IsPointer
<1>2. using = None /\ sent = None /\ resumed = None /\ ~ accepted
  BY DEF Look, IInv, PlanInv
<1>3. PlanInv'
  BY <1>2 DEF Look, IInv, PlanInv, robot
<1>4. PointersTaken'
  BY <1>1 DEF Look, IInv, PointersTaken
<1> QED BY <1>2, <1>3, <1>4
        DEF Look, IInv, RowBound, SessionsBound, SentGuarded, ReplyTruthful,
            AcceptedChecked, BoundMeansExecutable, robot

\* Refusing a row ends the work for it.
LEMMA InvRefuseRow ==
  ASSUME NEW by, IInv, view # None, sent = None, RefuseRow(by),
         by = "row" /\ Continues(row.plan) => view # row.pointer
  PROVE  IInv'
<1>1. resumed = None /\ ~ accepted /\ reply = None
  BY DEF IInv, PlanInv
<1>2. PlanInv'
  BY <1>1 DEF RefuseRow, IInv, PlanInv, robot
<1>3. PointersTaken' /\ RowBound' /\ BoundMeansExecutable'
  BY DEF RefuseRow, PointersTaken, RowBound, BoundMeansExecutable, Continues
<1> QED BY <1>1, <1>2, <1>3
        DEF RefuseRow, IInv, SessionsBound, SentGuarded, ReplyTruthful, AcceptedChecked

\* prepare pins the plan of the row, or attaches the session of the step.
LEMMA InvPrepare == IInv /\ Prepare => IInv'
<1> SUFFICES ASSUME IInv, Prepare PROVE IInv'
  OBVIOUS
<1>1. /\ view # None /\ using = None /\ sent = None
      /\ row.status = "solution_found" /\ Key(view) = Key(row.pointer)
  BY DEF Prepare, IInv, PlanInv
<1> DEFINE fits == Parses(row.plan) /\ FitsStep(row.plan, view) /\ FitsFlow(row.plan, view)
<1>2. CASE ~ row.linked /\ ~ fits
  <2>1. RefuseRow("row")
    BY <1>2 DEF Prepare
  <2>2. Continues(row.plan) => view # row.pointer
    BY <1>1, <1>2 DEF IInv, RowBound
  <2> QED BY <1>1, <2>1, <2>2, InvRefuseRow
<1>3. CASE ~ (~ row.linked /\ ~ fits)
  <2> DEFINE new == [key |-> Key(view), plan |-> row.plan, memory |-> row.memory]
  <2>1. PICK s \in sessions \cup {new} :
          /\ s.key = Key(view)
          /\ s \in sessions \/ \A t \in sessions : t.key # s.key
          /\ using' = s /\ sessions' = sessions \cup {s}
    BY <1>3 DEF Prepare
  <2>2. /\ row' = [row EXCEPT !.linked = TRUE]
        /\ UNCHANGED <<robot, rows, view, sent, resumed, reply, accepted>>
    BY <1>3 DEF Prepare
  <2>3. s \in sessions \/ (s = new /\ \A t \in sessions : t.key # s.key)
    BY <2>1
  <2>4. SameContinuation(s.plan, s.memory)
    BY <1>1, <2>3 DEF IInv, SessionsBound, RowBound
  <2>5. SessionsBound'
    BY <2>1, <2>4 DEF IInv, SessionsBound
  <2>6. \A t, u \in sessions' : t.key = u.key => t = u
    BY <2>1, <2>3 DEF IInv, PlanInv
  <2>7. /\ row'.status = row.status /\ row'.pointer = row.pointer
        /\ row'.plan = row.plan /\ row'.memory = row.memory
    BY <2>2
  <2>8. /\ using' \in sessions' /\ using'.key = Key(view')
        /\ view' = view /\ sent' = None /\ resumed' = None /\ reply' = None
        /\ accepted' = FALSE
    BY <1>1, <2>1, <2>2 DEF IInv, PlanInv
  <2>9. flow' = flow /\ at' = at /\ rows' = rows
    BY <2>2 DEF robot
  <2>10. PlanInv'
    BY <1>1, <2>6, <2>7, <2>8, <2>9 DEF IInv, PlanInv
  <2>11. PointersTaken' /\ RowBound' /\ BoundMeansExecutable'
    BY <1>1, <2>7, <2>8 DEF IInv, PointersTaken, RowBound, BoundMeansExecutable
  <2> QED BY <2>5, <2>8, <2>10, <2>11 DEF IInv, SentGuarded, ReplyTruthful, AcceptedChecked
<1> QED BY <1>2, <1>3

\* What goes out was checked against the pointer it goes out for.
LEMMA InvContinue == IInv /\ Continue => IInv'
<1> SUFFICES ASSUME IInv, Continue PROVE IInv'
  OBVIOUS
<1> DEFINE fits == /\ Parses(using.plan) /\ FitsStep(using.plan, view)
                   /\ FitsFlow(using.plan, view) /\ ArgumentsAgree(using.plan, view)
<1>1. using # None /\ view # None /\ sent = None
  BY DEF Continue, IInv, PlanInv
<1>2. CASE fits
  <2>1. /\ sent' = ResumeArguments(using.plan, view)
        /\ UNCHANGED <<robot, row, rows, sessions, view, using, resumed, reply, accepted>>
    BY <1>2 DEF Continue
  <2>2. Guards(sent', view) /\ sent'.rewind = Rewind(using.plan)
    BY <1>2, <2>1, ArgumentsGuard
  <2>3. SentGuarded'
    BY <1>2, <2>1, <2>2 DEF SentGuarded
  <2>4. PlanInv'
    BY <1>1, <2>1 DEF IInv, PlanInv, robot
  <2> QED BY <2>1, <2>3, <2>4
          DEF IInv, PointersTaken, RowBound, SessionsBound, ReplyTruthful, AcceptedChecked,
              BoundMeansExecutable, robot
<1>3. CASE ~ fits
  <2>1. RefuseRow("session")
    BY <1>3 DEF Continue
  <2> QED BY <1>1, <2>1, InvRefuseRow
<1> QED BY <1>2, <1>3

\* Giving up before anything is sent keeps the invariant.
LEMMA InvLiveStateChanged == IInv /\ LiveStateChanged => IInv'
BY DEF LiveStateChanged, IInv, PlanInv, PointersTaken, RowBound, SessionsBound, SentGuarded,
       ReplyTruthful, AcceptedChecked, BoundMeansExecutable, robot

\* The robot answers for a Flow that it has.
LEMMA InvResume == IInv /\ Resume => IInv'
<1> SUFFICES ASSUME IInv, Resume PROVE IInv'
  OBVIOUS
<1>1. PICK i \in Indices(flow) :
        /\ at' = i /\ resumed' = ActionAt(flow, i)
        /\ reply' = [previous |-> at, target |-> i, command |-> ActionAt(flow, at).command,
                     id |-> flow.id, says |-> [field \in Optional |-> Stated(flow, field)]]
  BY DEF Resume
<1>2. /\ sent # None /\ ~ accepted /\ flow \in Flows
      /\ UNCHANGED <<flow, row, rows, sessions, view, using, sent, accepted>>
  BY DEF Resume, IInv, PlanInv
<1>3. resumed' # None
  <2>1. PICK p \in DOMAIN flow.actions : flow.actions[p].index = i
    BY DEF Indices
  <2>2. Positions(flow, i) # {}
    BY <2>1 DEF Positions
  <2> QED BY <1>1, <1>2, <2>2, PlanAssumption DEF ActionAt, Positions
<1>4. PlanInv'
  BY <1>1, <1>2, <1>3 DEF IInv, PlanInv
<1>5. PointersTaken' /\ RowBound' /\ SessionsBound' /\ SentGuarded' /\ BoundMeansExecutable'
  BY <1>2 DEF IInv, PointersTaken, RowBound, SessionsBound, SentGuarded, BoundMeansExecutable
<1>6. ReplyTruthful'
  BY <1>1, <1>2 DEF ReplyTruthful
<1>7. AcceptedChecked'
  BY <1>2 DEF AcceptedChecked
<1> QED BY <1>4, <1>5, <1>6, <1>7 DEF IInv

\* An acknowledgement is accepted when it matches.
LEMMA InvAcknowledge == IInv /\ Acknowledge => IInv'
BY DEF Acknowledge, IInv, PlanInv, PointersTaken, RowBound, SessionsBound, SentGuarded,
       ReplyTruthful, AcceptedChecked, BoundMeansExecutable, robot

\* The end of an attempt keeps the invariant.
LEMMA InvAttemptEnds == IInv /\ AttemptEnds => IInv'
BY DEF AttemptEnds, EndAttempt, IInv, PlanInv, PointersTaken, RowBound, SessionsBound,
       SentGuarded, ReplyTruthful, AcceptedChecked, BoundMeansExecutable, robot

\* A stuttering step keeps the invariant.
LEMMA InvStutter == IInv /\ UNCHANGED vars => IInv'
BY DEF vars, robot, executor, IInv, PlanInv, PointersTaken, RowBound, SessionsBound,
       SentGuarded, ReplyTruthful, AcceptedChecked, BoundMeansExecutable

\* Every step keeps what the plans in use have gone through.
THEOREM StrongerInvariant == Spec => []IInv
<1>1. IInv /\ [Next]_vars => IInv'
  BY InvReload, InvCapture, InvBind, InvLook, InvPrepare, InvContinue,
     InvLiveStateChanged, InvResume, InvAcknowledge, InvAttemptEnds, InvStutter
  DEF Next
<1> QED BY <1>1, InvInit, PTL DEF Spec

\* The coordinator's variables go together.
THEOREM InvariantHolds == Spec => []PlanInv
<1>1. IInv => PlanInv
  BY DEF IInv
<1> QED BY <1>1, StrongerInvariant, PTL

\* What is sent resumes at the remembered step of the Flow it was seen with.
THEOREM ContinuationsAreRemembered == Spec => []SentForRememberedStep
<1>1. IInv => SentForRememberedStep
  <2> SUFFICES ASSUME IInv, sent # None PROVE SentForRememberedStep
    BY DEF SentForRememberedStep
  <2> DEFINE p == using.plan
  <2>1. /\ IsPointer(view) /\ Parses(p) /\ FitsFlow(p, view)
        /\ Guards(sent, view) /\ sent.rewind = Rewind(p)
        /\ SameContinuation(p, using.memory)
    BY DEF IInv, PlanInv, PointersTaken, SentGuarded, SessionsBound
  <2>2. /\ Continues(p) /\ Rewind(p) \in 0 .. MaxRewind
        /\ p.current = ActionAt(view.flow, view.index)
        /\ Target(p) = ActionAt(view.flow, view.index - Rewind(p))
    BY <2>1, TargetReached
  <2> QED BY <2>1, <2>2 DEF SentForRememberedStep, SameContinuation
<1> QED BY <1>1, StrongerInvariant, PTL

\* An accepted acknowledgement is of the remembered step, as a commit tells
\* the versions of a Flow apart.
THEOREM AcceptedResumesAreRemembered == Spec => []AcceptedAtRememberedStep
<1>1. IInv => AcceptedAtRememberedStep
  <2> SUFFICES ASSUME IInv, accepted, Stated(view.flow, "flow_commit") # None
               PROVE  AcceptedAtRememberedStep
    BY DEF AcceptedAtRememberedStep
  <2> DEFINE p == using.plan
  <2>1. sent # None /\ resumed # None /\ using \in sessions /\ view # None
    BY DEF IInv, PlanInv
  <2>2. /\ IsPointer(view) /\ Parses(p) /\ FitsFlow(p, view)
        /\ SameContinuation(p, using.memory)
        /\ Acknowledges(reply, view, Rewind(p))
    BY <2>1 DEF IInv, PointersTaken, SentGuarded, SessionsBound, AcceptedChecked
  <2>3. PICK f \in Flows : /\ reply.id = f.id
                           /\ \A field \in Optional : reply.says[field] = Stated(f, field)
                           /\ resumed = ActionAt(f, reply.target)
    BY <2>1 DEF IInv, ReplyTruthful
  <2>4. f.actions = view.flow.actions
    <3>1. view.flow \in Flows /\ "flow_commit" \in Optional
      BY <2>2, PointerFound DEF Optional
    <3>2. f.id = view.flow.id /\ Stated(f, "flow_commit") = Stated(view.flow, "flow_commit")
      BY <2>2, <2>3, <3>1 DEF Acknowledges
    <3> QED BY <3>1, <3>2, PlanAssumption
  <2>7. ActionAt(f, reply.target) = ActionAt(view.flow, reply.target)
    BY <2>4 DEF ActionAt, Positions
  <2>5. reply.target = view.index - Rewind(p)
    BY <2>2 DEF Acknowledges
  <2>6. Continues(p) /\ Target(p) = ActionAt(view.flow, view.index - Rewind(p))
    BY <2>2, TargetReached
  <2> QED BY <2>2, <2>3, <2>7, <2>5, <2>6 DEF AcceptedAtRememberedStep, SameContinuation
<1> QED BY <1>1, StrongerInvariant, PTL

\* A bound plan is refused only on another Flow than it was bound on.
THEOREM BoundPlansExecute == Spec => []BoundMeansExecutable
<1>1. IInv => BoundMeansExecutable
  BY DEF IInv
<1> QED BY <1>1, StrongerInvariant, PTL
=============================================================================
