---------------------------- MODULE RecoveryPlan ----------------------------
(***************************************************************************)
(* The continuation at the end of a recovery plan, from the memory of a    *)
(* demonstration to the robot: resolver.py binds the remembered            *)
(* continuation to the Flow a failure was captured on, the coordinator     *)
(* pins it for a session, checks it again against the live Flow at every   *)
(* attempt, sends one guarded $resume_flow, and checks the answer.         *)
(*                                                                         *)
(* Meanwhile the robot's Flow may be edited, reloaded or moved, so every   *)
(* check can be of a Flow that is no longer there.  Attempts, leases and   *)
(* outcomes are in RecoveryCoordinator; here is where the robot goes on.   *)
(***************************************************************************)
EXTENDS Integers, Sequences

CONSTANTS
  Flows,     \* versions of Flows as snapshots show them: [id, states,
             \* actions], states a function on the optional fields the
             \* snapshot has, the actions [index, command, place] that are
             \* not disabled, in tree order
  Memories,  \* continuations as remembered
  None,
  MaxRewind, \* _MAX_REWIND_STEPS
  MaxRows    \* bound on the failure rows

\* Fields a snapshot may lack; fid is filename by another name.
Optional == {"filename", "flow_commit"}

\* pointer.filename, pointer.flow_commit.
Stated(f, field) == IF field \in DOMAIN f.states THEN f.states[field] ELSE None

Structure(action) == [command |-> action.command, place |-> action.place]

\* A commit, where there is one, tells the actions of a Flow.  It may be
\* stated to be null; a file name may not.
ASSUME PlanAssumption ==
  /\ MaxRewind \in Nat /\ MaxRows \in Nat
  /\ \A f \in Flows : \A i \in DOMAIN f.actions :
       f.actions[i].index \in Nat /\ f.actions[i] # None
  /\ None \notin Memories
  /\ \A f \in Flows : /\ DOMAIN f.states \subseteq Optional
                       /\ "filename" \in DOMAIN f.states => f.states["filename"] # None
  /\ \A f, g \in Flows :
       /\ f.id = g.id
       /\ Stated(f, "flow_commit") # None
       /\ Stated(f, "flow_commit") = Stated(g, "flow_commit")
       => f.actions = g.actions

VARIABLES
  flow,     \* the version the robot has loaded
  at,       \* index of the action it is paused at
  row,      \* the failure row
  rows,     \* number of rows so far
  sessions, \* recovery sessions: [key, plan, memory], memory a ghost
  view,     \* the paused pointer the coordinator works with, or None
  using,    \* the session it works for, or None
  sent,     \* its $resume_flow, or None
  resumed,  \* ghost: what the robot resumed for it, or None
  reply,    \* the robot's acknowledgement, or None
  accepted  \* validate_resume_acknowledgement passed

robot    == <<flow, at>>
executor == <<view, using, sent, resumed, reply, accepted>>
vars     == <<robot, row, rows, sessions, executor>>

-----------------------------------------------------------------------------
(* Flows.                                                                  *)

Positions(f, i) == {p \in DOMAIN f.actions : f.actions[p].index = i}

Indices(f) == {f.actions[p].index : p \in DOMAIN f.actions}

\* flow_action_contexts raises on an index that occurs twice.
Unambiguous(f) ==
  \A p, q \in DOMAIN f.actions : f.actions[p].index = f.actions[q].index => p = q

ActionAt(f, i) ==
  IF Positions(f, i) = {} THEN None
  ELSE f.actions[CHOOSE position \in Positions(f, i) : TRUE]

\* The action after it in the tree, whatever its index.
ActionAfter(f, i) ==
  LET position == CHOOSE p \in Positions(f, i) : TRUE
  IN  IF position + 1 \in DOMAIN f.actions THEN f.actions[position + 1] ELSE None

Pointer(f, i) == [flow |-> f, index |-> i, command |-> ActionAt(f, i).command]

Key(pointer) == <<pointer.flow.id, pointer.index, pointer.command>>

-----------------------------------------------------------------------------
(* Plans.                                                                  *)

\* parse_recovery_plan, of the last action.
Parses(p) ==
  \/ p.terminal = "$rerun"
  \/ /\ p.terminal = "$resume_flow"
     /\ p.arguments.rewind \in 0 .. MaxRewind
     /\ p.arguments.mode = IF p.arguments.rewind = 0 THEN "retry_current" ELSE "rewind"
     /\ p.expected = p.arguments
     /\ p.current.index = p.arguments.index
     /\ p.current.command = p.arguments.command
     /\ p.target.index = p.arguments.index - p.arguments.rewind
     /\ p.arguments.rewind = 0 => p.target = p.current

Rewind(p) == IF p.terminal = "$rerun" THEN 0 ELSE p.arguments.rewind

\* The step to resume at.
Target(p) == IF p.terminal = "$rerun" THEN p.current ELSE p.target

\* validate_plan_for_target, validate_plan_for_session.
FitsStep(p, pointer) ==
  p.current.index = pointer.index /\ p.current.command = pointer.command

\* validate_plan_for_flow.
FitsFlow(p, pointer) ==
  /\ Unambiguous(pointer.flow)
  /\ p.current = ActionAt(pointer.flow, pointer.index)
  /\ IF p.terminal = "$rerun"
       THEN p.next = ActionAfter(pointer.flow, pointer.index)
       ELSE p.target = ActionAt(pointer.flow, pointer.index - p.arguments.rewind)

\* build_guarded_resume_arguments: what the snapshot does not state is not
\* guarded.
GuardedArguments(pointer, rewind) ==
  [mode    |-> IF rewind = 0 THEN "retry_current" ELSE "rewind",
   rewind  |-> rewind,
   index   |-> pointer.index,
   command |-> pointer.command,
   id      |-> pointer.flow.id,
   guards  |-> pointer.flow.states]

\* The step the arguments name is the pointer's, and so is every guard that
\* they have.
Guards(arguments, pointer) ==
  /\ arguments.index = pointer.index /\ arguments.command = pointer.command
  /\ arguments.id = pointer.flow.id
  /\ \A field \in DOMAIN arguments.guards :
       arguments.guards[field] = Stated(pointer.flow, field)

\* resume_arguments_for_plan: only $rerun gets fresh arguments; those of
\* $resume_flow go out as they are, if they still agree with the pointer.
ArgumentsAgree(p, pointer) == p.terminal = "$rerun" \/ Guards(p.arguments, pointer)

ResumeArguments(p, pointer) ==
  IF p.terminal = "$rerun" THEN GuardedArguments(pointer, 0) ELSE p.arguments

-----------------------------------------------------------------------------
(* rebind_recovery_actions.                                                *)

\* Mutant: the remembered commands are compared, their areas and items are not.
SameStepsByCommand(m, pointer) ==
  LET current == ActionAt(pointer.flow, pointer.index)
      target  == ActionAt(pointer.flow, pointer.index - m.arguments.rewind)
  IN  /\ current # None /\ target # None
      /\ m.current.command = current.command /\ m.target.command = target.command

\* The remembered step and target are the same steps of this Flow, at
\* whatever indices.
SameSteps(m, pointer) ==
  LET current == ActionAt(pointer.flow, pointer.index)
      target  == ActionAt(pointer.flow, pointer.index - m.arguments.rewind)
  IN  /\ current # None /\ target # None
      /\ Structure(m.current) = Structure(current)
      /\ Structure(m.target) = Structure(target)

\* Mutant: a $rerun is suggested without a look at the Flow.
CanBindAnyRetry(m, pointer) ==
  m.terminal = "$resume_flow" =>
    Parses(m) /\ Unambiguous(pointer.flow) /\ SameSteps(m, pointer)

\* A plan that ends in no continuation is suggested as it is.
CanBind(m, pointer) ==
  /\ m.terminal = "$rerun" => FitsFlow(m, pointer)
  /\ m.terminal = "$resume_flow" =>
       Parses(m) /\ Unambiguous(pointer.flow) /\ SameSteps(m, pointer)

Rebind(m, pointer) ==
  LET fresh == GuardedArguments(pointer, m.arguments.rewind)
  IN  IF m.terminal # "$resume_flow" THEN m
      ELSE [terminal |-> m.terminal, arguments |-> fresh, expected |-> fresh,
            current |-> ActionAt(pointer.flow, pointer.index),
            target |-> ActionAt(pointer.flow, pointer.index - fresh.rewind)]

-----------------------------------------------------------------------------
NoRow == [status |-> "none"]

Init ==
  /\ flow \in Flows /\ at \in Indices(flow)
  /\ row = NoRow /\ rows = 0 /\ sessions = {}
  /\ view = None /\ using = None /\ sent = None
  /\ resumed = None /\ reply = None /\ accepted = FALSE

\* An operator edits or reloads the Flow, or it moves on and pauses again.
Reload ==
  /\ \E f \in Flows : \E i \in Indices(f) : flow' = f /\ at' = i
  /\ UNCHANGED <<row, rows, sessions, executor>>

\* A failure is captured with a snapshot of the Flow.
Capture ==
  /\ view = None /\ rows < MaxRows
  /\ rows' = rows + 1
  /\ row' = [status |-> "pending", pointer |-> Pointer(flow, at)]
  /\ UNCHANGED <<robot, sessions, executor>>

\* process_failure has chosen a memory.
Bind ==
  /\ row.status = "pending"
  /\ \E m \in Memories :
       row' = IF CanBind(m, row.pointer)
                THEN [status |-> "solution_found", pointer |-> row.pointer, memory |-> m,
                      plan |-> Rebind(m, row.pointer), linked |-> FALSE]
                ELSE [status |-> "no_solution"]
  /\ UNCHANGED <<robot, rows, sessions, executor>>

\* _fresh_paused_pointer: the Flow may have changed, the step may not.
Look ==
  /\ row.status = "solution_found" /\ view = None
  /\ Key(Pointer(flow, at)) = Key(row.pointer)
  /\ view' = Pointer(flow, at)
  /\ UNCHANGED <<robot, row, rows, sessions, using, sent, resumed, reply, accepted>>

\* Mutant: the session is kept for the next row.
RefuseRowKeepingSession(by) ==
  /\ row' = [status |-> "refused", pointer |-> row.pointer, plan |-> row.plan,
             by |-> by, seen |-> view]
  /\ view' = None
  /\ UNCHANGED <<robot, rows, sessions, using, sent, resumed, reply, accepted>>

\* RecoveryNonExecutableError: mark_non_executable.
RefuseRow(by) ==
  /\ row' = [status |-> "refused", pointer |-> row.pointer, plan |-> row.plan,
             by |-> by, seen |-> view]
  /\ view' = None /\ using' = None
  /\ UNCHANGED <<robot, rows, sessions, sent, resumed, reply, accepted>>

\* The row's plan is only checked before it has a session, and the database
\* attaches the session of the same step instead of opening a second one.
Prepare ==
  /\ view # None /\ using = None
  /\ IF ~ row.linked
        /\ ~ (Parses(row.plan) /\ FitsStep(row.plan, view) /\ FitsFlow(row.plan, view))
       THEN RefuseRow("row")
       ELSE /\ \E s \in sessions \cup
                    {[key |-> Key(view), plan |-> row.plan, memory |-> row.memory]} :
                 /\ s.key = Key(view)
                 /\ s \in sessions \/ \A t \in sessions : t.key # s.key
                 /\ using' = s /\ sessions' = sessions \cup {s}
            /\ row' = [row EXCEPT !.linked = TRUE]
            /\ UNCHANGED <<robot, rows, view, sent, resumed, reply, accepted>>

\* The pinned plan is checked against the fresh pointer, and goes out.
Continue ==
  /\ using # None /\ sent = None
  /\ IF /\ Parses(using.plan) /\ FitsStep(using.plan, view)
        /\ FitsFlow(using.plan, view) /\ ArgumentsAgree(using.plan, view)
       THEN /\ sent' = ResumeArguments(using.plan, view)
            /\ UNCHANGED <<robot, row, rows, sessions, view, using, resumed, reply,
                           accepted>>
       ELSE RefuseRow("session")

\* RecoveryLiveStateChanged: a newer frame came before the command went out.
LiveStateChanged ==
  /\ view # None /\ sent = None
  /\ view' = None /\ using' = None
  /\ UNCHANGED <<robot, row, rows, sessions, sent, resumed, reply, accepted>>

\* The robot resumes, and says from where and at which action of the Flow it
\* has by now.  Whether it minds the guards is not assumed.
Resume ==
  /\ sent # None /\ resumed = None
  /\ \E i \in Indices(flow) :
       /\ at' = i
       /\ resumed' = ActionAt(flow, i)
       /\ reply' = [previous |-> at, target |-> i, command |-> ActionAt(flow, at).command,
                    id |-> flow.id, says |-> [field \in Optional |-> Stated(flow, field)]]
  /\ UNCHANGED <<flow, row, rows, sessions, view, using, sent, accepted>>

EndAttempt ==
  /\ view' = None /\ using' = None /\ sent' = None /\ resumed' = None /\ reply' = None
  /\ accepted' = FALSE
  /\ UNCHANGED <<robot, row, rows, sessions>>

\* Mutant: any acknowledgement is as good as another.
AcknowledgesSomething(r, pointer, rewind) == r.id = pointer.flow.id

\* validate_resume_acknowledgement.
Acknowledges(r, pointer, rewind) ==
  /\ r.previous = pointer.index /\ r.target = pointer.index - rewind
  /\ r.command = pointer.command /\ r.id = pointer.flow.id
  /\ \A field \in Optional :
       Stated(pointer.flow, field) # None => r.says[field] = Stated(pointer.flow, field)

Acknowledge ==
  /\ reply # None /\ ~ accepted
  /\ Acknowledges(reply, view, Rewind(using.plan))
  /\ accepted' = TRUE
  /\ UNCHANGED <<robot, row, rows, sessions, view, using, sent, resumed, reply>>

\* Refused, lost, not acknowledged, or acknowledged and settled.
AttemptEnds == sent # None /\ EndAttempt

Next ==
  \/ Reload \/ Capture \/ Bind
  \/ Look \/ Prepare \/ Continue \/ LiveStateChanged
  \/ Resume \/ Acknowledge \/ AttemptEnds

Spec == Init /\ [][Next]_vars

-----------------------------------------------------------------------------
\* The coordinator's variables go together, there is one session for a step,
\* and a view is of the step the failure row names.
PlanInv ==
  /\ flow \in Flows /\ at \in Indices(flow)
  /\ rows \in 0 .. MaxRows
  /\ \A s, t \in sessions : s.key = t.key => s = t
  /\ view # None => row.status = "solution_found" /\ Key(view) = Key(row.pointer)
  /\ using # None => view # None /\ using \in sessions /\ using.key = Key(view)
  /\ sent # None => using # None
  /\ reply # None => resumed # None
  /\ resumed # None => sent # None
  /\ accepted => reply # None

\* README: "one guarded $resume_flow".  What is sent names the step the robot
\* was seen paused at, on the Flow it was seen with, and resumes there at the
\* very step the session's memory remembers, at most MaxRewind before it:
\* whatever happened to the indices since the demonstration, and to the Flow
\* since the plan was bound or the session opened.  It may lack the guards
\* the Flow lacked when the plan was bound, so that the version of the Flow
\* is not always named; the steps are compared all the same.
SentForRememberedStep ==
  sent # None =>
    /\ Guards(sent, view)
    /\ sent.rewind \in 0 .. MaxRewind
    /\ Structure(ActionAt(view.flow, view.index)) = Structure(using.memory.current)
    /\ ActionAt(view.flow, view.index - sent.rewind) # None
    /\ Structure(ActionAt(view.flow, view.index - sent.rewind))
         = Structure(Target(using.memory))

\* An acknowledgement that is accepted means that the robot did resume at the
\* remembered step, even if its Flow changed after the last look at it and it
\* does not mind the guards, provided the Flow has a commit.
AcceptedAtRememberedStep ==
  accepted /\ Stated(view.flow, "flow_commit") # None
    => Structure(resumed) = Structure(Target(using.memory))

\* A continuation the resolver binds to a failure is one the coordinator
\* executes on the Flow of that failure: its plan is refused only if the
\* robot has another Flow by then.
BoundMeansExecutable ==
  row.status = "refused" /\ row.by = "row"
      /\ row.plan.terminal \in {"$rerun", "$resume_flow"}
    => row.seen # row.pointer
=============================================================================
