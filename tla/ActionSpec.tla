----------------------------- MODULE ActionSpec -----------------------------
(***************************************************************************)
(* How a remembered correction is judged against the robot's live action   *)
(* spec: validate_corrections_against_commands in recovery_executor.py,    *)
(* and the moments at which the coordinator calls it.                      *)
(*                                                                         *)
(* A correction was recorded when an operator demonstrated it.  The robot  *)
(* publishes its action spec on every connection and whenever it changes;  *)
(* a spec is a function from commands to their schemas.  The correction is *)
(* judged by the newest frame before the session is prepared, and again    *)
(* right before it is sent; by then the robot may have changed once more.  *)
(*                                                                         *)
(* What a value is and which schema it fits is left to operators that       *)
(* JsonSchema defines.  An optional field is a sequence of one or none.    *)
(***************************************************************************)
EXTENDS JsonValue, Integers, Sequences

CONSTANTS
  Specs,          \* the action specs the robot may have
  Equal(_, _),    \* _json_values_equal
  Valid(_, _),    \* _validate_action_arguments accepts arguments for inputs
  Described(_),   \* the arguments that inputs describe: what the robot accepts
  Spelled(_, _),  \* what a text spells when it is read as a type: one or none
  MaxChanges,     \* bound on the changes of the live spec
  MaxGeneration   \* bound on the connections

ASSUME BoundsAssumption == MaxChanges \in Nat /\ MaxGeneration \in Nat

VARIABLES
  live,        \* the robot's action spec
  changes,     \* how often it changed
  up,          \* the session is connected
  generation,  \* _connection_generation
  coming,      \* specs published on this connection and not yet received
  frame,       \* _latest_commands_frame
  memory,      \* the recorded correction
  stage,       \* how far the coordinator is with it
  born,        \* generation of the paused pointer it works with
  judged,      \* ghost: the spec it was last judged by
  used         \* ghost: the arguments it ran with, and the spec by then

robot   == <<live, changes>>
session == <<up, generation, coming, frame>>
task    == <<stage, born, judged, used>>
vars    == <<robot, session, memory, task>>

-----------------------------------------------------------------------------
(* Defaults, and what was recorded of them.                                *)

\* _action_input_default: a placeholder is a text, read by the input's type.
\* An array that cannot be read stays a text, a number is no default then.
Default(input) ==
  LET raw     == input.placeholder
      type    == input.schema.type
      spelled == Spelled(type, raw)
  IN  CASE raw = "" -> Missing
        [] raw # "" /\ type = "boolean" -> <<"boolean", raw = "true">>
        [] raw # "" /\ type \in {"int", "float", "array"} /\ spelled # <<>> -> spelled[1]
        [] raw # "" /\ type \in {"int", "float"} /\ spelled = <<>> -> Missing
        [] OTHER -> <<"text", raw>>

Defaults(inputs) ==
  LET defaulted == {i \in inputs : Default(i) # Missing}
  IN  [n \in {i.name : i \in defaulted} |->
         Default(CHOOSE i \in defaulted : i.name = n)]

\* The arguments a command runs with: its own, and defaults for the rest.
Effective(arguments, inputs) ==
  LET defaults == Defaults(inputs)
  IN  [n \in DOMAIN defaults \cup DOMAIN arguments |->
         IF n \in DOMAIN arguments THEN arguments[n] ELSE defaults[n]]

\* _validate_action_provenance
Provenance(action, inputs) ==
  /\ action.explicit # <<>> => action.explicit[1] = DOMAIN action.arguments
  /\ IF action.effective = <<>>
       THEN Defaults(inputs) = Nothing
       ELSE Equal(Object(action.effective[1]),
                  Object(Effective(action.arguments, inputs)))

-----------------------------------------------------------------------------
(* The judgement.                                                          *)

Is(arguments, n, v) == n \in DOMAIN arguments /\ arguments[n] = v

\* Mutant: a download must be asked for to need a confirmation.
NeedsConfirmationIfAsked(action, schema) ==
  \/ schema.confirmed
  \/ action.command = "download_vla_model"
  \/ /\ action.command = "override_vla_model"
     /\ Is(action.arguments, "allow_download", <<"boolean", TRUE>>)

\* _command_requires_confirmation
NeedsConfirmation(action, schema) ==
  \/ schema.confirmed
  \/ action.command = "download_vla_model"
  \/ /\ action.command = "override_vla_model"
     /\ ~ Is(action.arguments, "allow_download", <<"boolean", FALSE>>)

\* validate_corrections_against_commands, for one correction.
Executable(action, spec) ==
  /\ action.command \in DOMAIN spec
  /\ LET schema == spec[action.command]
     IN  /\ ~ NeedsConfirmation(action, schema)
         /\ Valid(action.arguments, schema.inputs)
         /\ Provenance(action, schema.inputs)

-----------------------------------------------------------------------------
(* What the judgement promises.                                            *)

\* No input's path is the beginning of another's.
Unambiguous(inputs) ==
  /\ \A i \in inputs : Len(i.path) > 0
  /\ \A i \in inputs : ~ \E j \in inputs \ {i} :
       \E k \in 1 .. Len(j.path) : SubSeq(j.path, 1, k) = i.path

\* The same names, and equal values under each.
SameByName(f, g) ==
  DOMAIN f = DOMAIN g /\ \A n \in DOMAIN f : Equal(f[n], g[n])

\* What an action was recorded to have run with.
Recorded(action) ==
  IF action.effective = <<>> THEN action.arguments ELSE action.effective[1]

\* The live spec describes the action, runs it unattended, and runs it with
\* what it was recorded to have run with.
Repeatable(action, spec) ==
  /\ action.command \in DOMAIN spec
  /\ LET schema == spec[action.command]
         runs   == Effective(action.arguments, schema.inputs)
     IN  /\ ~ NeedsConfirmation(action, schema)
         /\ Unambiguous(schema.inputs)
         /\ action.arguments \in Described(schema.inputs)
         /\ SameByName(Recorded(action), runs)

-----------------------------------------------------------------------------
(* The operator and the robot.                                             *)

Init ==
  /\ live \in Specs /\ changes = 0
  /\ up = FALSE /\ generation = 0 /\ coming = <<>> /\ frame = <<>>
  /\ memory = <<>>
  /\ stage = "idle" /\ born = 0 /\ judged = <<>> /\ used = <<>>

\* What a demonstration leaves behind: the arguments as they were given, or
\* with the defaults written out, or nothing about the defaults at all.
Records(command, arguments, inputs) ==
  LET effective == Effective(arguments, inputs)
      Tracked(a) == [command |-> command, arguments |-> a,
                     effective |-> <<effective>>, explicit |-> <<DOMAIN a>>]
  IN  {Tracked(arguments), Tracked(effective),
       [command |-> command, arguments |-> arguments,
        effective |-> <<>>, explicit |-> <<>>]}

\* An operator resolves a failure with a command the robot accepts.
Demonstrate ==
  /\ memory = <<>>
  /\ \E command \in DOMAIN live :
       LET inputs == live[command].inputs
       IN  /\ Unambiguous(inputs)
           /\ \E arguments \in Described(inputs) :
                memory' \in {<<r>> : r \in Records(command, arguments, inputs)}
  /\ UNCHANGED <<robot, session, task>>

\* The robot is configured or updated, and publishes its spec again.  What
\* it was before the demonstration does not matter: Init takes any spec.
Reconfigure ==
  /\ memory # <<>> /\ changes < MaxChanges
  /\ live' \in Specs \ {live} /\ changes' = changes + 1
  /\ coming' = IF up THEN Append(coming, live') ELSE coming
  /\ UNCHANGED <<up, generation, frame, memory, task>>

\* The command reaches the robot, which fills in the defaults of its own.
Run ==
  /\ stage = "sent"
  /\ LET action == memory[1]
         fits   == /\ action.command \in DOMAIN live
                   /\ action.arguments \in Described(live[action.command].inputs)
     IN  IF fits
           THEN /\ stage' = "ran"
                /\ used' = <<[arguments |-> Effective(action.arguments,
                                                      live[action.command].inputs),
                              spec |-> live]>>
           ELSE stage' = "rejected" /\ UNCHANGED used
  /\ UNCHANGED <<robot, session, memory, born, judged>>

-----------------------------------------------------------------------------
(* The session: a commands frame belongs to one connection.                *)

\* _activate_connection
Connect ==
  /\ ~ up /\ generation < MaxGeneration
  /\ up' = TRUE /\ generation' = generation + 1
  /\ coming' = <<live>> /\ frame' = <<>>
  /\ UNCHANGED <<robot, memory, task>>

\* Mutant: the frame of the last connection stays.
DisconnectKeepingFrame ==
  /\ up
  /\ up' = FALSE /\ coming' = <<>>
  /\ UNCHANGED <<robot, generation, frame, memory, task>>

\* _invalidate_connection
Disconnect ==
  /\ up
  /\ up' = FALSE /\ coming' = <<>> /\ frame' = <<>>
  /\ UNCHANGED <<robot, generation, memory, task>>

\* _handle_message
Deliver ==
  /\ up /\ coming # <<>>
  /\ coming' = Tail(coming)
  /\ frame' = <<[generation |-> generation, spec |-> Head(coming)]>>
  /\ UNCHANGED <<robot, up, generation, memory, task>>

-----------------------------------------------------------------------------
(* The coordinator.                                                        *)

\* A frame of the connection the pointer belongs to.
FrameOf(g) == up /\ frame # <<>> /\ frame[1].generation = g

\* wait_for_commands, then the check before the session is prepared: a
\* correction the spec does not allow is given back as not executable.
Prepare ==
  /\ stage = "idle" /\ memory # <<>> /\ FrameOf(generation)
  /\ born' = generation
  /\ judged' = <<frame[1].spec>>
  /\ stage' = IF Executable(memory[1], frame[1].spec) THEN "claimed" ELSE "withdrawn"
  /\ UNCHANGED <<robot, session, memory, used>>

\* Mutant: what was executable when it was prepared is sent.
DispatchOnPreparedVerdict ==
  /\ stage = "claimed"
  /\ IF FrameOf(born)
       THEN stage' = "sent" /\ judged' = <<frame[1].spec>>
       ELSE stage' = "stopped" /\ UNCHANGED judged
  /\ UNCHANGED <<robot, session, memory, born, used>>

\* The last check and request_command, with no await between them.
Dispatch ==
  /\ stage = "claimed"
  /\ IF FrameOf(born)
       THEN /\ judged' = <<frame[1].spec>>
            /\ stage' = IF Executable(memory[1], frame[1].spec) THEN "sent" ELSE "stopped"
       ELSE stage' = "stopped" /\ UNCHANGED judged
  /\ UNCHANGED <<robot, session, memory, born, used>>

\* Reconciliation offers the failure again, or the next one.
Again ==
  /\ stage \in {"withdrawn", "stopped", "rejected", "ran"}
  /\ stage' = "idle" /\ judged' = <<>> /\ used' = <<>> /\ born' = 0
  /\ UNCHANGED <<robot, session, memory>>

-----------------------------------------------------------------------------
Next ==
  \/ Demonstrate \/ Reconfigure \/ Run
  \/ Connect \/ Disconnect \/ Deliver
  \/ Prepare \/ Dispatch \/ Again

Spec == Init /\ [][Next]_vars

-----------------------------------------------------------------------------
\* Every variable has its type, a frame is of the present connection, and
\* what is judged was once published.
TypeOK ==
  /\ live \in Specs /\ changes \in 0 .. MaxChanges
  /\ up \in BOOLEAN /\ generation \in 0 .. MaxGeneration
  /\ coming \in Seq(Specs)
  /\ frame # <<>> => up /\ frame[1].generation = generation /\ frame[1].spec \in Specs
  /\ memory # <<>> => memory[1].effective # <<>> \/ memory[1].explicit = <<>>
  /\ stage \in {"idle", "claimed", "withdrawn", "stopped", "sent", "rejected", "ran"}
  /\ born \in 0 .. generation
  /\ judged # <<>> => judged[1] \in Specs
  /\ stage = "ran" <=> used # <<>>

\* A correction that was judged and sent is one the spec it was judged by
\* describes and would run as it was recorded, and a correction that was
\* withdrawn is none, unless the record is silent about defaults.
JudgedRightly ==
  /\ stage \in {"sent", "ran", "rejected"} => Repeatable(memory[1], judged[1])
  /\ stage = "withdrawn" =>
       \/ ~ Repeatable(memory[1], judged[1])
       \/ memory[1].effective = <<>>

\* "Live action defaults changed": what the robot then runs is what was
\* recorded, or what was given when nothing was recorded, unless the robot changed its spec after the
\* frame that arrived last before the command left.
RunsAsRecorded ==
  stage = "ran" /\ used[1].spec = judged[1] =>
    IF memory[1].effective = <<>>
      THEN /\ DOMAIN used[1].arguments = DOMAIN memory[1].arguments
           /\ \A n \in DOMAIN memory[1].arguments :
                used[1].arguments[n] = memory[1].arguments[n]
      ELSE Equal(Object(memory[1].effective[1]), Object(used[1].arguments))

\* No model is downloaded without an operator, whatever the spec and its
\* defaults say, and however they change while the command is on its way.
NoUnattendedDownload ==
  stage = "ran" =>
    /\ memory[1].command # "download_vla_model"
    /\ memory[1].command = "override_vla_model" =>
         Is(used[1].arguments, "allow_download", <<"boolean", FALSE>>)

\* Why: a record is about its own arguments; what left was executable by the
\* spec it was judged by, what was withdrawn was not; and the robot fills in
\* the defaults of the spec it then has.
ReplayInv ==
  /\ TypeOK
  /\ memory # <<>> /\ memory[1].explicit # <<>> =>
       memory[1].explicit[1] = DOMAIN memory[1].arguments
  /\ stage # "idle" => memory # <<>>
  /\ stage \in {"sent", "ran", "rejected"} => Executable(memory[1], judged[1])
  /\ stage = "withdrawn" => ~ Executable(memory[1], judged[1])
  /\ stage \in {"sent", "ran", "rejected", "withdrawn"} => judged # <<>>
  /\ stage = "ran" =>
       /\ memory[1].command \in DOMAIN used[1].spec
       /\ used[1].arguments =
            Effective(memory[1].arguments, used[1].spec[memory[1].command].inputs)
=============================================================================
