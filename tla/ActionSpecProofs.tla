-------------------------- MODULE ActionSpecProofs --------------------------
(***************************************************************************)
(* Machine-checked replay of corrections under changing action specs, for  *)
(* every set of specs, every validator and every equality of values.       *)
(***************************************************************************)
EXTENDS ActionSpec, TLAPS

\* Nothing is remembered before a demonstration.
LEMMA InitEstablishes ==
  ASSUME Init
  PROVE  ReplayInv
<1>1. coming \in Seq(Specs)
  BY DEF Init
<1>2. changes \in 0 .. MaxChanges /\ generation \in 0 .. MaxGeneration /\ born \in 0 .. generation
  BY BoundsAssumption DEF Init
<1> QED BY <1>1, <1>2 DEF Init, ReplayInv, TypeOK

\* Each way to record a demonstration is about the arguments it keeps.
LEMMA RecordsAreAboutTheirArguments ==
  ASSUME NEW command, NEW arguments, NEW inputs,
         NEW r \in Records(command, arguments, inputs)
  PROVE  /\ r.explicit # <<>> => r.explicit[1] = DOMAIN r.arguments
         /\ r.effective # <<>> \/ r.explicit = <<>>
BY DEF Records

\* A demonstration records the first correction and touches nothing else.
LEMMA DemonstratePreserves ==
  ASSUME ReplayInv, Demonstrate
  PROVE  ReplayInv'
<1>1. PICK command \in DOMAIN live :
        \E arguments \in Described(live[command].inputs) :
          memory' \in {<<r>> : r \in Records(command, arguments, live[command].inputs)}
  BY DEF Demonstrate
<1>2. PICK arguments \in Described(live[command].inputs) :
        \E r \in Records(command, arguments, live[command].inputs) : memory' = <<r>>
  BY <1>1
<1>3. PICK r \in Records(command, arguments, live[command].inputs) : memory' = <<r>>
  BY <1>2
<1>4. /\ memory'[1] = r /\ memory' # <<>>
      /\ stage = "idle" /\ UNCHANGED <<robot, session, task>>
  BY <1>3 DEF Demonstrate, ReplayInv
<1> QED BY <1>3, <1>4, RecordsAreAboutTheirArguments
        DEF ReplayInv, TypeOK, robot, session, task

\* The robot changes its spec, and runs what it accepts with its defaults.
LEMMA RobotPreserves ==
  ASSUME ReplayInv, Reconfigure \/ Run
  PROVE  ReplayInv'
<1>1. CASE Reconfigure
  BY <1>1, BoundsAssumption DEF ReplayInv, TypeOK, Reconfigure, task
<1>2. CASE Run
  BY <1>2 DEF ReplayInv, TypeOK, Run, robot, session
<1> QED BY <1>1, <1>2

\* A frame is of the connection it arrived on and is gone with it.
LEMMA SessionPreserves ==
  ASSUME ReplayInv, Connect \/ Disconnect \/ Deliver
  PROVE  ReplayInv'
<1>1. CASE Connect
  <2>1. coming' \in Seq(Specs)
    BY <1>1 DEF Connect, ReplayInv, TypeOK
  <2>2. generation' \in 0 .. MaxGeneration /\ born' \in 0 .. generation'
    BY <1>1, BoundsAssumption DEF Connect, ReplayInv, TypeOK, task
  <2>3. /\ up' = TRUE /\ frame' = <<>>
        /\ UNCHANGED <<live, changes, memory, stage, judged, used>>
    BY <1>1 DEF Connect, robot, task
  <2> QED BY <2>1, <2>2, <2>3 DEF ReplayInv, TypeOK
<1>2. CASE Disconnect
  <2>1. coming' \in Seq(Specs)
    BY <1>2 DEF Disconnect
  <2>2. /\ up' = FALSE /\ frame' = <<>>
        /\ UNCHANGED <<live, changes, generation, memory, stage, born, judged, used>>
    BY <1>2 DEF Disconnect, robot, task
  <2> QED BY <2>1, <2>2 DEF ReplayInv, TypeOK
<1>3. CASE Deliver
  BY <1>3 DEF ReplayInv, TypeOK, Deliver, robot, task
<1> QED BY <1>1, <1>2, <1>3

\* A verdict is about the frame it was reached by.
LEMMA CoordinatorPreserves ==
  ASSUME ReplayInv, Prepare \/ Dispatch \/ Again
  PROVE  ReplayInv'
<1>1. CASE Prepare
  BY <1>1 DEF ReplayInv, TypeOK, Prepare, FrameOf, robot, session
<1>2. CASE Dispatch
  BY <1>2 DEF ReplayInv, TypeOK, Dispatch, FrameOf, robot, session
<1>3. CASE Again
  BY <1>3, BoundsAssumption DEF ReplayInv, TypeOK, Again, robot, session
<1> QED BY <1>1, <1>2, <1>3

\* Every step of robot, session and coordinator keeps the invariant.
LEMMA NextPreserves ==
  ASSUME ReplayInv, [Next]_vars
  PROVE  ReplayInv'
<1>1. CASE UNCHANGED vars
  BY <1>1 DEF ReplayInv, TypeOK, vars, robot, session, task
<1> QED BY <1>1, DemonstratePreserves, RobotPreserves, SessionPreserves,
           CoordinatorPreserves DEF Next

\* A silent record is executable only where there are no defaults to add.
LEMMA EffectiveWithoutDefaults ==
  ASSUME NEW arguments, NEW inputs, Defaults(inputs) = Nothing
  PROVE  /\ DOMAIN Effective(arguments, inputs) = DOMAIN arguments
         /\ \A n \in DOMAIN arguments : Effective(arguments, inputs)[n] = arguments[n]
BY DEF Effective, Nothing

\* Arguments that were given are never replaced by a default.
LEMMA EffectiveKeepsArguments ==
  ASSUME NEW arguments, NEW inputs, NEW n \in DOMAIN arguments
  PROVE  /\ n \in DOMAIN Effective(arguments, inputs)
         /\ Effective(arguments, inputs)[n] = arguments[n]
BY DEF Effective

-----------------------------------------------------------------------------
(* The judgement, given what it is made of.                                *)

\* What a demonstration under some spec may leave behind.
RememberedBy(spec, command) ==
  UNION {Records(command, arguments, spec[command].inputs) :
           arguments \in Described(spec[command].inputs)}

Remembered ==
  UNION {UNION {RememberedBy(spec, command) :
                  command \in {c \in DOMAIN spec : Unambiguous(spec[c].inputs)}} :
           spec \in Specs}

\* _validate_action_arguments accepts what the inputs describe.
ValidatorAgrees ==
  \A action \in Remembered, spec \in Specs :
    action.command \in DOMAIN spec =>
      LET inputs == spec[action.command].inputs
      IN  Valid(action.arguments, inputs) <=>
            Unambiguous(inputs) /\ action.arguments \in Described(inputs)

\* _json_values_equal compares objects name by name, and a value is equal to
\* itself.
EqualityAgrees ==
  \A action \in Remembered, spec \in Specs :
    action.command \in DOMAIN spec =>
      LET runs == Effective(action.arguments, spec[action.command].inputs)
      IN  /\ action.effective # <<>> =>
               (Equal(Object(action.effective[1]), Object(runs)) <=>
                  SameByName(action.effective[1], runs))
          /\ \A n \in DOMAIN action.arguments :
               Equal(action.arguments[n], action.arguments[n])

MemoryWasDemonstrated == memory # <<>> => memory[1] \in Remembered

\* A correction is remembered from a demonstration and never rewritten.
LEMMA MemoryPreserved ==
  ASSUME ReplayInv, MemoryWasDemonstrated, [Next]_vars
  PROVE  MemoryWasDemonstrated'
<1>1. CASE Demonstrate
  <2>1. PICK command \in DOMAIN live :
          /\ Unambiguous(live[command].inputs)
          /\ \E arguments \in Described(live[command].inputs) :
               memory' \in {<<r>> : r \in Records(command, arguments, live[command].inputs)}
    BY <1>1 DEF Demonstrate
  <2>2. PICK arguments \in Described(live[command].inputs) :
          \E r \in Records(command, arguments, live[command].inputs) : memory' = <<r>>
    BY <2>1
  <2>3. PICK r \in Records(command, arguments, live[command].inputs) : memory' = <<r>>
    BY <2>2
  <2>4. live \in Specs
    BY DEF ReplayInv, TypeOK
  <2>5. r \in Remembered
    BY <2>1, <2>2, <2>3, <2>4 DEF Remembered, RememberedBy
  <2> QED BY <2>3, <2>5 DEF MemoryWasDemonstrated
<1>2. CASE UNCHANGED memory
  BY <1>2 DEF MemoryWasDemonstrated
<1> QED BY <1>1, <1>2
        DEF Next, Reconfigure, Run, Connect, Disconnect, Deliver, Prepare, Dispatch,
            Again, vars

\* The checks of validate_corrections_against_commands amount to the promise.
LEMMA ExecutableIsRepeatable ==
  ASSUME ValidatorAgrees, EqualityAgrees,
         NEW action \in Remembered, NEW spec \in Specs,
         action.explicit # <<>> => action.explicit[1] = DOMAIN action.arguments
  PROVE  /\ Executable(action, spec) => Repeatable(action, spec)
         /\ Repeatable(action, spec) =>
              Executable(action, spec) \/ action.effective = <<>>
<1> DEFINE inputs == spec[action.command].inputs
           runs   == Effective(action.arguments, inputs)
<1> SUFFICES ASSUME action.command \in DOMAIN spec
             PROVE  /\ Executable(action, spec) => Repeatable(action, spec)
                    /\ Repeatable(action, spec) =>
                         Executable(action, spec) \/ action.effective = <<>>
  BY DEF Executable, Repeatable
<1>1. Valid(action.arguments, inputs) <=>
        Unambiguous(inputs) /\ action.arguments \in Described(inputs)
  BY DEF ValidatorAgrees
<1>2. CASE action.effective # <<>>
  <2>1. Provenance(action, inputs) <=> SameByName(action.effective[1], runs)
    BY <1>2 DEF EqualityAgrees, Provenance
  <2> QED BY <1>1, <1>2, <2>1 DEF Executable, Repeatable, Recorded
<1>3. CASE action.effective = <<>>
  <2>1. ASSUME Provenance(action, inputs) PROVE SameByName(action.arguments, runs)
    <3>1. /\ DOMAIN runs = DOMAIN action.arguments
          /\ \A n \in DOMAIN action.arguments : runs[n] = action.arguments[n]
      BY <1>3, <2>1, EffectiveWithoutDefaults DEF Provenance
    <3>2. \A n \in DOMAIN action.arguments :
            Equal(action.arguments[n], action.arguments[n])
      BY DEF EqualityAgrees
    <3> QED BY <3>1, <3>2 DEF SameByName
  <2> QED BY <1>1, <1>3, <2>1 DEF Executable, Repeatable, Recorded
<1> QED BY <1>2, <1>3

-----------------------------------------------------------------------------
(* The theorems.                                                           *)

\* The frame the coordinator judges by is of the present connection, and what
\* left for the robot had passed validate_corrections_against_commands.
THEOREM InvariantHolds ==
  Spec => []ReplayInv
BY InitEstablishes, NextPreserves, PTL DEF Spec

\* "Live action defaults changed" (_validate_action_provenance): by the spec
\* it was last judged by, a correction runs with the arguments it was recorded
\* to have run with, defaults included.
THEOREM CorrectionsRunAsRecorded ==
  Spec => []RunsAsRecorded
<1>1. ASSUME ReplayInv, stage = "ran", used[1].spec = judged[1]
      PROVE  IF memory[1].effective = <<>>
               THEN /\ DOMAIN used[1].arguments = DOMAIN memory[1].arguments
                    /\ \A n \in DOMAIN memory[1].arguments :
                         used[1].arguments[n] = memory[1].arguments[n]
               ELSE Equal(Object(memory[1].effective[1]), Object(used[1].arguments))
  <2> DEFINE action == memory[1]
             inputs == used[1].spec[action.command].inputs
  <2>1. Provenance(action, inputs)
    BY <1>1 DEF ReplayInv, Executable
  <2>2. used[1].arguments = Effective(action.arguments, inputs)
    BY <1>1 DEF ReplayInv
  <2> QED BY <2>1, <2>2, EffectiveWithoutDefaults DEF Provenance
<1>2. ReplayInv => RunsAsRecorded
  BY <1>1 DEF RunsAsRecorded
<1> QED BY <1>2, InvariantHolds, PTL

\* A model is not downloaded without an operator (_command_requires_
\* confirmation): the confirmation that the robot's defaults would spare is
\* asked for by the arguments themselves, and those the robot keeps.
THEOREM DownloadsAreAttended ==
  Spec => []NoUnattendedDownload
<1>1. ASSUME ReplayInv, stage = "ran"
      PROVE  /\ memory[1].command # "download_vla_model"
             /\ memory[1].command = "override_vla_model" =>
                  Is(used[1].arguments, "allow_download", <<"boolean", FALSE>>)
  <2> DEFINE action == memory[1]
             inputs == used[1].spec[action.command].inputs
  <2>1. PICK schema : ~ NeedsConfirmation(action, schema)
    BY <1>1 DEF ReplayInv, Executable
  <2>2. used[1].arguments = Effective(action.arguments, inputs)
    BY <1>1 DEF ReplayInv
  <2>3. CASE action.command = "override_vla_model"
    <3>1. /\ "allow_download" \in DOMAIN action.arguments
          /\ action.arguments["allow_download"] = <<"boolean", FALSE>>
      BY <2>1, <2>3 DEF NeedsConfirmation, Is
    <3>2. Is(Effective(action.arguments, inputs), "allow_download", <<"boolean", FALSE>>)
      BY <3>1, EffectiveKeepsArguments DEF Is
    <3> QED BY <2>2, <2>3, <3>2
  <2> QED BY <2>1, <2>3 DEF NeedsConfirmation
<1>2. ReplayInv => NoUnattendedDownload
  BY <1>1 DEF NoUnattendedDownload
<1> QED BY <1>2, InvariantHolds, PTL

\* Whatever happens between the demonstration, the two judgements and the run,
\* what was sent is repeatable by the spec it was judged by and what was
\* withdrawn is not: the coordinator's steps add no error to those of the
\* validator and of the comparison of values, whose agreement with what the
\* schemas describe is the hypothesis.
THEOREM JudgementsAreRight ==
  ASSUME ValidatorAgrees, EqualityAgrees
  PROVE  Spec => []JudgedRightly
<1>1. Init => MemoryWasDemonstrated
  BY DEF Init, MemoryWasDemonstrated
<1>2. ASSUME ReplayInv, MemoryWasDemonstrated PROVE JudgedRightly
  <2>1. ASSUME stage \in {"sent", "ran", "rejected", "withdrawn"}
        PROVE  /\ memory[1] \in Remembered /\ judged[1] \in Specs
               /\ memory[1].explicit # <<>> =>
                    memory[1].explicit[1] = DOMAIN memory[1].arguments
    BY <1>2, <2>1 DEF ReplayInv, TypeOK, MemoryWasDemonstrated
  <2>2. ASSUME stage \in {"sent", "ran", "rejected"}
        PROVE  Repeatable(memory[1], judged[1])
    BY <1>2, <2>1, <2>2, ExecutableIsRepeatable DEF ReplayInv
  <2>3. ASSUME stage = "withdrawn"
        PROVE  ~ Repeatable(memory[1], judged[1]) \/ memory[1].effective = <<>>
    BY <1>2, <2>1, <2>3, ExecutableIsRepeatable DEF ReplayInv
  <2> QED BY <2>2, <2>3 DEF JudgedRightly
<1> QED BY <1>1, <1>2, InvariantHolds, MemoryPreserved, PTL DEF Spec
=============================================================================
