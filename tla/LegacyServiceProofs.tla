------------------------ MODULE LegacyServiceProofs ------------------------
(***************************************************************************)
(* Machine-checked safety of the prototype's solutions, for any solutions, *)
(* failures and commands, and any number of seconds.                        *)
(***************************************************************************)
EXTENDS LegacyService, WellFoundedInduction, TLAPS

\* Times that are not empty have a latest one.
LEMMA Latest ==
  ASSUME NEW n \in Nat, NEW T \in SUBSET (1 .. n), T # {}
  PROVE  \E t \in T : \A u \in T : t >= u
<1> DEFINE R == OpToRel(<, Nat)
           D == {n - t : t \in T}
<1>1. IsWellFoundedOn(R, Nat)
  BY NatLessThanWellFounded
<1>2. D \subseteq Nat /\ D # {}
  <2> HIDE DEF R
  <2>1. PICK t \in T : TRUE
    OBVIOUS
  <2>2. \A u \in T : n - u \in Nat
    OBVIOUS
  <2>3. n - t \in D
    OBVIOUS
  <2> QED BY <2>2, <2>3
<1>3. PICK d \in D : \A e \in D : ~ (<<e, d>> \in R)
  <2> HIDE DEF R, D
  <2> QED BY <1>1, <1>2, WFMin
<1>4. \A e \in D : ~ (e < d)
  BY <1>2, <1>3 DEF OpToRel
<1> QED BY <1>4

\* What is read for a failure with a file is the file with no later one.
LEMMA NewestIsLast ==
  ASSUME TypeOK, NEW f \in Failures, NEW w \in Seconds, files[f][w] # Absent
  PROVE  \E t \in Seconds :
           /\ files[f][t] # Absent /\ Newest(f) = files[f][t]
           /\ \A u \in Seconds : u > t => files[f][u] = Absent
<1> DEFINE times == {t \in Seconds : files[f][t] # Absent}
           last  == CHOOSE t \in times : \A u \in times : t >= u
<1>1. times \in SUBSET (1 .. MaxClock) /\ times # {} /\ MaxClock \in Nat
  BY LegacyAssumption DEF Seconds
<1>2. \E t \in times : \A u \in times : t >= u
  <2> HIDE DEF times
  <2> QED BY <1>1, Latest
<1>3. last \in times /\ \A u \in times : last >= u
  <2> HIDE DEF times
  <2> QED BY <1>2
<1>4. Newest(f) = files[f][last]
  BY <1>1 DEF Newest
<1> HIDE DEF last
<1>5. last \in Seconds /\ files[f][last] # Absent
  BY <1>3
<1>6. \A u \in Seconds : u > last => files[f][u] = Absent
  BY <1>3, <1>5 DEF Seconds
<1> QED BY <1>4, <1>5, <1>6

-----------------------------------------------------------------------------
LEMMA InitSatisfiesInvariant == Init => LegacyInv
<1> SUFFICES ASSUME Init PROVE LegacyInv
  OBVIOUS
<1>1. TypeOK
  <2>1. 1 \in Seconds
    BY LegacyAssumption DEF Seconds
  <2>2. /\ fate \in [Solutions -> {"unsent", "queued", "taken", "refused", "deleted"}]
        /\ \A s \in Solutions : fate[s] = "taken" <=> work = s
    BY LegacyAssumption DEF Init
  <2>3. /\ files \in [Failures -> [Seconds -> Solutions \cup {Absent, Empty}]]
        /\ stamps \in [Solutions -> SUBSET Seconds]
    BY DEF Init
  <2> QED BY <2>1, <2>2, <2>3 DEF Init, TypeOK
<1>2. FilesAreRecorded /\ InHand /\ EmptyIsRetried
  BY LegacyAssumption DEF Init, FilesAreRecorded, InHand, EmptyIsRetried
<1>3. DeletedIsStored /\ GivenOne
  BY LegacyAssumption DEF Init, DeletedIsStored, GivenOne
<1> QED BY <1>1, <1>2, <1>3 DEF LegacyInv

\* Neither the clock nor index.json moves a file or a solution.
LEMMA QuietSteps ==
  ASSUME LegacyInv, Tick \/ OpenIndex \/ WriteIndex
  PROVE  LegacyInv'
<1> USE DEF LegacyInv
<1>1. /\ UNCHANGED <<thread, fate, work, stamp, files, vectors, stamps, plan, at, took>>
      /\ clock' \in Seconds /\ clock' >= clock
      /\ \/ step' = step
         \/ step \in {"index", "rewrite"} /\ step' \in {"rewrite", "delete"}
  BY LegacyAssumption DEF Tick, OpenIndex, WriteIndex, TypeOK, Seconds, serving, memory, robot
<1>2. TypeOK'
  BY <1>1 DEF TypeOK, Tick, OpenIndex, WriteIndex, memory
<1>3. FilesAreRecorded'
  BY <1>1, LegacyAssumption DEF FilesAreRecorded, TypeOK, Seconds
<1>4. InHand'
  BY <1>1, LegacyAssumption DEF InHand, TypeOK, Seconds
<1>5. EmptyIsRetried'
  BY <1>1 DEF EmptyIsRetried, Retried
<1>6. DeletedIsStored' /\ GivenOne'
  BY <1>1 DEF DeletedIsStored, GivenOne
<1> QED BY <1>2, <1>3, <1>4, <1>5, <1>6

\* A solution is taken up, or a broken message is dropped.
LEMMA StartSteps ==
  ASSUME LegacyInv, NEW s \in Solutions, DropBroken(s) \/ Receive(s) \/ Post(s)
  PROVE  LegacyInv'
<1> USE DEF LegacyInv
<1>1. /\ UNCHANGED <<clock, thread, memory, robot, stamp>> /\ work = Nobody /\ step = "idle"
      /\ \/ UNCHANGED <<work, step>> /\ s \in Broken /\ fate' \in {fate, [fate EXCEPT ![s] = "deleted"]}
         \/ work' = s /\ step' = "open" /\ s \notin Broken /\ fate' = [fate EXCEPT ![s] = "taken"]
  BY LegacyAssumption DEF DropBroken, Receive, Post, Begin, TypeOK
<1>2. UNCHANGED <<clock, thread, files, vectors, torn, stamps, plan, at, took>>
  BY <1>1 DEF memory, robot
<1>3. Nobody \notin Solutions
  BY LegacyAssumption
<1>4. TypeOK'
  BY <1>1, <1>2, <1>3 DEF TypeOK
<1>5. FilesAreRecorded'
  BY <1>1, <1>2, <1>3 DEF FilesAreRecorded
<1>6. InHand'
  BY <1>1 DEF InHand
<1>7. ASSUME NEW r \in Solutions, Retried(r) PROVE Retried(r)'
  BY <1>1, <1>2, <1>3, <1>7 DEF Retried, FilesAreRecorded, TypeOK
<1>8. EmptyIsRetried'
  BY <1>2, <1>7 DEF EmptyIsRetried
<1>9. ASSUME NEW d \in Solutions \ Broken, fate'[d] = "deleted" PROVE fate[d] = "deleted"
  BY <1>1, <1>9 DEF TypeOK
<1>10. DeletedIsStored'
  BY <1>2, <1>9 DEF DeletedIsStored
<1>11. GivenOne'
  BY <1>2 DEF GivenOne
<1> QED BY <1>4, <1>5, <1>6, <1>8, <1>10, <1>11

\* Processing ends: completed, failed, or with the process.
LEMMA EndSteps ==
  ASSUME LegacyInv, StepFails \/ Delete \/ DeleteFails \/ Crash
  PROVE  LegacyInv'
<1> USE DEF LegacyInv
<1>1. /\ UNCHANGED <<clock, memory, robot, stamp>> /\ thread' \in {thread, "free"}
      /\ \/ UNCHANGED serving
         \/ /\ work \in Solutions /\ work' = Nobody /\ step' = "idle"
            /\ \E outcome \in {"queued", "refused", "deleted"} :
                 /\ fate' = [fate EXCEPT ![work] = outcome]
                 /\ outcome = "deleted" => step = "delete"
  BY LegacyAssumption
  DEF StepFails, Delete, DeleteFails, Crash, GiveBack, End, TypeOK, serving
<1>2. UNCHANGED <<clock, files, vectors, torn, stamps, plan, at, took>>
  BY <1>1 DEF memory, robot
<1>3. Nobody \notin Solutions
  BY LegacyAssumption
<1>4. CASE UNCHANGED serving
  <2>1. UNCHANGED <<fate, work, step, stamp>>
    BY <1>4 DEF serving
  <2>2. TypeOK'
    BY <1>1, <1>2, <2>1 DEF TypeOK
  <2>3. FilesAreRecorded' /\ InHand' /\ EmptyIsRetried'
    BY <1>2, <2>1 DEF FilesAreRecorded, InHand, EmptyIsRetried, Retried
  <2>4. DeletedIsStored' /\ GivenOne'
    BY <1>2, <2>1 DEF DeletedIsStored, GivenOne
  <2> QED BY <2>2, <2>3, <2>4
<1>5. CASE ~ UNCHANGED serving
  <2>1. PICK outcome \in {"queued", "refused", "deleted"} :
          /\ fate' = [fate EXCEPT ![work] = outcome]
          /\ outcome = "deleted" => step = "delete"
    BY <1>1, <1>5
  <2>2. work \in Solutions /\ work' = Nobody /\ step' = "idle" /\ stamp' = stamp
    BY <1>1, <1>5
  <2>3. TypeOK'
    BY <1>1, <1>2, <1>3, <2>1, <2>2 DEF TypeOK
  <2>4. FilesAreRecorded'
    BY <1>2, <1>3, <2>2, LegacyAssumption DEF FilesAreRecorded
  <2>5. InHand'
    BY <2>2 DEF InHand
  <2>6. ASSUME NEW r \in Solutions, Retried(r) PROVE Retried(r)'
    BY <1>2, <2>1, <2>2, <2>6 DEF Retried, TypeOK
  <2>7. EmptyIsRetried'
    BY <1>2, <2>6 DEF EmptyIsRetried
  <2>8. ASSUME NEW d \in Solutions \ Broken, fate'[d] = "deleted"
        PROVE  \/ fate[d] = "deleted"
               \/ d = work /\ stamp \in stamps[d] /\ files[FailureOf[d]][stamp] = d
    BY <2>1, <2>2, <2>8 DEF TypeOK, InHand
  <2>9. DeletedIsStored'
    BY <1>2, <2>8 DEF DeletedIsStored
  <2>10. GivenOne'
    BY <1>2 DEF GivenOne
  <2> QED BY <2>3, <2>4, <2>5, <2>7, <2>9, <2>10
<1> QED BY <1>4, <1>5

\* A file is truncated: it becomes the newest, and the solution in hand its
\* owner.
LEMMA OpenFileStep ==
  ASSUME LegacyInv, OpenFile
  PROVE  LegacyInv'
<1> USE DEF LegacyInv
<1> DEFINE g == FailureOf[work]
<1>1. work \in Solutions /\ g \in Failures /\ clock \in Seconds
      /\ fate[work] = "taken"
  BY DEF OpenFile, TypeOK, Failures
<1>2. /\ UNCHANGED <<clock, thread, fate, work, vectors, torn, plan, at, took>>
      /\ step = "open" /\ step' = "write" /\ stamp' = clock
  BY DEF OpenFile, robot
<1>3. /\ stamps'[work] = stamps[work] \cup {clock}
      /\ \A s \in Solutions : s # work => stamps'[s] = stamps[s]
      /\ stamps' \in [Solutions -> SUBSET Seconds]
  BY <1>1 DEF OpenFile, TypeOK
<1>4. /\ files'[g][clock] = Empty
      /\ \A f \in Failures, t \in Seconds :
           f # g \/ t # clock => files'[f][t] = files[f][t]
      /\ files' \in [Failures -> [Seconds -> Solutions \cup {Absent, Empty}]]
  BY <1>1 DEF OpenFile, TypeOK
<1>5. Absent # Empty /\ Empty \notin Solutions /\ Absent \notin Solutions
  BY LegacyAssumption
<1> HIDE DEF g
<1>6. TypeOK'
  BY <1>1, <1>2, <1>3, <1>4 DEF TypeOK
<1>7. FilesAreRecorded'
  <2>1. ASSUME NEW f \in Failures, NEW t \in Seconds
        PROVE  /\ t > clock => files'[f][t] = Absent
               /\ files'[f][t] \in Solutions =>
                    FailureOf[files'[f][t]] = f /\ t \in stamps'[files'[f][t]]
    <3>1. CASE f = g /\ t = clock
      BY <1>4, <1>5, <3>1 DEF Seconds
    <3>2. CASE f # g \/ t # clock
      BY <1>1, <1>3, <1>4, <3>2 DEF FilesAreRecorded
    <3> QED BY <3>1, <3>2
  <2>2. ASSUME NEW s \in Broken PROVE stamps'[s] = {} /\ work' # s
    BY <1>1, <1>2, <1>3, LegacyAssumption DEF FilesAreRecorded
  <2> QED BY <1>2, <2>1, <2>2 DEF FilesAreRecorded
<1>8. InHand'
  <2>1. ASSUME NEW t \in Seconds, t > clock PROVE files'[g][t] = Absent
    BY <1>1, <1>4, <2>1 DEF FilesAreRecorded, Seconds
  <2> QED BY <1>1, <1>2, <1>3, <1>4, <2>1 DEF InHand, g, Seconds
<1>9. EmptyIsRetried'
  <2>1. \A s \in Solutions : s = work => Retried(s)'
    BY <1>2, <1>3 DEF Retried
  <2>2. ASSUME NEW r \in Solutions, Retried(r) PROVE Retried(r)'
    BY <1>1, <1>2, <1>3, <2>1, <2>2 DEF Retried
  <2>3. ASSUME NEW f \in Failures, NEW t \in Seconds, files'[f][t] = Empty,
               \A u \in Seconds : u > t => files'[f][u] = Absent
        PROVE  \E s \in Solutions : FailureOf[s] = f /\ Retried(s)'
    <3>1. CASE f = g
      BY <1>1, <2>1, <3>1 DEF g
    <3>2. CASE f # g
      <4>1. files[f][t] = Empty /\ \A u \in Seconds : u > t => files[f][u] = Absent
        BY <1>4, <2>3, <3>2
      <4> QED BY <2>2, <4>1 DEF EmptyIsRetried
    <3> QED BY <3>1, <3>2
  <2>4. ASSUME NEW v \in vectors' PROVE \E t \in Seconds : files'[v.failure][t] # Absent
    <3>1. v \in vectors /\ v.failure \in Failures
      BY <1>2 DEF TypeOK
    <3>2. PICK t \in Seconds : files[v.failure][t] # Absent
      BY <3>1 DEF EmptyIsRetried
    <3> QED BY <1>4, <1>5, <3>1, <3>2
  <2> QED BY <2>3, <2>4 DEF EmptyIsRetried
<1>10. DeletedIsStored'
  <2> SUFFICES ASSUME NEW s \in Solutions \ Broken, fate'[s] = "deleted"
               PROVE  \E t \in stamps'[s] :
                        \/ files'[FailureOf[s]][t] = s
                        \/ \E o \in Solutions \ {s} :
                             FailureOf[o] = FailureOf[s] /\ t \in stamps'[o]
    BY DEF DeletedIsStored
  <2>1. s # work /\ fate[s] = "deleted" /\ stamps'[s] = stamps[s] /\ FailureOf[s] \in Failures
    BY <1>1, <1>2, <1>3 DEF Failures
  <2>2. PICK t \in stamps[s] :
          \/ files[FailureOf[s]][t] = s
          \/ \E o \in Solutions \ {s} : FailureOf[o] = FailureOf[s] /\ t \in stamps[o]
    BY <2>1 DEF DeletedIsStored
  <2>3. t \in Seconds
    BY DEF TypeOK
  <2>4. CASE FailureOf[s] = g /\ t = clock
    BY <1>1, <1>3, <2>1, <2>4 DEF g
  <2>5. CASE ~ (FailureOf[s] = g /\ t = clock)
    <3>1. files'[FailureOf[s]][t] = files[FailureOf[s]][t]
      BY <1>4, <2>1, <2>3, <2>5
    <3>2. \A o \in Solutions : stamps[o] \subseteq stamps'[o]
      BY <1>3
    <3> QED BY <2>1, <2>2, <3>1, <3>2
  <2> QED BY <2>4, <2>5
<1>11. GivenOne'
  BY <1>2, <1>3 DEF GivenOne
<1> QED BY <1>6, <1>7, <1>8, <1>9, <1>10, <1>11

\* The truncated file gets its solution.
LEMMA WriteFileStep ==
  ASSUME LegacyInv, WriteFile
  PROVE  LegacyInv'
<1> USE DEF LegacyInv
<1> DEFINE g == FailureOf[work]
<1>1. work \in Solutions /\ g \in Failures /\ stamp \in Seconds
      /\ fate[work] = "taken"
  BY DEF WriteFile, TypeOK, Failures
<1>2. /\ UNCHANGED <<clock, thread, fate, work, stamp, vectors, torn, stamps, plan, at, took>>
      /\ step = "write" /\ step' = "embed"
  BY DEF WriteFile, robot
<1>3. /\ files'[g][stamp] = work
      /\ \A f \in Failures, t \in Seconds :
           f # g \/ t # stamp => files'[f][t] = files[f][t]
      /\ files' \in [Failures -> [Seconds -> Solutions \cup {Absent, Empty}]]
  BY <1>1 DEF WriteFile, TypeOK
<1>4. /\ stamp \in stamps[work] /\ stamp <= clock
      /\ \A t \in Seconds : t > stamp => files[g][t] = Absent
  BY <1>2 DEF InHand, g
<1>5. Empty \notin Solutions /\ Absent \notin Solutions
  BY LegacyAssumption
<1>6. clock \in Seconds /\ Seconds \subseteq Nat
  BY DEF TypeOK, Seconds
<1>7. g = FailureOf[work] /\ g = FailureOf[work']
  BY <1>2 DEF g
<1> HIDE DEF g
<1>8. TypeOK'
  BY <1>1, <1>2, <1>3 DEF TypeOK
<1>9. FilesAreRecorded'
  <2>1. ASSUME NEW f \in Failures, NEW t \in Seconds
        PROVE  /\ t > clock => files'[f][t] = Absent
               /\ files'[f][t] \in Solutions =>
                    FailureOf[files'[f][t]] = f /\ t \in stamps[files'[f][t]]
    <3>1. CASE f = g /\ t = stamp
      <4>1. files'[f][t] = work /\ FailureOf[work] = f /\ t \in stamps[work]
        BY <1>3, <1>4, <1>7, <3>1
      <4>2. ~ (t > clock)
        BY <1>4, <1>6, <3>1
      <4> QED BY <4>1, <4>2
    <3>2. CASE f # g \/ t # stamp
      BY <1>3, <3>2 DEF FilesAreRecorded
    <3> QED BY <3>1, <3>2
  <2> QED BY <1>2, <2>1 DEF FilesAreRecorded
<1>10. InHand'
  <2>1. ASSUME NEW t \in Seconds, t > stamp PROVE files'[g][t] = Absent
    BY <1>1, <1>3, <1>4, <1>6, <2>1
  <2> QED BY <1>2, <1>3, <1>4, <1>7, <2>1 DEF InHand
<1>11. EmptyIsRetried'
  <2>1. ASSUME NEW f \in Failures, NEW t \in Seconds, files'[f][t] = Empty,
               \A u \in Seconds : u > t => files'[f][u] = Absent
        PROVE  \E s \in Solutions : FailureOf[s] = f /\ Retried(s)'
    <3>1. f # g
      <4> SUFFICES ASSUME f = g PROVE FALSE
        OBVIOUS
      <4>1. t # stamp
        BY <1>1, <1>3, <1>5, <2>1
      <4>2. ~ (t < stamp)
        BY <1>1, <1>3, <1>5, <2>1
      <4>3. files[g][t] = Absent /\ files'[g][t] = Absent
        BY <1>1, <1>3, <1>4, <1>6, <4>1, <4>2
      <4> QED BY <2>1, <4>3, LegacyAssumption
    <3>2. files[f][t] = Empty /\ \A u \in Seconds : u > t => files[f][u] = Absent
      BY <1>3, <2>1, <3>1
    <3>3. PICK s \in Solutions : FailureOf[s] = f /\ Retried(s)
      BY <3>2 DEF EmptyIsRetried
    <3>4. Retried(s)'
      BY <1>2, <1>7, <3>1, <3>3 DEF Retried
    <3> QED BY <3>3, <3>4
  <2>2. ASSUME NEW v \in vectors' PROVE \E t \in Seconds : files'[v.failure][t] # Absent
    <3>1. v \in vectors /\ v.failure \in Failures
      BY <1>2 DEF TypeOK
    <3>2. PICK t \in Seconds : files[v.failure][t] # Absent
      BY <3>1 DEF EmptyIsRetried
    <3> QED BY <1>1, <1>3, <1>5, <3>1, <3>2
  <2> QED BY <2>1, <2>2 DEF EmptyIsRetried
<1>12. DeletedIsStored'
  <2> SUFFICES ASSUME NEW s \in Solutions \ Broken, fate'[s] = "deleted"
               PROVE  \E t \in stamps[s] :
                        \/ files'[FailureOf[s]][t] = s
                        \/ \E o \in Solutions \ {s} :
                             FailureOf[o] = FailureOf[s] /\ t \in stamps[o]
    BY <1>2 DEF DeletedIsStored
  <2>1. s # work /\ fate[s] = "deleted" /\ FailureOf[s] \in Failures
    BY <1>1, <1>2 DEF Failures
  <2>2. PICK t \in stamps[s] :
          \/ files[FailureOf[s]][t] = s
          \/ \E o \in Solutions \ {s} : FailureOf[o] = FailureOf[s] /\ t \in stamps[o]
    BY <2>1 DEF DeletedIsStored
  <2>3. t \in Seconds
    BY DEF TypeOK
  <2>4. CASE FailureOf[s] = g /\ t = stamp
    BY <1>1, <1>4, <1>7, <2>1, <2>4
  <2>5. CASE ~ (FailureOf[s] = g /\ t = stamp)
    <3>1. files'[FailureOf[s]][t] = files[FailureOf[s]][t]
      BY <1>3, <2>1, <2>3, <2>5
    <3> QED BY <2>2, <3>1
  <2> QED BY <2>4, <2>5
<1>13. GivenOne'
  BY <1>2 DEF GivenOne
<1> QED BY <1>8, <1>9, <1>10, <1>11, <1>12, <1>13

\* What can be found has a file.
LEMMA UpsertStep ==
  ASSUME LegacyInv, Upsert
  PROVE  LegacyInv'
<1> USE DEF LegacyInv
<1> DEFINE point == [second |-> stamp, failure |-> FailureOf[work]]
<1>1. work \in Solutions /\ FailureOf[work] \in Failures /\ stamp \in Seconds
  BY DEF Upsert, TypeOK, Failures
<1>2. /\ UNCHANGED <<clock, thread, fate, work, stamp, files, torn, stamps, plan, at, took>>
      /\ step = "embed" /\ step' = "index"
  BY DEF Upsert, robot
<1>3. vectors' \subseteq vectors \cup {point}
  BY DEF Upsert
<1>4. files[FailureOf[work]][stamp] # Absent
  BY <1>1, <1>2, LegacyAssumption DEF InHand
<1>5. point \in [second : Seconds, failure : Failures]
      /\ point.failure = FailureOf[work]
  BY <1>1 DEF TypeOK
<1> HIDE DEF point
<1>6. TypeOK'
  BY <1>2, <1>3, <1>5 DEF TypeOK
<1>7. FilesAreRecorded' /\ InHand'
  BY <1>2 DEF FilesAreRecorded, InHand
<1>8. EmptyIsRetried'
  <2>1. ASSUME NEW r \in Solutions, Retried(r) PROVE Retried(r)'
    BY <1>2, <2>1 DEF Retried
  <2>2. ASSUME NEW v \in vectors' PROVE \E t \in Seconds : files[v.failure][t] # Absent
    BY <1>1, <1>3, <1>4, <1>5 DEF EmptyIsRetried
  <2> QED BY <1>2, <2>1, <2>2 DEF EmptyIsRetried
<1>9. DeletedIsStored' /\ GivenOne'
  BY <1>2 DEF DeletedIsStored, GivenOne
<1> QED BY <1>6, <1>7, <1>8, <1>9

\* What an execution is given was read from one file, and is known.
LEMMA StartExecutionStep ==
  ASSUME LegacyInv, StartExecution
  PROVE  LegacyInv'
<1> USE DEF LegacyInv
<1>1. UNCHANGED <<clock, thread, fate, work, step, stamp, files, vectors, torn, stamps>>
      /\ at' = 1 /\ took' = {}
  BY DEF StartExecution, serving, memory
<1>2. PICK v \in vectors : plan' = Extract(v.failure) /\ Valid(plan')
  BY DEF StartExecution, Proposals
<1>3. v.failure \in Failures
  BY DEF TypeOK
<1>4. PICK w \in Seconds : files[v.failure][w] # Absent
  BY DEF EmptyIsRetried
<1>5. PICK t \in Seconds : Newest(v.failure) = files[v.failure][t]
  BY <1>3, <1>4, NewestIsLast
<1>6. Newest(v.failure) \in Solutions
  <2>1. ~ Valid(<<NoCommand>>)
    BY LegacyAssumption DEF Valid
  <2> QED BY <1>2, <2>1 DEF Extract
<1>7. plan' \in {ReadBack(s) : s \in Solutions}
  BY <1>2, <1>6 DEF Extract
<1>8. TypeOK'
  BY <1>1, <1>7 DEF TypeOK
<1>9. GivenOne'
  <2> DEFINE s == Newest(v.failure)
  <2>1. s \in Solutions /\ t \in stamps[s] /\ plan' = ReadBack(s)
    BY <1>2, <1>3, <1>5, <1>6 DEF FilesAreRecorded, Extract
  <2> HIDE DEF s
  <2> QED BY <1>1, <1>2, <2>1 DEF GivenOne, Valid
<1>10. FilesAreRecorded' /\ InHand' /\ EmptyIsRetried' /\ DeletedIsStored'
  BY <1>1 DEF FilesAreRecorded, InHand, EmptyIsRetried, Retried, DeletedIsStored
<1> QED BY <1>8, <1>9, <1>10

\* One command is carried out or left out, or the execution is over.
LEMMA ExecutionSteps ==
  ASSUME LegacyInv, ExecuteCommand \/ EndExecution
  PROVE  LegacyInv'
<1> USE DEF LegacyInv
<1>1. UNCHANGED <<clock, thread, fate, work, step, stamp, files, vectors, torn, stamps>>
  BY DEF ExecuteCommand, EndExecution, serving, memory
<1>2. \/ plan' = <<>> /\ at' = 1 /\ took' = {}
      \/ /\ plan' = plan /\ plan # <<>> /\ at' = at + 1
         /\ took' = took \/ (took' = took \cup {at} /\ plan[at] \notin Raising)
  BY DEF ExecuteCommand, EndExecution
<1>3. at' \in Nat /\ took' \subseteq Nat
  <2>1. at \in Nat /\ took \subseteq Nat
    BY DEF TypeOK
  <2>2. 1 \in Nat /\ at + 1 \in Nat
    BY <2>1
  <2>3. took \cup {at} \subseteq Nat
    BY <2>1
  <2>4. at' \in Nat
    BY <1>2, <2>1, <2>2, Zenon
  <2>5. took' \subseteq Nat
    <3>1. CASE took' = {} \/ took' = took
      BY <2>1, <3>1
    <3>2. CASE took' = took \cup {at}
      BY <2>3, <3>2
    <3> QED BY <1>2, <3>1, <3>2, Zenon
  <2> QED BY <2>4, <2>5
<1>4. plan' \in {ReadBack(s) : s \in Solutions} \cup {<<>>}
  BY <1>2 DEF TypeOK
<1>5. TypeOK'
  BY <1>1, <1>3, <1>4 DEF TypeOK
<1>6. GivenOne'
  <2>1. \A i \in took : i \in Nat /\ i < at
    BY DEF GivenOne, TypeOK
  <2>2. \A i \in took' : i < at' /\ plan'[i] \notin Raising
    BY <1>2, <2>1 DEF GivenOne, TypeOK
  <2>3. plan' = <<>> => took' = {}
    BY <1>2
  <2>4. plan' # <<>> => plan' = plan
    BY <1>2
  <2> QED BY <1>1, <2>2, <2>3, <2>4 DEF GivenOne, Valid
<1>7. FilesAreRecorded' /\ InHand' /\ EmptyIsRetried' /\ DeletedIsStored'
  BY <1>1 DEF FilesAreRecorded, InHand, EmptyIsRetried, Retried, DeletedIsStored
<1> QED BY <1>5, <1>6, <1>7

\* A poll loop gets the thread or leaves it.
LEMMA ThreadSteps ==
  ASSUME LegacyInv, Sleep \/ \E loop \in {"failures", "solutions"} : Wake(loop)
  PROVE  LegacyInv'
<1> USE DEF LegacyInv
<1>1. /\ UNCHANGED <<clock, fate, work, step, stamp, files, vectors, torn, stamps>>
      /\ UNCHANGED <<plan, at, took>>
      /\ thread' \in {"free", "failures", "solutions"}
  BY DEF Sleep, Wake, serving, memory, robot
<1>2. TypeOK' /\ GivenOne'
  BY <1>1 DEF TypeOK, GivenOne
<1>3. FilesAreRecorded' /\ InHand' /\ EmptyIsRetried' /\ DeletedIsStored'
  BY <1>1 DEF FilesAreRecorded, InHand, EmptyIsRetried, Retried, DeletedIsStored
<1> QED BY <1>2, <1>3

-----------------------------------------------------------------------------
LEMMA NextKeepsInvariant == LegacyInv /\ [Next]_vars => LegacyInv'
<1> SUFFICES ASSUME LegacyInv, [Next]_vars PROVE LegacyInv'
  OBVIOUS
<1>1. CASE Tick \/ OpenIndex \/ WriteIndex
  BY <1>1, QuietSteps
<1>2. CASE \E s \in Solutions : DropBroken(s) \/ Receive(s) \/ Post(s)
  BY <1>2, StartSteps
<1>3. CASE StepFails \/ Delete \/ DeleteFails \/ Crash
  BY <1>3, EndSteps
<1>4. CASE OpenFile
  BY <1>4, OpenFileStep
<1>5. CASE WriteFile
  BY <1>5, WriteFileStep
<1>6. CASE Upsert
  BY <1>6, UpsertStep
<1>7. CASE StartExecution
  BY <1>7, StartExecutionStep
<1>8. CASE ExecuteCommand \/ EndExecution
  BY <1>8, ExecutionSteps
<1>9. CASE Sleep \/ \E loop \in {"failures", "solutions"} : Wake(loop)
  BY <1>9, ThreadSteps
<1>10. CASE UNCHANGED vars
  BY <1>10 DEF vars, serving, memory, robot, LegacyInv, TypeOK, FilesAreRecorded, InHand,
              EmptyIsRetried, Retried, DeletedIsStored, GivenOne
<1> QED BY <1>1, <1>2, <1>3, <1>4, <1>5, <1>6, <1>7, <1>8, <1>9, <1>10 DEF Next, Process

\* Where a failure that search finds has an empty newest file, the solution
\* that belongs there is still at its sender.
LEMMA InvariantProposes == LegacyInv => MatchedIsProposable
<1> SUFFICES ASSUME LegacyInv, work = Nobody, NEW v \in vectors,
                    Newest(v.failure) \notin Solutions
             PROVE  \E s \in Solutions :
                      /\ FailureOf[s] = v.failure /\ stamps[s] # {}
                      /\ fate[s] \in {"queued", "refused"}
  BY DEF MatchedIsProposable
<1>1. TypeOK /\ EmptyIsRetried /\ v.failure \in Failures
  BY DEF LegacyInv, TypeOK
<1>2. PICK w \in Seconds : files[v.failure][w] # Absent
  BY <1>1 DEF EmptyIsRetried
<1>3. PICK t \in Seconds :
        /\ files[v.failure][t] # Absent /\ Newest(v.failure) = files[v.failure][t]
        /\ \A u \in Seconds : u > t => files[v.failure][u] = Absent
  BY <1>1, <1>2, NewestIsLast
<1>4. files[v.failure][t] = Empty
  BY <1>1, <1>3 DEF TypeOK
<1>5. PICK s \in Solutions : FailureOf[s] = v.failure /\ Retried(s)
  BY <1>1, <1>3, <1>4 DEF EmptyIsRetried
<1>6. work # s
  BY LegacyAssumption
<1> QED BY <1>5, <1>6 DEF Retried

-----------------------------------------------------------------------------
\* Why solutions of the queue and of index_solution are stored and found.
THEOREM InvariantHolds == Spec => []LegacyInv
BY InitSatisfiesInvariant, NextKeepsInvariant, PTL DEF Spec, Safety

\* Every variable has its type, and a solution is in hand exactly while
\* process_sqs_solution or index_solution works on it.
THEOREM TypesHold == Spec => []TypeOK
<1>1. LegacyInv => TypeOK
  BY DEF LegacyInv
<1> QED BY <1>1, InvariantHolds, PTL

\* A solution whose message delete_message has removed is in a file.
THEOREM SolutionsAreStored == Spec => []DeletedIsStored
<1>1. LegacyInv => DeletedIsStored
  BY DEF LegacyInv
<1> QED BY <1>1, InvariantHolds, PTL

\* What search_similar_failures finds, extract_solution has commands of, or
\* the sender still has the solution.
THEOREM FoundIsProposable == Spec => []MatchedIsProposable
BY InvariantProposes, InvariantHolds, PTL

\* What execute_solution carries out are commands of one recorded solution, all
\* of whose commands are known.
THEOREM OneSolution == Spec => []RobotGetsOneSolution
<1>1. LegacyInv => RobotGetsOneSolution
  <2> SUFFICES ASSUME LegacyInv, took # {} PROVE RobotGetsOneSolution
    BY DEF RobotGetsOneSolution
  <2> QED BY DEF LegacyInv, GivenOne, Valid, RobotGetsOneSolution
<1> QED BY <1>1, InvariantHolds, PTL
=============================================================================
