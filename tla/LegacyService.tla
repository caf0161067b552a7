---------------------------- MODULE LegacyService ----------------------------
(***************************************************************************)
(* The prototype service that resolver.py replaced: main.py fed by         *)
(* sqs_handler.py, and solution_executor.py with robot_interface.py, which *)
(* an operator runs on what the service proposes.                          *)
(*                                                                         *)
(* An operator's solution arrives as an SQS message or an HTTP request and *)
(* is put, one after the other and without a transaction, into a file of   *)
(* its failure, into the vector store and into index.json; then the        *)
(* message is deleted.  A message that is not deleted comes back.  A file  *)
(* is truncated before it is written, and is named after the second.       *)
(*                                                                         *)
(* The two poll loops and the server share one thread.  The callbacks      *)
(* never wait, so only a crash gets between the steps of one, and a loop   *)
(* keeps the thread until it receives nothing.  The executor runs in a     *)
(* process of the operator's, beside all that.                             *)
(***************************************************************************)
EXTENDS Integers, Sequences, FiniteSets, SequencesExt

CONSTANTS
  Solutions,    \* solutions the operators send
  Posted,       \* those sent to /index-solution, the others go to the queue
  Broken,       \* messages that are not JSON
  Unusable,     \* messages that lack what opening a file takes
  Untextual,    \* messages with a command that is not a string
  FailureOf,    \* failure_id of a solution
  CommandsOf,   \* its commands, each the sequence of its lines
  Known,        \* commands whose name is in available_commands
  Raising,      \* those whose argument is not what the robot interface takes
  NoCommand,    \* "No commands recorded", "No solution found yet"
  Absent,       \* no such file, no such entry
  Empty,        \* a file that was truncated and not written
  Nobody,       \* no solution
  MaxClock      \* bound on the seconds

ASSUME LegacyAssumption ==
  /\ Posted \subseteq Solutions /\ Broken \subseteq Solutions \ Posted
  /\ Unusable \subseteq Solutions \ (Posted \cup Broken)
  /\ Untextual \subseteq Solutions \ (Posted \cup Broken \cup Unusable)
  /\ {Absent, Empty, Nobody} \cap Solutions = {} /\ Absent # Empty
  /\ \A s \in Solutions : \A i \in DOMAIN CommandsOf[s] : CommandsOf[s][i] # <<>>
  /\ NoCommand \notin Known /\ Raising \subseteq Known
  /\ MaxClock \in Nat \ {0}

VARIABLES
  clock,      \* the second
  thread,     \* poll loop that has the thread, "free" while both sleep
  fate,       \* what became of each solution
  work,       \* solution being processed
  step,       \* where its processing is
  stamp,      \* second its solution_id was made in
  files,      \* content of solution_<second>.md of each failure
  vectors,    \* points of the vector store
  torn,       \* index.json is truncated, and cannot be read
  stamps,     \* ghost: seconds each solution has had a file opened in
  plan,       \* commands the executor was given, if they are valid
  at,         \* the one it executes next
  took        \* those the robot interface has carried out

memory   == <<files, vectors, torn, stamps>>
serving  == <<fate, work, step, stamp>>
robot    == <<plan, at, took>>
vars     == <<clock, thread, serving, memory, robot>>

Failures == {FailureOf[s] : s \in Solutions}
Seconds  == 1 .. MaxClock

\* A message may be received any time later, so all are in the queue at once.
Init ==
  /\ clock = 1
  /\ fate = [s \in Solutions |-> IF s \in Posted THEN "unsent" ELSE "queued"]
  /\ work = Nobody /\ step = "idle" /\ stamp = 1
  /\ files = [f \in Failures |-> [t \in Seconds |-> Absent]]
  /\ vectors = {} /\ torn = FALSE
  /\ stamps = [s \in Solutions |-> {}]
  /\ thread = "free"
  /\ plan = <<>> /\ at = 1 /\ took = {}

Tick ==
  /\ clock < MaxClock
  /\ clock' = clock + 1
  /\ UNCHANGED <<thread, serving, memory, robot>>

-----------------------------------------------------------------------------
(* The poll loops.  Each takes one message at a time, and its receive      *)
(* blocks the thread.  A message of the failures queue changes nothing.    *)

\* A loop's sleep is over, and the thread is free.
Wake(loop) ==
  /\ work = Nobody /\ thread = "free"
  /\ thread' = loop
  /\ UNCHANGED <<clock, serving, memory, robot>>

\* The queue shows no message, or receiving fails: only then the loop sleeps.
Sleep ==
  /\ work = Nobody /\ thread # "free"
  /\ thread' = "free"
  /\ UNCHANGED <<clock, serving, memory, robot>>

\* json.loads of the body fails: the message is deleted, or that fails too.
DropBroken(s) ==
  /\ work = Nobody /\ thread = "solutions" /\ fate[s] = "queued" /\ s \in Broken
  /\ fate' \in {fate, [fate EXCEPT ![s] = "deleted"]}
  /\ UNCHANGED <<clock, thread, work, step, stamp, memory, robot>>

\* Mutant: a message stays visible while it is processed.
BeginVisibly(s) ==
  /\ work' = s /\ step' = "open"
  /\ UNCHANGED <<fate, clock, thread, stamp, memory, robot>>

\* A message is hidden while it is processed; a request waits for its answer.
Begin(s) ==
  /\ work' = s /\ step' = "open"
  /\ fate' = [fate EXCEPT ![s] = "taken"]
  /\ UNCHANGED <<clock, thread, stamp, memory, robot>>

Receive(s) ==
  /\ work = Nobody /\ thread = "solutions"
  /\ fate[s] = "queued" /\ s \notin Broken
  /\ Begin(s)

Post(s) ==
  /\ work = Nobody /\ thread = "free"
  /\ fate[s] = "unsent" /\ s \in Posted
  /\ Begin(s)

End(outcome) ==
  /\ fate' = [fate EXCEPT ![work] = outcome]
  /\ work' = Nobody /\ step' = "idle"
  /\ UNCHANGED stamp

\* Mutant: a message that failed is tried again at once.
RetryAtOnce == step' = "open" /\ UNCHANGED <<fate, work, stamp>>

\* The callback returns False: the message comes back when its visibility
\* times out.  A request is answered with an error.
GiveBack == End(IF work \in Posted THEN "refused" ELSE "queued")

-----------------------------------------------------------------------------
(* process_sqs_solution, index_solution.                                   *)

\* What of the message is missing raises before a file is opened; so may any
\* of the writes, and the embedding.
StepFails ==
  /\ step \in {"open", "write", "embed", "index", "rewrite"}
  /\ GiveBack
  /\ UNCHANGED <<clock, thread, memory, robot>>

OpenFile ==
  /\ step = "open" /\ work \notin Unusable
  /\ stamp' = clock
  /\ stamps' = [stamps EXCEPT ![work] = @ \cup {clock}]
  /\ files' = [files EXCEPT ![FailureOf[work]][clock] = Empty]
  /\ step' = "write"
  /\ UNCHANGED <<clock, thread, fate, work, vectors, torn, robot>>

\* Mutant: an error of the write is logged and ignored.
WriteFileIgnoringErrors ==
  /\ step = "write"
  /\ files' \in {files, [files EXCEPT ![FailureOf[work]][stamp] = work]}
  /\ step' = "embed"
  /\ UNCHANGED <<clock, thread, fate, work, stamp, vectors, torn, stamps, robot>>

WriteFile ==
  /\ step = "write"
  /\ files' = [files EXCEPT ![FailureOf[work]][stamp] = work]
  /\ step' = "embed"
  /\ UNCHANGED <<clock, thread, fate, work, stamp, vectors, torn, stamps, robot>>

\* The text to embed joins the commands, which raises on one that is no
\* string: its file is written by then.  The point's id is a hash of
\* solution_id, so it replaces one of the same second that was made by the same
\* process, which salts its hashes.  An error of the store is logged and ignored.
Upsert ==
  /\ step = "embed" /\ work \notin Untextual
  /\ LET point  == [second |-> stamp, failure |-> FailureOf[work]]
         others == {v \in vectors : v.second # stamp}
     IN  vectors' \in {vectors, vectors \cup {point}, others \cup {point}}
  /\ step' = "index"
  /\ UNCHANGED <<clock, thread, fate, work, stamp, files, torn, stamps, robot>>

\* index.json is read, which fails if it is truncated, and then opened.
OpenIndex ==
  /\ step = "index" /\ ~ torn
  /\ torn' = TRUE /\ step' = "rewrite"
  /\ UNCHANGED <<clock, thread, fate, work, stamp, files, vectors, stamps, robot>>

WriteIndex ==
  /\ step = "rewrite"
  /\ torn' = FALSE
  /\ step' = "delete"
  /\ UNCHANGED <<clock, thread, fate, work, stamp, files, vectors, stamps, robot>>

\* Mutant: the message is deleted before the solution is stored.
DeleteBeforeIndexing ==
  /\ step \in {"write", "delete"}
  /\ IF step = "delete" THEN End("deleted")
     ELSE fate' = [fate EXCEPT ![work] = "deleted"] /\ UNCHANGED <<work, step, stamp>>
  /\ UNCHANGED <<clock, thread, memory, robot>>

Delete ==
  /\ step = "delete"
  /\ End("deleted")
  /\ UNCHANGED <<clock, thread, memory, robot>>

\* An exception is logged, and the message comes back.
DeleteFails ==
  /\ step = "delete" /\ work \notin Posted
  /\ End("queued")
  /\ UNCHANGED <<clock, thread, memory, robot>>

\* The process dies.  SQS shows an unfinished message again.
Crash ==
  /\ thread' = "free"
  /\ IF work = Nobody THEN UNCHANGED serving ELSE GiveBack
  /\ UNCHANGED <<clock, memory, robot>>

-----------------------------------------------------------------------------
(* A failure is analysed, in the failures loop or by the server.           *)

\* The commands a solution's file gives.  Each was written as "- " and its
\* text: a line after a line break is a command of its own if it starts with
\* "- ", ends the section if it starts with "##", and is passed over otherwise.
ReadBack(s) ==
  LET written == [i \in DOMAIN CommandsOf[s] |-> [CommandsOf[s][i] EXCEPT ![1].kind = "item"]]
      lines   == FlattenSeq(written)
      before  == {i \in DOMAIN lines : \A k \in 1 .. i : lines[k].kind # "heading"}
      items   == SelectSeq(SubSeq(lines, 1, Cardinality(before)), LAMBDA l : l.kind = "item")
  IN  IF items = <<>> THEN <<NoCommand>> ELSE [i \in DOMAIN items |-> items[i].text]

Newest(f) ==
  LET times == {t \in Seconds : files[f][t] # Absent}
  IN  IF times = {} THEN Absent
      ELSE files[f][CHOOSE t \in times : \A u \in times : t >= u]

\* extract_solution: commands are read from the newest file.
Extract(f) ==
  IF Newest(f) \in Solutions THEN ReadBack(Newest(f)) ELSE <<NoCommand>>

\* search_similar_failures, then process_sqs_failure or analyze_failure: the
\* failure of some point is similar enough.
Proposals == {Extract(v.failure) : v \in vectors}

-----------------------------------------------------------------------------
(* SolutionExecutor.execute_solution, on what the service proposed.        *)

\* Mutant: commands that are not known are left out.
ValidIfAny(commands) == \E i \in DOMAIN commands : commands[i] \in Known

\* validate_solution: all commands, before the first is executed.
Valid(commands) == \A i \in DOMAIN commands : commands[i] \in Known

\* A proposal that is not valid is answered, and nothing else happens.
StartExecution ==
  /\ plan = <<>>
  /\ work = Nobody /\ thread # "solutions"
  /\ plan' \in {commands \in Proposals : Valid(commands)}
  /\ at' = 1 /\ took' = {}
  /\ UNCHANGED <<clock, thread, serving, memory>>

\* One command, whatever became of those before it.  Its argument is converted
\* first, and what raises then, or in the request, is logged.
ExecuteCommand ==
  /\ plan # <<>> /\ at <= Len(plan)
  /\ at' = at + 1
  /\ \/ UNCHANGED took
     \/ plan[at] \notin Raising /\ took' = took \cup {at}
  /\ UNCHANGED <<plan, clock, thread, serving, memory>>

\* The result is returned, or the operator stops the script.
EndExecution ==
  /\ plan # <<>>
  /\ plan' = <<>> /\ at' = 1 /\ took' = {}
  /\ UNCHANGED <<clock, thread, serving, memory>>

-----------------------------------------------------------------------------
Process ==
  \/ StepFails \/ OpenFile \/ WriteFile \/ Upsert \/ OpenIndex \/ WriteIndex
  \/ Delete \/ DeleteFails

Next ==
  \/ Tick \/ Crash \/ Process
  \/ Sleep \/ \E loop \in {"failures", "solutions"} : Wake(loop)
  \/ StartExecution \/ ExecuteCommand \/ EndExecution
  \/ \E s \in Solutions : DropBroken(s) \/ Receive(s) \/ Post(s)

Safety == Init /\ [][Next]_vars

Processable == Solutions \ (Posted \cup Broken \cup Unusable \cup Untextual)

\* Something fails for a solution that need not.
Mishap(s) ==
  /\ work = s /\ ~ (step = "index" /\ torn)
  /\ StepFails \/ DeleteFails \/ Crash

\* A callback never waits.  The event loop runs a poll loop whose sleep is over
\* before it runs the other one a second time, the queue comes round to every
\* message, and what may fail for a solution does not go on failing for ever.
\* That the failures loop ever sleeps is not assumed here.
Fairness ==
  /\ WF_vars(Process) /\ SF_vars(Wake("solutions"))
  /\ \A s \in Processable : SF_vars(Receive(s)) /\ <>[][~ Mishap(s)]_vars

Spec == Safety /\ Fairness

-----------------------------------------------------------------------------
\* Every variable has its type, and a solution is in hand exactly while it
\* is processed.
TypeOK ==
  /\ clock \in Seconds
  /\ fate \in [Solutions -> {"unsent", "queued", "taken", "refused", "deleted"}]
  /\ work \in Solutions \cup {Nobody}
  /\ \A s \in Solutions : fate[s] = "taken" <=> work = s
  /\ step \in {"idle", "open", "write", "embed", "index", "rewrite", "delete"}
  /\ step = "idle" <=> work = Nobody
  /\ stamp \in Seconds
  /\ files \in [Failures -> [Seconds -> Solutions \cup {Absent, Empty}]]
  /\ vectors \subseteq [second : Seconds, failure : Failures]
  /\ torn \in BOOLEAN
  /\ stamps \in [Solutions -> SUBSET Seconds]
  /\ thread \in {"free", "failures", "solutions"}
  /\ plan \in {ReadBack(s) : s \in Solutions} \cup {<<>>}
  /\ at \in Nat /\ took \subseteq Nat

\* INTEGRATION_GUIDE.md: "Stores to disk (markdown files)", then "Deletes
\* message from queue".  A solution whose message is gone is in a file of its
\* failure, unless another solution of that failure took the same second.
DeletedIsStored ==
  \A s \in Solutions \ Broken : fate[s] = "deleted" =>
    \E t \in stamps[s] :
      \/ files[FailureOf[s]][t] = s
      \/ \E o \in Solutions \ {s} : FailureOf[o] = FailureOf[s] /\ t \in stamps[o]

\* A failure that search finds has a written solution to propose from.  Where a
\* crash or a failing write has left its newest file empty, the solution that
\* should be there was not acknowledged, so its sender still has it.
MatchedIsProposable ==
  work = Nobody =>
    \A v \in vectors :
      \/ Newest(v.failure) \in Solutions
      \/ \E s \in Solutions :
           /\ FailureOf[s] = v.failure /\ stamps[s] # {}
           /\ fate[s] \in {"queued", "refused"}

\* What the robot takes are commands, each once and in order, of one recorded
\* solution as its file gives it.  A solution with a command that is not known,
\* like the text that stands where no commands were found, moves nothing, and a
\* command whose argument cannot be converted is left out.
RobotGetsOneSolution ==
  took # {} =>
    /\ \E s \in Solutions : stamps[s] # {} /\ plan = ReadBack(s)
    /\ \A i \in DOMAIN plan : plan[i] \in Known
    /\ \A i \in took : i < at /\ plan[i] \notin Raising

\* poll_failures never waits while its queue shows a message, and nothing else
\* gets the thread then: only where that queue is empty now and then can
\* poll_solutions poll.  INTEGRATION_GUIDE.md: "Polls solutions queue every 5
\* seconds" needs the same.
FailuresPause == []<>(thread # "failures")

\* A solution that can be processed leaves the queue in the end, whatever
\* other messages keep coming back, unless a crash or a failing write has left
\* index.json truncated.
SolutionsEnd ==
  FailuresPause =>
    \A s \in Processable :
      fate[s] = "queued" ~> fate[s] = "deleted" \/ (torn /\ step # "rewrite")

-----------------------------------------------------------------------------
(* Why solutions are stored and found.                                     *)

\* A file is of its failure and of a second that has come, and the queue's
\* broken messages have none.
FilesAreRecorded ==
  /\ \A f \in Failures, t \in Seconds :
       /\ t > clock => files[f][t] = Absent
       /\ files[f][t] \in Solutions =>
            FailureOf[files[f][t]] = f /\ t \in stamps[files[f][t]]
  /\ \A s \in Broken : stamps[s] = {} /\ work # s

\* The file of the solution in hand is the newest of its failure.
InHand ==
  step \notin {"idle", "open"} =>
    LET f == FailureOf[work]
    IN  /\ stamp \in stamps[work] /\ stamp <= clock
        /\ \A t \in Seconds : t > stamp => files[f][t] = Absent
        /\ files[f][stamp] = IF step = "write" THEN Empty ELSE work

Retried(s) ==
  /\ stamps[s] # {}
  /\ fate[s] \in {"queued", "refused"} \/ (work = s /\ step \in {"open", "write"})

\* Where the newest file is empty its solution is still to come, and what can
\* be found has a file.
EmptyIsRetried ==
  /\ \A f \in Failures, t \in Seconds :
       files[f][t] = Empty /\ (\A u \in Seconds : u > t => files[f][u] = Absent) =>
         \E s \in Solutions : FailureOf[s] = f /\ Retried(s)
  /\ \A v \in vectors : \E t \in Seconds : files[v.failure][t] # Absent

\* What an execution was given was read from one file, and is known.
GivenOne ==
  /\ plan = <<>> => took = {}
  /\ plan # <<>> =>
       /\ \E s \in Solutions : stamps[s] # {} /\ plan = ReadBack(s)
       /\ Valid(plan)
  /\ \A i \in took : i < at /\ plan[i] \notin Raising

LegacyInv ==
  /\ TypeOK
  /\ FilesAreRecorded /\ InHand /\ EmptyIsRetried
  /\ DeletedIsStored /\ GivenOne
=============================================================================
