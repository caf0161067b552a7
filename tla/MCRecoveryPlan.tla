--------------------------- MODULE MCRecoveryPlan ---------------------------
(***************************************************************************)
(* Versions of one Flow and memories of demonstrations on it, for TLC.     *)
(***************************************************************************)
EXTENDS RecoveryPlan

Action(i, c, p) == [index |-> i, command |-> c, place |-> p]

Grip == Action(0, "grip", "shelf")
Move == Action(1, "move", "shelf")
Drop == Action(2, "drop", "dock")

Taught  == [id |-> "f", states |-> [flow_commit |-> "k1", filename |-> "a"],
            actions |-> <<Grip, Move, Drop>>]
\* An action was inserted in front: every index shifts.
Shifted == [id |-> "f", states |-> [flow_commit |-> "k2", filename |-> "a"],
            actions |-> <<Action(0, "home", "dock"), Action(1, "grip", "shelf"),
                          Action(2, "move", "shelf"), Action(3, "drop", "dock")>>]
\* Not committed: the action before the failing one is another one now.
Edited  == [id |-> "f", states |-> [flow_commit |-> None],
            actions |-> <<Action(0, "grip", "dock"), Move, Drop>>]
\* Nothing is said of file or commit: the action after the failing one is
\* another one now.
Recut   == [id |-> "f", states |-> [field \in {} |-> None], actions |-> <<Grip, Move>>]
\* Two actions with one index, in another file.
Doubled == [id |-> "f", states |-> [filename |-> "b"],
            actions |-> <<Grip, Move, Action(1, "move", "dock"), Drop>>]
\* The file was renamed.
Renamed == [id |-> "f", states |-> [flow_commit |-> "k1", filename |-> "b"],
            actions |-> <<Grip, Move, Drop>>]

MCFlows == {Taught, Shifted, Edited, Recut, Doubled, Renamed}

Demonstrated(f, i, rewind) ==
  [terminal |-> "$resume_flow",
   arguments |-> GuardedArguments(Pointer(f, i), rewind),
   expected |-> GuardedArguments(Pointer(f, i), rewind),
   current |-> ActionAt(f, i), target |-> ActionAt(f, i - rewind)]

Retried(f, i) ==
  [terminal |-> "$rerun", current |-> ActionAt(f, i), next |-> ActionAfter(f, i)]

\* A rewind of more steps than are allowed.
TooFar == Demonstrated(Taught, 2, 2)

\* A file edited by hand: the target is not where the arguments say.
Tampered == [Demonstrated(Taught, 1, 1) EXCEPT !.target = Drop]

MCMemories ==
  {Demonstrated(Taught, 1, 0), Demonstrated(Taught, 1, 1), Demonstrated(Edited, 1, 1),
   Retried(Taught, 1), Tampered, TooFar, [terminal |-> "none"]}
=============================================================================
