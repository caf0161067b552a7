--------------------------- MODULE FailureDecision ---------------------------
(***************************************************************************)
(* What the failure matcher promises of the rows of failure_events: a      *)
(* pending row is claimed, a claimed row is decided once, a suggestion can *)
(* only be withdrawn, and every new decision has to be announced to the    *)
(* recovery coordinator again.                                             *)
(***************************************************************************)
CONSTANT Failures   \* rows of failure_events

VARIABLES
  status,    \* matcher_status, "absent" before the row is inserted
  announced  \* rows the coordinator was told of since their last decision

Decisions == {"solution_found", "no_solution", "failed"}

Init ==
  /\ status = [f \in Failures |-> "absent"]
  /\ announced = {}

Move(f, from, to) ==
  /\ status[f] = from
  /\ status' = [status EXCEPT ![f] = to]

Insert(f) == Move(f, "absent", "pending") /\ UNCHANGED announced

Claim(f) == Move(f, "pending", "matching") /\ UNCHANGED announced

Decide(f) ==
  /\ \E d \in Decisions : Move(f, "matching", d)
  /\ announced' = announced \ {f}

Withdraw(f) == Move(f, "solution_found", "no_solution") /\ UNCHANGED announced

Announce ==
  /\ \E S \in SUBSET Failures : announced' = announced \cup S
  /\ UNCHANGED status

\* A new connection owes every announcement again.
Forget == announced' = {} /\ UNCHANGED status

Next ==
  \/ \E f \in Failures : Insert(f) \/ Claim(f) \/ Decide(f) \/ Withdraw(f)
  \/ Announce \/ Forget

Spec == Init /\ [][Next]_<<status, announced>>
=============================================================================
