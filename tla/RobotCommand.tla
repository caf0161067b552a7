---------------------------- MODULE RobotCommand ----------------------------
(***************************************************************************)
(* What a robot session promises to the callers of request_command: each   *)
(* call is told one outcome, "receipt" and "rejected" only when the robot  *)
(* has answered so, "not_sent" only for a command that has not left and    *)
(* never will.  "unknown" and "cancelled" promise nothing.                 *)
(***************************************************************************)
CONSTANT Requests   \* calls of request_command

VARIABLES
  told,   \* outcome of each call: "none" before it, "called" meanwhile
  fate    \* its command: "kept", "left", "accepted" or "refused"

Outcomes == {"receipt", "rejected", "unknown", "not_sent", "cancelled"}

Init ==
  /\ told = [r \in Requests |-> "none"]
  /\ fate = [r \in Requests |-> "kept"]

Call(r) ==
  /\ told[r] = "none"
  /\ told' = [told EXCEPT ![r] = "called"]
  /\ UNCHANGED fate

Leave(r) ==
  /\ told[r] = "called" /\ fate[r] = "kept"
  /\ fate' = [fate EXCEPT ![r] = "left"]
  /\ UNCHANGED told

\* The robot acts, perhaps after the caller has given up.
Answer(r) ==
  /\ fate[r] = "left"
  /\ \E f \in {"accepted", "refused"} : fate' = [fate EXCEPT ![r] = f]
  /\ UNCHANGED told

\* An outcome is final: a call is told nothing else afterwards.
Tell(r) ==
  /\ told[r] \in {"none", "called"}
  /\ \E o \in Outcomes :
       /\ o = "receipt" => fate[r] = "accepted"
       /\ o = "rejected" => fate[r] = "refused"
       /\ o = "not_sent" => fate[r] = "kept"
       /\ told' = [told EXCEPT ![r] = o]
  /\ UNCHANGED fate

Next == \E r \in Requests : Call(r) \/ Leave(r) \/ Answer(r) \/ Tell(r)

Spec == Init /\ [][Next]_<<told, fate>>
=============================================================================
