--------------------------- MODULE MCLegacyService ---------------------------
(* Instance of LegacyService: a queued and a posted solution of the same   *)
(* failure, one of that failure with a command that is not a string, a     *)
(* message that lacks its failure_id, and one that is not JSON.            *)
EXTENDS LegacyService

CONSTANTS s1, p1, n1, u1, b1

MCFailureOf == [s \in Solutions |-> IF s \in {u1, b1} THEN "none" ELSE "stuck"]

Text(text) == <<[kind |-> "text", text |-> text]>>

\* The posted solution's command breaks into two lines, of which the second
\* is read as a command; the third solution's heading cuts off what follows.
MCCommandsOf ==
  [s \in Solutions |->
     CASE s = s1 -> <<Text("dock"), Text("slide(forward, 1.5)")>>
       [] s = p1 -> <<Text("dock") \o <<[kind |-> "item", text |-> "navigate"]>>, Text("wait")>>
       [] s = n1 -> <<<<[kind |-> "text", text |-> "5"], [kind |-> "heading", text |-> "##"]>>,
                      Text("dock")>>
       [] OTHER  -> <<>>]

ASSUME /\ ReadBack(s1) = <<"dock", "slide(forward, 1.5)">>
       /\ ReadBack(p1) = <<"dock", "navigate", "wait">>
       /\ ReadBack(n1) = <<"5">>
       /\ \A s \in Broken : ReadBack(s) = <<NoCommand>>

=============================================================================
