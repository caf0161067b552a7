---------------------------- MODULE DurableMemory ----------------------------
(***************************************************************************)
(* What memory ingestion promises of one resolution: the remote memory     *)
(* branch only grows, nobody's commit is ever removed from it, and the     *)
(* commit the database acknowledges is one of this document on that        *)
(* branch, only ever replaced by a later one.                              *)
(*                                                                         *)
(* A history is the sequence of the versions its commits record; a commit  *)
(* is the history that ends with it.                                       *)
(***************************************************************************)
EXTENDS Integers, Sequences

CONSTANTS
  Foreign,   \* a commit that does not touch the document
  NoCommit   \* the empty history

VARIABLES
  branch,    \* history of the remote branch
  acked      \* memory_commit_sha of the resolution

Within(h, g) == Len(h) <= Len(g) /\ \A i \in 1 .. Len(h) : h[i] = g[i]

Init == branch = NoCommit /\ acked = NoCommit

Push == Within(branch, branch') /\ UNCHANGED acked

Acknowledge ==
  /\ acked' # NoCommit /\ acked'[Len(acked')] # Foreign
  /\ Within(acked', branch)
  /\ Within(acked, acked')
  /\ UNCHANGED branch

Next == Push \/ Acknowledge

Spec == Init /\ [][Next]_<<branch, acked>>
=============================================================================
