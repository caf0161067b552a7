----------------------- MODULE MCRecoveryCoordinator -----------------------
(***************************************************************************)
(* Instances of RecoveryCoordinator for TLC.                               *)
(***************************************************************************)
EXTENDS RecoveryCoordinator, TLC

\* The matcher chose one correction for every row.
OneCorrection == [f \in Failures |-> 1]

RowSymmetry == Permutations(Failures)
=============================================================================
