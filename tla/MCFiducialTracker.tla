-------------------------- MODULE MCFiducialTracker --------------------------
(* Finite values for FiducialTracker: 0, 1 and 2 give a movement that is   *)
(* jitter, one that is not, and a chain of two jitters that add up to one. *)
EXTENDS FiducialTracker, TLC

MCPositions == {0, 1, 2}
MCSizes == {320, 640}
MCSymmetry == Permutations(FidIds)
=============================================================================
