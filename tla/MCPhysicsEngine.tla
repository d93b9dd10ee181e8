--------------------------- MODULE MCPhysicsEngine ---------------------------
(* Finite values for PhysicsEngine: three ids let a ray move from one      *)
(* fiducial to another; one coordinate tells a position from none.  The    *)
(* ignored ids and the others are not interchangeable.                     *)
EXTENDS PhysicsEngine, TLC

MCPositions == {0}
MCSizes == {320}
MCSymmetry == Permutations(IgnoreFiducialIds) \cup Permutations(FidIds \ IgnoreFiducialIds)
=============================================================================
