----------------------------- MODULE MCGuiManager -----------------------------
(* Finite values for GuiManager: 0 and 1 are a jitter apart, 0 and 2 not.  *)
EXTENDS GuiManager

MCPositions == {0, 1, 2}
MCSizes == {320}
=============================================================================
