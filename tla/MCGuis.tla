-------------------------------- MODULE MCGuis --------------------------------
(* The two GUIs of the repository, each alone: the graph of the pages at the *)
(* markers, and the pages of settings.  `part` says which of them a behaviour *)
(* is about, and the variables of the other rest.                            *)
EXTENDS GuiGraph, MCSimpleGuiToo, TLC

VARIABLE part

mcVars == <<part, vars, guiTooVars>>

GuisInit == part \in {"graph", "settings"} /\ GuiInit /\ GuiTooInit

GraphStep == part = "graph" /\ GraphNext /\ UNCHANGED <<part, guiTooVars>>
SettingsStep == part = "settings" /\ GuiTooNext /\ UNCHANGED <<part, vars>>

GuisSpec == GuisInit /\ [][GraphStep \/ SettingsStep]_mcVars

MCPositions == {0}
MCSizes == {320}
MCSymmetry == Permutations(FidIds)
=============================================================================
