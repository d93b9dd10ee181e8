---------------------------- MODULE MCSimpleGuiToo ----------------------------
(* One or two pages, the first with a toggle and the second with a momentary *)
(* button, and the labels in the order of the length of their texts: a       *)
(* page's name, "Auto Save", "Backup XML", "Save Settings".                  *)
EXTENDS SimpleGuiToo

MCLabels == <<"changePage", "doAutoSave", "doSaveBackup", "doSave">>
=============================================================================
