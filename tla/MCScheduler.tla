----------------------------- MODULE MCScheduler -----------------------------
(***************************************************************************)
(* Instances of AutomationScheduler: an automation that a plugin owns and  *)
(* that needs the only device, and one that needs no device and whose row  *)
(* the operator edits.                                                     *)
(***************************************************************************)
EXTENDS AutomationScheduler

CONSTANTS managed, free, d1

TwoAutomations == {managed, free}
PluginAutomation == {managed}
FreeAutomation == {free}
OneDevice == {d1}
AllMatch == [a \in TwoAutomations |-> OneDevice]
=============================================================================
