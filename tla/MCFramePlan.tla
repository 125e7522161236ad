---------------------------- MODULE MCFramePlan ----------------------------
(* FramePlan, with the profile reports of its plans, for TLC. *)
EXTENDS CriticalPath

CONSTANTS r1
OneResource == {r1}
OnlyTasks   == {"task"}
=============================================================================
