--------------------------- MODULE MCConditionRun ---------------------------
(* ConditionRun for TLC. *)
EXTENDS ConditionRun

Kinds == {"task", "condition"}

\* Without loops: the caller's edges follow the order of registration.
Forward == \A e \in userEdges : e[1] < e[2]

FrameSpec == RunInit /\ [][(BuildFramePlan \/ Run) /\ Forward']_runVars
=============================================================================
