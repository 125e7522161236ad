---------------------------- MODULE MCDynamicRun ----------------------------
(* DynamicRun for TLC. *)
EXTENDS DynamicRun

CONSTANTS w1, w2
TwoWorkers      == {w1, w2}
TaskAndChild    == {<<2, 0>>, <<1, 2>>}
=============================================================================
