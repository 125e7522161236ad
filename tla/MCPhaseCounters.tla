-------------------------- MODULE MCPhaseCounters --------------------------
(* PhaseCounters for TLC. *)
EXTENDS PhaseCounters, TLC

CONSTANTS w1, w2
TwoWorkers      == {w1, w2}
Interchangeable == Permutations(TwoWorkers)
=============================================================================
