--------------------------- MODULE MCParallelFor ---------------------------
(* ParallelFor for TLC. *)
EXTENDS ParallelFor, TLC

CONSTANTS w1, w2
TwoWorkers      == {w1, w2}
Interchangeable == Permutations(TwoWorkers)
=============================================================================
