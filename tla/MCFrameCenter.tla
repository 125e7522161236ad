--------------------------- MODULE MCFrameCenter ---------------------------
(* FrameCenter for TLC. *)
EXTENDS FrameCenter, TLC

CONSTANTS f1, f2, p1, i1, i2, w1, w2
TwoFrames    == {f1, f2}
OnePlan      == {p1}
TwoSlots     == {i1, i2}
TwoWorkers   == {w1, w2}
Interchangeable ==
    Permutations(TwoWorkers) \cup Permutations(TwoSlots) \cup Permutations(TwoFrames)
=============================================================================
