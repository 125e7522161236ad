----------------------------- MODULE MCFrameRun -----------------------------
(* FrameRun for TLC. *)
EXTENDS FrameRun

CONSTANTS r1
OneResource == {r1}
=============================================================================
