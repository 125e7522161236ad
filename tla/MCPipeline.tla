----------------------------- MODULE MCPipeline -----------------------------
(* Pipeline for TLC. *)
EXTENDS Pipeline

SerialParallelSerial == {0, 2}
=============================================================================
