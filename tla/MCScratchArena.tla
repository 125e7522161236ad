--------------------------- MODULE MCScratchArena ---------------------------
(* ScratchArena for TLC. *)
EXTENDS ScratchArena

Top    == {"phase_states", "resource_states", "profile_nodes"}
Nested == {"barrier_sources", "tail_nodes"}
=============================================================================
