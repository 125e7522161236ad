---------------------------- MODULE ScratchArena ----------------------------
(***************************************************************************)
(* Where the tables of a frame plan live.  phase_states_, resource_states_ *)
(* and the profile tables are vectors on one monotonic arena, and so are   *)
(* the node lists nested in them.  The arena hands out storage front to    *)
(* back, first from its own buffer and then from the upstream resource;    *)
(* deallocation does nothing; reset() frees the upstream storage and       *)
(* starts again at the front, whatever the vectors still hold.             *)
(*                                                                         *)
(* One unit of storage holds one element.  Which builder call appends to   *)
(* which table is left open.  compile(), which resets the arena as well,   *)
(* takes the plan and leaves nothing to build on.                          *)
(***************************************************************************)
EXTENDS Naturals

CONSTANTS
    TopTables,      \* the vectors FramePlan owns directly, "phase_states" among them
    NestedTables,   \* barrier_sources, tail_nodes and readers lists
    PhaseCount,     \* kFramePhaseCount
    BufferSize,     \* FrameMemoryConfig::scratch_bytes
    MaxStorage      \* bound: storage units ever handed out

Tables == TopTables \cup NestedTables
Unset  == [start |-> 0, capacity |-> 0, size |-> 0]

VARIABLES
    cursor,     \* next free unit of the arena's buffer
    upstream,   \* next unit the upstream resource will hand out, never reused
    held,       \* the upstream units the arena holds
    vector      \* each table's storage: start, capacity, and the elements in it

vars == <<cursor, upstream, held, vector>>

units(start, count) == start .. start + count - 1

\* A monotonic allocation of n units: from the buffer if they fit, else
\* upstream, and from then on what is left of the buffer is given up.
allocationStart(c, n) == IF c + n <= BufferSize THEN c ELSE upstream

allocate(c, n) ==
    IF c + n <= BufferSize
    THEN cursor' = c + n /\ UNCHANGED <<upstream, held>>
    ELSE /\ cursor' = BufferSize
         /\ upstream' = upstream + n
         /\ held' = held \cup units(upstream, n)

\* The constructor: initializePhaseStates reserves and fills the phase table.
Init ==
    LET fits == PhaseCount <= BufferSize
    IN  /\ cursor = IF fits THEN PhaseCount ELSE BufferSize
        /\ upstream = IF fits THEN BufferSize ELSE BufferSize + PhaseCount
        /\ held = IF fits THEN {} ELSE units(BufferSize, PhaseCount)
        /\ vector = [t \in Tables |->
              IF t # "phase_states" THEN Unset
              ELSE [start |-> IF fits THEN 0 ELSE BufferSize,
                    capacity |-> PhaseCount, size |-> PhaseCount]]

grownCapacity(n) == IF n = 0 THEN 1 ELSE 2 * n

\* A registration appends an element to a table: in place if there is room,
\* else into new storage twice the size.
Append(t) ==
    LET v == vector[t]
        n == grownCapacity(v.capacity)
    IN  /\ t # "phase_states"
        /\ IF v.size < v.capacity
           THEN /\ vector' = [vector EXCEPT ![t].size = @ + 1]
                /\ UNCHANGED <<cursor, upstream, held>>
           ELSE /\ upstream + n <= MaxStorage
                /\ vector' = [vector EXCEPT ![t] = [start |-> allocationStart(cursor, n),
                                                    capacity |-> n, size |-> v.size + 1]]
                /\ allocate(cursor, n)

\* The vectors after resetMetadata: the arena is reset first; then the tables
\* are cleared, which keeps their storage, and the phase table is refilled in
\* the storage it kept.  The nested lists of the new elements start empty.
clearedVectors ==
    [t \in Tables |->
        CASE t = "phase_states" -> [vector[t] EXCEPT !.size = PhaseCount]
          [] t \in TopTables \ {"phase_states"} -> [vector[t] EXCEPT !.size = 0]
          [] t \in NestedTables -> Unset]

resetMetadata ==
    /\ cursor' = 0
    /\ held' = {}
    /\ vector' = clearedVectors
    /\ UNCHANGED upstream

Clear == resetMetadata

Next == Clear \/ \E t \in Tables : Append(t)

Spec == Init /\ [][Next]_vars

-----------------------------------------------------------------------------

contents(t) == units(vector[t].start, vector[t].size)

(***************************************************************************)
(* No two tables share storage: a builder call that appends to one never   *)
(* overwrites another, be the plan new or cleared.                         *)
(***************************************************************************)
TablesDisjoint ==
    \A s, t \in Tables : s # t => contents(s) \cap contents(t) = {}
=============================================================================
