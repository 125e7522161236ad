----------------------------- MODULE FramePlan -----------------------------
(***************************************************************************)
(* The frame-graph builder, BasicFramePlan: the caller registers tasks,    *)
(* gates, systems and phase barriers, phase by phase, and the builder      *)
(* derives the dependency edges of the native task graph from the phases   *)
(* (auto phase barriers) and from the resources each system declares.      *)
(*                                                                         *)
(* A node is the id allocateNodeId gave it.  The profile tables of the     *)
(* code (profile_nodes_, profile_edges_) are written by the same calls,    *)
(* with the same arguments, as the native graph: nodes and Edges stand for *)
(* both.  The native graph may hold an edge twice; the executor counts it  *)
(* twice and releases it twice, so a set of edges loses nothing.           *)
(***************************************************************************)
EXTENDS Naturals, FiniteSets, Reachability

CONSTANTS
    NumPhases,      \* FramePhase has this many values, 0 .. NumPhases - 1
    Resources,      \* the resource ids that systems declare
    TaskKinds,      \* which of "task", "condition" and "gate" the caller registers
    AutoSettings,   \* the values the caller passes to setAutoPhaseBarriers
    MaxNodes,       \* bound: nodes registered on one plan
    MaxUserEdges    \* bound: explicit precede() edges on one plan

ASSUME FramePlanAssumption ==
    /\ NumPhases \in Nat \ {0}
    /\ MaxNodes \in Nat
    /\ MaxUserEdges \in Nat
    /\ TaskKinds \subseteq {"task", "condition", "gate"}
    /\ AutoSettings \subseteq BOOLEAN

Phases == 0 .. NumPhases - 1
Ids    == 1 .. MaxNodes
NoNode == 0

(***************************************************************************)
(* What an access list says of one resource: not mentioned; only READ      *)
(* entries; the last WRITE/READ_WRITE entry has no READ after it; it has.  *)
(* The order matters to the list of readers the builder keeps.             *)
(***************************************************************************)
Access   == {"none", "read", "write", "writeThenRead"}
NoAccess == [r \in Resources |-> "none"]

isWriteAccess(mode) == mode \in {"write", "writeThenRead"}

VARIABLES
    stage,            \* "building", "cleared" by clear(), or "compiled" by compile()
    next_node_id,     \* the plan's id counter
    nodes,            \* ids of the nodes of the native graph
    phaseOf, kind, access,   \* what each node was registered with
    autoEdges,        \* edges the builder added
    userEdges,        \* edges added by precede()
    auto_phase_barriers,
    wired,            \* history: the nodes registered while auto barriers were on
    active, barrier_sources, tail_nodes,   \* phase_states_
    writer, readers   \* resource_states_

plan == <<stage, next_node_id, nodes, phaseOf, kind, access>>
meta == <<active, barrier_sources, tail_nodes, writer, readers>>
vars == <<plan, meta, autoEdges, userEdges, auto_phase_barriers, wired>>

Edges == autoEdges \cup userEdges

\* The graph orders m before n (or they are one node).
Reaches(m, n) == Path(Ids, Edges, m, n)

-----------------------------------------------------------------------------

Init ==
    /\ stage = "building"
    /\ next_node_id = 1
    /\ nodes = {}
    /\ phaseOf = [i \in Ids |-> 0]
    /\ kind = [i \in Ids |-> "task"]
    /\ access = [i \in Ids |-> NoAccess]
    /\ autoEdges = {}
    /\ userEdges = {}
    /\ auto_phase_barriers = TRUE
    /\ wired = {}
    /\ active = {}
    /\ barrier_sources = [p \in Phases |-> {}]
    /\ tail_nodes = [p \in Phases |-> {}]
    /\ writer = [r \in Resources |-> NoNode]
    /\ readers = [r \in Resources |-> {}]

\* Mutant: looks at the adjacent phase only, and so not past an empty one.
AdjacentPhaseTails(p) == IF p = 0 THEN {} ELSE tail_nodes[p - 1]

\* The tails of the nearest earlier phase that is active and has any.
collectPreviousPhaseTails(p) ==
    LET earlier == {q \in active : q < p /\ tail_nodes[q] # {}}
        nearest == {q \in earlier : \A r \in earlier : r <= q}
    IN  UNION {tail_nodes[q] : q \in nearest}

\* The barrier sources of phase p once activatePhase(p) has returned: they are
\* taken when the phase is first used and never again.
sourcesOf(p) == IF p \in active THEN barrier_sources[p] ELSE collectPreviousPhaseTails(p)

activatePhase(p) ==
    /\ active' = active \cup {p}
    /\ barrier_sources' = [barrier_sources EXCEPT ![p] = sourcesOf(p)]

wireBarrierSources(p, n) == IF auto_phase_barriers THEN sourcesOf(p) \X {n} ELSE {}

\* Mutants: the readers forgotten; collected for READ too; the writer recorded
\* before the prerequisites are collected.
WriterOnlyPrerequisites(acc) ==
    {writer[r] : r \in {s \in Resources : acc[s] # "none" /\ writer[s] # NoNode}}

EagerPrerequisites(acc) ==
    WriterOnlyPrerequisites(acc)
    \cup UNION {readers[r] : r \in {s \in Resources : acc[s] # "none"}}

SelfPrerequisites(acc) ==
    EagerPrerequisites(acc)
    \cup {next_node_id : r \in {s \in Resources : isWriteAccess(acc[s])}}

\* What registerResourceAccesses collects before it adds an edge: the last
\* writer of every resource accessed, and every reader since of those written.
prerequisites(acc) ==
    {writer[r] : r \in {s \in Resources : acc[s] # "none" /\ writer[s] # NoNode}}
    \cup UNION {readers[r] : r \in {s \in Resources : isWriteAccess(acc[s])}}

\* Mutants: the first writer stays the writer; keeps the latest reader only.
FirstWriterStates(n, acc) ==
    /\ writer' = [r \in Resources |->
                     IF isWriteAccess(acc[r]) /\ writer[r] = NoNode THEN n ELSE writer[r]]
    /\ readers' = [r \in Resources |->
                     IF acc[r] = "none" THEN readers[r]
                     ELSE (IF isWriteAccess(acc[r]) THEN {} ELSE readers[r])
                          \cup (IF acc[r] = "write" THEN {} ELSE {n})]

LatestReaderStates(n, acc) ==
    /\ writer' = [r \in Resources |-> IF isWriteAccess(acc[r]) THEN n ELSE writer[r]]
    /\ readers' = [r \in Resources |->
                     IF acc[r] \in {"read", "writeThenRead"} THEN {n} ELSE readers[r]]

\* The second loop of registerResourceAccesses, after the edges.
updateResourceStates(n, acc) ==
    /\ writer' = [r \in Resources |-> IF isWriteAccess(acc[r]) THEN n ELSE writer[r]]
    /\ readers' = [r \in Resources |->
                     CASE acc[r] = "none" -> readers[r]
                       [] acc[r] = "read" -> readers[r] \cup {n}
                       [] acc[r] = "write" -> {}
                       [] acc[r] = "writeThenRead" -> {n}]

\* plan_.task and its siblings: a new native node under the next id.
addNode(p, k, acc) ==
    /\ stage = "building"
    /\ next_node_id <= MaxNodes
    /\ next_node_id' = next_node_id + 1
    /\ nodes' = nodes \cup {next_node_id}
    /\ phaseOf' = [phaseOf EXCEPT ![next_node_id] = p]
    /\ kind' = [kind EXCEPT ![next_node_id] = k]
    /\ access' = [access EXCEPT ![next_node_id] = acc]
    /\ wired' = IF auto_phase_barriers THEN wired \cup {next_node_id} ELSE wired
    /\ UNCHANGED <<stage, userEdges, auto_phase_barriers>>

registerPhaseNode(p, n) ==
    /\ activatePhase(p)
    /\ tail_nodes' = [tail_nodes EXCEPT ![p] = @ \cup {n}]

\* task, conditionTask, dynamicTask, pipelineTask, parallelFor, gate and
\* mainThreadGate of a frame plan.
Task(p, k) ==
    /\ addNode(p, k, NoAccess)
    /\ registerPhaseNode(p, next_node_id)
    /\ autoEdges' = autoEdges \cup wireBarrierSources(p, next_node_id)
    /\ UNCHANGED <<writer, readers>>

\* systemTask and parallelForSystem.
SystemTask(p, acc) ==
    /\ addNode(p, "task", acc)
    /\ registerPhaseNode(p, next_node_id)
    /\ autoEdges' = autoEdges \cup wireBarrierSources(p, next_node_id)
                              \cup prerequisites(acc) \X {next_node_id}
    /\ updateResourceStates(next_node_id, acc)

\* Mutant: clears the tails before it wires them.
ForgetfulPhaseBarrier(p) ==
    /\ addNode(p, "barrier", NoAccess)
    /\ activatePhase(p)
    /\ autoEdges' = autoEdges \cup wireBarrierSources(p, next_node_id)
    /\ tail_nodes' = [tail_nodes EXCEPT ![p] = {next_node_id}]
    /\ UNCHANGED <<writer, readers>>

\* phaseBarrier: a gate that joins the tails of its phase (or, in a phase that
\* has none, waits for the barrier sources) and becomes its only tail.
PhaseBarrier(p) ==
    /\ addNode(p, "barrier", NoAccess)
    /\ activatePhase(p)
    /\ autoEdges' = autoEdges \cup
          (IF tail_nodes[p] # {} THEN tail_nodes[p] \X {next_node_id}
                                 ELSE wireBarrierSources(p, next_node_id))
    /\ tail_nodes' = [tail_nodes EXCEPT ![p] = {next_node_id}]
    /\ UNCHANGED <<writer, readers>>

\* precede(from, to): any two handles of the plan, in any direction.
Precede(m, n) ==
    /\ stage = "building"
    /\ Cardinality(userEdges) < MaxUserEdges
    /\ userEdges' = userEdges \cup {<<m, n>>}
    /\ UNCHANGED <<plan, meta, autoEdges, auto_phase_barriers, wired>>

SetAutoPhaseBarriers(enabled) ==
    /\ stage = "building"
    /\ auto_phase_barriers' = enabled
    /\ UNCHANGED <<plan, meta, autoEdges, userEdges, wired>>

\* Mutant: keeps the phase table.
ResetResourcesOnly ==
    /\ writer' = [r \in Resources |-> NoNode]
    /\ readers' = [r \in Resources |-> {}]
    /\ UNCHANGED <<active, barrier_sources, tail_nodes>>

resetMetadata ==
    /\ active' = {}
    /\ barrier_sources' = [p \in Phases |-> {}]
    /\ tail_nodes' = [p \in Phases |-> {}]
    /\ writer' = [r \in Resources |-> NoNode]
    /\ readers' = [r \in Resources |-> {}]

(***************************************************************************)
(* clear() empties the graph and the metadata and keeps the id counter.    *)
(* Registering nodes afterwards runs into the storage reuse that module    *)
(* ScratchArena models, so a cleared plan takes no further calls here.     *)
(***************************************************************************)
Clear ==
    /\ stage = "building"
    /\ stage' = "cleared"
    /\ nodes' = {}
    /\ autoEdges' = {}
    /\ userEdges' = {}
    /\ wired' = {}
    /\ resetMetadata
    /\ UNCHANGED <<next_node_id, phaseOf, kind, access, auto_phase_barriers>>

\* compile(): the graph moves to the compiled plan, the metadata is reset.
Compile ==
    /\ stage = "building"
    /\ stage' = "compiled"
    /\ resetMetadata
    /\ UNCHANGED <<next_node_id, nodes, phaseOf, kind, access,
                   autoEdges, userEdges, auto_phase_barriers, wired>>

Next ==
    \/ \E p \in Phases, k \in TaskKinds : Task(p, k)
    \/ \E p \in Phases, acc \in [Resources -> Access] : SystemTask(p, acc)
    \/ \E p \in Phases : PhaseBarrier(p)
    \/ \E m, n \in nodes : Precede(m, n)
    \/ \E enabled \in AutoSettings : SetAutoPhaseBarriers(enabled)
    \/ Clear
    \/ Compile

Spec == Init /\ [][Next]_vars

-----------------------------------------------------------------------------

(***************************************************************************)
(* The types of the builder's variables; while it is building, the nodes   *)
(* are the ids handed out so far and every table names nodes only.         *)
(***************************************************************************)
TypeOK ==
    /\ stage \in {"building", "cleared", "compiled"}
    /\ next_node_id \in 1 .. MaxNodes + 1
    /\ nodes = (IF stage = "cleared" THEN {} ELSE 1 .. next_node_id - 1)
    /\ phaseOf \in [Ids -> Phases]
    /\ kind \in [Ids -> {"task", "condition", "gate", "barrier"}]
    /\ access \in [Ids -> [Resources -> Access]]
    /\ autoEdges \subseteq nodes \X nodes
    /\ userEdges \subseteq nodes \X nodes
    /\ auto_phase_barriers \in BOOLEAN
    /\ wired \subseteq nodes
    /\ active \subseteq Phases
    /\ barrier_sources \in [Phases -> SUBSET nodes]
    /\ tail_nodes \in [Phases -> SUBSET nodes]
    /\ writer \in [Resources -> nodes \cup {NoNode}]
    /\ readers \in [Resources -> SUBSET nodes]

Writes(n, r)   == isWriteAccess(access[n][r])
Accesses(n, r) == access[n][r] # "none"

Conflict(m, n) ==
    \E r \in Resources : /\ Accesses(m, r) /\ Accesses(n, r)
                         /\ Writes(m, r) \/ Writes(n, r)

(***************************************************************************)
(* registerResourceAccesses forgets all but the last writer and the        *)
(* readers since; yet any two systems that conflict on a resource, however *)
(* far apart, are ordered by the graph in the order of registration.       *)
(***************************************************************************)
ConflictOrdered ==
    \A m, n \in nodes : m < n /\ Conflict(m, n) => Reaches(m, n)

\* The phases were used in order, each node with auto barriers on.
BuiltInPhaseOrder ==
    /\ wired = nodes
    /\ \A m, n \in nodes : m < n => phaseOf[m] <= phaseOf[n]

(***************************************************************************)
(* The barrier sources of a phase are the tails of one earlier phase only; *)
(* yet when the phases are built in order with auto barriers on, every     *)
(* node of any earlier phase is ordered before every node of a later one,  *)
(* across phases left empty and phase barriers.                            *)
(***************************************************************************)
PhaseOrdered ==
    BuiltInPhaseOrder =>
        \A m, n \in nodes : phaseOf[m] < phaseOf[n] => Reaches(m, n)

(***************************************************************************)
(* A phase barrier waits for every node registered in its phase before it, *)
(* those behind an earlier barrier of the phase included, whether or not   *)
(* auto barriers are on.                                                   *)
(***************************************************************************)
BarrierJoinsPhase ==
    \A m, n \in nodes :
        m < n /\ kind[n] = "barrier" /\ phaseOf[m] = phaseOf[n] => Reaches(m, n)

(***************************************************************************)
(* The edges the builder adds never close a cycle: unless the caller's own *)
(* precede() edges run backwards, no edge of the graph has a way back.     *)
(***************************************************************************)
NoAutomaticCycle ==
    (\A e \in userEdges : e[1] < e[2]) =>
        \A e \in Edges : ~Reaches(e[2], e[1])

(***************************************************************************)
(* The builder serialises nothing it need not: every edge it adds goes     *)
(* from an earlier phase to a later one, joins a phase at a barrier, or    *)
(* separates two systems that conflict.  Readers stay parallel.            *)
(***************************************************************************)
NoSpuriousEdge ==
    \A e \in autoEdges :
        \/ phaseOf[e[1]] < phaseOf[e[2]]
        \/ phaseOf[e[1]] = phaseOf[e[2]] /\ kind[e[2]] = "barrier"
        \/ Conflict(e[1], e[2])
=============================================================================
