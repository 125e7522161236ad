--------------------------- MODULE FrameRunProofs ---------------------------
(***************************************************************************)
(* Proofs about frames, for every number of phases, nodes, resources and   *)
(* workers: the graph FramePlan builds, the critical path reported of it,  *)
(* and its dispatch.                                                       *)
(*                                                                         *)
(* The orderings are invariants about paths, and paths only ever gain      *)
(* edges while a plan is built, so the work is in the new node: each proof *)
(* shows what the builder's tables (readers, writer, tail_nodes,           *)
(* barrier_sources) say about every node they no longer hold.              *)
(*                                                                         *)
(* The critical path is a worklist over recursive functions: that they     *)
(* exist, and what they compute, is induction on a rank, for which a set   *)
(* of naturals stands.                                                     *)
(*                                                                         *)
(* A dispatch never touches the plan, so what is shown of the graph holds  *)
(* throughout a run; what is left is that the executor respects its edges. *)
(***************************************************************************)
EXTENDS FrameRun, CriticalPath, FiniteSetTheorems, TLAPS

-----------------------------------------------------------------------------
(* Paths. *)

\* An edge is a path, a node reaches itself, paths compose and survive new edges.
LEMMA PathEdge ==
    ASSUME NEW N, NEW E, NEW m, NEW n, <<m, n>> \in E
    PROVE  Path(N, E, m, n)
BY DEF Path, SuccessorClosed

LEMMA PathSelf ==
    ASSUME NEW N, NEW E, NEW m
    PROVE  Path(N, E, m, m)
BY DEF Path

LEMMA PathTrans ==
    ASSUME NEW N, NEW E, NEW m, NEW n, NEW k, Path(N, E, m, n), Path(N, E, n, k)
    PROVE  Path(N, E, m, k)
BY DEF Path

LEMMA PathGrows ==
    ASSUME NEW N, NEW E, NEW F, E \subseteq F, NEW m, NEW n, Path(N, E, m, n)
    PROVE  Path(N, F, m, n)
BY DEF Path, SuccessorClosed

\* In a graph whose edges all go up, no path goes down.
LEMMA PathUp ==
    ASSUME NEW N \in SUBSET Nat, NEW E \in SUBSET (N \X N),
           \A e \in E : e[1] < e[2],
           NEW m \in N, NEW n \in N, Path(N, E, m, n)
    PROVE  m <= n
<1> DEFINE Above == {i \in N : m <= i}
<1>1. SuccessorClosed(E, Above)
  <2> SUFFICES ASSUME NEW e \in E, e[1] \in Above PROVE e[2] \in Above
    BY DEF SuccessorClosed
  <2>1. e[1] \in N /\ e[2] \in N /\ e[1] < e[2]
    OBVIOUS
  <2>2. e[1] \in Nat /\ e[2] \in Nat /\ m \in Nat
    BY <2>1
  <2> QED BY <2>1, <2>2
<1>2. m \in Above
  OBVIOUS
<1> QED BY <1>1, <1>2 DEF Path

\* A set of naturals has a least member.
LEMMA LeastNatural ==
    ASSUME NEW T \in SUBSET Nat, T # {}
    PROVE  \E x \in T : \A y \in T : x <= y
<1>1. PICK x \in T : \A y \in T : <<y, x>> \notin OpToRel(<, Nat)
  BY NatLessThanWellFounded, WFMin
<1>2. \A y \in T : ~(y < x)
  BY <1>1 DEF OpToRel
<1> QED BY <1>2

-----------------------------------------------------------------------------
(* Type correctness. *)

LEMMA InitTypeOK == Init => TypeOK
BY FramePlanAssumption DEF Init, TypeOK, Ids, Phases, NoAccess, Access, NoNode

\* The tables a node-adding operation reads name nodes of the plan only.
LEMMA SourcesAreNodes ==
    ASSUME TypeOK, NEW p \in Phases
    PROVE  /\ sourcesOf(p) \subseteq nodes
           /\ \A n : wireBarrierSources(p, n) \subseteq nodes \X {n}
BY DEF TypeOK, sourcesOf, collectPreviousPhaseTails, wireBarrierSources

LEMMA PrerequisitesAreNodes ==
    ASSUME TypeOK, NEW acc \in [Resources -> Access]
    PROVE  prerequisites(acc) \subseteq nodes
BY DEF TypeOK, prerequisites, NoNode

\* What any registration does to the node tables.
LEMMA NewNode ==
    ASSUME TypeOK, NEW p \in Phases, NEW k \in {"task", "condition", "gate", "barrier"},
           NEW acc \in [Resources -> Access], addNode(p, k, acc)
    PROVE  /\ stage = "building" /\ stage' = "building"
           /\ next_node_id \in Ids /\ next_node_id \notin nodes
           /\ nodes = 1 .. next_node_id - 1
           /\ nodes' = nodes \cup {next_node_id} /\ nodes' = 1 .. next_node_id' - 1
           /\ next_node_id' \in 1 .. MaxNodes + 1
           /\ \A m \in nodes : m \in Ids /\ m < next_node_id
           /\ phaseOf' \in [Ids -> Phases] /\ phaseOf'[next_node_id] = p
           /\ \A m \in nodes : phaseOf'[m] = phaseOf[m]
           /\ kind' \in [Ids -> {"task", "condition", "gate", "barrier"}]
           /\ kind'[next_node_id] = k
           /\ \A m \in nodes : kind'[m] = kind[m]
           /\ access' \in [Ids -> [Resources -> Access]] /\ access'[next_node_id] = acc
           /\ \A m \in nodes : access'[m] = access[m]
BY FramePlanAssumption DEF TypeOK, addNode, Ids

LEMMA NoAccessType == NoAccess \in [Resources -> Access]
BY DEF NoAccess, Access

LEMMA NextTypeOK == TypeOK /\ [Next]_vars => TypeOK'
<1> SUFFICES ASSUME TypeOK, [Next]_vars PROVE TypeOK'
  OBVIOUS
<1> USE NoAccessType, FramePlanAssumption
<1>1. ASSUME NEW p \in Phases, NEW k \in TaskKinds, Task(p, k) PROVE TypeOK'
  <2>1. addNode(p, k, NoAccess)
    BY <1>1 DEF Task
  <2>2. k \in {"task", "condition", "gate", "barrier"}
    BY DEF FramePlanAssumption
  <2>3. next_node_id \in nodes' /\ nodes \subseteq nodes'
    BY <2>1, <2>2, NewNode
  <2>4. autoEdges' \subseteq nodes' \X nodes'
    BY <1>1, <2>3, SourcesAreNodes DEF Task, TypeOK
  <2>5. userEdges' \subseteq nodes' \X nodes'
    BY <2>1, <2>3 DEF addNode, TypeOK
  <2>6. /\ active' \subseteq Phases
        /\ barrier_sources' \in [Phases -> SUBSET nodes']
        /\ tail_nodes' \in [Phases -> SUBSET nodes']
    BY <1>1, <2>3, SourcesAreNodes DEF Task, registerPhaseNode, activatePhase, TypeOK
  <2>7. /\ writer' \in [Resources -> nodes' \cup {NoNode}]
        /\ readers' \in [Resources -> SUBSET nodes']
    BY <1>1, <2>3 DEF Task, TypeOK
  <2>8. /\ stage' = "building" /\ auto_phase_barriers' \in BOOLEAN /\ wired' \subseteq nodes'
    BY <2>1, <2>3 DEF addNode, TypeOK
  <2> QED BY <2>1, <2>2, <2>4, <2>5, <2>6, <2>7, <2>8, NewNode DEF TypeOK
<1>2. ASSUME NEW p \in Phases, NEW acc \in [Resources -> Access], SystemTask(p, acc) PROVE TypeOK'
  <2>1. addNode(p, "task", acc)
    BY <1>2 DEF SystemTask
  <2>2. "task" \in {"task", "condition", "gate", "barrier"}
    OBVIOUS
  <2>3. next_node_id \in nodes' /\ nodes \subseteq nodes'
    BY <2>1, <2>2, NewNode
  <2>4. autoEdges' \subseteq nodes' \X nodes'
    <3>1. autoEdges \subseteq nodes' \X nodes'
      BY <2>3 DEF TypeOK
    <3>2. wireBarrierSources(p, next_node_id) \subseteq nodes' \X nodes'
      BY <2>3, SourcesAreNodes
    <3>3. prerequisites(acc) \X {next_node_id} \subseteq nodes' \X nodes'
      BY <2>3, PrerequisitesAreNodes
    <3> QED BY <1>2, <3>1, <3>2, <3>3 DEF SystemTask
  <2>5. userEdges' \subseteq nodes' \X nodes'
    BY <2>1, <2>3 DEF addNode, TypeOK
  <2>6. /\ active' \subseteq Phases
        /\ barrier_sources' \in [Phases -> SUBSET nodes']
        /\ tail_nodes' \in [Phases -> SUBSET nodes']
    BY <1>2, <2>3, SourcesAreNodes DEF SystemTask, registerPhaseNode, activatePhase, TypeOK
  <2>7. /\ writer' \in [Resources -> nodes' \cup {NoNode}]
        /\ readers' \in [Resources -> SUBSET nodes']
    BY <1>2, <2>3 DEF SystemTask, TypeOK, updateResourceStates, Access
  <2>8. /\ stage' = "building" /\ auto_phase_barriers' \in BOOLEAN /\ wired' \subseteq nodes'
    BY <2>1, <2>3 DEF addNode, TypeOK
  <2> QED BY <2>1, <2>2, <2>4, <2>5, <2>6, <2>7, <2>8, NewNode DEF TypeOK
<1>3. ASSUME NEW p \in Phases, PhaseBarrier(p) PROVE TypeOK'
  <2>1. addNode(p, "barrier", NoAccess)
    BY <1>3 DEF PhaseBarrier
  <2>2. "barrier" \in {"task", "condition", "gate", "barrier"}
    OBVIOUS
  <2>3. next_node_id \in nodes' /\ nodes \subseteq nodes'
    BY <2>1, <2>2, NewNode
  <2>4. autoEdges' \subseteq nodes' \X nodes'
    BY <1>3, <2>3, SourcesAreNodes DEF PhaseBarrier, TypeOK
  <2>5. userEdges' \subseteq nodes' \X nodes'
    BY <2>1, <2>3 DEF addNode, TypeOK
  <2>6. /\ active' \subseteq Phases
        /\ barrier_sources' \in [Phases -> SUBSET nodes']
        /\ tail_nodes' \in [Phases -> SUBSET nodes']
    BY <1>3, <2>3, SourcesAreNodes DEF PhaseBarrier, activatePhase, TypeOK
  <2>7. /\ writer' \in [Resources -> nodes' \cup {NoNode}]
        /\ readers' \in [Resources -> SUBSET nodes']
    BY <1>3, <2>3 DEF PhaseBarrier, TypeOK
  <2>8. /\ stage' = "building" /\ auto_phase_barriers' \in BOOLEAN /\ wired' \subseteq nodes'
    BY <2>1, <2>3 DEF addNode, TypeOK
  <2> QED BY <2>1, <2>2, <2>4, <2>5, <2>6, <2>7, <2>8, NewNode DEF TypeOK
<1>4. ASSUME NEW m \in nodes, NEW n \in nodes, Precede(m, n) PROVE TypeOK'
  BY <1>4 DEF Precede, TypeOK, plan, meta
<1>5. ASSUME NEW enabled \in AutoSettings, SetAutoPhaseBarriers(enabled) PROVE TypeOK'
  BY <1>5 DEF SetAutoPhaseBarriers, TypeOK, plan, meta
<1>6. CASE Clear
  BY <1>6 DEF Clear, resetMetadata, TypeOK, NoNode
<1>7. CASE Compile
  BY <1>7 DEF Compile, resetMetadata, TypeOK, NoNode
<1>8. CASE UNCHANGED vars
  BY <1>8 DEF vars, plan, meta, TypeOK
<1> QED BY <1>1, <1>2, <1>3, <1>4, <1>5, <1>6, <1>7, <1>8 DEF Next

(***************************************************************************)
(* The builder's tables are well formed in every reachable state: while a  *)
(* plan is building its nodes are exactly the ids handed out, and edges,   *)
(* tails, sources, writers and readers name nodes of the plan only.        *)
(***************************************************************************)
THEOREM TypeCorrect == Spec => []TypeOK
BY InitTypeOK, NextTypeOK, PTL DEF Spec

-----------------------------------------------------------------------------
(* What the steps share. *)

LEMMA ReachesKept ==
    ASSUME Edges \subseteq Edges'
    PROVE  \A m, n : Reaches(m, n) => Reaches(m, n)'
BY PathGrows DEF Reaches

LEMMA ReachesTrans ==
    ASSUME NEW m, NEW n, NEW k, Reaches(m, n)', Reaches(n, k)'
    PROVE  Reaches(m, k)'
BY PathTrans DEF Reaches

\* The registrations, seen as one kind of step: a node with its edges.
Registers(p, k, acc) ==
    /\ addNode(p, k, acc)
    /\ Edges \subseteq Edges'

LEMMA TaskRegisters ==
    ASSUME NEW p, NEW k, Task(p, k)
    PROVE  Registers(p, k, NoAccess)
BY DEF Task, Registers, Edges, addNode

LEMMA SystemTaskRegisters ==
    ASSUME NEW p, NEW acc, SystemTask(p, acc)
    PROVE  Registers(p, "task", acc)
BY DEF SystemTask, Registers, Edges, addNode

LEMMA PhaseBarrierRegisters ==
    ASSUME NEW p, PhaseBarrier(p)
    PROVE  Registers(p, "barrier", NoAccess)
BY DEF PhaseBarrier, Registers, Edges, addNode

\* The steps that leave the nodes and the metadata alone.
LEMMA PrecedeKeeps ==
    ASSUME NEW m, NEW n, Precede(m, n)
    PROVE  UNCHANGED <<plan, meta, wired>> /\ Edges \subseteq Edges'
BY DEF Precede, Edges

LEMMA SetAutoKeeps ==
    ASSUME NEW enabled, SetAutoPhaseBarriers(enabled)
    PROVE  UNCHANGED <<plan, meta, wired>> /\ Edges \subseteq Edges'
BY DEF SetAutoPhaseBarriers, Edges

LEMMA StutterKeeps ==
    ASSUME UNCHANGED vars
    PROVE  UNCHANGED <<plan, meta, wired>> /\ Edges \subseteq Edges'
BY DEF vars, Edges

LEMMA CompileKeeps ==
    ASSUME Compile
    PROVE  UNCHANGED <<nodes, phaseOf, kind, access, wired>> /\ Edges \subseteq Edges'
BY DEF Compile, Edges

-----------------------------------------------------------------------------
(* Conflicting systems are ordered. *)

(***************************************************************************)
(* What the resource table remembers of the systems it no longer lists: a  *)
(* past writer is ordered before the last writer, and a past reader that   *)
(* is not in the list of readers is too.                                   *)
(***************************************************************************)
ResourceTables ==
    stage = "building" =>
        \A r \in Resources, m \in nodes :
            /\ Writes(m, r) => writer[r] # NoNode /\ Reaches(m, writer[r])
            /\ Accesses(m, r) => \/ m \in readers[r]
                                 \/ writer[r] # NoNode /\ Reaches(m, writer[r])

ConflictInv == TypeOK /\ ResourceTables /\ ConflictOrdered

LEMMA InitConflict == Init => ResourceTables /\ ConflictOrdered
BY DEF Init, ResourceTables, ConflictOrdered

\* Old nodes keep their conflicts and their order when a node is registered.
LEMMA OldConflictsKept ==
    ASSUME ConflictInv, NEW p \in Phases, NEW k \in {"task", "condition", "gate", "barrier"},
           NEW acc \in [Resources -> Access], Registers(p, k, acc)
    PROVE  \A m, n \in nodes : m < n /\ Conflict(m, n)' => Reaches(m, n)'
<1> SUFFICES ASSUME NEW m \in nodes, NEW n \in nodes, m < n, Conflict(m, n)'
             PROVE  Reaches(m, n)'
  OBVIOUS
<1>1. access'[m] = access[m] /\ access'[n] = access[n]
  BY NewNode DEF ConflictInv, Registers
<1>2. Conflict(m, n)
  BY <1>1 DEF Conflict, Accesses, Writes
<1>3. Reaches(m, n)
  BY <1>2 DEF ConflictInv, ConflictOrdered
<1> QED BY <1>3, ReachesKept DEF Registers

\* A node that declares no resources conflicts with nothing.
LEMMA PlainNodeConflict ==
    ASSUME ConflictInv, NEW p \in Phases, NEW k \in {"task", "condition", "gate", "barrier"},
           Registers(p, k, NoAccess), UNCHANGED <<writer, readers>>
    PROVE  ResourceTables' /\ ConflictOrdered'
<1> PICK n : n = next_node_id
  OBVIOUS
<1> USE NoAccessType
<1>1. /\ nodes' = nodes \cup {n} /\ n \notin nodes
      /\ access'[n] = NoAccess
      /\ \A m \in nodes : access'[m] = access[m] /\ m < n /\ m \in Nat
      /\ n \in Nat
  BY NewNode DEF ConflictInv, Registers, Ids
<1>2. \A r \in Resources : ~Accesses(n, r)' /\ ~Writes(n, r)'
  BY <1>1 DEF Accesses, Writes, NoAccess, isWriteAccess
<1>3. ResourceTables'
  <2> SUFFICES ASSUME NEW r \in Resources, NEW m \in nodes'
               PROVE  /\ Writes(m, r)' => writer'[r] # NoNode /\ Reaches(m, writer[r])'
                      /\ Accesses(m, r)' => \/ m \in readers'[r]
                                            \/ writer'[r] # NoNode /\ Reaches(m, writer[r])'
    BY DEF ResourceTables
  <2>1. CASE m = n
    BY <2>1, <1>2
  <2>2. CASE m \in nodes
    <3>1. stage = "building"
      BY DEF Registers, addNode
    <3>2. Writes(m, r)' = Writes(m, r) /\ Accesses(m, r)' = Accesses(m, r)
      BY <2>2, <1>1 DEF Writes, Accesses
    <3>3. Reaches(m, writer[r]) => Reaches(m, writer[r])'
      BY ReachesKept DEF Registers, Reaches
    <3> QED BY <2>2, <3>1, <3>2, <3>3 DEF ConflictInv, ResourceTables
  <2> QED BY <2>1, <2>2, <1>1
<1>4. ConflictOrdered'
  <2> SUFFICES ASSUME NEW m \in nodes', NEW i \in nodes', m < i, Conflict(m, i)'
               PROVE  Reaches(m, i)'
    BY DEF ConflictOrdered
  <2>1. m # n /\ i # n
    BY <1>2 DEF Conflict
  <2> QED BY <2>1, <1>1, OldConflictsKept
<1> QED BY <1>3, <1>4

\* A new system is ordered after every earlier system it conflicts with.
LEMMA NewSystemConflict ==
    ASSUME ConflictInv, NEW p \in Phases, NEW acc \in [Resources -> Access], SystemTask(p, acc)
    PROVE  ResourceTables' /\ ConflictOrdered'
<1> PICK n : n = next_node_id
  OBVIOUS
<1>0. Registers(p, "task", acc)
  BY SystemTaskRegisters
<1>1. /\ nodes' = nodes \cup {n} /\ n \notin nodes
      /\ access'[n] = acc
      /\ \A m \in nodes : access'[m] = access[m] /\ m < n /\ m \in Nat
      /\ n \in Nat /\ stage = "building"
  BY <1>0, NewNode DEF ConflictInv, Registers, Ids
<1>2. \A q \in prerequisites(acc) : Reaches(q, n)'
  <2> SUFFICES ASSUME NEW q \in prerequisites(acc) PROVE Reaches(q, n)'
    OBVIOUS
  <2>1. <<q, n>> \in Edges'
    BY DEF SystemTask, Edges
  <2> QED BY <2>1, PathEdge DEF Reaches
<1>3. ASSUME NEW m \in nodes, NEW r \in Resources, Accesses(m, r), acc[r] # "none",
             Writes(m, r) \/ isWriteAccess(acc[r])
      PROVE  Reaches(m, n)'
  <2>1. CASE writer[r] # NoNode /\ Reaches(m, writer[r])
    <3>1. writer[r] \in prerequisites(acc)
      BY <2>1, <1>3 DEF prerequisites
    <3>2. Path(Ids, Edges', m, writer[r])
      BY <2>1, <1>0, PathGrows DEF Reaches, Registers
    <3>3. Path(Ids, Edges', writer[r], n)
      BY <3>1, <1>2 DEF Reaches
    <3> QED BY <3>2, <3>3, PathTrans DEF Reaches
  <2>2. CASE m \in readers[r] /\ isWriteAccess(acc[r])
    <3>1. m \in prerequisites(acc)
      BY <2>2 DEF prerequisites
    <3> QED BY <3>1, <1>2
  <2> QED BY <1>1, <1>3, <2>1, <2>2 DEF ConflictInv, ResourceTables
<1>4. ConflictOrdered'
  <2> SUFFICES ASSUME NEW m \in nodes', NEW i \in nodes', m < i, Conflict(m, i)'
               PROVE  Reaches(m, i)'
    BY DEF ConflictOrdered
  <2>1. m \in nodes
    BY <1>1
  <2>2. CASE i \in nodes
    BY <2>1, <2>2, <1>0, OldConflictsKept
  <2>3. CASE i = n
    <3>1. PICK r \in Resources : /\ Accesses(m, r)' /\ Accesses(i, r)'
                                 /\ Writes(m, r)' \/ Writes(i, r)'
      BY DEF Conflict
    <3>2. /\ Accesses(m, r) /\ acc[r] # "none"
          /\ Writes(m, r) \/ isWriteAccess(acc[r])
      BY <2>1, <2>3, <3>1, <1>1 DEF Accesses, Writes
    <3> QED BY <2>1, <2>3, <3>2, <1>3
  <2> QED BY <2>2, <2>3, <1>1
<1>5. ResourceTables'
  <2> SUFFICES ASSUME NEW r \in Resources, NEW m \in nodes'
               PROVE  /\ Writes(m, r)' => writer'[r] # NoNode /\ Reaches(m, writer[r])'
                      /\ Accesses(m, r)' => \/ m \in readers'[r]
                                            \/ writer'[r] # NoNode /\ Reaches(m, writer[r])'
    BY DEF ResourceTables
  <2>1. /\ acc[r] \in Access
        /\ writer'[r] = IF isWriteAccess(acc[r]) THEN n ELSE writer[r]
        /\ acc[r] = "none" => readers'[r] = readers[r]
        /\ acc[r] = "read" => readers'[r] = readers[r] \cup {n}
        /\ acc[r] = "writeThenRead" => readers'[r] = {n}
    BY DEF SystemTask, updateResourceStates
  <2>2. CASE m = n
    <3>1. Reaches(n, n)'
      BY PathSelf DEF Reaches
    <3>2. Writes(n, r)' = isWriteAccess(acc[r]) /\ Accesses(n, r)' = (acc[r] # "none")
      BY <1>1 DEF Writes, Accesses
    <3>3. isWriteAccess(acc[r]) => writer'[r] = n /\ n # NoNode
      BY <2>1, <1>0, NewNode DEF ConflictInv, Registers, Ids, NoNode
    <3>4. isWriteAccess(acc[r]) => writer'[r] # NoNode /\ Reaches(n, writer[r])'
      BY <3>1, <3>3 DEF Reaches
    <3>5. acc[r] = "read" => n \in readers'[r]
      BY <2>1
    <3> QED BY <2>1, <2>2, <3>2, <3>4, <3>5 DEF Access, isWriteAccess
  <2>3. CASE m \in nodes
    <3>1. Writes(m, r)' = Writes(m, r) /\ Accesses(m, r)' = Accesses(m, r)
      BY <2>3, <1>1 DEF Writes, Accesses
    <3>2. Writes(m, r) => Accesses(m, r)
      BY DEF Writes, Accesses, isWriteAccess
    <3>3. CASE isWriteAccess(acc[r])
      <4>1. Accesses(m, r) => Reaches(m, n)'
        BY <2>3, <3>3, <1>3 DEF isWriteAccess
      <4>2. writer'[r] = n /\ n # NoNode
        BY <2>1, <3>3, <1>0, NewNode DEF ConflictInv, Registers, Ids, NoNode
      <4> QED BY <3>1, <3>2, <4>1, <4>2 DEF Reaches
    <3>4. CASE ~isWriteAccess(acc[r])
      <4>1. writer'[r] = writer[r] /\ readers[r] \subseteq readers'[r]
        BY <2>1, <3>4 DEF Access, isWriteAccess
      <4>2. Reaches(m, writer[r]) => Reaches(m, writer[r])'
        BY <4>1, <1>0, PathGrows DEF Reaches, Registers
      <4> QED BY <2>3, <3>1, <4>1, <4>2, <1>1 DEF ConflictInv, ResourceTables
    <3> QED BY <3>3, <3>4
  <2> QED BY <2>2, <2>3, <1>1
<1> QED BY <1>4, <1>5

\* Steps that add no node.
LEMMA KeptConflict ==
    ASSUME ConflictInv, UNCHANGED <<plan, meta>>, Edges \subseteq Edges'
    PROVE  ResourceTables' /\ ConflictOrdered'
<1> USE ReachesKept DEF plan, meta
<1>1. ResourceTables'
  <2>1. \A m, r : Writes(m, r)' = Writes(m, r) /\ Accesses(m, r)' = Accesses(m, r)
    BY DEF Writes, Accesses
  <2>2. \A m, r : Reaches(m, writer[r]) => Reaches(m, writer[r])'
    BY PathGrows DEF Reaches
  <2> QED BY <2>1, <2>2 DEF ConflictInv, ResourceTables
<1>2. ConflictOrdered'
  BY DEF ConflictInv, ConflictOrdered, Conflict, Writes, Accesses
<1> QED BY <1>1, <1>2

LEMMA NextConflict == ConflictInv /\ [Next]_vars => ResourceTables' /\ ConflictOrdered'
<1> SUFFICES ASSUME ConflictInv, [Next]_vars PROVE ResourceTables' /\ ConflictOrdered'
  OBVIOUS
<1>1. ASSUME NEW p \in Phases, NEW k \in TaskKinds, Task(p, k)
      PROVE  ResourceTables' /\ ConflictOrdered'
  <2>1. k \in {"task", "condition", "gate", "barrier"}
    BY FramePlanAssumption DEF FramePlanAssumption
  <2>2. UNCHANGED <<writer, readers>>
    BY <1>1 DEF Task
  <2> QED BY <1>1, <2>1, <2>2, TaskRegisters, PlainNodeConflict
<1>2. ASSUME NEW p \in Phases, NEW acc \in [Resources -> Access], SystemTask(p, acc)
      PROVE  ResourceTables' /\ ConflictOrdered'
  BY <1>2, NewSystemConflict
<1>3. ASSUME NEW p \in Phases, PhaseBarrier(p) PROVE ResourceTables' /\ ConflictOrdered'
  <2>1. UNCHANGED <<writer, readers>>
    BY <1>3 DEF PhaseBarrier
  <2> QED BY <1>3, <2>1, PhaseBarrierRegisters, PlainNodeConflict
<1>4. ASSUME NEW m \in nodes, NEW n \in nodes, Precede(m, n)
      PROVE  ResourceTables' /\ ConflictOrdered'
  BY <1>4, PrecedeKeeps, KeptConflict
<1>5. ASSUME NEW enabled \in AutoSettings, SetAutoPhaseBarriers(enabled)
      PROVE  ResourceTables' /\ ConflictOrdered'
  BY <1>5, SetAutoKeeps, KeptConflict
<1>6. CASE Clear
  BY <1>6 DEF Clear, ResourceTables, ConflictOrdered
<1>7. CASE Compile
  <2>1. ResourceTables'
    BY <1>7 DEF Compile, ResourceTables
  <2>2. ConflictOrdered'
    BY <1>7, CompileKeeps, ReachesKept
       DEF ConflictInv, ConflictOrdered, Conflict, Writes, Accesses
  <2> QED BY <2>1, <2>2
<1>8. CASE UNCHANGED vars
  BY <1>8, StutterKeeps, KeptConflict
<1> QED BY <1>1, <1>2, <1>3, <1>4, <1>5, <1>6, <1>7, <1>8 DEF Next

(***************************************************************************)
(* Systems that conflict on a resource are ordered by the graph in the     *)
(* order of their registration, although registerResourceAccesses only     *)
(* remembers the last writer and the readers since.                        *)
(***************************************************************************)
THEOREM ConflictsAreOrdered == Spec => []ConflictOrdered
<1>1. Init => ConflictInv
  BY InitTypeOK, InitConflict DEF ConflictInv
<1>2. ConflictInv /\ [Next]_vars => ConflictInv'
  BY NextTypeOK, NextConflict DEF ConflictInv
<1>3. ConflictInv => ConflictOrdered
  BY DEF ConflictInv
<1> QED BY <1>1, <1>2, <1>3, PTL DEF Spec

-----------------------------------------------------------------------------
(* Phases are ordered. *)

(***************************************************************************)
(* What the phase table remembers.  Every node of a phase is ordered       *)
(* before (or is) one of its tails; when the phases were built in order,   *)
(* every node of an earlier phase is ordered before one of the barrier     *)
(* sources, and every barrier source before every node of the phase.       *)
(***************************************************************************)
TailTable ==
    /\ \A m \in nodes : phaseOf[m] \in active
    /\ \A m \in nodes : \E t \in tail_nodes[phaseOf[m]] : Reaches(m, t)
    /\ \A p \in active : tail_nodes[p] # {}
    /\ \A p \in Phases : \A t \in tail_nodes[p] : phaseOf[t] = p

SourceTable ==
    BuiltInPhaseOrder =>
        \A p \in active :
            /\ \A m \in nodes :
                  phaseOf[m] < p => \E s \in barrier_sources[p] : Reaches(m, s)
            /\ \A m \in nodes :
                  phaseOf[m] = p => \A s \in barrier_sources[p] : Reaches(s, m)

PhaseTables == stage = "building" => TailTable /\ SourceTable

PhaseInv == TypeOK /\ PhaseTables /\ PhaseOrdered /\ BarrierJoinsPhase

LEMMA InitPhase == Init => PhaseTables /\ PhaseOrdered /\ BarrierJoinsPhase
BY DEF Init, PhaseTables, TailTable, SourceTable, PhaseOrdered, BarrierJoinsPhase

(***************************************************************************)
(* A registration in phase p: the new node either joins the tails of p     *)
(* behind the barrier sources, or takes the place of all of them.          *)
(***************************************************************************)
JoinsTails(p, n) ==
    /\ tail_nodes' = [tail_nodes EXCEPT ![p] = @ \cup {n}]
    /\ wireBarrierSources(p, n) \subseteq Edges'

ReplacesTails(p, n) ==
    /\ tail_nodes' = [tail_nodes EXCEPT ![p] = {n}]
    /\ tail_nodes[p] \X {n} \subseteq Edges'
    /\ tail_nodes[p] = {} => wireBarrierSources(p, n) \subseteq Edges'

LEMMA NewNodeTails ==
    ASSUME TypeOK, TypeOK', TailTable, NEW p \in Phases,
           NEW k \in {"task", "condition", "gate", "barrier"},
           NEW acc \in [Resources -> Access], Registers(p, k, acc), activatePhase(p),
           JoinsTails(p, next_node_id) \/ ReplacesTails(p, next_node_id)
    PROVE  TailTable'
<1> PICK n : n = next_node_id
  OBVIOUS
<1>1. /\ nodes' = nodes \cup {n} /\ n \notin nodes
      /\ phaseOf'[n] = p /\ \A m \in nodes : phaseOf'[m] = phaseOf[m]
  BY NewNode DEF Registers
<1>2. active' = active \cup {p}
  BY DEF activatePhase
<1>3. /\ tail_nodes \in [Phases -> SUBSET nodes] /\ phaseOf \in [Ids -> Phases]
      /\ nodes \subseteq Ids /\ active \subseteq Phases
  BY FramePlanAssumption DEF TypeOK, Ids, FramePlanAssumption
<1>4. /\ n \in tail_nodes'[p]
      /\ \A q \in Phases \ {p} : tail_nodes'[q] = tail_nodes[q]
      /\ tail_nodes'[p] \subseteq tail_nodes[p] \cup {n}
  BY <1>3 DEF JoinsTails, ReplacesTails
<1>5. \A m \in nodes' : phaseOf'[m] \in active'
  BY <1>1, <1>2 DEF TailTable
<1>6. \A q \in active' : tail_nodes'[q] # {}
  BY <1>2, <1>3, <1>4 DEF TailTable
<1>7. \A q \in Phases : \A t \in tail_nodes'[q] : phaseOf'[t] = q
  BY <1>1, <1>3, <1>4 DEF TailTable
<1>8. ASSUME NEW m \in nodes' PROVE \E t \in tail_nodes'[phaseOf'[m]] : Path(Ids, Edges', m, t)
  <2>1. CASE m = n
    BY <2>1, <1>1, <1>4, PathSelf
  <2>2. CASE m \in nodes
    <3>1. phaseOf'[m] = phaseOf[m] /\ phaseOf[m] \in Phases
      BY <2>2, <1>1, <1>3
    <3>2. PICK t \in tail_nodes[phaseOf[m]] : Path(Ids, Edges, m, t)
      BY <2>2 DEF TailTable, Reaches
    <3>3. Path(Ids, Edges', m, t)
      BY <3>2, PathGrows DEF Registers
    <3>4. CASE t \in tail_nodes'[phaseOf[m]]
      BY <3>1, <3>3, <3>4
    <3>5. CASE t \notin tail_nodes'[phaseOf[m]]
      <4>1. phaseOf[m] = p
        BY <3>1, <3>2, <3>5, <1>4
      <4>2. <<t, n>> \in Edges'
        BY <3>2, <3>5, <4>1, <1>3 DEF JoinsTails, ReplacesTails
      <4> QED BY <3>1, <3>3, <4>1, <4>2, <1>4, PathEdge, PathTrans
    <3> QED BY <3>4, <3>5
  <2> QED BY <2>1, <2>2, <1>1
<1> QED BY <1>5, <1>6, <1>7, <1>8 DEF TailTable, Reaches

\* In a plan built in order, the phase of the last node is the last active one.
LEMMA LastPhase ==
    ASSUME TypeOK, TailTable, BuiltInPhaseOrder, stage = "building",
           NEW q \in active
    PROVE  /\ next_node_id - 1 \in nodes
           /\ q <= phaseOf[next_node_id - 1]
<1>1. PICK t \in tail_nodes[q] : phaseOf[t] = q
  BY DEF TailTable, TypeOK
<1>2. t \in nodes /\ nodes = 1 .. next_node_id - 1 /\ next_node_id \in Nat
  BY <1>1, FramePlanAssumption DEF TypeOK, FramePlanAssumption
<1>3. next_node_id - 1 \in nodes /\ t <= next_node_id - 1 /\ t \in Nat
  BY <1>2
<1>4. \A m \in nodes : phaseOf[m] \in Nat
  BY <1>2, FramePlanAssumption DEF TypeOK, Ids, Phases, FramePlanAssumption
<1>5. t < next_node_id - 1 => phaseOf[t] <= phaseOf[next_node_id - 1]
  BY <1>2, <1>3 DEF BuiltInPhaseOrder
<1> QED BY <1>1, <1>2, <1>3, <1>4, <1>5

\* The barrier sources phase p has, or gets when it is used for the first time.
LEMMA SourcesOrder ==
    ASSUME TypeOK, TailTable, SourceTable, BuiltInPhaseOrder, stage = "building",
           NEW p \in Phases, \A m \in nodes : phaseOf[m] <= p
    PROVE  /\ \A m \in nodes :
                 phaseOf[m] < p => \E s \in sourcesOf(p) : Reaches(m, s)
           /\ \A m \in nodes :
                 phaseOf[m] = p => \A s \in sourcesOf(p) : Reaches(s, m)
<1>1. CASE p \in active
  BY <1>1 DEF sourcesOf, SourceTable
<1>2. CASE p \notin active
  <2>1. \A m \in nodes : phaseOf[m] # p
    BY <1>2 DEF TailTable
  <2>2. ASSUME NEW m \in nodes, phaseOf[m] < p
        PROVE  \E s \in sourcesOf(p) : Reaches(m, s)
    <3>1. PICK q : q = phaseOf[next_node_id - 1]
      OBVIOUS
    <3>2. phaseOf[m] \in active
      BY DEF TailTable
    <3>3. next_node_id - 1 \in nodes
      BY <3>2, LastPhase
    <3>4. q \in active /\ q # p /\ q <= p /\ tail_nodes[q] # {}
      BY <3>1, <3>3, <1>2 DEF TailTable
    <3>5. q \in Nat /\ p \in Nat /\ active \subseteq Nat
      BY <3>4, FramePlanAssumption DEF TypeOK, Phases, FramePlanAssumption
    <3>6. \A r \in active : r <= q
      BY <3>1, LastPhase
    <3>7. tail_nodes[q] \subseteq sourcesOf(p)
      BY <3>4, <3>5, <3>6, <1>2 DEF sourcesOf, collectPreviousPhaseTails
    <3>8. CASE phaseOf[m] = q
      BY <3>7, <3>8 DEF TailTable
    <3>9. CASE phaseOf[m] < q
      <4>1. PICK s \in barrier_sources[q] : Reaches(m, s)
        BY <3>4, <3>9 DEF SourceTable
      <4>2. PICK t \in tail_nodes[q] : phaseOf[t] = q
        BY <3>4 DEF TailTable, TypeOK
      <4>3. t \in nodes
        BY <3>4, <4>2 DEF TypeOK
      <4>4. Reaches(s, t)
        BY <3>4, <4>1, <4>2, <4>3 DEF SourceTable
      <4> QED BY <3>7, <4>1, <4>2, <4>4, PathTrans DEF Reaches
    <3>10. phaseOf[m] <= q /\ phaseOf[m] \in Nat
      BY <3>2, <3>5, <3>6
    <3> QED BY <3>5, <3>8, <3>9, <3>10
  <2> QED BY <2>1, <2>2
<1> QED BY <1>1, <1>2

LEMMA NewNodeSources ==
    ASSUME TypeOK, TypeOK', TailTable, SourceTable, NEW p \in Phases,
           NEW k \in {"task", "condition", "gate", "barrier"},
           NEW acc \in [Resources -> Access], Registers(p, k, acc), activatePhase(p),
           JoinsTails(p, next_node_id) \/ ReplacesTails(p, next_node_id)
    PROVE  SourceTable'
<1> PICK n : n = next_node_id
  OBVIOUS
<1> SUFFICES ASSUME BuiltInPhaseOrder', NEW q \in active', NEW m \in nodes'
             PROVE  /\ phaseOf'[m] < q => \E s \in barrier_sources'[q] : Path(Ids, Edges', m, s)
                    /\ phaseOf'[m] = q => \A s \in barrier_sources'[q] : Path(Ids, Edges', s, m)
  BY DEF SourceTable, Reaches
<1>1. /\ nodes' = nodes \cup {n} /\ n \notin nodes /\ n \in Nat
      /\ phaseOf'[n] = p /\ \A i \in nodes : phaseOf'[i] = phaseOf[i] /\ i < n /\ i \in Nat
      /\ stage = "building"
  BY NewNode DEF Registers, Ids
<1>2. /\ auto_phase_barriers = TRUE
      /\ BuiltInPhaseOrder
  <2>1. n \in wired' /\ wired' = nodes'
    BY <1>1 DEF BuiltInPhaseOrder
  <2>2. wired \subseteq nodes /\ auto_phase_barriers \in BOOLEAN
    BY DEF TypeOK
  <2>3. wired' = IF auto_phase_barriers THEN wired \cup {n} ELSE wired
    BY DEF Registers, addNode
  <2>4. auto_phase_barriers = TRUE /\ wired = nodes
    BY <2>1, <2>2, <2>3, <1>1
  <2>5. \A i, j \in nodes : i < j => phaseOf[i] <= phaseOf[j]
    BY <1>1 DEF BuiltInPhaseOrder
  <2> QED BY <2>4, <2>5 DEF BuiltInPhaseOrder
<1>3. \A i \in nodes : phaseOf[i] <= p
  BY <1>1 DEF BuiltInPhaseOrder
<1>4. /\ tail_nodes \in [Phases -> SUBSET nodes] /\ active \subseteq Phases /\ Phases \subseteq Nat
      /\ barrier_sources \in [Phases -> SUBSET nodes] /\ phaseOf' \in [Ids -> Phases]
      /\ nodes' \subseteq Ids
  <2>1. Phases \subseteq Nat
    BY FramePlanAssumption DEF Phases, FramePlanAssumption
  <2>2. nodes' \subseteq Ids
    BY NewNode, FramePlanAssumption DEF Registers, Ids, FramePlanAssumption
  <2> QED BY <2>1, <2>2 DEF TypeOK
<1>5. \A i, j : Path(Ids, Edges, i, j) => Path(Ids, Edges', i, j)
  BY PathGrows DEF Registers
<1>6. active' = active \cup {p}
  BY DEF activatePhase
<1>7. CASE q # p
  <2>1. q \in active /\ barrier_sources'[q] = barrier_sources[q]
    BY <1>4, <1>6, <1>7 DEF activatePhase
  <2>2. PICK t \in tail_nodes[q] : phaseOf[t] = q
    BY <2>1, <1>4 DEF TailTable
  <2>3. t \in nodes
    BY <2>1, <2>2, <1>4
  <2>4. q < p
    <3>1. q \in Nat /\ p \in Nat
      BY <2>1, <1>4
    <3> QED BY <2>2, <2>3, <1>3, <1>7, <3>1
  <2>5. CASE m = n
    <3>1. phaseOf'[m] = p /\ p \in Nat /\ q \in Nat
      BY <2>1, <2>5, <1>1, <1>4
    <3>2. ~(phaseOf'[m] < q) /\ phaseOf'[m] # q
      BY <2>4, <3>1
    <3> QED BY <3>2
  <2>6. CASE m \in nodes
    <3>1. phaseOf'[m] = phaseOf[m]
      BY <2>6, <1>1
    <3>2. /\ phaseOf[m] < q => \E s \in barrier_sources[q] : Path(Ids, Edges, m, s)
          /\ phaseOf[m] = q => \A s \in barrier_sources[q] : Path(Ids, Edges, s, m)
      BY <2>1, <2>6, <1>2 DEF SourceTable, Reaches
    <3> QED BY <2>1, <3>1, <3>2, <1>5
  <2> QED BY <2>5, <2>6, <1>1
<1>8. CASE q = p
  <2>1. barrier_sources'[q] = sourcesOf(p)
    BY <1>4, <1>8 DEF activatePhase
  <2>2. CASE m \in nodes
    <3>1. /\ phaseOf[m] < p => \E s \in sourcesOf(p) : Reaches(m, s)
          /\ phaseOf[m] = p => \A s \in sourcesOf(p) : Reaches(s, m)
      BY <2>2, <1>1, <1>2, <1>3, SourcesOrder
    <3> QED BY <2>1, <2>2, <3>1, <1>1, <1>5, <1>8 DEF Reaches
  <2>3. CASE m = n
    <3>1. ~(phaseOf'[m] < q)
      BY <2>3, <1>1, <1>4, <1>8
    <3>2. ASSUME NEW s \in sourcesOf(p) PROVE Path(Ids, Edges', s, n)
      <4>1. wireBarrierSources(p, n) = sourcesOf(p) \X {n}
        BY <1>2 DEF wireBarrierSources
      <4>2. CASE <<s, n>> \in Edges'
        BY <4>2, PathEdge
      <4>3. CASE ReplacesTails(p, n) /\ tail_nodes[p] # {}
        <5>1. PICK t \in tail_nodes[p] : phaseOf[t] = p
          BY <4>3 DEF TailTable
        <5>2. t \in nodes
          BY <5>1, <1>4
        <5>3. Reaches(s, t)
          BY <5>1, <5>2, <1>1, <1>2, <1>3, SourcesOrder
        <5>4. <<t, n>> \in Edges'
          BY <4>3, <5>1 DEF ReplacesTails
        <5> QED BY <5>3, <5>4, <1>5, PathEdge, PathTrans DEF Reaches
      <4> QED BY <4>1, <4>2, <4>3 DEF JoinsTails, ReplacesTails
    <3> QED BY <2>1, <2>3, <3>1, <3>2
  <2> QED BY <2>2, <2>3, <1>1
<1> QED BY <1>7, <1>8

\* A registration of either form keeps the phase invariants.
LEMMA NewNodePhase ==
    ASSUME PhaseInv, TypeOK', NEW p \in Phases,
           NEW k \in {"task", "condition", "gate", "barrier"},
           NEW acc \in [Resources -> Access], Registers(p, k, acc), activatePhase(p),
           \/ k # "barrier" /\ JoinsTails(p, next_node_id)
           \/ ReplacesTails(p, next_node_id)
    PROVE  PhaseTables' /\ PhaseOrdered' /\ BarrierJoinsPhase'
<1> PICK n : n = next_node_id
  OBVIOUS
<1>1. /\ nodes' = nodes \cup {n} /\ n \notin nodes /\ n \in Nat
      /\ phaseOf'[n] = p /\ kind'[n] = k
      /\ \A i \in nodes : /\ phaseOf'[i] = phaseOf[i] /\ kind'[i] = kind[i]
                          /\ i < n /\ i \in Nat
      /\ stage = "building" /\ stage' = "building"
  BY NewNode DEF PhaseInv, Registers, Ids
<1>2. TailTable /\ SourceTable
  BY <1>1 DEF PhaseInv, PhaseTables
<1>3. PhaseTables'
  BY <1>2, NewNodeTails, NewNodeSources DEF PhaseInv, PhaseTables
<1>4. PhaseOrdered'
  <2> SUFFICES ASSUME BuiltInPhaseOrder', NEW m \in nodes', NEW i \in nodes',
                      phaseOf'[m] < phaseOf'[i]
               PROVE  Path(Ids, Edges', m, i)
    BY DEF PhaseOrdered, Reaches
  <2>1. phaseOf'[i] \in active'
    BY <1>1, <1>3 DEF PhaseTables, TailTable
  <2>2. PICK s \in barrier_sources'[phaseOf'[i]] : Path(Ids, Edges', m, s)
    BY <1>1, <1>3, <2>1 DEF PhaseTables, SourceTable, Reaches
  <2>3. Path(Ids, Edges', s, i)
    BY <1>1, <1>3, <2>1, <2>2 DEF PhaseTables, SourceTable, Reaches
  <2> QED BY <2>2, <2>3, PathTrans
<1>5. BarrierJoinsPhase'
  <2> SUFFICES ASSUME NEW m \in nodes', NEW i \in nodes', m < i,
                      kind'[i] = "barrier", phaseOf'[m] = phaseOf'[i]
               PROVE  Path(Ids, Edges', m, i)
    BY DEF BarrierJoinsPhase, Reaches
  <2>1. m \in nodes
    BY <1>1
  <2>2. CASE i \in nodes
    BY <2>1, <2>2, <1>1, PathGrows DEF PhaseInv, BarrierJoinsPhase, Reaches, Registers
  <2>3. CASE i = n
    <3>1. k = "barrier" /\ phaseOf[m] = p
      BY <2>1, <2>3, <1>1
    <3>2. PICK t \in tail_nodes[p] : Path(Ids, Edges, m, t)
      BY <2>1, <3>1, <1>2 DEF TailTable, Reaches
    <3>3. <<t, n>> \in Edges'
      BY <3>1, <3>2 DEF ReplacesTails
    <3> QED BY <2>3, <3>2, <3>3, PathGrows, PathEdge, PathTrans DEF Registers
  <2> QED BY <2>2, <2>3, <1>1
<1> QED BY <1>3, <1>4, <1>5

\* Steps that add no node.
LEMMA KeptPhase ==
    ASSUME PhaseInv, UNCHANGED <<plan, meta, wired>>, Edges \subseteq Edges'
    PROVE  PhaseTables' /\ PhaseOrdered' /\ BarrierJoinsPhase'
<1> USE DEF plan, meta
<1>1. \A i, j : Path(Ids, Edges, i, j) => Path(Ids, Edges', i, j)
  BY PathGrows
<1>2. BuiltInPhaseOrder' = BuiltInPhaseOrder
  BY DEF BuiltInPhaseOrder
<1>3. TailTable => TailTable'
  BY <1>1 DEF TailTable, Reaches
<1>4. SourceTable => SourceTable'
  BY <1>1, <1>2 DEF SourceTable, Reaches
<1>5. PhaseOrdered'
  BY <1>1, <1>2 DEF PhaseInv, PhaseOrdered, Reaches
<1>6. BarrierJoinsPhase'
  BY <1>1 DEF PhaseInv, BarrierJoinsPhase, Reaches
<1> QED BY <1>3, <1>4, <1>5, <1>6 DEF PhaseInv, PhaseTables

LEMMA NextPhase ==
    PhaseInv /\ TypeOK' /\ [Next]_vars => PhaseTables' /\ PhaseOrdered' /\ BarrierJoinsPhase'
<1> SUFFICES ASSUME PhaseInv, TypeOK', [Next]_vars
             PROVE  PhaseTables' /\ PhaseOrdered' /\ BarrierJoinsPhase'
  OBVIOUS
<1> USE NoAccessType
<1>1. ASSUME NEW p \in Phases, NEW k \in TaskKinds, Task(p, k)
      PROVE  PhaseTables' /\ PhaseOrdered' /\ BarrierJoinsPhase'
  <2>1. k \in {"task", "condition", "gate", "barrier"} /\ k # "barrier"
    BY FramePlanAssumption DEF FramePlanAssumption
  <2>2. activatePhase(p) /\ JoinsTails(p, next_node_id)
    BY <1>1 DEF Task, registerPhaseNode, JoinsTails, Edges
  <2> QED BY <1>1, <2>1, <2>2, TaskRegisters, NewNodePhase
<1>2. ASSUME NEW p \in Phases, NEW acc \in [Resources -> Access], SystemTask(p, acc)
      PROVE  PhaseTables' /\ PhaseOrdered' /\ BarrierJoinsPhase'
  <2>1. activatePhase(p) /\ JoinsTails(p, next_node_id)
    BY <1>2 DEF SystemTask, registerPhaseNode, JoinsTails, Edges
  <2> QED BY <1>2, <2>1, SystemTaskRegisters, NewNodePhase
<1>3. ASSUME NEW p \in Phases, PhaseBarrier(p)
      PROVE  PhaseTables' /\ PhaseOrdered' /\ BarrierJoinsPhase'
  <2>1. activatePhase(p) /\ ReplacesTails(p, next_node_id)
    BY <1>3 DEF PhaseBarrier, ReplacesTails, Edges
  <2> QED BY <1>3, <2>1, PhaseBarrierRegisters, NewNodePhase
<1>4. ASSUME NEW m \in nodes, NEW n \in nodes, Precede(m, n)
      PROVE  PhaseTables' /\ PhaseOrdered' /\ BarrierJoinsPhase'
  BY <1>4, PrecedeKeeps, KeptPhase
<1>5. ASSUME NEW enabled \in AutoSettings, SetAutoPhaseBarriers(enabled)
      PROVE  PhaseTables' /\ PhaseOrdered' /\ BarrierJoinsPhase'
  BY <1>5, SetAutoKeeps, KeptPhase
<1>6. CASE Clear
  BY <1>6 DEF Clear, PhaseTables, PhaseOrdered, BarrierJoinsPhase
<1>7. CASE Compile
  <2>1. PhaseTables'
    BY <1>7 DEF Compile, PhaseTables
  <2>2. \A i, j : Path(Ids, Edges, i, j) => Path(Ids, Edges', i, j)
    BY <1>7, CompileKeeps, PathGrows
  <2>3. BuiltInPhaseOrder' = BuiltInPhaseOrder
    BY <1>7, CompileKeeps DEF BuiltInPhaseOrder
  <2>4. PhaseOrdered'
    BY <1>7, CompileKeeps, <2>2, <2>3 DEF PhaseInv, PhaseOrdered, Reaches
  <2>5. BarrierJoinsPhase'
    BY <1>7, CompileKeeps, <2>2 DEF PhaseInv, BarrierJoinsPhase, Reaches
  <2> QED BY <2>1, <2>4, <2>5
<1>8. CASE UNCHANGED vars
  BY <1>8, StutterKeeps, KeptPhase
<1> QED BY <1>1, <1>2, <1>3, <1>4, <1>5, <1>6, <1>7, <1>8 DEF Next

LEMMA PhaseInvariant == Spec => []PhaseInv
<1>1. Init => PhaseInv
  BY InitTypeOK, InitPhase DEF PhaseInv
<1>2. PhaseInv /\ [Next]_vars => PhaseInv'
  BY NextTypeOK, NextPhase DEF PhaseInv
<1> QED BY <1>1, <1>2, PTL DEF Spec

(***************************************************************************)
(* When the phases are built in order with auto barriers on, the graph     *)
(* orders every node of a phase before every node of a later phase,        *)
(* although a phase is only wired to the tails of the one before it.       *)
(***************************************************************************)
THEOREM PhasesAreOrdered == Spec => []PhaseOrdered
<1>1. PhaseInv => PhaseOrdered
  BY DEF PhaseInv
<1> QED BY <1>1, PhaseInvariant, PTL

(***************************************************************************)
(* A phase barrier is ordered after every node its phase had before it,    *)
(* whatever the setting of the auto barriers.                              *)
(***************************************************************************)
THEOREM BarriersJoin == Spec => []BarrierJoinsPhase
<1>1. PhaseInv => BarrierJoinsPhase
  BY DEF PhaseInv
<1> QED BY <1>1, PhaseInvariant, PTL

-----------------------------------------------------------------------------
(* No automatic cycle. *)

AutoEdgesForward == \A e \in autoEdges : e[1] < e[2]

LEMMA NextForward == TypeOK /\ AutoEdgesForward /\ [Next]_vars => AutoEdgesForward'
<1> SUFFICES ASSUME TypeOK, AutoEdgesForward, [Next]_vars PROVE AutoEdgesForward'
  OBVIOUS
<1> USE NoAccessType DEF AutoEdgesForward
<1>1. ASSUME NEW p \in Phases, NEW k \in TaskKinds, Task(p, k) PROVE AutoEdgesForward'
  <2>1. \A m \in nodes : m < next_node_id
    BY <1>1, FramePlanAssumption, TaskRegisters, NewNode DEF Registers, FramePlanAssumption
  <2> QED BY <1>1, <2>1, SourcesAreNodes DEF Task
<1>2. ASSUME NEW p \in Phases, NEW acc \in [Resources -> Access], SystemTask(p, acc)
      PROVE  AutoEdgesForward'
  <2>1. \A m \in nodes : m < next_node_id
    BY <1>2, SystemTaskRegisters, NewNode DEF Registers
  <2> QED BY <1>2, <2>1, SourcesAreNodes, PrerequisitesAreNodes DEF SystemTask
<1>3. ASSUME NEW p \in Phases, PhaseBarrier(p) PROVE AutoEdgesForward'
  <2>1. \A m \in nodes : m < next_node_id
    BY <1>3, PhaseBarrierRegisters, NewNode DEF Registers
  <2>2. tail_nodes[p] \subseteq nodes
    BY DEF TypeOK
  <2> QED BY <1>3, <2>1, <2>2, SourcesAreNodes DEF PhaseBarrier
<1>4. CASE UNCHANGED autoEdges
  BY <1>4
<1>5. CASE Clear
  BY <1>5 DEF Clear
<1> QED BY <1>1, <1>2, <1>3, <1>4, <1>5
     DEF Next, Precede, SetAutoPhaseBarriers, Compile, vars

(***************************************************************************)
(* Unless the caller's own edges run backwards, no edge of the graph has a *)
(* way back: the executor always finds a node without predecessors.        *)
(***************************************************************************)
THEOREM AutomaticEdgesAcyclic == Spec => []NoAutomaticCycle
<1>1. Init => TypeOK /\ AutoEdgesForward
  BY InitTypeOK DEF Init, AutoEdgesForward
<1>2. TypeOK /\ AutoEdgesForward /\ [Next]_vars => TypeOK' /\ AutoEdgesForward'
  BY NextTypeOK, NextForward
<1>3. TypeOK /\ AutoEdgesForward => NoAutomaticCycle
  <2> SUFFICES ASSUME TypeOK, AutoEdgesForward, \A e \in userEdges : e[1] < e[2],
                      NEW e \in Edges, Reaches(e[2], e[1])
               PROVE  FALSE
    BY DEF NoAutomaticCycle
  <2>1. \A f \in Edges : f[1] < f[2]
    BY DEF Edges, AutoEdgesForward
  <2>2. Edges \subseteq nodes \X nodes
    BY DEF Edges, TypeOK
  <2>3. nodes \subseteq Ids /\ Ids \subseteq Nat
    BY FramePlanAssumption DEF TypeOK, Ids, FramePlanAssumption
  <2>4. Edges \in SUBSET (Ids \X Ids) /\ Ids \in SUBSET Nat /\ e[1] \in Ids /\ e[2] \in Ids
    BY <2>2, <2>3
  <2>5. e[2] <= e[1]
    BY <2>1, <2>4, PathUp DEF Reaches
  <2>6. e[1] < e[2] /\ e[1] \in Nat /\ e[2] \in Nat
    BY <2>1, <2>3, <2>4
  <2> QED BY <2>5, <2>6
<1> QED BY <1>1, <1>2, <1>3, PTL DEF Spec

-----------------------------------------------------------------------------
(* No spurious edge. *)

(***************************************************************************)
(* Nobody enters a table who does not belong there: the tails of a phase   *)
(* are of the phase, its barrier sources are of earlier ones, the writer   *)
(* of a resource writes it and its readers access it.                      *)
(***************************************************************************)
EdgeTables ==
    /\ \A p \in Phases : \A t \in tail_nodes[p] : phaseOf[t] = p
    /\ \A p \in Phases : \A s \in barrier_sources[p] : phaseOf[s] < p
    /\ \A r \in Resources : writer[r] # NoNode => Writes(writer[r], r)
    /\ \A r \in Resources : \A m \in readers[r] : Accesses(m, r)

JustifiedEdge(e) ==
    \/ phaseOf[e[1]] < phaseOf[e[2]]
    \/ phaseOf[e[1]] = phaseOf[e[2]] /\ kind[e[2]] = "barrier"
    \/ Conflict(e[1], e[2])

LEMMA NewEdgesJustified ==
    ASSUME TypeOK, EdgeTables, NoSpuriousEdge, NEW p \in Phases,
           NEW k \in {"task", "condition", "gate", "barrier"},
           NEW acc \in [Resources -> Access], addNode(p, k, acc),
           \A e \in autoEdges' : \/ e \in autoEdges
                                 \/ e \in sourcesOf(p) \X {next_node_id}
                                 \/ e \in prerequisites(acc) \X {next_node_id}
                                 \/ k = "barrier" /\ e \in tail_nodes[p] \X {next_node_id}
    PROVE  NoSpuriousEdge'
<1> PICK n : n = next_node_id
  OBVIOUS
<1>1. /\ n \notin nodes /\ phaseOf'[n] = p /\ kind'[n] = k /\ access'[n] = acc
      /\ \A m \in nodes : /\ phaseOf'[m] = phaseOf[m] /\ kind'[m] = kind[m]
                          /\ access'[m] = access[m]
  BY NewNode
<1>2. sourcesOf(p) \subseteq nodes /\ prerequisites(acc) \subseteq nodes
      /\ tail_nodes[p] \subseteq nodes
  BY SourcesAreNodes, PrerequisitesAreNodes DEF TypeOK
<1> SUFFICES ASSUME NEW e \in autoEdges' PROVE JustifiedEdge(e)'
  BY DEF NoSpuriousEdge, JustifiedEdge
<1>3. CASE e \in autoEdges
  <2>1. e[1] \in nodes /\ e[2] \in nodes
    BY <1>3 DEF TypeOK
  <2>2. JustifiedEdge(e)
    BY <1>3 DEF NoSpuriousEdge, JustifiedEdge
  <2> QED BY <1>1, <2>1, <2>2 DEF JustifiedEdge, Conflict, Accesses, Writes
<1>4. CASE e \in sourcesOf(p) \X {n}
  <2>1. e[1] \in sourcesOf(p) /\ e[2] = n /\ e[1] \in nodes
    BY <1>2, <1>4
  <2>2. phaseOf[e[1]] < p
    BY <2>1 DEF EdgeTables, TypeOK, sourcesOf, collectPreviousPhaseTails
  <2> QED BY <1>1, <2>1, <2>2 DEF JustifiedEdge
<1>5. CASE e \in prerequisites(acc) \X {n}
  <2>1. e[1] \in prerequisites(acc) /\ e[2] = n /\ e[1] \in nodes
    BY <1>2, <1>5
  <2>2. \E r \in Resources : /\ Accesses(e[1], r) /\ acc[r] # "none"
                             /\ Writes(e[1], r) \/ isWriteAccess(acc[r])
    BY <2>1 DEF EdgeTables, prerequisites, Accesses, Writes, isWriteAccess
  <2> QED BY <1>1, <2>1, <2>2 DEF JustifiedEdge, Conflict, Accesses, Writes
<1>6. CASE k = "barrier" /\ e \in tail_nodes[p] \X {n}
  <2>1. e[1] \in tail_nodes[p] /\ e[2] = n /\ e[1] \in nodes
    BY <1>2, <1>6
  <2> QED BY <1>1, <1>6, <2>1 DEF JustifiedEdge, EdgeTables
<1> QED BY <1>3, <1>4, <1>5, <1>6

LEMMA NewNodeEdgeTables ==
    ASSUME TypeOK, EdgeTables, NEW p \in Phases,
           NEW k \in {"task", "condition", "gate", "barrier"},
           NEW acc \in [Resources -> Access], addNode(p, k, acc), activatePhase(p),
           \/ tail_nodes' = [tail_nodes EXCEPT ![p] = @ \cup {next_node_id}]
           \/ tail_nodes' = [tail_nodes EXCEPT ![p] = {next_node_id}],
           \/ UNCHANGED <<writer, readers>>
           \/ updateResourceStates(next_node_id, acc)
    PROVE  EdgeTables'
<1> PICK n : n = next_node_id
  OBVIOUS
<1>1. /\ n \notin nodes /\ n # NoNode /\ phaseOf'[n] = p /\ access'[n] = acc
      /\ \A m \in nodes : phaseOf'[m] = phaseOf[m] /\ access'[m] = access[m]
  BY NewNode DEF Ids, NoNode
<1>2. \A q \in Phases : \A t \in tail_nodes'[q] : phaseOf'[t] = q
  <2>1. tail_nodes \in [Phases -> SUBSET nodes]
    BY DEF TypeOK
  <2>2. \A q \in Phases : \A t \in tail_nodes[q] : t \in nodes /\ phaseOf[t] = q
    BY <2>1 DEF EdgeTables
  <2>3. \A q \in Phases : \A t \in tail_nodes'[q] : t \in tail_nodes[q] \/ (t = n /\ q = p)
    BY <2>1
  <2> QED BY <1>1, <2>2, <2>3
<1>3. \A q \in Phases : \A s \in barrier_sources'[q] : phaseOf'[s] < q
  <2>1. sourcesOf(p) \subseteq nodes /\ \A s \in sourcesOf(p) : phaseOf[s] < p
    BY SourcesAreNodes DEF EdgeTables, TypeOK, sourcesOf, collectPreviousPhaseTails
  <2>2. barrier_sources' = [barrier_sources EXCEPT ![p] = sourcesOf(p)]
    BY DEF activatePhase
  <2> QED BY <1>1, <2>1, <2>2 DEF EdgeTables, TypeOK
<1>4. ASSUME NEW r \in Resources
      PROVE  /\ writer'[r] # NoNode => isWriteAccess(access'[writer'[r]][r])
             /\ \A m \in readers'[r] : access'[m][r] # "none"
  <2>1. /\ writer[r] # NoNode => writer[r] \in nodes /\ isWriteAccess(access[writer[r]][r])
        /\ \A m \in readers[r] : m \in nodes /\ access[m][r] # "none"
    BY DEF EdgeTables, TypeOK, Writes, Accesses
  <2>2. /\ writer[r] # NoNode => isWriteAccess(access'[writer[r]][r])
        /\ \A m \in readers[r] : access'[m][r] # "none"
    BY <1>1, <2>1
  <2>3. CASE UNCHANGED <<writer, readers>>
    BY <2>2, <2>3
  <2>4. CASE updateResourceStates(n, acc)
    <3>1. /\ writer'[r] = IF isWriteAccess(acc[r]) THEN n ELSE writer[r]
          /\ acc[r] = "none" => readers'[r] = readers[r]
          /\ acc[r] = "read" => readers'[r] = readers[r] \cup {n}
          /\ acc[r] = "write" => readers'[r] = {}
          /\ acc[r] = "writeThenRead" => readers'[r] = {n}
          /\ acc[r] \in Access
      BY <2>4 DEF updateResourceStates
    <3> QED BY <1>1, <2>2, <3>1 DEF Access
  <2> QED BY <2>3, <2>4
<1> QED BY <1>2, <1>3, <1>4 DEF EdgeTables, Writes, Accesses

LEMMA KeptEdgeTables ==
    ASSUME EdgeTables, UNCHANGED <<plan, meta>>
    PROVE  EdgeTables'
BY DEF plan, meta, EdgeTables, Writes, Accesses

LEMMA EmptyEdgeTables ==
    ASSUME resetMetadata
    PROVE  EdgeTables'
BY DEF resetMetadata, EdgeTables, NoNode

LEMMA NextNoSpuriousEdge ==
    TypeOK /\ EdgeTables /\ NoSpuriousEdge /\ [Next]_vars => EdgeTables' /\ NoSpuriousEdge'
<1> SUFFICES ASSUME TypeOK, EdgeTables, NoSpuriousEdge, [Next]_vars
             PROVE  EdgeTables' /\ NoSpuriousEdge'
  OBVIOUS
<1> USE NoAccessType
<1>0. UNCHANGED <<phaseOf, kind, access, autoEdges>> => NoSpuriousEdge'
  BY DEF NoSpuriousEdge, Conflict, Accesses, Writes
<1>1. ASSUME NEW p \in Phases, NEW k \in TaskKinds, Task(p, k)
      PROVE  EdgeTables' /\ NoSpuriousEdge'
  <2>1. k \in {"task", "condition", "gate", "barrier"}
    BY FramePlanAssumption DEF FramePlanAssumption
  <2>2. EdgeTables'
    BY <1>1, <2>1, NewNodeEdgeTables DEF Task, registerPhaseNode
  <2>3. NoSpuriousEdge'
    BY <1>1, <2>1, NewEdgesJustified DEF Task, wireBarrierSources
  <2> QED BY <2>2, <2>3
<1>2. ASSUME NEW p \in Phases, NEW acc \in [Resources -> Access], SystemTask(p, acc)
      PROVE  EdgeTables' /\ NoSpuriousEdge'
  <2>1. EdgeTables'
    BY <1>2, NewNodeEdgeTables DEF SystemTask, registerPhaseNode
  <2>2. NoSpuriousEdge'
    BY <1>2, NewEdgesJustified DEF SystemTask, wireBarrierSources
  <2> QED BY <2>1, <2>2
<1>3. ASSUME NEW p \in Phases, PhaseBarrier(p) PROVE EdgeTables' /\ NoSpuriousEdge'
  <2>1. EdgeTables'
    BY <1>3, NewNodeEdgeTables DEF PhaseBarrier
  <2>2. NoSpuriousEdge'
    BY <1>3, NewEdgesJustified DEF PhaseBarrier, wireBarrierSources
  <2> QED BY <2>1, <2>2
<1>4. ASSUME NEW m, NEW n, Precede(m, n) PROVE EdgeTables' /\ NoSpuriousEdge'
  BY <1>0, <1>4, PrecedeKeeps, KeptEdgeTables DEF Precede, plan
<1>5. ASSUME NEW enabled, SetAutoPhaseBarriers(enabled) PROVE EdgeTables' /\ NoSpuriousEdge'
  BY <1>0, <1>5, SetAutoKeeps, KeptEdgeTables DEF SetAutoPhaseBarriers, plan
<1>6. CASE Clear
  BY <1>6, EmptyEdgeTables DEF Clear, NoSpuriousEdge
<1>7. CASE Compile
  BY <1>0, <1>7, EmptyEdgeTables DEF Compile
<1>8. CASE UNCHANGED vars
  BY <1>0, <1>8, KeptEdgeTables DEF vars, plan
<1> QED BY <1>1, <1>2, <1>3, <1>4, <1>5, <1>6, <1>7, <1>8 DEF Next

(***************************************************************************)
(* The builder serialises nothing it need not: each edge it adds goes to a *)
(* later phase, joins a phase at a barrier, or separates two systems that  *)
(* conflict.                                                               *)
(***************************************************************************)
THEOREM EdgesAreJustified == Spec => []NoSpuriousEdge
<1>1. Init => TypeOK /\ EdgeTables /\ NoSpuriousEdge
  BY InitTypeOK DEF Init, EdgeTables, NoSpuriousEdge, NoNode
<1> QED BY <1>1, NextTypeOK, NextNoSpuriousEdge, PTL DEF Spec

-----------------------------------------------------------------------------
(* Recursive functions. *)

\* Induction, for a set of naturals.
LEMMA Inductive ==
    ASSUME NEW P \in SUBSET Nat, 0 \in P, \A n \in P : n + 1 \in P
    PROVE  P = Nat
<1> SUFFICES ASSUME P # Nat PROVE FALSE
  OBVIOUS
<1>1. PICK x \in Nat \ P : \A y \in Nat \ P : x <= y
  BY LeastNatural, Nat \ P # {}
<1>2. x # 0 /\ x - 1 \in Nat /\ ~(x <= x - 1)
  BY <1>1
<1>3. x - 1 \in P
  BY <1>1, <1>2
<1>4. (x - 1) + 1 = x
  BY <1>1
<1> QED BY <1>1, <1>3, <1>4

\* The value at x is b[x] if x is in base, else F of x and the value at p[x], of
\* lower rank.
IsRecursion(D, V, N, rank, base, b, p, F) ==
    /\ N \in Nat /\ rank \in [D -> 0 .. N]
    /\ b \in [D -> V] /\ p \in [D -> D] /\ F \in [D \X V -> V]
    /\ \A x \in D : x \notin base => rank[p[x]] < rank[x]

\* A recursion that goes down a rank has a solution.
LEMMA RecursionExists ==
    ASSUME NEW D, NEW V, NEW N, NEW rank, NEW base, NEW b, NEW p, NEW F,
           IsRecursion(D, V, N, rank, base, b, p, F)
    PROVE  \E f \in [D -> V] :
              \A x \in D : f[x] = IF x \in base THEN b[x] ELSE F[<<x, f[p[x]]>>]
<1> USE DEF IsRecursion
<1> DEFINE Solves(g, x) == g[x] = IF x \in base THEN b[x] ELSE F[<<x, g[p[x]]>>]
           P == {n \in Nat : \E g \in [D -> V] : \A x \in D : rank[x] < n => Solves(g, x)}
<1>1. \A x \in D : rank[x] \in Nat /\ rank[x] < N + 1
  OBVIOUS
<1>2. 0 \in P
  <2>1. \A x \in D : ~(rank[x] < 0)
    BY <1>1
  <2> QED BY <2>1
<1>3. ASSUME NEW n \in P PROVE n + 1 \in P
  <2>1. PICK g \in [D -> V] : \A x \in D : rank[x] < n => Solves(g, x)
    OBVIOUS
  <2> DEFINE h == [x \in D |-> IF x \in base THEN b[x] ELSE F[<<x, g[p[x]]>>]]
  <2>2. h \in [D -> V]
    OBVIOUS
  <2>3. ASSUME NEW x \in D, rank[x] < n + 1 PROVE Solves(h, x)
    <3>1. CASE x \in base
      BY <3>1
    <3>2. CASE x \notin base
      <4>1. rank[p[x]] < rank[x] /\ p[x] \in D
        BY <3>2
      <4>2. rank[p[x]] < n
        BY <1>1, <2>3, <4>1
      <4>3. Solves(g, p[x])
        BY <2>1, <4>1, <4>2
      <4>4. h[p[x]] = g[p[x]]
        BY <4>1, <4>3
      <4> QED BY <3>2, <4>4
    <3> QED BY <3>1, <3>2
  <2>4. \A x \in D : rank[x] < n + 1 => Solves(h, x)
    BY <2>3
  <2> HIDE DEF h, Solves
  <2> QED BY <2>2, <2>4
<1>4. N + 1 \in P
  <2>1. P \in SUBSET Nat
    OBVIOUS
  <2> HIDE DEF P
  <2>2. P = Nat
    BY <1>2, <1>3, <2>1, Inductive
  <2> QED BY <2>2
<1>5. PICK f \in [D -> V] : \A x \in D : rank[x] < N + 1 => Solves(f, x)
  BY <1>4
<1> QED BY <1>1, <1>5

-----------------------------------------------------------------------------
(* The cost of a path. *)

\* The fold that adds up a sequence runs over the sets of its indices.
AddsUp(f, n, cost, path) ==
    /\ f \in [SUBSET (1 .. n) -> Nat]
    /\ \A s \in SUBSET (1 .. n) :
          f[s] = IF s = {} THEN 0 ELSE f[s \ {Max(s)}] + cost[path[Max(s)]]

added(n, cost, path) ==
    CHOOSE f : f = [s \in SUBSET (1 .. n) |->
                       IF s = {} THEN 0 ELSE f[s \ {Max(s)}] + cost[path[Max(s)]]]

\* sum[i] is the cost of the first i nodes of the path.
SumsUp(sum, n, cost, path) ==
    /\ sum \in [0 .. n -> Nat]
    /\ sum[0] = 0
    /\ \A i \in 1 .. n : sum[i] = sum[i - 1] + cost[path[i]]

CanAddUp(n, cost, path) == n \in Nat /\ \A i \in 1 .. n : cost[path[i]] \in Nat

\* The fold is a recursion on the size of the set.
LEMMA FoldExists ==
    ASSUME NEW n, NEW cost, NEW path, CanAddUp(n, cost, path)
    PROVE  \E f : AddsUp(f, n, cost, path)
<1> USE DEF CanAddUp
<1> DEFINE D == SUBSET (1 .. n)
           b == [s \in D |-> 0]
           p == [s \in D |-> s \ {Max(s)}]
           rank == [s \in D |-> Cardinality(s)]
           base == {{}}
           F == [x \in D \X Nat |-> IF x[1] = {} THEN 0 ELSE x[2] + cost[path[Max(x[1])]]]
<1>1. ASSUME NEW s \in D, s # {}
      PROVE  Max(s) \in s /\ Max(s) \in 1 .. n
  <2> DEFINE T == {n - i : i \in s}
  <2>1. T \in SUBSET Nat /\ T # {}
    <3>1. \A i \in s : i \in 1 .. n /\ n - i \in Nat
      OBVIOUS
    <3> QED BY <1>1, <3>1
  <2>2. PICK x \in T : \A y \in T : x <= y
    <3> HIDE DEF T
    <3> QED BY <2>1, LeastNatural
  <2>3. PICK m \in s : x = n - m
    OBVIOUS
  <2>4. \A i \in s : n - m <= n - i
    BY <2>2, <2>3
  <2>5. \A i \in s : i \in 1 .. n
    OBVIOUS
  <2>6. \A i \in s : m >= i
    BY <2>3, <2>4, <2>5
  <2>7. Max(s) \in s
    BY <2>3, <2>6 DEF Max
  <2> QED BY <2>5, <2>7
<1>2. ASSUME NEW s \in D
      PROVE  IsFiniteSet(s) /\ Cardinality(s) \in 0 .. n
  <2>1. IsFiniteSet(1 .. n) /\ Cardinality(1 .. n) = n
    <3>1. 1 \in Int /\ n \in Int
      OBVIOUS
    <3>2. IsFiniteSet(1 .. n) /\ Cardinality(1 .. n) = IF 1 > n THEN 0 ELSE n - 1 + 1
      BY <3>1, FS_Interval
    <3> QED BY <3>2
  <2>2. IsFiniteSet(s) /\ Cardinality(s) <= Cardinality(1 .. n)
    BY <2>1, FS_Subset
  <2> QED BY <2>1, <2>2, FS_CardinalityType
<1>3. rank \in [D -> 0 .. n] /\ p \in [D -> D] /\ b \in [D -> Nat]
  BY <1>2
<1>4. F \in [D \X Nat -> Nat]
  <2>1. \A s \in D : s # {} => cost[path[Max(s)]] \in Nat
    BY <1>1
  <2> HIDE DEF D
  <2> QED BY <2>1
<1>5. ASSUME NEW s \in D, s \notin base PROVE rank[p[s]] < rank[s]
  <2>1. Max(s) \in s /\ s \ {Max(s)} \in D
    BY <1>1, <1>5
  <2>2. Cardinality(s \ {Max(s)}) = Cardinality(s) - 1
    BY <1>2, <2>1, FS_RemoveElement
  <2>3. rank[p[s]] = Cardinality(s \ {Max(s)}) /\ rank[s] = Cardinality(s)
    BY <2>1
  <2>4. Cardinality(s) \in Int
    BY <1>2
  <2> QED BY <2>2, <2>3, <2>4
<1>6. PICK f \in [D -> Nat] :
         \A s \in D : f[s] = IF s \in base THEN b[s] ELSE F[<<s, f[p[s]]>>]
  <2>1. IsRecursion(D, Nat, n, rank, base, b, p, F)
    <3> HIDE DEF D, rank, p, F, b, base
    <3> QED BY <1>3, <1>4, <1>5 DEF IsRecursion
  <2> HIDE DEF D, rank, p, F, b, base
  <2> QED BY <2>1, RecursionExists
<1>7. \A s \in D : f[s] = IF s = {} THEN 0 ELSE f[s \ {Max(s)}] + cost[path[Max(s)]]
  <2> SUFFICES ASSUME NEW s \in D
               PROVE  f[s] = IF s = {} THEN 0 ELSE f[s \ {Max(s)}] + cost[path[Max(s)]]
    OBVIOUS
  <2>1. p[s] \in D /\ p[s] = s \ {Max(s)} /\ b[s] = 0
    OBVIOUS
  <2>2. s # {} => F[<<s, f[p[s]]>>] = f[p[s]] + cost[path[Max(s)]]
    <3>1. f[p[s]] \in Nat
      BY <2>1, <1>6
    <3> HIDE DEF D, p
    <3> QED BY <3>1
  <2> QED BY <1>6, <2>1, <2>2
<1> QED BY <1>6, <1>7 DEF AddsUp

\* Over the first n indices it adds up the costs in order.
LEMMA FoldIsSum ==
    ASSUME NEW n, NEW cost, NEW path, CanAddUp(n, cost, path)
    PROVE  \E sum : SumsUp(sum, n, cost, path) /\ added(n, cost, path)[1 .. n] = sum[n]
<1> DEFINE D == SUBSET (1 .. n)
           it == added(n, cost, path)
           sum == [i \in 0 .. n |-> it[1 .. i]]
<1>1. PICK f : AddsUp(f, n, cost, path)
  BY FoldExists
<1> USE DEF CanAddUp
<1>2. f = [s \in D |-> IF s = {} THEN 0 ELSE f[s \ {Max(s)}] + cost[path[Max(s)]]]
  BY <1>1 DEF AddsUp
<1>3. it = [s \in D |-> IF s = {} THEN 0 ELSE it[s \ {Max(s)}] + cost[path[Max(s)]]]
  BY <1>2, Zenon DEF added
<1> HIDE DEF it
<1>4. \A s \in D : it[s] = IF s = {} THEN 0 ELSE it[s \ {Max(s)}] + cost[path[Max(s)]]
  <2> HIDE DEF D
  <2> QED BY <1>3
<1>5. \A i \in 0 .. n : 1 .. i \in D
  OBVIOUS
<1>6. sum[0] = 0
  <2>1. 1 .. 0 = {} /\ 0 \in 0 .. n
    OBVIOUS
  <2> QED BY <1>4, <1>5, <2>1
<1>7. ASSUME NEW i \in 1 .. n PROVE sum[i] = sum[i - 1] + cost[path[i]]
  <2>1. Max(1 .. i) = i
    BY DEF Max
  <2>2. (1 .. i) \ {i} = 1 .. (i - 1) /\ 1 .. i # {} /\ i - 1 \in 0 .. n /\ i \in 0 .. n
    OBVIOUS
  <2>3. sum[i] = it[1 .. i] /\ sum[i - 1] = it[1 .. (i - 1)]
    BY <2>2
  <2> HIDE DEF D, sum
  <2>4. it[1 .. i] = it[(1 .. i) \ {Max(1 .. i)}] + cost[path[Max(1 .. i)]]
    BY <1>4, <1>5, <2>2
  <2> QED BY <2>1, <2>2, <2>3, <2>4
<1>8. \A i \in 0 .. n : sum[i] \in Nat
  <2> DEFINE P == {i \in Nat : i <= n => sum[i] \in Nat}
  <2> HIDE DEF sum
  <2>1. 0 \in P
    BY <1>6
  <2>2. ASSUME NEW i \in P PROVE i + 1 \in P
    <3> SUFFICES ASSUME i + 1 <= n PROVE sum[i + 1] \in Nat
      OBVIOUS
    <3>1. i + 1 \in 1 .. n /\ (i + 1) - 1 = i /\ i <= n
      OBVIOUS
    <3>2. sum[i] \in Nat /\ cost[path[i + 1]] \in Nat
      BY <3>1
    <3> QED BY <1>7, <3>1, <3>2
  <2>3. P = Nat
    <3>1. P \in SUBSET Nat
      OBVIOUS
    <3> HIDE DEF P
    <3> QED BY <2>1, <2>2, <3>1, Inductive
  <2> SUFFICES ASSUME NEW i \in 0 .. n PROVE sum[i] \in Nat
    OBVIOUS
  <2>4. i \in P /\ i <= n
    <3> HIDE DEF P
    <3> QED BY <2>3
  <2> QED BY <2>4
<1>9. sum \in [0 .. n -> Nat] /\ it[1 .. n] = sum[n]
  <2>1. n \in 0 .. n
    OBVIOUS
  <2> QED BY <1>8, <2>1
<1>10. SumsUp(sum, n, cost, path)
  <2> HIDE DEF sum
  <2> QED BY <1>6, <1>7, <1>9 DEF SumsUp
<1> HIDE DEF sum
<1> QED BY <1>9, <1>10 DEF it

\* costOf adds up the costs of the nodes of a path, one after the other.
LEMMA CostIsSum ==
    ASSUME NEW cost \in [nodes -> Nat], NEW path \in Seq(nodes)
    PROVE  \E sum : SumsUp(sum, Len(path), cost, path) /\ costOf(path, cost) = sum[Len(path)]
<1>1. DOMAIN path = 1 .. Len(path) /\ CanAddUp(Len(path), cost, path)
  BY DEF CanAddUp
<1>2. costOf(path, cost) = added(Len(path), cost, path)[1 .. Len(path)]
  BY <1>1, Zenon DEF costOf, FoldLeft, MapThenFoldSet, added
<1> QED BY <1>1, <1>2, FoldIsSum

-----------------------------------------------------------------------------
(* The worklist. *)

\* q holds each member of S once.
Lists(q, S) ==
    /\ q \in Seq(S)
    /\ \A i, j \in 1 .. Len(q) : q[i] = q[j] => i = j
    /\ \A x \in S : \E i \in 1 .. Len(q) : q[i] = x

\* The members of a finite set of naturals can be sorted.
LEMMA SortedLists ==
    ASSUME NEW S, S \subseteq Nat, IsFiniteSet(S)
    PROVE  Lists(sorted(S), S)
<1> DEFINE n == Cardinality(S)
           upTo(x) == {y \in S : y <= x}
           f == [x \in S |-> Cardinality(upTo(x))]
<1>1. n \in Nat /\ \A x \in S : x \in Nat
  BY FS_CardinalityType
<1>2. ASSUME NEW x \in S PROVE IsFiniteSet(upTo(x)) /\ Cardinality(upTo(x)) \in 1 .. n
  <2>1. upTo(x) \in SUBSET S /\ x \in upTo(x)
    BY <1>1
  <2> HIDE DEF upTo
  <2>2. IsFiniteSet(upTo(x)) /\ Cardinality(upTo(x)) <= n
    BY <2>1, FS_Subset
  <2>3. Cardinality(upTo(x)) \in Nat /\ Cardinality(upTo(x)) # 0
    BY <2>1, <2>2, FS_CardinalityType, FS_EmptySet
  <2> HIDE DEF n
  <2> QED BY <1>1, <2>2, <2>3
<1>3. ASSUME NEW x \in S, NEW y \in S, x < y PROVE f[x] < f[y]
  <2>1. upTo(x) \in SUBSET upTo(y) /\ y \in upTo(y) /\ y \notin upTo(x)
    <3>1. x \in Nat /\ y \in Nat /\ \A z \in S : z \in Nat
      BY <1>1
    <3>2. \A z \in S : z <= x => z <= y
      BY <1>3, <3>1
    <3>3. y <= y /\ ~(y <= x)
      BY <1>3, <3>1
    <3> QED BY <3>2, <3>3
  <2>2. Cardinality(upTo(x)) <= Cardinality(upTo(y)) /\ Cardinality(upTo(x)) # Cardinality(upTo(y))
    <3> HIDE DEF upTo
    <3> QED BY <1>2, <2>1, FS_Subset
  <2>3. Cardinality(upTo(x)) \in Nat /\ Cardinality(upTo(y)) \in Nat
    BY <1>2, FS_CardinalityType
  <2> QED BY <2>2, <2>3
<1>4. IsFiniteSet(1 .. n) /\ Cardinality(1 .. n) = n
  <2>1. 1 \in Int /\ n \in Int /\ n - 1 + 1 = n
    BY <1>1
  <2>2. IsFiniteSet(1 .. n) /\ Cardinality(1 .. n) = IF 1 > n THEN 0 ELSE n - 1 + 1
    BY <2>1, FS_Interval
  <2> HIDE DEF n
  <2> QED BY <1>1, <2>1, <2>2
<1>5. f \in [S -> 1 .. n]
  BY <1>2
<1>6. \A x, y \in S : f[x] = f[y] => x = y
  <2> HIDE DEF f
  <2>1. \A x \in S : f[x] \in Nat
    <3> HIDE DEF n
    <3> QED BY <1>1, <1>5
  <2> QED BY <1>1, <1>3, <2>1
<1>7. \A i \in 1 .. n : \E x \in S : f[x] = i
  <2> HIDE DEF f, n
  <2>1. f \in Injection(S, 1 .. n)
    BY <1>5, <1>6 DEF Injection, IsInjective
  <2>2. f \in Surjection(S, 1 .. n)
    BY <1>4, <2>1, FS_Injection DEF n
  <2> QED BY <2>2 DEF Surjection
<1> DEFINE g == [i \in 1 .. n |-> CHOOSE x \in S : f[x] = i]
<1>8. g \in [1 .. n -> S] /\ \A i \in 1 .. n : f[g[i]] = i
  <2> HIDE DEF f, n
  <2> QED BY <1>7
<1>9. \A i, j \in 1 .. n : i < j => g[i] < g[j]
  <2> SUFFICES ASSUME NEW i \in 1 .. n, NEW j \in 1 .. n, i < j, ~(g[i] < g[j]) PROVE FALSE
    OBVIOUS
  <2> HIDE DEF f, n, g
  <2>1. g[i] \in S /\ g[j] \in S /\ f[g[i]] = i /\ f[g[j]] = j /\ i \in Nat /\ j \in Nat
    BY <1>1, <1>8
  <2>2. g[i] \in Nat /\ g[j] \in Nat
    BY <1>1, <2>1
  <2>3. g[j] < g[i] \/ g[j] = g[i]
    BY <2>2
  <2>4. ~(j < i) /\ i # j
    BY <2>1
  <2>5. g[j] # g[i]
    BY <2>1, <2>4
  <2>6. f[g[j]] < f[g[i]]
    BY <1>3, <2>1, <2>3, <2>5
  <2> QED BY <2>1, <2>4, <2>6
<1>10. \E q \in [1 .. n -> S] : \A i, j \in DOMAIN q : i < j => q[i] < q[j]
  <2> HIDE DEF f, n, g
  <2> QED BY <1>8, <1>9
<1> HIDE DEF f, g
<1> DEFINE q == sorted(S)
<1>11. q \in [1 .. n -> S] /\ \A i, j \in 1 .. n : i < j => q[i] < q[j]
  BY <1>10 DEF sorted
<1> HIDE DEF q, n
<1>12. q \in Seq(S) /\ Len(q) = n
  BY <1>1, <1>11
<1>13. \A i, j \in 1 .. n : q[i] = q[j] => i = j
  <2> SUFFICES ASSUME NEW i \in 1 .. n, NEW j \in 1 .. n, q[i] = q[j], i # j PROVE FALSE
    OBVIOUS
  <2>1. q[i] \in Nat /\ q[j] \in Nat
    BY <1>1, <1>11
  <2>2. i < j \/ j < i
    BY <1>1
  <2>3. q[i] < q[j] \/ q[j] < q[i]
    BY <1>11, <2>2
  <2> QED BY <2>1, <2>3
<1>14. \A x \in S : \E i \in 1 .. n : q[i] = x
  <2>1. q \in Injection(1 .. n, S)
    BY <1>11, <1>13 DEF Injection, IsInjective
  <2>2. q \in Surjection(1 .. n, S)
    BY <1>4, <2>1, FS_Injection DEF n
  <2> QED BY <2>2 DEF Surjection
<1> QED BY <1>12, <1>13, <1>14 DEF Lists, q

\* A graph of finitely many nodes.
Graph == nodes \subseteq Ids /\ Edges \subseteq nodes \X nodes

LEMMA GraphIsFinite ==
    ASSUME Graph
    PROVE  /\ \A n \in nodes : n \in Nat /\ n # NoNode
           /\ \A S \in SUBSET nodes : /\ IsFiniteSet(S) /\ Cardinality(S) \in Nat
                                      /\ Cardinality(S) <= Cardinality(nodes)
<1>1. MaxNodes \in Nat
  BY FramePlanAssumption DEF FramePlanAssumption
<1>2. IsFiniteSet(1 .. MaxNodes)
  <2>1. 1 \in Int /\ MaxNodes \in Int
    BY <1>1
  <2> QED BY <2>1, FS_Interval
<1>3. IsFiniteSet(nodes)
  BY <1>2, FS_Subset DEF Graph, Ids
<1>4. \A n \in nodes : n \in Nat /\ n # NoNode
  BY <1>1 DEF Graph, Ids, NoNode
<1>5. ASSUME NEW S \in SUBSET nodes
      PROVE  IsFiniteSet(S) /\ Cardinality(S) \in Nat /\ Cardinality(S) <= Cardinality(nodes)
  BY <1>3, <1>5, FS_Subset, FS_CardinalityType
<1> QED BY <1>4, <1>5

Worklists ==
    [ready_nodes : Seq(nodes), distance : [nodes -> Nat],
     predecessor : [nodes -> nodes \cup {NoNode}], indegree : [nodes -> Nat]]

\* The nodes visited in the first k turns, and those before n that are not yet.
visited(k, s)    == {s.ready_nodes[i] : i \in (1 .. k) \cap (1 .. Len(s.ready_nodes))}
missing(k, s, n) == {m \in nodes \ visited(k, s) : <<m, n>> \in Edges}

\* A node is ready, once, when nothing is missing; what was missing stands before it.
ReadyInOrder(k, s) ==
    /\ \A i, j \in 1 .. Len(s.ready_nodes) : s.ready_nodes[i] = s.ready_nodes[j] => i = j
    /\ \A n \in nodes : s.indegree[n] = Cardinality(missing(k, s, n))
    /\ \A n \in nodes : missing(k, s, n) = {} =>
          \E i \in 1 .. Len(s.ready_nodes) : s.ready_nodes[i] = n
    /\ \A j \in 1 .. Len(s.ready_nodes), m \in nodes : <<m, s.ready_nodes[j]>> \in Edges =>
          \E i \in 1 .. j - 1 : i <= k /\ s.ready_nodes[i] = m

\* The distance of a node is that of its predecessor and its own cost, and
\* at least as much by way of any node visited.
DistancesHold(cost, k, s) ==
    /\ \A n \in nodes :
          IF s.predecessor[n] = NoNode THEN s.distance[n] = cost[n]
          ELSE /\ s.predecessor[n] \in visited(k, s) /\ <<s.predecessor[n], n>> \in Edges
               /\ s.distance[n] = s.distance[s.predecessor[n]] + cost[n]
    /\ \A m \in visited(k, s), n \in nodes :
          <<m, n>> \in Edges => s.distance[m] + cost[n] <= s.distance[n]
    /\ \A n \in nodes : cost[n] <= s.distance[n]

Worklist(cost, k, s) == s \in Worklists /\ ReadyInOrder(k, s) /\ DistancesHold(cost, k, s)

\* The tables the worklist starts from.
LEMMA PreparedWorklist ==
    ASSUME Graph, NEW cost \in [nodes -> Nat]
    PROVE  Worklist(cost, 0, prepared(cost))
<1> DEFINE s == prepared(cost)
           before(n) == {m \in nodes : <<m, n>> \in Edges}
           S == {n \in nodes : Cardinality(before(n)) = 0}
           R == s.ready_nodes
<1>1. \A n \in nodes : before(n) \in SUBSET nodes
  OBVIOUS
<1>2. /\ \A n \in nodes : Cardinality(before(n)) \in Nat
      /\ \A n \in nodes : Cardinality(before(n)) = 0 <=> before(n) = {}
  <2> HIDE DEF before
  <2> QED BY <1>1, GraphIsFinite, FS_EmptySet
<1>3. /\ R = sorted(S)
      /\ s.distance = cost /\ s.predecessor = [n \in nodes |-> NoNode]
      /\ s.indegree = [n \in nodes |-> Cardinality(before(n))]
      /\ s = [ready_nodes |-> R, distance |-> s.distance, predecessor |-> s.predecessor,
              indegree |-> s.indegree]
  BY DEF prepared
<1> HIDE DEF s
<1>4. Lists(R, S)
  <2>1. S \in SUBSET nodes /\ S \subseteq Nat
    BY GraphIsFinite
  <2> HIDE DEF S
  <2>2. IsFiniteSet(S)
    BY <2>1, GraphIsFinite
  <2> QED BY <1>3, <2>1, <2>2, SortedLists
<1>5. R \in Seq(nodes) /\ \A i \in 1 .. Len(R) : R[i] \in S
  <2>1. R \in Seq(S) /\ S \subseteq nodes
    BY <1>4 DEF Lists
  <2> HIDE DEF R, S
  <2>2. \A i \in 1 .. Len(R) : R[i] \in S
    BY <2>1
  <2>3. R \in Seq(nodes)
    BY <2>1, <2>2
  <2> QED BY <2>2, <2>3
<1>6. s \in Worklists
  <2> HIDE DEF before, R
  <2> QED BY <1>2, <1>3, <1>5 DEF Worklists
<1>7. visited(0, s) = {} /\ \A n \in nodes : missing(0, s, n) = before(n)
  BY DEF visited, missing
<1>8. ReadyInOrder(0, s)
  <2>1. \A i, j \in 1 .. Len(R) : R[i] = R[j] => i = j
    BY <1>4 DEF Lists
  <2>2. \A n \in nodes : s.indegree[n] = Cardinality(missing(0, s, n))
    BY <1>3, <1>7
  <2>3. \A n \in nodes : missing(0, s, n) = {} => \E i \in 1 .. Len(R) : R[i] = n
    BY <1>2, <1>4, <1>7 DEF Lists
  <2>4. \A j \in 1 .. Len(R), m \in nodes : <<m, R[j]>> \notin Edges
    BY <1>2, <1>5
  <2> QED BY <2>1, <2>2, <2>3, <2>4 DEF ReadyInOrder
<1>9. DistancesHold(cost, 0, s)
  BY <1>3, <1>7, GraphIsFinite DEF DistancesHold
<1> QED BY <1>6, <1>8, <1>9 DEF Worklist, s

\* A sequence gets the members of a set it has none of.
Appends(T, R, S, q, Q) ==
    /\ Q = R \o q /\ R \in Seq(T) /\ S \subseteq T /\ Lists(q, S)
    /\ \A i, j \in 1 .. Len(R) : R[i] = R[j] => i = j
    /\ \A i \in 1 .. Len(R) : R[i] \notin S

\* The sequence then lists both, each member once.
LEMMA AppendedLists ==
    ASSUME NEW T, NEW R, NEW S, NEW q, NEW Q, Appends(T, R, S, q, Q)
    PROVE  /\ Q \in Seq(T) /\ Len(R) <= Len(Q)
           /\ \A i \in 1 .. Len(R) : Q[i] = R[i]
           /\ \A i \in Len(R) + 1 .. Len(Q) : Q[i] \in S
           /\ \A i, j \in 1 .. Len(Q) : Q[i] = Q[j] => i = j
           /\ \A x \in S : \E i \in 1 .. Len(Q) : Q[i] = x
<1> USE DEF Appends
<1>1. q \in Seq(S) /\ q \in Seq(T) /\ \A i \in 1 .. Len(q) : q[i] \in S
  <2>1. q \in Seq(S)
    BY DEF Lists
  <2>2. \A i \in 1 .. Len(q) : q[i] \in S
    BY <2>1
  <2> QED BY <2>1, <2>2
<1>2. /\ Q \in Seq(T) /\ Len(Q) = Len(R) + Len(q) /\ Len(R) \in Nat /\ Len(q) \in Nat
      /\ \A i \in 1 .. Len(Q) : Q[i] = IF i <= Len(R) THEN R[i] ELSE q[i - Len(R)]
  BY <1>1
<1>3. \A i \in 1 .. Len(R) : Q[i] = R[i] /\ i \in 1 .. Len(Q)
  BY <1>2
<1>4. ASSUME NEW i \in Len(R) + 1 .. Len(Q)
      PROVE  i - Len(R) \in 1 .. Len(q) /\ Q[i] = q[i - Len(R)] /\ Q[i] \in S
  <2>1. i - Len(R) \in 1 .. Len(q) /\ ~(i <= Len(R)) /\ i \in 1 .. Len(Q)
    BY <1>2
  <2> QED BY <1>1, <1>2, <2>1
<1>5. ASSUME NEW i \in 1 .. Len(Q), NEW j \in 1 .. Len(Q), Q[i] = Q[j] PROVE i = j
  <2>1. /\ i \in 1 .. Len(R) \/ i \in Len(R) + 1 .. Len(Q)
        /\ j \in 1 .. Len(R) \/ j \in Len(R) + 1 .. Len(Q)
    BY <1>2
  <2>2. CASE i \in 1 .. Len(R) /\ j \in 1 .. Len(R)
    BY <1>3, <1>5, <2>2
  <2>3. CASE i \in Len(R) + 1 .. Len(Q) /\ j \in Len(R) + 1 .. Len(Q)
    <3>1. q[i - Len(R)] = q[j - Len(R)]
      BY <1>4, <1>5, <2>3
    <3>2. i - Len(R) = j - Len(R)
      BY <1>4, <2>3, <3>1 DEF Lists
    <3> QED BY <1>2, <2>3, <3>2
  <2> QED BY <1>3, <1>4, <1>5, <2>1, <2>2, <2>3
<1>6. ASSUME NEW x \in S PROVE \E i \in 1 .. Len(Q) : Q[i] = x
  <2>1. PICK i \in 1 .. Len(q) : q[i] = x
    BY DEF Lists
  <2>2. i + Len(R) \in 1 .. Len(Q) /\ ~(i + Len(R) <= Len(R)) /\ (i + Len(R)) - Len(R) = i
    BY <1>2
  <2> QED BY <1>2, <2>1, <2>2
<1> QED BY <1>2, <1>3, <1>4, <1>5, <1>6

\* A visit makes ready what missed nothing else, and keeps the distances.
LEMMA VisitKeepsWorklist ==
    ASSUME Graph, NEW cost \in [nodes -> Nat], NEW k \in Nat, NEW s,
           Worklist(cost, k, s), k + 1 <= Len(s.ready_nodes)
    PROVE  Worklist(cost, k + 1, visit(cost, s, s.ready_nodes[k + 1]))
<1> DEFINE R == s.ready_nodes
           from == R[k + 1]
           next == successors(from)
           new == {n \in next : s.indegree[n] = 1}
           improved == {n \in next : longer(cost, s, from, n)}
           t == visit(cost, s, from)
           Q == t.ready_nodes
           V == visited(k, s)
<1>1. /\ R \in Seq(nodes) /\ s.distance \in [nodes -> Nat]
      /\ s.predecessor \in [nodes -> nodes \cup {NoNode}] /\ s.indegree \in [nodes -> Nat]
  BY DEF Worklist, Worklists
<1>2. /\ Q = R \o sorted(new)
      /\ t.distance = [n \in nodes |-> IF n \in improved THEN s.distance[from] + cost[n]
                                       ELSE s.distance[n]]
      /\ t.predecessor = [n \in nodes |-> IF n \in improved THEN from ELSE s.predecessor[n]]
      /\ t.indegree = [n \in nodes |-> IF n \in next THEN s.indegree[n] - 1 ELSE s.indegree[n]]
      /\ t = [ready_nodes |-> Q, distance |-> t.distance, predecessor |-> t.predecessor,
              indegree |-> t.indegree]
  <2>1. s = [ready_nodes |-> R, distance |-> s.distance, predecessor |-> s.predecessor,
             indegree |-> s.indegree]
    BY DEF Worklist, Worklists
  <2>2. t = [ready_nodes |-> R \o sorted(new),
             distance |-> [n \in nodes |-> IF n \in improved THEN s.distance[from] + cost[n]
                                           ELSE s.distance[n]],
             predecessor |-> [n \in nodes |-> IF n \in improved THEN from ELSE s.predecessor[n]],
             indegree |-> [n \in nodes |-> IF n \in next THEN s.indegree[n] - 1
                                           ELSE s.indegree[n]]]
    <3>1. t = [s EXCEPT !.ready_nodes = @ \o sorted(new),
                        !.distance    = [n \in nodes |-> IF n \in improved THEN @[from] + cost[n]
                                                         ELSE @[n]],
                        !.predecessor = [n \in nodes |-> IF n \in improved THEN from ELSE @[n]],
                        !.indegree    = [n \in nodes |-> IF n \in next THEN @[n] - 1 ELSE @[n]]]
      BY Zenon DEF visit
    <3> HIDE DEF t, R, from, next, new, improved
    <3> QED BY <2>1, <3>1 DEF R
  <2> HIDE DEF t, R, from, next, new, improved
  <2> QED BY <2>2
<1>3. /\ Len(R) \in Nat /\ k + 1 \in 1 .. Len(R) /\ from \in nodes
      /\ \A i \in 1 .. Len(R) : R[i] \in nodes
  BY <1>1
<1>4. /\ next \subseteq nodes /\ new \in SUBSET nodes
      /\ \A n \in nodes : n \in next <=> <<from, n>> \in Edges
  BY DEF successors
<1> HIDE DEF t, from, next, R, V
<1> USE DEF ReadyInOrder
<1>5. ReadyInOrder(k, s) /\ DistancesHold(cost, k, s)
  BY DEF Worklist
<1>6. V \subseteq nodes /\ from \notin V /\ V \cup {from} \subseteq nodes
  BY <1>3, <1>5 DEF visited, V, from, R
\* What is missing of a successor is one node less, of the others nothing is.
<1>7. ASSUME NEW n \in nodes
      PROVE  /\ n \in next => from \in missing(k, s, n)
             /\ missing(k, s, n) \in SUBSET nodes
             /\ IsFiniteSet(missing(k, s, n)) /\ s.indegree[n] = Cardinality(missing(k, s, n))
  <2>1. missing(k, s, n) \in SUBSET nodes
    BY DEF missing
  <2>2. n \in next => from \in missing(k, s, n)
    BY <1>3, <1>4, <1>6 DEF missing, V
  <2> QED BY <1>5, <2>1, <2>2, GraphIsFinite
<1>8. ASSUME NEW n \in new PROVE missing(k, s, n) = {from}
  <2>1. /\ from \in missing(k, s, n)
        /\ Cardinality(missing(k, s, n)) = 1 /\ IsFiniteSet(missing(k, s, n))
    BY <1>4, <1>7, <1>8
  <2> QED BY <2>1, FS_Singleton
\* No node is ready that waits for this one.
<1>9. \A i \in 1 .. Len(R) : R[i] \notin next
  <2> SUFFICES ASSUME NEW i \in 1 .. Len(R), R[i] \in next PROVE FALSE
    OBVIOUS
  <2>1. PICK j \in 1 .. i - 1 : j <= k /\ R[j] = from
    BY <1>3, <1>4, <1>5 DEF R
  <2>2. j \in 1 .. Len(R) /\ j # k + 1
    BY <1>3, <2>1
  <2> QED BY <1>3, <1>5, <2>1, <2>2 DEF R, from
<1>10. Lists(sorted(new), new)
  <2>1. new \subseteq Nat /\ IsFiniteSet(new)
    BY <1>4, GraphIsFinite
  <2> QED BY <2>1, SortedLists
<1>11. /\ Q \in Seq(nodes) /\ Len(R) <= Len(Q)
       /\ \A i \in 1 .. Len(R) : Q[i] = R[i]
       /\ \A i \in Len(R) + 1 .. Len(Q) : Q[i] \in new
       /\ \A i, j \in 1 .. Len(Q) : Q[i] = Q[j] => i = j
       /\ \A x \in new : \E i \in 1 .. Len(Q) : Q[i] = x
  <2>1. \A i, j \in 1 .. Len(R) : R[i] = R[j] => i = j
    BY <1>5 DEF R
  <2>2. \A i \in 1 .. Len(R) : R[i] \notin new
    BY <1>9
  <2> HIDE DEF new, Q
  <2>3. Appends(nodes, R, new, sorted(new), Q)
    BY <1>1, <1>2, <1>4, <1>10, <2>1, <2>2 DEF Appends, R
  <2> QED BY <2>3, AppendedLists
<1> HIDE DEF Q
<1>12. visited(k + 1, t) = V \cup {from} /\ Len(Q) \in Nat
  <2>1. Len(Q) \in Nat /\ \A i \in 1 .. Len(R) : i \in 1 .. Len(Q)
    BY <1>3, <1>11
  <2>2. (1 .. k + 1) \cap (1 .. Len(Q)) = ((1 .. k) \cap (1 .. Len(R))) \cup {k + 1}
    BY <1>3, <1>11, <2>1
  <2>3. \A i \in (1 .. k + 1) \cap (1 .. Len(Q)) : Q[i] = R[i]
    BY <1>3, <1>11, <2>2
  <2> QED BY <2>1, <2>2, <2>3 DEF visited, V, Q, R, from
<1>13. \A n \in nodes : missing(k + 1, t, n) = missing(k, s, n) \ {from}
  BY <1>12 DEF missing, V
<1>14. \A n \in nodes : s.distance[n] \in Nat /\ cost[n] \in Nat /\ s.indegree[n] \in Nat
  BY <1>1
<1>15. ASSUME NEW n \in nodes
       PROVE  t.indegree[n] = Cardinality(missing(k + 1, t, n)) /\ t.indegree[n] \in Nat
  <2>1. IsFiniteSet(missing(k + 1, t, n)) /\ missing(k + 1, t, n) \in SUBSET nodes
    BY <1>7, <1>13, FS_RemoveElement
  <2>2. CASE n \in next
    <3>1. t.indegree[n] = s.indegree[n] - 1
      BY <1>2, <2>2
    <3>2. Cardinality(missing(k + 1, t, n)) = Cardinality(missing(k, s, n)) - 1
      BY <1>7, <1>13, <2>2, FS_RemoveElement
    <3> QED BY <1>7, <2>1, <3>1, <3>2, GraphIsFinite
  <2>3. CASE n \notin next
    <3>1. t.indegree[n] = s.indegree[n]
      BY <1>2, <2>3
    <3>2. missing(k + 1, t, n) = missing(k, s, n)
      BY <1>4, <1>13, <2>3 DEF missing
    <3> QED BY <1>7, <1>14, <3>1, <3>2
  <2> QED BY <2>2, <2>3
<1>16. ASSUME NEW n \in nodes, missing(k + 1, t, n) = {}
       PROVE  \E i \in 1 .. Len(Q) : Q[i] = n
  <2>1. CASE n \in next
    <3>1. missing(k, s, n) = {from}
      BY <1>7, <1>13, <1>16, <2>1
    <3>2. n \in new
      BY <1>7, <2>1, <3>1, FS_Singleton
    <3> QED BY <1>11, <3>2
  <2>2. CASE n \notin next
    <3>1. missing(k, s, n) = {}
      BY <1>4, <1>13, <1>16, <2>2 DEF missing
    <3>2. PICK i \in 1 .. Len(R) : R[i] = n
      BY <1>5, <3>1 DEF R
    <3>3. i \in 1 .. Len(Q)
      BY <1>3, <1>11, <1>12
    <3>4. Q[i] = n
      BY <1>11, <3>2
    <3> QED BY <3>3, <3>4
  <2> QED BY <2>1, <2>2
<1>17. ASSUME NEW j \in 1 .. Len(Q), NEW m \in nodes, <<m, Q[j]>> \in Edges
       PROVE  \E i \in 1 .. j - 1 : i <= k + 1 /\ Q[i] = m
  <2>1. CASE j \in 1 .. Len(R)
    <3>1. PICK i \in 1 .. j - 1 : i <= k /\ R[i] = m
      BY <1>5, <1>11, <1>17, <2>1 DEF R
    <3>2. i \in 1 .. Len(R) /\ i <= k + 1
      BY <1>3, <2>1, <3>1
    <3>3. Q[i] = m
      BY <1>11, <3>1, <3>2
    <3> QED BY <3>1, <3>2, <3>3
  <2>2. CASE j \in Len(R) + 1 .. Len(Q)
    <3>1. m = from \/ m \in V
      BY <1>8, <1>11, <1>17, <2>2 DEF missing, V
    <3>2. \A i \in 1 .. Len(R) : i \in 1 .. j - 1 /\ Q[i] = R[i]
      BY <1>3, <1>11, <2>2
    <3>3. CASE m = from
      BY <1>3, <3>2, <3>3 DEF from
    <3>4. CASE m \in V
      <4>1. PICK i \in (1 .. k) \cap (1 .. Len(R)) : R[i] = m
        BY <3>4 DEF V, visited, R
      <4>2. i \in 1 .. j - 1 /\ Q[i] = m
        BY <3>2, <4>1
      <4>3. i <= k + 1
        BY <4>1
      <4> QED BY <4>2, <4>3
    <3> QED BY <3>1, <3>3, <3>4
  <2> QED BY <1>3, <1>12, <2>1, <2>2
<1>18. ReadyInOrder(k + 1, t)
  BY <1>11, <1>15, <1>16, <1>17 DEF Q
\* The distance of a node visited is settled.
<1>19. ASSUME NEW m \in V \cup {from} PROVE m \in nodes /\ t.distance[m] = s.distance[m]
  <2>1. m \notin next
    BY <1>3, <1>9 DEF V, visited, R, from
  <2> QED BY <1>2, <1>6, <2>1
<1>20. ASSUME NEW n \in nodes
       PROVE  /\ t.distance[n] \in Nat /\ s.distance[n] <= t.distance[n]
              /\ n \in improved => t.distance[n] = s.distance[from] + cost[n]
              /\ n \in next => s.distance[from] + cost[n] <= t.distance[n]
  <2>1. CASE n \in improved
    <3>1. t.distance[n] = s.distance[from] + cost[n] /\ s.distance[from] + cost[n] > s.distance[n]
      BY <1>2, <2>1 DEF longer
    <3> QED BY <1>3, <1>14, <3>1
  <2>2. CASE n \notin improved
    <3>1. t.distance[n] = s.distance[n]
      BY <1>2, <2>2
    <3>2. n \in next => ~(s.distance[from] + cost[n] > s.distance[n])
      BY <2>2 DEF longer
    <3> QED BY <1>3, <1>14, <2>2, <3>1, <3>2
  <2> QED BY <2>1, <2>2
<1>21. ASSUME NEW n \in nodes
       PROVE  IF t.predecessor[n] = NoNode THEN t.distance[n] = cost[n]
              ELSE /\ t.predecessor[n] \in V \cup {from} /\ <<t.predecessor[n], n>> \in Edges
                   /\ t.distance[n] = t.distance[t.predecessor[n]] + cost[n]
  <2>1. CASE n \in improved
    <3>1. t.predecessor[n] = from /\ from # NoNode /\ <<from, n>> \in Edges
      BY <1>2, <1>3, <1>4, <2>1, GraphIsFinite
    <3> QED BY <1>19, <1>20, <2>1, <3>1
  <2>2. CASE n \notin improved
    <3>1. t.predecessor[n] = s.predecessor[n] /\ t.distance[n] = s.distance[n]
      BY <1>2, <2>2
    <3> QED BY <1>5, <1>19, <3>1 DEF DistancesHold, V
  <2> QED BY <2>1, <2>2
<1>22. ASSUME NEW m \in V \cup {from}, NEW n \in nodes, <<m, n>> \in Edges
       PROVE  t.distance[m] + cost[n] <= t.distance[n]
  <2>1. CASE m = from
    BY <1>4, <1>19, <1>20, <1>22, <2>1
  <2>2. CASE m \in V
    <3>1. s.distance[m] + cost[n] <= s.distance[n]
      BY <1>5, <1>22, <2>2 DEF DistancesHold, V
    <3> QED BY <1>14, <1>19, <1>20, <3>1
  <2> QED BY <2>1, <2>2
<1>23. \A n \in nodes : cost[n] <= t.distance[n]
  <2> SUFFICES ASSUME NEW n \in nodes PROVE cost[n] <= t.distance[n]
    OBVIOUS
  <2>1. cost[n] <= s.distance[n]
    BY <1>5 DEF DistancesHold
  <2> QED BY <1>14, <1>20, <2>1
<1>24. DistancesHold(cost, k + 1, t)
  BY <1>12, <1>21, <1>22, <1>23 DEF DistancesHold
<1>25. t \in Worklists
  <2>1. t.distance \in [nodes -> Nat]
    <3>1. DOMAIN t.distance = nodes /\ t.distance = [n \in nodes |-> t.distance[n]]
      BY <1>2
    <3> QED BY <1>20, <3>1
  <2>2. t.indegree \in [nodes -> Nat]
    <3>1. DOMAIN t.indegree = nodes /\ t.indegree = [n \in nodes |-> t.indegree[n]]
      BY <1>2
    <3> QED BY <1>15, <3>1
  <2>3. t.predecessor \in [nodes -> nodes \cup {NoNode}]
    <3>1. \A n \in nodes : s.predecessor[n] \in nodes \cup {NoNode}
      BY <1>1
    <3> HIDE DEF improved
    <3> QED BY <1>2, <1>3, <3>1
  <2>4. t = [ready_nodes |-> Q, distance |-> t.distance, predecessor |-> t.predecessor,
             indegree |-> t.indegree]
    BY <1>2
  <2> QED BY <1>11, <2>1, <2>2, <2>3, <2>4 DEF Worklists
<1> QED BY <1>18, <1>24, <1>25 DEF Worklist, t, from, R

\* Turn k visits the k-th node on the worklist, if there is one.
turnOf(cost, k, s) ==
    IF k <= Len(s.ready_nodes) THEN visit(cost, s, s.ready_nodes[k]) ELSE s

\* Turns keep what visits keep.
LEMMA TurnKeepsWorklist ==
    ASSUME Graph, NEW cost \in [nodes -> Nat], NEW k \in Nat, NEW s, Worklist(cost, k, s)
    PROVE  Worklist(cost, k + 1, turnOf(cost, k + 1, s))
<1>1. CASE k + 1 <= Len(s.ready_nodes)
  BY <1>1, VisitKeepsWorklist DEF turnOf
<1>2. CASE ~(k + 1 <= Len(s.ready_nodes))
  <2>1. Len(s.ready_nodes) \in Nat /\ turnOf(cost, k + 1, s) = s
    BY <1>2 DEF Worklist, Worklists, turnOf
  <2>2. (1 .. k + 1) \cap (1 .. Len(s.ready_nodes)) = (1 .. k) \cap (1 .. Len(s.ready_nodes))
    BY <1>2, <2>1
  <2>3. visited(k + 1, s) = visited(k, s) /\ \A n : missing(k + 1, s, n) = missing(k, s, n)
    BY <2>2 DEF visited, missing
  <2>4. DistancesHold(cost, k + 1, s)
    BY <2>3 DEF Worklist, DistancesHold
  <2>5. ReadyInOrder(k, s)
    BY DEF Worklist
  <2>6. ASSUME NEW j \in 1 .. Len(s.ready_nodes), NEW m \in nodes, <<m, s.ready_nodes[j]>> \in Edges
        PROVE  \E i \in 1 .. j - 1 : i <= k + 1 /\ s.ready_nodes[i] = m
    <3>1. PICK i \in 1 .. j - 1 : i <= k /\ s.ready_nodes[i] = m
      BY <2>5, <2>6 DEF ReadyInOrder
    <3>2. i <= k + 1
      BY <3>1
    <3> QED BY <3>1, <3>2
  <2>7. ReadyInOrder(k + 1, s)
    BY <2>3, <2>5, <2>6 DEF ReadyInOrder
  <2> QED BY <2>1, <2>4, <2>7 DEF Worklist
<1> QED BY <1>1, <1>2

\* g lists the tables turn by turn.
Follows(cost, N, g) ==
    /\ g[0] = prepared(cost)
    /\ \A k \in 1 .. N : Worklist(cost, k - 1, g[k - 1]) => g[k] = turnOf(cost, k, g[k - 1])

LEMMA FollowsWorklist ==
    ASSUME Graph, NEW cost \in [nodes -> Nat], NEW N \in Nat, NEW g, Follows(cost, N, g)
    PROVE  \A k \in 0 .. N : Worklist(cost, k, g[k])
<1> DEFINE P == {k \in Nat : k <= N => Worklist(cost, k, g[k])}
<1>1. 0 \in P
  BY PreparedWorklist DEF Follows
<1>2. ASSUME NEW k \in P PROVE k + 1 \in P
  <2> SUFFICES ASSUME k + 1 <= N PROVE Worklist(cost, k + 1, g[k + 1])
    OBVIOUS
  <2>1. k + 1 \in 1 .. N /\ (k + 1) - 1 = k /\ k <= N
    OBVIOUS
  <2>2. g[k + 1] = turnOf(cost, k + 1, g[k])
    BY <2>1 DEF Follows
  <2> QED BY <2>1, <2>2, TurnKeepsWorklist
<1>3. P = Nat
  <2>1. P \in SUBSET Nat
    OBVIOUS
  <2> HIDE DEF P
  <2> QED BY <1>1, <1>2, <2>1, Inductive
<1> SUFFICES ASSUME NEW k \in 0 .. N PROVE Worklist(cost, k, g[k])
  OBVIOUS
<1>4. k \in P /\ k <= N
  <2>1. k \in Nat /\ k <= N
    OBVIOUS
  <2> HIDE DEF P
  <2> QED BY <1>3, <2>1
<1> QED BY <1>4

\* What the worklist leaves when it has run dry.
Settled(cost, s) ==
    Worklist(cost, Cardinality(nodes), s) /\ Len(s.ready_nodes) <= Cardinality(nodes)

\* There are no more turns than nodes: the worklist names none twice.
LEMMA SettledWorklist ==
    ASSUME Graph, NEW cost \in [nodes -> Nat]
    PROVE  Settled(cost, settled(cost))
<1> DEFINE N == Cardinality(nodes)
           D == 0 .. N
           base == {0}
           rank == [k \in D |-> k]
           b == [k \in D |-> prepared(cost)]
           p == [k \in D |-> IF k = 0 THEN 0 ELSE k - 1]
           F == [x \in D \X Worklists |-> IF turnOf(cost, x[1], x[2]) \in Worklists
                                          THEN turnOf(cost, x[1], x[2]) ELSE x[2]]
           turn == CHOOSE f : f = [ready_cursor \in D |->
                       IF ready_cursor = 0 THEN prepared(cost)
                       ELSE IF ready_cursor <= Len(f[ready_cursor - 1].ready_nodes)
                            THEN visit(cost, f[ready_cursor - 1],
                                       f[ready_cursor - 1].ready_nodes[ready_cursor])
                            ELSE f[ready_cursor - 1]]
<1>1. N \in Nat
  BY GraphIsFinite
<1>2. settled(cost) = turn[N]
  BY Zenon DEF settled
<1> HIDE DEF N
<1>3. Worklist(cost, 0, prepared(cost)) /\ prepared(cost) \in Worklists
  BY PreparedWorklist DEF Worklist
<1>4. PICK f \in [D -> Worklists] :
         \A k \in D : f[k] = IF k \in base THEN b[k] ELSE F[<<k, f[p[k]]>>]
  <2>1. rank \in [D -> 0 .. N] /\ b \in [D -> Worklists] /\ p \in [D -> D]
    BY <1>1, <1>3
  <2>2. F \in [D \X Worklists -> Worklists]
    <3> HIDE DEF D
    <3> QED OBVIOUS
  <2>3. \A k \in D : k \notin base => rank[p[k]] < rank[k]
    BY <1>1
  <2>4. IsRecursion(D, Worklists, N, rank, base, b, p, F)
    <3> HIDE DEF D, base, rank, b, p, F
    <3> QED BY <1>1, <2>1, <2>2, <2>3 DEF IsRecursion
  <2> HIDE DEF D, base, rank, b, p, F
  <2> QED BY <2>4, RecursionExists
<1>5. Follows(cost, N, f)
  <2>1. f[0] = prepared(cost)
    <3>1. 0 \in D /\ 0 \in base
      BY <1>1
    <3> HIDE DEF D, base
    <3> QED BY <1>4, <3>1
  <2>2. ASSUME NEW k \in 1 .. N, Worklist(cost, k - 1, f[k - 1])
        PROVE  f[k] = turnOf(cost, k, f[k - 1])
    <3>1. /\ k \in D /\ k - 1 \in D /\ k - 1 \in Nat /\ (k - 1) + 1 = k
          /\ p[k] = k - 1 /\ k \notin base
      BY <1>1
    <3>2. Worklist(cost, k, turnOf(cost, k, f[k - 1]))
      <4>1. Worklist(cost, (k - 1) + 1, turnOf(cost, (k - 1) + 1, f[k - 1]))
        BY <2>2, <3>1, TurnKeepsWorklist
      <4> QED BY <3>1, <4>1
    <3>3. f[k - 1] \in Worklists /\ turnOf(cost, k, f[k - 1]) \in Worklists
      BY <2>2, <3>2 DEF Worklist
    <3>4. F[<<k, f[k - 1]>>] = turnOf(cost, k, f[k - 1])
      <4> HIDE DEF D
      <4> QED BY <3>1, <3>3
    <3>5. f[k] = F[<<k, f[k - 1]>>]
      <4> HIDE DEF D, F, p, base
      <4> QED BY <1>4, <3>1
    <3> QED BY <3>4, <3>5
  <2> QED BY <2>1, <2>2 DEF Follows
<1>6. \A k \in D : Worklist(cost, k, f[k])
  BY <1>1, <1>5, FollowsWorklist
<1>7. f = [ready_cursor \in D |->
              IF ready_cursor = 0 THEN prepared(cost)
              ELSE IF ready_cursor <= Len(f[ready_cursor - 1].ready_nodes)
                   THEN visit(cost, f[ready_cursor - 1],
                              f[ready_cursor - 1].ready_nodes[ready_cursor])
                   ELSE f[ready_cursor - 1]]
  <2>1. ASSUME NEW k \in D
        PROVE  f[k] = IF k = 0 THEN prepared(cost)
                      ELSE IF k <= Len(f[k - 1].ready_nodes)
                           THEN visit(cost, f[k - 1], f[k - 1].ready_nodes[k])
                           ELSE f[k - 1]
    <3>1. CASE k = 0
      BY <1>5, <3>1 DEF Follows
    <3>2. CASE k # 0
      <4>1. k - 1 \in D /\ k \in 1 .. N
        BY <1>1, <3>2
      <4>2. f[k] = turnOf(cost, k, f[k - 1])
        BY <1>5, <1>6, <4>1 DEF Follows
      <4> QED BY <3>2, <4>2 DEF turnOf
    <3> QED BY <3>1, <3>2
  <2> HIDE DEF D
  <2> QED BY <1>4, <2>1
<1>8. turn = [ready_cursor \in D |->
              IF ready_cursor = 0 THEN prepared(cost)
              ELSE IF ready_cursor <= Len(turn[ready_cursor - 1].ready_nodes)
                   THEN visit(cost, turn[ready_cursor - 1],
                              turn[ready_cursor - 1].ready_nodes[ready_cursor])
                   ELSE turn[ready_cursor - 1]]
  BY <1>7, Zenon
<1> HIDE DEF turn
<1>9. Follows(cost, N, turn)
  <2>1. turn[0] = prepared(cost)
    <3>1. 0 \in D
      BY <1>1
    <3> HIDE DEF D
    <3> QED BY <1>8, <3>1
  <2>2. ASSUME NEW k \in 1 .. N PROVE turn[k] = turnOf(cost, k, turn[k - 1])
    <3>1. k \in D /\ k # 0
      BY <1>1
    <3> HIDE DEF D
    <3> QED BY <1>8, <3>1 DEF turnOf
  <2> QED BY <2>1, <2>2 DEF Follows
<1>10. Worklist(cost, N, settled(cost))
  <2>1. N \in 0 .. N
    BY <1>1
  <2> QED BY <1>1, <1>2, <1>9, <2>1, FollowsWorklist
<1> DEFINE R == settled(cost).ready_nodes
<1>11. R \in Seq(nodes) /\ \A i, j \in 1 .. Len(R) : R[i] = R[j] => i = j
  BY <1>10 DEF Worklist, Worklists, ReadyInOrder
<1> HIDE DEF R
<1>12. Len(R) <= N
  <2>1. Len(R) \in Nat /\ R \in [1 .. Len(R) -> nodes]
    BY <1>11
  <2>2. R \in Injection(1 .. Len(R), nodes)
    BY <1>11, <2>1 DEF Injection, IsInjective
  <2>3. Cardinality(1 .. Len(R)) = Len(R)
    <3>1. 1 \in Int /\ Len(R) \in Int /\ (1 > Len(R) => Len(R) = 0) /\ Len(R) - 1 + 1 = Len(R)
      BY <2>1
    <3>2. Cardinality(1 .. Len(R)) = IF 1 > Len(R) THEN 0 ELSE Len(R) - 1 + 1
      BY <3>1, FS_Interval
    <3> QED BY <3>1, <3>2
  <2>4. IsFiniteSet(nodes)
    BY GraphIsFinite
  <2> QED BY <2>2, <2>3, <2>4, FS_Injection DEF N
<1> QED BY <1>10, <1>12 DEF Settled, N, R

-----------------------------------------------------------------------------
(* The path. *)

\* Along the predecessors the rank goes down, to a node without one.
Descends(cost, s, rank) ==
    /\ rank \in [nodes -> 0 .. Cardinality(nodes) + 1]
    /\ \A n \in nodes :
          IF s.predecessor[n] = NoNode THEN s.distance[n] = cost[n]
          ELSE /\ s.predecessor[n] \in nodes /\ <<s.predecessor[n], n>> \in Edges
               /\ s.distance[n] = s.distance[s.predecessor[n]] + cost[n]
               /\ rank[s.predecessor[n]] < rank[n]

\* The rank is the place on the worklist; a node that has none comes last.
LEMMA PredecessorsDescend ==
    ASSUME Graph, NEW cost, NEW s, Settled(cost, s)
    PROVE  \E rank : Descends(cost, s, rank)
<1> DEFINE R == s.ready_nodes
           N == Cardinality(nodes)
           V == visited(N, s)
           place(n) == CHOOSE i \in 1 .. Len(R) : R[i] = n
           rank == [n \in nodes |-> IF n \in V THEN place(n) ELSE N + 1]
<1>1. N \in Nat /\ R \in Seq(nodes) /\ Len(R) <= N /\ Len(R) \in Nat
  BY GraphIsFinite DEF Settled, Worklist, Worklists
<1> HIDE DEF R, N
<1>2. \A n \in V : n \in nodes /\ place(n) \in 1 .. Len(R) /\ R[place(n)] = n
  BY <1>1 DEF visited, R
<1>3. \A i, j \in 1 .. Len(R) : R[i] = R[j] => i = j
  BY DEF Settled, Worklist, ReadyInOrder, R
<1>4. ASSUME NEW n \in nodes PROVE rank[n] \in 0 .. N + 1
  <2>1. CASE n \in V
    <3>1. rank[n] = place(n) /\ place(n) \in 1 .. Len(R)
      BY <1>2, <2>1
    <3> QED BY <1>1, <3>1
  <2>2. CASE n \notin V
    BY <1>1, <2>2
  <2> QED BY <2>1, <2>2
<1>5. ASSUME NEW n \in nodes, s.predecessor[n] # NoNode
      PROVE  rank[s.predecessor[n]] < rank[n]
  <2> DEFINE m == s.predecessor[n]
  <2>1. m \in V /\ <<m, n>> \in Edges
    BY <1>5 DEF Settled, Worklist, DistancesHold, N
  <2>2. m \in nodes /\ rank[m] = place(m) /\ place(m) \in 1 .. Len(R)
    BY <1>2, <2>1
  <2> HIDE DEF m
  <2>3. CASE n \in V
    <3>1. place(n) \in 1 .. Len(R) /\ R[place(n)] = n /\ rank[n] = place(n)
      BY <1>2, <2>3
    <3>2. PICK i \in 1 .. place(n) - 1 : R[i] = m
      <4> HIDE DEF place
      <4> QED BY <2>1, <2>2, <3>1 DEF Settled, Worklist, ReadyInOrder, R
    <3>3. i \in 1 .. Len(R)
      BY <1>1, <3>1
    <3>4. i = place(m)
      BY <1>2, <1>3, <2>1, <2>2, <3>2, <3>3
    <3> QED
      <4> HIDE DEF place
      <4> QED BY <1>1, <2>2, <3>1, <3>2, <3>4 DEF m
  <2>4. CASE n \notin V
    <3>1. rank[n] = N + 1
      BY <2>4
    <3> QED
      <4> HIDE DEF place
      <4> QED BY <1>1, <2>2, <3>1 DEF m
  <2> QED BY <2>3, <2>4
<1>6. rank \in [nodes -> 0 .. N + 1]
  BY <1>4
<1>7. ASSUME NEW n \in nodes, s.predecessor[n] # NoNode
      PROVE  /\ s.predecessor[n] \in nodes /\ <<s.predecessor[n], n>> \in Edges
             /\ s.distance[n] = s.distance[s.predecessor[n]] + cost[n]
  BY <1>2, <1>7 DEF Settled, Worklist, DistancesHold, N
<1>8. \A n \in nodes : s.predecessor[n] = NoNode => s.distance[n] = cost[n]
  BY DEF Settled, Worklist, DistancesHold
<1> HIDE DEF rank
<1> QED BY <1>5, <1>6, <1>7, <1>8 DEF Descends, N

\* What a path of one node costs, and one with a node more.
LEMMA CostOfOne ==
    ASSUME NEW cost \in [nodes -> Nat], NEW n \in nodes
    PROVE  costOf(<<n>>, cost) = cost[n]
<1> DEFINE q == <<n>>
<1>1. q \in Seq(nodes) /\ Len(q) = 1 /\ q[1] = n
  OBVIOUS
<1> HIDE DEF q
<1>2. PICK sum : SumsUp(sum, Len(q), cost, q) /\ costOf(q, cost) = sum[Len(q)]
  BY <1>1, CostIsSum
<1>3. sum[1] = sum[1 - 1] + cost[q[1]] /\ sum[0] = 0
  BY <1>1, <1>2 DEF SumsUp
<1> QED BY <1>1, <1>2, <1>3 DEF q

LEMMA CostOfAppended ==
    ASSUME NEW cost \in [nodes -> Nat], NEW q \in Seq(nodes), NEW n \in nodes
    PROVE  costOf(Append(q, n), cost) = costOf(q, cost) + cost[n]
<1> DEFINE r == Append(q, n)
           l == Len(q)
<1>1. r \in Seq(nodes) /\ Len(r) = l + 1 /\ r[l + 1] = n /\ l \in Nat
      /\ \A i \in 1 .. l : r[i] = q[i]
  OBVIOUS
<1>2. PICK f : SumsUp(f, l, cost, q) /\ costOf(q, cost) = f[l]
  BY CostIsSum
<1> HIDE DEF r, l
<1>3. PICK g : SumsUp(g, l + 1, cost, r) /\ costOf(r, cost) = g[l + 1]
  <2>1. PICK g : SumsUp(g, Len(r), cost, r) /\ costOf(r, cost) = g[Len(r)]
    BY <1>1, CostIsSum
  <2> QED BY <1>1, <2>1
<1> DEFINE P == {i \in Nat : i <= l => f[i] = g[i]}
<1>4. 0 \in P
  BY <1>2, <1>3 DEF SumsUp
<1>5. ASSUME NEW i \in P PROVE i + 1 \in P
  <2> SUFFICES ASSUME i + 1 <= l PROVE f[i + 1] = g[i + 1]
    OBVIOUS
  <2>1. i + 1 \in 1 .. l /\ i + 1 \in 1 .. l + 1 /\ (i + 1) - 1 = i /\ i <= l
    BY <1>1
  <2>2. f[i + 1] = f[i] + cost[q[i + 1]]
    BY <1>2, <2>1 DEF SumsUp
  <2>3. g[i + 1] = g[i] + cost[r[i + 1]]
    BY <1>3, <2>1 DEF SumsUp
  <2> QED BY <1>1, <2>1, <2>2, <2>3
<1>6. f[l] = g[l]
  <2>1. P \in SUBSET Nat
    OBVIOUS
  <2>2. l \in P
    <3> HIDE DEF P
    <3> QED BY <1>1, <1>4, <1>5, <2>1, Inductive
  <2> QED BY <1>1, <2>2
<1>7. g[l + 1] = g[l] + cost[n]
  <2>1. l + 1 \in 1 .. l + 1 /\ (l + 1) - 1 = l
    BY <1>1
  <2>2. g[l + 1] = g[(l + 1) - 1] + cost[r[l + 1]]
    BY <1>3, <2>1 DEF SumsUp
  <2> QED BY <1>1, <2>1, <2>2
<1> QED BY <1>2, <1>3, <1>6, <1>7 DEF r

\* The path to node n along the predecessors.
pathsOf(s) ==
    CHOOSE f : f = [n \in nodes |-> IF s.predecessor[n] = NoNode THEN <<n>>
                                    ELSE Append(f[s.predecessor[n]], n)]

\* A path that ends in n, visits no node twice and costs what the tables say.
LeadsTo(cost, s, rank, q, n) ==
    /\ q \in Seq(nodes) /\ Len(q) > 0 /\ q[Len(q)] = n
    /\ isPath(q)
    /\ \A i, j \in 1 .. Len(q) : i < j => rank[q[i]] < rank[q[j]]
    /\ costOf(q, cost) = s.distance[n]

\* A node without a predecessor is its own path; the others extend one.
LEMMA FirstLeads ==
    ASSUME Graph, NEW cost \in [nodes -> Nat], NEW s, NEW rank, NEW n \in nodes,
           s.distance[n] = cost[n]
    PROVE  LeadsTo(cost, s, rank, <<n>>, n)
<1>1. /\ <<n>> \in Seq(nodes) /\ Len(<<n>>) = 1 /\ <<n>>[1] = n
      /\ \A i, j \in 1 .. 1 : ~(i < j) /\ 1 .. 1 - 1 = {}
  OBVIOUS
<1>2. isPath(<<n>>)
  BY <1>1 DEF isPath
<1> QED BY <1>1, <1>2, CostOfOne DEF LeadsTo

LEMMA AppendedLeads ==
    ASSUME Graph, NEW cost \in [nodes -> Nat], NEW s, NEW rank, Descends(cost, s, rank),
           NEW n \in nodes, NEW m \in nodes, NEW q, LeadsTo(cost, s, rank, q, m),
           s.predecessor[n] = m
    PROVE  LeadsTo(cost, s, rank, Append(q, n), n)
<1> DEFINE r == Append(q, n)
           l == Len(q)
<1>1. /\ r \in Seq(nodes) /\ Len(r) = l + 1 /\ r[l + 1] = n /\ l \in Nat /\ l > 0
      /\ \A i \in 1 .. l : r[i] = q[i] /\ q[i] \in nodes
  BY DEF LeadsTo
<1>2. <<m, n>> \in Edges /\ s.distance[n] = s.distance[m] + cost[n] /\ rank[m] < rank[n]
  BY GraphIsFinite DEF Descends
<1>3. \A k \in nodes : rank[k] \in Nat
  BY GraphIsFinite DEF Descends
<1>4. q[l] = m
  BY DEF LeadsTo
<1>5. isPath(r)
  <2> SUFFICES ASSUME NEW i \in 1 .. l PROVE <<r[i], r[i + 1]>> \in Edges
    BY <1>1 DEF isPath
  <2>1. CASE i = l
    BY <1>1, <1>2, <1>4, <2>1
  <2>2. CASE i # l
    <3>1. i \in 1 .. l - 1 /\ i + 1 \in 1 .. l
      BY <1>1, <2>2
    <3> HIDE DEF r
    <3> QED BY <1>1, <3>1 DEF LeadsTo, isPath
  <2> QED BY <2>1, <2>2
<1>6. ASSUME NEW i \in 1 .. l + 1, NEW j \in 1 .. l + 1, i < j
      PROVE  rank[r[i]] < rank[r[j]]
  <2>1. i \in 1 .. l
    BY <1>1, <1>6
  <2>2. CASE j \in 1 .. l
    <3> HIDE DEF r
    <3> QED BY <1>1, <1>6, <2>1, <2>2 DEF LeadsTo
  <2>3. CASE j = l + 1
    <3>1. rank[r[j]] = rank[n] /\ r[i] = q[i] /\ q[i] \in nodes
      BY <1>1, <2>1, <2>3
    <3>2. i = l \/ i < l
      BY <1>1, <2>1
    <3>3. CASE i = l
      BY <1>2, <1>4, <3>1, <3>3
    <3>4. CASE i < l
      <4>1. rank[q[i]] < rank[q[l]] /\ l \in 1 .. l
        BY <1>1, <2>1, <3>4 DEF LeadsTo
      <4>2. rank[q[i]] \in Nat /\ rank[m] \in Nat /\ rank[n] \in Nat
        BY <1>3, <3>1
      <4> HIDE DEF r, l
      <4> QED BY <1>2, <1>4, <3>1, <4>1, <4>2
    <3> QED BY <3>2, <3>3, <3>4
  <2> QED BY <1>1, <2>2, <2>3
<1>7. costOf(r, cost) = s.distance[n]
  <2>1. q \in Seq(nodes) /\ costOf(q, cost) = s.distance[m]
    BY DEF LeadsTo
  <2> QED BY <1>2, <2>1, CostOfAppended
<1> HIDE DEF r, l
<1> QED BY <1>1, <1>5, <1>6, <1>7 DEF LeadsTo, r

\* By induction on the rank, the predecessors lead to every node.
LEMMA PathsLead ==
    ASSUME Graph, NEW cost \in [nodes -> Nat], NEW s, NEW rank, Descends(cost, s, rank)
    PROVE  \A n \in nodes : LeadsTo(cost, s, rank, pathsOf(s)[n], n)
<1> DEFINE N == Cardinality(nodes) + 1
           base == {n \in nodes : s.predecessor[n] = NoNode}
           b == [n \in nodes |-> <<n>>]
           p == [n \in nodes |-> IF n \in base THEN n ELSE s.predecessor[n]]
           F == [x \in nodes \X Seq(nodes) |-> Append(x[2], x[1])]
           paths == pathsOf(s)
<1>1. N \in Nat
  BY GraphIsFinite
<1>2. IsRecursion(nodes, Seq(nodes), N, rank, base, b, p, F)
  <2>1. rank \in [nodes -> 0 .. N] /\ b \in [nodes -> Seq(nodes)] /\ p \in [nodes -> nodes]
    <3>1. rank \in [nodes -> 0 .. N]
      BY DEF Descends
    <3>2. \A n \in nodes : n \notin base => s.predecessor[n] \in nodes
      BY DEF Descends
    <3>3. p \in [nodes -> nodes]
      <4> HIDE DEF base
      <4> QED BY <3>2
    <3>4. b \in [nodes -> Seq(nodes)]
      OBVIOUS
    <3> QED BY <3>1, <3>3, <3>4
  <2>2. F \in [nodes \X Seq(nodes) -> Seq(nodes)]
    OBVIOUS
  <2>3. \A n \in nodes : n \notin base => rank[p[n]] < rank[n]
    BY DEF Descends
  <2> HIDE DEF N, base, b, p, F
  <2> QED BY <1>1, <2>1, <2>2, <2>3 DEF IsRecursion
<1>3. PICK f \in [nodes -> Seq(nodes)] :
         \A n \in nodes : f[n] = IF n \in base THEN b[n] ELSE F[<<n, f[p[n]]>>]
  <2> HIDE DEF N, base, b, p, F
  <2> QED BY <1>2, RecursionExists
<1>4. f = [n \in nodes |-> IF s.predecessor[n] = NoNode THEN <<n>>
                           ELSE Append(f[s.predecessor[n]], n)]
  <2>1. ASSUME NEW n \in nodes
        PROVE  f[n] = IF s.predecessor[n] = NoNode THEN <<n>> ELSE Append(f[s.predecessor[n]], n)
    <3>1. CASE s.predecessor[n] = NoNode
      BY <1>3, <3>1
    <3>2. CASE s.predecessor[n] # NoNode
      <4>1. p[n] = s.predecessor[n] /\ p[n] \in nodes /\ n \notin base
        BY <3>2 DEF Descends
      <4>2. f[p[n]] \in Seq(nodes)
        BY <1>3, <4>1
      <4>3. F[<<n, f[p[n]]>>] = Append(f[p[n]], n)
        <5> HIDE DEF p
        <5> QED BY <4>2
      <4> QED BY <1>3, <3>2, <4>1, <4>3
    <3> QED BY <3>1, <3>2
  <2> QED BY <1>3, <2>1
<1>5. paths = [n \in nodes |-> IF s.predecessor[n] = NoNode THEN <<n>>
                               ELSE Append(paths[s.predecessor[n]], n)]
  BY <1>4, Zenon DEF pathsOf
<1> HIDE DEF paths
<1> DEFINE P == {k \in Nat : \A n \in nodes : rank[n] < k => LeadsTo(cost, s, rank, paths[n], n)}
<1>6. \A n \in nodes : rank[n] \in Nat /\ rank[n] < N + 1
  BY <1>1 DEF Descends
<1> HIDE DEF N
<1>7. 0 \in P
  <2>1. \A n \in nodes : ~(rank[n] < 0)
    BY <1>6
  <2> QED BY <2>1
<1>8. ASSUME NEW k \in P PROVE k + 1 \in P
  <2> SUFFICES ASSUME NEW n \in nodes, rank[n] < k + 1 PROVE LeadsTo(cost, s, rank, paths[n], n)
    OBVIOUS
  <2>1. CASE s.predecessor[n] = NoNode
    <3>1. paths[n] = <<n>> /\ s.distance[n] = cost[n]
      BY <1>5, <2>1 DEF Descends
    <3> QED BY <3>1, FirstLeads
  <2>2. CASE s.predecessor[n] # NoNode
    <3> DEFINE m == s.predecessor[n]
    <3>1. paths[n] = Append(paths[m], n) /\ m \in nodes /\ rank[m] < rank[n]
      BY <1>5, <2>2 DEF Descends
    <3> HIDE DEF m
    <3>2. rank[m] < k
      BY <1>6, <3>1
    <3>3. LeadsTo(cost, s, rank, paths[m], m)
      BY <3>1, <3>2
    <3> QED BY <3>1, <3>3, AppendedLeads DEF m
  <2> QED BY <2>1, <2>2
<1>9. N + 1 \in P
  <2>1. P \in SUBSET Nat
    OBVIOUS
  <2> HIDE DEF P
  <2> QED BY <1>1, <1>7, <1>8, <2>1, Inductive
<1> QED BY <1>6, <1>9 DEF paths

\* Among finitely many nodes one is farthest.
LEMMA FarthestExists ==
    ASSUME Graph, nodes # {}, NEW d \in [nodes -> Nat]
    PROVE  \E e \in nodes : \A n \in nodes : d[n] <= d[e]
<1> DEFINE P == {k \in Nat : (\E n \in nodes : n <= k) =>
                   \E e \in nodes : e <= k /\ \A n \in nodes : n <= k => d[n] <= d[e]}
<1>1. MaxNodes \in Nat /\ \A n \in nodes : n \in Nat /\ n <= MaxNodes /\ n # 0
  BY FramePlanAssumption DEF Graph, Ids, FramePlanAssumption
<1>2. 0 \in P
  <2>1. \A n \in nodes : ~(n <= 0)
    BY <1>1
  <2> QED BY <2>1
<1>3. ASSUME NEW k \in P PROVE k + 1 \in P
  <2> SUFFICES ASSUME NEW n \in nodes, n <= k + 1
               PROVE  \E e \in nodes : e <= k + 1 /\ \A m \in nodes : m <= k + 1 => d[m] <= d[e]
    OBVIOUS
  <2>0. \A m \in nodes : m <= k + 1 <=> m <= k \/ m = k + 1
    BY <1>1
  <2>1. CASE \A m \in nodes : ~(m <= k)
    <3>1. \A m \in nodes : m <= k + 1 => m = n
      BY <2>0, <2>1
    <3>2. d[n] <= d[n]
      OBVIOUS
    <3> QED BY <3>1, <3>2
  <2>2. CASE \E m \in nodes : m <= k
    <3>1. PICK e \in nodes : e <= k /\ \A m \in nodes : m <= k => d[m] <= d[e]
      BY <2>2
    <3>2. CASE k + 1 \in nodes /\ d[e] < d[k + 1]
      <4>1. ASSUME NEW m \in nodes, m <= k + 1 PROVE d[m] <= d[k + 1]
        <5>1. d[m] \in Nat /\ d[e] \in Nat /\ d[k + 1] \in Nat
          BY <3>2
        <5>2. m <= k \/ m = k + 1
          BY <2>0, <4>1
        <5> QED BY <3>1, <3>2, <5>1, <5>2
      <4>2. k + 1 <= k + 1
        OBVIOUS
      <4> QED BY <3>2, <4>1, <4>2
    <3>3. CASE ~(k + 1 \in nodes /\ d[e] < d[k + 1])
      <4>1. ASSUME NEW m \in nodes, m <= k + 1 PROVE d[m] <= d[e]
        <5>1. d[m] \in Nat /\ d[e] \in Nat
          OBVIOUS
        <5>2. m <= k \/ m = k + 1
          BY <2>0, <4>1
        <5> QED BY <3>1, <3>3, <5>1, <5>2
      <4>2. e <= k + 1
        BY <2>0, <3>1
      <4> QED BY <4>1, <4>2
    <3> QED BY <3>2, <3>3
  <2> QED BY <2>1, <2>2
<1>4. MaxNodes \in P
  <2>1. P \in SUBSET Nat
    OBVIOUS
  <2> HIDE DEF P
  <2> QED BY <1>1, <1>2, <1>3, <2>1, Inductive
<1> QED BY <1>1, <1>4

\* The report follows the predecessors of a farthest node.
LEMMA ReportedPath ==
    ASSUME Graph, nodes # {}, NEW cost \in [nodes -> Nat]
    PROVE  \E e \in nodes :
              /\ critical_path(cost).nodes = pathsOf(settled(cost))[e]
              /\ critical_path(cost).total = settled(cost).distance[e]
              /\ \A n \in nodes : settled(cost).distance[n] <= settled(cost).distance[e]
<1> DEFINE s == settled(cost)
           farthest == {n \in nodes : \A m \in nodes : s.distance[m] <= s.distance[n]}
           end == CHOOSE n \in farthest : \A m \in farthest : n <= m
<1>1. s.distance \in [nodes -> Nat]
  BY SettledWorklist DEF Settled, Worklist, Worklists
<1>2. /\ critical_path(cost).nodes = pathsOf(s)[end]
      /\ critical_path(cost).total = s.distance[end]
  <2>1. critical_path(cost) = [nodes |-> pathsOf(s)[end], total |-> s.distance[end]]
    BY Zenon DEF critical_path, pathsOf
  <2> QED BY <2>1
<1> HIDE DEF s
<1>3. farthest # {} /\ farthest \in SUBSET Nat
  BY <1>1, FarthestExists, GraphIsFinite
<1> HIDE DEF farthest
<1>4. end \in farthest
  BY <1>3, LeastNatural
<1> QED BY <1>2, <1>4 DEF s, farthest

-----------------------------------------------------------------------------
(* The critical path is a longest path. *)

(***************************************************************************)
(* The worklist visits its nodes in the order of the edges, so the         *)
(* distances it leaves are those of paths, and no visited node's edge      *)
(* would lengthen one.                                                     *)
(***************************************************************************)
\* A compiled plan is a graph, and the estimates are natural.
LEMMA CompiledGraph == TypeOK /\ stage = "compiled" => Graph
BY FramePlanAssumption DEF TypeOK, Graph, Edges, Ids, FramePlanAssumption

LEMMA EstimatesAreCosts == \A cost \in [nodes -> Costs] : cost \in [nodes -> Nat]
BY CriticalPathAssumption DEF CriticalPathAssumption

(***************************************************************************)
(* The critical path of the profile report is a path of the graph: each of *)
(* its nodes is a successor of the one before, none comes twice, and the   *)
(* total reported is what its nodes cost.                                  *)
(***************************************************************************)
THEOREM ReportedPathsArePaths == Spec => []CriticalPathIsPath
<1>1. TypeOK => CriticalPathIsPath
  <2> SUFFICES ASSUME TypeOK, stage = "compiled", nodes # {}, NEW cost \in [nodes -> Costs]
               PROVE  /\ isPath(critical_path(cost).nodes)
                      /\ IsInjective(critical_path(cost).nodes)
                      /\ critical_path(cost).total = costOf(critical_path(cost).nodes, cost)
    BY DEF CriticalPathIsPath, reported
  <2> DEFINE s == settled(cost)
             q == critical_path(cost).nodes
  <2>1. Graph /\ cost \in [nodes -> Nat]
    BY CompiledGraph, EstimatesAreCosts
  <2>2. PICK e \in nodes : q = pathsOf(s)[e] /\ critical_path(cost).total = s.distance[e]
    BY <2>1, ReportedPath
  <2>3. PICK rank : Descends(cost, s, rank)
    BY <2>1, SettledWorklist, PredecessorsDescend
  <2> HIDE DEF s, q
  <2>4. LeadsTo(cost, s, rank, q, e)
    BY <2>1, <2>2, <2>3, PathsLead
  <2>5. q \in Seq(nodes) /\ \A n \in nodes : rank[n] \in Nat
    BY <2>1, <2>3, <2>4, GraphIsFinite DEF LeadsTo, Descends
  <2>6. ASSUME NEW i \in 1 .. Len(q), NEW j \in 1 .. Len(q), q[i] = q[j] PROVE i = j
    <3>1. ~(rank[q[i]] < rank[q[j]]) /\ ~(rank[q[j]] < rank[q[i]])
      BY <2>5, <2>6
    <3>2. ~(i < j) /\ ~(j < i)
      BY <2>4, <3>1 DEF LeadsTo
    <3> QED BY <2>5, <3>2
  <2>7. IsInjective(q)
    BY <2>5, <2>6 DEF IsInjective
  <2> QED BY <2>2, <2>4, <2>7 DEF LeadsTo, q
<1> QED BY <1>1, TypeCorrect, PTL

\* A step backwards along an edge goes on to the nodes ahead.
LEMMA AheadOfEdge ==
    ASSUME Graph, NEW m, NEW n \in nodes, <<m, n>> \in Edges
    PROVE  Ahead(m, n) /\ \A k : Ahead(k, m) => Ahead(k, n)
<1>1. Reaches(n, n) /\ n \in successors(m)
  BY PathSelf DEF Reaches, successors
<1>2. ASSUME NEW k, Ahead(k, m) PROVE Ahead(k, n)
  <2>1. PICK j \in successors(k) : Reaches(j, m)
    BY <1>2 DEF Ahead
  <2>2. Reaches(j, n)
    BY <2>1, PathEdge, PathTrans DEF Reaches
  <2> QED BY <2>1, <2>2 DEF Ahead
<1> QED BY <1>1, <1>2 DEF Ahead

(***************************************************************************)
(* The worklist runs dry only when every node it has not visited is behind *)
(* a cycle: otherwise, among the nodes it has not visited and that lead to *)
(* a free one, take one with the fewest of them before it; one is missing, *)
(* and has fewer before it still.                                          *)
(***************************************************************************)
LEMMA FreeNodesAreVisited ==
    ASSUME Graph, NEW cost, NEW s, Settled(cost, s), NEW u \in nodes \ behindCycle
    PROVE  u \in visited(Cardinality(nodes), s)
<1> DEFINE N == Cardinality(nodes)
           V == visited(N, s)
           A == {x \in nodes \ V : Reaches(x, u)}
           B(x) == {y \in A : Ahead(y, x)}
<1> SUFFICES ASSUME u \notin V PROVE FALSE
  OBVIOUS
<1>1. u \in A
  BY PathSelf DEF Reaches
<1>2. ASSUME NEW x \in A PROVE \E y \in A : <<y, x>> \in Edges
  <2>1. missing(N, s, x) # {}
    <3> SUFFICES ASSUME missing(N, s, x) = {} PROVE FALSE
      OBVIOUS
    <3>1. PICK i \in 1 .. Len(s.ready_nodes) : s.ready_nodes[i] = x
      BY DEF Settled, Worklist, ReadyInOrder
    <3>2. i \in 1 .. N
      BY GraphIsFinite DEF Settled, Worklist, Worklists
    <3> QED BY <3>1, <3>2 DEF visited
  <2>2. PICK y \in nodes \ V : <<y, x>> \in Edges
    BY <2>1 DEF missing
  <2>3. Reaches(y, u)
    BY <2>2, PathEdge, PathTrans DEF Reaches
  <2> QED BY <2>2, <2>3
<1>3. \A x : B(x) \in SUBSET nodes
  OBVIOUS
<1>4. \A x : IsFiniteSet(B(x)) /\ Cardinality(B(x)) \in Nat
  <2> HIDE DEF B
  <2> QED BY <1>3, GraphIsFinite
<1> DEFINE T == {Cardinality(B(x)) : x \in A}
<1>5. PICK x \in A : \A y \in A : Cardinality(B(x)) <= Cardinality(B(y))
  <2> HIDE DEF A, B
  <2>1. T \in SUBSET Nat /\ T # {}
    BY <1>1, <1>4
  <2>2. PICK c \in T : \A d \in T : c <= d
    <3> HIDE DEF T
    <3> QED BY <2>1, LeastNatural
  <2> QED BY <2>2
<1>6. PICK y \in A : <<y, x>> \in Edges
  BY <1>2
<1>7. y \notin B(y)
  <2>1. Ahead(y, y) => u \in behindCycle
    BY DEF behindCycle
  <2> QED BY <2>1
<1>8. B(y) \subseteq B(x) \ {y} /\ y \in B(x)
  BY <1>6, <1>7, AheadOfEdge
<1> HIDE DEF B
<1>9. Cardinality(B(x) \ {y}) = Cardinality(B(x)) - 1 /\ IsFiniteSet(B(x) \ {y})
  BY <1>4, <1>8, FS_RemoveElement
<1>10. Cardinality(B(y)) <= Cardinality(B(x) \ {y})
  BY <1>8, <1>9, FS_Subset
<1>11. Cardinality(B(x)) <= Cardinality(B(y))
  BY <1>5
<1> QED BY <1>4, <1>9, <1>10, <1>11

\* What a path costs up to a node is at most the node's distance.
LEMMA PathsAreNoLonger ==
    ASSUME Graph, NEW cost \in [nodes -> Nat], NEW s, Settled(cost, s),
           NEW path \in Seq(nodes), Len(path) > 0, isPath(path),
           \A i \in 1 .. Len(path) - 1 : path[i] \notin behindCycle
    PROVE  costOf(path, cost) <= s.distance[path[Len(path)]]
<1> DEFINE l == Len(path)
           d == s.distance
<1>1. PICK sum : SumsUp(sum, l, cost, path) /\ costOf(path, cost) = sum[l]
  BY CostIsSum
<1>2. l \in Nat /\ l > 0 /\ \A i \in 1 .. l : path[i] \in nodes
  OBVIOUS
<1>3. \A n \in nodes : cost[n] \in Nat /\ d[n] \in Nat /\ cost[n] <= d[n]
  BY DEF Settled, Worklist, Worklists, DistancesHold
<1>4. ASSUME NEW i \in 1 .. l - 1 PROVE d[path[i]] + cost[path[i + 1]] <= d[path[i + 1]]
  <2>1. path[i] \in nodes \ behindCycle /\ path[i + 1] \in nodes
    BY <1>2
  <2>2. <<path[i], path[i + 1]>> \in Edges
    BY DEF isPath
  <2>3. path[i] \in visited(Cardinality(nodes), s)
    BY <2>1, FreeNodesAreVisited
  <2> QED BY <2>1, <2>2, <2>3 DEF Settled, Worklist, DistancesHold
<1> HIDE DEF l, d
<1> DEFINE P == {i \in Nat : i + 1 <= l => sum[i + 1] <= d[path[i + 1]]}
<1>5. \A i \in 0 .. l : sum[i] \in Nat
  BY <1>1 DEF SumsUp
<1>6. 0 \in P
  <2>1. 1 \in 1 .. l /\ 0 + 1 = 1 /\ 1 - 1 = 0
    BY <1>2
  <2>2. sum[1] = sum[0] + cost[path[1]] /\ sum[0] = 0
    BY <1>1, <2>1 DEF SumsUp
  <2>3. sum[1] <= d[path[1]]
    BY <1>2, <1>3, <2>1, <2>2
  <2> QED BY <2>1, <2>3
<1>7. ASSUME NEW i \in P PROVE i + 1 \in P
  <2> DEFINE j == i + 1
  <2> SUFFICES ASSUME j + 1 <= l PROVE sum[j + 1] <= d[path[j + 1]]
    OBVIOUS
  <2>1. /\ j \in 1 .. l - 1 /\ j \in 1 .. l /\ j + 1 \in 1 .. l
        /\ (j + 1) - 1 = j /\ j <= l /\ j \in 0 .. l
    BY <1>2
  <2>2. sum[j] <= d[path[j]]
    BY <2>1
  <2> HIDE DEF j
  <2>3. sum[j + 1] = sum[j] + cost[path[j + 1]]
    BY <1>1, <2>1 DEF SumsUp
  <2>4. d[path[j]] + cost[path[j + 1]] <= d[path[j + 1]]
    BY <1>4, <2>1
  <2>5. sum[j] \in Nat /\ d[path[j]] \in Nat /\ cost[path[j + 1]] \in Nat /\ d[path[j + 1]] \in Nat
    BY <1>2, <1>3, <1>5, <2>1
  <2> QED BY <2>2, <2>3, <2>4, <2>5
<1>8. l - 1 \in P
  <2>1. P \in SUBSET Nat /\ l - 1 \in Nat
    BY <1>2
  <2> HIDE DEF P
  <2> QED BY <1>6, <1>7, <2>1, Inductive
<1>9. (l - 1) + 1 = l /\ l <= l
  BY <1>2
<1>10. sum[l] <= d[path[l]]
  BY <1>8, <1>9
<1> QED BY <1>1, <1>10 DEF l, d

(***************************************************************************)
(* No path the profile report could have named costs more than the total   *)
(* it reports, whatever the estimates and the edges: a path may end, but   *)
(* not go on, behind a cycle, whose nodes the worklist never visits.       *)
(***************************************************************************)
THEOREM ReportedPathsAreLongest == Spec => []CriticalPathIsLongest
<1>1. TypeOK => CriticalPathIsLongest
  <2> DEFINE free == nodes \ behindCycle
             paths == {path \in SeqOf(nodes, Cardinality(nodes)) :
                         isPath(path) /\ \A i \in 1 .. Len(path) - 1 : path[i] \in free}
  <2> SUFFICES ASSUME TypeOK, stage = "compiled", nodes # {}, NEW cost \in [nodes -> Costs],
                      NEW path \in paths
               PROVE  costOf(path, cost) <= critical_path(cost).total
    BY DEF CriticalPathIsLongest, reported
  <2> DEFINE s == settled(cost)
  <2>1. Graph /\ cost \in [nodes -> Nat]
    BY CompiledGraph, EstimatesAreCosts
  <2>2. Settled(cost, s) /\ s.distance \in [nodes -> Nat]
    BY <2>1, SettledWorklist DEF Settled, Worklist, Worklists
  <2>3. PICK e \in nodes : /\ critical_path(cost).total = s.distance[e]
                           /\ \A n \in nodes : s.distance[n] <= s.distance[e]
    BY <2>1, ReportedPath
  <2>4. path \in Seq(nodes) /\ isPath(path)
    <3>1. PICK m \in 0 .. Cardinality(nodes) : path \in [1 .. m -> nodes]
      BY DEF SeqOf
    <3>2. m \in Nat
      BY <2>1, GraphIsFinite
    <3> QED BY <3>1, <3>2
  <2> HIDE DEF s
  <2>5. CASE Len(path) = 0
    <3>1. PICK sum : SumsUp(sum, Len(path), cost, path) /\ costOf(path, cost) = sum[Len(path)]
      BY <2>1, <2>4, CostIsSum
    <3> QED BY <2>2, <2>3, <2>5, <3>1 DEF SumsUp
  <2>6. CASE Len(path) > 0
    <3>1. costOf(path, cost) <= s.distance[path[Len(path)]]
      BY <2>1, <2>2, <2>4, <2>6, PathsAreNoLonger
    <3>2. path[Len(path)] \in nodes
      BY <2>4, <2>6
    <3>3. costOf(path, cost) \in Nat
      <4>1. PICK sum : SumsUp(sum, Len(path), cost, path) /\ costOf(path, cost) = sum[Len(path)]
        BY <2>1, <2>4, CostIsSum
      <4> QED BY <2>4, <4>1 DEF SumsUp
    <3> QED BY <2>2, <2>3, <3>1, <3>2, <3>3
  <2> QED BY <2>4, <2>5, <2>6
<1> QED BY <1>1, TypeCorrect, PTL

-----------------------------------------------------------------------------
(* The dispatch. *)

\* A run of the frame is a behaviour of its builder.
LEMMA RunStepIsPlanStep == [RunNext]_runVars => [Next]_vars
BY DEF RunNext, Build, Dispatch, RequestStop, Execute, Complete, Invoke, Finish, runVars

\* A dispatch changes nothing of the plan: a behaviour of FrameRun is one of its
\* builder, and what is proved of plans holds of the plans that run.
THEOREM RunKeepsPlan == RunSpec => Spec
<1>1. RunInit => Init
  BY DEF RunInit
<1> QED BY <1>1, RunStepIsPlanStep, PTL DEF RunSpec, Spec

(***************************************************************************)
(* The executor's tables: a node is scheduled only when its predecessors   *)
(* have finished, it is in one place at a time, and a node was skipped     *)
(* only if the token of the run was stopped.                               *)
(***************************************************************************)
Started == ready \cup running \cup done

Places ==
    /\ Started \subseteq nodes
    /\ skipped \subseteq running \cup done
    /\ ready \cap running = {} /\ ready \cap done = {} /\ running \cap done = {}

ExecInv ==
    /\ Places
    /\ Started # {} => stage = "compiled"
    /\ dispatched => stage = "compiled" /\ \A n \in nodes : pending[n] = predecessors(n) \ done
    /\ ~dispatched => ready = {} /\ running = {}
    /\ \A n \in Started : predecessors(n) \subseteq done
    /\ skipped # {} => stop_requested
    /\ skipped \cap NonCancellable = {}

LEMMA RunInitExec == RunInit => ExecInv
BY DEF RunInit, ExecInv, Places, Started

\* The builder is at rest while a compiled plan runs.
LEMMA BuildAtRest == Next => stage = "building"
BY DEF Next, Task, SystemTask, PhaseBarrier, addNode, Precede, SetAutoPhaseBarriers,
       Clear, Compile

LEMMA NextExec == TypeOK /\ ExecInv /\ [RunNext]_runVars => ExecInv'
<1> SUFFICES ASSUME TypeOK, ExecInv, [RunNext]_runVars PROVE ExecInv'
  OBVIOUS
<1>0. UNCHANGED vars => /\ nodes' = nodes /\ stage' = stage /\ Edges' = Edges
                        /\ \A n : predecessors(n)' = predecessors(n)
  BY DEF vars, plan, meta, Edges, predecessors
<1>1. CASE Build
  <2>1. stage = "building"
    BY <1>1, BuildAtRest DEF Build
  <2>2. Started = {} /\ ~dispatched /\ skipped = {}
    BY <2>1 DEF ExecInv, Places, Started
  <2> QED BY <1>1, <2>2 DEF Build, exec, ExecInv, Places, Started
<1>2. ASSUME NEW requested \in BOOLEAN, Dispatch(requested) PROVE ExecInv'
  <2>1. UNCHANGED vars /\ nodes \subseteq Ids
    BY <1>2, FramePlanAssumption DEF Dispatch, TypeOK, Ids, FramePlanAssumption
  <2>2. ready' = {n \in nodes : predecessors(n) = {}} /\ running' = {} /\ done' = {}
    BY <1>2 DEF Dispatch
  <2>3. skipped' = {} /\ dispatched' = TRUE /\ stage = "compiled"
    BY <1>2 DEF Dispatch
  <2>4. \A n \in nodes : pending'[n] = predecessors(n)
    BY <1>2, <2>1 DEF Dispatch
  <2>5. Started' = {n \in nodes : predecessors(n) = {}}
    BY <2>2 DEF Started
  <2> QED BY <1>0, <2>1, <2>2, <2>3, <2>4, <2>5 DEF ExecInv, Places
<1>3. CASE RequestStop
  BY <1>0, <1>3 DEF RequestStop, ExecInv, Places, Started
<1>4. ASSUME NEW n \in nodes, Invoke(n) PROVE ExecInv'
  <2>1. Started' = Started
    BY <1>4 DEF Invoke, Started
  <2>2. UNCHANGED vars /\ n \in ready /\ n \notin running /\ n \notin done
    BY <1>4 DEF Invoke, ExecInv, Places
  <2>3. Places'
    BY <1>0, <1>4, <2>1, <2>2 DEF Invoke, ExecInv, Places
  <2>4. (skipped' # {} => stop_requested') /\ skipped' \cap NonCancellable = {}
    BY <1>4 DEF Invoke, ExecInv
  <2>5. ready # {} /\ dispatched
    BY <2>2 DEF ExecInv
  <2> QED BY <1>0, <1>4, <2>1, <2>2, <2>3, <2>4, <2>5 DEF Invoke, ExecInv
<1>5. ASSUME NEW n \in nodes, Finish(n) PROVE ExecInv'
  <2> DEFINE released == {i \in nodes : pending[i] = {n}}
  <2>1. UNCHANGED vars /\ n \in running /\ n \notin done /\ n \notin ready
    BY <1>5 DEF Finish, ExecInv, Places
  <2>2. dispatched /\ dispatched' /\ stage = "compiled"
    BY <1>5, <2>1 DEF Finish, ExecInv
  <2>3. /\ ready' = ready \cup released /\ running' = running \ {n}
        /\ done' = done \cup {n} /\ skipped' = skipped /\ stop_requested' = stop_requested
    BY <1>5 DEF Finish
  <2>4. \A i \in released : n \in predecessors(i) /\ predecessors(i) \subseteq done'
    BY <2>2, <2>3 DEF ExecInv
  <2>5. released \cap Started = {}
    BY <2>1, <2>4 DEF ExecInv
  <2>6. Started' = Started \cup released
    BY <2>1, <2>3 DEF Started
  <2>7. Places'
    BY <1>0, <2>1, <2>3, <2>5, <2>6 DEF ExecInv, Places, Started
  <2>8. \A i \in Started' : predecessors(i) \subseteq done'
    BY <2>3, <2>4, <2>6 DEF ExecInv
  <2>9. \A i \in nodes : pending'[i] = predecessors(i) \ done'
    <3>1. nodes \subseteq Ids
      BY FramePlanAssumption DEF TypeOK, Ids, FramePlanAssumption
    <3> QED BY <1>5, <2>2, <2>3, <3>1 DEF Finish, ExecInv
  <2> QED BY <1>0, <2>1, <2>2, <2>3, <2>7, <2>8, <2>9 DEF ExecInv
<1>6. CASE Complete
  BY <1>0, <1>6 DEF Complete, ExecInv, Places, Started
<1>7. CASE UNCHANGED runVars
  BY <1>0, <1>7 DEF runVars, exec, ExecInv, Places, Started
<1> QED BY <1>1, <1>2, <1>3, <1>4, <1>5, <1>6, <1>7 DEF RunNext, Execute

LEMMA RunInvariant == RunSpec => [](TypeOK /\ ConflictOrdered /\ ExecInv)
<1>1. RunSpec => []TypeOK
  BY RunKeepsPlan, TypeCorrect, PTL
<1>2. RunSpec => []ConflictOrdered
  BY RunKeepsPlan, ConflictsAreOrdered, PTL
<1> QED BY <1>1, <1>2, RunInitExec, NextExec, PTL DEF RunSpec

(***************************************************************************)
(* The executor respects paths, not only edges: whatever reaches a node    *)
(* that was scheduled has finished.  The set closed under the edges is     *)
(* that of the nodes not scheduled, with m itself.                         *)
(***************************************************************************)
LEMMA StartedAfterPath ==
    ASSUME TypeOK, ExecInv, NEW m \in nodes, NEW n \in Started, m # n, Reaches(m, n)
    PROVE  m \in done
<1> SUFFICES ASSUME m \notin done PROVE FALSE
  OBVIOUS
<1> DEFINE S == {m} \cup {i \in nodes : i \notin Started}
<1>1. SuccessorClosed(Edges, S)
  <2> SUFFICES ASSUME NEW e \in Edges, e[1] \in S PROVE e[2] \in S
    BY DEF SuccessorClosed
  <2>1. e[1] \in nodes /\ e[2] \in nodes /\ e = <<e[1], e[2]>>
    BY DEF Edges, TypeOK
  <2>2. e[1] \notin done
    BY DEF Started
  <2>3. e[1] \in predecessors(e[2])
    BY <2>1 DEF predecessors
  <2> QED BY <2>1, <2>2, <2>3 DEF ExecInv
<1>2. S \in SUBSET Ids
  BY FramePlanAssumption DEF TypeOK, Ids, FramePlanAssumption
<1>3. n \in S
  BY <1>1, <1>2 DEF Reaches, Path
<1> QED BY <1>3

(***************************************************************************)
(* Systems that conflict on a resource never run at the same time.         *)
(***************************************************************************)
THEOREM ConflictsNeverOverlap == RunSpec => []NoConcurrentConflict
<1>1. ASSUME TypeOK, ConflictOrdered, ExecInv PROVE NoConcurrentConflict
  <2> SUFFICES ASSUME NEW m \in running, NEW n \in running, m # n, Conflict(m, n)
               PROVE  FALSE
    BY DEF NoConcurrentConflict
  <2>1. /\ m \in nodes /\ n \in nodes /\ m \in Started /\ n \in Started
        /\ m \notin done /\ n \notin done
    BY <1>1 DEF ExecInv, Places, Started
  <2>2. Conflict(n, m)
    BY DEF Conflict
  <2>3. m \in Nat /\ n \in Nat
    BY <1>1, <2>1, FramePlanAssumption DEF TypeOK, Ids, FramePlanAssumption
  <2>4. CASE m < n
    BY <1>1, <2>1, <2>4, StartedAfterPath DEF ConflictOrdered
  <2>5. CASE n < m
    BY <1>1, <2>1, <2>2, <2>5, StartedAfterPath DEF ConflictOrdered
  <2> QED BY <2>3, <2>4, <2>5
<1> QED BY <1>1, RunInvariant, PTL

-----------------------------------------------------------------------------
(* Cancellation. *)

\* The nodes that observe the token and called their bodies.
Ran == (running \cup done) \ (NonCancellable \cup skipped)

LEMMA NextCancelCut ==
    TypeOK /\ ExecInv /\ ExecInv' /\ CancelCut /\ [RunNext]_runVars => CancelCut'
<1> SUFFICES ASSUME TypeOK, ExecInv, ExecInv', CancelCut, [RunNext]_runVars,
                    NEW m \in skipped', NEW n \in Ran', Reaches(m, n)'
             PROVE  FALSE
  BY DEF CancelCut, ExecInv, Ran
<1>0. UNCHANGED vars => nodes' = nodes /\ Edges' = Edges /\ Reaches(m, n)' = Reaches(m, n)
  BY DEF vars, plan, Edges, Reaches
<1>1. ASSUME Reaches(m, n), m \in skipped, n \in Ran PROVE FALSE
  BY <1>1 DEF CancelCut, Ran
<1>2. CASE UNCHANGED <<running, done, skipped>>
  <2>1. m \in skipped /\ n \in Ran /\ m \in Started
    BY <1>2 DEF Ran, ExecInv, Places, Started
  <2>2. stage = "compiled"
    BY <2>1 DEF ExecInv
  <2>3. ~Build
    BY <2>2, BuildAtRest DEF Build
  <2>4. CASE UNCHANGED vars
    BY <1>0, <1>1, <2>1, <2>4
  <2> QED BY <2>3, <2>4 DEF RunNext, Dispatch, RequestStop, Execute, Complete, Invoke,
                            Finish, runVars
<1>3. ASSUME NEW requested \in BOOLEAN, Dispatch(requested) PROVE FALSE
  BY <1>3 DEF Dispatch
<1>4. ASSUME NEW i \in nodes, Invoke(i) PROVE FALSE
  <2>1. /\ i \in ready /\ i \notin running /\ i \notin done
        /\ running' = running \cup {i} /\ done' = done /\ UNCHANGED vars
        /\ skipped' = skipped \/ skipped' = skipped \cup {i}
        /\ skipped' # skipped => stop_requested /\ i \notin NonCancellable
        /\ stop_requested /\ i \notin NonCancellable => i \in skipped'
    BY <1>4 DEF Invoke, ExecInv, Places
  <2>2. m \in nodes /\ n \in Started /\ m \in Started
    BY <2>1 DEF Ran, Started, ExecInv, Places
  <2>3. Reaches(m, n)
    BY <1>0, <2>1
  <2>4. CASE m = i /\ n # i
    <3>1. m \in done
      BY <2>2, <2>3, <2>4, StartedAfterPath
    <3> QED BY <2>1, <2>4, <3>1
  <2>5. CASE n = i
    <3>1. i \notin skipped' /\ i \notin NonCancellable
      BY <2>5 DEF Ran
    <3>2. ~stop_requested
      BY <2>1, <3>1
    <3>3. m \in skipped
      BY <2>1, <3>1, <3>2
    <3> QED BY <3>2, <3>3 DEF ExecInv
  <2>6. CASE m # i /\ n # i
    <3>1. m \in skipped /\ n \in Ran
      BY <2>1, <2>6 DEF Ran
    <3> QED BY <1>1, <2>3, <3>1
  <2> QED BY <2>4, <2>5, <2>6
<1>5. ASSUME NEW i \in nodes, Finish(i) PROVE FALSE
  <2>1. Reaches(m, n)
    BY <1>0, <1>5 DEF Finish
  <2>2. m \in skipped /\ n \in Ran
    BY <1>5 DEF Finish, Ran
  <2> QED BY <1>1, <2>1, <2>2
<1> QED BY <1>2, <1>3, <1>4, <1>5
     DEF RunNext, Build, exec, RequestStop, Execute, Complete, runVars

(***************************************************************************)
(* Cancellation cuts a frame: no body that observes the token is called    *)
(* behind a skipped one, and no non-cancellable node is skipped.           *)
(***************************************************************************)
THEOREM CancellationCuts == RunSpec => []CancelCut
<1>1. RunInit => CancelCut
  BY DEF RunInit, CancelCut
<1> QED BY <1>1, RunInvariant, NextCancelCut, PTL DEF RunSpec

-----------------------------------------------------------------------------
(* The places of a run. *)

LEMMA NodesAreIds ==
    ASSUME TypeOK
    PROVE  /\ nodes \subseteq Ids
           /\ nodes \subseteq Nat
           /\ \A S : S \subseteq nodes => IsFiniteSet(S)
<1>1. nodes \subseteq Ids /\ Ids \subseteq Nat
  BY FramePlanAssumption DEF TypeOK, Ids, FramePlanAssumption
<1>2. IsFiniteSet(Ids)
  BY FS_Interval, FramePlanAssumption DEF Ids, FramePlanAssumption
<1> QED BY <1>1, <1>2, FS_Subset

LEMMA RunInitTypeOK == RunInit => RunTypeOK
<1>1. Cardinality({}) <= Workers
  BY FrameRunAssumption, FS_EmptySet DEF FrameRunAssumption
<1> SUFFICES ASSUME RunInit PROVE RunTypeOK
  OBVIOUS
<1>2. pending \in [Ids -> SUBSET Ids]
  BY DEF RunInit
<1>3. dispatched \in BOOLEAN /\ stop_requested \in BOOLEAN
  BY DEF RunInit
<1>4. dispatch_count \in 0 .. MaxDispatches
  BY FrameRunAssumption DEF RunInit, FrameRunAssumption
<1>5. ready = {} /\ running = {} /\ done = {} /\ skipped = {}
  BY DEF RunInit
<1> QED BY <1>1, <1>2, <1>3, <1>4, <1>5 DEF RunTypeOK

LEMMA NextRunTypeOK ==
    TypeOK /\ TypeOK' /\ ExecInv /\ ExecInv' /\ RunTypeOK /\ [RunNext]_runVars => RunTypeOK'
<1> SUFFICES ASSUME TypeOK, TypeOK', ExecInv, ExecInv', RunTypeOK, [RunNext]_runVars
             PROVE  RunTypeOK'
  OBVIOUS
<1> DEFINE Rest == /\ dispatched \in BOOLEAN /\ dispatch_count \in 0 .. MaxDispatches
                   /\ stop_requested \in BOOLEAN /\ pending \in [Ids -> SUBSET Ids]
<1>1. SUFFICES Rest' /\ Cardinality(running') <= Workers
  BY DEF ExecInv, Places, Started, RunTypeOK
<1>2. IsFiniteSet(running) /\ Cardinality(running) \in Nat
  BY NodesAreIds, FS_CardinalityType DEF ExecInv, Places, Started
<1>3. Rest /\ Cardinality(running) <= Workers
  BY DEF RunTypeOK
<1>4. ASSUME NEW requested \in BOOLEAN, Dispatch(requested)
      PROVE  Rest' /\ Cardinality(running') <= Workers
  <2>1. \A i \in Ids : predecessors(i) \subseteq Ids
    BY NodesAreIds DEF predecessors
  <2> QED BY <1>3, <1>4, <2>1, FS_EmptySet, FrameRunAssumption DEF Dispatch, FrameRunAssumption
<1>5. ASSUME NEW n \in nodes, Invoke(n) PROVE Rest' /\ Cardinality(running') <= Workers
  <2>1. n \notin running
    BY <1>5 DEF Invoke, ExecInv, Places
  <2>2. Cardinality(running') = Cardinality(running) + 1 /\ Cardinality(running) < Workers
    BY <1>2, <1>5, <2>1, FS_AddElement DEF Invoke
  <2> QED BY <1>2, <1>3, <1>5, <2>2, FrameRunAssumption DEF Invoke, FrameRunAssumption
<1>6. ASSUME NEW n \in nodes, Finish(n) PROVE Rest' /\ Cardinality(running') <= Workers
  <2>1. Cardinality(running') = Cardinality(running) - 1
    BY <1>2, <1>6, FS_RemoveElement DEF Finish
  <2> QED BY <1>2, <1>3, <1>6, <2>1, FrameRunAssumption DEF Finish, FrameRunAssumption
<1>7. CASE UNCHANGED <<dispatch_count, pending, running>> /\ dispatched' \in BOOLEAN
                                                         /\ stop_requested' \in BOOLEAN
  BY <1>3, <1>7
<1>8. Build \/ RequestStop \/ Complete \/ UNCHANGED runVars =>
        /\ UNCHANGED <<dispatch_count, pending, running>>
        /\ dispatched' \in BOOLEAN /\ stop_requested' \in BOOLEAN
  BY <1>3 DEF Build, RequestStop, Complete, runVars, exec
<1> QED BY <1>4, <1>5, <1>6, <1>7, <1>8 DEF RunNext, Execute

(***************************************************************************)
(* A node is in one place of a run at most, and never more nodes are on a  *)
(* worker than the executor has workers.                                   *)
(***************************************************************************)
THEOREM RunTypeCorrect == RunSpec => []RunTypeOK
BY RunInvariant, RunInitTypeOK, NextRunTypeOK, PTL DEF RunSpec

-----------------------------------------------------------------------------
(* A run leaves nothing out. *)

(***************************************************************************)
(* The executor does not ask whether every node has run, it only stops     *)
(* when nothing is scheduled.  That loses no node because a node that was  *)
(* not scheduled still waits for somebody.                                 *)
(***************************************************************************)
Waiting ==
    /\ dispatched => \A n \in nodes \ Started : predecessors(n) \ done # {}
    /\ dispatch_count > 0 => stage = "compiled"

RunInv ==
    /\ TypeOK /\ ConflictOrdered /\ PhaseOrdered /\ BarrierJoinsPhase /\ AutoEdgesForward
    /\ ExecInv /\ RunTypeOK /\ Waiting

LEMMA NextWaiting == TypeOK /\ ExecInv /\ RunTypeOK /\ Waiting /\ [RunNext]_runVars => Waiting'
<1> SUFFICES ASSUME TypeOK, ExecInv, RunTypeOK, Waiting, [RunNext]_runVars PROVE Waiting'
  OBVIOUS
<1>0. UNCHANGED vars => /\ nodes' = nodes /\ stage' = stage
                        /\ \A n : predecessors(n)' = predecessors(n)
  BY DEF vars, plan, meta, Edges, predecessors
<1>1. CASE Build
  <2>1. stage = "building"
    BY <1>1, BuildAtRest DEF Build
  <2>2. ~dispatched /\ ~(dispatch_count > 0)
    BY <2>1 DEF ExecInv, Waiting
  <2> QED BY <1>1, <2>2 DEF Build, exec, Waiting
<1>2. ASSUME NEW requested \in BOOLEAN, Dispatch(requested) PROVE Waiting'
  <2>1. Started' = {n \in nodes : predecessors(n) = {}} /\ done' = {}
    BY <1>2 DEF Dispatch, Started
  <2> QED BY <1>0, <1>2, <2>1 DEF Dispatch, Waiting
<1>3. ASSUME NEW n \in nodes, Finish(n) PROVE Waiting'
  <2>1. n \in Started /\ dispatched
    BY <1>3 DEF Finish, Started, ExecInv
  <2>2. Started' = Started \cup {i \in nodes : pending[i] = {n}}
    BY <1>3, <2>1 DEF Finish, Started
  <2>3. ASSUME NEW i \in nodes, i \notin Started' PROVE predecessors(i) \ done' # {}
    <3>1. pending[i] # {n} /\ pending[i] = predecessors(i) \ done
      BY <2>1, <2>2, <2>3 DEF ExecInv
    <3>2. predecessors(i) \ done # {}
      BY <2>1, <2>2, <2>3 DEF Waiting
    <3> QED BY <1>3, <3>1, <3>2 DEF Finish
  <2> QED BY <1>0, <1>3, <2>3 DEF Finish, Waiting
<1>4. CASE UNCHANGED <<vars, Started, done, dispatch_count>> /\ (dispatched' => dispatched)
  BY <1>0, <1>4 DEF Waiting
<1>5. ASSUME NEW n \in nodes, Invoke(n) PROVE Started' = Started
  BY <1>5 DEF Invoke, Started
<1> QED BY <1>1, <1>2, <1>3, <1>4, <1>5
     DEF RunNext, Execute, RequestStop, Invoke, Complete, runVars, exec, Started

LEMMA RunInvHolds == RunSpec => []RunInv
<1>1. RunSpec => []PhaseOrdered
  BY RunKeepsPlan, PhasesAreOrdered, PTL
<1>2. RunSpec => []BarrierJoinsPhase
  BY RunKeepsPlan, BarriersJoin, PTL
<1>3. Init => AutoEdgesForward
  BY DEF Init, AutoEdgesForward
<1>4. RunInit => AutoEdgesForward /\ Waiting
  BY <1>3 DEF RunInit, Waiting
<1>5. TypeOK /\ AutoEdgesForward /\ [RunNext]_runVars => AutoEdgesForward'
  BY RunStepIsPlanStep, NextForward
<1> QED BY <1>1, <1>2, <1>4, <1>5, RunInvariant, RunTypeCorrect, NextWaiting, PTL
     DEF RunSpec, RunInv

\* When nothing is scheduled the least node left out waits for a smaller one.
LEMMA NothingLeftOut ==
    ASSUME RunInv, UserEdgesForward, dispatched, ready = {}, running = {}
    PROVE  done = nodes
<1> SUFFICES ASSUME nodes \ done # {} PROVE FALSE
  BY DEF RunInv, RunTypeOK
<1>1. nodes \subseteq Nat /\ Started = done
  BY NodesAreIds DEF RunInv, Started
<1>2. PICK n \in nodes \ done : \A i \in nodes \ done : n <= i
  BY <1>1, LeastNatural
<1>3. PICK m \in predecessors(n) : m \notin done
  BY <1>1, <1>2 DEF RunInv, Waiting
<1>4. m \in nodes /\ <<m, n>> \in Edges
  BY <1>3 DEF predecessors
<1>5. m < n
  BY <1>4 DEF RunInv, AutoEdgesForward, UserEdgesForward, Edges
<1> QED BY <1>1, <1>2, <1>3, <1>4, <1>5

(***************************************************************************)
(* A completed run has run every node, unless the caller's own edges run   *)
(* against the order of registration.                                      *)
(***************************************************************************)
THEOREM CompletedRunsAreWhole == RunSpec => []AllDoneWhenComplete
<1>1. RunInit => AllDoneWhenComplete
  BY DEF RunInit, AllDoneWhenComplete
<1>2. RunInv /\ AllDoneWhenComplete /\ [RunNext]_runVars => AllDoneWhenComplete'
  <2> SUFFICES ASSUME RunInv, AllDoneWhenComplete, [RunNext]_runVars, UserEdgesForward',
                      dispatch_count' > 0, ~dispatched'
               PROVE  done' = nodes'
    BY DEF AllDoneWhenComplete
  <2> USE DEF RunInv
  <2>1. CASE Complete
    <3>1. UNCHANGED vars /\ dispatched /\ ready = {} /\ running = {} /\ done' = done
      BY <2>1 DEF Complete
    <3>2. nodes' = nodes /\ UserEdgesForward
      BY <3>1 DEF vars, plan, UserEdgesForward
    <3> QED BY <3>1, <3>2, NothingLeftOut
  <2>2. CASE Build
    <3>1. stage = "building" /\ dispatch_count > 0
      BY <2>2, BuildAtRest DEF Build, exec
    <3> QED BY <3>1 DEF Waiting
  <2>3. CASE UNCHANGED <<vars, done, dispatched, dispatch_count>>
    BY <2>3 DEF vars, plan, UserEdgesForward, AllDoneWhenComplete
  <2>4. ASSUME NEW n \in nodes, Invoke(n) \/ Finish(n) PROVE FALSE
    BY <2>4 DEF Invoke, Finish, ExecInv
  <2> QED BY <2>1, <2>2, <2>3, <2>4
       DEF RunNext, Execute, Dispatch, RequestStop, runVars, exec
<1> QED BY <1>1, <1>2, RunInvHolds, PTL DEF RunSpec

-----------------------------------------------------------------------------
(* The dispatch implements the abstract schedule. *)

\* Whatever the caller was promised to come before n has finished.
LEMMA PromisesKept ==
    ASSUME RunInv, NEW m \in nodes, NEW n \in Started, mustPrecede(m, n)
    PROVE  m \in done
<1> USE DEF RunInv
<1>1. n \in nodes /\ m \in Nat /\ n \in Nat
  BY NodesAreIds DEF ExecInv, Places
<1>2. ASSUME Reaches(m, n), m # n PROVE m \in done
  BY <1>2, StartedAfterPath
<1>3. CASE m < n /\ Conflict(m, n)
  BY <1>1, <1>2, <1>3 DEF ConflictOrdered
<1>4. CASE BuiltInPhaseOrder /\ phaseOf[m] < phaseOf[n]
  <2>1. phaseOf[m] \in Nat
    BY NodesAreIds, FramePlanAssumption DEF TypeOK, Phases, FramePlanAssumption
  <2> QED BY <1>1, <1>2, <1>4, <2>1 DEF PhaseOrdered
<1>5. CASE m < n /\ kind[n] = "barrier" /\ phaseOf[m] = phaseOf[n]
  BY <1>1, <1>2, <1>5 DEF BarrierJoinsPhase
<1>6. CASE <<m, n>> \in userEdges
  BY <1>6 DEF ExecInv, predecessors, Edges
<1> QED BY <1>3, <1>4, <1>5, <1>6 DEF mustPrecede

LEMMA RunRefinesInit == RunInit => Schedule!Init
BY DEF RunInit, Init, Schedule!Init, promised, UserEdgesForward

LEMMA RunRefinesNext ==
    RunInv /\ RunInv' /\ [RunNext]_runVars => [Schedule!Next]_Schedule!vars
<1> SUFFICES ASSUME RunInv, RunInv', [RunNext]_runVars
             PROVE  [Schedule!Next]_Schedule!vars
  OBVIOUS
<1> USE DEF RunInv
<1>0. UNCHANGED vars => /\ nodes' = nodes /\ promised' = promised
                        /\ UserEdgesForward' = UserEdgesForward
  BY DEF vars, plan, promised, mustPrecede, UserEdgesForward, Conflict, Accesses, Writes,
         BuiltInPhaseOrder
<1>1. CASE Build
  <2>1. ~dispatched
    BY <1>1, BuildAtRest DEF Build, ExecInv
  <2> QED BY <1>1, <2>1 DEF Build, exec, Schedule!Next, Schedule!Edit
<1>2. ASSUME NEW requested \in BOOLEAN, Dispatch(requested) PROVE Schedule!Dispatch
  BY <1>0, <1>2 DEF Dispatch, Schedule!Dispatch
<1>3. CASE RequestStop
  BY <1>0, <1>3 DEF RequestStop, Schedule!vars
<1>4. ASSUME NEW n \in nodes, Invoke(n) PROVE Schedule!Begin(n)
  <2>1. n \in ready /\ n \in Started /\ n \notin running \cup done /\ dispatched
    BY <1>4 DEF Invoke, ExecInv, Places, Started
  <2>2. \A m \in nodes : <<m, n>> \in promised => m \in done
    BY <2>1, PromisesKept DEF promised
  <2> QED BY <1>0, <1>4, <2>1, <2>2 DEF Invoke, Schedule!Begin
<1>5. ASSUME NEW n \in nodes, Finish(n) PROVE Schedule!End(n)
  <2>1. n \in running /\ n \notin done /\ dispatched
    BY <1>5 DEF Finish, ExecInv, Places
  <2> QED BY <1>0, <1>5, <2>1 DEF Finish, Schedule!End
<1>6. CASE Complete
  <2>1. dispatched /\ ready = {} /\ running = {}
    BY <1>6 DEF Complete
  <2>2. UserEdgesForward => done = nodes
    BY <2>1, NothingLeftOut
  <2> QED BY <1>0, <1>6, <2>1, <2>2 DEF Complete, Schedule!Next, Schedule!Complete
<1>7. CASE UNCHANGED runVars
  BY <1>0, <1>7 DEF runVars, exec, Schedule!vars
<1> QED BY <1>1, <1>2, <1>3, <1>4, <1>5, <1>6, <1>7 DEF RunNext, Execute, Schedule!Next

(***************************************************************************)
(* Every run of a compiled frame is a run of the abstract schedule: what   *)
(* the caller was promised to come first has ended before a task begins,   *)
(* every task runs once, and only an unorderly frame leaves one out.       *)
(***************************************************************************)
THEOREM RunImplementsSchedule == RunSpec => ScheduleSpec
BY RunInvHolds, RunRefinesInit, RunRefinesNext, PTL DEF RunSpec, ScheduleSpec, Schedule!Spec
=============================================================================
