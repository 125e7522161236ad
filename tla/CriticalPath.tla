---------------------------- MODULE CriticalPath ----------------------------
(***************************************************************************)
(* The critical path of the static profile, makeProfileReport, on every    *)
(* graph the builder can make.  profile_nodes_ is in the order of ids.     *)
(* The code visits the successors of a node in the order their edges were  *)
(* registered, the model in the order of ids: which of several equally     *)
(* long paths is reported differs, its cost does not.  Edges to handles of *)
(* another plan are left out: they index the tables by an id of that plan. *)
(***************************************************************************)
EXTENDS FramePlan, SequencesExt

CONSTANTS Costs   \* the values of TaskDesc::estimated_cost_ns

ASSUME CriticalPathAssumption == Costs \subseteq Nat

successors(n) == {m \in nodes : <<n, m>> \in Edges}

\* The members of S in the order of profile_nodes_.
sorted(S) ==
    CHOOSE s \in [1 .. Cardinality(S) -> S] : \A i, j \in DOMAIN s : i < j => s[i] < s[j]

\* The worklist before its first step: the nodes no edge leads to are ready.
prepared(cost) ==
    LET indegrees == [n \in nodes |-> Cardinality({m \in nodes : <<m, n>> \in Edges})]
    IN  [ready_nodes |-> sorted({n \in nodes : indegrees[n] = 0}),
         distance    |-> cost,
         predecessor |-> [n \in nodes |-> NoNode],
         indegree    |-> indegrees]

longer(cost, s, from, to) == s.distance[from] + cost[to] > s.distance[to]

\* Mutants: the last predecessor visited counts, not the farthest; it is kept
\* as the predecessor even if it is not the farthest.
VisitLastDistance(cost, s, from) ==
    LET next == successors(from)
    IN  [s EXCEPT !.ready_nodes = @ \o sorted({n \in next : s.indegree[n] = 1}),
                  !.distance    = [n \in nodes |-> IF n \in next THEN @[from] + cost[n] ELSE @[n]],
                  !.predecessor = [n \in nodes |-> IF n \in next THEN from ELSE @[n]],
                  !.indegree    = [n \in nodes |-> IF n \in next THEN @[n] - 1 ELSE @[n]]]

VisitLastPredecessor(cost, s, from) ==
    LET next     == successors(from)
        improved == {n \in next : longer(cost, s, from, n)}
    IN  [s EXCEPT !.ready_nodes = @ \o sorted({n \in next : s.indegree[n] = 1}),
                  !.distance    = [n \in nodes |-> IF n \in improved THEN @[from] + cost[n] ELSE @[n]],
                  !.predecessor = [n \in nodes |-> IF n \in next THEN from ELSE @[n]],
                  !.indegree    = [n \in nodes |-> IF n \in next THEN @[n] - 1 ELSE @[n]]]

\* One turn of the worklist: a successor becomes ready with its last predecessor.
visit(cost, s, from) ==
    LET next     == successors(from)
        improved == {n \in next : longer(cost, s, from, n)}
    IN  [s EXCEPT !.ready_nodes = @ \o sorted({n \in next : s.indegree[n] = 1}),
                  !.distance    = [n \in nodes |-> IF n \in improved THEN @[from] + cost[n] ELSE @[n]],
                  !.predecessor = [n \in nodes |-> IF n \in improved THEN from ELSE @[n]],
                  !.indegree    = [n \in nodes |-> IF n \in next THEN @[n] - 1 ELSE @[n]]]

\* The worklist runs dry: nodes on a cycle, or behind one, never become ready.
settled(cost) ==
    LET turn[ready_cursor \in 0 .. Cardinality(nodes)] ==
            IF ready_cursor = 0 THEN prepared(cost)
            ELSE LET s == turn[ready_cursor - 1]
                 IN  IF ready_cursor <= Len(s.ready_nodes)
                     THEN visit(cost, s, s.ready_nodes[ready_cursor])
                     ELSE s
    IN  turn[Cardinality(nodes)]

\* The path to the first of the farthest nodes, along the predecessors.
critical_path(cost) ==
    LET s        == settled(cost)
        farthest == {n \in nodes : \A m \in nodes : s.distance[m] <= s.distance[n]}
        end      == CHOOSE n \in farthest : \A m \in farthest : n <= m
        pathTo[n \in nodes] ==
            IF s.predecessor[n] = NoNode THEN <<n>> ELSE Append(pathTo[s.predecessor[n]], n)
    IN  [nodes |-> pathTo[end], total |-> s.distance[end]]

-----------------------------------------------------------------------------

Ahead(m, n) == \E k \in successors(m) : Reaches(k, n)

\* The nodes a cycle of the caller's edges holds up.
behindCycle == {n \in nodes : \E m \in nodes : Ahead(m, m) /\ Reaches(m, n)}

isPath(path) == \A i \in 1 .. Len(path) - 1 : <<path[i], path[i + 1]>> \in Edges

costOf(path, cost) == FoldLeft(LAMBDA sum, n : sum + cost[n], 0, path)

\* What compile() stores in the compiled plan, for every estimate of the costs.
reported(P(_, _)) ==
    stage = "compiled" /\ nodes # {} =>
        \A cost \in [nodes -> Costs] : P(cost, critical_path(cost))

(***************************************************************************)
(* The report names a path of the graph that visits no node twice, and its *)
(* total is the sum of the costs on it, also in a graph with a cycle.      *)
(***************************************************************************)
CriticalPathIsPath ==
    reported(LAMBDA cost, report :
                 /\ isPath(report.nodes)
                 /\ IsInjective(report.nodes)
                 /\ report.total = costOf(report.nodes, cost))

(***************************************************************************)
(* No path costs more than the critical path: in a graph without cycles no *)
(* path at all, in a graph with one no path that ends where the cycle      *)
(* holds it up.                                                            *)
(***************************************************************************)
CriticalPathIsLongest ==
    LET free  == nodes \ behindCycle
        paths == {path \in SeqOf(nodes, Cardinality(nodes)) :
                     isPath(path) /\ \A i \in 1 .. Len(path) - 1 : path[i] \in free}
    IN  reported(LAMBDA cost, report :
                     \A path \in paths : costOf(path, cost) <= report.total)
=============================================================================
