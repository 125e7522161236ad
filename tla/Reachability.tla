---------------------------- MODULE Reachability ----------------------------
(***************************************************************************)
(* Paths in a finite graph without recursion: the edges E are pairs of     *)
(* nodes of N, and m reaches n when n is in every set of nodes that holds  *)
(* m and is closed under the edges.  Every node reaches itself.            *)
(***************************************************************************)
SuccessorClosed(E, S) == \A e \in E : e[1] \in S => e[2] \in S

Path(N, E, m, n) == \A S \in SUBSET N : m \in S /\ SuccessorClosed(E, S) => n \in S
=============================================================================
