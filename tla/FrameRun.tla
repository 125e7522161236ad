------------------------------ MODULE FrameRun ------------------------------
(***************************************************************************)
(* A compiled frame plan dispatched on the executor: Taskflow runs a node  *)
(* when its last predecessor has finished, on one of Workers threads, and  *)
(* the invoker of the node looks at the cancel token before it calls the   *)
(* body.  Graphs with condition tasks are the subject of ConditionRun.     *)
(*                                                                         *)
(* The join counter Taskflow keeps per node is here the set of the         *)
(* predecessors that have not finished in this run.                        *)
(***************************************************************************)
EXTENDS FramePlan

CONSTANTS
    Workers,          \* ExecutorConfig::workers
    NonCancellable,   \* ids of the nodes declared CancelBehavior::NON_CANCELLABLE
    MaxDispatches     \* bound: dispatches of the compiled plan

ASSUME FrameRunAssumption ==
    /\ Workers \in Nat \ {0}
    /\ MaxDispatches \in Nat
    /\ NonCancellable \subseteq Ids
    /\ "condition" \notin TaskKinds

VARIABLES
    dispatched,       \* the run handle's future is not ready yet
    dispatch_count,
    pending,          \* the predecessors each node still waits for
    ready, running, done,   \* scheduled, on a worker, finished in this run
    skipped,          \* the nodes whose invoker returned without calling the body
    stop_requested    \* the cancel state this dispatch observes

exec    == <<dispatched, dispatch_count, pending, ready, running, done, skipped, stop_requested>>
runVars == <<vars, exec>>

predecessors(n) == {m \in nodes : <<m, n>> \in Edges}

RunInit ==
    /\ Init
    /\ dispatched = FALSE
    /\ dispatch_count = 0
    /\ pending = [i \in Ids |-> {}]
    /\ ready = {} /\ running = {} /\ done = {} /\ skipped = {}
    /\ stop_requested = FALSE

\* The builder's operations, before the plan is compiled.
Build == Next /\ UNCHANGED exec

\* Center::dispatchFrame and dispatch, with a token that may be stopped
\* already; the executor schedules the nodes without predecessors.
Dispatch(requested) ==
    /\ stage = "compiled"
    /\ ~dispatched
    /\ dispatch_count < MaxDispatches
    /\ dispatched' = TRUE
    /\ dispatch_count' = dispatch_count + 1
    /\ stop_requested' = requested
    /\ pending' = [i \in Ids |-> predecessors(i)]
    /\ ready' = {n \in nodes : predecessors(n) = {}}
    /\ running' = {} /\ done' = {} /\ skipped' = {}
    /\ UNCHANGED vars

\* CancelSource::requestStop, from any thread, at any moment of the run.
RequestStop ==
    /\ dispatched
    /\ ~stop_requested
    /\ stop_requested' = TRUE
    /\ UNCHANGED <<vars, dispatched, dispatch_count, pending, ready, running, done, skipped>>

\* Mutant: CancelBehavior is not looked at.
InvokeAnyCancellable(n) ==
    /\ n \in ready
    /\ Cardinality(running) < Workers
    /\ ready' = ready \ {n}
    /\ running' = running \cup {n}
    /\ skipped' = IF stop_requested THEN skipped \cup {n} ELSE skipped
    /\ UNCHANGED <<vars, dispatched, dispatch_count, pending, done, stop_requested>>

\* A worker enters the invoker of n: a node that observes the token and finds
\* it stopped reports CANCELED and returns, any other calls its body.
Invoke(n) ==
    /\ n \in ready
    /\ Cardinality(running) < Workers
    /\ ready' = ready \ {n}
    /\ running' = running \cup {n}
    /\ skipped' = IF stop_requested /\ n \notin NonCancellable THEN skipped \cup {n} ELSE skipped
    /\ UNCHANGED <<vars, dispatched, dispatch_count, pending, done, stop_requested>>

\* Mutant: releases a successor when its first predecessor finishes.
FinishReleasesEarly(n) ==
    /\ n \in running
    /\ running' = running \ {n}
    /\ done' = done \cup {n}
    /\ pending' = [i \in Ids |-> pending[i] \ {n}]
    /\ ready' = ready \cup {i \in nodes : n \in pending[i]}
    /\ UNCHANGED <<vars, dispatched, dispatch_count, skipped, stop_requested>>

\* The invoker returns; the executor releases the successors of n.
Finish(n) ==
    /\ n \in running
    /\ running' = running \ {n}
    /\ done' = done \cup {n}
    /\ pending' = [i \in Ids |-> pending[i] \ {n}]
    /\ ready' = ready \cup {i \in nodes : pending[i] = {n}}
    /\ UNCHANGED <<vars, dispatched, dispatch_count, skipped, stop_requested>>

\* Mutants: does not wait for the workers; waits for every node.
CompleteWhenScheduled ==
    /\ dispatched
    /\ ready = {}
    /\ dispatched' = FALSE
    /\ UNCHANGED <<vars, dispatch_count, pending, ready, running, done, skipped, stop_requested>>


\* Nothing is scheduled or running any more: the future becomes ready.  The
\* executor does not ask whether every node has run.
Complete ==
    /\ dispatched
    /\ ready = {} /\ running = {}
    /\ dispatched' = FALSE
    /\ UNCHANGED <<vars, dispatch_count, pending, ready, running, done, skipped, stop_requested>>

Execute == Complete \/ \E n \in nodes : Invoke(n) \/ Finish(n)

RunNext ==
    \/ Build
    \/ \E requested \in BOOLEAN : Dispatch(requested)
    \/ RequestStop
    \/ Execute

RunSpec == RunInit /\ [][RunNext]_runVars

\* The worker threads keep running, and the bodies they call return.
FairRunSpec == RunSpec /\ WF_runVars(Execute)

-----------------------------------------------------------------------------

\* The types of the executor's state; a node is in one place of a run at most.
RunTypeOK ==
    /\ dispatched \in BOOLEAN
    /\ dispatch_count \in 0 .. MaxDispatches
    /\ stop_requested \in BOOLEAN
    /\ pending \in [Ids -> SUBSET Ids]
    /\ ready \subseteq nodes /\ running \subseteq nodes /\ done \subseteq nodes
    /\ skipped \subseteq running \cup done
    /\ ready \cap running = {} /\ ready \cap done = {} /\ running \cap done = {}
    /\ Cardinality(running) <= Workers

(***************************************************************************)
(* Two systems that conflict on a resource are never on a worker at the    *)
(* same time, with any number of workers and even if the caller's own      *)
(* edges close a cycle.                                                    *)
(***************************************************************************)
NoConcurrentConflict ==
    \A m, n \in running : m # n => ~Conflict(m, n)

\* The caller's own edges, like the builder's, follow the registration.
UserEdgesForward == \A e \in userEdges : e[1] < e[2]

(***************************************************************************)
(* The executor completes a run when it has nothing left to do, without    *)
(* asking whether every node has run.  It has, unless the caller's edges   *)
(* run against the order of registration.                                  *)
(***************************************************************************)
AllDoneWhenComplete ==
    UserEdgesForward /\ dispatch_count > 0 /\ ~dispatched => done = nodes

(***************************************************************************)
(* Cancellation cuts a frame cleanly: behind a node that was skipped, no   *)
(* node that observes the token calls its body, and no node that does not  *)
(* observe it is ever skipped.                                             *)
(***************************************************************************)
CancelCut ==
    /\ \A m \in skipped, n \in (running \cup done) \ NonCancellable :
          Reaches(m, n) => n \in skipped
    /\ skipped \cap NonCancellable = {}


(***************************************************************************)
(* A dispatched frame implements the abstract schedule, which knows only   *)
(* what the caller registered: conflicting systems run in the order of     *)
(* registration, phases built in order run in order, a phase barrier waits *)
(* for its phase, and nothing is left out of a run but behind user edges   *)
(* that go backwards.                                                      *)
(***************************************************************************)
mustPrecede(m, n) ==
    \/ m < n /\ Conflict(m, n)
    \/ BuiltInPhaseOrder /\ phaseOf[m] < phaseOf[n]
    \/ m < n /\ kind[n] = "barrier" /\ phaseOf[m] = phaseOf[n]
    \/ <<m, n>> \in userEdges

promised == {e \in nodes \X nodes : mustPrecede(e[1], e[2])}

Schedule == INSTANCE FrameSchedule WITH
    tasks <- nodes, before <- promised, orderly <- UserEdgesForward,
    dispatched <- dispatched, begun <- running \cup done, ended <- done

ScheduleSpec == Schedule!Spec
=============================================================================
