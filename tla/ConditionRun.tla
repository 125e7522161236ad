---------------------------- MODULE ConditionRun ----------------------------
(***************************************************************************)
(* Plans with condition tasks on the executor.  An edge that leaves a      *)
(* condition is weak: it is not counted by the join counter of its target, *)
(* and the index the condition returns schedules one successor directly.   *)
(* A node may so run several times, or twice at once; scheduled and        *)
(* running are bags.  Built either as a Plan, where every edge is a        *)
(* precede() call, or as a FramePlan, which adds edges of its own.         *)
(***************************************************************************)
EXTENDS FramePlan, Integers, Sequences, Bags

CONSTANTS
    Workers,         \* ExecutorConfig::workers
    NonCancellable,  \* ids of the nodes declared CancelBehavior::NON_CANCELLABLE
    MaxDecisions,    \* bound: times the condition functions are called in a run
    MaxDrift         \* bound: how far a loop may outrun the nodes beside it

ASSUME ConditionRunAssumption ==
    /\ Workers \in Nat \ {0}
    /\ MaxDecisions \in Nat /\ MaxDrift \in Nat
    /\ NonCancellable \subseteq Ids

VARIABLES
    successors,      \* each node's successors, in the order of the precede calls
    phase,           \* of the run: "idle", "dispatched" or "complete"
    join_counter,    \* strong predecessors a node still waits for
    scheduled,       \* bag of the nodes in the executor's queues
    running,         \* bag of <<node, skipped>> on the workers
    invoked, called, \* history: nodes entered, nodes whose function was called
    chosen,          \* history: <<condition, index>> its function returned
    decisions,       \* calls of condition functions so far
    stop_requested

run == <<phase, join_counter, scheduled, running, invoked, called, chosen, decisions,
         stop_requested>>
runVars == <<vars, successors, run>>

isCondition(n) == kind[n] = "condition"
strongPredecessors(n) == {m \in nodes : <<m, n>> \in Edges /\ ~isCondition(m)}
isSource(n) == ~ \E m \in nodes : <<m, n>> \in Edges
one(x) == SetToBag({x})

RunInit ==
    /\ Init
    /\ successors = [i \in Ids |-> <<>>]
    /\ phase = "idle"
    /\ join_counter = [i \in Ids |-> 0]
    /\ scheduled = EmptyBag /\ running = EmptyBag
    /\ invoked = {} /\ called = {} /\ chosen = {}
    /\ decisions = 0
    /\ stop_requested = FALSE

\* Backend::depend appends to the successor list of the first node.  A builder
\* call adds at most one edge from a node; repeated precede calls are left out.
linkNewEdges ==
    LET added == (autoEdges' \ autoEdges) \cup (userEdges' \ userEdges)
    IN  successors' = [m \in Ids |->
            IF \E n \in Ids : <<m, n>> \in added
            THEN Append(successors[m], CHOOSE n \in Ids : <<m, n>> \in added)
            ELSE successors[m]]

\* Plan: task, conditionTask and precede; Center::dispatch takes it as it is.
BuildPlan ==
    /\ \/ \E k \in TaskKinds : Task(0, k)
       \/ \E m, n \in nodes : Precede(m, n)
       \/ Compile
    /\ linkNewEdges
    /\ UNCHANGED run

\* FramePlan: the same calls, with phases, barriers and systems.
BuildFramePlan == Next /\ linkNewEdges /\ UNCHANGED run

Dispatch ==
    /\ stage = "compiled"
    /\ phase = "idle"
    /\ phase' = "dispatched"
    /\ join_counter' = [n \in Ids |-> Cardinality(strongPredecessors(n))]
    /\ scheduled' = SetToBag({n \in nodes : isSource(n)})
    /\ UNCHANGED <<vars, successors, running, invoked, called, chosen, decisions, stop_requested>>

RequestStop ==
    /\ phase = "dispatched"
    /\ ~stop_requested
    /\ stop_requested' = TRUE
    /\ UNCHANGED <<vars, successors, phase, join_counter, scheduled, running, invoked, called,
                   chosen, decisions>>

skips(n) == stop_requested /\ n \notin NonCancellable

Invoke(n) ==
    /\ BagIn(n, scheduled)
    /\ BagCardinality(running) < Workers
    /\ isCondition(n) /\ ~skips(n) => decisions < MaxDecisions
    /\ scheduled' = scheduled (-) one(n)
    /\ running' = running (+) one(<<n, skips(n)>>)
    /\ invoked' = invoked \cup {n}
    /\ called' = IF skips(n) THEN called ELSE called \cup {n}
    /\ decisions' = IF isCondition(n) /\ ~skips(n) THEN decisions + 1 ELSE decisions
    /\ UNCHANGED <<vars, successors, phase, join_counter, chosen, stop_requested>>

\* The executor rearms a node before it turns to the successors.
rearmed(n) == [join_counter EXCEPT ![n] = @ + Cardinality(strongPredecessors(n))]

\* An ordinary task returns: each successor waits for one node less.
FinishTask(n) ==
    LET targets == {s \in nodes : <<n, s>> \in Edges}
    IN  /\ join_counter' = [s \in Ids |-> rearmed(n)[s] - (IF s \in targets THEN 1 ELSE 0)]
        /\ scheduled' = scheduled (+) SetToBag({s \in targets : rearmed(n)[s] = 1})
        /\ UNCHANGED chosen

\* Mutant: counts the branches from one.
BranchFromOne(n, index) ==
    IF index \in 1 .. Len(successors[n])
    THEN /\ join_counter' = [rearmed(n) EXCEPT ![successors[n][index]] = 0]
         /\ scheduled' = scheduled (+) one(successors[n][index])
    ELSE /\ join_counter' = rearmed(n)
         /\ UNCHANGED scheduled

\* A condition returns: the successor at that index is scheduled whatever it
\* waits for; an index out of range schedules nothing.
branch(n, index) ==
    IF index < Len(successors[n])
    THEN /\ join_counter' = [rearmed(n) EXCEPT ![successors[n][index + 1]] = 0]
         /\ scheduled' = scheduled (+) one(successors[n][index + 1])
    ELSE /\ join_counter' = rearmed(n)
         /\ UNCHANGED scheduled

\* A cancelled condition returns 0 without calling its function.
FinishCondition(n, skipped) ==
    \/ /\ skipped
       /\ branch(n, 0)
       /\ UNCHANGED chosen
    \/ /\ ~skipped
       /\ \E index \in 0 .. Len(successors[n]) :
             branch(n, index) /\ chosen' = chosen \cup {<<n, index>>}

withinDrift ==
    /\ BagCardinality(scheduled') <= MaxNodes + MaxDrift
    /\ \A s \in Ids : join_counter'[s] \in -MaxDrift .. MaxNodes + MaxDrift

Finish(n, skipped) ==
    /\ BagIn(<<n, skipped>>, running)
    /\ running' = running (-) one(<<n, skipped>>)
    /\ IF isCondition(n) THEN FinishCondition(n, skipped) ELSE FinishTask(n)
    /\ withinDrift
    /\ UNCHANGED <<vars, successors, phase, invoked, called, decisions, stop_requested>>

Complete ==
    /\ phase = "dispatched"
    /\ scheduled = EmptyBag /\ running = EmptyBag
    /\ phase' = "complete"
    /\ UNCHANGED <<vars, successors, join_counter, scheduled, running, invoked, called, chosen,
                   decisions, stop_requested>>

Execute ==
    \/ Complete
    \/ \E n \in nodes : Invoke(n) \/ \E skipped \in BOOLEAN : Finish(n, skipped)

Run == Dispatch \/ RequestStop \/ Execute

\* A worker that has something to do does it: threads run, functions return.
Progress == WF_runVars(Execute)

PlanSpec == RunInit /\ [][BuildPlan \/ Run]_runVars /\ Progress

FramePlanSpec == RunInit /\ [][BuildFramePlan \/ Run]_runVars /\ Progress

-----------------------------------------------------------------------------

callerPredecessors(n) == {m \in nodes : <<m, n>> \in userEdges}

\* The caller put n behind condition tasks and behind nothing else.
isBranch(n) ==
    callerPredecessors(n) # {} /\ \A m \in callerPredecessors(n) : isCondition(m)

\* The edges that lead to n, the caller's or the builder's, leave conditions.
isLed(n) == ~isSource(n) /\ strongPredecessors(n) = {}

selected(n) ==
    \E c \in chosen : c[2] < Len(successors[c[1]]) /\ successors[c[1]][c[2] + 1] = n

(***************************************************************************)
(* A branch calls its function only if the function of a condition chose   *)
(* it, whoever cancels the run and whichever loops the plan has; only a    *)
(* NON_CANCELLABLE branch may be reached by a condition that was cancelled.*)
(***************************************************************************)
BranchRunsOnlyIfChosen ==
    \A n \in called : isBranch(n) /\ n \notin NonCancellable => selected(n)

(***************************************************************************)
(* In a frame plan too, a node that only conditions lead to calls its      *)
(* function only if it was chosen: also one that is behind a condition     *)
(* because the builder ordered the phases so.                              *)
(***************************************************************************)
LedRunsOnlyIfChosen ==
    \A n \in called : isLed(n) /\ n \notin NonCancellable => selected(n)

\* A run completes only when a worker has entered every branch it chose.
ChosenBranchRuns ==
    phase = "complete" => \A n \in nodes : selected(n) => n \in invoked

\* A run whose cancellation was requested comes to an end.
StopEndsRun == stop_requested ~> phase = "complete"
=============================================================================
