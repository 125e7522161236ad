----------------------------- MODULE DynamicRun -----------------------------
(***************************************************************************)
(* Plans with dynamic tasks on the executor.  The body of a dynamic task   *)
(* builds a graph of children through its DynamicContext and may join it:  *)
(* then its worker runs tasks of any kind, one inside the other, until the *)
(* children are over.  Children not joined are run when the body returns,  *)
(* and the task is over when they are.                                     *)
(*                                                                         *)
(* An item is <<n, 0>>, task n of the plan, or <<n, k>>, its k-th child.   *)
(* Children that are loops are those of ParallelFor; conditions are left   *)
(* to ConditionRun.                                                        *)
(***************************************************************************)
EXTENDS Naturals, Sequences, FiniteSets, WorkerProfile

CONSTANTS
    Workers,         \* worker threads of the executor
    NonCancellable,  \* the items declared CancelBehavior::NON_CANCELLABLE
    MaxNodes,        \* bound: tasks of the plan
    MaxChildren,     \* bound: children of a run
    MaxDispatches    \* bound: dispatches of the plan

ASSUME DynamicRunAssumption ==
    /\ MaxNodes \in Nat /\ MaxChildren \in Nat /\ MaxDispatches \in Nat
    /\ NonCancellable \subseteq (1 .. MaxNodes) \X (0 .. MaxChildren)

Items == (1 .. MaxNodes) \X (0 .. MaxChildren)

VARIABLES
    kind,             \* the kinds of the tasks registered, in order
    before,           \* precede() calls on the plan
    dispatched,       \* a run is under way
    dispatch_count,
    stop_requested,   \* the cancel state this run observes
    children,         \* how many children each body has built in this run
    links,            \* precede() calls on their contexts
    opened,           \* tasks whose children the executor has been given
    entered, done,    \* items a worker has entered, items that are over
    reported,         \* the last task event of each item
    stack,            \* the activations of each worker, innermost first
    profile,          \* the worker states of the collector
    clock,            \* readings of the clock so far
    dispatch_start, total_dispatch_wall_time,
    deepest           \* history: most activations a worker ever had

plan    == <<kind, before>>
graph   == <<children, links, opened>>
control == <<dispatched, dispatch_count, stop_requested>>
time    == <<profile, clock, dispatch_start, total_dispatch_wall_time, deepest>>
vars    == <<plan, graph, control, time, entered, done, reported, stack>>

tasks == DOMAIN kind
childrenOf(n) == {<<n, k>> : k \in 1 .. children[n]}
spawned == UNION {childrenOf(n) : n \in 1 .. MaxNodes}
isTask(x) == x[2] = 0
final(x) == reported[x] \in {"finished", "canceled"}

predecessors(x) ==
    IF isTask(x) THEN {<<m, 0>> : m \in {m \in tasks : <<m, x[1]>> \in before}}
    ELSE {y \in childrenOf(x[1]) : <<y, x>> \in links}

\* What the executor has in its queues.
ready ==
    {x \in {<<n, 0>> : n \in tasks} \cup UNION {childrenOf(n) : n \in opened} :
        x \notin entered /\ predecessors(x) \subseteq done}

top(w) == Head(stack[w])
at(w, step) == stack[w] # <<>> /\ top(w).step = step
suspended(n) == \E w \in Workers : \E i \in DOMAIN stack[w] : stack[w][i].item = <<n, 0>>
goTo(w, step) == stack' = [stack EXCEPT ![w] = <<[top(w) EXCEPT !.step = step]>> \o Tail(@)]

Init ==
    /\ kind = <<>> /\ before = {}
    /\ dispatched = FALSE /\ dispatch_count = 0 /\ stop_requested = FALSE
    /\ children = [n \in 1 .. MaxNodes |-> 0] /\ links = {} /\ opened = {}
    /\ entered = {} /\ done = {}
    /\ reported = [x \in Items |-> "none"]
    /\ stack = [w \in Workers |-> <<>>]
    /\ profile = [w \in Workers |-> NewWorkerState]
    /\ clock = 0 /\ dispatch_start = 0 /\ total_dispatch_wall_time = 0
    /\ deepest = [w \in Workers |-> 0]

\* Plan: task or dynamicTask, and precede; the caller builds forward.
Register(k) ==
    LET n == Len(kind) + 1
    IN  /\ dispatch_count = 0 /\ n <= MaxNodes
        /\ kind' = Append(kind, k)
        /\ reported' = [reported EXCEPT ![<<n, 0>>] = "submitted"]
        /\ UNCHANGED <<before, graph, control, time, entered, done, stack>>

Precede(m, n) ==
    /\ dispatch_count = 0 /\ m < n
    /\ <<m, n>> \notin before
    /\ before' = before \cup {<<m, n>>}
    /\ UNCHANGED <<kind, graph, control, time, entered, done, reported, stack>>

\* Center::dispatch, with a token that may be stopped already.
Dispatch(requested) ==
    /\ ~dispatched /\ dispatch_count < MaxDispatches
    /\ kind # <<>>
    /\ dispatched' = TRUE
    /\ dispatch_count' = dispatch_count + 1
    /\ stop_requested' = requested
    /\ children' = [n \in 1 .. MaxNodes |-> 0] /\ links' = {} /\ opened' = {}
    /\ entered' = {} /\ done' = {}
    /\ reported' = [x \in Items |-> IF isTask(x) THEN "submitted" ELSE "none"]
    /\ clock' = clock + 1
    /\ dispatch_start' = clock + 1
    /\ UNCHANGED <<plan, profile, total_dispatch_wall_time, deepest, stack>>

RequestStop ==
    /\ dispatched /\ ~stop_requested
    /\ stop_requested' = TRUE
    /\ UNCHANGED <<plan, graph, dispatched, dispatch_count, time, entered, done,
                   reported, stack>>

allDone(n) == childrenOf(n) \subseteq done

shouldCancel(x) == stop_requested /\ x \notin NonCancellable

\* on_entry, and the invoker of a task, a dynamic task or a child: CANCELED, or
\* STARTED and the body.
invoke(w, x, cancel) ==
    /\ stack' = [stack EXCEPT ![w] =
          <<[item |-> x, step |-> IF cancel THEN "canceled" ELSE "body"]>> \o @]
    /\ reported' = [reported EXCEPT ![x] = IF cancel THEN "canceled" ELSE "started"]
    /\ entered' = entered \cup {x}
    /\ clock' = clock + 1
    /\ profile' = [profile EXCEPT ![w] = handleWorkerEntry(@, clock')]
    /\ deepest' = [deepest EXCEPT ![w] = IF Len(stack'[w]) > @ THEN Len(stack'[w]) ELSE @]
    /\ UNCHANGED <<plan, graph, control, dispatch_start, total_dispatch_wall_time, done>>

\* Mutants: a worker in a join waits; children do not look at the token.
EnterWhenIdle(w, x) ==
    /\ x \in ready
    /\ stack[w] = <<>>
    /\ invoke(w, x, shouldCancel(x))

EnterChildAnyway(w, x) ==
    /\ x \in ready
    /\ stack[w] = <<>> \/ (at(w, "joining") /\ ~allDone(top(w).item[1]))
    /\ invoke(w, x, isTask(x) /\ shouldCancel(x))

\* A worker takes an item when it is idle, or in a join that must wait.
Enter(w, x) ==
    /\ x \in ready
    /\ stack[w] = <<>> \/ (at(w, "joining") /\ ~allDone(top(w).item[1]))
    /\ invoke(w, x, shouldCancel(x))

\* Worker w is in the body of a dynamic task that has not joined.
building(w) ==
    /\ at(w, "body")
    /\ LET x == top(w).item IN isTask(x) /\ kind[x[1]] = "dynamic" /\ x[1] \notin opened

\* DynamicContext::task and gate: the child is put into the subflow, and
\* SUBMITTED is reported.
Spawn(w) ==
    LET n == top(w).item[1]
    IN  /\ building(w) /\ Cardinality(spawned) < MaxChildren
        /\ children' = [children EXCEPT ![n] = @ + 1]
        /\ reported' = [reported EXCEPT ![<<n, children'[n]>>] = "submitted"]
        /\ UNCHANGED <<plan, links, opened, control, time, entered, done, stack>>

\* DynamicContext::precede, between two children, forward.
Link(w, x, y) ==
    /\ building(w)
    /\ {x, y} \subseteq childrenOf(top(w).item[1])
    /\ x[2] < y[2] /\ <<x, y>> \notin links
    /\ links' = links \cup {<<x, y>>}
    /\ UNCHANGED <<plan, children, opened, control, time, entered, done, reported, stack>>

\* Mutant: join hands the children over and does not wait.
JoinDetaches(w) ==
    /\ building(w)
    /\ opened' = opened \cup {top(w).item[1]}
    /\ UNCHANGED <<plan, children, links, control, time, entered, done, reported, stack>>

\* DynamicContext::join, and its return when every child is over.
Join(w) ==
    /\ building(w)
    /\ opened' = opened \cup {top(w).item[1]}
    /\ goTo(w, "joining")
    /\ UNCHANGED <<plan, children, links, control, time, entered, done, reported>>

Joined(w) ==
    /\ at(w, "joining") /\ allDone(top(w).item[1])
    /\ goTo(w, "body")
    /\ UNCHANGED <<plan, graph, control, time, entered, done, reported>>

\* Mutant: a task is over with its body.
ReturnDropsChildren(w) ==
    LET x == top(w).item
        n == x[1]
    IN  /\ at(w, "body") \/ at(w, "canceled")
        /\ reported' = [reported EXCEPT ![x] = IF at(w, "body") THEN "finished" ELSE @]
        /\ stack' = [stack EXCEPT ![w] = Tail(@)]
        /\ clock' = clock + 1
        /\ profile' = [profile EXCEPT ![w] = handleWorkerExit(@, clock')]
        /\ opened' = IF isTask(x) /\ children[n] > 0 THEN opened \cup {n} ELSE opened
        /\ done' = done \cup {x}
        /\ UNCHANGED <<plan, children, links, control, dispatch_start,
                       total_dispatch_wall_time, deepest, entered>>

(***************************************************************************)
(* The body returns: FINISHED is reported, also when children are still to *)
(* be run, and on_exit.  Children not joined are scheduled now, and the    *)
(* last of them to be over takes its task with it.                         *)
(***************************************************************************)
Return(w) ==
    LET x == top(w).item
        n == x[1]
        unjoined  == isTask(x) /\ n \notin opened /\ children[n] > 0
        takesTask == ~isTask(x) /\ ~suspended(n) /\ childrenOf(n) \subseteq done \cup {x}
    IN  /\ at(w, "body") \/ at(w, "canceled")
        /\ reported' = [reported EXCEPT ![x] = IF at(w, "body") THEN "finished" ELSE @]
        /\ stack' = [stack EXCEPT ![w] = Tail(@)]
        /\ clock' = clock + 1
        /\ profile' = [profile EXCEPT ![w] = handleWorkerExit(@, clock')]
        /\ opened' = IF unjoined THEN opened \cup {n} ELSE opened
        /\ done' = done \cup (IF unjoined THEN {} ELSE {x})
                        \cup (IF takesTask THEN {<<n, 0>>} ELSE {})
        /\ UNCHANGED <<plan, children, links, control, dispatch_start,
                       total_dispatch_wall_time, deepest, entered>>

\* The executor has nothing queued and no worker is at anything: it asks for no
\* more, and RunHandle::wait reports END.
Complete ==
    /\ dispatched
    /\ ready = {} /\ \A w \in Workers : stack[w] = <<>>
    /\ dispatched' = FALSE
    /\ clock' = clock + 1
    /\ total_dispatch_wall_time' = total_dispatch_wall_time + (clock' - dispatch_start)
    /\ UNCHANGED <<plan, graph, dispatch_count, stop_requested, profile, dispatch_start,
                   deepest, entered, done, reported, stack>>

Build ==
    \/ \E k \in {"task", "dynamic"} : Register(k)
    \/ \E m, n \in tasks : Precede(m, n)

WorkerStep(w) ==
    \/ \E x \in ready : Enter(w, x)
    \/ Spawn(w) \/ Join(w) \/ Joined(w) \/ Return(w)
    \/ \E x, y \in Items : Link(w, x, y)

Execute == Complete \/ (dispatched /\ \E w \in Workers : WorkerStep(w))

Next ==
    \/ Build \/ RequestStop
    \/ \E requested \in BOOLEAN : Dispatch(requested)
    \/ Execute

\* Workers go on while there is something to do, and the caller waits.
Spec == Init /\ [][Next]_vars /\ WF_vars(Execute)

-----------------------------------------------------------------------------

(***************************************************************************)
(* The run is a schedule of the plan's tasks, where a task with children   *)
(* ends only when they do: whatever comes after it in the plan begins      *)
(* later, joined or not, and a run that completes has left no child out.   *)
(***************************************************************************)
Schedule == INSTANCE FrameSchedule WITH
    tasks      <- tasks,
    before     <- before,
    orderly    <- TRUE,
    dispatched <- dispatched,
    begun      <- {n \in tasks : <<n, 0>> \in entered},
    ended      <- {n \in tasks : ~suspended(n) /\ \A x \in {<<n, 0>>} \cup childrenOf(n) : final(x)}

ScheduleSpec == Schedule!Spec

\* What a run begins it brings to an end, with fewer workers than tasks that
\* wait in a join, because a worker in a join runs what it waits for.
RunCompletes == dispatched ~> ~dispatched

\* x is over before y begins, in a run that is a schedule of the plan.
comesBefore(x, y) ==
    \/ x \in predecessors(y)
    \/ isTask(y) /\ <<x[1], 0>> \in predecessors(y)
    \/ ~isTask(y) /\ x \in predecessors(<<y[1], 0>>)

(***************************************************************************)
(* A stop cuts a run with children in one place: behind an item that was   *)
(* canceled no body begins of an item that may be canceled, be it a child  *)
(* behind a child, a task behind a child of a task before it, or a child   *)
(* of a NON_CANCELLABLE task behind a canceled one.                        *)
(***************************************************************************)
CanceledStaysCanceled ==
    \A x, y \in Items :
        /\ comesBefore(x, y) /\ reported[x] = "canceled"
        /\ reported[y] \in {"started", "finished"}
        => y \in NonCancellable

(***************************************************************************)
(* A body that joins reports FINISHED after all its children have: to the  *)
(* profile they lie inside the task.  (A body that does not join reports   *)
(* FINISHED before any of them is entered.)                                *)
(***************************************************************************)
ReportsNest ==
    [][\A n \in tasks :
          reported[<<n, 0>>] = "started" /\ reported'[<<n, 0>>] = "finished" =>
             IF n \in opened THEN \A x \in childrenOf(n) : final(x)
             ELSE childrenOf(n) \cap entered = {}]_vars

(***************************************************************************)
(* The report never gives a worker more than its whole time, once for each *)
(* task it can be in at a time: 1000 permille, if no body joins; with      *)
(* joins, entries nest, and time inside is counted again.                  *)
(***************************************************************************)
UtilizationBounded ==
    ~dispatched => \A w \in Workers :
        utilization_permille(profile[w], total_dispatch_wall_time) <= 1000 * deepest[w]
=============================================================================
