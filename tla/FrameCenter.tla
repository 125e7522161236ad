---------------------------- MODULE FrameCenter ----------------------------
(***************************************************************************)
(* A Center, its compiled frames and its plain plans: instantiate and      *)
(* recycle, dispatch and wait, the token each dispatch carries, and the    *)
(* reports.  What a run executes is reduced to Tasks independent tasks.    *)
(*                                                                         *)
(* Task events reach the collector of the frame through the trace hooks of *)
(* its plan.  Worker entries and exits reach whichever collector the one   *)
(* slot of the center names at that moment.                                *)
(***************************************************************************)
EXTENDS Naturals, FiniteSets

CONSTANTS
    Frames,         \* compiled frame plans, and with each its runtime collector
    Plans,          \* plain plans
    Instances,      \* FrameInstance variables of the caller
    Workers,        \* worker threads of the executor
    MaxTokens,      \* bound: cancel states the cancel source goes through
    MaxHooks,       \* bound: trace hooks the caller installs in the center
    Tasks,          \* tasks of a run
    MaxDispatches,  \* bound: dispatches of the center
    None

Graphs  == Frames \cup Plans
Handles == 1 .. MaxDispatches
Tokens  == 1 .. MaxTokens

\* A FrameInstance, a RunHandle, and where a worker is in a task.
FrameInstance == [collector : Frames, plan : Frames]
RunHandle ==
    [graph : Graphs, token : Tokens \cup {None}, collector : Frames \cup {None},
     waited : BOOLEAN, canceled : BOOLEAN,
     begun_by : 1 .. MaxHooks, ended_by : (1 .. MaxHooks) \cup {None},
     dispatch_end_emitted : BOOLEAN, callback : BOOLEAN]
Activation ==
    [run : Handles, step : {"entered", "body", "canceled"},
     token : Tokens \cup {None}, observe_cancellation : BOOLEAN]

ASSUME FrameCenterAssumption ==
    /\ Frames \cap Plans = {} /\ IsFiniteSet(Workers)
    /\ None \notin Graphs \cup Nat
    /\ None \notin FrameInstance /\ None \notin RunHandle /\ None \notin Activation
    /\ Tasks \in Nat \ {0} /\ MaxDispatches \in Nat
    /\ MaxTokens \in Nat \ {0} /\ MaxHooks \in Nat \ {0}

VARIABLES
    stored,         \* the plan each compiled frame holds; None when moved from
    instance,       \* None, or the collector and the plan of a FrameInstance
    cancel_state,   \* the token the runtime state of each plan names
    hooks,          \* the collector the trace hooks of each plan name
    handle,         \* the run handles, in the order of dispatch; history: waited,
                    \* that the caller had waited on every handle before, and
                    \* canceled, that a task of the run was, and the hooks of the
                    \* caller that were told of BEGIN and of END
    left,           \* tasks of each run that no worker has entered
    working,        \* None, or the run a worker is in, the token its invoker read,
                    \* and whether the invoker looks at it
    source,         \* the cancel state of the CancelSource: the latest token
    stopped,        \* cancel states with stop_requested set
    active_runtime_collector,
    trace_hooks,            \* the hooks of the caller the center has now
    user_trace_hooks,       \* and those each collector passes its events on to
    begins, ends, started, canceled, \* the events each collector received
    entries, exits          \* worker entries and exits each collector received

reports == <<begins, ends, started, canceled, entries, exits>>
observers == <<trace_hooks, user_trace_hooks>>
vars == <<stored, instance, cancel_state, hooks, handle, left, working, source, stopped,
          active_runtime_collector, observers, reports>>

used == {h \in Handles : handle[h] # None}
inRun(h) == {w \in Workers : working[w] # None /\ working[w].run = h}
finished(h) == left[h] = 0 /\ inRun(h) = {}

\* The executor runs one topology of a graph at a time, in order.
first(h) == \A j \in used : j < h /\ handle[j].graph = handle[h].graph => finished(j)

allWaited == \A h \in used : handle[h].dispatch_end_emitted

\* One more event for collector c, if there is one.
count(events, c) == IF c = None THEN events ELSE [events EXCEPT ![c] = @ + 1]

Init ==
    /\ stored = [f \in Frames |-> f]
    /\ instance = [i \in Instances |-> None]
    /\ cancel_state = [g \in Graphs |-> None]
    /\ hooks = [g \in Graphs |-> None]
    /\ handle = [h \in Handles |-> None]
    /\ left = [h \in Handles |-> 0]
    /\ working = [w \in Workers |-> None]
    /\ source = 1 /\ stopped = {}
    /\ active_runtime_collector = None
    /\ trace_hooks = 1 /\ user_trace_hooks = [f \in Frames |-> None]
    /\ begins = [f \in Frames |-> 0] /\ ends = [f \in Frames |-> 0]
    /\ started = [f \in Frames |-> 0] /\ canceled = [f \in Frames |-> 0]
    /\ entries = [f \in Frames |-> 0] /\ exits = [f \in Frames |-> 0]

\* CompiledFramePlan::instantiate moves the stored plan out.
instantiate(f, i) ==
    /\ instance[i] = None
    /\ instance' = [instance EXCEPT ![i] = [collector |-> f, plan |-> stored[f]]]
    /\ stored' = [stored EXCEPT ![f] = None]
    /\ UNCHANGED <<cancel_state, hooks, handle, left, working, source,
                   stopped, active_runtime_collector, observers, reports>>

\* recycle moves the plan of an instance back; the caller drops the instance.
\* Neither that plan nor the one it replaces may be running.
recycle(f, i) ==
    /\ instance[i] # None
    /\ \A h \in used : handle[h].graph \in {instance[i].plan, stored[f]} => finished(h)
    /\ stored' = [stored EXCEPT ![f] = instance[i].plan]
    /\ instance' = [instance EXCEPT ![i] = None]
    /\ UNCHANGED <<cancel_state, hooks, handle, left, working, source,
                   stopped, active_runtime_collector, observers, reports>>

\* The hooks of the caller an event for collector c ends up in; a plain plan has
\* the hooks the center had when it was made, the first.
toldBy(c, passed_on) == IF c = None THEN 1 ELSE passed_on[c]

\* The hooks the center may have by the next dispatchFrame, the one call that
\* looks at them: setTraceHooks may install new ones in between.  (Before the
\* first dispatchFrame there are no others they could be told from.)
setTraceHooks ==
    {trace_hooks} \cup {k \in {trace_hooks + 1} :
        k <= MaxHooks /\ \E f \in Frames : user_trace_hooks[f] # None}

\* Mutant: a plan keeps the token of its first dispatch.
SubmitKeepsToken(g, c, token) ==
    LET h == Cardinality(used) + 1
    IN  /\ h \in Handles
        /\ cancel_state' = [cancel_state EXCEPT ![g] = IF @ = None THEN token ELSE @]
        /\ begins' = count(begins, c)
        /\ handle' = [handle EXCEPT ![h] =
              [graph |-> g, token |-> token, collector |-> c, waited |-> allWaited,
               canceled |-> FALSE, begun_by |-> toldBy(c, user_trace_hooks'), ended_by |-> None,
               dispatch_end_emitted |-> FALSE, callback |-> TRUE]]
        /\ left' = [left EXCEPT ![h] = Tasks]
        /\ UNCHANGED <<stored, instance, working, source, stopped, ends,
                       started, canceled, entries, exits>>

\* Center::dispatch, for a plan whose hooks name collector c: the token is
\* stored in the plan, BEGIN is emitted, the executor queues the graph.
submit(g, c, token) ==
    LET h == Cardinality(used) + 1
    IN  /\ h \in Handles
        /\ cancel_state' = [cancel_state EXCEPT ![g] = token]
        /\ begins' = count(begins, c)
        /\ handle' = [handle EXCEPT ![h] =
              [graph |-> g, token |-> token, collector |-> c, waited |-> allWaited,
               canceled |-> FALSE, begun_by |-> toldBy(c, user_trace_hooks'), ended_by |-> None,
               dispatch_end_emitted |-> FALSE, callback |-> TRUE]]
        /\ left' = [left EXCEPT ![h] = Tasks]
        /\ UNCHANGED <<stored, instance, working, source, stopped, ends,
                       started, canceled, entries, exits>>

dispatch(p, token) ==
    /\ submit(p, None, token)
    /\ UNCHANGED <<hooks, observers, active_runtime_collector>>

\* Mutant: prepares a plan for its first dispatch only.
DispatchFrameKeepsHooks(i, token, installed) ==
    LET g == instance[i].plan
    IN  /\ instance[i] # None
        /\ g # None
        /\ hooks' = [hooks EXCEPT ![g] = IF @ = None THEN instance[i].collector ELSE @]
        /\ trace_hooks' = installed
        /\ user_trace_hooks' = [user_trace_hooks EXCEPT ![instance[i].collector] = installed]
        /\ active_runtime_collector' = instance[i].collector
        /\ submit(g, instance[i].collector, token)

\* dispatchFrame: prepareDispatch points the hooks of the plan at the collector
\* and those of the collector at the caller's, the slot names the collector,
\* and the plan is dispatched.
dispatchFrame(i, token, installed) ==
    /\ instance[i] # None
    /\ instance[i].plan # None
    /\ hooks' = [hooks EXCEPT ![instance[i].plan] = instance[i].collector]
    /\ trace_hooks' = installed
    /\ user_trace_hooks' = [user_trace_hooks EXCEPT ![instance[i].collector] = installed]
    /\ active_runtime_collector' = instance[i].collector
    /\ submit(instance[i].plan, instance[i].collector, token)

\* CancelSource::requestStop: the tokens made since the last reset are stopped.
requestStop ==
    /\ source \notin stopped
    /\ stopped' = stopped \cup {source}
    /\ UNCHANGED <<stored, instance, cancel_state, hooks, handle, left, working, source,
                   active_runtime_collector, observers, reports>>

\* Mutant: reset clears the flag that earlier tokens share.
ResetClearsFlag ==
    /\ stopped' = stopped \ {source}
    /\ UNCHANGED <<stored, instance, cancel_state, hooks, handle, left, working, source,
                   active_runtime_collector, observers, reports>>

\* CancelSource::reset: the source turns to a new state, earlier tokens keep theirs.
reset ==
    /\ source < MaxTokens
    /\ source' = source + 1
    /\ UNCHANGED <<stored, instance, cancel_state, hooks, handle, left, working, stopped,
                   active_runtime_collector, observers, reports>>

\* Worker w takes a task of run h: on_entry reads the slot.
enter(w, h) ==
    /\ working[w] = None
    /\ left[h] > 0 /\ first(h)
    /\ left' = [left EXCEPT ![h] = @ - 1]
    /\ working' = [working EXCEPT ![w] =
          [run |-> h, step |-> "entered", token |-> None, observe_cancellation |-> FALSE]]
    /\ entries' = count(entries, active_runtime_collector)
    /\ UNCHANGED <<stored, instance, cancel_state, hooks, handle, source, stopped,
                   active_runtime_collector, observers, begins, ends, started, canceled, exits>>

canObserveCancellation(cancellable, token) == cancellable /\ token # None

\* Mutant: task events, too, go to the collector in the slot.
InvokeReportsToSlot(w, cancellable) ==
    LET h == working[w].run
        token == cancel_state[handle[h].graph]
    IN  /\ working[w] # None
        /\ working[w].step = "entered"
        /\ working' = [working EXCEPT ![w].step = "body", ![w].token = token,
                       ![w].observe_cancellation = canObserveCancellation(cancellable, token)]
        /\ started' = count(started, active_runtime_collector)
        /\ UNCHANGED <<stored, instance, cancel_state, hooks, handle, left, source, stopped,
                       active_runtime_collector, observers, begins, ends, canceled, entries, exits>>

\* The invoker reads the token of the plan.  If there is one, the task is not
\* NON_CANCELLABLE and the state of the token is stopped, it reports CANCELED,
\* else STARTED before it calls the body.
invoke(w, cancellable) ==
    LET h == working[w].run
        g == handle[h].graph
        token == cancel_state[g]
        observe == canObserveCancellation(cancellable, token)
        cancel == observe /\ token \in stopped
    IN  /\ working[w] # None
        /\ working[w].step = "entered"
        /\ working' = [working EXCEPT ![w].step = IF cancel THEN "canceled" ELSE "body",
                                      ![w].token = token,
                                      ![w].observe_cancellation = observe]
        /\ handle' = [handle EXCEPT ![h].canceled = @ \/ cancel]
        /\ IF cancel
           THEN canceled' = count(canceled, hooks[g]) /\ UNCHANGED started
           ELSE started' = count(started, hooks[g]) /\ UNCHANGED canceled
        /\ UNCHANGED <<stored, instance, cancel_state, hooks, left, source, stopped,
                       active_runtime_collector, observers, begins, ends, entries, exits>>

\* The task is over: on_exit reads the slot again.
exit(w) ==
    /\ working[w] # None
    /\ working[w].step # "entered"
    /\ working' = [working EXCEPT ![w] = None]
    /\ exits' = count(exits, active_runtime_collector)
    /\ UNCHANGED <<stored, instance, cancel_state, hooks, handle, left, source, stopped,
                   active_runtime_collector, observers, begins, ends, started, canceled, entries>>

endSeen(h) ==
    [handle EXCEPT ![h].dispatch_end_emitted = TRUE, ![h].callback = FALSE,
                   ![h].ended_by = IF handle[h].dispatch_end_emitted THEN @
                                   ELSE toldBy(handle[h].collector, user_trace_hooks)]

\* Mutants: the slot is never cleared; END is emitted by every wait.
WaitKeepsSlot(h) ==
    /\ finished(h)
    /\ ends' = IF handle[h].dispatch_end_emitted THEN ends ELSE count(ends, handle[h].collector)
    /\ handle' = endSeen(h)
    /\ UNCHANGED <<stored, instance, cancel_state, hooks, left, working, source, stopped, begins,
                   started, canceled, entries, exits, observers, active_runtime_collector>>

WaitEmitsAgain(h) ==
    /\ finished(h)
    /\ ends' = count(ends, handle[h].collector)
    /\ active_runtime_collector' = IF handle[h].callback THEN None ELSE active_runtime_collector
    /\ handle' = endSeen(h)
    /\ UNCHANGED <<stored, instance, cancel_state, hooks, left, working, source, stopped, begins,
                   started, canceled, entries, exits, observers>>

\* RunHandle::wait: returns when the run is over; emits END the first time, and
\* the first time has the center clear its slot.
wait(h) ==
    /\ finished(h)
    /\ ends' = IF handle[h].dispatch_end_emitted THEN ends ELSE count(ends, handle[h].collector)
    /\ active_runtime_collector' = IF handle[h].callback THEN None ELSE active_runtime_collector
    /\ handle' = endSeen(h)
    /\ UNCHANGED <<stored, instance, cancel_state, hooks, left, working, source, stopped, begins,
                   started, canceled, entries, exits, observers>>

\* Which tasks are declared NON_CANCELLABLE is left open.
Work ==
    \E w \in Workers :
        \/ \E h \in used : enter(w, h)
        \/ \E cancellable \in BOOLEAN : invoke(w, cancellable)
        \/ exit(w)

(***************************************************************************)
(* What callers do.  They dispatch a graph again only when its runs are    *)
(* over, with the current token of the source or with none.  They          *)
(* instantiate a frame that holds a plan, as long as MaxDispatches allows  *)
(* another dispatch of it, and recycle an instance into any frame that     *)
(* holds none, be it the one it was made from or another.                  *)
(***************************************************************************)
over(g) == \A h \in used : handle[h].graph = g => finished(h)

Calls ==
    \/ \E p \in Plans, t \in {source, None} : over(p) /\ dispatch(p, t)
    \/ \E i \in Instances, t \in {source, None}, installed \in setTraceHooks :
          instance[i] # None /\ over(instance[i].plan) /\ dispatchFrame(i, t, installed)
    \/ requestStop \/ reset
    \/ \E h \in used : wait(h)
    \/ Work

Next ==
    \/ Calls
    \/ \E f \in Frames, i \in Instances :
        \/ stored[f] # None /\ Cardinality(used) < MaxDispatches /\ instantiate(f, i)
        \/ stored[f] = None /\ recycle(f, i)

Spec == Init /\ [][Next]_vars

-----------------------------------------------------------------------------

runsOf(f) == {h \in used : handle[h].collector = f}
allFinished == \A h \in used : finished(h)

\* Each run was dispatched when wait() had been called on every handle before.
Orderly == \A h \in used : handle[h].waited

(***************************************************************************)
(* Whenever no run is under way, the worker profiles of each frame count   *)
(* an entry and an exit for every task of its own runs and for no other,   *)
(* if the caller waits on every handle; waitIdle() would not do.           *)
(***************************************************************************)
WorkerReportExact ==
    Orderly /\ allFinished => \A f \in Frames :
        entries[f] = Tasks * Cardinality(runsOf(f)) /\ exits[f] = entries[f]

(***************************************************************************)
(* So do the phase and lane profiles, which count a task as started or as  *)
(* canceled, and they do so whenever the caller waits, also when runs of   *)
(* several graphs overlap.                                                 *)
(***************************************************************************)
TaskReportExact ==
    allFinished => \A f \in Frames :
        started[f] + canceled[f] = Tasks * Cardinality(runsOf(f))

\* A task obeys the token its own run was dispatched with, though the token is
\* kept in the plan and every dispatch of the plan replaces it.
RunSeesItsToken ==
    \A w \in Workers : working[w] # None /\ working[w].step # "entered" =>
        working[w].token = handle[working[w].run].token

(***************************************************************************)
(* END is never counted ahead of BEGIN, and once for each run however      *)
(* often and in whichever order the callers wait.  Whoever was told of     *)
(* BEGIN is told of END, though the caller installs new hooks meanwhile,   *)
(* if it waits on every handle before it dispatches again.                 *)
(***************************************************************************)
EndOncePerRun ==
    \A f \in Frames :
        /\ begins[f] = Cardinality(runsOf(f))
        /\ ends[f] <= begins[f]
        /\ (\A h \in runsOf(f) : handle[h].dispatch_end_emitted) => ends[f] = begins[f]
        /\ Orderly => \A h \in runsOf(f) : handle[h].ended_by \in {None, handle[h].begun_by}

(***************************************************************************)
(* Once the caller has waited on every handle of a frame, neither the slot *)
(* of the center nor the plan of a run under way names the frame's         *)
(* collector, to which both keep raw pointers: whatever other runs there   *)
(* are, no event that comes later goes to it, and it may be dropped.       *)
(* (on_entry and on_exit, here one step each, load the slot and then use   *)
(* it: a worker of another run that loaded it before must have left.)      *)
(***************************************************************************)
awaited(f) == \E h \in runsOf(f) : ~handle[h].dispatch_end_emitted

NoCollectorDangles ==
    \A f \in Frames : ~awaited(f) =>
        /\ active_runtime_collector # f
        /\ \A w \in Workers :
              working[w] # None => hooks[handle[working[w].run].graph] # f

(***************************************************************************)
(* A run that has been canceled stays canceled: once one of its tasks was  *)
(* skipped, no invoker that observes cancellation and looks at the token   *)
(* after that calls its body, although the caller may reset the source at  *)
(* any time to cancel something else with it.                              *)
(***************************************************************************)
begins_body(w, h) ==
    /\ working[w] # None /\ working[w].run = h /\ working[w].step = "entered"
    /\ working'[w] # None /\ working'[w].step = "body"

CanceledRunStaysCanceled ==
    [][\A h \in used : handle[h].canceled =>
          \A w \in Workers : begins_body(w, h) => ~working'[w].observe_cancellation]_vars
=============================================================================
