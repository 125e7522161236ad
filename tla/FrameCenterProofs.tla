------------------------- MODULE FrameCenterProofs -------------------------
(***************************************************************************)
(* Proofs about a center for every number of frames, plain plans,          *)
(* instances, workers, tokens and dispatches, with callers that keep to    *)
(* what FrameCenter says of them.                                          *)
(***************************************************************************)
EXTENDS FrameCenter, FiniteSetTheorems, TLAPS

Events == [Frames -> Nat]

PlansTypeOK ==
    /\ stored \in [Frames -> Frames \cup {None}]
    /\ instance \in [Instances -> FrameInstance \cup {None}]
    /\ cancel_state \in [Graphs -> Tokens \cup {None}]
    /\ hooks \in [Graphs -> Frames \cup {None}]

RunsTypeOK ==
    /\ handle \in [Handles -> RunHandle \cup {None}]
    /\ left \in [Handles -> 0 .. Tasks]
    /\ working \in [Workers -> Activation \cup {None}]
    /\ source \in Tokens /\ stopped \subseteq Tokens

ReportsTypeOK ==
    /\ active_runtime_collector \in Frames \cup {None}
    /\ trace_hooks \in 1 .. MaxHooks
    /\ user_trace_hooks \in [Frames -> (1 .. MaxHooks) \cup {None}]
    /\ begins \in Events /\ ends \in Events /\ started \in Events /\ canceled \in Events
    /\ entries \in Events /\ exits \in Events

\* Handles are given out in order; workers are in runs that were dispatched.
RunsInOrder ==
    /\ \E n \in 0 .. MaxDispatches : used = 1 .. n
    /\ \A w \in Workers : working[w] # None => working[w].run \in used

(***************************************************************************)
(* As long as a run is not over, its plan holds the token and the hooks it *)
(* was dispatched with: callers dispatch a plan only when its runs are     *)
(* over.  The hooks of a plain plan never name a collector.                *)
(***************************************************************************)
PlanOfRunKept ==
    /\ \A h \in used : ~finished(h) =>
          /\ cancel_state[handle[h].graph] = handle[h].token
          /\ hooks[handle[h].graph] = handle[h].collector
    /\ \A p \in Plans : hooks[p] = None

\* A run has been canceled only if its own token is stopped, for good.
CanceledRunsStopped == \A h \in used : handle[h].canceled => handle[h].token \in stopped

\* What is left of wait() is left of all of it.
WaitedRunsOver ==
    \A h \in used : /\ handle[h].dispatch_end_emitted => finished(h)
                    /\ handle[h].callback <=> ~handle[h].dispatch_end_emitted

\* Whichever collector the slot names, a handle of its frame is to be waited on.
SlotAwaited == active_runtime_collector # None => awaited(active_runtime_collector)

endedRuns(f) == {h \in runsOf(f) : handle[h].dispatch_end_emitted}

DispatchAccount ==
    \A f \in Frames : /\ begins[f] = Cardinality(runsOf(f))
                      /\ ends[f] = Cardinality(endedRuns(f))

(***************************************************************************)
(* If the caller waits on every handle, one run at most is still to be     *)
(* waited for; the slot names its collector, and that collector passes on  *)
(* to the hooks that were told of BEGIN.                                   *)
(***************************************************************************)
SlotKept ==
    Orderly =>
        /\ \A g, h \in used : handle[g].dispatch_end_emitted \/ handle[h].dispatch_end_emitted \/ g = h
        /\ allWaited => active_runtime_collector = None
        /\ \A h \in used : ~handle[h].dispatch_end_emitted =>
              active_runtime_collector = handle[h].collector

Told ==
    Orderly => \A f \in Frames : \A h \in runsOf(f) :
        IF handle[h].dispatch_end_emitted THEN handle[h].ended_by = handle[h].begun_by
        ELSE handle[h].ended_by = None /\ user_trace_hooks[f] = handle[h].begun_by

\* The tasks of frame f no worker has entered, and the workers in its tasks.
pending(f) == {e \in Handles \X (1 .. Tasks) : e[1] \in runsOf(f) /\ e[2] <= left[e[1]]}
inside(f) == {w \in Workers : working[w] # None /\ handle[working[w].run].collector = f}
entered(f) == {w \in inside(f) : working[w].step = "entered"}

TaskAccount ==
    \A f \in Frames :
        started[f] + canceled[f] + Cardinality(pending(f)) + Cardinality(entered(f))
            = Tasks * Cardinality(runsOf(f))

WorkerAccount ==
    Orderly => \A f \in Frames :
        /\ entries[f] + Cardinality(pending(f)) = Tasks * Cardinality(runsOf(f))
        /\ exits[f] + Cardinality(inside(f)) = entries[f]

TypeOK == PlansTypeOK /\ RunsTypeOK /\ ReportsTypeOK

CenterInv ==
    /\ TypeOK /\ RunsInOrder /\ PlanOfRunKept /\ CanceledRunsStopped /\ WaitedRunsOver
    /\ RunSeesItsToken /\ SlotAwaited /\ DispatchAccount /\ SlotKept /\ Told /\ TaskAccount /\ WorkerAccount

-----------------------------------------------------------------------------
(* The steps. *)

LEMMA NoRecordIsNone ==
    /\ \A r \in FrameInstance : r # None
    /\ \A r \in RunHandle : r # None
    /\ \A r \in Activation : r # None
    /\ None \notin Frames /\ None \notin Plans /\ None \notin Nat
    /\ Frames \subseteq Graphs /\ Plans \subseteq Graphs /\ Frames \cap Plans = {}
    /\ IsFiniteSet(Workers)
    /\ Tasks \in Nat /\ MaxDispatches \in Nat
BY FrameCenterAssumption DEF FrameCenterAssumption, Graphs

\* A dispatch of graph g, whose events go to collector c, is run h.
Dispatched(h, g, c, token) ==
    /\ h \in Handles \ used /\ used' = used \cup {h}
    /\ \A j \in used : handle'[j] = handle[j] /\ left'[j] = left[j]
    /\ handle'[h].graph = g /\ handle'[h].token = token /\ handle'[h].collector = c
    /\ handle'[h].waited <=> allWaited
    /\ ~handle'[h].canceled
    /\ ~handle'[h].dispatch_end_emitted /\ handle'[h].callback
    /\ handle'[h].ended_by = None
    /\ left'[h] = Tasks

Prepared(h, g, c, token) ==
    /\ over(g) /\ (c = None \/ c \in Frames)
    /\ cancel_state' = [cancel_state EXCEPT ![g] = token]
    /\ hooks' = [hooks EXCEPT ![g] = c]
    /\ g \in Plans => c = None
    /\ active_runtime_collector' = IF c = None THEN active_runtime_collector ELSE c
    /\ \A f \in Frames : user_trace_hooks'[f] = IF f = c THEN handle'[h].begun_by
                                                ELSE user_trace_hooks[f]
    /\ begins' = count(begins, c)
    /\ UNCHANGED <<stored, instance, working, source, stopped,
                   ends, started, canceled, entries, exits>>

LEMMA UsedHandles ==
    ASSUME RunsTypeOK
    PROVE  /\ used \subseteq Handles
           /\ \A h \in used : handle[h] \in RunHandle
           /\ \A w \in Workers : working[w] # None => working[w] \in Activation
BY DEF RunsTypeOK, used

LEMMA SubmitDispatches ==
    ASSUME TypeOK, RunsInOrder,
           NEW g \in Graphs, NEW c \in Frames \cup {None}, NEW token \in Tokens \cup {None},
           submit(g, c, token), toldBy(c, user_trace_hooks') \in 1 .. MaxHooks
    PROVE  \E h \in Handles :
              /\ Dispatched(h, g, c, token)
              /\ handle'[h].begun_by = toldBy(c, user_trace_hooks')
              /\ handle' \in [Handles -> RunHandle \cup {None}]
              /\ left' \in [Handles -> 0 .. Tasks]
              /\ \E n \in 0 .. MaxDispatches : used' = 1 .. n
<1> DEFINE h == Cardinality(used) + 1
           run == [graph |-> g, token |-> token, collector |-> c, waited |-> allWaited,
                   canceled |-> FALSE, begun_by |-> toldBy(c, user_trace_hooks'),
                   ended_by |-> None, dispatch_end_emitted |-> FALSE, callback |-> TRUE]
<1>1. h \in Handles /\ handle' = [handle EXCEPT ![h] = run]
      /\ left' = [left EXCEPT ![h] = Tasks]
  BY DEF submit
<1>2. PICK n \in 0 .. MaxDispatches : used = 1 .. n
  BY DEF RunsInOrder
<1>3. h = n + 1
  <2>1. Cardinality(1 .. n) = n
    BY <1>2, FS_Interval, NoRecordIsNone
  <2>2. Cardinality(used) = n
    BY <1>2, <2>1, Zenon
  <2> QED BY <2>2
<1>4. run \in RunHandle
  <2>1. allWaited \in BOOLEAN
    BY DEF allWaited
  <2> HIDE DEF h
  <2> QED BY <2>1 DEF RunHandle
<1> HIDE DEF h, run
<1>5. h \notin used /\ n + 1 \in 0 .. MaxDispatches
  BY <1>1, <1>2, <1>3, NoRecordIsNone DEF Handles
<1>6. handle' \in [Handles -> RunHandle \cup {None}] /\ handle'[h] = run
      /\ \A j \in Handles : j # h => handle'[j] = handle[j]
  BY <1>1, <1>4 DEF TypeOK, RunsTypeOK
<1>7. used' = used \cup {h}
  BY <1>1, <1>4, <1>6, NoRecordIsNone DEF used
<1>8. used' = 1 .. n + 1
  BY <1>2, <1>3, <1>7
<1>9. left' \in [Handles -> 0 .. Tasks] /\ left'[h] = Tasks
      /\ \A j \in Handles : j # h => left'[j] = left[j]
  BY <1>1, NoRecordIsNone DEF TypeOK, RunsTypeOK
<1>10. /\ run.graph = g /\ run.token = token /\ run.collector = c
       /\ run.waited <=> allWaited
       /\ ~run.canceled /\ ~run.dispatch_end_emitted /\ run.callback
       /\ run.ended_by = None /\ run.begun_by = toldBy(c, user_trace_hooks')
  BY DEF run
<1>11. Dispatched(h, g, c, token)
  BY <1>1, <1>5, <1>6, <1>7, <1>9, <1>10 DEF Dispatched, used
<1> QED BY <1>1, <1>5, <1>6, <1>8, <1>9, <1>10, <1>11

Dispatching ==
    \E h \in Handles, g \in Graphs, c \in Frames \cup {None}, token \in Tokens \cup {None} :
        Dispatched(h, g, c, token) /\ Prepared(h, g, c, token)

AfterDispatch == TypeOK' /\ (\E n \in 0 .. MaxDispatches : used' = 1 .. n) /\ Dispatching

LEMMA CountedEvents ==
    ASSUME NEW events \in Events, NEW c \in Frames \cup {None}
    PROVE  /\ count(events, c) \in Events
           /\ \A f \in Frames : count(events, c)[f] = IF f = c THEN events[f] + 1 ELSE events[f]
BY NoRecordIsNone DEF count, Events

LEMMA PlanDispatches ==
    ASSUME TypeOK, RunsInOrder, PlanOfRunKept,
           NEW p \in Plans, NEW token \in Tokens \cup {None}, over(p), dispatch(p, token)
    PROVE  AfterDispatch
<1>1. p \in Graphs /\ submit(p, None, token) /\ toldBy(None, user_trace_hooks') \in 1 .. MaxHooks
  BY NoRecordIsNone, FrameCenterAssumption DEF dispatch, toldBy, FrameCenterAssumption
<1>2. PICK h \in Handles : /\ Dispatched(h, p, None, token)
                           /\ handle' \in [Handles -> RunHandle \cup {None}]
                           /\ left' \in [Handles -> 0 .. Tasks]
                           /\ \E n \in 0 .. MaxDispatches : used' = 1 .. n
  BY <1>1, SubmitDispatches
<1>3. cancel_state' = [cancel_state EXCEPT ![p] = token] /\ begins' = begins
      /\ UNCHANGED <<stored, instance, working, source, stopped, ends, started, canceled,
                     entries, exits, hooks, trace_hooks, user_trace_hooks,
                     active_runtime_collector>>
  BY <1>1 DEF dispatch, submit, count, observers
<1>4. hooks' = [hooks EXCEPT ![p] = None]
  BY <1>3, NoRecordIsNone DEF PlanOfRunKept, TypeOK, PlansTypeOK
<1>5. Prepared(h, p, None, token)
  BY <1>3, <1>4, NoRecordIsNone DEF Prepared, count
<1>6. PlansTypeOK'
  BY <1>1, <1>3 DEF TypeOK, PlansTypeOK
<1>7. RunsTypeOK'
  BY <1>2, <1>3 DEF TypeOK, RunsTypeOK
<1>8. ReportsTypeOK'
  BY <1>3 DEF TypeOK, ReportsTypeOK
<1> QED BY <1>1, <1>2, <1>5, <1>6, <1>7, <1>8 DEF AfterDispatch, Dispatching, TypeOK

LEMMA FrameDispatches ==
    ASSUME TypeOK, RunsInOrder,
           NEW i \in Instances, NEW token \in Tokens \cup {None}, NEW installed \in setTraceHooks,
           instance[i] # None, over(instance[i].plan), dispatchFrame(i, token, installed)
    PROVE  AfterDispatch
<1> DEFINE g == instance[i].plan
           c == instance[i].collector
<1>1. g \in Frames /\ c \in Frames
  BY DEF TypeOK, PlansTypeOK, FrameInstance
<1>2. /\ hooks' = [hooks EXCEPT ![g] = c] /\ trace_hooks' = installed
      /\ user_trace_hooks' = [user_trace_hooks EXCEPT ![c] = installed]
      /\ active_runtime_collector' = c /\ submit(g, c, token) /\ over(g)
  BY DEF dispatchFrame
<1> HIDE DEF g, c
<1>3. installed \in 1 .. MaxHooks
  BY FrameCenterAssumption DEF setTraceHooks, TypeOK, ReportsTypeOK, FrameCenterAssumption
<1>4. c # None /\ toldBy(c, user_trace_hooks') = installed
  BY <1>1, <1>2, NoRecordIsNone DEF toldBy, TypeOK, ReportsTypeOK
<1>5. g \in Graphs /\ toldBy(c, user_trace_hooks') \in 1 .. MaxHooks
  BY <1>1, <1>3, <1>4, NoRecordIsNone
<1>6. PICK h \in Handles : /\ Dispatched(h, g, c, token)
                           /\ handle'[h].begun_by = toldBy(c, user_trace_hooks')
                           /\ handle' \in [Handles -> RunHandle \cup {None}]
                           /\ left' \in [Handles -> 0 .. Tasks]
                           /\ \E n \in 0 .. MaxDispatches : used' = 1 .. n
  BY <1>1, <1>2, <1>5, SubmitDispatches
<1>7. /\ cancel_state' = [cancel_state EXCEPT ![g] = token] /\ begins' = count(begins, c)
      /\ UNCHANGED <<stored, instance, working, source, stopped, ends, started, canceled,
                     entries, exits>>
  BY <1>2 DEF submit
<1>8. Prepared(h, g, c, token)
  <2>1. \A f \in Frames : user_trace_hooks'[f] = IF f = c THEN handle'[h].begun_by
                                                 ELSE user_trace_hooks[f]
    BY <1>1, <1>2, <1>4, <1>6 DEF TypeOK, ReportsTypeOK
  <2> QED BY <1>1, <1>2, <1>4, <1>7, <2>1, NoRecordIsNone DEF Prepared
<1>9. PlansTypeOK'
  BY <1>1, <1>2, <1>5, <1>7 DEF TypeOK, PlansTypeOK
<1>10. RunsTypeOK'
  BY <1>6, <1>7 DEF TypeOK, RunsTypeOK
<1>11. begins' \in Events
  BY <1>1, <1>7, CountedEvents DEF TypeOK, ReportsTypeOK
<1>12. ReportsTypeOK'
  BY <1>1, <1>2, <1>3, <1>7, <1>11 DEF TypeOK, ReportsTypeOK
<1> QED BY <1>1, <1>5, <1>6, <1>8, <1>9, <1>10, <1>12 DEF AfterDispatch, Dispatching, TypeOK

-----------------------------------------------------------------------------
(* Types. *)

\* A task is invoked by a worker that has entered it; its run is not over.
LEMMA InvokeFacts ==
    ASSUME TypeOK, RunsInOrder, NEW w \in Workers, working[w] # None
    PROVE  /\ working[w] \in Activation /\ working[w].run \in used /\ working[w].run \in Handles
           /\ handle[working[w].run] \in RunHandle /\ handle[working[w].run].graph \in Graphs
           /\ w \in inRun(working[w].run) /\ ~finished(working[w].run)
BY UsedHandles DEF TypeOK, RunsInOrder, Activation, RunHandle, inRun, finished

LEMMA NextRunsTypeOK ==
    ASSUME TypeOK, RunsInOrder, Work \/ \E h \in used : wait(h)
    PROVE  RunsTypeOK' /\ used' = used
<1> USE DEF TypeOK, RunsTypeOK
<1>1. ASSUME NEW w \in Workers, NEW h \in used, enter(w, h)
      PROVE  RunsTypeOK' /\ used' = used
  <2>1. [run |-> h, step |-> "entered", token |-> None, observe_cancellation |-> FALSE]
           \in Activation
    BY UsedHandles DEF Activation
  <2>2. left' \in [Handles -> 0 .. Tasks] /\ working' \in [Workers -> Activation \cup {None}]
    BY <1>1, <2>1, UsedHandles, NoRecordIsNone DEF enter
  <2> QED BY <1>1, <2>2 DEF enter, used
<1>2. ASSUME NEW w \in Workers, NEW may \in BOOLEAN, invoke(w, may)
      PROVE  RunsTypeOK' /\ used' = used
  <2> DEFINE h == working[w].run
             g == handle[h].graph
             observe == canObserveCancellation(may, cancel_state[g])
             cancel == observe /\ cancel_state[g] \in stopped
  <2>1. working[w] \in Activation /\ h \in used /\ h \in Handles /\ handle[h] \in RunHandle
        /\ g \in Graphs
    BY <1>2, InvokeFacts DEF invoke
  <2>2. /\ working' = [working EXCEPT ![w].step = IF cancel THEN "canceled" ELSE "body",
                                      ![w].token = cancel_state[g],
                                      ![w].observe_cancellation = observe]
        /\ handle' = [handle EXCEPT ![h].canceled = @ \/ cancel]
        /\ UNCHANGED <<left, source, stopped>>
    BY <1>2 DEF invoke
  <2>3. cancel_state[g] \in Tokens \cup {None}
    BY <2>1 DEF PlansTypeOK
  <2>4. (handle[h].canceled \/ cancel) \in BOOLEAN /\ observe \in BOOLEAN
    BY DEF canObserveCancellation
  <2> HIDE DEF h, g, observe, cancel
  <2>5. working' \in [Workers -> Activation \cup {None}]
    BY <2>1, <2>2, <2>3, <2>4 DEF Activation
  <2>6. [handle[h] EXCEPT !.canceled = handle[h].canceled \/ cancel] \in RunHandle
    BY <2>1, <2>4 DEF RunHandle
  <2>7. handle' \in [Handles -> RunHandle \cup {None}]
    BY <2>1, <2>2, <2>6
  <2>8. used' = used
    BY <2>1, <2>2, <2>6, <2>7, NoRecordIsNone DEF used
  <2> QED BY <2>2, <2>5, <2>7, <2>8
<1>3. ASSUME NEW w \in Workers, exit(w)
      PROVE  RunsTypeOK' /\ used' = used
  BY <1>3 DEF exit, used
<1>4. ASSUME NEW h \in used, wait(h)
      PROVE  RunsTypeOK' /\ used' = used
  <2> DEFINE e == IF handle[h].dispatch_end_emitted THEN handle[h].ended_by
                  ELSE toldBy(handle[h].collector, user_trace_hooks)
             ended == [handle[h] EXCEPT !.dispatch_end_emitted = TRUE, !.callback = FALSE,
                                        !.ended_by = e]
  <2>1. handle' = [handle EXCEPT ![h] = ended]
    BY <1>4 DEF wait, endSeen
  <2>2. h \in Handles /\ handle[h] \in RunHandle
    BY UsedHandles
  <2>3. e \in (1 .. MaxHooks) \cup {None}
    BY <2>2, NoRecordIsNone, FrameCenterAssumption
       DEF toldBy, RunHandle, ReportsTypeOK, FrameCenterAssumption
  <2> HIDE DEF e
  <2>4. ended \in RunHandle
    BY <2>2, <2>3 DEF RunHandle
  <2> HIDE DEF ended
  <2>5. handle' \in [Handles -> RunHandle \cup {None}]
    BY <2>1, <2>2, <2>4
  <2>6. used' = used
    BY <2>1, <2>2, <2>4, <2>5, NoRecordIsNone DEF used
  <2>7. UNCHANGED <<left, working, source, stopped>>
    BY <1>4 DEF wait
  <2> QED BY <2>5, <2>6, <2>7
<1> QED BY <1>1, <1>2, <1>3, <1>4 DEF Work

LEMMA NextReportsTypeOK ==
    ASSUME TypeOK, RunsInOrder, Work \/ \E h \in used : wait(h)
    PROVE  ReportsTypeOK'
<1> USE DEF TypeOK, ReportsTypeOK
<1>1. ASSUME NEW w \in Workers, NEW h \in used, enter(w, h)
      PROVE  ReportsTypeOK'
  BY <1>1, CountedEvents DEF enter, observers
<1>2. ASSUME NEW w \in Workers, NEW may \in BOOLEAN, invoke(w, may)
      PROVE  ReportsTypeOK'
  <2>1. hooks[handle[working[w].run].graph] \in Frames \cup {None}
    BY <1>2, InvokeFacts DEF invoke, PlansTypeOK
  <2>2. started' \in Events /\ canceled' \in Events
    BY <1>2, <2>1, CountedEvents DEF invoke
  <2> QED BY <1>2, <2>2 DEF invoke, observers
<1>3. ASSUME NEW w \in Workers, exit(w)
      PROVE  ReportsTypeOK'
  BY <1>3, CountedEvents DEF exit, observers
<1>4. ASSUME NEW h \in used, wait(h)
      PROVE  ReportsTypeOK'
  <2>1. handle[h].collector \in Frames \cup {None}
    BY UsedHandles DEF RunHandle
  <2>2. ends' \in Events /\ active_runtime_collector' \in Frames \cup {None}
    BY <1>4, <2>1, CountedEvents DEF wait
  <2> QED BY <1>4, <2>2 DEF wait, observers
<1> QED BY <1>1, <1>2, <1>3, <1>4 DEF Work

\* The steps that touch neither a run nor a report.
Aside ==
    /\ PlansTypeOK' /\ source' \in Tokens /\ stopped' \subseteq Tokens
    /\ stopped \subseteq stopped'
    /\ UNCHANGED <<cancel_state, hooks, handle, left, working, active_runtime_collector,
                   trace_hooks, user_trace_hooks, begins, ends, started, canceled, entries, exits>>

AsideStep ==
    \/ requestStop \/ reset
    \/ \E f \in Frames, i \in Instances :
        \/ stored[f] # None /\ instantiate(f, i)
        \/ stored[f] = None /\ recycle(f, i)

LEMMA StepsAside ==
    ASSUME TypeOK, AsideStep
    PROVE  Aside
<1> USE DEF TypeOK, Aside, PlansTypeOK, RunsTypeOK, observers, reports
<1>1. CASE requestStop
  BY <1>1 DEF requestStop
<1>2. CASE reset
  BY <1>2, FrameCenterAssumption DEF reset, Tokens, FrameCenterAssumption
<1>3. ASSUME NEW f \in Frames, NEW i \in Instances, stored[f] # None, instantiate(f, i)
      PROVE  Aside
  BY <1>3 DEF instantiate, FrameInstance
<1>4. ASSUME NEW f \in Frames, NEW i \in Instances, recycle(f, i)
      PROVE  Aside
  BY <1>4 DEF recycle, FrameInstance
<1> QED BY <1>1, <1>2, <1>3, <1>4 DEF AsideStep

LEMMA NextCases ==
    ASSUME TypeOK, RunsInOrder, PlanOfRunKept, Next
    PROVE  \/ AfterDispatch
           \/ AsideStep
           \/ Work
           \/ \E h \in used : wait(h)
<1>1. ASSUME NEW p \in Plans, NEW t \in {source, None}, over(p), dispatch(p, t)
      PROVE  AfterDispatch
  <2>1. t \in Tokens \cup {None}
    BY DEF TypeOK, RunsTypeOK
  <2> QED BY <1>1, <2>1, PlanDispatches
<1>2. ASSUME NEW i \in Instances, NEW t \in {source, None}, NEW installed \in setTraceHooks,
             instance[i] # None, over(instance[i].plan), dispatchFrame(i, t, installed)
      PROVE  AfterDispatch
  <2>1. t \in Tokens \cup {None}
    BY DEF TypeOK, RunsTypeOK
  <2> QED BY <1>2, <2>1, FrameDispatches
<1> QED BY <1>1, <1>2 DEF Next, Calls, AsideStep

LEMMA NextTypeOK ==
    ASSUME TypeOK, RunsInOrder, PlanOfRunKept, Next
    PROVE  TypeOK'
<1>1. CASE AfterDispatch
  BY <1>1 DEF AfterDispatch
<1>2. CASE AsideStep
  BY <1>2, StepsAside DEF Aside, TypeOK, RunsTypeOK, ReportsTypeOK
<1>3. CASE Work \/ \E h \in used : wait(h)
  <2>1. PlansTypeOK'
    BY <1>3 DEF TypeOK, PlansTypeOK, Work, enter, invoke, exit, wait
  <2> QED BY <1>3, <2>1, NextRunsTypeOK, NextReportsTypeOK DEF TypeOK
<1> QED BY <1>1, <1>2, <1>3, NextCases

-----------------------------------------------------------------------------
(* Runs: what stays as it is, and when they are over. *)

Lasting(h) ==
    /\ handle'[h].graph = handle[h].graph /\ handle'[h].token = handle[h].token
    /\ handle'[h].collector = handle[h].collector /\ handle'[h].begun_by = handle[h].begun_by
    /\ handle'[h].waited <=> handle[h].waited

Unwaited(h) ==
    /\ handle'[h].ended_by = handle[h].ended_by
    /\ handle'[h].dispatch_end_emitted <=> handle[h].dispatch_end_emitted
    /\ handle'[h].callback <=> handle[h].callback

LEMMA HandlesLast ==
    ASSUME TypeOK, RunsInOrder, PlanOfRunKept, Next
    PROVE  \A h \in used : h \in used' /\ Lasting(h)
<1>1. CASE AfterDispatch
  BY <1>1 DEF AfterDispatch, Dispatching, Dispatched, Lasting
<1>2. CASE AsideStep
  BY <1>2, StepsAside DEF Aside, used, Lasting
<1>3. CASE Work
  <2>1. used' = used
    BY <1>3, NextRunsTypeOK
  <2>2. ASSUME NEW w \in Workers, NEW may \in BOOLEAN, invoke(w, may)
        PROVE  \A h \in used : Lasting(h)
    <3>1. \E b : handle' = [handle EXCEPT ![working[w].run].canceled = b]
      BY <2>2 DEF invoke
    <3> QED BY <3>1, UsedHandles DEF Lasting, TypeOK, RunsTypeOK, RunHandle
  <2>3. CASE UNCHANGED handle
    BY <2>1, <2>3 DEF Lasting
  <2> QED BY <1>3, <2>1, <2>2, <2>3 DEF Work, enter, exit
<1>4. ASSUME NEW g \in used, wait(g)
      PROVE  \A h \in used : h \in used' /\ Lasting(h)
  <2>1. used' = used
    BY <1>4, NextRunsTypeOK
  <2>2. \E e : handle' = [handle EXCEPT ![g].dispatch_end_emitted = TRUE, ![g].callback = FALSE,
                                        ![g].ended_by = e]
    BY <1>4 DEF wait, endSeen
  <2> QED BY <2>1, <2>2, UsedHandles DEF Lasting, TypeOK, RunsTypeOK, RunHandle
<1> QED BY <1>1, <1>2, <1>3, <1>4, NextCases

LEMMA WorkWaitsForNobody ==
    ASSUME TypeOK, RunsInOrder, Work
    PROVE  \A h \in used : Unwaited(h)
<1>1. ASSUME NEW w \in Workers, NEW may \in BOOLEAN, invoke(w, may)
      PROVE  \A h \in used : Unwaited(h)
  <2>1. \E b : handle' = [handle EXCEPT ![working[w].run].canceled = b]
    BY <1>1 DEF invoke
  <2> QED BY <2>1, UsedHandles DEF Unwaited, TypeOK, RunsTypeOK, RunHandle
<1>2. CASE UNCHANGED handle
  BY <1>2 DEF Unwaited
<1> QED BY <1>1, <1>2 DEF Work, enter, exit

LEMMA WaitEffects ==
    ASSUME TypeOK, NEW g \in used, wait(g)
    PROVE  /\ \A h \in used \ {g} : Unwaited(h)
           /\ handle'[g].dispatch_end_emitted /\ ~handle'[g].callback
           /\ handle'[g].ended_by = IF handle[g].dispatch_end_emitted THEN handle[g].ended_by
                                    ELSE toldBy(handle[g].collector, user_trace_hooks)
<1>1. handle' = endSeen(g)
  BY DEF wait
<1> QED BY <1>1, UsedHandles DEF endSeen, Unwaited, TypeOK, RunsTypeOK, RunHandle

\* A run is over once and for all, and it is not over as long as a worker is in it.
LEMMA OverForGood ==
    ASSUME TypeOK, RunsInOrder, PlanOfRunKept, Next, NEW h \in used, finished(h)
    PROVE  finished(h)'
<1> USE UsedHandles DEF finished, inRun
<1>1. CASE AfterDispatch
  BY <1>1 DEF AfterDispatch, Dispatching, Dispatched, Prepared
<1>2. CASE AsideStep
  BY <1>2, StepsAside DEF Aside
<1>3. ASSUME NEW w \in Workers, NEW j \in used, enter(w, j)
      PROVE  finished(h)'
  <2>1. j # h
    BY <1>3, NoRecordIsNone DEF enter, TypeOK, RunsTypeOK
  <2>2. left'[h] = left[h]
    BY <1>3, <2>1 DEF enter, TypeOK, RunsTypeOK
  <2>3. \A v \in Workers : v # w => working'[v] = working[v]
    BY <1>3 DEF enter, TypeOK, RunsTypeOK
  <2>4. working'[w].run = j
    BY <1>3 DEF enter, TypeOK, RunsTypeOK
  <2> QED BY <2>1, <2>2, <2>3, <2>4
<1>4. ASSUME NEW w \in Workers, NEW may \in BOOLEAN, invoke(w, may)
      PROVE  finished(h)'
  <2>1. left' = left /\ \A v \in Workers : v # w => working'[v] = working[v]
    BY <1>4 DEF invoke, TypeOK, RunsTypeOK
  <2>2. working[w] # None /\ working'[w].run = working[w].run
    BY <1>4, InvokeFacts DEF invoke, TypeOK, RunsTypeOK, Activation
  <2> QED BY <2>1, <2>2
<1>5. ASSUME NEW w \in Workers, exit(w)
      PROVE  finished(h)'
  <2>1. left' = left /\ \A v \in Workers : working'[v] = None \/ working'[v] = working[v]
    BY <1>5 DEF exit, TypeOK, RunsTypeOK
  <2> QED BY <2>1
<1>6. CASE \E g \in used : wait(g)
  BY <1>6 DEF wait
<1> QED BY <1>1, <1>2, <1>3, <1>4, <1>5, <1>6, NextCases DEF Work

LEMMA NextRunsInOrder ==
    ASSUME TypeOK, RunsInOrder, PlanOfRunKept, Next
    PROVE  RunsInOrder'
<1>1. CASE AfterDispatch
  BY <1>1 DEF AfterDispatch, Dispatching, Dispatched, Prepared, RunsInOrder
<1>2. CASE AsideStep
  BY <1>2, StepsAside DEF Aside, RunsInOrder, used
<1>3. CASE Work
  <2>1. used' = used
    BY <1>3, NextRunsTypeOK
  <2>2. ASSUME NEW v \in Workers, working'[v] # None
        PROVE  working'[v].run \in used
    <3>1. ASSUME NEW w \in Workers, NEW j \in used, enter(w, j)
          PROVE  working'[v].run \in used
      BY <2>2, <3>1 DEF enter, TypeOK, RunsTypeOK, RunsInOrder
    <3>2. ASSUME NEW w \in Workers, NEW may \in BOOLEAN, invoke(w, may)
          PROVE  working'[v].run \in used
      <4>1. working'[w].run = working[w].run /\ working[w].run \in used
        BY <3>2, InvokeFacts DEF invoke, TypeOK, RunsTypeOK, Activation
      <4>2. v # w => working'[v] = working[v]
        BY <3>2 DEF invoke, TypeOK, RunsTypeOK
      <4> QED BY <2>2, <4>1, <4>2 DEF RunsInOrder
    <3>3. ASSUME NEW w \in Workers, exit(w)
          PROVE  working'[v].run \in used
      BY <2>2, <3>3 DEF exit, TypeOK, RunsTypeOK, RunsInOrder
    <3> QED BY <1>3, <3>1, <3>2, <3>3 DEF Work
  <2> QED BY <2>1, <2>2 DEF RunsInOrder
<1>4. CASE \E h \in used : wait(h)
  <2>1. used' = used /\ working' = working
    BY <1>4, NextRunsTypeOK DEF wait
  <2> QED BY <2>1 DEF RunsInOrder
<1> QED BY <1>1, <1>2, <1>3, <1>4, NextCases

LEMMA NextPlanOfRunKept ==
    ASSUME TypeOK, RunsInOrder, PlanOfRunKept, Next
    PROVE  PlanOfRunKept'
<1>1. ASSUME NEW h \in used, ~finished(h)',
             cancel_state'[handle[h].graph] = cancel_state[handle[h].graph],
             hooks'[handle[h].graph] = hooks[handle[h].graph]
      PROVE  /\ cancel_state'[handle'[h].graph] = handle'[h].token
             /\ hooks'[handle'[h].graph] = handle'[h].collector
  <2>1. ~finished(h)
    BY <1>1, OverForGood
  <2> QED BY <1>1, <2>1, HandlesLast DEF Lasting, PlanOfRunKept
<1>2. CASE AfterDispatch
  <2>1. PICK h \in Handles, g \in Graphs, c \in Frames \cup {None}, token \in Tokens \cup {None} :
           Dispatched(h, g, c, token) /\ Prepared(h, g, c, token)
    BY <1>2 DEF AfterDispatch, Dispatching
  <2>2. /\ cancel_state'[g] = token /\ hooks'[g] = c
        /\ \A k \in Graphs : k # g => cancel_state'[k] = cancel_state[k] /\ hooks'[k] = hooks[k]
    BY <2>1 DEF Prepared, TypeOK, PlansTypeOK
  <2>3. ASSUME NEW j \in used', ~finished(j)'
        PROVE  /\ cancel_state'[handle'[j].graph] = handle'[j].token
               /\ hooks'[handle'[j].graph] = handle'[j].collector
    <3>1. CASE j = h
      BY <2>1, <2>2, <3>1 DEF Dispatched
    <3>2. CASE j \in used
      <4>1. ~finished(j)
        BY <2>3, <3>2, OverForGood
      <4>2. handle[j].graph # g
        BY <2>1, <3>2, <4>1 DEF Prepared, over
      <4>3. handle[j].graph \in Graphs
        BY <3>2, UsedHandles DEF TypeOK, RunHandle
      <4> QED BY <1>1, <2>2, <2>3, <3>2, <4>2, <4>3
    <3> QED BY <2>1, <3>1, <3>2 DEF Dispatched
  <2>4. \A p \in Plans : hooks'[p] = None
    BY <2>1, <2>2, NoRecordIsNone DEF Prepared, PlanOfRunKept
  <2> QED BY <2>3, <2>4 DEF PlanOfRunKept
<1>3. CASE AsideStep
  BY <1>1, <1>3, StepsAside DEF Aside, PlanOfRunKept, used
<1>4. CASE Work \/ \E h \in used : wait(h)
  <2>1. used' = used /\ UNCHANGED <<cancel_state, hooks>>
    BY <1>4, NextRunsTypeOK DEF Work, enter, invoke, exit, wait
  <2> QED BY <1>1, <2>1 DEF PlanOfRunKept
<1> QED BY <1>2, <1>3, <1>4, NextCases

LEMMA InvokedToken ==
    ASSUME TypeOK, RunsInOrder, PlanOfRunKept, NEW w \in Workers, working[w] # None
    PROVE  /\ cancel_state[handle[working[w].run].graph] = handle[working[w].run].token
           /\ hooks[handle[working[w].run].graph] = handle[working[w].run].collector
BY InvokeFacts DEF PlanOfRunKept

LEMMA NextCanceledRunsStopped ==
    ASSUME TypeOK, RunsInOrder, PlanOfRunKept, CanceledRunsStopped, Next
    PROVE  CanceledRunsStopped'
<1>1. stopped \subseteq stopped'
  <2>1. CASE AfterDispatch
    BY <2>1 DEF AfterDispatch, Dispatching, Prepared
  <2>2. CASE AsideStep
    BY <2>2, StepsAside DEF Aside
  <2>3. CASE Work \/ \E h \in used : wait(h)
    BY <2>3 DEF Work, enter, invoke, exit, wait
  <2> QED BY <2>1, <2>2, <2>3, NextCases
<1>2. ASSUME NEW h \in used, handle'[h].canceled => handle[h].canceled \/ handle[h].token \in stopped
      PROVE  handle'[h].canceled => handle'[h].token \in stopped'
  BY <1>1, <1>2, HandlesLast DEF Lasting, CanceledRunsStopped
<1>3. CASE AfterDispatch
  BY <1>2, <1>3 DEF AfterDispatch, Dispatching, Dispatched, CanceledRunsStopped
<1>4. CASE AsideStep
  BY <1>2, <1>4, StepsAside DEF Aside, used, CanceledRunsStopped
<1>5. ASSUME NEW w \in Workers, NEW may \in BOOLEAN, invoke(w, may)
      PROVE  CanceledRunsStopped'
  <2> DEFINE j == working[w].run
             token == cancel_state[handle[j].graph]
             cancel == canObserveCancellation(may, token) /\ token \in stopped
  <2>1. working[w] # None /\ used' = used
        /\ handle' = [handle EXCEPT ![j].canceled = @ \/ cancel]
    BY <1>5, NextRunsTypeOK DEF invoke, Work
  <2>2. cancel => handle[j].token \in stopped
    BY <2>1, InvokedToken
  <2> HIDE DEF j, token, cancel
  <2>3. \A h \in used : handle'[h].canceled => handle[h].canceled \/ handle[h].token \in stopped
    BY <2>1, <2>2, UsedHandles DEF TypeOK, RunsTypeOK, RunHandle
  <2> QED BY <1>2, <2>1, <2>3 DEF CanceledRunsStopped
<1>6. CASE UNCHANGED handle
  BY <1>2, <1>6 DEF used, CanceledRunsStopped
<1>7. ASSUME NEW g \in used, wait(g)
      PROVE  CanceledRunsStopped'
  <2>1. used' = used
    BY <1>7, NextRunsTypeOK
  <2>2. \E e : handle' = [handle EXCEPT ![g].dispatch_end_emitted = TRUE, ![g].callback = FALSE,
                                        ![g].ended_by = e]
    BY <1>7 DEF wait, endSeen
  <2>3. \A h \in used : handle'[h].canceled = handle[h].canceled
    BY <2>2, UsedHandles DEF TypeOK, RunsTypeOK, RunHandle
  <2> QED BY <1>2, <2>1, <2>3 DEF CanceledRunsStopped
<1> QED BY <1>3, <1>4, <1>5, <1>6, <1>7, NextCases DEF Work, enter, exit

LEMMA NextWaitedRunsOver ==
    ASSUME TypeOK, RunsInOrder, PlanOfRunKept, WaitedRunsOver, Next
    PROVE  WaitedRunsOver'
<1>1. ASSUME NEW h \in used, Unwaited(h)
      PROVE  /\ handle'[h].dispatch_end_emitted => finished(h)'
             /\ handle'[h].callback <=> ~handle'[h].dispatch_end_emitted
  BY <1>1, OverForGood DEF Unwaited, WaitedRunsOver
<1>2. CASE AfterDispatch
  <2>1. \A h \in used : Unwaited(h)
    BY <1>2 DEF AfterDispatch, Dispatching, Dispatched, Unwaited
  <2> QED BY <1>1, <1>2, <2>1 DEF AfterDispatch, Dispatching, Dispatched, WaitedRunsOver
<1>3. CASE AsideStep
  BY <1>1, <1>3, StepsAside DEF Aside, used, Unwaited, WaitedRunsOver
<1>4. CASE Work
  BY <1>1, <1>4, WorkWaitsForNobody, NextRunsTypeOK DEF WaitedRunsOver
<1>5. ASSUME NEW g \in used, wait(g)
      PROVE  WaitedRunsOver'
  <2>1. finished(g)'
    BY <1>5, OverForGood DEF wait
  <2> QED BY <1>1, <1>5, <2>1, WaitEffects, NextRunsTypeOK DEF WaitedRunsOver
<1> QED BY <1>2, <1>3, <1>4, <1>5, NextCases

LEMMA NextRunSeesItsToken ==
    ASSUME TypeOK, RunsInOrder, PlanOfRunKept, RunSeesItsToken, Next
    PROVE  RunSeesItsToken'
<1>1. ASSUME NEW v \in Workers, working[v] # None, working[v].step # "entered",
             working'[v] = working[v]
      PROVE  working'[v].token = handle'[working'[v].run].token
  BY <1>1, InvokeFacts, HandlesLast DEF Lasting, RunSeesItsToken
<1>2. CASE UNCHANGED working
  BY <1>1, <1>2 DEF RunSeesItsToken
<1>3. ASSUME NEW w \in Workers, NEW j \in used, enter(w, j)
      PROVE  RunSeesItsToken'
  BY <1>1, <1>3 DEF enter, TypeOK, RunsTypeOK, RunSeesItsToken
<1>4. ASSUME NEW w \in Workers, NEW may \in BOOLEAN, invoke(w, may)
      PROVE  RunSeesItsToken'
  <2>1. working[w] # None /\ working'[w].run = working[w].run
        /\ working'[w].token = cancel_state[handle[working[w].run].graph]
    BY <1>4, InvokeFacts DEF invoke, TypeOK, RunsTypeOK, Activation
  <2>2. working'[w].token = handle'[working'[w].run].token
    BY <2>1, InvokedToken, InvokeFacts, HandlesLast DEF Lasting
  <2>3. \A v \in Workers : v # w => working'[v] = working[v]
    BY <1>4 DEF invoke, TypeOK, RunsTypeOK
  <2> QED BY <1>1, <2>2, <2>3 DEF RunSeesItsToken
<1>5. ASSUME NEW w \in Workers, exit(w)
      PROVE  RunSeesItsToken'
  BY <1>1, <1>5 DEF exit, TypeOK, RunsTypeOK, RunSeesItsToken
<1>6. CASE AfterDispatch \/ AsideStep
  BY <1>2, <1>6, StepsAside DEF AfterDispatch, Dispatching, Prepared, Aside
<1> QED BY <1>2, <1>3, <1>4, <1>5, <1>6, NextCases DEF Work, wait

LEMMA NextSlotAwaited ==
    ASSUME TypeOK, RunsInOrder, PlanOfRunKept, WaitedRunsOver, SlotAwaited, Next
    PROVE  SlotAwaited'
<1>1. ASSUME active_runtime_collector' = active_runtime_collector, used \subseteq used',
             \A h \in used : ~handle[h].dispatch_end_emitted => ~handle'[h].dispatch_end_emitted
      PROVE  SlotAwaited'
  BY <1>1, HandlesLast DEF Lasting, SlotAwaited, awaited, runsOf
<1>2. CASE AfterDispatch
  <2>1. PICK h \in Handles, g \in Graphs, c \in Frames \cup {None}, token \in Tokens \cup {None} :
           Dispatched(h, g, c, token) /\ Prepared(h, g, c, token)
    BY <1>2 DEF AfterDispatch, Dispatching
  <2>2. CASE c = None
    BY <1>1, <2>1, <2>2 DEF Dispatched, Prepared
  <2>3. CASE c # None
    <3>1. active_runtime_collector' = c
      BY <2>1, <2>3 DEF Prepared
    <3>2. h \in used' /\ handle'[h].collector = c /\ ~handle'[h].dispatch_end_emitted
      BY <2>1 DEF Dispatched
    <3> QED BY <3>1, <3>2 DEF SlotAwaited, awaited, runsOf
  <2> QED BY <2>2, <2>3
<1>3. CASE AsideStep
  BY <1>1, <1>3, StepsAside DEF Aside, used
<1>4. CASE Work
  <2>1. active_runtime_collector' = active_runtime_collector
    BY <1>4 DEF Work, enter, invoke, exit
  <2> QED BY <1>1, <1>4, <2>1, WorkWaitsForNobody, NextRunsTypeOK DEF Unwaited
<1>5. ASSUME NEW g \in used, wait(g)
      PROVE  SlotAwaited'
  <2>1. CASE handle[g].callback
    BY <1>5, <2>1 DEF wait, SlotAwaited
  <2>2. CASE ~handle[g].callback
    <3>1. active_runtime_collector' = active_runtime_collector /\ handle[g].dispatch_end_emitted
      BY <1>5, <2>2 DEF wait, WaitedRunsOver
    <3> QED BY <1>1, <1>5, <3>1, WaitEffects, NextRunsTypeOK DEF Unwaited
  <2> QED BY <2>1, <2>2
<1> QED BY <1>2, <1>3, <1>4, <1>5, NextCases

-----------------------------------------------------------------------------
(* Counting the events of dispatches. *)

LEMMA FiniteParts ==
    /\ \A S : S \subseteq Handles => IsFiniteSet(S) /\ Cardinality(S) \in Nat
    /\ \A S : S \subseteq Workers => IsFiniteSet(S) /\ Cardinality(S) \in Nat
    /\ \A S : S \subseteq Handles \X (1 .. Tasks) => IsFiniteSet(S) /\ Cardinality(S) \in Nat
<1>1. IsFiniteSet(Handles) /\ IsFiniteSet(1 .. Tasks)
  BY FS_Interval, NoRecordIsNone DEF Handles
<1>2. IsFiniteSet(Handles \X (1 .. Tasks))
  BY <1>1, FS_Product
<1> QED BY <1>1, <1>2, NoRecordIsNone, FS_Subset, FS_CardinalityType

LEMMA AddOne ==
    ASSUME NEW S, NEW x, IsFiniteSet(S), x \notin S
    PROVE  Cardinality(S \cup {x}) = Cardinality(S) + 1
BY FS_AddElement

LEMMA RunsOfKept ==
    ASSUME TypeOK, RunsInOrder, PlanOfRunKept, Next, used' = used
    PROVE  \A f \in Frames : runsOf(f)' = runsOf(f)
BY HandlesLast DEF Lasting, runsOf

LEMMA RunsOfDispatched ==
    ASSUME TypeOK, NEW h, NEW g, NEW c, NEW token, Dispatched(h, g, c, token)
    PROVE  \A f \in Frames :
              /\ runsOf(f)' = IF f = c THEN runsOf(f) \cup {h} ELSE runsOf(f)
              /\ h \notin runsOf(f)
              /\ endedRuns(f)' = endedRuns(f)
<1>1. \A f \in Frames : runsOf(f)' = (IF f = c THEN runsOf(f) \cup {h} ELSE runsOf(f))
                        /\ h \notin runsOf(f)
  BY DEF Dispatched, runsOf
<1>2. \A j \in used : handle'[j] = handle[j]
  BY DEF Dispatched
<1>3. ~handle'[h].dispatch_end_emitted
  BY DEF Dispatched
<1>4. ASSUME NEW f \in Frames
      PROVE  endedRuns(f)' = endedRuns(f)
  BY <1>1, <1>2, <1>3 DEF endedRuns, runsOf
<1> QED BY <1>1, <1>4

LEMMA NextDispatchAccount ==
    ASSUME TypeOK, RunsInOrder, PlanOfRunKept, DispatchAccount, Next
    PROVE  DispatchAccount'
<1>0. \A f \in Frames : /\ runsOf(f) \subseteq Handles /\ endedRuns(f) \subseteq Handles
                        /\ runsOf(f)' \subseteq Handles
  BY DEF runsOf, endedRuns, used
<1>1. CASE AfterDispatch
  <2>1. PICK h \in Handles, g \in Graphs, c \in Frames \cup {None}, token \in Tokens \cup {None} :
           Dispatched(h, g, c, token) /\ Prepared(h, g, c, token)
    BY <1>1 DEF AfterDispatch, Dispatching
  <2>2. ends' = ends /\ \A f \in Frames : begins'[f] = IF f = c THEN begins[f] + 1 ELSE begins[f]
    BY <2>1, CountedEvents DEF Prepared, TypeOK, ReportsTypeOK
  <2>3. ASSUME NEW f \in Frames
        PROVE  begins'[f] = Cardinality(runsOf(f)')
    <3>1. CASE f = c
      <4>1. runsOf(f)' = runsOf(f) \cup {h} /\ h \notin runsOf(f)
        BY <2>1, <3>1, RunsOfDispatched
      <4>2. Cardinality(runsOf(f) \cup {h}) = Cardinality(runsOf(f)) + 1
        BY <1>0, <4>1, AddOne, FiniteParts
      <4>3. Cardinality(runsOf(f)') = Cardinality(runsOf(f)) + 1
        BY <4>1, <4>2, Zenon
      <4> QED BY <2>2, <3>1, <4>3 DEF DispatchAccount
    <3>2. CASE f # c
      BY <2>1, <2>2, <3>2, RunsOfDispatched DEF DispatchAccount
    <3> QED BY <3>1, <3>2
  <2>4. ASSUME NEW f \in Frames
        PROVE  ends'[f] = Cardinality(endedRuns(f)')
    BY <2>1, <2>2, RunsOfDispatched DEF DispatchAccount
  <2> QED BY <2>3, <2>4 DEF DispatchAccount
<1>2. CASE AsideStep
  BY <1>2, StepsAside DEF Aside, DispatchAccount, runsOf, endedRuns, used
<1>3. CASE Work
  <2>1. used' = used /\ begins' = begins /\ ends' = ends
    BY <1>3, NextRunsTypeOK DEF Work, enter, invoke, exit
  <2>2. \A f \in Frames : runsOf(f)' = runsOf(f) /\ endedRuns(f)' = endedRuns(f)
    BY <1>3, <2>1, RunsOfKept, WorkWaitsForNobody DEF endedRuns, Unwaited, runsOf
  <2> QED BY <2>1, <2>2 DEF DispatchAccount
<1>4. ASSUME NEW g \in used, wait(g)
      PROVE  DispatchAccount'
  <2>1. used' = used /\ begins' = begins
    BY <1>4, NextRunsTypeOK DEF wait
  <2>2. \A f \in Frames : runsOf(f)' = runsOf(f)
    BY <2>1, RunsOfKept
  <2>3. ASSUME NEW f \in Frames
        PROVE  ends'[f] = Cardinality(endedRuns(f)')
    <3>1. \A h \in used : handle'[h].dispatch_end_emitted <=> handle[h].dispatch_end_emitted \/ h = g
      BY <1>4, WaitEffects DEF Unwaited
    <3>2. CASE handle[g].dispatch_end_emitted
      <4>1. endedRuns(f)' = endedRuns(f) /\ ends' = ends
        BY <1>4, <2>2, <3>1, <3>2 DEF endedRuns, runsOf, wait
      <4> QED BY <4>1 DEF DispatchAccount
    <3>3. CASE ~handle[g].dispatch_end_emitted /\ handle[g].collector = f
      <4>1. endedRuns(f)' = endedRuns(f) \cup {g} /\ g \notin endedRuns(f)
        BY <2>2, <3>1, <3>3 DEF endedRuns, runsOf
      <4>2. Cardinality(endedRuns(f) \cup {g}) = Cardinality(endedRuns(f)) + 1
        BY <1>0, <4>1, AddOne, FiniteParts
      <4>3. Cardinality(endedRuns(f)') = Cardinality(endedRuns(f)) + 1
        BY <4>1, <4>2, Zenon
      <4>4. ends'[f] = ends[f] + 1
        BY <1>4, <3>3, CountedEvents DEF wait, TypeOK, ReportsTypeOK
      <4> QED BY <4>3, <4>4 DEF DispatchAccount
    <3>4. CASE ~handle[g].dispatch_end_emitted /\ handle[g].collector # f
      <4>1. endedRuns(f)' = endedRuns(f)
        BY <2>2, <3>1, <3>4 DEF endedRuns, runsOf
      <4>2. handle[g].collector \in Frames \cup {None}
        BY UsedHandles DEF TypeOK, RunHandle
      <4>3. ends'[f] = ends[f]
        BY <1>4, <3>4, <4>2, CountedEvents DEF wait, TypeOK, ReportsTypeOK
      <4> QED BY <4>1, <4>3 DEF DispatchAccount
    <3> QED BY <3>2, <3>3, <3>4
  <2> QED BY <2>1, <2>2, <2>3 DEF DispatchAccount
<1> QED BY <1>1, <1>2, <1>3, <1>4, NextCases

LEMMA OrderlyBefore ==
    ASSUME TypeOK, RunsInOrder, PlanOfRunKept, Next, Orderly'
    PROVE  Orderly
BY HandlesLast DEF Orderly, Lasting

\* The slot holds as long as nobody dispatches or waits.
LEMMA SlotKeptAside ==
    ASSUME TypeOK, RunsInOrder, PlanOfRunKept, SlotKept, Next, used' = used,
           UNCHANGED active_runtime_collector, \A h \in used : Unwaited(h)
    PROVE  SlotKept'
BY OrderlyBefore, HandlesLast DEF SlotKept, Unwaited, Lasting, allWaited

LEMMA NextSlotKept ==
    ASSUME TypeOK, RunsInOrder, PlanOfRunKept, WaitedRunsOver, SlotKept, Next
    PROVE  SlotKept'
<1>1. CASE AfterDispatch
  <2> SUFFICES ASSUME Orderly'
               PROVE  /\ \A j, k \in used' : \/ handle'[j].dispatch_end_emitted
                                             \/ handle'[k].dispatch_end_emitted \/ j = k
                      /\ allWaited' => active_runtime_collector' = None
                      /\ \A j \in used' : ~handle'[j].dispatch_end_emitted =>
                            active_runtime_collector' = handle'[j].collector
    BY DEF SlotKept
  <2>1. PICK h \in Handles, g \in Graphs, c \in Frames \cup {None}, token \in Tokens \cup {None} :
           Dispatched(h, g, c, token) /\ Prepared(h, g, c, token)
    BY <1>1 DEF AfterDispatch, Dispatching
  <2>2. h \in used' /\ used' = used \cup {h} /\ \A j \in used : handle'[j] = handle[j]
    BY <2>1 DEF Dispatched
  <2>3. allWaited
    BY <2>1, <2>2 DEF Orderly, Dispatched
  <2>4. active_runtime_collector = None
    BY <2>3, OrderlyBefore DEF SlotKept
  <2>5. ~handle'[h].dispatch_end_emitted
    BY <2>1 DEF Dispatched
  <2>6. \A j \in used' : ~handle'[j].dispatch_end_emitted => j = h
    BY <2>2, <2>3 DEF allWaited
  <2>7. ~allWaited'
    BY <2>2, <2>5 DEF allWaited
  <2>8. active_runtime_collector' = handle'[h].collector
    BY <2>1, <2>4 DEF Dispatched, Prepared
  <2> QED BY <2>6, <2>7, <2>8
<1>2. CASE AsideStep
  BY <1>2, StepsAside, SlotKeptAside DEF Aside, used, Unwaited
<1>3. CASE Work
  <2>1. used' = used /\ UNCHANGED active_runtime_collector
    BY <1>3, NextRunsTypeOK DEF Work, enter, invoke, exit
  <2> QED BY <1>3, <2>1, WorkWaitsForNobody, SlotKeptAside
<1>4. ASSUME NEW g \in used, wait(g)
      PROVE  SlotKept'
  <2>1. used' = used
    BY <1>4, NextRunsTypeOK
  <2>2. \A h \in used : handle'[h].dispatch_end_emitted <=> handle[h].dispatch_end_emitted \/ h = g
    BY <1>4, WaitEffects DEF Unwaited
  <2>3. CASE handle[g].dispatch_end_emitted
    <3>1. active_runtime_collector' = active_runtime_collector
      BY <1>4, <2>3 DEF wait, WaitedRunsOver
    <3>2. \A h \in used : handle'[h].dispatch_end_emitted <=> handle[h].dispatch_end_emitted
      BY <2>2, <2>3
    <3>3. allWaited' <=> allWaited
      BY <2>1, <3>2 DEF allWaited
    <3>4. \A h \in used : handle'[h].collector = handle[h].collector
      BY HandlesLast DEF Lasting
    <3> QED BY <2>1, <3>1, <3>2, <3>3, <3>4, OrderlyBefore DEF SlotKept
  <2>4. CASE ~handle[g].dispatch_end_emitted
    <3>1. active_runtime_collector' = None
      BY <1>4, <2>4 DEF wait, WaitedRunsOver
    <3>2. Orderly => \A h \in used : handle'[h].dispatch_end_emitted
      BY <2>2, <2>4 DEF SlotKept
    <3> QED BY <2>1, <3>1, <3>2, OrderlyBefore DEF SlotKept
  <2> QED BY <2>3, <2>4
<1> QED BY <1>1, <1>2, <1>3, <1>4, NextCases

LEMMA ToldAside ==
    ASSUME TypeOK, RunsInOrder, PlanOfRunKept, Told, Next, used' = used,
           UNCHANGED user_trace_hooks, \A h \in used : Unwaited(h)
    PROVE  Told'
<1>1. \A f \in Frames : runsOf(f)' = runsOf(f)
  BY RunsOfKept
<1>2. \A f \in Frames : \A h \in runsOf(f) : Unwaited(h) /\ Lasting(h)
  BY HandlesLast DEF runsOf
<1> QED BY <1>1, <1>2, OrderlyBefore DEF Told, Unwaited, Lasting

LEMMA NextTold ==
    ASSUME TypeOK, RunsInOrder, PlanOfRunKept, SlotKept, Told, Next
    PROVE  Told'
<1>1. CASE AfterDispatch
  <2>1. PICK h \in Handles, g \in Graphs, c \in Frames \cup {None}, token \in Tokens \cup {None} :
           Dispatched(h, g, c, token) /\ Prepared(h, g, c, token)
    BY <1>1 DEF AfterDispatch, Dispatching
  <2> SUFFICES ASSUME Orderly', NEW f \in Frames, NEW j \in runsOf(f)'
               PROVE  IF handle'[j].dispatch_end_emitted
                      THEN handle'[j].ended_by = handle'[j].begun_by
                      ELSE handle'[j].ended_by = None
                           /\ user_trace_hooks'[f] = handle'[j].begun_by
    BY DEF Told
  <2>2. h \in used' /\ \A k \in used : handle'[k] = handle[k]
    BY <2>1 DEF Dispatched
  <2>3. allWaited /\ Orderly
    BY <2>1, <2>2, OrderlyBefore DEF Orderly, Dispatched
  <2>4. CASE j = h
    <3>1. f = c
      BY <2>1, <2>4, RunsOfDispatched
    <3> QED BY <2>1, <2>4, <3>1 DEF Dispatched, Prepared
  <2>5. CASE j # h
    <3>1. j \in runsOf(f) /\ j \in used
      BY <2>1, <2>5, RunsOfDispatched DEF runsOf
    <3>2. handle[j].dispatch_end_emitted
      BY <2>3, <3>1 DEF allWaited
    <3> QED BY <2>2, <2>3, <3>1, <3>2 DEF Told
  <2> QED BY <2>4, <2>5
<1>2. CASE AsideStep
  BY <1>2, StepsAside, ToldAside DEF Aside, used, Unwaited
<1>3. CASE Work
  <2>1. used' = used /\ UNCHANGED user_trace_hooks
    BY <1>3, NextRunsTypeOK DEF Work, enter, invoke, exit, observers
  <2> QED BY <1>3, <2>1, WorkWaitsForNobody, ToldAside
<1>4. ASSUME NEW g \in used, wait(g)
      PROVE  Told'
  <2>1. used' = used /\ user_trace_hooks' = user_trace_hooks
    BY <1>4, NextRunsTypeOK DEF wait, observers
  <2>2. \A f \in Frames : runsOf(f)' = runsOf(f)
    BY <2>1, RunsOfKept
  <2> SUFFICES ASSUME Orderly, NEW f \in Frames, NEW j \in runsOf(f)
               PROVE  IF handle'[j].dispatch_end_emitted
                      THEN handle'[j].ended_by = handle'[j].begun_by
                      ELSE handle'[j].ended_by = None
                           /\ user_trace_hooks'[f] = handle'[j].begun_by
    BY <2>2, OrderlyBefore DEF Told
  <2>3. j \in used /\ handle[j].collector = f /\ Lasting(j)
    BY HandlesLast DEF runsOf
  <2>4. CASE j = g
    <3>1. handle'[g].dispatch_end_emitted
          /\ handle'[g].ended_by = IF handle[g].dispatch_end_emitted THEN handle[g].ended_by
                                   ELSE user_trace_hooks[f]
      BY <1>4, <2>3, <2>4, WaitEffects, NoRecordIsNone DEF toldBy
    <3> QED BY <2>3, <2>4, <3>1 DEF Told, Lasting
  <2>5. CASE j # g
    <3>1. Unwaited(j)
      BY <1>4, <2>3, <2>5, WaitEffects
    <3> QED BY <2>1, <2>3, <3>1 DEF Told, Unwaited, Lasting
  <2> QED BY <2>4, <2>5
<1> QED BY <1>1, <1>2, <1>3, <1>4, NextCases

-----------------------------------------------------------------------------
(* Counting tasks and workers. *)

LEMMA PartsAreFinite ==
    ASSUME NEW f
    PROVE  /\ IsFiniteSet(pending(f)) /\ Cardinality(pending(f)) \in Nat
           /\ IsFiniteSet(inside(f)) /\ Cardinality(inside(f)) \in Nat
           /\ IsFiniteSet(entered(f)) /\ Cardinality(entered(f)) \in Nat
           /\ IsFiniteSet(runsOf(f)) /\ Cardinality(runsOf(f)) \in Nat
BY FiniteParts DEF pending, inside, entered, runsOf, used

LEMMA RemoveOne ==
    ASSUME NEW S, NEW x \in S, IsFiniteSet(S), Cardinality(S) \in Nat
    PROVE  Cardinality(S \ {x}) + 1 = Cardinality(S)
BY FS_RemoveElement

LEMMA PartsKept ==
    ASSUME TypeOK, RunsInOrder, PlanOfRunKept, Next, used' = used, UNCHANGED <<left, working>>
    PROVE  \A f \in Frames : /\ runsOf(f)' = runsOf(f) /\ pending(f)' = pending(f)
                             /\ inside(f)' = inside(f) /\ entered(f)' = entered(f)
<1>1. \A f \in Frames : runsOf(f)' = runsOf(f) /\ pending(f)' = pending(f)
  BY RunsOfKept DEF pending
<1>2. \A f \in Frames : inside(f)' = inside(f)
  BY HandlesLast DEF inside, Lasting, RunsInOrder
<1> QED BY <1>1, <1>2 DEF entered

LEMMA EnterParts ==
    ASSUME TypeOK, RunsInOrder, PlanOfRunKept,
           NEW w \in Workers, NEW h \in used, enter(w, h), NEW f \in Frames
    PROVE  /\ runsOf(f)' = runsOf(f)
           /\ IF handle[h].collector = f
              THEN /\ Cardinality(pending(f)') + 1 = Cardinality(pending(f))
                   /\ Cardinality(entered(f)') = Cardinality(entered(f)) + 1
                   /\ Cardinality(inside(f)') = Cardinality(inside(f)) + 1
              ELSE /\ pending(f)' = pending(f) /\ entered(f)' = entered(f)
                   /\ inside(f)' = inside(f)
<1>1. h \in Handles /\ left[h] \in 1 .. Tasks /\ left' = [left EXCEPT ![h] = left[h] - 1]
  BY UsedHandles, NoRecordIsNone DEF enter, TypeOK, RunsTypeOK
<1>2. runsOf(f)' = runsOf(f)
  BY DEF enter, runsOf, used
<1>3. /\ working[w] = None /\ working'[w] # None /\ working'[w].run = h
      /\ working'[w].step = "entered" /\ \A v \in Workers : v # w => working'[v] = working[v]
      /\ handle' = handle
  <2>1. [run |-> h, step |-> "entered", token |-> None, observe_cancellation |-> FALSE]
           \in Activation
    BY <1>1 DEF Activation
  <2> QED BY <2>1, NoRecordIsNone DEF enter, TypeOK, RunsTypeOK
<1>4. CASE handle[h].collector = f
  <2> DEFINE e == <<h, left[h]>>
  <2>1. pending(f)' = pending(f) \ {e} /\ e \in pending(f)
    <3>1. e \in pending(f)
      BY <1>1, <1>4 DEF pending, runsOf
    <3>2. ASSUME NEW d \in Handles \X (1 .. Tasks)
          PROVE  d[2] <= left'[d[1]] <=> d[2] <= left[d[1]] /\ d # e
      BY <1>1, NoRecordIsNone DEF TypeOK, RunsTypeOK
    <3> HIDE DEF e
    <3> QED BY <1>2, <3>1, <3>2 DEF pending
  <2>2. inside(f)' = inside(f) \cup {w} /\ w \notin inside(f)
    BY <1>3, <1>4 DEF inside
  <2>3. entered(f)' = entered(f) \cup {w} /\ w \notin entered(f)
    BY <1>3, <2>2 DEF entered, inside
  <2> HIDE DEF e
  <2>4. Cardinality(pending(f) \ {e}) + 1 = Cardinality(pending(f))
    BY <2>1, PartsAreFinite, RemoveOne
  <2>5. /\ Cardinality(inside(f) \cup {w}) = Cardinality(inside(f)) + 1
        /\ Cardinality(entered(f) \cup {w}) = Cardinality(entered(f)) + 1
    BY <2>2, <2>3, PartsAreFinite, AddOne
  <2> QED BY <1>2, <1>4, <2>1, <2>2, <2>3, <2>4, <2>5, Zenon
<1>5. CASE handle[h].collector # f
  <2>1. pending(f)' = pending(f)
    <3>1. \A d \in Handles \X (1 .. Tasks) : d[1] \in runsOf(f) => left'[d[1]] = left[d[1]]
      BY <1>1, <1>5 DEF runsOf, TypeOK, RunsTypeOK
    <3> QED BY <1>2, <3>1 DEF pending
  <2>2. inside(f)' = inside(f)
    BY <1>3, <1>5 DEF inside
  <2>3. entered(f)' = entered(f)
    BY <1>3, <1>5, <2>2 DEF entered, inside
  <2> QED BY <1>2, <1>5, <2>1, <2>2, <2>3
<1> QED BY <1>4, <1>5

LEMMA InvokeParts ==
    ASSUME TypeOK, RunsInOrder, PlanOfRunKept, Next,
           NEW w \in Workers, NEW may \in BOOLEAN, invoke(w, may), NEW f \in Frames
    PROVE  /\ runsOf(f)' = runsOf(f) /\ pending(f)' = pending(f) /\ inside(f)' = inside(f)
           /\ IF handle[working[w].run].collector = f
              THEN Cardinality(entered(f)') + 1 = Cardinality(entered(f))
              ELSE entered(f)' = entered(f)
<1>1. used' = used /\ left' = left
  BY NextRunsTypeOK DEF Work, invoke
<1>2. runsOf(f)' = runsOf(f) /\ pending(f)' = pending(f)
  BY <1>1, RunsOfKept DEF pending
<1>3. /\ working[w] # None /\ working[w].step = "entered"
      /\ working'[w] # None /\ working'[w].run = working[w].run /\ working'[w].step # "entered"
      /\ \A v \in Workers : v # w => working'[v] = working[v]
  <2>1. working[w] # None /\ working[w].step = "entered"
    BY DEF invoke
  <2>2. working'[w] # None
    <3> DEFINE t == cancel_state[handle[working[w].run].graph]
               observe == canObserveCancellation(may, t)
               cancel == observe /\ t \in stopped
    <3>1. working[w] \in Activation /\ t \in Tokens \cup {None} /\ observe \in BOOLEAN
      BY <2>1, InvokeFacts DEF TypeOK, PlansTypeOK, canObserveCancellation
    <3>2. working' = [working EXCEPT ![w].step = IF cancel THEN "canceled" ELSE "body",
                                     ![w].token = t, ![w].observe_cancellation = observe]
      BY DEF invoke
    <3> HIDE DEF t, observe, cancel
    <3>3. working'[w] \in Activation
      BY <3>1, <3>2 DEF TypeOK, RunsTypeOK, Activation
    <3> QED BY <3>3, NoRecordIsNone
  <2> QED BY <2>1, <2>2, InvokeFacts DEF invoke, TypeOK, RunsTypeOK, Activation
<1>4. \A v \in Workers : working[v] # None =>
         handle'[working[v].run].collector = handle[working[v].run].collector
  BY HandlesLast DEF RunsInOrder, Lasting
<1>5. inside(f)' = inside(f)
  BY <1>3, <1>4 DEF inside
<1>6. CASE handle[working[w].run].collector = f
  <2>1. w \in entered(f) /\ entered(f)' = entered(f) \ {w}
    BY <1>3, <1>5, <1>6 DEF entered, inside
  <2>2. Cardinality(entered(f) \ {w}) + 1 = Cardinality(entered(f))
    BY <2>1, PartsAreFinite, RemoveOne
  <2> QED BY <1>2, <1>5, <1>6, <2>1, <2>2, Zenon
<1>7. CASE handle[working[w].run].collector # f
  <2>1. entered(f)' = entered(f)
    BY <1>3, <1>5, <1>7 DEF entered, inside
  <2> QED BY <1>2, <1>5, <1>7, <2>1
<1> QED BY <1>6, <1>7

LEMMA ExitParts ==
    ASSUME TypeOK, RunsInOrder, PlanOfRunKept, NEW w \in Workers, exit(w), NEW f \in Frames
    PROVE  /\ runsOf(f)' = runsOf(f) /\ pending(f)' = pending(f) /\ entered(f)' = entered(f)
           /\ IF handle[working[w].run].collector = f
              THEN Cardinality(inside(f)') + 1 = Cardinality(inside(f))
              ELSE inside(f)' = inside(f)
<1>1. runsOf(f)' = runsOf(f) /\ pending(f)' = pending(f)
  BY DEF exit, runsOf, used, pending
<1>2. /\ working[w] # None /\ working[w].step # "entered" /\ working'[w] = None
      /\ \A v \in Workers : v # w => working'[v] = working[v]
      /\ handle' = handle
  BY DEF exit, TypeOK, RunsTypeOK
<1>3. inside(f)' = inside(f) \ {w}
  BY <1>2 DEF inside
<1>4. entered(f)' = entered(f)
  <2>1. inside(f) \subseteq Workers
    BY DEF inside
  <2> QED BY <1>2, <1>3, <2>1 DEF entered
<1>5. CASE handle[working[w].run].collector = f
  <2>1. Cardinality(inside(f) \ {w}) + 1 = Cardinality(inside(f))
    BY <1>2, <1>5, PartsAreFinite, RemoveOne DEF inside
  <2> QED BY <1>1, <1>3, <1>4, <1>5, <2>1, Zenon
<1>6. CASE handle[working[w].run].collector # f
  <2>1. inside(f)' = inside(f)
    BY <1>3, <1>6 DEF inside
  <2> QED BY <1>1, <1>4, <1>6, <2>1
<1> QED BY <1>5, <1>6

LEMMA DispatchParts ==
    ASSUME TypeOK, RunsInOrder, NEW h, NEW g, NEW c, NEW token,
           Dispatched(h, g, c, token), Prepared(h, g, c, token), NEW f \in Frames
    PROVE  /\ inside(f)' = inside(f) /\ entered(f)' = entered(f)
           /\ IF f = c
              THEN /\ Cardinality(runsOf(f)') = Cardinality(runsOf(f)) + 1
                   /\ Cardinality(pending(f)') = Cardinality(pending(f)) + Tasks
              ELSE runsOf(f)' = runsOf(f) /\ pending(f)' = pending(f)
<1>1. /\ h \in Handles /\ left'[h] = Tasks /\ working' = working /\ used \subseteq Handles
      /\ \A j \in used : handle'[j] = handle[j] /\ left'[j] = left[j]
  BY UsedHandles DEF Dispatched, Prepared, TypeOK
<1>2. runsOf(f)' = (IF f = c THEN runsOf(f) \cup {h} ELSE runsOf(f)) /\ h \notin runsOf(f)
  BY RunsOfDispatched
<1>3. inside(f)' = inside(f) /\ entered(f)' = entered(f)
  BY <1>1 DEF inside, entered, RunsInOrder
<1>4. CASE f = c
  <2> DEFINE fresh == {h} \X (1 .. Tasks)
  <2>1. pending(f)' = pending(f) \cup fresh /\ pending(f) \cap fresh = {}
    <3>1. \A d \in Handles \X (1 .. Tasks) : d \in fresh <=> d[1] = h
      BY <1>1
    <3>2. fresh \subseteq Handles \X (1 .. Tasks)
      BY <1>1
    <3>3. \A d \in Handles \X (1 .. Tasks) : d[1] = h => d[2] <= left'[d[1]]
      BY <1>1, NoRecordIsNone
    <3>4. \A d \in Handles \X (1 .. Tasks) : d[1] \in runsOf(f) => left'[d[1]] = left[d[1]]
      BY <1>1 DEF runsOf
    <3>5. runsOf(f)' = runsOf(f) \cup {h} /\ h \notin runsOf(f)
      BY <1>2, <1>4
    <3> HIDE DEF fresh
    <3>6. ASSUME NEW d \in Handles \X (1 .. Tasks)
          PROVE  (d[1] \in runsOf(f)' /\ d[2] <= left'[d[1]])
                    <=> (d[1] \in runsOf(f) /\ d[2] <= left[d[1]]) \/ d \in fresh
      BY <3>1, <3>3, <3>4, <3>5
    <3>7. pending(f)' = pending(f) \cup fresh
      BY <3>2, <3>6 DEF pending
    <3>8. pending(f) \cap fresh = {}
      BY <3>1, <3>5 DEF pending
    <3> QED BY <3>7, <3>8
  <2>2. IsFiniteSet(fresh) /\ Cardinality(fresh) = Tasks
    <3>1. IsFiniteSet({h}) /\ Cardinality({h}) = 1
      BY FS_Singleton
    <3>2. IsFiniteSet(1 .. Tasks) /\ Cardinality(1 .. Tasks) = Tasks
      BY FS_Interval, NoRecordIsNone
    <3>3. Cardinality(fresh) = Cardinality({h}) * Cardinality(1 .. Tasks) /\ IsFiniteSet(fresh)
      BY <3>1, <3>2, FS_Product
    <3> QED BY <3>1, <3>2, <3>3, NoRecordIsNone
  <2> HIDE DEF fresh
  <2>3. Cardinality(pending(f) \cup fresh) = Cardinality(pending(f)) + Tasks
    <3>1. Cardinality(pending(f) \cap fresh) = 0
      BY <2>1, FS_EmptySet
    <3>2. Cardinality(pending(f) \cup fresh)
             = Cardinality(pending(f)) + Cardinality(fresh) - Cardinality(pending(f) \cap fresh)
      BY <2>2, PartsAreFinite, FS_Union
    <3> QED BY <2>2, <3>1, <3>2, PartsAreFinite, NoRecordIsNone
  <2>4. Cardinality(runsOf(f) \cup {h}) = Cardinality(runsOf(f)) + 1
    BY <1>2, PartsAreFinite, AddOne
  <2>5. runsOf(f)' = runsOf(f) \cup {h}
    BY <1>2, <1>4
  <2> QED BY <1>3, <1>4, <2>1, <2>3, <2>4, <2>5, Zenon
<1>5. CASE f # c
  <2>1. runsOf(f)' = runsOf(f)
    BY <1>2, <1>5
  <2>2. \A d \in Handles \X (1 .. Tasks) : d[1] \in runsOf(f) => left'[d[1]] = left[d[1]]
    BY <1>1 DEF runsOf
  <2>3. pending(f)' = pending(f)
    BY <2>1, <2>2 DEF pending
  <2> QED BY <1>3, <1>5, <2>1, <2>3
<1> QED BY <1>4, <1>5

LEMMA NextTaskAccount ==
    ASSUME TypeOK, RunsInOrder, PlanOfRunKept, TaskAccount, Next
    PROVE  TaskAccount'
<1>1. SUFFICES ASSUME NEW f \in Frames
               PROVE  started'[f] + canceled'[f] + Cardinality(pending(f)') + Cardinality(entered(f)')
                         = Tasks * Cardinality(runsOf(f)')
  BY DEF TaskAccount
<1> DEFINE p == Cardinality(pending(f))
           e == Cardinality(entered(f))
           r == Cardinality(runsOf(f))
<1>2. started[f] + canceled[f] + p + e = Tasks * r
  BY DEF TaskAccount
<1>3. /\ started[f] \in Nat /\ canceled[f] \in Nat /\ p \in Nat /\ e \in Nat /\ r \in Nat
      /\ Tasks \in Nat
  BY PartsAreFinite, NoRecordIsNone DEF TypeOK, ReportsTypeOK, Events
<1>4. Cardinality(pending(f)') \in Nat /\ Cardinality(entered(f)') \in Nat
  <2>1. p' \in Nat /\ e' \in Nat
    BY FiniteParts DEF pending, entered, inside
  <2> QED BY <2>1
<1>5. CASE AfterDispatch
  <2>1. PICK h \in Handles, g \in Graphs, c \in Frames \cup {None}, token \in Tokens \cup {None} :
           Dispatched(h, g, c, token) /\ Prepared(h, g, c, token)
    BY <1>5 DEF AfterDispatch, Dispatching
  <2>2. started' = started /\ canceled' = canceled
    BY <2>1 DEF Prepared
  <2>3. CASE f = c
    <3>1. /\ entered(f)' = entered(f) /\ Cardinality(runsOf(f)') = r + 1
          /\ Cardinality(pending(f)') = p + Tasks
      BY <2>1, <2>3, DispatchParts
    <3> HIDE DEF p, e, r
    <3>2. Tasks * (r + 1) = Tasks * r + Tasks
      BY <1>3
    <3>3. started[f] + canceled[f] + (p + Tasks) + e = Tasks * (r + 1)
      BY <1>2, <1>3, <3>2
    <3> QED BY <2>2, <3>1, <3>3, Zenon DEF e
  <2>4. CASE f # c
    BY <1>2, <2>1, <2>2, <2>4, DispatchParts
  <2> QED BY <2>3, <2>4
<1>6. CASE AsideStep
  BY <1>2, <1>6, PartsKept, StepsAside DEF Aside, used
<1>7. ASSUME NEW w \in Workers, NEW h \in used, enter(w, h)
      PROVE  started'[f] + canceled'[f] + Cardinality(pending(f)') + Cardinality(entered(f)')
                = Tasks * Cardinality(runsOf(f)')
  <2>1. started' = started /\ canceled' = canceled
    BY <1>7 DEF enter
  <2>2. runsOf(f)' = runsOf(f)
        /\ Cardinality(pending(f)') + Cardinality(entered(f)') = p + e
    BY <1>3, <1>4, <1>7, EnterParts
  <2>3. started[f] + canceled[f] + Cardinality(pending(f)') + Cardinality(entered(f)') = Tasks * r
    BY <1>2, <1>3, <1>4, <2>2
  <2> QED BY <2>1, <2>2, <2>3, Zenon
<1>8. ASSUME NEW w \in Workers, NEW may \in BOOLEAN, invoke(w, may)
      PROVE  started'[f] + canceled'[f] + Cardinality(pending(f)') + Cardinality(entered(f)')
                = Tasks * Cardinality(runsOf(f)')
  <2> DEFINE j == working[w].run
             g == handle[j].graph
             c == handle[j].collector
  <2>1. working[w] # None /\ hooks[g] = c /\ c \in Frames \cup {None}
    BY <1>8, InvokedToken, InvokeFacts DEF invoke, RunHandle
  <2>2. runsOf(f)' = runsOf(f) /\ pending(f)' = pending(f)
        /\ IF c = f THEN Cardinality(entered(f)') + 1 = e ELSE entered(f)' = entered(f)
    BY <1>8, InvokeParts
  <2>3. \/ started' = count(started, c) /\ canceled' = canceled
        \/ canceled' = count(canceled, c) /\ started' = started
    BY <1>8, <2>1 DEF invoke
  <2> HIDE DEF c
  <2>4. started'[f] + canceled'[f] = started[f] + canceled[f] + (IF c = f THEN 1 ELSE 0)
    <3>1. \/ started'[f] = started[f] + (IF c = f THEN 1 ELSE 0) /\ canceled'[f] = canceled[f]
          \/ canceled'[f] = canceled[f] + (IF c = f THEN 1 ELSE 0) /\ started'[f] = started[f]
      <4>1. /\ count(started, c)[f] = IF f = c THEN started[f] + 1 ELSE started[f]
            /\ count(canceled, c)[f] = IF f = c THEN canceled[f] + 1 ELSE canceled[f]
        BY <2>1, CountedEvents DEF TypeOK, ReportsTypeOK
      <4>2. /\ count(started, c)[f] = started[f] + (IF c = f THEN 1 ELSE 0)
            /\ count(canceled, c)[f] = canceled[f] + (IF c = f THEN 1 ELSE 0)
        BY <1>3, <4>1
      <4> QED BY <2>3, <4>2
    <3> QED BY <1>3, <3>1
  <2>5. started'[f] \in Nat /\ canceled'[f] \in Nat
    BY <2>1, <2>3, CountedEvents DEF TypeOK, ReportsTypeOK, Events
  <2>6. CASE c = f
    <3>1. started'[f] + canceled'[f] + p + Cardinality(entered(f)') = Tasks * r
      BY <1>2, <1>3, <1>4, <2>2, <2>4, <2>5, <2>6
    <3> QED BY <2>2, <3>1
  <2>7. CASE c # f
    <3>1. started'[f] + canceled'[f] = started[f] + canceled[f]
      BY <1>3, <2>4, <2>7
    <3>2. started'[f] + canceled'[f] + p + e = Tasks * r
      BY <1>2, <3>1
    <3> QED BY <2>2, <2>7, <3>2
  <2> QED BY <2>6, <2>7
<1>9. ASSUME NEW w \in Workers, exit(w)
      PROVE  started'[f] + canceled'[f] + Cardinality(pending(f)') + Cardinality(entered(f)')
                = Tasks * Cardinality(runsOf(f)')
  BY <1>2, <1>9, ExitParts DEF exit
<1>10. CASE \E h \in used : wait(h)
  <2>1. used' = used /\ UNCHANGED <<left, working, started, canceled>>
    BY <1>10, NextRunsTypeOK DEF wait
  <2> QED BY <1>2, <2>1, PartsKept
<1> QED BY <1>5, <1>6, <1>7, <1>8, <1>9, <1>10, NextCases DEF Work

\* As long as a worker may enter or leave a run of an orderly caller, the slot
\* names the collector of the run.
LEMMA SlotOfRun ==
    ASSUME SlotKept, WaitedRunsOver, Orderly, NEW h \in used, ~finished(h)
    PROVE  active_runtime_collector = handle[h].collector
BY DEF SlotKept, WaitedRunsOver

LEMMA NextWorkerAccount ==
    ASSUME TypeOK, RunsInOrder, PlanOfRunKept, WaitedRunsOver, SlotKept, WorkerAccount, Next
    PROVE  WorkerAccount'
<1>1. SUFFICES ASSUME Orderly, NEW f \in Frames
               PROVE  /\ entries'[f] + Cardinality(pending(f)') = Tasks * Cardinality(runsOf(f)')
                      /\ exits'[f] + Cardinality(inside(f)') = entries'[f]
  BY OrderlyBefore DEF WorkerAccount
<1> DEFINE p == Cardinality(pending(f))
           i == Cardinality(inside(f))
           r == Cardinality(runsOf(f))
<1>2. entries[f] + p = Tasks * r /\ exits[f] + i = entries[f]
  BY <1>1 DEF WorkerAccount
<1>3. entries[f] \in Nat /\ exits[f] \in Nat /\ p \in Nat /\ i \in Nat /\ r \in Nat /\ Tasks \in Nat
  BY PartsAreFinite, NoRecordIsNone DEF TypeOK, ReportsTypeOK, Events
<1>4. Cardinality(pending(f)') \in Nat /\ Cardinality(inside(f)') \in Nat
  <2>1. p' \in Nat /\ i' \in Nat
    BY FiniteParts DEF pending, inside
  <2> QED BY <2>1
<1>5. CASE AfterDispatch
  <2>1. PICK h \in Handles, g \in Graphs, c \in Frames \cup {None}, token \in Tokens \cup {None} :
           Dispatched(h, g, c, token) /\ Prepared(h, g, c, token)
    BY <1>5 DEF AfterDispatch, Dispatching
  <2>2. entries' = entries /\ exits' = exits /\ inside(f)' = inside(f)
    <3>1. entries' = entries /\ exits' = exits
      BY <2>1 DEF Prepared
    <3> QED BY <2>1, <3>1, DispatchParts
  <2>3. CASE f = c
    <3>1. Cardinality(runsOf(f)') = r + 1 /\ Cardinality(pending(f)') = p + Tasks
      BY <2>1, <2>3, DispatchParts
    <3> HIDE DEF p, r
    <3>2. entries[f] + (p + Tasks) = Tasks * (r + 1)
      BY <1>2, <1>3
    <3> QED BY <1>2, <2>2, <3>1, <3>2, Zenon
  <2>4. CASE f # c
    BY <1>2, <2>1, <2>2, <2>4, DispatchParts
  <2> QED BY <2>3, <2>4
<1>6. CASE AsideStep
  BY <1>2, <1>6, PartsKept, StepsAside DEF Aside, used
<1>7. ASSUME NEW w \in Workers, NEW h \in used, enter(w, h)
      PROVE  /\ entries'[f] + Cardinality(pending(f)') = Tasks * Cardinality(runsOf(f)')
             /\ exits'[f] + Cardinality(inside(f)') = entries'[f]
  <2> DEFINE c == handle[h].collector
  <2>1. active_runtime_collector = c
    BY <1>1, <1>7, SlotOfRun, NoRecordIsNone DEF enter, finished, TypeOK, RunsTypeOK
  <2>2. entries' = count(entries, c) /\ exits' = exits
    BY <1>7, <2>1 DEF enter
  <2>3. entries'[f] = IF f = c THEN entries[f] + 1 ELSE entries[f]
    BY <2>1, <2>2, CountedEvents DEF TypeOK, ReportsTypeOK
  <2>4. runsOf(f)' = runsOf(f)
    BY <1>7, EnterParts
  <2>5. CASE f = c
    <3>1. Cardinality(pending(f)') + 1 = p /\ Cardinality(inside(f)') = i + 1
      BY <1>7, <2>5, EnterParts
    <3>2. entries'[f] + Cardinality(pending(f)') = Tasks * r
      BY <1>2, <1>3, <1>4, <2>3, <2>5, <3>1
    <3>3. exits'[f] + Cardinality(inside(f)') = entries'[f]
      BY <1>2, <1>3, <1>4, <2>2, <2>3, <2>5, <3>1
    <3> QED BY <2>4, <3>2, <3>3
  <2>6. CASE f # c
    <3>1. pending(f)' = pending(f) /\ inside(f)' = inside(f)
      BY <1>7, <2>6, EnterParts
    <3> QED BY <1>2, <2>2, <2>3, <2>4, <2>6, <3>1
  <2> QED BY <2>5, <2>6
<1>8. ASSUME NEW w \in Workers, NEW may \in BOOLEAN, invoke(w, may)
      PROVE  /\ entries'[f] + Cardinality(pending(f)') = Tasks * Cardinality(runsOf(f)')
             /\ exits'[f] + Cardinality(inside(f)') = entries'[f]
  BY <1>2, <1>8, InvokeParts DEF invoke
<1>9. ASSUME NEW w \in Workers, exit(w)
      PROVE  /\ entries'[f] + Cardinality(pending(f)') = Tasks * Cardinality(runsOf(f)')
             /\ exits'[f] + Cardinality(inside(f)') = entries'[f]
  <2> DEFINE c == handle[working[w].run].collector
  <2>1. active_runtime_collector = c
    BY <1>1, <1>9, InvokeFacts, SlotOfRun DEF exit
  <2>2. exits' = count(exits, c) /\ entries' = entries
    BY <1>9, <2>1 DEF exit
  <2>3. exits'[f] = IF f = c THEN exits[f] + 1 ELSE exits[f]
    BY <2>1, <2>2, CountedEvents DEF TypeOK, ReportsTypeOK
  <2>4. runsOf(f)' = runsOf(f) /\ pending(f)' = pending(f)
    BY <1>9, ExitParts
  <2>5. CASE f = c
    <3>1. Cardinality(inside(f)') + 1 = i
      BY <1>9, <2>5, ExitParts
    <3>2. exits'[f] + Cardinality(inside(f)') = entries[f]
      BY <1>2, <1>3, <1>4, <2>3, <2>5, <3>1
    <3> QED BY <1>2, <2>2, <2>4, <3>2
  <2>6. CASE f # c
    <3>1. inside(f)' = inside(f)
      BY <1>9, <2>6, ExitParts
    <3> QED BY <1>2, <2>2, <2>3, <2>4, <2>6, <3>1
  <2> QED BY <2>5, <2>6
<1>10. CASE \E h \in used : wait(h)
  <2>1. used' = used /\ UNCHANGED <<left, working, entries, exits>>
    BY <1>10, NextRunsTypeOK DEF wait
  <2> QED BY <1>2, <2>1, PartsKept
<1> QED BY <1>5, <1>6, <1>7, <1>8, <1>9, <1>10, NextCases DEF Work

-----------------------------------------------------------------------------

LEMMA InitInv ==
    ASSUME Init
    PROVE  CenterInv
<1>1. used = {} /\ \A w \in Workers : working[w] = None
  BY DEF Init, used
<1>2. TypeOK
  <2>1. PlansTypeOK
    BY DEF Init, PlansTypeOK
  <2>2. RunsTypeOK
    BY FrameCenterAssumption DEF Init, RunsTypeOK, Tokens, FrameCenterAssumption
  <2>3. ReportsTypeOK
    BY FrameCenterAssumption DEF Init, ReportsTypeOK, Events, FrameCenterAssumption
  <2> QED BY <2>1, <2>2, <2>3 DEF TypeOK
<1>3. RunsInOrder
  <2>1. used = 1 .. 0 /\ 0 \in 0 .. MaxDispatches
    BY <1>1, NoRecordIsNone
  <2> QED BY <1>1, <2>1 DEF RunsInOrder
<1>4. PlanOfRunKept
  BY <1>1, NoRecordIsNone DEF Init, PlanOfRunKept
<1>5. CanceledRunsStopped /\ WaitedRunsOver /\ RunSeesItsToken
  BY <1>1 DEF CanceledRunsStopped, WaitedRunsOver, RunSeesItsToken
<1>6. SlotKept /\ SlotAwaited
  BY <1>1 DEF SlotKept, SlotAwaited, Init
<1>7. \A f \in Frames : /\ runsOf(f) = {} /\ endedRuns(f) = {} /\ pending(f) = {}
                        /\ inside(f) = {} /\ entered(f) = {}
  BY <1>1 DEF runsOf, endedRuns, pending, inside, entered
<1>8. Told
  BY <1>7 DEF Told
<1>9. Cardinality({}) = 0
  BY FS_EmptySet
<1>10. \A f \in Frames : /\ Cardinality(runsOf(f)) = 0 /\ Cardinality(pending(f)) = 0
                        /\ Cardinality(inside(f)) = 0 /\ Cardinality(entered(f)) = 0
  BY <1>7, <1>9, Zenon
<1>11. \A f \in Frames : begins[f] = 0 /\ ends[f] = 0 /\ started[f] = 0 /\ canceled[f] = 0
                         /\ entries[f] = 0 /\ exits[f] = 0
  BY DEF Init
<1>12. DispatchAccount
  BY <1>7, <1>9, <1>11 DEF DispatchAccount
<1>13. TaskAccount
  BY <1>10, <1>11, NoRecordIsNone DEF TaskAccount
<1>14. WorkerAccount
  BY <1>10, <1>11, NoRecordIsNone DEF WorkerAccount
<1> QED BY <1>2, <1>3, <1>4, <1>5, <1>6, <1>8, <1>12, <1>13, <1>14 DEF CenterInv

LEMMA StutterInv ==
    ASSUME CenterInv, UNCHANGED vars
    PROVE  CenterInv'
<1> USE DEF CenterInv, vars, observers, reports
<1>1. TypeOK'
  BY DEF TypeOK, PlansTypeOK, RunsTypeOK, ReportsTypeOK
<1>2. used' = used /\ \A h \in used : finished(h)' <=> finished(h)
  BY DEF used, finished, inRun
<1>3. /\ (Orderly' <=> Orderly) /\ (allWaited' <=> allWaited)
      /\ \A f \in Frames : /\ runsOf(f)' = runsOf(f) /\ endedRuns(f)' = endedRuns(f)
                           /\ pending(f)' = pending(f) /\ inside(f)' = inside(f)
                           /\ entered(f)' = entered(f)
  BY <1>2 DEF Orderly, allWaited, runsOf, endedRuns, pending, inside, entered
<1>4. RunsInOrder' /\ PlanOfRunKept' /\ CanceledRunsStopped' /\ WaitedRunsOver' /\ RunSeesItsToken'
  BY <1>2 DEF RunsInOrder, PlanOfRunKept, CanceledRunsStopped, WaitedRunsOver, RunSeesItsToken
<1>5. DispatchAccount' /\ SlotKept' /\ Told' /\ TaskAccount' /\ WorkerAccount'
  BY <1>2, <1>3 DEF DispatchAccount, SlotKept, Told, TaskAccount, WorkerAccount
<1>6. SlotAwaited'
  <2>1. \A f \in Frames : awaited(f)' <=> awaited(f)
    BY <1>3 DEF awaited
  <2>2. active_runtime_collector' = active_runtime_collector
        /\ active_runtime_collector \in Frames \cup {None}
    BY DEF TypeOK, ReportsTypeOK
  <2> QED BY <2>1, <2>2 DEF SlotAwaited, awaited, runsOf, used
<1> QED BY <1>1, <1>4, <1>5, <1>6

LEMMA CenterInvHolds == Spec => []CenterInv
<1>1. Init => CenterInv
  BY InitInv
<1>2. CenterInv /\ [Next]_vars => CenterInv'
  <2>1. ASSUME CenterInv, Next
        PROVE  CenterInv'
    BY <2>1, NextTypeOK, NextRunsInOrder, NextPlanOfRunKept, NextCanceledRunsStopped,
       NextWaitedRunsOver, NextRunSeesItsToken, NextSlotAwaited, NextDispatchAccount, NextSlotKept, NextTold,
       NextTaskAccount, NextWorkerAccount DEF CenterInv
  <2> QED BY <2>1, StutterInv
<1> QED BY <1>1, <1>2, PTL DEF Spec

\* When no run is under way nobody has a task to enter or is in one.
LEMMA NothingUnderWay ==
    ASSUME CenterInv, allFinished, NEW f \in Frames
    PROVE  Cardinality(pending(f)) = 0 /\ Cardinality(entered(f)) = 0 /\ Cardinality(inside(f)) = 0
<1>1. pending(f) = {}
  BY DEF allFinished, finished, pending, runsOf
<1>2. inside(f) = {}
  BY DEF allFinished, finished, inRun, inside, CenterInv, RunsInOrder
<1>3. entered(f) = {}
  BY <1>2 DEF entered
<1> QED BY <1>1, <1>2, <1>3, FS_EmptySet

(***************************************************************************)
(* Every invoker obeys the token its own run was dispatched with, although *)
(* the token is kept in the plan, every dispatch of the plan replaces it,  *)
(* plans move between frames and instances, and runs overlap.              *)
(***************************************************************************)
THEOREM TokensAreOwn == Spec => []RunSeesItsToken
<1>1. CenterInv => RunSeesItsToken
  BY DEF CenterInv
<1> QED BY <1>1, CenterInvHolds, PTL

(***************************************************************************)
(* An action property: once a task of a run was skipped for its token, no  *)
(* invoker that observes cancellation and looks at it later calls its      *)
(* body, whatever becomes of the source.                                   *)
(***************************************************************************)
THEOREM CancellationLasts == Spec => CanceledRunStaysCanceled
<1>1. CenterInv /\ [Next]_vars =>
         [\A h \in used : handle[h].canceled =>
             \A w \in Workers : begins_body(w, h) => ~working'[w].observe_cancellation]_vars
  <2> SUFFICES ASSUME CenterInv, Next, NEW h \in used, handle[h].canceled,
                      NEW w \in Workers, begins_body(w, h)
               PROVE  ~working'[w].observe_cancellation
    OBVIOUS
  <2>1. TypeOK /\ RunsInOrder /\ PlanOfRunKept /\ handle[h].token \in stopped
    BY DEF CenterInv, CanceledRunsStopped
  <2>2. /\ working[w] # None /\ working[w].run = h /\ working[w].step = "entered"
        /\ working'[w] # None /\ working'[w].step = "body"
    BY DEF begins_body
  <2>3. cancel_state[handle[h].graph] \in stopped
    BY <2>1, <2>2, InvokedToken
  <2>4. ASSUME NEW may \in BOOLEAN, invoke(w, may)
        PROVE  ~working'[w].observe_cancellation
    <3> DEFINE token == cancel_state[handle[h].graph]
               observe == canObserveCancellation(may, token)
    <3>1. working' = [working EXCEPT
              ![w].step = IF observe /\ token \in stopped THEN "canceled" ELSE "body",
              ![w].token = token, ![w].observe_cancellation = observe]
      BY <2>2, <2>4 DEF invoke
    <3>2. working[w] \in Activation
      BY <2>1, <2>2, InvokeFacts
    <3> HIDE DEF observe
    <3>3. /\ working'[w].step = (IF observe /\ token \in stopped THEN "canceled" ELSE "body")
          /\ working'[w].observe_cancellation = observe
      BY <2>1, <3>1, <3>2 DEF TypeOK, RunsTypeOK, Activation
    <3> QED BY <2>2, <2>3, <3>3
  <2>5. CASE working'[w] = working[w]
    BY <2>2, <2>5
  <2>6. ASSUME NEW v \in Workers, NEW j \in used, enter(v, j)
        PROVE  working'[w] = working[w]
    BY <2>1, <2>2, <2>6 DEF enter, TypeOK, RunsTypeOK
  <2>7. ASSUME NEW v \in Workers, NEW may \in BOOLEAN, invoke(v, may)
        PROVE  v = w \/ working'[w] = working[w]
    BY <2>1, <2>7 DEF invoke, TypeOK, RunsTypeOK
  <2>8. ASSUME NEW v \in Workers, exit(v)
        PROVE  working'[w] = None \/ working'[w] = working[w]
    BY <2>1, <2>8 DEF exit, TypeOK, RunsTypeOK
  <2>9. CASE Work
    BY <2>2, <2>4, <2>5, <2>6, <2>7, <2>8, <2>9 DEF Work
  <2>10. CASE AfterDispatch \/ AsideStep \/ \E g \in used : wait(g)
    BY <2>1, <2>5, <2>10, StepsAside DEF AfterDispatch, Dispatching, Prepared, Aside, wait
  <2> QED BY <2>1, <2>9, <2>10, NextCases
<1> QED BY <1>1, CenterInvHolds, PTL DEF Spec, CanceledRunStaysCanceled

(***************************************************************************)
(* END is counted once for each run, never ahead of BEGIN, in whichever    *)
(* order and however often the callers wait; and whoever was told of BEGIN *)
(* is told of END if the caller waits before it dispatches again.          *)
(***************************************************************************)
THEOREM EndsAreExact == Spec => []EndOncePerRun
<1>1. CenterInv => EndOncePerRun
  <2> SUFFICES ASSUME CenterInv, NEW f \in Frames
               PROVE  /\ begins[f] = Cardinality(runsOf(f)) /\ ends[f] <= begins[f]
                      /\ (\A h \in runsOf(f) : handle[h].dispatch_end_emitted) => ends[f] = begins[f]
                      /\ Orderly => \A h \in runsOf(f) :
                                       handle[h].ended_by \in {None, handle[h].begun_by}
    BY DEF EndOncePerRun
  <2>1. begins[f] = Cardinality(runsOf(f)) /\ ends[f] = Cardinality(endedRuns(f))
    BY DEF CenterInv, DispatchAccount
  <2>2. Cardinality(endedRuns(f)) <= Cardinality(runsOf(f))
    <3>1. endedRuns(f) \subseteq runsOf(f)
      BY DEF endedRuns
    <3> QED BY <3>1, PartsAreFinite, FS_Subset
  <2>3. ASSUME \A h \in runsOf(f) : handle[h].dispatch_end_emitted
        PROVE  endedRuns(f) = runsOf(f)
    BY <2>3 DEF endedRuns
  <2>4. Orderly => \A h \in runsOf(f) : handle[h].ended_by \in {None, handle[h].begun_by}
    BY DEF CenterInv, Told
  <2> QED BY <2>1, <2>2, <2>3, <2>4
<1> QED BY <1>1, CenterInvHolds, PTL

(***************************************************************************)
(* Whenever no run is under way, the phase and lane profiles of each frame *)
(* count each task of its runs once, as started or as canceled, also when  *)
(* runs of several graphs overlapped.                                      *)
(***************************************************************************)
THEOREM TasksAreReported == Spec => []TaskReportExact
<1>1. CenterInv => TaskReportExact
  <2> SUFFICES ASSUME CenterInv, allFinished, NEW f \in Frames
               PROVE  started[f] + canceled[f] = Tasks * Cardinality(runsOf(f))
    BY DEF TaskReportExact
  <2>1. started[f] + canceled[f] + Cardinality(pending(f)) + Cardinality(entered(f))
           = Tasks * Cardinality(runsOf(f))
    BY DEF CenterInv, TaskAccount
  <2>2. started[f] \in Nat /\ canceled[f] \in Nat
    BY DEF CenterInv, TypeOK, ReportsTypeOK, Events
  <2> QED BY <2>1, <2>2, NothingUnderWay
<1> QED BY <1>1, CenterInvHolds, PTL

(***************************************************************************)
(* The worker profiles, which go to whichever collector the center's slot  *)
(* names, are as exact if the caller waits on every handle before it       *)
(* dispatches again.                                                       *)
(***************************************************************************)
THEOREM WorkersAreReported == Spec => []WorkerReportExact
<1>1. CenterInv => WorkerReportExact
  <2> SUFFICES ASSUME CenterInv, Orderly, allFinished, NEW f \in Frames
               PROVE  entries[f] = Tasks * Cardinality(runsOf(f)) /\ exits[f] = entries[f]
    BY DEF WorkerReportExact
  <2>1. /\ entries[f] + Cardinality(pending(f)) = Tasks * Cardinality(runsOf(f))
        /\ exits[f] + Cardinality(inside(f)) = entries[f]
    BY DEF CenterInv, WorkerAccount
  <2>2. entries[f] \in Nat /\ exits[f] \in Nat
    BY DEF CenterInv, TypeOK, ReportsTypeOK, Events
  <2> QED BY <2>1, <2>2, NothingUnderWay
<1> QED BY <1>1, CenterInvHolds, PTL

(***************************************************************************)
(* Once the caller has waited on every handle of a frame, neither the slot *)
(* of the center nor the plan of a run under way names its collector,      *)
(* whatever other runs there are and in whichever order they are waited    *)
(* on: the last dispatch of the frame is among those waited on, and a wait *)
(* that comes after it clears the slot.                                    *)
(***************************************************************************)
THEOREM CollectorsAreLetGo == Spec => []NoCollectorDangles
<1>1. CenterInv => NoCollectorDangles
  <2> SUFFICES ASSUME CenterInv, NEW f \in Frames, ~awaited(f)
               PROVE  /\ active_runtime_collector # f
                      /\ \A w \in Workers :
                            working[w] # None => hooks[handle[working[w].run].graph] # f
    BY DEF NoCollectorDangles
  <2>1. TypeOK /\ RunsInOrder /\ PlanOfRunKept /\ WaitedRunsOver /\ SlotAwaited
    BY DEF CenterInv
  <2>2. active_runtime_collector # f
    BY <2>1, NoRecordIsNone DEF SlotAwaited
  <2>3. ASSUME NEW w \in Workers, working[w] # None
        PROVE  hooks[handle[working[w].run].graph] # f
    <3>1. ~handle[working[w].run].dispatch_end_emitted /\ working[w].run \in used
      BY <2>1, <2>3, InvokeFacts DEF WaitedRunsOver
    <3>2. hooks[handle[working[w].run].graph] = handle[working[w].run].collector
      BY <2>1, <2>3, InvokedToken
    <3> QED BY <3>1, <3>2 DEF awaited, runsOf
  <2> QED BY <2>2, <2>3
<1> QED BY <1>1, CenterInvHolds, PTL
=============================================================================
