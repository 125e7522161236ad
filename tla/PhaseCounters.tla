--------------------------- MODULE PhaseCounters ---------------------------
(***************************************************************************)
(* The counters a FrameRuntimeCollector keeps for one frame phase, updated *)
(* by the workers without a lock, one atomic access at a time.  The first  *)
(* task in flight opens an interval of the phase and the last one closes   *)
(* it; the offsets of the last opening and closing are kept.               *)
(*                                                                         *)
(* Every dispatch of the frame resets part of the counters, also while an  *)
(* earlier run of the frame is under way; the executor takes the runs one  *)
(* after the other.  A body may throw: then FINISHED is not reported, and  *)
(* Taskflow drops the tasks of the run that no worker has taken.           *)
(***************************************************************************)
EXTENDS Integers, FiniteSets

CONSTANTS
    Workers,        \* worker threads that report task events of the phase
    MaxTasks,       \* bound: tasks of the phase in one dispatch
    MaxDispatches,  \* bound: dispatches of the frame
    Modulus         \* the range of std::atomic_uint32_t, reduced

ASSUME PhaseCountersAssumption ==
    /\ IsFiniteSet(Workers)
    /\ MaxTasks \in Nat /\ MaxDispatches \in Nat
    /\ Modulus \in Nat /\ Modulus > Cardinality(Workers)

VARIABLES
    pc,          \* where each worker is in handleTaskEvent
    offset,      \* the offset a worker has read and not yet stored, else 0
    tasks,       \* tasks of the run under way not begun yet
    queued,      \* runs dispatched behind it
    dispatches,
    beginning,   \* a dispatch has prepared the collector; BEGIN is still to come
    clock,       \* readings of the clock since dispatch_start_ns was set
    state,       \* the PhaseRuntimeState
    lost,        \* history: tasks that threw, and tasks dropped for it
    exact,       \* history: nobody was in the phase at the last dispatch, and
                 \* no body has thrown since
    apart,       \* history: no run was under way at the last dispatch
    open_before  \* history: intervals counted open at the last dispatch

history == <<lost, exact, apart, open_before>>
calls   == <<queued, dispatches, beginning>>
vars    == <<pc, offset, tasks, calls, clock, state, history>>

Init ==
    /\ pc = [w \in Workers |-> "idle"]
    /\ offset = [w \in Workers |-> 0]
    /\ tasks = 0 /\ queued = 0 /\ dispatches = 0 /\ beginning = FALSE /\ clock = 0
    /\ lost = [thrown |-> 0, dropped |-> 0]
    /\ exact = TRUE /\ apart = TRUE /\ open_before = 0
    /\ state = [started_count |-> 0, finished_count |-> 0, canceled_count |-> 0,
                begin_event_count |-> 0, end_event_count |-> 0, in_flight_count |-> 0,
                last_begin_offset |-> 0, last_end_offset |-> 0]

quiescent == \A w \in Workers : pc[w] = "idle"

openIntervals == state.begin_event_count - state.end_event_count

\* Mutant: the tasks in flight are not forgotten.
ResetKeepsInFlight ==
    /\ dispatches < MaxDispatches /\ ~beginning
    /\ dispatches' = dispatches + 1 /\ beginning' = TRUE
    /\ clock' = 0
    /\ state' = [state EXCEPT !.last_begin_offset = 0, !.last_end_offset = 0]
    /\ exact' = quiescent
    /\ apart' = (quiescent /\ tasks = 0 /\ queued = 0)
    /\ open_before' = openIntervals
    /\ UNCHANGED <<pc, offset, tasks, queued, lost>>

\* prepareDispatch, at any moment; one caller dispatches at a time.  Its stores
\* are one step here and one by one in the code.  Nothing stated below can tell:
\* the premise exact is about the moment of the store of in_flight_count, and
\* apart leaves no worker that could come between the stores.
resetDispatchState ==
    /\ dispatches < MaxDispatches /\ ~beginning
    /\ dispatches' = dispatches + 1 /\ beginning' = TRUE
    /\ clock' = 0
    /\ state' = [state EXCEPT !.in_flight_count = 0, !.last_begin_offset = 0,
                              !.last_end_offset = 0]
    /\ exact' = quiescent
    /\ apart' = (quiescent /\ tasks = 0 /\ queued = 0)
    /\ open_before' = openIntervals
    /\ UNCHANGED <<pc, offset, tasks, queued, lost>>

\* BEGIN: offsets count from here on, and the run is queued.
begin ==
    /\ beginning
    /\ beginning' = FALSE
    /\ queued' = queued + 1
    /\ clock' = 0
    /\ UNCHANGED <<pc, offset, tasks, dispatches, state, history>>

\* The executor turns to the next run when the one before is over.
nextRun ==
    /\ quiescent /\ tasks = 0
    /\ queued > 0
    /\ queued' = queued - 1
    /\ tasks' = MaxTasks
    /\ UNCHANGED <<pc, offset, dispatches, beginning, clock, state, history>>

step(w, from, to) ==
    /\ pc[w] = from
    /\ pc' = [pc EXCEPT ![w] = to]

untimed == UNCHANGED <<offset, tasks, calls, clock, history>>

\* An invoker that finds the token stopped reports CANCELED and nothing else.
canceled(w) ==
    /\ pc[w] = "idle" /\ tasks > 0
    /\ tasks' = tasks - 1
    /\ state' = [state EXCEPT !.canceled_count = @ + 1]
    /\ UNCHANGED <<pc, offset, calls, clock, history>>

\* STARTED: count it, enter, and open the phase if nobody was in it.
started(w) ==
    /\ step(w, "idle", "entering")
    /\ tasks > 0
    /\ tasks' = tasks - 1
    /\ state' = [state EXCEPT !.started_count = @ + 1]
    /\ UNCHANGED <<offset, calls, clock, history>>

\* Mutant: the second task to enter opens the phase as well.
EnterTwice(w) ==
    /\ step(w, "entering", IF state.in_flight_count <= 1 THEN "opening" ELSE "body")
    /\ state' = [state EXCEPT !.in_flight_count = (@ + 1) % Modulus]
    /\ untimed

enter(w) ==
    /\ step(w, "entering", IF state.in_flight_count = 0 THEN "opening" ELSE "body")
    /\ state' = [state EXCEPT !.in_flight_count = (@ + 1) % Modulus]
    /\ untimed

open(w) ==
    /\ step(w, "opening", "timingBegin")
    /\ state' = [state EXCEPT !.begin_event_count = @ + 1]
    /\ untimed

\* dispatchOffsetNs.
readClock(w) ==
    /\ step(w, "timingBegin", "storingBegin") \/ step(w, "timingEnd", "storingEnd")
    /\ clock' = clock + 1
    /\ offset' = [offset EXCEPT ![w] = clock + 1]
    /\ UNCHANGED <<tasks, calls, state, history>>

storeBegin(w) ==
    /\ step(w, "storingBegin", "body")
    /\ state' = [state EXCEPT !.last_begin_offset = offset[w]]
    /\ offset' = [offset EXCEPT ![w] = 0]
    /\ UNCHANGED <<tasks, calls, clock, history>>

\* FINISHED, once the body has returned: count it, leave, and close the phase
\* if nobody is left in it.
finished(w) ==
    /\ step(w, "body", "leaving")
    /\ state' = [state EXCEPT !.finished_count = @ + 1]
    /\ untimed

\* The body throws: nothing is counted.
throw(w) ==
    /\ step(w, "body", "idle")
    /\ tasks' = 0
    /\ lost' = [thrown |-> lost.thrown + 1, dropped |-> lost.dropped + tasks]
    /\ exact' = FALSE
    /\ UNCHANGED <<offset, calls, clock, state, apart, open_before>>

\* Mutant: the last task but one closes the phase as well.
LeaveTwice(w) ==
    /\ step(w, "leaving", IF state.in_flight_count <= 2 THEN "closing" ELSE "idle")
    /\ state' = [state EXCEPT !.in_flight_count = (@ + Modulus - 1) % Modulus]
    /\ untimed

leave(w) ==
    /\ step(w, "leaving", IF state.in_flight_count = 1 THEN "closing" ELSE "idle")
    /\ state' = [state EXCEPT !.in_flight_count = (@ + Modulus - 1) % Modulus]
    /\ untimed

close(w) ==
    /\ step(w, "closing", "timingEnd")
    /\ state' = [state EXCEPT !.end_event_count = @ + 1]
    /\ untimed

storeEnd(w) ==
    /\ step(w, "storingEnd", "idle")
    /\ state' = [state EXCEPT !.last_end_offset = offset[w]]
    /\ offset' = [offset EXCEPT ![w] = 0]
    /\ UNCHANGED <<tasks, calls, clock, history>>

handleTaskEvent(w) ==
    \/ canceled(w)
    \/ started(w) \/ enter(w) \/ open(w) \/ storeBegin(w)
    \/ readClock(w)
    \/ throw(w) \/ finished(w) \/ leave(w) \/ close(w) \/ storeEnd(w)

Next == resetDispatchState \/ begin \/ nextRun \/ \E w \in Workers : handleTaskEvent(w)

Spec == Init /\ [][Next]_vars

-----------------------------------------------------------------------------

inside == {w \in Workers : pc[w] \in
              {"opening", "timingBegin", "storingBegin", "body", "leaving"}}

(***************************************************************************)
(* The number in flight is the number of tasks between their two changes   *)
(* of it, from a dispatch that finds nobody in the phase until a body      *)
(* throws or the next dispatch, whatever went wrong in dispatches before.  *)
(***************************************************************************)
InFlightExact == exact => state.in_flight_count = Cardinality(inside)

(***************************************************************************)
(* No end is counted before its begin, though the worker that counts the   *)
(* begin does so after others have entered, left, or are about to count    *)
(* the end.  A dispatch in the middle of a run may bring that about, but   *)
(* when the workers are idle no end is without a begin even then.          *)
(***************************************************************************)
EndsFollowBegins ==
    /\ exact => openIntervals >= open_before
    /\ quiescent => openIntervals >= 0

(***************************************************************************)
(* When the workers are idle, every interval opened since the dispatch is  *)
(* closed (if the dispatch found nobody in the phase and no body threw).   *)
(* In any case each task of each dispatch is accounted for: finished,      *)
(* canceled, thrown, dropped or still to come.                             *)
(***************************************************************************)
QuiescentBalance ==
    quiescent =>
        /\ exact => openIntervals = open_before
        /\ state.started_count = state.finished_count + lost.thrown
        /\ state.started_count + state.canceled_count + lost.dropped + tasks
              = (dispatches - queued - (IF beginning THEN 1 ELSE 0)) * MaxTasks

\* A worker that was slow to store the begin of an interval never overwrites
\* the begin of a later one, if the run was dispatched when the one before was
\* over.  (The end of an interval has no such protection.)
BeginOffsetsAdvance ==
    [][dispatches' = dispatches /\ apart =>
          state'.last_begin_offset >= state.last_begin_offset]_vars
=============================================================================
