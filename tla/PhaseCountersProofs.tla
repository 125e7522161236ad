------------------------ MODULE PhaseCountersProofs ------------------------
(***************************************************************************)
(* Proofs about the counters of a phase for every number of workers and    *)
(* tasks, every number of dispatches at any moment, and counters of any    *)
(* width that can count the workers.                                       *)
(***************************************************************************)
EXTENDS PhaseCounters, FiniteSetTheorems, TLAPS

\* The places of a worker, and those of a task: openers are about to report the
\* begin of an interval; insiders are counted in flight; a busy one has been
\* counted as started, and will be as finished unless it throws.
Places   == {"idle", "entering", "opening", "timingBegin", "storingBegin", "body", "leaving",
             "closing", "timingEnd", "storingEnd"}
Openers  == {"opening", "timingBegin", "storingBegin"}
Insiders == Openers \cup {"body", "leaving"}
Busy     == Openers \cup {"entering", "body"}

at(q, S) == {w \in Workers : q[w] \in S}
count(S) == Cardinality(at(pc, S))

TypeOK ==
    /\ pc \in [Workers -> Places]
    /\ offset \in [Workers -> Nat]
    /\ tasks \in Nat /\ queued \in Nat /\ dispatches \in Nat /\ clock \in Nat
    /\ lost \in [thrown : Nat, dropped : Nat]
    /\ open_before \in Int
    /\ state \in [started_count : Nat, finished_count : Nat, canceled_count : Nat,
                  begin_event_count : Nat, end_event_count : Nat,
                  in_flight_count : 0 .. Modulus - 1,
                  last_begin_offset : Nat, last_end_offset : Nat]

runsBegun == dispatches - queued - (IF beginning THEN 1 ELSE 0)

\* Each task that began is busy, finished or thrown; none is counted twice.
Account ==
    /\ state.started_count = state.finished_count + lost.thrown + count(Busy)
    /\ state.started_count + state.canceled_count + lost.dropped + tasks
          = runsBegun * MaxTasks

\* The intervals opened, counting those whose begin or end is still to be
\* reported: the times the number in flight left zero upwards, less the times
\* it came back.
intervals == openIntervals + count({"opening"}) - count({"closing"})

positive == IF state.in_flight_count > 0 THEN 1 ELSE 0

(***************************************************************************)
(* The number in flight is known modulo Modulus.  Let q be the times it    *)
(* went round.  It went round at least as often as there are intervals     *)
(* missing, and it cannot have gone round backwards: a dispatch sets it to *)
(* zero under at most all the workers, and each leaves at most once more.  *)
(***************************************************************************)
GoesRound(q) ==
    /\ state.in_flight_count + Modulus * q >= count(Insiders) - Cardinality(Workers)
    /\ intervals >= q + positive

NeverBehind == \E q \in Int : GoesRound(q)

\* The worker that opens an interval is alone in doing so.
OneOpener == \A v, w \in at(pc, Openers) : v = w

\* What a dispatch that finds nobody in the phase brings, until a body throws.
Exact ==
    exact =>
        /\ state.in_flight_count = count(Insiders)
        /\ intervals = open_before + positive
        /\ OneOpener

(***************************************************************************)
(* What a dispatch that finds no run under way brings.  A body that throws *)
(* leaves the number in flight too large, but it also ends the run, and no *)
(* worker is counted in flight twice.                                      *)
(***************************************************************************)
Bounded ==
    /\ count(Insiders) <= state.in_flight_count
    /\ state.in_flight_count + count({"entering"}) <= Cardinality(Workers)
    /\ OneOpener

OneRun ==
    /\ beginning => quiescent /\ tasks = 0 /\ queued = 0 /\ exact /\ state.last_begin_offset = 0
    /\ queued > 0 => queued = 1 /\ quiescent /\ tasks = 0 /\ exact
    /\ tasks > 0 => exact

Offsets ==
    /\ state.last_begin_offset <= clock
    /\ \A w \in at(pc, {"storingBegin"}) :
          state.last_begin_offset <= offset[w] /\ offset[w] <= clock

Apart == apart => Bounded /\ OneRun /\ Offsets

CountersInv == TypeOK /\ Account /\ NeverBehind /\ Exact /\ Apart

-----------------------------------------------------------------------------
(* Counting workers. *)

LEMMA Constants ==
    /\ IsFiniteSet(Workers) /\ Cardinality(Workers) \in Nat
    /\ MaxTasks \in Nat /\ Modulus \in Nat /\ Cardinality(Workers) < Modulus
    /\ \A w \in Workers : Cardinality(Workers) >= 1
<1>1. IsFiniteSet(Workers) /\ Cardinality(Workers) \in Nat
  BY PhaseCountersAssumption, FS_CardinalityType DEF PhaseCountersAssumption
<1>2. \A w \in Workers : Cardinality(Workers) # 0
  BY <1>1, FS_EmptySet
<1> QED BY <1>1, <1>2, PhaseCountersAssumption DEF PhaseCountersAssumption

LEMMA CountFacts ==
    ASSUME NEW q, NEW S
    PROVE  /\ IsFiniteSet(at(q, S)) /\ Cardinality(at(q, S)) \in Nat
           /\ Cardinality(at(q, S)) <= Cardinality(Workers)
           /\ Cardinality(at(q, S)) = 0 <=> \A w \in Workers : q[w] \notin S
<1>1. at(q, S) \subseteq Workers
  BY DEF at
<1>2. IsFiniteSet(at(q, S)) /\ Cardinality(at(q, S)) \in Nat
      /\ Cardinality(at(q, S)) <= Cardinality(Workers)
  BY <1>1, Constants, FS_Subset, FS_CardinalityType
<1>3. Cardinality(at(q, S)) = 0 <=> at(q, S) = {}
  BY <1>2, FS_EmptySet
<1> QED BY <1>2, <1>3 DEF at

\* A worker that moves changes the counts by itself.
OnlyMoves(w, q, r) == \A v \in Workers : v # w => r[v] = q[v]

LEMMA CountMove ==
    ASSUME NEW q, NEW r, NEW w \in Workers, NEW S,
           OnlyMoves(w, q, r)
    PROVE  Cardinality(at(r, S)) = Cardinality(at(q, S)) + (IF r[w] \in S THEN 1 ELSE 0)
                                                         - (IF q[w] \in S THEN 1 ELSE 0)
<1>1. IsFiniteSet(at(q, S)) /\ Cardinality(at(q, S)) \in Nat
  BY CountFacts
<1>2. CASE r[w] \in S /\ q[w] \notin S
  <2>1. at(r, S) = at(q, S) \cup {w} /\ w \notin at(q, S)
    BY <1>2 DEF at, OnlyMoves
  <2>2. Cardinality(at(q, S) \cup {w}) = Cardinality(at(q, S)) + 1
    BY <1>1, <2>1, FS_AddElement
  <2>3. Cardinality(at(r, S)) = Cardinality(at(q, S)) + 1
    BY <2>1, <2>2, Zenon
  <2> QED BY <1>1, <1>2, <2>3
<1>3. CASE r[w] \notin S /\ q[w] \in S
  <2>1. at(r, S) = at(q, S) \ {w} /\ w \in at(q, S)
    BY <1>3 DEF at, OnlyMoves
  <2>2. Cardinality(at(q, S) \ {w}) = Cardinality(at(q, S)) - 1
    BY <1>1, <2>1, FS_RemoveElement
  <2>3. Cardinality(at(r, S)) = Cardinality(at(q, S)) - 1
    BY <2>1, <2>2, Zenon
  <2> QED BY <1>1, <1>3, <2>3
<1>4. CASE r[w] \in S <=> q[w] \in S
  <2>1. at(r, S) = at(q, S)
    BY <1>4 DEF at, OnlyMoves
  <2> QED BY <1>1, <1>4, <2>1
<1> QED BY <1>2, <1>3, <1>4

\* Two disjoint kinds of places are counted apart.
LEMMA CountUnion ==
    ASSUME NEW q, NEW S, NEW T, S \cap T = {}
    PROVE  Cardinality(at(q, S \cup T)) = Cardinality(at(q, S)) + Cardinality(at(q, T))
<1>1. at(q, S \cup T) = at(q, S) \cup at(q, T) /\ at(q, S) \cap at(q, T) = {}
  BY DEF at
<1>2. Cardinality(at(q, S) \cap at(q, T)) = 0
  BY <1>1, FS_EmptySet
<1>3. IsFiniteSet(at(q, S)) /\ IsFiniteSet(at(q, T)) /\ Cardinality(at(q, S)) \in Nat
      /\ Cardinality(at(q, T)) \in Nat
  BY CountFacts
<1>4. Cardinality(at(q, S) \cup at(q, T)) = Cardinality(at(q, S)) + Cardinality(at(q, T))
                                            - Cardinality(at(q, S) \cap at(q, T))
  BY <1>3, FS_Union
<1>5. Cardinality(at(q, S) \cup at(q, T)) = Cardinality(at(q, S)) + Cardinality(at(q, T))
  BY <1>2, <1>3, <1>4
<1> QED BY <1>1, <1>5, Zenon

LEMMA QuiescentCounts ==
    ASSUME quiescent, NEW S, "idle" \notin S
    PROVE  count(S) = 0
BY CountFacts DEF quiescent, count

\* What a step of w from one place to another does to the counts.
Counts(dInsiders, dEntering, dBusy, dOpening, dClosing) ==
    /\ count(Insiders)' = count(Insiders) + dInsiders
    /\ count({"entering"})' = count({"entering"}) + dEntering
    /\ count(Busy)' = count(Busy) + dBusy
    /\ count({"opening"})' = count({"opening"}) + dOpening
    /\ count({"closing"})' = count({"closing"}) + dClosing

LEMMA StepCounts ==
    ASSUME NEW w \in Workers, pc \in [Workers -> Places]
    PROVE  /\ step(w, "idle", "entering") => Counts(0, 1, 1, 0, 0)
           /\ step(w, "entering", "opening") => Counts(1, -1, 0, 1, 0)
           /\ step(w, "entering", "body") => Counts(1, -1, 0, 0, 0)
           /\ step(w, "opening", "timingBegin") => Counts(0, 0, 0, -1, 0)
           /\ step(w, "timingBegin", "storingBegin") => Counts(0, 0, 0, 0, 0)
           /\ step(w, "storingBegin", "body") => Counts(0, 0, 0, 0, 0)
           /\ step(w, "body", "leaving") => Counts(0, 0, -1, 0, 0)
           /\ step(w, "body", "idle") => Counts(-1, 0, -1, 0, 0)
           /\ step(w, "leaving", "closing") => Counts(-1, 0, 0, 0, 1)
           /\ step(w, "leaving", "idle") => Counts(-1, 0, 0, 0, 0)
           /\ step(w, "closing", "timingEnd") => Counts(0, 0, 0, 0, -1)
           /\ step(w, "timingEnd", "storingEnd") => Counts(0, 0, 0, 0, 0)
           /\ step(w, "storingEnd", "idle") => Counts(0, 0, 0, 0, 0)
<1> DEFINE moved(from, to, S) == (IF to \in S THEN 1 ELSE 0) - (IF from \in S THEN 1 ELSE 0)
<1>1. ASSUME NEW from, NEW to, step(w, from, to), NEW S
      PROVE  count(S)' = count(S) + moved(from, to, S)
  <2>1. pc' = [pc EXCEPT ![w] = to] /\ pc[w] = from
    BY <1>1 DEF step
  <2>2. Cardinality(at(pc', S)) = Cardinality(at(pc, S)) + moved(from, to, S)
    <3>1. Cardinality(at(pc, S)) \in Nat
      BY CountFacts
    <3>2. Cardinality(at(pc', S)) = Cardinality(at(pc, S)) + (IF pc'[w] \in S THEN 1 ELSE 0)
                                                           - (IF pc[w] \in S THEN 1 ELSE 0)
      <4>1. OnlyMoves(w, pc, pc')
        BY <2>1 DEF OnlyMoves
      <4> QED BY <4>1, CountMove
    <3>3. pc'[w] = to
      BY <2>1
    <3> QED BY <2>1, <3>1, <3>2, <3>3
  <2> QED BY <2>2 DEF count, at
<1>2. \A S : count(S) \in Nat
  BY CountFacts DEF count
<1>3. ASSUME NEW from, NEW to, step(w, from, to)
      PROVE  Counts(moved(from, to, Insiders), moved(from, to, {"entering"}),
                    moved(from, to, Busy), moved(from, to, {"opening"}),
                    moved(from, to, {"closing"}))
  BY <1>1, <1>3 DEF Counts
<1> QED BY <1>2, <1>3 DEF Counts, Insiders, Openers, Busy

-----------------------------------------------------------------------------
(* The invariant holds at first, and no step breaks it. *)

LEMMA InitInv ==
    ASSUME Init
    PROVE  CountersInv
<1>1. quiescent
  BY DEF Init, quiescent
<1>2. /\ count(Insiders) = 0 /\ count({"entering"}) = 0 /\ count(Busy) = 0
      /\ count({"opening"}) = 0 /\ count({"closing"}) = 0
  BY <1>1, QuiescentCounts DEF Insiders, Openers, Busy
<1>3. at(pc, Openers) = {} /\ at(pc, {"storingBegin"}) = {}
  BY <1>1 DEF quiescent, at, Openers
<1>4. TypeOK
  BY Constants DEF Init, TypeOK, Places
<1>5. Account
  BY <1>2, Constants DEF Init, Account, runsBegun
<1>6. GoesRound(0)
  BY <1>2, Constants DEF Init, GoesRound, intervals, openIntervals, positive
<1>7. Exact
  BY <1>2, <1>3 DEF Init, Exact, intervals, openIntervals, positive, OneOpener
<1>8. Apart
  BY <1>1, <1>2, <1>3, Constants DEF Init, Apart, Bounded, OneRun, Offsets, OneOpener
<1> QED BY <1>4, <1>5, <1>6, <1>7, <1>8 DEF CountersInv, NeverBehind

LEMMA NextTypeOK ==
    ASSUME TypeOK, Next
    PROVE  TypeOK'
<1> USE DEF TypeOK
<1>1. CASE resetDispatchState
  <2>1. open_before' \in Int
    BY <1>1 DEF resetDispatchState, openIntervals
  <2>2. dispatches' \in Nat /\ clock' \in Nat /\ state'.in_flight_count \in 0 .. Modulus - 1
    BY <1>1, Constants DEF resetDispatchState
  <2>3. state' = [state EXCEPT !.in_flight_count = 0, !.last_begin_offset = 0,
                               !.last_end_offset = 0]
    BY <1>1 DEF resetDispatchState
  <2>4. UNCHANGED <<pc, offset, tasks, queued, lost>>
    BY <1>1 DEF resetDispatchState
  <2> QED BY <2>1, <2>2, <2>3, <2>4, Constants
<1>2. CASE begin
  BY <1>2 DEF begin, history
<1>3. CASE nextRun
  BY <1>3, Constants DEF nextRun, history
<1>4. ASSUME NEW w \in Workers, handleTaskEvent(w)
      PROVE  TypeOK'
  <2> USE DEF history, calls, untimed, step, Places
  <2>1. CASE canceled(w)
    BY <2>1 DEF canceled
  <2>2. CASE started(w)
    BY <2>2 DEF started
  <2>3. CASE enter(w)
    BY <2>3, Constants DEF enter
  <2>4. CASE open(w)
    BY <2>4 DEF open
  <2>5. CASE storeBegin(w)
    BY <2>5 DEF storeBegin
  <2>6. CASE readClock(w)
    BY <2>6 DEF readClock
  <2>7. CASE throw(w)
    BY <2>7 DEF throw
  <2>8. CASE finished(w)
    BY <2>8 DEF finished
  <2>9. CASE leave(w)
    BY <2>9, Constants DEF leave
  <2>10. CASE close(w)
    BY <2>10 DEF close
  <2>11. CASE storeEnd(w)
    BY <2>11 DEF storeEnd
  <2> QED BY <1>4, <2>1, <2>2, <2>3, <2>4, <2>5, <2>6, <2>7, <2>8, <2>9, <2>10, <2>11
          DEF handleTaskEvent
<1> QED BY <1>1, <1>2, <1>3, <1>4 DEF Next

LEMMA NextAccount ==
    ASSUME TypeOK, Account, Next
    PROVE  Account'
<1> USE DEF TypeOK
<1>1. \A S : count(S) \in Nat
  BY CountFacts DEF count
<1>2. MaxTasks \in Nat /\ runsBegun \in Int /\ runsBegun * MaxTasks \in Int
  BY Constants DEF runsBegun
<1>3. CASE resetDispatchState
  <2>1. runsBegun' = runsBegun
    BY <1>3 DEF resetDispatchState, runsBegun
  <2>2. UNCHANGED <<state.started_count, state.finished_count, state.canceled_count, lost, tasks,
                    pc>>
    BY <1>3 DEF resetDispatchState
  <2> QED BY <2>1, <2>2, Constants DEF Account, count, at
<1>4. CASE begin
  <2>1. runsBegun' = runsBegun
    BY <1>4 DEF begin, runsBegun
  <2>2. UNCHANGED <<state, lost, tasks, pc>>
    BY <1>4 DEF begin, history
  <2> QED BY <2>1, <2>2 DEF Account, count, at
<1>5. CASE nextRun
  <2>1. runsBegun' = runsBegun + 1 /\ tasks = 0 /\ tasks' = MaxTasks
    BY <1>5 DEF nextRun, runsBegun
  <2>2. UNCHANGED <<state, lost, pc>>
    BY <1>5 DEF nextRun, history
  <2>3. (runsBegun + 1) * MaxTasks = runsBegun * MaxTasks + MaxTasks
    BY <1>2
  <2>4. runsBegun' * MaxTasks = runsBegun * MaxTasks + MaxTasks
    BY <2>1, <2>3
  <2> QED BY <1>2, <2>1, <2>2, <2>4 DEF Account, count, at
<1>6. ASSUME NEW w \in Workers, handleTaskEvent(w)
      PROVE  Account'
  <2> DEFINE rest == runsBegun * MaxTasks
  <2>1. rest' = rest /\ rest \in Int
    <3>1. UNCHANGED calls
      BY <1>6 DEF handleTaskEvent, canceled, started, enter, open, storeBegin, readClock, throw,
                  finished, leave, close, storeEnd, untimed
    <3> QED BY <1>2, <3>1 DEF calls, runsBegun
  <2> HIDE DEF rest
  <2> SUFFICES /\ state'.started_count = state'.finished_count + lost'.thrown + count(Busy)'
               /\ state'.started_count + state'.canceled_count + lost'.dropped + tasks' = rest'
    BY DEF Account, rest
  <2>2. /\ state.started_count = state.finished_count + lost.thrown + count(Busy)
        /\ state.started_count + state.canceled_count + lost.dropped + tasks = rest
    BY DEF Account, rest
  <2> USE DEF history, calls, untimed, Counts
  <2>3. CASE canceled(w)
    BY <1>1, <2>1, <2>2, <2>3 DEF canceled, count, at
  <2>4. CASE started(w)
    BY <1>1, <2>1, <2>2, <2>4, StepCounts DEF started
  <2>5. CASE enter(w)
    BY <1>1, <2>1, <2>2, <2>5, StepCounts DEF enter
  <2>6. CASE open(w)
    BY <1>1, <2>1, <2>2, <2>6, StepCounts DEF open
  <2>7. CASE storeBegin(w)
    BY <1>1, <2>1, <2>2, <2>7, StepCounts DEF storeBegin
  <2>8. CASE readClock(w)
    BY <1>1, <2>1, <2>2, <2>8, StepCounts DEF readClock
  <2>9. CASE throw(w)
    BY <1>1, <2>1, <2>2, <2>9, StepCounts DEF throw
  <2>10. CASE finished(w)
    BY <1>1, <2>1, <2>2, <2>10, StepCounts DEF finished
  <2>11. CASE leave(w)
    BY <1>1, <2>1, <2>2, <2>11, StepCounts DEF leave
  <2>12. CASE close(w)
    BY <1>1, <2>1, <2>2, <2>12, StepCounts DEF close
  <2>13. CASE storeEnd(w)
    BY <1>1, <2>1, <2>2, <2>13, StepCounts DEF storeEnd
  <2> QED BY <1>6, <2>3, <2>4, <2>5, <2>6, <2>7, <2>8, <2>9, <2>10, <2>11, <2>12, <2>13
          DEF handleTaskEvent
<1> QED BY <1>3, <1>4, <1>5, <1>6 DEF Next

-----------------------------------------------------------------------------
(* The number in flight and the intervals. *)

LEMMA CountsAreNat ==
    /\ \A S : count(S) \in Nat /\ count(S) <= Cardinality(Workers)
    /\ \A S : count(S)' \in Nat /\ count(S)' <= Cardinality(Workers)
BY CountFacts DEF count, at

LEMMA EnterEffects ==
    ASSUME TypeOK, NEW w \in Workers, enter(w)
    PROVE  /\ state'.in_flight_count = (state.in_flight_count + 1) % Modulus
           /\ count(Insiders)' = count(Insiders) + 1
           /\ count({"entering"})' = count({"entering"}) - 1
           /\ intervals' = intervals + (IF state.in_flight_count = 0 THEN 1 ELSE 0)
<1>1. state' = [state EXCEPT !.in_flight_count = (@ + 1) % Modulus]
  BY DEF enter
<1>2. CASE state.in_flight_count = 0
  <2>1. Counts(1, -1, 0, 1, 0)
    BY <1>2, StepCounts DEF enter, TypeOK
  <2> QED BY <1>1, <1>2, <2>1, CountsAreNat DEF Counts, intervals, openIntervals, TypeOK
<1>3. CASE state.in_flight_count # 0
  <2>1. Counts(1, -1, 0, 0, 0)
    BY <1>3, StepCounts DEF enter, TypeOK
  <2> QED BY <1>1, <1>3, <2>1, CountsAreNat DEF Counts, intervals, openIntervals, TypeOK
<1> QED BY <1>2, <1>3

LEMMA LeaveEffects ==
    ASSUME TypeOK, NEW w \in Workers, leave(w)
    PROVE  /\ state'.in_flight_count = (state.in_flight_count + Modulus - 1) % Modulus
           /\ count(Insiders)' = count(Insiders) - 1
           /\ count({"entering"})' = count({"entering"})
           /\ intervals' = intervals - (IF state.in_flight_count = 1 THEN 1 ELSE 0)
<1>1. state' = [state EXCEPT !.in_flight_count = (@ + Modulus - 1) % Modulus]
  BY DEF leave
<1>2. CASE state.in_flight_count = 1
  <2>1. Counts(-1, 0, 0, 0, 1)
    BY <1>2, StepCounts DEF leave, TypeOK
  <2> QED BY <1>1, <1>2, <2>1, CountsAreNat DEF Counts, intervals, openIntervals, TypeOK
<1>3. CASE state.in_flight_count # 1
  <2>1. Counts(-1, 0, 0, 0, 0)
    BY <1>3, StepCounts DEF leave, TypeOK
  <2> QED BY <1>1, <1>3, <2>1, CountsAreNat DEF Counts, intervals, openIntervals, TypeOK
<1> QED BY <1>2, <1>3

LEMMA ThrowEffects ==
    ASSUME TypeOK, NEW w \in Workers, throw(w)
    PROVE  /\ state' = state
           /\ count(Insiders)' = count(Insiders) - 1
           /\ count({"entering"})' = count({"entering"})
           /\ intervals' = intervals
<1>1. Counts(-1, 0, -1, 0, 0) /\ state' = state
  BY StepCounts DEF throw, TypeOK
<1> QED BY <1>1, CountsAreNat DEF Counts, intervals, openIntervals, TypeOK

Steady ==
    /\ state'.in_flight_count = state.in_flight_count
    /\ count(Insiders)' = count(Insiders)
    /\ intervals' = intervals

\* The other steps move neither the number in flight nor what it stands for.
LEMMA OtherEffects ==
    ASSUME TypeOK, Next, ~resetDispatchState,
           \A w \in Workers : ~enter(w) /\ ~leave(w) /\ ~throw(w)
    PROVE  Steady /\ exact' = exact /\ open_before' = open_before
<1> USE CountsAreNat DEF Counts, intervals, openIntervals, TypeOK, Steady, history, untimed
<1>1. CASE begin
  BY <1>1 DEF begin, count, at
<1>2. CASE nextRun
  BY <1>2 DEF nextRun, count, at
<1>3. ASSUME NEW w \in Workers, handleTaskEvent(w)
      PROVE  Steady /\ exact' = exact /\ open_before' = open_before
  <2>1. CASE canceled(w)
    BY <2>1 DEF canceled, count, at
  <2>2. CASE started(w)
    <3>1. Counts(0, 1, 1, 0, 0)
      BY <2>2, StepCounts DEF started
    <3> QED BY <2>2, <3>1 DEF started
  <2>3. CASE open(w)
    <3>1. Counts(0, 0, 0, -1, 0)
      BY <2>3, StepCounts DEF open
    <3> QED BY <2>3, <3>1 DEF open
  <2>4. CASE storeBegin(w)
    <3>1. Counts(0, 0, 0, 0, 0)
      BY <2>4, StepCounts DEF storeBegin
    <3> QED BY <2>4, <3>1 DEF storeBegin
  <2>5. CASE readClock(w)
    <3>1. Counts(0, 0, 0, 0, 0)
      BY <2>5, StepCounts DEF readClock
    <3> QED BY <2>5, <3>1 DEF readClock
  <2>6. CASE finished(w)
    <3>1. Counts(0, 0, -1, 0, 0)
      BY <2>6, StepCounts DEF finished
    <3> QED BY <2>6, <3>1 DEF finished
  <2>7. CASE close(w)
    <3>1. Counts(0, 0, 0, 0, -1)
      BY <2>7, StepCounts DEF close
    <3> QED BY <2>7, <3>1 DEF close
  <2>8. CASE storeEnd(w)
    <3>1. Counts(0, 0, 0, 0, 0)
      BY <2>8, StepCounts DEF storeEnd
    <3> QED BY <2>8, <3>1 DEF storeEnd
  <2> QED BY <1>3, <2>1, <2>2, <2>3, <2>4, <2>5, <2>6, <2>7, <2>8 DEF handleTaskEvent
<1> QED BY <1>1, <1>2, <1>3 DEF Next

\* The number in flight cannot have gone round backwards by more than one.
LEMMA NoIntervalIsMissing ==
    ASSUME TypeOK, NeverBehind
    PROVE  intervals \in Int /\ intervals >= 0
<1> DEFINE N == Cardinality(Workers)
           f == state.in_flight_count
<1>1. intervals \in Int /\ count(Insiders) \in Nat /\ N \in Nat /\ N < Modulus /\ Modulus \in Nat
      /\ f \in 0 .. Modulus - 1
  BY CountsAreNat, Constants DEF intervals, openIntervals, TypeOK
<1>2. PICK q \in Int : /\ f + Modulus * q >= count(Insiders) - N
                       /\ intervals >= q + positive
  BY DEF NeverBehind, GoesRound
<1>3. positive = IF f > 0 THEN 1 ELSE 0
  BY DEF positive
<1> HIDE DEF N, f
<1>4. CASE q >= 0
  BY <1>1, <1>2, <1>3, <1>4
<1>5. CASE q = -1
  <2>1. Modulus * q = - Modulus
    BY <1>1, <1>5
  <2>2. f > 0
    BY <1>1, <1>2, <2>1
  <2> QED BY <1>1, <1>2, <1>3, <1>5, <2>2
<1>6. CASE q <= -2
  <2>1. Modulus * q <= (-2) * Modulus
    BY <1>1, <1>6
  <2> QED BY <1>1, <1>2, <2>1
<1> QED BY <1>1, <1>2, <1>4, <1>5, <1>6

LEMMA NextNeverBehind ==
    ASSUME TypeOK, NeverBehind, Next
    PROVE  NeverBehind'
<1> DEFINE N == Cardinality(Workers)
           f == state.in_flight_count
           ins == count(Insiders)
<1>1. /\ intervals \in Int /\ ins \in Nat /\ ins' \in Nat /\ N \in Nat /\ ins' <= N
      /\ N < Modulus /\ Modulus \in Nat /\ f \in 0 .. Modulus - 1
      /\ \A w \in Workers : N >= 1
  BY CountsAreNat, Constants DEF intervals, openIntervals, TypeOK
<1>2. PICK q \in Int : /\ f + Modulus * q >= ins - N
                       /\ intervals >= q + positive
  BY DEF NeverBehind, GoesRound
<1>3. ASSUME NEW p \in Int, f' + Modulus * p >= ins' - N, intervals' >= p + positive'
      PROVE  NeverBehind'
  BY <1>3 DEF NeverBehind, GoesRound
<1>4. positive = (IF f > 0 THEN 1 ELSE 0) /\ positive' = (IF f' > 0 THEN 1 ELSE 0)
  BY DEF positive
<1>5. CASE resetDispatchState
  <2>1. f' = 0 /\ intervals' = intervals
    BY <1>5 DEF resetDispatchState, TypeOK, intervals, openIntervals, count, at
  <2>2. f' + Modulus * 0 >= ins' - N
    BY <1>1, <2>1
  <2>3. intervals' >= 0 + positive'
    BY <1>1, <1>4, <2>1, NoIntervalIsMissing
  <2> QED BY <1>3, <2>2, <2>3
<1>6. ASSUME NEW w \in Workers, enter(w)
      PROVE  NeverBehind'
  <2>1. f' = (f + 1) % Modulus /\ ins' = ins + 1
        /\ intervals' = intervals + (IF f = 0 THEN 1 ELSE 0)
    BY <1>6, EnterEffects
  <2> HIDE DEF f, ins, N
  <2>2. CASE f < Modulus - 1
    <3>1. f' = f + 1
      BY <1>1, <2>1, <2>2
    <3>2. f' + Modulus * q >= ins' - N
      BY <1>1, <1>2, <2>1, <3>1
    <3>3. intervals' >= q + positive'
      BY <1>1, <1>2, <1>4, <2>1, <3>1
    <3> QED BY <1>3, <3>2, <3>3
  <2>3. CASE f = Modulus - 1
    <3>1. f' = 0 /\ Modulus >= 2
      BY <1>1, <2>1, <2>3
    <3>2. Modulus * (q + 1) = Modulus * q + Modulus
      BY <1>1
    <3>3. f' + Modulus * (q + 1) >= ins' - N
      BY <1>1, <1>2, <2>1, <2>3, <3>1, <3>2
    <3>4. intervals' >= (q + 1) + positive'
      BY <1>1, <1>2, <1>4, <2>1, <2>3, <3>1
    <3> QED BY <1>3, <3>3, <3>4
  <2> QED BY <1>1, <2>2, <2>3
<1>7. ASSUME NEW w \in Workers, leave(w)
      PROVE  NeverBehind'
  <2>1. f' = (f + Modulus - 1) % Modulus /\ ins' = ins - 1
        /\ intervals' = intervals - (IF f = 1 THEN 1 ELSE 0)
    BY <1>7, LeaveEffects
  <2> HIDE DEF f, ins, N
  <2>2. CASE f > 0
    <3>1. f' = f - 1
      BY <1>1, <2>1, <2>2
    <3>2. f' + Modulus * q >= ins' - N
      BY <1>1, <1>2, <2>1, <3>1
    <3>3. intervals' >= q + positive'
      BY <1>1, <1>2, <1>4, <2>1, <2>2, <3>1
    <3> QED BY <1>3, <3>2, <3>3
  <2>3. CASE f = 0
    <3>1. f' = Modulus - 1 /\ Modulus >= 2
      BY <1>1, <2>1, <2>3
    <3>2. Modulus * (q - 1) = Modulus * q - Modulus
      BY <1>1
    <3>3. f' + Modulus * (q - 1) >= ins' - N
      BY <1>1, <1>2, <2>1, <2>3, <3>1, <3>2
    <3>4. intervals' >= (q - 1) + positive'
      BY <1>1, <1>2, <1>4, <2>1, <2>3, <3>1
    <3> QED BY <1>3, <3>3, <3>4
  <2> QED BY <1>1, <2>2, <2>3
<1>8. ASSUME NEW w \in Workers, throw(w)
      PROVE  NeverBehind'
  <2>1. f' = f /\ ins' = ins - 1 /\ intervals' = intervals
    BY <1>8, ThrowEffects
  <2>2. f' + Modulus * q >= ins' - N
    BY <1>1, <1>2, <2>1
  <2> QED BY <1>2, <1>3, <1>4, <2>1, <2>2
<1>9. CASE Steady
  BY <1>2, <1>3, <1>4, <1>9 DEF Steady
<1> QED BY <1>5, <1>6, <1>7, <1>8, <1>9, OtherEffects

-----------------------------------------------------------------------------
(* What a dispatch that finds nobody in the phase brings. *)

\* A task that opens an interval finds nobody in the phase.
LEMMA NextOneOpener ==
    ASSUME TypeOK, Next, OneOpener,
           \A w \in Workers : enter(w) /\ state.in_flight_count = 0 => count(Insiders) = 0
    PROVE  OneOpener'
<1>1. ASSUME at(pc', Openers) \subseteq at(pc, Openers)
      PROVE  OneOpener'
  BY <1>1 DEF OneOpener, at
<1>2. CASE UNCHANGED pc
  BY <1>1, <1>2 DEF at
<1>3. ASSUME NEW w \in Workers, NEW from, NEW to, step(w, from, to), to \in Openers => from \in Openers
      PROVE  OneOpener'
  BY <1>1, <1>3 DEF at, step, TypeOK
<1>4. CASE resetDispatchState \/ begin \/ nextRun
  BY <1>2, <1>4 DEF resetDispatchState, begin, nextRun
<1>5. ASSUME NEW w \in Workers, handleTaskEvent(w)
      PROVE  OneOpener'
  <2> USE DEF Openers
  <2>1. CASE canceled(w)
    BY <1>2, <2>1 DEF canceled
  <2>2. CASE enter(w)
    <3>1. CASE state.in_flight_count = 0
      <4>1. \A v \in Workers : pc[v] \notin Openers
        BY <2>2, <3>1, CountFacts DEF count, Insiders
      <4>2. \A v \in Workers : v # w => pc'[v] = pc[v]
        BY <2>2 DEF enter, step, TypeOK
      <4> QED BY <4>1, <4>2 DEF OneOpener, at
    <3>2. CASE state.in_flight_count # 0
      BY <1>3, <2>2, <3>2 DEF enter
    <3> QED BY <3>1, <3>2
  <2>3. CASE readClock(w)
    BY <1>3, <2>3 DEF readClock
  <2>4. CASE leave(w)
    BY <1>3, <2>4 DEF leave
  <2>5. CASE started(w) \/ open(w) \/ storeBegin(w)
    BY <1>3, <2>5 DEF started, open, storeBegin
  <2>6. CASE throw(w) \/ finished(w) \/ close(w) \/ storeEnd(w)
    BY <1>3, <2>6 DEF throw, finished, close, storeEnd
  <2> QED BY <1>5, <2>1, <2>2, <2>3, <2>4, <2>5, <2>6 DEF handleTaskEvent
<1> QED BY <1>4, <1>5 DEF Next

\* From a dispatch that finds nobody in the phase on, the counters are exact.
LEMMA ResetExact ==
    ASSUME TypeOK, resetDispatchState, quiescent
    PROVE  /\ state'.in_flight_count = 0 /\ count(Insiders)' = 0 /\ count({"entering"})' = 0
           /\ intervals' = open_before' /\ OneOpener' /\ quiescent'
<1>1. pc' = pc /\ openIntervals' = openIntervals /\ open_before' = openIntervals
      /\ state'.in_flight_count = 0
  BY DEF resetDispatchState, openIntervals, TypeOK
<1>2. \A S : count(S)' = count(S)
  BY <1>1 DEF count, at
<1>3. count(Insiders) = 0 /\ count({"opening"}) = 0 /\ count({"closing"}) = 0
      /\ count({"entering"}) = 0
  BY QuiescentCounts DEF Insiders, Openers
<1>4. OneOpener'
  BY <1>1 DEF OneOpener, at, quiescent, Openers
<1> QED BY <1>1, <1>2, <1>3, <1>4 DEF intervals, quiescent, openIntervals, TypeOK

LEMMA NextExact ==
    ASSUME TypeOK, Exact, Next
    PROVE  Exact'
<1> SUFFICES ASSUME exact'
             PROVE  /\ state'.in_flight_count = count(Insiders)'
                    /\ intervals' = open_before' + positive'
                    /\ OneOpener'
  BY DEF Exact
<1>1. CASE resetDispatchState
  <2>1. quiescent
    BY <1>1 DEF resetDispatchState
  <2>2. positive' = 0 /\ open_before' \in Int
    BY <1>1, <2>1, ResetExact, NextTypeOK DEF positive, TypeOK
  <2>3. \A x \in Int : x + 0 = x
    OBVIOUS
  <2>4. /\ state'.in_flight_count = 0 /\ count(Insiders)' = 0
        /\ intervals' = open_before' /\ OneOpener'
    BY <1>1, <2>1, ResetExact
  <2> QED BY <2>2, <2>3, <2>4, Zenon
<1>2. CASE ~resetDispatchState
  <2> DEFINE f == state.in_flight_count
             ins == count(Insiders)
  <2>1. \A w \in Workers : ~throw(w)
    BY DEF throw
  <2>2. /\ intervals \in Int /\ open_before \in Int /\ ins \in Nat /\ ins' \in Nat
        /\ ins' < Modulus /\ Modulus \in Nat /\ f \in 0 .. Modulus - 1
    BY CountsAreNat, Constants DEF intervals, openIntervals, TypeOK
  <2>3. positive = (IF f > 0 THEN 1 ELSE 0) /\ positive' = (IF f' > 0 THEN 1 ELSE 0)
    BY DEF positive
  <2>4. exact /\ open_before' = open_before
    <3>1. ASSUME NEW w \in Workers, enter(w) \/ leave(w)
          PROVE  exact /\ open_before' = open_before
      BY <3>1 DEF enter, leave, untimed, history
    <3> QED BY <1>2, <2>1, <3>1, OtherEffects
  <2>5. f = ins /\ intervals = open_before + positive /\ OneOpener
    BY <2>4 DEF Exact
  <2>6. OneOpener'
    BY <2>5, NextOneOpener
  <2>7. ASSUME NEW w \in Workers, enter(w)
        PROVE  f' = ins' /\ intervals' = open_before' + positive'
    <3>1. f' = (f + 1) % Modulus /\ ins' = ins + 1
          /\ intervals' = intervals + (IF f = 0 THEN 1 ELSE 0)
      BY <2>7, EnterEffects
    <3> HIDE DEF f, ins
    <3>2. f' = f + 1
      BY <2>2, <2>5, <3>1
    <3> QED BY <2>2, <2>3, <2>4, <2>5, <3>1, <3>2
  <2>8. ASSUME NEW w \in Workers, leave(w)
        PROVE  f' = ins' /\ intervals' = open_before' + positive'
    <3>1. f' = (f + Modulus - 1) % Modulus /\ ins' = ins - 1
          /\ intervals' = intervals - (IF f = 1 THEN 1 ELSE 0)
      BY <2>8, LeaveEffects
    <3> HIDE DEF f, ins
    <3>2. f' = f - 1
      BY <2>2, <2>5, <3>1
    <3> QED BY <2>2, <2>3, <2>4, <2>5, <3>1, <3>2
  <2>9. CASE Steady
    BY <2>3, <2>4, <2>5, <2>6, <2>9 DEF Steady
  <2> QED BY <1>2, <2>1, <2>6, <2>7, <2>8, <2>9, OtherEffects
<1> QED BY <1>1, <1>2

-----------------------------------------------------------------------------
(* What a dispatch that finds no run under way brings. *)

\* A worker that is in the middle of a report is of the run that the latest
\* dispatch brought.
LEMMA BusyRun ==
    ASSUME OneRun, TypeOK, ~quiescent
    PROVE  ~beginning /\ queued = 0
BY DEF OneRun, TypeOK

LEMMA NextBounded ==
    ASSUME TypeOK, Exact, Next, ~resetDispatchState, Bounded, OneRun
    PROVE  Bounded'
<1> DEFINE N == Cardinality(Workers)
           f == state.in_flight_count
           ins == count(Insiders)
           ent == count({"entering"})
<1>1. /\ ins \in Nat /\ ins' \in Nat /\ ent \in Nat /\ ent' \in Nat
      /\ N \in Nat /\ N < Modulus /\ Modulus \in Nat /\ f \in 0 .. Modulus - 1
  BY CountsAreNat, Constants DEF TypeOK
<1>2. ins <= f /\ f + ent <= N /\ OneOpener
  BY DEF Bounded
<1>3. OneOpener'
  BY <1>1, <1>2, NextOneOpener
<1>4. SUFFICES ins' <= f' /\ f' + ent' <= N
  BY <1>3 DEF Bounded
<1>5. ASSUME NEW w \in Workers, enter(w)
      PROVE  ins' <= f' /\ f' + ent' <= N
  <2>1. f' = (f + 1) % Modulus /\ ins' = ins + 1 /\ ent' = ent - 1
    BY <1>5, EnterEffects
  <2> HIDE DEF f, ins, ent, N
  <2>2. f' = f + 1
    BY <1>1, <1>2, <2>1
  <2> QED BY <1>1, <1>2, <2>1, <2>2
<1>6. ASSUME NEW w \in Workers, leave(w)
      PROVE  ins' <= f' /\ f' + ent' <= N
  <2>1. f' = (f + Modulus - 1) % Modulus /\ ins' = ins - 1 /\ ent' = ent
    BY <1>6, LeaveEffects
  <2> HIDE DEF f, ins, ent, N
  <2>2. f' = f - 1
    BY <1>1, <1>2, <2>1
  <2> QED BY <1>1, <1>2, <2>1, <2>2
<1>7. ASSUME NEW w \in Workers, throw(w)
      PROVE  ins' <= f' /\ f' + ent' <= N
  <2>1. f' = f /\ ins' = ins - 1 /\ ent' = ent
    BY <1>7, ThrowEffects
  <2> QED BY <1>1, <1>2, <2>1
<1>8. ASSUME NEW w \in Workers, started(w)
      PROVE  ins' <= f' /\ f' + ent' <= N
  <2>1. f' = f /\ ins' = ins
    <3>1. \A v \in Workers : ~enter(v) /\ ~leave(v) /\ ~throw(v)
      BY <1>8 DEF started, enter, leave, throw, step, TypeOK
    <3> QED BY <3>1, OtherEffects DEF Steady
  <2>2. f = ins
    <3>1. exact
      BY <1>8 DEF started, OneRun, TypeOK
    <3> QED BY <3>1 DEF Exact
  <2>3. ins' + ent' <= N
    <3>1. Cardinality(at(pc', Insiders \cup {"entering"}))
             = Cardinality(at(pc', Insiders)) + Cardinality(at(pc', {"entering"}))
      BY CountUnion DEF Insiders, Openers
    <3>2. Cardinality(at(pc', Insiders \cup {"entering"})) <= N
      BY CountFacts
    <3> QED BY <3>1, <3>2 DEF count, at
  <2> QED BY <1>1, <2>1, <2>2, <2>3
<1>9. CASE \A w \in Workers : ~enter(w) /\ ~leave(w) /\ ~throw(w) /\ ~started(w)
  <2>1. f' = f /\ ins' = ins
    BY <1>9, OtherEffects DEF Steady
  <2>2. ent' = ent
    <3>1. CASE UNCHANGED pc
      BY <3>1 DEF count, at
    <3>2. ASSUME NEW w \in Workers, handleTaskEvent(w), ~canceled(w)
          PROVE  ent' = ent
      BY <1>1, <1>9, <3>2, StepCounts
         DEF handleTaskEvent, open, storeBegin, readClock, finished, close, storeEnd, Counts, TypeOK
    <3> QED BY <3>1, <3>2 DEF Next, begin, nextRun, canceled
  <2> QED BY <1>1, <1>2, <2>1, <2>2
<1> QED BY <1>5, <1>6, <1>7, <1>8, <1>9

LEMMA NextOneRun ==
    ASSUME TypeOK, Next, ~resetDispatchState, OneRun
    PROVE  OneRun'
<1>1. CASE begin
  BY <1>1 DEF begin, history, OneRun, TypeOK, quiescent
<1>2. CASE nextRun
  BY <1>2 DEF nextRun, history, OneRun, TypeOK
<1>3. ASSUME NEW w \in Workers, handleTaskEvent(w)
      PROVE  OneRun'
  <2>1. CASE canceled(w) \/ started(w)
    <3>1. tasks > 0 /\ exact /\ ~beginning /\ queued = 0
      BY <2>1 DEF canceled, started, OneRun, TypeOK
    <3>2. UNCHANGED calls /\ UNCHANGED history
      BY <2>1 DEF canceled, started
    <3> QED BY <3>1, <3>2 DEF OneRun, calls, history
  <2>2. CASE ~canceled(w) /\ ~started(w)
    <3>1. ~quiescent
      BY <1>3, <2>2 DEF quiescent, handleTaskEvent, enter, open, storeBegin, readClock, throw,
                        finished, leave, close, storeEnd, step
    <3>2. ~beginning /\ queued = 0
      BY <3>1, BusyRun
    <3>3. UNCHANGED calls /\ (tasks' = 0 \/ (tasks' = tasks /\ exact' = exact))
      BY <1>3, <2>2 DEF handleTaskEvent, enter, open, storeBegin, readClock, throw,
                        finished, leave, close, storeEnd, untimed, history
    <3> QED BY <3>2, <3>3 DEF OneRun, calls
  <2> QED BY <2>1, <2>2
<1> QED BY <1>1, <1>2, <1>3 DEF Next

LEMMA NextOffsets ==
    ASSUME TypeOK, Next, ~resetDispatchState, OneRun, Bounded, Offsets
    PROVE  Offsets'
<1> USE DEF TypeOK
<1>1. ASSUME UNCHANGED state, UNCHANGED offset, UNCHANGED clock,
             at(pc', {"storingBegin"}) \subseteq at(pc, {"storingBegin"})
      PROVE  Offsets'
  BY <1>1 DEF Offsets
<1>2. CASE begin
  <2>1. quiescent /\ state.last_begin_offset = 0
    BY <1>2 DEF begin, OneRun
  <2>2. at(pc', {"storingBegin"}) = {} /\ clock' = 0 /\ state' = state
    BY <1>2, <2>1 DEF begin, at, quiescent
  <2> QED BY <2>1, <2>2 DEF Offsets
<1>3. CASE nextRun
  BY <1>1, <1>3 DEF nextRun, at
<1>4. ASSUME NEW w \in Workers, handleTaskEvent(w)
      PROVE  Offsets'
  <2> USE DEF untimed, step
  <2>1. CASE storeBegin(w)
    <3>1. w \in at(pc, {"storingBegin"}) /\ \A v \in Workers : v # w => pc'[v] = pc[v]
      BY <2>1 DEF storeBegin, at
    <3>2. pc'[w] = "body"
      BY <2>1 DEF storeBegin
    <3>3. at(pc', {"storingBegin"}) = {}
      BY <3>1, <3>2 DEF Bounded, OneOpener, at, Openers
    <3>4. state'.last_begin_offset = offset[w] /\ clock' = clock
      BY <2>1 DEF storeBegin
    <3>5. offset[w] <= clock
      BY <3>1 DEF Offsets
    <3> QED BY <3>3, <3>4, <3>5 DEF Offsets
  <2>2. CASE readClock(w)
    <3>1. /\ state' = state /\ clock' = clock + 1
          /\ \A v \in Workers : offset'[v] = IF v = w THEN clock + 1 ELSE offset[v]
          /\ \A v \in Workers : v # w => pc'[v] = pc[v]
      BY <2>2 DEF readClock
    <3>2. ASSUME NEW v \in at(pc', {"storingBegin"})
          PROVE  state'.last_begin_offset <= offset'[v] /\ offset'[v] <= clock'
      BY <3>1, <3>2 DEF Offsets, at
    <3> QED BY <3>1, <3>2 DEF Offsets
  <2>3. ASSUME state'.last_begin_offset = state.last_begin_offset, clock' = clock,
               \A v \in at(pc', {"storingBegin"}) :
                  v \in at(pc, {"storingBegin"}) /\ offset'[v] = offset[v]
        PROVE  Offsets'
    BY <2>3 DEF Offsets
  <2>4. CASE canceled(w)
    BY <2>3, <2>4 DEF canceled, at
  <2>5. CASE started(w)
    BY <2>3, <2>5 DEF started, at
  <2>6. CASE enter(w)
    BY <2>3, <2>6 DEF enter, at
  <2>7. CASE open(w)
    BY <2>3, <2>7 DEF open, at
  <2>8. CASE throw(w)
    BY <2>3, <2>8 DEF throw, at
  <2>9. CASE finished(w)
    BY <2>3, <2>9 DEF finished, at
  <2>10. CASE leave(w)
    BY <2>3, <2>10 DEF leave, at
  <2>11. CASE close(w)
    BY <2>3, <2>11 DEF close, at
  <2>12. CASE storeEnd(w)
    BY <2>3, <2>12 DEF storeEnd, at
  <2> QED BY <1>4, <2>1, <2>2, <2>4, <2>5, <2>6, <2>7, <2>8, <2>9, <2>10, <2>11, <2>12
          DEF handleTaskEvent
<1> QED BY <1>2, <1>3, <1>4 DEF Next

LEMMA NextApart ==
    ASSUME TypeOK, Exact, Apart, Next
    PROVE  Apart'
<1> SUFFICES ASSUME apart'
             PROVE  Bounded' /\ OneRun' /\ Offsets'
  BY DEF Apart
<1>1. CASE resetDispatchState
  <2>1. quiescent /\ tasks = 0 /\ queued = 0
    BY <1>1 DEF resetDispatchState
  <2>2. /\ state'.in_flight_count = 0 /\ count(Insiders)' = 0 /\ count({"entering"})' = 0
        /\ OneOpener' /\ quiescent'
    BY <1>1, <2>1, ResetExact
  <2>3. tasks' = 0 /\ queued' = 0 /\ (exact' <=> quiescent) /\ clock' = 0
        /\ state'.last_begin_offset = 0 /\ pc' = pc
    BY <1>1, <2>1 DEF resetDispatchState, TypeOK
  <2>4. Bounded'
    BY <2>2, Constants DEF Bounded
  <2>5. OneRun'
    BY <2>1, <2>2, <2>3 DEF OneRun
  <2>6. Offsets'
    BY <2>1, <2>3 DEF Offsets, at, quiescent
  <2> QED BY <2>4, <2>5, <2>6
<1>2. CASE ~resetDispatchState
  <2>1. apart
    BY <1>2 DEF Next, begin, nextRun, handleTaskEvent, canceled, started, enter, open, storeBegin,
                readClock, throw, finished, leave, close, storeEnd, untimed, history
  <2>2. Bounded /\ OneRun /\ Offsets
    BY <2>1 DEF Apart
  <2> QED BY <1>2, <2>2, NextBounded, NextOneRun, NextOffsets
<1> QED BY <1>1, <1>2

-----------------------------------------------------------------------------

LEMMA CountersInvHolds == Spec => []CountersInv
<1>1. Init => CountersInv
  BY InitInv
<1>2. CountersInv /\ [Next]_vars => CountersInv'
  <2>1. ASSUME CountersInv, Next
        PROVE  CountersInv'
    BY <2>1, NextTypeOK, NextAccount, NextNeverBehind, NextExact, NextApart DEF CountersInv
  <2>2. ASSUME CountersInv, UNCHANGED vars
        PROVE  CountersInv'
    <3>1. TypeOK' /\ Account'
      BY <2>2 DEF vars, calls, history, CountersInv, TypeOK, Account, runsBegun, count, at
    <3>2. intervals' = intervals /\ positive' = positive /\ count(Insiders)' = count(Insiders)
          /\ count({"entering"})' = count({"entering"}) /\ (OneOpener' <=> OneOpener)
      BY <2>2 DEF vars, intervals, openIntervals, positive, count, at, OneOpener
    <3>3. NeverBehind' /\ Exact'
      BY <2>2, <3>2 DEF vars, calls, history, CountersInv, NeverBehind, GoesRound, Exact
    <3>4. Apart'
      BY <2>2, <3>2 DEF vars, calls, history, CountersInv, Apart, Bounded, OneRun, Offsets,
                        quiescent, at
    <3> QED BY <3>1, <3>3, <3>4 DEF CountersInv
  <2> QED BY <2>1, <2>2
<1> QED BY <1>1, <1>2, PTL DEF Spec

\* With nobody in the phase no interval is half reported.
LEMMA QuiescentIntervals ==
    ASSUME TypeOK, quiescent
    PROVE  intervals = openIntervals /\ openIntervals \in Int
<1>1. count({"opening"}) = 0 /\ count({"closing"}) = 0
  BY QuiescentCounts
<1> QED BY <1>1 DEF intervals, openIntervals, TypeOK

(***************************************************************************)
(* From a dispatch that finds nobody in the phase until a body throws, the *)
(* number in flight is the number of tasks between their two changes of    *)
(* it: handleTaskEvent's fetch_add and fetch_sub never lose a task, for    *)
(* any number of workers.                                                  *)
(***************************************************************************)
THEOREM InFlightIsExact == Spec => []InFlightExact
<1>1. CountersInv => InFlightExact
  <2>1. count(Insiders) = Cardinality(inside)
    BY DEF count, at, Insiders, Openers, inside
  <2> QED BY <2>1 DEF CountersInv, Exact, InFlightExact
<1> QED BY <1>1, CountersInvHolds, PTL

(***************************************************************************)
(* No end of an interval is counted before its begin, wherever the workers *)
(* are between their accesses; and when they are idle no end is without    *)
(* its begin, even if dispatches took place in the middle of runs, so that *)
(* the number in flight went round below zero.                             *)
(***************************************************************************)
THEOREM EndsFollow == Spec => []EndsFollowBegins
<1>1. CountersInv => EndsFollowBegins
  <2> SUFFICES ASSUME CountersInv
               PROVE  EndsFollowBegins
    OBVIOUS
  <2>1. ASSUME exact
        PROVE  openIntervals >= open_before
    <3> DEFINE o == count({"opening"})
               c == count({"closing"})
               ins == count(Insiders)
    <3>1. /\ intervals = open_before + positive /\ state.in_flight_count = ins
          /\ openIntervals \in Int /\ open_before \in Int
      BY <2>1 DEF CountersInv, Exact, TypeOK, openIntervals
    <3>2. o <= 1
      <4>1. at(pc, {"opening"}) = {} \/ \E w \in Workers : at(pc, {"opening"}) = {w}
        BY <2>1 DEF CountersInv, Exact, OneOpener, at, Openers
      <4>2. Cardinality({}) = 0 /\ \A w \in Workers : Cardinality({w}) = 1
        BY FS_EmptySet, FS_Singleton
      <4>3. Cardinality(at(pc, {"opening"})) \in {0, 1}
        BY <4>1, <4>2
      <4> QED BY <4>3 DEF count
    <3>3. o = 0 \/ ins > 0
      BY CountFacts, CountsAreNat DEF count, Insiders, Openers
    <3>4. o \in Nat /\ c \in Nat /\ ins \in Nat
      BY CountsAreNat
    <3>5. intervals = openIntervals + o - c
      BY DEF intervals
    <3>6. positive = IF ins > 0 THEN 1 ELSE 0
      BY <3>1 DEF positive
    <3> HIDE DEF o, c, ins
    <3> QED BY <3>1, <3>2, <3>3, <3>4, <3>5, <3>6
  <2>2. ASSUME quiescent
        PROVE  openIntervals >= 0
    BY <2>2, NoIntervalIsMissing, QuiescentIntervals DEF CountersInv
  <2> QED BY <2>1, <2>2 DEF EndsFollowBegins
<1> QED BY <1>1, CountersInvHolds, PTL

(***************************************************************************)
(* When the workers are idle every interval opened since an undisturbed    *)
(* dispatch is closed, and every task of every dispatch was finished,      *)
(* canceled, thrown, dropped or is still to come.                          *)
(***************************************************************************)
THEOREM IdleBalance == Spec => []QuiescentBalance
<1>1. CountersInv => QuiescentBalance
  <2> SUFFICES ASSUME CountersInv, quiescent
               PROVE  /\ exact => openIntervals = open_before
                      /\ state.started_count = state.finished_count + lost.thrown
                      /\ state.started_count + state.canceled_count + lost.dropped + tasks
                            = (dispatches - queued - (IF beginning THEN 1 ELSE 0)) * MaxTasks
    BY DEF QuiescentBalance
  <2>1. count(Busy) = 0 /\ count(Insiders) = 0
    BY QuiescentCounts DEF Busy, Insiders, Openers
  <2>2. ASSUME exact
        PROVE  openIntervals = open_before
    <3>1. intervals = open_before + positive /\ positive = 0 /\ open_before \in Int
      BY <2>1, <2>2 DEF CountersInv, Exact, TypeOK, positive
    <3>2. open_before + 0 = open_before
      BY <3>1
    <3>3. intervals = openIntervals
      BY QuiescentIntervals DEF CountersInv
    <3> QED BY <3>1, <3>2, <3>3, Zenon
  <2>3. state.started_count = state.finished_count + lost.thrown
    BY <2>1 DEF CountersInv, Account, TypeOK
  <2>4. state.started_count + state.canceled_count + lost.dropped + tasks
           = (dispatches - queued - (IF beginning THEN 1 ELSE 0)) * MaxTasks
    BY DEF CountersInv, Account, runsBegun
  <2> QED BY <2>2, <2>3, <2>4
<1> QED BY <1>1, CountersInvHolds, PTL

(***************************************************************************)
(* While the run under way was dispatched after the one before was over, a *)
(* worker that is slow to store the begin of an interval never overwrites  *)
(* the begin of a later one: last_begin_offset_ns does not go back.        *)
(***************************************************************************)
THEOREM BeginsAdvance == Spec => BeginOffsetsAdvance
<1>1. CountersInv /\ [Next]_vars =>
         [dispatches' = dispatches /\ apart =>
             state'.last_begin_offset >= state.last_begin_offset]_vars
  <2> SUFFICES ASSUME CountersInv, Next, dispatches' = dispatches, apart
               PROVE  state'.last_begin_offset >= state.last_begin_offset
    BY DEF CountersInv
  <2>1. TypeOK /\ Offsets
    BY DEF CountersInv, Apart
  <2>2. CASE \E w \in Workers : storeBegin(w)
    BY <2>1, <2>2 DEF storeBegin, step, Offsets, at, TypeOK
  <2>3. CASE \A w \in Workers : ~storeBegin(w)
    <3>1. state'.last_begin_offset = state.last_begin_offset
      <4>1. CASE resetDispatchState
        BY <2>1, <4>1 DEF resetDispatchState, TypeOK
      <4>2. CASE begin \/ nextRun
        BY <4>2 DEF begin, nextRun
      <4>3. ASSUME NEW w \in Workers, handleTaskEvent(w)
            PROVE  state'.last_begin_offset = state.last_begin_offset
        BY <2>1, <2>3, <4>3 DEF handleTaskEvent, canceled, started, enter, open, readClock, throw,
                                finished, leave, close, storeEnd, TypeOK
      <4> QED BY <4>1, <4>2, <4>3 DEF Next
    <3> QED BY <2>1, <3>1 DEF TypeOK
  <2> QED BY <2>2, <2>3
<1> QED BY <1>1, CountersInvHolds, PTL DEF Spec, BeginOffsetsAdvance
=============================================================================
