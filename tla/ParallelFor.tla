---------------------------- MODULE ParallelFor ----------------------------
(***************************************************************************)
(* One dispatch of parallelFor over an unsigned or a signed index type, up *)
(* or, if signed, down.  The range is cut into batches of batch_size       *)
(* indices; Taskflow's for_each_index hands the first index of each batch  *)
(* to a worker, and the batched invoker calls the function index by index, *)
(* looking at the cancel token before each.  With batches of one index it  *)
(* looks once for each.  The loop may be a task of a plan or a child of a  *)
(* dynamic task.                                                           *)
(***************************************************************************)
EXTENDS Integers, FiniteSets

CONSTANTS
    Workers,      \* worker threads
    IndexRange,   \* how many values the index type has, signed or unsigned
    WideRange,    \* and the type its arithmetic is done in, after promotion
    MaxBound,     \* bounds: the largest first and last index of unsigned
    MaxSigned,    \* loops, and of signed loops on either side of 0
    StepValues,   \* sizes of the steps callers pass, 0 included
    BatchSizes    \* and their grain sizes

ASSUME ParallelForAssumption ==
    /\ IsFiniteSet(Workers)
    /\ IndexRange \in Nat \ {0} /\ IndexRange % 2 = 0
    /\ WideRange \in Nat /\ WideRange >= IndexRange
    /\ MaxBound \in Nat /\ MaxBound < IndexRange
    /\ MaxSigned \in Nat /\ MaxSigned < IndexRange \div 2
    /\ StepValues \subseteq 0 .. (IndexRange \div 2) - 1
    /\ BatchSizes \subseteq Nat \ {0}

VARIABLES
    loop,            \* the arguments; whether the task observes a token
    unclaimed,       \* batches no worker has taken
    working,         \* what each worker is at
    calls,           \* how often the function was called for each index
    stop_requested,
    late,            \* history: calls begun after the stop
    complete

vars == <<loop, unclaimed, working, calls, stop_requested, late, complete>>

\* static_cast<Index> of a result, to the type of the loop.
Half == IndexRange \div 2
asIndex(l, x) == IF l.signed THEN ((x + Half) % IndexRange) - Half ELSE x % IndexRange
wide(x)       == x % WideRange
asUnsigned(x) == x % IndexRange
size(x)       == IF x < 0 THEN -x ELSE x
Idle          == [pc |-> "idle", index |-> 0, left |-> 0]

\* Mutant: batches begin one step apart.
StrideOfOneStep(l) == l.step

\* A loop with a grain of one index has an invoker of its own, in a plan and in
\* a DynamicContext alike.
batched(l) == l.batch_size > 1

\* makeParallelForBatchStride; a batch of one index takes the step itself.
makeParallelForBatchStride(l) ==
    IF batched(l) THEN asIndex(l, l.step * asIndex(l, l.batch_size)) ELSE l.step

\* Index last lies ahead of index i, in the direction of the step; a step of 0
\* leads nowhere.
ahead(i, last, step) == IF step > 0 THEN i < last ELSE step < 0 /\ i > last

\* Taskflow: the number of indices of a range, 0 for a range it takes as invalid.
distance(first, last, increment) ==
    IF ~ahead(first, last, increment) THEN 0
    ELSE wide(size(last - first) + size(increment) - 1) \div size(increment)

\* Mutant: rounds the last batch down.
SpanRoundedDown(l, batch_first) ==
    LET remaining == wide(asUnsigned(size(l.last - batch_first))) \div size(l.step)
    IN  IF ~ahead(batch_first, l.last, l.step) THEN 0
        ELSE IF remaining < l.batch_size THEN remaining ELSE l.batch_size

\* The three ways of parallelForBatchSpan: unsigned, signed up, signed down.
parallelForBatchSpan(l, batch_first) ==
    LET span(remaining, step_value) ==
            LET n == wide(remaining + (step_value - 1)) \div step_value
            IN  IF n < l.batch_size THEN n ELSE l.batch_size
    IN  IF ~ahead(batch_first, l.last, l.step) THEN 0
        ELSE IF ~l.signed THEN span(wide(l.last - batch_first), l.step)
        ELSE IF l.step > 0 THEN span(asUnsigned(l.last - batch_first), asUnsigned(l.step))
        ELSE span(asUnsigned(batch_first - l.last), asUnsigned(-l.step))

\* Mutant: skips every other index.
AdvanceTwice(l, index) == asIndex(l, index + 2 * l.step)

advanceParallelForIndex(l, index) == asIndex(l, index + l.step)

\* Of the loops with a step of 0, those between equal bounds are left out:
\* Taskflow decides what becomes of them.
Loops ==
    LET range(bounds, steps, signed) ==
            [first : bounds, last : bounds, step : steps, batch_size : BatchSizes,
             signed : {signed}, observe_cancellation : BOOLEAN]
    IN  {l \in range(0 .. MaxBound, StepValues, FALSE)
                \cup range(-MaxSigned .. MaxSigned, StepValues \cup {-s : s \in StepValues}, TRUE) :
            l.step = 0 => l.first # l.last}

\* parallelFor and dispatch, for every loop.
Init ==
    /\ loop \in Loops
    /\ LET batches == distance(loop.first, loop.last, makeParallelForBatchStride(loop))
       IN  unclaimed = {k \in 0 .. WideRange - 1 : k < batches}
    /\ working = [w \in Workers |-> Idle]
    /\ calls = [i \in -Half .. IndexRange - 1 |-> 0]
    /\ stop_requested = FALSE
    /\ late = 0
    /\ complete = FALSE

requestStop ==
    /\ ~complete /\ ~stop_requested
    /\ stop_requested' = TRUE
    /\ UNCHANGED <<loop, unclaimed, working, calls, late, complete>>

canceled == loop.observe_cancellation /\ stop_requested

\* Where the two invokers are once they have looked at the token: before the
\* loop over the batch, and before the call of the one index.
indexInvoker(index) == [pc |-> "call", index |-> index, left |-> 1]

batchedInvoker(batch_first) ==
    [pc |-> "look", index |-> batch_first, left |-> parallelForBatchSpan(loop, batch_first)]

\* A worker takes the next batch it finds; a batch of a loop that is canceled
\* is over at once.
Claim(w, k) ==
    LET first == asIndex(loop, loop.first + k * makeParallelForBatchStride(loop))
    IN  /\ working[w] = Idle
        /\ unclaimed' = unclaimed \ {k}
        /\ working' = IF canceled THEN working
                      ELSE [working EXCEPT ![w] =
                              IF batched(loop) THEN batchedInvoker(first) ELSE indexInvoker(first)]
        /\ UNCHANGED <<loop, calls, stop_requested, late, complete>>

\* Mutant: the token is looked at once for a batch only.
LookOnce(w) ==
    /\ working[w].pc = "look"
    /\ working' = IF working[w].left = 0 THEN [working EXCEPT ![w] = Idle]
                  ELSE [working EXCEPT ![w].pc = "call"]
    /\ UNCHANGED <<loop, unclaimed, calls, stop_requested, late, complete>>

\* The head of the loop over a batch.
Look(w) ==
    /\ working[w].pc = "look"
    /\ working' = IF working[w].left = 0 \/ canceled THEN [working EXCEPT ![w] = Idle]
                  ELSE [working EXCEPT ![w].pc = "call"]
    /\ UNCHANGED <<loop, unclaimed, calls, stop_requested, late, complete>>

\* Its body.
Call(w) ==
    /\ working[w].pc = "call"
    /\ calls' = [calls EXCEPT ![working[w].index] = @ + 1]
    /\ late' = IF canceled THEN late + 1 ELSE late
    /\ working' = IF ~batched(loop) THEN [working EXCEPT ![w] = Idle]
                  ELSE [working EXCEPT ![w] =
                          [pc |-> "look", index |-> advanceParallelForIndex(loop, @.index),
                           left |-> @.left - 1]]
    /\ UNCHANGED <<loop, unclaimed, stop_requested, complete>>

\* The task ends when every batch is over.
Complete ==
    /\ ~complete
    /\ unclaimed = {} /\ \A w \in Workers : working[w] = Idle
    /\ complete' = TRUE
    /\ UNCHANGED <<loop, unclaimed, working, calls, stop_requested, late>>

Execute ==
    \/ Complete
    \/ \E w \in Workers : Look(w) \/ Call(w) \/ \E k \in unclaimed : Claim(w, k)

Next == requestStop \/ Execute

Spec == Init /\ [][Next]_vars

(***************************************************************************)
(* Loops whose stride, and the last index and the length plus the stride,  *)
(* the type can hold; and every loop whose range is empty.                 *)
(***************************************************************************)
WithinType(l) ==
    LET stride == l.step * l.batch_size
        type == IF l.signed THEN -Half .. Half - 1 ELSE 0 .. IndexRange - 1
    IN  \/ ~ahead(l.first, l.last, l.step)
        \/ {stride, l.last + stride, l.last - l.first + stride} \subseteq type

WithinTypeInit == Init /\ WithinType(loop)

WithinTypeSpec == WithinTypeInit /\ [][Next]_vars

-----------------------------------------------------------------------------

\* What the caller asked for.
position(i) == size(i - loop.first) \div size(loop.step)

Indices ==
    {i \in DOMAIN calls :
        /\ i = loop.first \/ ahead(loop.first, i, loop.step)
        /\ ahead(i, loop.last, loop.step)
        /\ size(i - loop.first) % size(loop.step) = 0}

called == {i \in DOMAIN calls : calls[i] > 0}

(***************************************************************************)
(* The batches partition the range: the function is called for indices of  *)
(* the range only, and for none of them twice, whatever the workers do.    *)
(***************************************************************************)
EachIndexOnce == called \subseteq Indices /\ \A i \in called : calls[i] = 1

(***************************************************************************)
(* A loop that was not canceled has called the function for every index    *)
(* of its range when it completes.                                         *)
(***************************************************************************)
AllIndicesCalled == complete /\ ~canceled => Indices \subseteq called

(***************************************************************************)
(* A stop cuts each batch at one place: the function is never called for   *)
(* an index whose predecessor in the batch was left out.  (Of the batches  *)
(* themselves any may be missing.)                                         *)
(***************************************************************************)
BatchesCutCleanly ==
    \A i \in called :
        position(i) % loop.batch_size # 0 => i - loop.step \in called

\* After the stop each worker calls the function at most once more, however
\* long its batch is.
StopTakesHold == late <= Cardinality(Workers)
=============================================================================
