------------------------- MODULE ParallelForProofs -------------------------
(***************************************************************************)
(* A parallelFor whose arithmetic stays within its index type calls its    *)
(* function once for every index of the range, for any width of the type,  *)
(* bounds, step, grain and number of workers.                              *)
(*                                                                         *)
(* Indices are reasoned about as positions: the number of steps from the   *)
(* first.  The lemmas on the arithmetic of the batches come first (where   *)
(* the stride, the bounds of a batch and the next index do not wrap), then *)
(* the invariant: every position is in one place, a batch no worker has    *)
(* taken, what is left of a worker's batch, or called.                     *)
(***************************************************************************)
EXTENDS ParallelFor, FiniteSetTheorems, TLAPS

LEMMA Times ==
    ASSUME NEW a \in Int, NEW b \in Int, NEW c \in Int
    PROVE  /\ a * b \in Int
           /\ a * b = b * a
           /\ (a + b) * c = a * c + b * c
           /\ (a - b) * c = a * c - b * c
           /\ (a * b) * c = a * (b * c)
           /\ (-a) * b = -(a * b) /\ a * (-b) = -(a * b)
           /\ 0 * a = 0 /\ 1 * a = a
BY SMT

LEMMA TimesGrows ==
    ASSUME NEW a \in Nat, NEW b \in Nat, NEW c \in Nat, a <= b
    PROVE  a * c \in Nat /\ a * c <= b * c
BY SMT

LEMMA TimesOrders ==
    ASSUME NEW a \in Nat, NEW b \in Nat, NEW c \in Nat, a * c < b * c
    PROVE  a < b
BY SMT

LEMMA Quotient ==
    ASSUME NEW a \in Nat, NEW b \in Nat \ {0}
    PROVE  /\ a \div b \in Nat
           /\ (a \div b) * b <= a
           /\ a < (a \div b) * b + b
           /\ a % b = a - (a \div b) * b
BY SMT

LEMMA QuotientIsUnique ==
    ASSUME NEW a \in Nat, NEW b \in Nat \ {0}, NEW q \in Nat,
           q * b <= a, a < q * b + b
    PROVE  a \div b = q
BY SMT

LEMMA Multiple ==
    ASSUME NEW q \in Nat, NEW b \in Nat \ {0}
    PROVE  (q * b) \div b = q /\ (q * b) % b = 0
<1> DEFINE a == q * b
<1>1. a \in Nat
  BY TimesGrows
<1>2. a \div b = q
  BY <1>1, QuotientIsUnique
<1> HIDE DEF a
<1>3. a % b = a - (a \div b) * b
  BY <1>1, Quotient
<1>4. a - q * b = 0
  BY <1>1 DEF a
<1> QED
  BY <1>2, <1>3, <1>4 DEF a

LEMMA RoundedUp ==
    ASSUME NEW d \in Nat, NEW b \in Nat \ {0}, NEW k \in Nat
    PROVE  /\ (d + b - 1) \div b \in Nat
           /\ k < (d + b - 1) \div b <=> k * b < d
BY SMT

-----------------------------------------------------------------------------

\* The positions of the range, counted from its first index in steps, and the
\* index at each.
s == size(loop.step)
B == loop.batch_size
length == size(loop.last - loop.first)
stride == makeParallelForBatchStride(loop)

Positions ==
    {m \in Nat : ahead(loop.first, loop.last, loop.step) /\ m * s < length}

at(m) == loop.first + m * loop.step

batchFirst(k) == asIndex(loop, loop.first + k * stride)
spanOf(k) == IF batched(loop) THEN parallelForBatchSpan(loop, batchFirst(k)) ELSE 1

\* Where each position is: in a batch no worker has taken, in what is left of a
\* worker's batch, or called.
Batch(k)  == {m \in Positions : m \div B = k}
Rest(w)   == {m \in Nat : /\ position(working[w].index) <= m
                          /\ m < position(working[w].index) + working[w].left}
Done      == {m \in Positions : calls[at(m)] > 0}

Index == -Half .. IndexRange - 1

TypeOK ==
    /\ loop \in Loops /\ WithinType(loop) /\ loop.step # 0
    /\ unclaimed \subseteq Nat
    /\ working \in [Workers -> [pc : {"idle", "look", "call"}, index : Int, left : Nat]]
    /\ calls \in [Index -> Nat]
    /\ stop_requested \in BOOLEAN
    /\ late \in Nat

Unclaimed ==
    \A k \in unclaimed : ahead(loop.first, loop.last, stride) /\ k * size(stride) < length

Working ==
    \A w \in Workers :
        /\ working[w].pc = "idle" => working[w] = Idle
        /\ working[w].pc = "look" => batched(loop)
        /\ working[w].pc = "call" => working[w].left > 0
        /\ ~batched(loop) => working[w].left <= 1
        /\ Rest(w) \subseteq Positions
        /\ working[w].left > 0 =>
              /\ working[w].index = at(position(working[w].index))
              /\ position(working[w].index) % B # 0 => position(working[w].index) - 1 \in Done

Disjoint ==
    /\ \A k \in unclaimed : Batch(k) \cap Done = {}
    /\ \A w \in Workers : Rest(w) \cap Done = {}
    /\ \A w \in Workers, k \in unclaimed : Rest(w) \cap Batch(k) = {}
    /\ \A v, w \in Workers : v # w => Rest(v) \cap Rest(w) = {}

Called ==
    /\ \A i \in called : calls[i] = 1 /\ \E m \in Positions : i = at(m)
    /\ \A m \in Done : m % B # 0 => m - 1 \in Done

Covered ==
    ~canceled => \A m \in Positions :
        \/ m \div B \in unclaimed
        \/ m \in Done
        \/ \E w \in Workers : m \in Rest(w)

Inv == TypeOK /\ Unclaimed /\ Working /\ Disjoint /\ Called /\ Covered
-----------------------------------------------------------------------------

LEMMA ModuloOfSmall ==
    ASSUME NEW r \in Nat \ {0}, NEW a \in Nat, a < r
    PROVE  a % r = a
BY SMT

LEMMA ModuloIsLess ==
    ASSUME NEW r \in Nat \ {0}, NEW a \in Nat
    PROVE  a % r \in Nat /\ a % r <= a
BY SMT

LEMMA Constants ==
    /\ IndexRange \in Nat \ {0} /\ Half \in Nat /\ IndexRange = 2 * Half
    /\ WideRange \in Nat \ {0} /\ WideRange >= IndexRange
BY ParallelForAssumption DEF ParallelForAssumption, Half

Type == IF loop.signed THEN -Half .. Half - 1 ELSE 0 .. IndexRange - 1

LEMMA LoopFacts ==
    ASSUME TypeOK
    PROVE  /\ loop.first \in Type /\ loop.last \in Type
           /\ loop.step \in Int
           /\ s \in Nat \ {0}
           /\ loop.step = s \/ (loop.step = -s /\ loop.signed)
           /\ B \in Nat \ {0}
           /\ loop.signed \in BOOLEAN /\ loop.observe_cancellation \in BOOLEAN
           /\ length \in Nat
<1>0. loop \in Loops /\ loop.step # 0
  BY DEF TypeOK
<1>1. loop \in Loops
  BY <1>0
<1>2. BatchSizes \subseteq Nat \ {0}
  BY ParallelForAssumption DEF ParallelForAssumption
<1>3. CASE ~loop.signed
  <2>1. loop \in [first : 0 .. MaxBound, last : 0 .. MaxBound, step : StepValues,
                  batch_size : BatchSizes, signed : {FALSE}, observe_cancellation : BOOLEAN]
    BY <1>1, <1>3 DEF Loops
  <2>2. MaxBound \in Nat /\ MaxBound < IndexRange /\ StepValues \subseteq Nat
    BY ParallelForAssumption DEF ParallelForAssumption
  <2>3. loop.first \in 0 .. MaxBound /\ loop.last \in 0 .. MaxBound
    BY <2>1
  <2>4. loop.step \in Nat
    BY <2>1, <2>2
  <2>5. loop.first \in Type /\ loop.last \in Type
    BY <2>2, <2>3, <1>3, Constants DEF Type
  <2>6. loop.observe_cancellation \in BOOLEAN /\ loop.signed \in BOOLEAN /\ loop.batch_size \in BatchSizes
    BY <2>1
  <2>7. loop.step \in Int /\ s \in Nat \ {0} /\ loop.step = s
    BY <2>4, <1>0 DEF s, size
  <2>8. length \in Nat
    BY <2>2, <2>3 DEF length, size
  <2> QED
    BY <2>5, <2>6, <2>7, <2>8, <1>2 DEF B
<1>4. CASE loop.signed
  <2>1. loop \in [first : -MaxSigned .. MaxSigned, last : -MaxSigned .. MaxSigned,
                  step : StepValues \cup {-n : n \in StepValues},
                  batch_size : BatchSizes, signed : {TRUE}, observe_cancellation : BOOLEAN]
    BY <1>1, <1>4 DEF Loops
  <2>2. MaxSigned < Half /\ StepValues \subseteq Nat
    BY ParallelForAssumption, Constants DEF ParallelForAssumption, Half
  <2>3. loop.first \in -MaxSigned .. MaxSigned /\ loop.last \in -MaxSigned .. MaxSigned
    BY <2>1
  <2>4. loop.step \in StepValues \cup {-n : n \in StepValues}
    BY <2>1
  <2>5. loop.step \in Nat \/ \E n \in Nat : loop.step = -n
    BY <2>2, <2>4
  <2>6. loop.first \in Type /\ loop.last \in Type /\ loop.first \in Int /\ loop.last \in Int
    BY <2>2, <2>3, <1>4, Constants, ParallelForAssumption DEF Type, ParallelForAssumption
  <2>7. loop.observe_cancellation \in BOOLEAN /\ loop.signed \in BOOLEAN /\ loop.batch_size \in BatchSizes
    BY <2>1
  <2>8. loop.step \in Int /\ s \in Nat \ {0} /\ (loop.step = s \/ loop.step = -s)
    BY <2>5, <1>0 DEF s, size
  <2>9. length \in Nat
    BY <2>6 DEF length, size
  <2> QED
    BY <2>6, <2>7, <2>8, <2>9, <1>4, <1>2 DEF B
<1> QED
  BY <1>3, <1>4

LEMMA AsIndexKeeps ==
    ASSUME NEW x \in Type
    PROVE  asIndex(loop, x) = x
<1>1. CASE loop.signed
  <2>1. x + Half \in Nat /\ x + Half < IndexRange /\ x \in Int
    BY <1>1, Constants DEF Type
  <2>2. (x + Half) % IndexRange = x + Half
    BY <2>1, Constants, ModuloOfSmall
  <2> QED
    BY <1>1, <2>1, <2>2, Constants DEF asIndex
<1>2. CASE ~loop.signed
  BY <1>2, Constants, ModuloOfSmall DEF Type, asIndex
<1> QED
  BY <1>1, <1>2

LEMMA AsIndexFits ==
    ASSUME NEW x \in Int
    PROVE  asIndex(loop, x) \in Type
<1>1. (x + Half) % IndexRange \in 0 .. IndexRange - 1 /\ x % IndexRange \in 0 .. IndexRange - 1
  BY Constants
<1> QED
  BY <1>1, Constants DEF asIndex, Type
Up   == loop.step = s  /\ loop.last = loop.first + length
Down == loop.step = -s /\ loop.last = loop.first - length /\ loop.signed

\* A range that is not empty lies ahead of its first index, up or down.
NotEmpty == ahead(loop.first, loop.last, loop.step)

LEMMA Reach ==
    ASSUME TypeOK, NotEmpty
    PROVE  /\ Up \/ Down
           /\ length > 0
           /\ s * B \in Nat /\ s <= s * B /\ B <= s * B
           /\ loop.step * B \in Type
           /\ loop.last + loop.step * B \in Type
           /\ length + s * B <= IndexRange
<1>1. /\ loop.first \in Int /\ loop.last \in Int /\ loop.step \in Int
      /\ s \in Nat \ {0} /\ B \in Nat \ {0} /\ length \in Nat
      /\ loop.step = s \/ (loop.step = -s /\ loop.signed)
  BY LoopFacts, Constants DEF Type
<1>2. {loop.step * B, loop.last + loop.step * B, loop.last - loop.first + loop.step * B} \subseteq Type
  BY DEF TypeOK, WithinType, NotEmpty, Type, B
<1>3. s * B \in Nat /\ s <= s * B /\ B <= s * B
  <2>1. 1 * B <= s * B /\ 1 * s <= B * s /\ s * B = B * s /\ 1 * B = B /\ 1 * s = s
    BY <1>1, TimesGrows, Times
  <2> QED
    BY <2>1, <1>1, TimesGrows
<1>4. CASE loop.step = s
  <2>1. loop.last > loop.first
    BY <1>1, <1>4 DEF NotEmpty, ahead
  <2>2. loop.last = loop.first + length /\ length > 0
    BY <2>1, <1>1 DEF length, size
  <2>3. loop.last - loop.first + s * B <= IndexRange
    BY <1>2, <1>4, Constants, <1>1, <1>3 DEF Type
  <2> QED
    BY <1>1, <1>2, <1>3, <1>4, <2>2, <2>3 DEF Up
<1>5. CASE loop.step = -s /\ loop.signed
  <2>1. loop.last < loop.first
    BY <1>1, <1>5 DEF NotEmpty, ahead
  <2>2. loop.last = loop.first - length /\ length > 0
    BY <2>1, <1>1 DEF length, size
  <2>3. (-s) * B = -(s * B)
    BY <1>1, Times
  <2>4. loop.last - loop.first + (-s) * B >= -Half
    BY <1>2, <1>5, Constants DEF Type
  <2>5. length + s * B <= IndexRange
    BY <2>2, <2>3, <2>4, Constants, <1>1, <1>3
  <2> QED
    BY <1>1, <1>2, <1>3, <1>5, <2>2, <2>5 DEF Down
<1> QED
  BY <1>1, <1>4, <1>5

LEMMA Stride ==
    ASSUME TypeOK, NotEmpty
    PROVE  /\ stride = loop.step * B
           /\ size(stride) = s * B
           /\ ahead(loop.first, loop.last, stride)
<1>1. /\ loop.first \in Int /\ loop.last \in Int /\ loop.step \in Int
      /\ s \in Nat \ {0} /\ B \in Nat \ {0} /\ length \in Nat
      /\ loop.signed \in BOOLEAN
      /\ s * B \in Nat /\ s <= s * B /\ B <= s * B /\ length > 0
  <2>1. /\ loop.first \in Int /\ loop.last \in Int /\ loop.step \in Int
        /\ s \in Nat \ {0} /\ B \in Nat \ {0} /\ length \in Nat
        /\ loop.signed \in BOOLEAN
    BY LoopFacts, Constants DEF Type
  <2>2. s * B \in Nat /\ s <= s * B /\ B <= s * B /\ length > 0
    BY Reach
  <2> QED
    BY <2>1, <2>2
<1>2. loop.step * B \in Type
  BY Reach
<1>3. Up \/ Down
  BY Reach
<1>4. ASSUME B \in Type
      PROVE  stride = loop.step * B
  <2>1. asIndex(loop, B) = B /\ asIndex(loop, loop.step * B) = loop.step * B
    BY <1>2, <1>4, AsIndexKeeps
  <2>2. ~batched(loop) => B = 1
    BY <1>1 DEF batched, B
  <2>3. loop.step * 1 = loop.step
    BY <1>1
  <2> QED
    BY <2>1, <2>2, <2>3 DEF stride, makeParallelForBatchStride, B
<1>5. ASSUME B \notin Type
      PROVE  stride = loop.step * B
  <2>1. CASE Up
    <3>1. s * B \in Type
      BY <1>2, <2>1 DEF Up
    <3> QED
      BY <3>1, <1>5, <1>1, Constants DEF Type
  <2>2. CASE Down
    <3>1. loop.step * B = -(s * B)
      BY <2>2, <1>1, Times DEF Down
    <3>2. s * B <= Half
      BY <1>2, <2>2, <3>1, <1>1, Constants DEF Type, Down
    <3>3. B = Half /\ Half > 0
      BY <1>5, <1>1, <3>2, <2>2, Constants DEF Type, Down
    <3>4. s = 1
      <4>1. SUFFICES ASSUME 2 <= s PROVE FALSE
        BY <1>1
      <4>2. 2 * B <= s * B
        BY <4>1, <1>1, TimesGrows
      <4> QED
        BY <4>2, <3>2, <3>3, <1>1, Constants
    <3>5. IndexRange % IndexRange = 0
      <4>1. IndexRange \div IndexRange = 1
        BY Constants, QuotientIsUnique
      <4> QED
        BY <4>1, Constants, Quotient
    <3>6. asIndex(loop, B) = -Half
      BY <3>3, <3>5, <2>2, Constants DEF asIndex, Down
    <3>7. loop.step * (-Half) = Half
      BY <3>4, <2>2, Constants DEF Down
    <3>8. asIndex(loop, Half) = -Half
      BY <3>3, <3>6
    <3>9. loop.step * B = -Half
      BY <3>1, <3>3, <3>4, Constants
    <3>10. CASE batched(loop)
      BY <3>6, <3>7, <3>8, <3>9, <3>10 DEF stride, makeParallelForBatchStride, B
    <3>11. CASE ~batched(loop)
      <4>1. B = 1 /\ loop.step * 1 = loop.step
        BY <3>11, <1>1 DEF batched, B
      <4> QED
        BY <4>1, <3>11 DEF stride, makeParallelForBatchStride
    <3> QED
      BY <3>10, <3>11
  <2> QED
    BY <1>3, <2>1, <2>2
<1>6. stride = loop.step * B
  BY <1>4, <1>5
<1>7. CASE Up
  BY <1>6, <1>7, <1>1 DEF Up, size, ahead
<1>8. CASE Down
  <2>1. loop.step * B = -(s * B)
    BY <1>8, <1>1, Times DEF Down
  <2> QED
    BY <1>6, <1>8, <1>1, <2>1 DEF Down, size, ahead
<1> QED
  BY <1>3, <1>6, <1>7, <1>8
LEMMA AtPosition ==
    ASSUME TypeOK, NEW m \in Nat
    PROVE  /\ at(m) \in Int
           /\ loop.step = s => at(m) = loop.first + m * s
           /\ loop.step = -s => at(m) = loop.first - m * s
           /\ position(at(m)) = m
           /\ at(m + 1) = at(m) + loop.step
           /\ m > 0 => at(m - 1) = at(m) - loop.step
<1>1. /\ loop.first \in Int /\ loop.step \in Int /\ s \in Nat \ {0}
      /\ loop.step = s \/ loop.step = -s
  BY LoopFacts, Constants DEF Type
<1>2. /\ m * s \in Nat /\ m * loop.step \in Int
      /\ m * (-s) = -(m * s)
      /\ (m + 1) * loop.step = m * loop.step + 1 * loop.step
      /\ (m - 1) * loop.step = m * loop.step - 1 * loop.step
      /\ 1 * loop.step = loop.step
  BY <1>1, Times
<1>3. size(at(m) - loop.first) = m * s
  BY <1>1, <1>2 DEF at, size
<1>4. (m * s) \div s = m
  BY <1>1, Multiple
<1>5. position(at(m)) = m
  BY <1>3, <1>4 DEF position, s
<1> QED
  BY <1>1, <1>2, <1>5 DEF at

LEMMA AtIsInjective ==
    ASSUME TypeOK, NEW m \in Nat, NEW n \in Nat, at(m) = at(n)
    PROVE  m = n
BY AtPosition

LEMMA PositionIsNat ==
    ASSUME TypeOK, NEW i \in Int
    PROVE  position(i) \in Nat
<1>1. loop.first \in Int /\ s \in Nat \ {0}
  BY LoopFacts, Constants DEF Type
<1>2. size(i - loop.first) \in Nat
  BY <1>1 DEF size
<1> QED
  BY <1>1, <1>2, Quotient DEF position, s

\* An index between the first and the last, or one step beyond the last, fits.
LEMMA Between ==
    ASSUME TypeOK, NotEmpty, NEW x \in Nat, x < length + s
    PROVE  /\ Up => loop.first + x \in Type
           /\ Down => loop.first - x \in Type
<1>1. /\ loop.first \in Int /\ loop.last \in Int /\ s \in Nat \ {0} /\ B \in Nat \ {0}
      /\ length \in Nat /\ loop.signed \in BOOLEAN
  BY LoopFacts, Constants DEF Type
<1>2. loop.first \in Type /\ loop.last + loop.step * B \in Type /\ s * B \in Nat /\ s <= s * B
  BY LoopFacts, Reach
<1>3. CASE Up
  <2>1. loop.first + x <= loop.last + s * B /\ loop.first <= loop.first + x
        /\ loop.last + s * B \in Type
    BY <1>1, <1>2, <1>3 DEF Up
  <2>2. loop.first + x \in Type
    BY <2>1, <1>1, <1>2, Constants DEF Type
  <2>3. ~Down
    BY <1>1, <1>3 DEF Up, Down
  <2> QED
    BY <2>2, <2>3
<1>4. CASE Down
  <2>1. loop.step * B = -(s * B)
    BY <1>1, <1>4, Times DEF Down
  <2>2. loop.first - x >= loop.last + loop.step * B /\ loop.first - x <= loop.first
    BY <1>1, <1>2, <1>4, <2>1 DEF Down
  <2>3. loop.first - x \in Type
    BY <2>2, <1>1, <1>2, <1>4, <2>1, Constants DEF Type, Down
  <2>4. ~Up
    BY <1>1, <1>4 DEF Up, Down
  <2> QED
    BY <2>3, <2>4
<1> QED
  BY <1>3, <1>4

LEMMA PositionsFit ==
    ASSUME TypeOK, NEW m \in Positions
    PROVE  /\ NotEmpty
           /\ at(m) \in Type /\ at(m + 1) \in Type
           /\ ahead(at(m), loop.last, loop.step)
           /\ m = 0 \/ ahead(loop.first, at(m), loop.step)
<1>1. NotEmpty /\ m \in Nat /\ m * s < length
  BY DEF Positions, NotEmpty
<1>2. /\ loop.first \in Int /\ loop.last \in Int /\ s \in Nat \ {0} /\ length \in Nat
  BY LoopFacts, Constants DEF Type
<1>3. m * s \in Nat /\ (m + 1) * s = m * s + 1 * s /\ 1 * s = s /\ m <= m * s
  <2>1. 1 * m <= s * m /\ s * m = m * s /\ 1 * m = m
    BY <1>1, <1>2, TimesGrows, Times
  <2> QED
    BY <2>1, <1>1, <1>2, Times
<1>4. m * s < length + s /\ (m + 1) * s < length + s /\ (m + 1) * s \in Nat
  BY <1>1, <1>2, <1>3
<1>5. Up \/ Down
  BY <1>1, Reach
<1>6. CASE Up
  <2>1. at(m) = loop.first + m * s /\ at(m + 1) = loop.first + (m + 1) * s
    BY <1>1, <1>6, AtPosition DEF Up
  <2>2. at(m) \in Type /\ at(m + 1) \in Type
    <3>1. \A x \in Nat : x < length + s => loop.first + x \in Type
      BY <1>1, <1>6, Between
    <3>2. loop.first + m * s \in Type /\ loop.first + (m + 1) * s \in Type
      BY <3>1, <1>3, <1>4, Zenon
    <3> QED
      BY <3>2, <2>1, Zenon
  <2>3. ahead(at(m), loop.last, loop.step)
    BY <2>1, <1>1, <1>2, <1>3, <1>6 DEF ahead, Up
  <2>4. m = 0 \/ ahead(loop.first, at(m), loop.step)
    BY <2>1, <1>1, <1>2, <1>3, <1>6 DEF ahead, Up
  <2> QED
    BY <1>1, <2>2, <2>3, <2>4
<1>7. CASE Down
  <2>1. at(m) = loop.first - m * s /\ at(m + 1) = loop.first - (m + 1) * s
    BY <1>1, <1>7, AtPosition DEF Down
  <2>2. at(m) \in Type /\ at(m + 1) \in Type
    <3>1. \A x \in Nat : x < length + s => loop.first - x \in Type
      BY <1>1, <1>7, Between
    <3>2. loop.first - m * s \in Type /\ loop.first - (m + 1) * s \in Type
      BY <3>1, <1>3, <1>4, Zenon
    <3> QED
      BY <3>2, <2>1, Zenon
  <2>3. ahead(at(m), loop.last, loop.step)
    BY <2>1, <1>1, <1>2, <1>3, <1>7 DEF ahead, Down
  <2>4. m = 0 \/ ahead(loop.first, at(m), loop.step)
    BY <2>1, <1>1, <1>2, <1>3, <1>7 DEF ahead, Down
  <2> QED
    BY <1>1, <2>2, <2>3, <2>4
<1> QED
  BY <1>5, <1>6, <1>7
-----------------------------------------------------------------------------

\* The positions of batch k begin where the batch begins.
LEMMA BatchBegins ==
    ASSUME TypeOK, NotEmpty, NEW k \in Nat, k * size(stride) < length
    PROVE  /\ k * B \in Positions
           /\ batchFirst(k) = at(k * B)
<1>1. /\ loop.step \in Int /\ s \in Nat \ {0} /\ B \in Nat \ {0} /\ length \in Nat
  BY LoopFacts
<1>2. stride = loop.step * B /\ size(stride) = s * B
  BY Stride
<1>3. k * (s * B) = (k * B) * s /\ k * B \in Nat
  <2>1. k * (s * B) = (k * s) * B /\ (k * s) * B = (s * k) * B /\ (s * k) * B = s * (k * B)
    BY <1>1, Times
  <2>2. k * B \in Nat
    BY <1>1, TimesGrows
  <2> QED
    BY <2>1, <2>2, <1>1, Times
<1>4. k * B \in Positions
  BY <1>2, <1>3 DEF Positions, NotEmpty
<1>5. k * stride = (k * B) * loop.step
  <2>1. k * (loop.step * B) = (k * loop.step) * B /\ k * loop.step = loop.step * k
        /\ (loop.step * k) * B = loop.step * (k * B)
    BY <1>1, Times
  <2> QED
    BY <2>1, <1>1, <1>2, <1>3, Times
<1>6. asIndex(loop, at(k * B)) = at(k * B)
  BY <1>4, PositionsFit, AsIndexKeeps
<1> QED
  BY <1>4, <1>5, <1>6 DEF batchFirst, at

LEMMA WideKeeps ==
    ASSUME NEW x \in Nat, x < IndexRange
    PROVE  wide(x) = x /\ asUnsigned(x) = x
BY Constants, ModuloOfSmall DEF wide, asUnsigned

\* A batch has as many indices as the grain says, or as are left.
LEMMA Span ==
    ASSUME TypeOK, NotEmpty, NEW k \in Nat, k * size(stride) < length
    PROVE  /\ spanOf(k) \in Nat
           /\ \A j \in Nat : j < spanOf(k) <=> j < B /\ (k * B + j) * s < length
<1> DEFINE p == k * B
           r == length - p * s
           n == (r + (s - 1)) \div s
<1>1. /\ loop.first \in Int /\ loop.last \in Int
      /\ loop.step \in Int /\ s \in Nat \ {0} /\ B \in Nat \ {0} /\ length \in Nat
      /\ loop.signed \in BOOLEAN
  BY LoopFacts, Constants DEF Type
<1>2. p \in Nat /\ p \in Positions /\ p * s < length /\ batchFirst(k) = at(p)
  BY BatchBegins DEF Positions
<1>3. p * s \in Nat /\ r \in Nat /\ r > 0 /\ r <= length
  <2>1. p * s \in Nat
    BY <1>1, <1>2, TimesGrows
  <2> QED
    BY <2>1, <1>1, <1>2
<1>4. length + s <= IndexRange
  <2>1. length + s * B <= IndexRange /\ s <= s * B /\ s * B \in Nat
    BY Reach
  <2> QED
    BY <2>1, <1>1, Constants
<1>5. \A j \in Nat : j < n <=> (p + j) * s < length
  <2>1. TAKE j \in Nat
  <2>2. r + s - 1 = r + (s - 1)
    BY <1>1, <1>3
  <2>3. j < n <=> j * s < r
    BY <2>2, <1>1, <1>3, RoundedUp
  <2>4. (p + j) * s = p * s + j * s /\ j * s \in Int
    BY <1>1, <1>2, Times
  <2> QED
    BY <2>3, <2>4, <1>1, <1>3
<1>6. n \in Nat
  <2>1. r + (s - 1) \in Nat
    BY <1>1, <1>3
  <2> QED
    BY <2>1, <1>1, Quotient
<1>7. wide(r) = r /\ asUnsigned(r) = r /\ asUnsigned(s) = s /\ wide(r + (s - 1)) = r + (s - 1)
  <2>1. \A x \in Nat : x < IndexRange => wide(x) = x /\ asUnsigned(x) = x
    BY WideKeeps
  <2>2. /\ r \in Nat /\ r < IndexRange /\ s \in Nat /\ s < IndexRange
        /\ r + (s - 1) \in Nat /\ r + (s - 1) < IndexRange
    BY <1>1, <1>3, <1>4, Constants
  <2> QED
    BY <2>1, <2>2, Zenon
<1>8. ahead(batchFirst(k), loop.last, loop.step)
  BY <1>2, PositionsFit
<1>9. batched(loop) => parallelForBatchSpan(loop, batchFirst(k)) = IF n < B THEN n ELSE B
  <2>1. Up \/ Down
    BY Reach
  <2>2. CASE Up
    <3>1. loop.last - batchFirst(k) = r /\ loop.step = s /\ loop.step > 0
      BY <2>2, <1>1, <1>2, <1>3, AtPosition DEF Up
    <3> HIDE DEF r
    <3> QED
      BY <3>1, <1>7, <1>8 DEF parallelForBatchSpan, B
  <2>3. CASE Down
    <3>1. batchFirst(k) - loop.last = r /\ -loop.step = s /\ ~(loop.step > 0) /\ loop.signed
      BY <2>3, <1>1, <1>2, <1>3, AtPosition DEF Down
    <3> HIDE DEF r
    <3> QED
      BY <3>1, <1>7, <1>8 DEF parallelForBatchSpan, B
  <2> QED
    BY <2>1, <2>2, <2>3
<1>10. CASE batched(loop)
  <2>1. spanOf(k) = IF n < B THEN n ELSE B
    BY <1>9, <1>10 DEF spanOf
  <2> HIDE DEF n, p
  <2>2. spanOf(k) \in Nat /\ \A j \in Nat : j < spanOf(k) <=> j < B /\ j < n
    BY <2>1, <1>1, <1>6
  <2> QED
    BY <2>2, <1>5 DEF p
<1>11. CASE ~batched(loop)
  <2>1. spanOf(k) = 1 /\ B = 1
    BY <1>11, <1>1 DEF spanOf, batched, B
  <2>2. \A j \in Nat : j < 1 => (p + j) * s < length
    <3>1. p + 0 = p
      BY <1>2
    <3> QED
      BY <3>1, <1>2
  <2> QED
    BY <2>1, <2>2
<1> QED
  BY <1>10, <1>11
LEMMA StrideIsInt ==
    ASSUME TypeOK
    PROVE  stride \in Int
<1>1. B \in Int /\ loop.step \in Int
  BY LoopFacts
<1>2. \A x \in Int : asIndex(loop, x) \in Int
  BY AsIndexFits, Constants DEF Type
<1>3. asIndex(loop, B) \in Int
  BY <1>1, <1>2
<1>4. loop.step * asIndex(loop, B) \in Int
  BY <1>1, <1>3
<1> QED
  BY <1>1, <1>2, <1>4 DEF stride, makeParallelForBatchStride, B

\* A stride that wraps may make batches of an empty range; they are empty.
LEMMA EmptyBatches ==
    ASSUME TypeOK, ~NotEmpty, NEW k \in Nat,
           ahead(loop.first, loop.last, stride), k * size(stride) < length
    PROVE  batched(loop) /\ spanOf(k) = 0
<1>1. /\ loop.first \in Type /\ loop.last \in Type
      /\ loop.first \in Int /\ loop.last \in Int /\ loop.step \in Int /\ B \in Nat \ {0}
      /\ s \in Nat \ {0} /\ length \in Nat /\ loop.signed \in BOOLEAN
      /\ loop.step = s \/ loop.step = -s
  BY LoopFacts, Constants DEF Type
<1>2. batched(loop)
  BY DEF NotEmpty, stride, makeParallelForBatchStride
<1>3. stride \in Int
  BY StrideIsInt
<1>4. ~ahead(batchFirst(k), loop.last, loop.step)
  <2>1. CASE stride > 0
    <3>1. loop.first < loop.last /\ ~(loop.step > 0)
      BY <2>1, <1>1, <1>3 DEF ahead, NotEmpty
    <3>2. k * stride \in Nat /\ k * stride < loop.last - loop.first
      <4>1. k * stride \in Nat
        BY <2>1, <1>3, TimesGrows
      <4> QED
        BY <4>1, <2>1, <3>1, <1>1, <1>3 DEF size, length
    <3>3. loop.first + k * stride \in Type /\ loop.first + k * stride < loop.last
      BY <3>2, <1>1, Constants DEF Type
    <3>4. batchFirst(k) = loop.first + k * stride
      BY <3>3, AsIndexKeeps DEF batchFirst
    <3> QED
      BY <3>1, <3>3, <3>4, <1>1, <3>2 DEF ahead
  <2>2. CASE ~(stride > 0)
    <3>1. stride < 0 /\ loop.first > loop.last /\ loop.step > 0
      BY <2>2, <1>1, <1>3 DEF ahead, NotEmpty
    <3>2. k * stride = -(k * (-stride))
      BY <1>3, Times
    <3>3. k * (-stride) \in Nat /\ k * (-stride) < loop.first - loop.last
      <4>1. k * (-stride) \in Nat
        <5>1. -stride \in Nat
          BY <3>1, <1>3
        <5> QED
          BY <5>1, TimesGrows
      <4> QED
        BY <4>1, <3>1, <1>1, <1>3 DEF size, length
    <3>4. loop.first + k * stride \in Type /\ loop.first + k * stride > loop.last
      <4> DEFINE x == k * (-stride)
      <4>1. x \in Nat /\ x < loop.first - loop.last /\ loop.first + k * stride = loop.first - x
        BY <3>2, <3>3, <1>1
      <4> HIDE DEF x
      <4>2. loop.first - x \in Type /\ loop.first - x > loop.last
        BY <4>1, <1>1, Constants DEF Type
      <4> QED
        BY <4>1, <4>2
    <3>5. batchFirst(k) = loop.first + k * stride
      BY <3>4, AsIndexKeeps DEF batchFirst
    <3> QED
      BY <3>1, <3>4, <3>5, <3>2, <3>3, <1>1 DEF ahead
  <2> QED
    BY <2>1, <2>2
<1> QED
  BY <1>2, <1>4 DEF spanOf, parallelForBatchSpan

\* What a worker that takes a batch has to call are the positions of the batch.
LEMMA BatchIsRest ==
    ASSUME TypeOK, NEW k \in Nat,
           ahead(loop.first, loop.last, stride), k * size(stride) < length
    PROVE  /\ spanOf(k) \in Nat /\ (~batched(loop) => spanOf(k) = 1)
           /\ batchFirst(k) \in Int
           /\ Batch(k) = {m \in Nat : /\ position(batchFirst(k)) <= m
                                      /\ m < position(batchFirst(k)) + spanOf(k)}
           /\ spanOf(k) > 0 => /\ batchFirst(k) = at(position(batchFirst(k)))
                               /\ position(batchFirst(k)) % B = 0
<1>1. /\ s \in Nat \ {0} /\ B \in Nat \ {0} /\ length \in Nat
  BY LoopFacts
<1>2. batchFirst(k) \in Int
  <2>1. loop.first + k * stride \in Int
    <3>1. loop.first \in Int /\ loop.step \in Int
      BY LoopFacts, Constants DEF Type
    <3>2. stride \in Int
      BY StrideIsInt
    <3> QED
      BY <3>1, <3>2
  <2> QED
    BY <2>1, AsIndexFits, Constants DEF Type, batchFirst
<1>3. position(batchFirst(k)) \in Nat
  BY <1>2, PositionIsNat
<1>4. ~batched(loop) => spanOf(k) = 1
  BY DEF spanOf
<1>5. CASE NotEmpty
  <2> DEFINE p == k * B
  <2>1. p \in Nat /\ batchFirst(k) = at(p)
    BY <1>5, BatchBegins DEF Positions
  <2>2. position(batchFirst(k)) = p
    BY <2>1, AtPosition
  <2>3. p % B = 0
    BY <1>1, Multiple
  <2>4. spanOf(k) \in Nat /\ \A j \in Nat : j < spanOf(k) <=> j < B /\ (p + j) * s < length
    BY <1>5, Span
  <2>5. \A m \in Nat : m \in Batch(k) <=> p <= m /\ m < p + spanOf(k)
    <3>1. TAKE m \in Nat
    <3>2. m \in Batch(k) <=> m * s < length /\ m \div B = k
      BY <1>5 DEF Batch, Positions, NotEmpty
    <3>3. m \div B = k <=> p <= m /\ m < p + B
      BY <1>1, Quotient, QuotientIsUnique
    <3>4. CASE p <= m
      <4>1. PICK j \in Nat : m = p + j
        <5>1. m - p \in Nat /\ m = p + (m - p)
          BY <3>4, <2>1
        <5> QED
          BY <5>1
      <4>2. j < spanOf(k) <=> j < B /\ m * s < length
        BY <2>4, <4>1
      <4> HIDE DEF p
      <4>3. m < p + B <=> j < B
        BY <4>1, <2>1, <1>1
      <4>4. m < p + spanOf(k) <=> j < spanOf(k)
        BY <4>1, <2>1, <2>4
      <4> QED
        BY <3>2, <3>3, <3>4, <4>2, <4>3, <4>4, Zenon
    <3>5. CASE ~(p <= m)
      BY <3>2, <3>3, <3>5
    <3> QED
      BY <3>4, <3>5
  <2>6. Batch(k) \subseteq Nat
    BY DEF Batch, Positions
  <2> HIDE DEF p
  <2>7. Batch(k) = {m \in Nat : p <= m /\ m < p + spanOf(k)}
    BY <2>5, <2>6
  <2> QED
    BY <1>2, <1>4, <2>1, <2>2, <2>3, <2>4, <2>7, Zenon
<1>6. CASE ~NotEmpty
  <2>1. batched(loop) /\ spanOf(k) = 0
    BY <1>6, EmptyBatches
  <2>2. Batch(k) = {}
    BY <1>6 DEF Batch, Positions, NotEmpty
  <2>3. {m \in Nat : position(batchFirst(k)) <= m /\ m < position(batchFirst(k)) + spanOf(k)} = {}
    BY <2>1, <1>3
  <2> QED
    BY <1>2, <2>1, <2>2, <2>3
<1> QED
  BY <1>5, <1>6
LEMMA IndicesArePositions ==
    ASSUME TypeOK
    PROVE  /\ \A m \in Positions : at(m) \in Indices
           /\ \A i \in Indices : position(i) \in Positions /\ at(position(i)) = i
<1>1. /\ loop.first \in Int /\ loop.last \in Int /\ loop.step \in Int
      /\ s \in Nat \ {0} /\ length \in Nat
      /\ loop.step = s \/ loop.step = -s
  BY LoopFacts, Constants DEF Type
<1>2. DOMAIN calls = Index /\ Type \subseteq Index /\ Index \subseteq Int
  BY Constants DEF TypeOK, Index, Type
<1>3. ASSUME NEW m \in Positions
      PROVE  at(m) \in Indices
  <2>1. m \in Nat
    BY DEF Positions
  <2>2. m * s \in Nat
    BY <2>1, <1>1, TimesGrows
  <2>3. (m * s) % s = 0
    BY <2>1, <1>1, Multiple
  <2>4. size(at(m) - loop.first) = m * s
    <3>1. /\ loop.step = s => at(m) = loop.first + m * s
          /\ loop.step = -s => at(m) = loop.first - m * s
      BY <2>1, AtPosition
    <3> QED
      BY <3>1, <2>2, <1>1 DEF size
  <2>5. size(at(m) - loop.first) % size(loop.step) = 0
    BY <2>3, <2>4 DEF s
  <2>6. m = 0 => at(m) = loop.first
    <3>1. 0 * loop.step = 0 /\ loop.first + 0 = loop.first
      BY <1>1
    <3> QED
      BY <3>1 DEF at
  <2>7. at(m) \in DOMAIN calls /\ (at(m) = loop.first \/ ahead(loop.first, at(m), loop.step))
        /\ ahead(at(m), loop.last, loop.step)
    BY <2>6, <1>2, PositionsFit
  <2> QED
    BY <2>5, <2>7 DEF Indices
<1>4. ASSUME NEW i \in Indices
      PROVE  position(i) \in Positions /\ at(position(i)) = i
  <2> DEFINE d == size(i - loop.first)
             q == position(i)
  <2>1. /\ i \in Int /\ d % s = 0 /\ (i = loop.first \/ ahead(loop.first, i, loop.step))
        /\ ahead(i, loop.last, loop.step)
    BY <1>2 DEF Indices, s
  <2>2. d \in Nat /\ q \in Nat /\ d = q * s
    <3>1. d \in Nat
      BY <2>1, <1>1 DEF size
    <3>2. q = d \div s
      BY DEF position, s
    <3> HIDE DEF d, q
    <3>3. q \in Nat /\ d % s = d - q * s
      BY <3>1, <3>2, <1>1, Quotient
    <3>4. q * s \in Nat
      BY <3>3, <1>1, TimesGrows
    <3> QED
      BY <3>1, <3>3, <3>4, <2>1
  <2>3. NotEmpty /\ d < length
    BY <2>1, <1>1 DEF ahead, NotEmpty, length, size
  <2>4. q \in Positions
    BY <2>2, <2>3 DEF Positions, NotEmpty
  <2>5. at(q) = i
    <3>1. /\ loop.step = s => at(q) = loop.first + q * s
          /\ loop.step = -s => at(q) = loop.first - q * s
      BY <2>2, AtPosition
    <3>2. /\ loop.step = s => i = loop.first + d
          /\ loop.step = -s => i = loop.first - d
      BY <2>1, <1>1 DEF ahead, size
    <3> QED
      BY <3>1, <3>2, <2>2, <1>1
  <2> QED
    BY <2>4, <2>5
<1> QED
  BY <1>3, <1>4

-----------------------------------------------------------------------------

LEMMA InitInv == Init /\ WithinType(loop) /\ loop.step # 0 => Inv
<1> SUFFICES ASSUME Init, WithinType(loop), loop.step # 0
             PROVE  Inv
  OBVIOUS
<1> DEFINE S == size(stride)
           batches == distance(loop.first, loop.last, stride)
<1>1. TypeOK
  <2>1. unclaimed \subseteq Nat
    BY Constants DEF Init
  <2>2. calls = [i \in Index |-> 0]
    BY DEF Init, Index
  <2>3. calls \in [Index -> Nat]
    BY <2>2
  <2>4. working \in [Workers -> [pc : {"idle", "look", "call"}, index : Int, left : Nat]]
    BY DEF Init, Idle
  <2> QED
    BY <2>1, <2>3, <2>4 DEF Init, TypeOK
<1>2. /\ s \in Nat \ {0} /\ B \in Nat \ {0} /\ length \in Nat /\ stride \in Int
  BY <1>1, LoopFacts, StrideIsInt
<1>3. unclaimed = {k \in 0 .. WideRange - 1 : k < batches}
  BY DEF Init, stride
<1>4. \A w \in Workers : working[w] = Idle
  BY DEF Init
<1>5. \A i \in Index : calls[i] = 0
  BY DEF Init, Index
<1>6. ~ahead(loop.first, loop.last, stride) => batches = 0
  BY DEF distance
<1>7. ahead(loop.first, loop.last, stride) =>
          S \in Nat \ {0} /\ batches = wide(length + S - 1) \div S
  <2>1. ahead(loop.first, loop.last, stride) => S \in Nat \ {0}
    BY <1>2 DEF ahead, size
  <2>2. ahead(loop.first, loop.last, stride) => batches = wide(length + S - 1) \div S
    BY DEF distance, length
  <2> QED
    BY <2>1, <2>2
<1> HIDE DEF S, batches
<1>8. Unclaimed
  <2> SUFFICES ASSUME NEW k \in unclaimed
               PROVE  ahead(loop.first, loop.last, stride) /\ k * S < length
    BY DEF Unclaimed, S
  <2>1. k \in Nat /\ k < batches
    BY <1>3, Constants
  <2>2. ahead(loop.first, loop.last, stride)
    BY <2>1, <1>6
  <2>3. S \in Nat \ {0} /\ length + S - 1 \in Nat
    BY <2>2, <1>2, <1>7
  <2> DEFINE y == wide(length + S - 1)
             q == y \div S
  <2>4. y \in Nat /\ y <= length + S - 1
    BY <2>3, ModuloIsLess, Constants DEF wide
  <2>5. k < q
    BY <2>1, <2>2, <1>7
  <2> HIDE DEF y
  <2>6. q \in Nat /\ q * S <= y
    BY <2>3, <2>4, Quotient
  <2> HIDE DEF q
  <2>7. (k + 1) * S <= q * S /\ (k + 1) * S = k * S + 1 * S /\ 1 * S = S /\ k * S \in Nat
    BY <2>1, <2>3, <2>5, <2>6, TimesGrows, Times
  <2>8. k * S < length
    BY <2>3, <2>4, <2>6, <2>7, <1>2
  <2> QED
    BY <2>2, <2>8
<1>9. \A w \in Workers : Rest(w) = {} /\ working[w].left = 0 /\ working[w].pc = "idle"
  <2>1. Idle.left = 0 /\ Idle.index = 0 /\ Idle.pc = "idle"
    BY DEF Idle
  <2>2. position(0) \in Nat
    BY <1>1, PositionIsNat
  <2>3. {m \in Nat : position(0) <= m /\ m < position(0) + 0} = {}
    BY <2>2
  <2> QED
    BY <2>1, <2>3, <1>4 DEF Rest
<1>10. Working
  BY <1>4, <1>9 DEF Working, Idle
<1>11. Done = {} /\ called = {}
  <2>1. Type \subseteq Index /\ DOMAIN calls = Index
    BY <1>1, Constants DEF Type, Index, TypeOK
  <2>2. \A m \in Positions : calls[at(m)] = 0
    BY <2>1, <1>1, <1>5, PositionsFit
  <2> QED
    BY <2>1, <2>2, <1>5 DEF Done, called
<1>12. Disjoint /\ Called
  BY <1>9, <1>11 DEF Disjoint, Called
<1>13. Covered
  <2> SUFFICES ASSUME NEW m \in Positions
               PROVE  m \div B \in unclaimed
    BY DEF Covered
  <2> DEFINE k == m \div B
  <2>1. m \in Nat /\ NotEmpty /\ m * s < length
    BY DEF Positions, NotEmpty
  <2>2. k \in Nat /\ k * B <= m
    BY <2>1, <1>2, Quotient
  <2> HIDE DEF k
  <2>3. S = s * B /\ ahead(loop.first, loop.last, stride)
    BY <2>1, <1>1, Stride DEF S
  <2>4. k * S < length
    <3>1. k * S = (k * B) * s
      <4>1. k * (s * B) = (k * s) * B /\ k * s = s * k /\ (s * k) * B = s * (k * B)
            /\ k * B \in Int
        BY <2>2, <1>2, Times
      <4>2. s * (k * B) = (k * B) * s
        BY <4>1, <1>2, Times
      <4> QED
        BY <4>1, <4>2, <2>3
    <3>2. (k * B) * s <= m * s /\ (k * B) * s \in Nat /\ m * s \in Nat
      <4>1. k * B \in Nat
        BY <2>2, <1>2, TimesGrows
      <4> QED
        BY <4>1, <2>1, <2>2, <1>2, TimesGrows
    <3> QED
      BY <3>1, <3>2, <2>1, <1>2
  <2>5. S \in Nat \ {0}
    BY <2>3, <1>7
  <2>6. length + S <= IndexRange
    BY <2>1, <2>3, <1>1, Reach
  <2>7. wide(length + S - 1) = length + S - 1
    BY <2>5, <2>6, <1>2, Constants, ModuloOfSmall DEF wide
  <2>8. k < batches
    BY <2>2, <2>3, <2>4, <2>5, <2>7, <1>2, <1>7, RoundedUp
  <2>9. k < WideRange
    <3>1. k * 1 <= k * S /\ k * 1 = k
      <4>1. 1 * k <= S * k /\ 1 * k = k /\ S * k = k * S
        BY <2>2, <2>5, TimesGrows, Times
      <4> QED
        BY <4>1, <2>2
    <3>2. k * S \in Nat
      BY <2>2, <2>5, TimesGrows
    <3> QED
      BY <3>1, <3>2, <2>2, <2>4, <2>5, <2>6, <1>2, Constants
  <2>10. k \in unclaimed
    BY <2>2, <2>8, <2>9, <1>3, Constants
  <2> QED
    BY <2>10 DEF k
<1> QED
  BY <1>1, <1>8, <1>10, <1>12, <1>13 DEF Inv
-----------------------------------------------------------------------------

LEMMA LoopStays == [Next]_vars => loop' = loop
BY DEF Next, Execute, requestStop, Complete, Look, Call, Claim, indexInvoker, batchedInvoker, vars

\* What is said of the loop alone stays as it is.
LEMMA SameLoop ==
    ASSUME loop' = loop
    PROVE  /\ s' = s /\ B' = B /\ length' = length /\ stride' = stride
           /\ batched(loop)' = batched(loop)
           /\ Positions' = Positions
           /\ \A m : at(m)' = at(m)
           /\ \A i : position(i)' = position(i)
           /\ \A k : Batch(k)' = Batch(k)
BY DEF s, B, length, stride, Positions, at, position, Batch

LEMMA IdleHasNothing ==
    ASSUME TypeOK, NEW w \in Workers, working[w].left = 0
    PROVE  Rest(w) = {}
<1>1. position(working[w].index) \in Nat
  BY PositionIsNat DEF TypeOK
<1> QED
  BY <1>1 DEF Rest

\* A call is made at the first position a worker has left.
LEMMA CallsNext ==
    ASSUME Inv, NEW w \in Workers, working[w].pc = "call"
    PROVE  LET p == position(working[w].index)
           IN  /\ working[w].left > 0
               /\ p \in Rest(w) /\ p \in Positions /\ p \notin Done
               /\ working[w].index = at(p)
               /\ at(p) \in Index /\ calls[at(p)] = 0
<1> DEFINE p == position(working[w].index)
<1>1. TypeOK /\ working[w].left > 0 /\ Rest(w) \subseteq Positions /\ working[w].index = at(p)
      /\ Rest(w) \cap Done = {}
  BY DEF Inv, Working, Disjoint
<1>2. working[w].left \in Nat /\ p \in Nat
  BY <1>1, PositionIsNat DEF TypeOK
<1>3. p \in Rest(w)
  BY <1>1, <1>2 DEF Rest
<1>4. p \in Positions /\ p \notin Done
  BY <1>1, <1>3
<1>5. at(p) \in Index
  BY <1>1, <1>4, PositionsFit, Constants DEF Type, Index
<1>6. calls[at(p)] = 0
  BY <1>1, <1>4, <1>5 DEF Done, TypeOK
<1> QED
  BY <1>1, <1>3, <1>4, <1>5, <1>6

LEMMA NextTypeOK == Inv /\ [Next]_vars => TypeOK'
<1> SUFFICES ASSUME Inv, [Next]_vars
             PROVE  TypeOK'
  OBVIOUS
<1> DEFINE Work == [pc : {"idle", "look", "call"}, index : Int, left : Nat]
<1>1. loop' = loop
  BY LoopStays
<1>2. TypeOK
  BY DEF Inv
<1>3. CASE UNCHANGED vars
  BY <1>2, <1>3 DEF TypeOK, vars
<1>4. CASE requestStop
  BY <1>2, <1>4 DEF TypeOK, requestStop
<1>5. CASE Complete
  BY <1>2, <1>5 DEF TypeOK, Complete
<1>6. ASSUME NEW w \in Workers, NEW k \in unclaimed, Claim(w, k)
      PROVE  TypeOK'
  <2>1. k \in Nat /\ spanOf(k) \in Nat /\ batchFirst(k) \in Int
    BY <1>2, BatchIsRest DEF Inv, Unclaimed, TypeOK
  <2>2. [pc |-> IF batched(loop) THEN "look" ELSE "call",
         index |-> batchFirst(k), left |-> spanOf(k)] \in Work
    BY <2>1
  <2>3. working' \in [Workers -> Work]
    BY <2>2, <1>2, <1>6 DEF Claim, indexInvoker, batchedInvoker, TypeOK, batchFirst, spanOf, stride
  <2> QED
    BY <2>3, <1>1, <1>2, <1>6 DEF Claim, indexInvoker, batchedInvoker, TypeOK
<1>7. ASSUME NEW w \in Workers, Look(w)
      PROVE  TypeOK'
  <2>1. working' \in [Workers -> Work]
    BY <1>2, <1>7 DEF Look, TypeOK, Idle
  <2> QED
    BY <2>1, <1>1, <1>2, <1>7 DEF Look, TypeOK
<1>8. ASSUME NEW w \in Workers, Call(w)
      PROVE  TypeOK'
  <2>1. working[w] \in Work /\ working[w].left > 0 /\ Rest(w) \subseteq Positions
    BY <1>2, <1>8 DEF Inv, Working, Call, TypeOK
  <2>2. loop.step \in Int
    BY <1>2, LoopFacts
  <2>3. advanceParallelForIndex(loop, working[w].index) \in Int
    BY <2>1, <2>2, <1>2, AsIndexFits, Constants DEF advanceParallelForIndex, Type
  <2>4. [pc |-> "look", index |-> advanceParallelForIndex(loop, working[w].index),
         left |-> working[w].left - 1] \in Work
    BY <2>1, <2>3
  <2>5. working' \in [Workers -> Work]
    BY <2>4, <1>2, <1>8 DEF Call, TypeOK, Idle
  <2>6. calls' \in [Index -> Nat]
    <3>1. working[w].index \in Index
      BY <1>8, CallsNext DEF Call
    <3> QED
      BY <3>1, <1>2, <1>8 DEF Call, TypeOK
  <2>7. late' \in Nat
    BY <1>2, <1>8 DEF Call, TypeOK
  <2> QED
    BY <2>5, <2>6, <2>7, <1>1, <1>2, <1>8 DEF Call, TypeOK
<1> QED
  BY <1>3, <1>4, <1>5, <1>6, <1>7, <1>8 DEF Next, Execute
LEMMA BecomesIdle ==
    ASSUME TypeOK, loop' = loop, NEW w \in Workers, working'[w] = Idle
    PROVE  Rest(w)' = {}
<1>1. position(0) \in Nat /\ position(0)' = position(0)
  BY PositionIsNat, SameLoop
<1>2. {m \in Nat : position(0) <= m /\ m < position(0) + 0} = {}
  BY <1>1
<1>3. Rest(w)' = {m \in Nat : position(0) <= m /\ m < position(0) + 0}
  BY SameLoop DEF Rest, Idle
<1> QED
  BY <1>2, <1>3

LEMMA NextStop == Inv /\ requestStop => Inv'
<1> SUFFICES ASSUME Inv, requestStop
             PROVE  Inv'
  OBVIOUS
<1>1. TypeOK'
  BY NextTypeOK DEF Next
<1>2. /\ loop' = loop /\ unclaimed' = unclaimed /\ working' = working /\ calls' = calls
  BY DEF requestStop
<1>3. Done' = Done /\ called' = called /\ \A w : Rest(w)' = Rest(w)
  BY <1>2, SameLoop DEF Done, called, Rest
<1>4. Unclaimed'
  BY <1>2, SameLoop DEF Inv, Unclaimed
<1>5. Working'
  BY <1>2, <1>3, SameLoop DEF Inv, Working
<1>6. Disjoint' /\ Called'
  BY <1>2, <1>3, SameLoop DEF Inv, Disjoint, Called
<1>7. Covered'
  BY <1>2, <1>3, SameLoop DEF Inv, Covered, canceled, requestStop
<1> QED
  BY <1>1, <1>4, <1>5, <1>6, <1>7 DEF Inv

LEMMA NextComplete ==
    Inv /\ (Complete \/ UNCHANGED vars) => Inv'
<1> SUFFICES ASSUME Inv, Complete \/ UNCHANGED vars
             PROVE  Inv'
  OBVIOUS
<1>1. TypeOK'
  BY NextTypeOK DEF Next, Execute
<1>2. /\ loop' = loop /\ unclaimed' = unclaimed /\ working' = working /\ calls' = calls
      /\ stop_requested' = stop_requested
  BY DEF Complete, vars
<1>3. Done' = Done /\ called' = called /\ \A w : Rest(w)' = Rest(w)
  BY <1>2, SameLoop DEF Done, called, Rest
<1>4. Unclaimed'
  BY <1>2, SameLoop DEF Inv, Unclaimed
<1>5. Working'
  BY <1>2, <1>3, SameLoop DEF Inv, Working
<1>6. Disjoint' /\ Called' /\ Covered'
  BY <1>2, <1>3, SameLoop DEF Inv, Disjoint, Called, Covered, canceled
<1> QED
  BY <1>1, <1>4, <1>5, <1>6 DEF Inv

LEMMA NextClaim ==
    ASSUME Inv, NEW w \in Workers, NEW k \in unclaimed, Claim(w, k)
    PROVE  Inv'
<1>1. TypeOK /\ TypeOK' /\ (canceled => canceled')
  BY NextTypeOK DEF Next, Execute, Inv, Claim, indexInvoker, batchedInvoker, canceled
<1>2. /\ loop' = loop /\ calls' = calls /\ stop_requested' = stop_requested
      /\ unclaimed' = unclaimed \ {k} /\ working[w] = Idle
  BY DEF Claim, indexInvoker, batchedInvoker
<1>3. Done' = Done /\ called' = called
  BY <1>2, SameLoop DEF Done, called
<1>4. Unclaimed'
  BY <1>2, SameLoop DEF Inv, Unclaimed
<1>5. Called'
  BY <1>2, <1>3, SameLoop DEF Inv, Called
<1>6. CASE canceled
  <2>1. working' = working /\ canceled'
    BY <1>6, <1>1 DEF Claim, indexInvoker, batchedInvoker
  <2>2. \A v : Rest(v)' = Rest(v)
    BY <2>1, SameLoop, <1>2 DEF Rest
  <2>3. Working'
    BY <1>2, <1>3, <2>1, <2>2, SameLoop DEF Inv, Working
  <2>4. Disjoint'
    BY <1>2, <1>3, <2>2, SameLoop DEF Inv, Disjoint
  <2>5. Covered'
    BY <2>1 DEF Covered
  <2> QED
    BY <1>1, <1>4, <1>5, <2>3, <2>4, <2>5 DEF Inv
<1>7. CASE ~canceled
  <2> DEFINE new == [pc |-> IF batched(loop) THEN "look" ELSE "call",
                     index |-> batchFirst(k), left |-> spanOf(k)]
  <2>1. working' = [working EXCEPT ![w] = new]
    BY <1>7 DEF Claim, indexInvoker, batchedInvoker, batchFirst, spanOf, stride
  <2>2. working'[w] = new /\ \A v \in Workers : v # w => working'[v] = working[v]
    BY <2>1, <1>1 DEF TypeOK
  <2>3. /\ k \in Nat /\ spanOf(k) \in Nat /\ (~batched(loop) => spanOf(k) = 1)
        /\ Batch(k) = {m \in Nat : /\ position(batchFirst(k)) <= m
                                   /\ m < position(batchFirst(k)) + spanOf(k)}
        /\ spanOf(k) > 0 => /\ batchFirst(k) = at(position(batchFirst(k)))
                            /\ position(batchFirst(k)) % B = 0
    BY <1>1, BatchIsRest DEF Inv, Unclaimed, TypeOK
  <2>4. Rest(w)' = Batch(k)
    BY <2>2, <2>3, <1>2, SameLoop DEF Rest
  <2>5. \A v \in Workers : v # w => Rest(v)' = Rest(v)
    BY <2>2, <1>2, SameLoop DEF Rest
  <2>6. Batch(k) \subseteq Positions /\ Batch(k) \cap Done = {}
    BY DEF Batch, Inv, Disjoint
  <2>7. Working'
    <3>1. SUFFICES ASSUME NEW v \in Workers
          PROVE  /\ working'[v].pc = "idle" => working'[v] = Idle
                 /\ working'[v].pc = "look" => batched(loop)
                 /\ working'[v].pc = "call" => working'[v].left > 0
                 /\ ~batched(loop) => working'[v].left <= 1
                 /\ Rest(v)' \subseteq Positions
                 /\ working'[v].left > 0 =>
                       /\ working'[v].index = at(position(working'[v].index))
                       /\ position(working'[v].index) % B # 0 =>
                             position(working'[v].index) - 1 \in Done
      BY <1>2, <1>3, SameLoop DEF Working, Idle
    <3>2. CASE v = w
      <4>1. new.pc = (IF batched(loop) THEN "look" ELSE "call") /\ new.index = batchFirst(k)
            /\ new.left = spanOf(k)
        OBVIOUS
      <4>2. working'[v] = new /\ Rest(v)' = Batch(k)
        BY <2>2, <2>4, <3>2
      <4> HIDE DEF new
      <4> QED
        BY <2>3, <2>6, <4>1, <4>2
    <3>3. CASE v # w
      BY <2>2, <2>5, <3>3 DEF Inv, Working
    <3> QED
      BY <3>2, <3>3
  <2>8. \A n \in unclaimed' : Batch(k) \cap Batch(n) = {}
    BY <1>2 DEF Batch
  <2>9. Disjoint'
    <3>1. \A n \in unclaimed' : Batch(n)' \cap Done' = {}
      BY <1>2, <1>3, SameLoop DEF Inv, Disjoint
    <3>2. \A v \in Workers : Rest(v)' \cap Done' = {}
      BY <1>3, <2>4, <2>5, <2>6 DEF Inv, Disjoint
    <3>3. \A v \in Workers, n \in unclaimed' : Rest(v)' \cap Batch(n)' = {}
      BY <1>2, <2>4, <2>5, <2>8, SameLoop DEF Inv, Disjoint
    <3>4. \A u, v \in Workers : u # v => Rest(u)' \cap Rest(v)' = {}
      BY <2>4, <2>5 DEF Inv, Disjoint
    <3> QED
      BY <3>1, <3>2, <3>3, <3>4 DEF Disjoint
  <2>10. Covered'
    <3>1. SUFFICES ASSUME NEW m \in Positions
          PROVE  \/ m \div B \in unclaimed'
                 \/ m \in Done
                 \/ \E v \in Workers : m \in Rest(v)'
      BY <1>2, <1>3, SameLoop DEF Covered
    <3>2. m \div B = k => m \in Rest(w)'
      BY <2>4 DEF Batch
    <3>3. Rest(w) = {}
      BY <1>1, <1>2, IdleHasNothing DEF Idle
    <3>4. \A v \in Workers : m \in Rest(v) => m \in Rest(v)'
      BY <2>5, <3>3
    <3>5. \/ m \div B \in unclaimed
          \/ m \in Done
          \/ \E v \in Workers : m \in Rest(v)
      BY <1>7 DEF Inv, Covered
    <3> QED
      BY <1>2, <3>2, <3>4, <3>5
  <2> QED
    BY <1>1, <1>4, <1>5, <2>7, <2>9, <2>10 DEF Inv
<1> QED
  BY <1>6, <1>7
LEMMA NextLook ==
    ASSUME Inv, NEW w \in Workers, Look(w)
    PROVE  Inv'
<1>1. TypeOK /\ TypeOK' /\ canceled' = canceled
  BY NextTypeOK DEF Next, Execute, Inv, Look, canceled
<1>2. /\ loop' = loop /\ calls' = calls /\ unclaimed' = unclaimed /\ working[w].pc = "look"
  BY DEF Look
<1>3. Done' = Done /\ called' = called
  BY <1>2, SameLoop DEF Done, called
<1>4. Unclaimed' /\ Called'
  BY <1>2, <1>3, SameLoop DEF Inv, Unclaimed, Called
<1>5. \A v \in Workers : v # w => working'[v] = working[v] /\ Rest(v)' = Rest(v)
  BY <1>1, <1>2, SameLoop DEF Look, TypeOK, Rest
<1>6. Rest(w)' \subseteq Rest(w) /\ (~canceled => Rest(w)' = Rest(w))
  <2>1. CASE working[w].left = 0 \/ canceled
    <3>1. working'[w] = Idle
      BY <1>1, <2>1 DEF Look, TypeOK
    <3>2. Rest(w)' = {}
      BY <3>1, <1>1, <1>2, BecomesIdle
    <3>3. ~canceled => Rest(w) = {}
      BY <1>1, <2>1, IdleHasNothing
    <3> QED
      BY <3>2, <3>3
  <2>2. CASE ~(working[w].left = 0 \/ canceled)
    <3>1. working'[w].index = working[w].index /\ working'[w].left = working[w].left
      BY <1>1, <2>2 DEF Look, TypeOK
    <3> QED
      BY <3>1, <1>2, SameLoop DEF Rest
  <2> QED
    BY <2>1, <2>2
<1>7. Working'
  <2>1. SUFFICES ASSUME NEW v \in Workers
        PROVE  /\ working'[v].pc = "idle" => working'[v] = Idle
               /\ working'[v].pc = "look" => batched(loop)
               /\ working'[v].pc = "call" => working'[v].left > 0
               /\ ~batched(loop) => working'[v].left <= 1
               /\ Rest(v)' \subseteq Positions
               /\ working'[v].left > 0 =>
                     /\ working'[v].index = at(position(working'[v].index))
                     /\ position(working'[v].index) % B # 0 =>
                           position(working'[v].index) - 1 \in Done
    BY <1>2, <1>3, SameLoop DEF Working, Idle
  <2>2. CASE v # w
    BY <2>2, <1>5 DEF Inv, Working
  <2>3. Rest(w)' \subseteq Positions
    BY <1>6 DEF Inv, Working
  <2>4. CASE v = w /\ (working[w].left = 0 \/ canceled)
    <3>1. working'[w] = Idle
      BY <1>1, <2>4 DEF Look, TypeOK
    <3> QED
      BY <3>1, <2>3, <2>4 DEF Idle
  <2>5. CASE v = w /\ ~(working[w].left = 0 \/ canceled)
    <3>1. /\ working'[w].index = working[w].index /\ working'[w].left = working[w].left
          /\ working'[w].pc = "call" /\ working[w].left \in Nat /\ working[w].left # 0
      BY <1>1, <2>5 DEF Look, TypeOK
    <3> QED
      BY <3>1, <2>3, <2>5 DEF Inv, Working
  <2> QED
    BY <2>2, <2>4, <2>5
<1>8. Disjoint'
  <2>1. \A v \in Workers : Rest(v)' \subseteq Rest(v)
    BY <1>5, <1>6
  <2>2. \A n \in unclaimed' : Batch(n)' \cap Done' = {}
    BY <1>2, <1>3, SameLoop DEF Inv, Disjoint
  <2>3. \A v \in Workers : Rest(v)' \cap Done' = {}
    BY <2>1, <1>3 DEF Inv, Disjoint
  <2>4. \A v \in Workers, n \in unclaimed' : Rest(v)' \cap Batch(n)' = {}
    BY <2>1, <1>2, SameLoop DEF Inv, Disjoint
  <2>5. \A u, v \in Workers : u # v => Rest(u)' \cap Rest(v)' = {}
    BY <2>1 DEF Inv, Disjoint
  <2> QED
    BY <2>2, <2>3, <2>4, <2>5 DEF Disjoint
<1>9. Covered'
  BY <1>1, <1>2, <1>3, <1>5, <1>6, SameLoop DEF Inv, Covered
<1> QED
  BY <1>1, <1>4, <1>7, <1>8, <1>9 DEF Inv

LEMMA NextCall ==
    ASSUME Inv, NEW w \in Workers, Call(w)
    PROVE  Inv'
<1> DEFINE i == working[w].index
           p == position(i)
           n == working[w].left
<1>1. TypeOK /\ TypeOK' /\ canceled' = canceled
  BY NextTypeOK DEF Next, Execute, Inv, Call, canceled
<1>2. /\ loop' = loop /\ unclaimed' = unclaimed /\ working[w].pc = "call"
      /\ calls' = [calls EXCEPT ![i] = @ + 1]
  BY DEF Call
<1>3. /\ n > 0 /\ p \in Rest(w) /\ p \in Positions /\ p \notin Done
      /\ i = at(p) /\ at(p) \in Index /\ calls[at(p)] = 0
  BY <1>2, CallsNext
<1>4. /\ n \in Nat /\ p \in Nat /\ i \in Int /\ B \in Nat \ {0}
      /\ calls \in [Index -> Nat] /\ calls' \in [Index -> Nat]
  BY <1>1, <1>3, LoopFacts DEF TypeOK, Positions
<1>5. calls'[i] = 1 /\ \A j \in Index : j # i => calls'[j] = calls[j]
  BY <1>2, <1>3, <1>4
<1>6. \A m \in Positions : m \in Nat /\ at(m) \in Index
  BY <1>1, PositionsFit, Constants DEF Type, Index, Positions
<1>7. Done' = Done \cup {p}
  <2>1. Done' = {m \in Positions : calls'[at(m)] > 0}
    BY <1>2, SameLoop DEF Done
  <2>2. \A m \in Positions : m # p => at(m) # i
    BY <1>1, <1>3, <1>4, <1>6, AtIsInjective
  <2>3. \A m \in Positions : m # p => (calls'[at(m)] > 0 <=> calls[at(m)] > 0)
    BY <2>2, <1>5, <1>6
  <2>4. calls'[at(p)] > 0
    BY <1>3, <1>5
  <2> QED
    BY <2>1, <2>3, <2>4, <1>3 DEF Done
<1>8. called' = called \cup {i}
  <2>1. called' = {j \in Index : calls'[j] > 0} /\ called = {j \in Index : calls[j] > 0}
    BY <1>4 DEF called
  <2> QED
    BY <2>1, <1>3, <1>5
<1>9. \A v \in Workers : v # w => working'[v] = working[v] /\ Rest(v)' = Rest(v)
  BY <1>1, <1>2, SameLoop DEF Call, TypeOK, Rest
<1>10. working'[w] = IF ~batched(loop) THEN Idle
                     ELSE [pc |-> "look", index |-> at(p + 1), left |-> n - 1]
  <2>1. at(p + 1) = i + loop.step
    BY <1>1, <1>3, <1>4, AtPosition
  <2>2. asIndex(loop, at(p + 1)) = at(p + 1)
    BY <1>1, <1>3, PositionsFit, AsIndexKeeps
  <2>3. advanceParallelForIndex(loop, i) = at(p + 1)
    BY <2>1, <2>2 DEF advanceParallelForIndex
  <2> QED
    BY <2>3, <1>1 DEF Call, TypeOK
<1>11. position(at(p + 1)) = p + 1
  BY <1>1, <1>4, AtPosition
<1> HIDE DEF i, p, n
<1>12. Rest(w) = {m \in Nat : p <= m /\ m < p + n}
  BY DEF Rest, p, n, i
<1>13. Rest(w)' = Rest(w) \ {p}
  <2>1. CASE ~batched(loop)
    <3>1. working'[w] = Idle
      BY <2>1, <1>10
    <3>2. Rest(w)' = {}
      BY <3>1, <1>1, <1>2, BecomesIdle
    <3>3. n = 1
      BY <2>1, <1>3, <1>4 DEF Inv, Working, n
    <3> QED
      BY <3>2, <3>3, <1>4, <1>12
  <2>2. CASE batched(loop)
    <3>1. working'[w].index = at(p + 1) /\ working'[w].left = n - 1
      BY <2>2, <1>10
    <3>2. Rest(w)' = {m \in Nat : p + 1 <= m /\ m < (p + 1) + (n - 1)}
      BY <3>1, <1>2, <1>11, SameLoop DEF Rest
    <3> QED
      BY <3>2, <1>4, <1>12
  <2> QED
    BY <2>1, <2>2
<1>14. Unclaimed'
  BY <1>2, SameLoop DEF Inv, Unclaimed
<1>15. Working'
  <2>1. SUFFICES ASSUME NEW v \in Workers
        PROVE  /\ working'[v].pc = "idle" => working'[v] = Idle
               /\ working'[v].pc = "look" => batched(loop)
               /\ working'[v].pc = "call" => working'[v].left > 0
               /\ ~batched(loop) => working'[v].left <= 1
               /\ Rest(v)' \subseteq Positions
               /\ working'[v].left > 0 =>
                     /\ working'[v].index = at(position(working'[v].index))
                     /\ position(working'[v].index) % B # 0 =>
                           position(working'[v].index) - 1 \in Done'
    BY <1>2, SameLoop DEF Working, Idle
  <2>2. CASE v # w
    BY <2>2, <1>7, <1>9 DEF Inv, Working
  <2>3. Rest(w)' \subseteq Positions
    BY <1>13 DEF Inv, Working
  <2>4. CASE v = w /\ ~batched(loop)
    BY <2>3, <2>4, <1>10 DEF Idle
  <2>5. CASE v = w /\ batched(loop)
    <3>1. /\ working'[w].pc = "look" /\ working'[w].index = at(p + 1)
          /\ working'[w].left = n - 1
      BY <2>5, <1>10
    <3>2. position(working'[w].index) = p + 1 /\ p + 1 - 1 = p /\ p \in Done'
      BY <3>1, <1>4, <1>7, <1>11
    <3>3. Rest(v)' \subseteq Positions /\ v = w
      BY <2>3, <2>5
    <3>4. position(working'[w].index) - 1 \in Done'
      <4>1. position(working'[w].index) - 1 = p
        BY <3>2, <1>4
      <4> QED
        BY <4>1, <3>2, Zenon
    <3>5. working'[w].index = at(position(working'[w].index))
      BY <3>1, <3>2
    <3> QED
      BY <2>5, <3>1, <3>3, <3>4, <3>5
  <2> QED
    BY <2>2, <2>4, <2>5
<1>16. Disjoint'
  <2>1. \A v \in Workers : Rest(v)' \subseteq Rest(v) /\ p \notin Rest(v)'
    BY <1>3, <1>9, <1>13 DEF Inv, Disjoint
  <2>2. \A k \in unclaimed' : Batch(k)' \cap Done' = {}
    <3>1. \A k \in unclaimed' : Batch(k)' = Batch(k)
      BY <1>2, SameLoop
    <3>2. \A k \in unclaimed' : p \notin Batch(k) /\ Batch(k) \cap Done = {}
      BY <1>2, <1>3 DEF Inv, Disjoint
    <3> QED
      BY <3>1, <3>2, <1>7
  <2>3. \A v \in Workers : Rest(v)' \cap Done' = {}
    BY <2>1, <1>7 DEF Inv, Disjoint
  <2>4. \A v \in Workers, k \in unclaimed' : Rest(v)' \cap Batch(k)' = {}
    BY <2>1, <1>2, SameLoop DEF Inv, Disjoint
  <2>5. \A u, v \in Workers : u # v => Rest(u)' \cap Rest(v)' = {}
    BY <2>1 DEF Inv, Disjoint
  <2> QED
    BY <2>2, <2>3, <2>4, <2>5 DEF Disjoint
<1>17. Called'
  <2>1. \A j \in called' : calls'[j] = 1 /\ \E m \in Positions : j = at(m)
    <3>1. \A j \in called : j \in Index /\ calls[j] = 1 /\ \E m \in Positions : j = at(m)
      BY <1>4 DEF Inv, Called, called
    <3> QED
      BY <3>1, <1>3, <1>5, <1>8
  <2>2. \A m \in Done' : m % B # 0 => m - 1 \in Done'
    <3>1. p % B # 0 => p - 1 \in Done
      BY <1>3 DEF Inv, Working, p, i, n
    <3> QED
      BY <3>1, <1>7 DEF Inv, Called
  <2> QED
    BY <2>1, <2>2, <1>2, SameLoop DEF Called
<1>18. Covered'
  <2>1. \A v \in Workers : \A m \in Rest(v) : m \in Rest(v)' \/ m \in Done'
    BY <1>7, <1>9, <1>13
  <2> QED
    BY <2>1, <1>1, <1>2, <1>7, SameLoop DEF Inv, Covered
<1> QED
  BY <1>1, <1>14, <1>15, <1>16, <1>17, <1>18 DEF Inv

LEMMA NextInv == Inv /\ [Next]_vars => Inv'
BY NextStop, NextComplete, NextClaim, NextLook, NextCall DEF Next, Execute

\* With a step of 0 there are no batches, and nothing is ever called.
Still ==
    /\ loop.step = 0
    /\ unclaimed = {}
    /\ \A w \in Workers : working[w] = Idle
    /\ called = {}

LEMMA InitStill == Init /\ loop.step = 0 => Still
<1> SUFFICES ASSUME Init, loop.step = 0
             PROVE  Still
  OBVIOUS
<1>1. loop.batch_size \in Int /\ loop.signed \in BOOLEAN
  <2>1. loop \in Loops /\ BatchSizes \subseteq Nat \ {0}
    BY ParallelForAssumption DEF Init, ParallelForAssumption
  <2>2. \/ loop \in [first : 0 .. MaxBound, last : 0 .. MaxBound, step : StepValues,
                     batch_size : BatchSizes, signed : {FALSE}, observe_cancellation : BOOLEAN]
        \/ loop \in [first : -MaxSigned .. MaxSigned, last : -MaxSigned .. MaxSigned,
                     step : StepValues \cup {-n : n \in StepValues},
                     batch_size : BatchSizes, signed : {TRUE}, observe_cancellation : BOOLEAN]
    BY <2>1 DEF Loops
  <2>3. loop.batch_size \in BatchSizes
    BY <2>2
  <2>4. loop.signed \in BOOLEAN
    BY <2>2
  <2>5. loop.batch_size \in Nat \ {0}
    BY <2>1, <2>3, Zenon
  <2> QED
    BY <2>4, <2>5
<1>2. makeParallelForBatchStride(loop) = 0
  <2>1. asIndex(loop, 0) = 0
    BY <1>1, Constants DEF asIndex
  <2>2. asIndex(loop, loop.batch_size) \in Int
    BY <1>1, Constants DEF asIndex
  <2>3. 0 * asIndex(loop, loop.batch_size) = 0
    BY <2>2
  <2> QED
    BY <2>1, <2>3 DEF makeParallelForBatchStride
<1>3. distance(loop.first, loop.last, makeParallelForBatchStride(loop)) = 0
  BY <1>2 DEF distance, ahead
<1>4. unclaimed = {}
  BY <1>3, Constants DEF Init
<1>5. called = {}
  BY DEF Init, called
<1> QED
  BY <1>4, <1>5 DEF Init, Still

LEMMA NextStill == Still /\ [Next]_vars => Still'
<1> SUFFICES ASSUME Still, [Next]_vars
             PROVE  Still'
  OBVIOUS
<1>1. \A w \in Workers : ~Look(w) /\ ~Call(w)
  BY DEF Still, Look, Call, Idle
<1>2. requestStop \/ Complete \/ UNCHANGED vars
  BY <1>1 DEF Still, Next, Execute
<1> QED
  BY <1>2 DEF Still, called, requestStop, Complete, vars

LEMMA Invariance == WithinTypeSpec => [](Inv \/ Still)
<1>1. Init /\ WithinType(loop) => Inv \/ Still
  BY InitInv, InitStill
<1>2. (Inv \/ Still) /\ [Next]_vars => (Inv \/ Still)'
  BY NextInv, NextStill
<1> QED
  BY <1>1, <1>2, PTL DEF WithinTypeSpec, WithinTypeInit
-----------------------------------------------------------------------------

(***************************************************************************)
(* EachIndexOnce, for every number of workers, width of the index type,    *)
(* bounds, step and grain: while the arithmetic stays within the type, the *)
(* batches a parallelFor is cut into share no index and reach beyond the   *)
(* range at no end.                                                        *)
(***************************************************************************)
THEOREM IndicesAreCalledOnce == WithinTypeSpec => []EachIndexOnce
<1>1. Inv => EachIndexOnce
  BY IndicesArePositions DEF Inv, Called, EachIndexOnce
<1>2. Still => EachIndexOnce
  BY DEF Still, EachIndexOnce
<1> QED
  BY <1>1, <1>2, Invariance, PTL

LEMMA WhatIsLeft ==
    ASSUME Inv, complete => unclaimed = {} /\ \A w \in Workers : working[w] = Idle
    PROVE  AllIndicesCalled
<1> SUFFICES ASSUME complete, ~canceled, NEW i \in Indices
             PROVE  i \in called
  BY DEF AllIndicesCalled
<1>1. position(i) \in Positions /\ at(position(i)) = i
  BY IndicesArePositions DEF Inv
<1>2. unclaimed = {} /\ \A w \in Workers : Rest(w) = {}
  BY IdleHasNothing DEF Inv, Idle
<1>3. position(i) \in Done
  BY <1>1, <1>2 DEF Inv, Covered
<1> QED
  BY <1>1, <1>3 DEF Done, called, Indices

\* Completion is the end of the dispatch: no batch comes after it.
AllOver == complete => unclaimed = {} /\ \A w \in Workers : working[w] = Idle

LEMMA OverForGood == Spec => []AllOver
<1>1. Init => AllOver
  BY DEF Init, AllOver
<1>2. AllOver /\ [Next]_vars => AllOver'
  <2> SUFFICES ASSUME AllOver, [Next]_vars
               PROVE  AllOver'
    OBVIOUS
  <2>1. CASE UNCHANGED vars
    BY <2>1 DEF vars, AllOver
  <2>2. CASE requestStop
    BY <2>2 DEF requestStop, AllOver
  <2>3. CASE Complete
    BY <2>3 DEF Complete, AllOver
  <2>4. ASSUME NEW w \in Workers, Look(w)
        PROVE  AllOver'
    BY <2>4 DEF Look, AllOver, Idle
  <2>5. ASSUME NEW w \in Workers, Call(w)
        PROVE  AllOver'
    BY <2>5 DEF Call, AllOver, Idle
  <2>6. ASSUME NEW w \in Workers, NEW k \in unclaimed, Claim(w, k)
        PROVE  AllOver'
    BY <2>6 DEF Claim, indexInvoker, batchedInvoker, AllOver
  <2> QED
    BY <2>1, <2>2, <2>3, <2>4, <2>5, <2>6 DEF Next, Execute
<1> QED
  BY <1>1, <1>2, PTL DEF Spec

(***************************************************************************)
(* AllIndicesCalled: a dispatch that was not stopped leaves out no index,  *)
(* however the division of the range into batches is rounded.              *)
(***************************************************************************)
THEOREM NoIndexIsLeftOut == WithinTypeSpec => []AllIndicesCalled
<1>1. Inv /\ AllOver => AllIndicesCalled
  BY WhatIsLeft DEF AllOver
<1>2. Still => AllIndicesCalled
  BY DEF Still, AllIndicesCalled, Indices, ahead
<1>3. WithinTypeSpec => Spec
  BY DEF WithinTypeSpec, WithinTypeInit, Spec
<1> QED
  BY <1>1, <1>2, <1>3, Invariance, OverForGood, PTL

(***************************************************************************)
(* BatchesCutCleanly: a stop leaves of each batch a first part, called,    *)
(* and a rest that is not.                                                 *)
(***************************************************************************)
THEOREM BatchesAreCutCleanly == WithinTypeSpec => []BatchesCutCleanly
<1>1. ASSUME Inv, NEW i \in called, position(i) % loop.batch_size # 0
      PROVE  i - loop.step \in called
  <2>1. TypeOK
    BY <1>1 DEF Inv
  <2>2. PICK m \in Positions : i = at(m)
    BY <1>1 DEF Inv, Called
  <2>3. m \in Nat /\ position(i) = m /\ m % B # 0
    BY <2>1, <2>2, <1>1, AtPosition DEF Positions, B
  <2>4. m \in Done
    BY <2>2 DEF Done, called
  <2>5. m - 1 \in Done
    BY <1>1, <2>3, <2>4 DEF Inv, Called
  <2>6. m > 0 /\ m - 1 \in Positions
    BY <2>3, <2>5 DEF Done, Positions
  <2>7. at(m - 1) = i - loop.step
    BY <2>1, <2>2, <2>3, <2>6, AtPosition
  <2>8. at(m - 1) \in DOMAIN calls
    BY <2>1, <2>6, PositionsFit, Constants DEF TypeOK, Type, Index
  <2> QED
    BY <2>5, <2>7, <2>8 DEF Done, called
<1>2. Inv => BatchesCutCleanly
  BY <1>1 DEF BatchesCutCleanly
<1>3. Still => BatchesCutCleanly
  BY DEF Still, BatchesCutCleanly
<1> QED
  BY <1>2, <1>3, Invariance, PTL

-----------------------------------------------------------------------------

\* The workers that have looked at the token and not yet called.
Calling == {w \in Workers : working[w].pc = "call"}

(***************************************************************************)
(* After the stop a worker calls only if it had looked before: the late    *)
(* calls and the workers that are still to make one are not more than the  *)
(* workers.                                                                *)
(***************************************************************************)
LateInv ==
    /\ DOMAIN working = Workers
    /\ stop_requested \in BOOLEAN /\ late \in Nat
    /\ IF canceled THEN late + Cardinality(Calling) <= Cardinality(Workers) ELSE late = 0

LEMMA CallingIsFinite ==
    /\ IsFiniteSet(Calling) /\ Cardinality(Calling) \in Nat
    /\ Cardinality(Workers) \in Nat /\ Cardinality(Calling) <= Cardinality(Workers)
<1>1. IsFiniteSet(Workers) /\ Calling \subseteq Workers
  BY ParallelForAssumption DEF ParallelForAssumption, Calling
<1> QED
  BY <1>1, FS_Subset, FS_CardinalityType

LEMMA InitLate == Init => LateInv
<1> SUFFICES ASSUME Init
             PROVE  LateInv
  OBVIOUS
<1>1. ~canceled
  BY DEF Init, canceled
<1> QED
  BY <1>1 DEF Init, LateInv

LEMMA NextLate == LateInv /\ [Next]_vars => LateInv'
<1> SUFFICES ASSUME LateInv, [Next]_vars
             PROVE  LateInv'
  OBVIOUS
<1>1. loop' = loop /\ (canceled => canceled')
  BY LoopStays DEF canceled, Next, Execute, requestStop, Complete, Look, Call, Claim, indexInvoker, batchedInvoker, vars
<1>2. DOMAIN working' = Workers /\ stop_requested' \in BOOLEAN /\ late' \in Nat
  <2>1. DOMAIN working' = Workers
    BY DEF LateInv, Next, Execute, requestStop, Complete, Look, Call, Claim, indexInvoker, batchedInvoker, vars
  <2>2. stop_requested' \in BOOLEAN
    BY DEF LateInv, Next, Execute, requestStop, Complete, Look, Call, Claim, indexInvoker, batchedInvoker, vars
  <2>3. late' = late \/ late' = late + 1
    BY DEF Next, Execute, requestStop, Complete, Look, Call, Claim, indexInvoker, batchedInvoker, vars
  <2> QED
    BY <2>1, <2>2, <2>3 DEF LateInv
<1>3. CASE UNCHANGED vars \/ Complete
  <2>1. Calling' = Calling /\ canceled' = canceled /\ late' = late
    BY <1>3 DEF vars, Complete, Calling, canceled
  <2> QED
    BY <2>1, <1>2 DEF LateInv
<1>4. CASE requestStop
  <2>1. Calling' = Calling /\ late' = late /\ ~canceled
    BY <1>4 DEF requestStop, Calling, canceled
  <2>2. late = 0
    BY <2>1 DEF LateInv
  <2> QED
    BY <2>1, <2>2, <1>2, CallingIsFinite DEF LateInv
<1>5. ASSUME NEW w \in Workers, Look(w) \/ \E k \in unclaimed : Claim(w, k)
      PROVE  LateInv'
  <2>1. late' = late /\ canceled' = canceled
    BY <1>5, <1>1 DEF Look, Claim, indexInvoker, batchedInvoker, canceled
  <2>2. canceled => Calling' \subseteq Calling
    BY <1>5 DEF Look, Claim, indexInvoker, batchedInvoker, Calling, LateInv, Idle
  <2>3. CASE canceled
    <3>1. Cardinality(Calling') <= Cardinality(Calling) /\ Cardinality(Calling') \in Nat
      BY <2>2, <2>3, CallingIsFinite, FS_Subset, FS_CardinalityType
    <3> QED
      BY <3>1, <2>1, <2>3, <1>2, CallingIsFinite DEF LateInv
  <2>4. CASE ~canceled
    BY <2>1, <2>4, <1>2 DEF LateInv
  <2> QED
    BY <2>3, <2>4
<1>6. ASSUME NEW w \in Workers, Call(w)
      PROVE  LateInv'
  <2>1. canceled' = canceled /\ late' = IF canceled THEN late + 1 ELSE late
    BY <1>6, <1>1 DEF Call, canceled
  <2>2. w \in Calling /\ Calling' = Calling \ {w}
    BY <1>6 DEF Call, Calling, LateInv, Idle
  <2>3. Cardinality(Calling') = Cardinality(Calling) - 1
    BY <2>2, CallingIsFinite, FS_RemoveElement
  <2>4. CASE canceled
    <3>1. late' = late + 1 /\ late + Cardinality(Calling) <= Cardinality(Workers) /\ late \in Nat
      BY <2>1, <2>4 DEF LateInv
    <3>2. late' + Cardinality(Calling') <= Cardinality(Workers)
      BY <3>1, <2>3, CallingIsFinite
    <3> QED
      BY <3>2, <2>1, <2>4, <1>2 DEF LateInv
  <2>5. CASE ~canceled
    BY <2>1, <2>5, <1>2 DEF LateInv
  <2> QED
    BY <2>4, <2>5
<1> QED
  BY <1>3, <1>4, <1>5, <1>6 DEF Next, Execute

(***************************************************************************)
(* StopTakesHold, of every loop, also one whose arithmetic wraps.          *)
(***************************************************************************)
THEOREM LoopStops == Spec => []StopTakesHold
<1>1. Spec => []LateInv
  BY InitLate, NextLate, PTL DEF Spec
<1>2. LateInv => StopTakesHold
  BY CallingIsFinite DEF LateInv, StopTakesHold
<1> QED
  BY <1>1, <1>2, PTL
=============================================================================
