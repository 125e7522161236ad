-------------------------- MODULE DynamicRunProofs --------------------------
(***************************************************************************)
(* Plans with dynamic tasks, for any number of workers, tasks, children    *)
(* and dispatches.                                                         *)
(*                                                                         *)
(* RunInv says where an item can be: on one stack once, with the report    *)
(* and the marks its step allows (Stacks, Once, Reports); a child only     *)
(* while its task is open, a task over only with all its children          *)
(* (Families); and nothing entered before what precedes it is over         *)
(* (Ordered).  From it follow the cut behind a stop, the nesting of the    *)
(* events and the refinement of FrameSchedule; that a run which ends left  *)
(* nothing out needs WaitInv besides: what an item that is entered and not *)
(* over waits for, and that edges go forward.  TimeInv accounts for the    *)
(* time a worker is given: what it has reported, and what each activation  *)
(* on its stack will still report since the last entry, fit into the       *)
(* elapsed time once for each of the activations it ever had.              *)
(***************************************************************************)
EXTENDS DynamicRun, FiniteSetTheorems, SequenceTheorems, WellFoundedInduction, TLAPS

Activation == [item : Items, step : {"body", "joining", "canceled"}]
Report     == {"none", "submitted", "started", "finished", "canceled"}

TypeOK ==
    /\ kind \in Seq({"task", "dynamic"}) /\ Len(kind) <= MaxNodes
    /\ dispatched \in BOOLEAN /\ stop_requested \in BOOLEAN
    /\ dispatch_count \in Nat
    /\ children \in [1 .. MaxNodes -> 0 .. MaxChildren]
    /\ opened \subseteq tasks
    /\ entered \subseteq Items /\ done \subseteq Items
    /\ reported \in [Items -> Report]
    /\ stack \in [Workers -> Seq(Activation)]

\* The activations on the stacks of all workers.
Active == {a \in Activation : \E w \in Workers : \E i \in DOMAIN stack[w] : stack[w][i] = a}

AtRest ==
    /\ ~dispatched => \A w \in Workers : stack[w] = <<>>
    /\ dispatch_count = 0 =>
          /\ ~dispatched /\ entered = {} /\ done = {} /\ opened = {}
          /\ \A n \in 1 .. MaxNodes : children[n] = 0

\* What is known of an item that is on a stack, by the step it is at.
Stacks ==
    \A a \in Active :
        /\ a.item \in entered /\ a.item \notin done
        /\ reported[a.item] = IF a.step = "canceled" THEN "canceled" ELSE "started"
        /\ a.step = "joining" => isTask(a.item) /\ a.item[1] \in opened
        /\ a.step = "body" /\ isTask(a.item) /\ a.item[1] \in opened => allDone(a.item[1])

Once ==
    \A v, w \in Workers : \A i \in DOMAIN stack[v], j \in DOMAIN stack[w] :
        stack[v][i].item = stack[w][j].item => v = w /\ i = j

Reports ==
    \A x \in Items :
        /\ x \in entered <=> reported[x] \in {"started", "finished", "canceled"}
        /\ x \in entered => (\E a \in Active : a.item = x) \/ final(x)
        /\ x \in done => final(x)
        /\ reported[x] = "canceled" => stop_requested

Families ==
    /\ \A x \in entered : IF isTask(x) THEN x[1] \in tasks
                          ELSE x[1] \in opened /\ x \in childrenOf(x[1])
    /\ \A n \in 1 .. MaxNodes :
          /\ n \in opened \/ children[n] > 0 =>
                n \in tasks /\ reported[<<n, 0>>] \in {"started", "finished"}
          /\ <<n, 0>> \in done => allDone(n)

Ordered == \A y \in entered : predecessors(y) \subseteq done

RunInv ==
    /\ TypeOK /\ AtRest /\ Stacks /\ Once /\ Reports /\ Families /\ Ordered
    /\ CanceledStaysCanceled

-----------------------------------------------------------------------------

LEMMA Bounds == MaxNodes \in Nat /\ MaxChildren \in Nat
BY DynamicRunAssumption DEF DynamicRunAssumption

\* A stack after an activation was put on it, or taken from it.
LEMMA Pushed ==
    ASSUME NEW S, NEW t \in Seq(S), NEW a \in S
    PROVE  /\ <<a>> \o t \in Seq(S)
           /\ Len(<<a>> \o t) = Len(t) + 1
           /\ (<<a>> \o t)[1] = a
           /\ \A i \in 1 .. Len(t) : (<<a>> \o t)[i + 1] = t[i]
<1>1. <<a>> \in Seq(S) /\ Len(<<a>>) = 1 /\ <<a>>[1] = a
  OBVIOUS
<1>2. /\ <<a>> \o t \in Seq(S)
      /\ Len(<<a>> \o t) = 1 + Len(t)
      /\ \A i \in 1 .. 1 + Len(t) : (<<a>> \o t)[i] = IF i <= 1 THEN <<a>>[i] ELSE t[i - 1]
  BY <1>1, ConcatProperties
<1>3. Len(t) \in Nat
  BY LenProperties
<1> QED
  BY <1>1, <1>2, <1>3

LEMMA Popped ==
    ASSUME NEW S, NEW t \in Seq(S), t # <<>>
    PROVE  /\ Len(t) \in Nat \ {0} /\ Head(t) = t[1] /\ Head(t) \in S
           /\ Tail(t) \in Seq(S)
           /\ Len(Tail(t)) = Len(t) - 1
           /\ \A i \in 1 .. Len(t) - 1 : Tail(t)[i] = t[i + 1]
BY HeadTailProperties, EmptySeq

LEMMA OneActivation ==
    ASSUME Once, NEW a \in Active, NEW b \in Active, a.item = b.item
    PROVE  a = b
BY DEF Once, Active

LEMMA PushActive ==
    ASSUME TypeOK, Once, NEW w \in Workers, NEW a \in Activation,
           stack' = [stack EXCEPT ![w] = <<a>> \o @],
           \A b \in Active : b.item # a.item
    PROVE  /\ stack' \in [Workers -> Seq(Activation)]
           /\ Once'
           /\ Active' = Active \cup {a}
<1>1. stack \in [Workers -> Seq(Activation)]
  BY DEF TypeOK
<1>2. /\ stack'[w] = <<a>> \o stack[w]
      /\ \A v \in Workers : v # w => stack'[v] = stack[v]
  BY <1>1
<1> DEFINE n == Len(stack[w])
<1>3. /\ n \in Nat /\ DOMAIN stack[w] = 1 .. n
      /\ stack'[w] \in Seq(Activation) /\ DOMAIN stack'[w] = 1 .. n + 1
      /\ stack'[w][1] = a
      /\ \A i \in 1 .. n : stack'[w][i + 1] = stack[w][i]
  <2>1. /\ <<a>> \o stack[w] \in Seq(Activation)
        /\ Len(<<a>> \o stack[w]) = n + 1
        /\ (<<a>> \o stack[w])[1] = a
        /\ \A i \in 1 .. n : (<<a>> \o stack[w])[i + 1] = stack[w][i]
    BY <1>1, Pushed
  <2>2. /\ n \in Nat /\ DOMAIN stack[w] = 1 .. n
    BY <1>1, LenProperties
  <2>3. DOMAIN (<<a>> \o stack[w]) = 1 .. n + 1
    BY <2>1, LenProperties
  <2> QED
    BY <1>2, <2>1, <2>2, <2>3
<1>4. stack' \in [Workers -> Seq(Activation)]
  BY <1>1, <1>3
<1> HIDE DEF n
<1>5. \A i \in DOMAIN stack'[w] : i = 1 \/ (i - 1 \in DOMAIN stack[w] /\ stack'[w][i] = stack[w][i - 1])
  <2>1. TAKE i \in DOMAIN stack'[w]
  <2>2. i \in 1 .. n + 1
    BY <1>3
  <2>3. i = 1 \/ (i - 1 \in 1 .. n /\ (i - 1) + 1 = i)
    BY <2>2, <1>3
  <2> QED
    BY <2>3, <1>3
<1>6. \A v \in Workers : \A i \in DOMAIN stack[v] : stack[v][i] \in Active
  BY <1>1, LenProperties, ElementOfSeq DEF Active
<1>7. Active' = Active \cup {a}
  <2>1. Active' \subseteq Active \cup {a}
    BY <1>2, <1>3, <1>5, <1>6 DEF Active
  <2>2. a \in Active'
    BY <1>3 DEF Active
  <2>3. Active \subseteq Active'
    <3>1. SUFFICES ASSUME NEW v \in Workers, NEW i \in DOMAIN stack[v], stack[v][i] \in Activation
          PROVE  \E j \in DOMAIN stack'[v] : stack'[v][j] = stack[v][i]
      BY DEF Active
    <3>2. CASE v # w
      BY <3>2, <1>2
    <3>3. CASE v = w
      <4>1. i \in 1 .. n /\ i + 1 \in 1 .. n + 1
        BY <3>3, <1>3
      <4> QED
        BY <4>1, <3>3, <1>3
    <3> QED
      BY <3>2, <3>3
  <2> QED
    BY <2>1, <2>2, <2>3
<1>8. Once'
  <2>1. SUFFICES ASSUME NEW u \in Workers, NEW v \in Workers,
                        NEW i \in DOMAIN stack'[u], NEW j \in DOMAIN stack'[v],
                        stack'[u][i].item = stack'[v][j].item
        PROVE  u = v /\ i = j
    BY DEF Once
  <2>2. (u = w /\ i = 1) \/ ~(u = w /\ i = 1)
    OBVIOUS
  <2>3. \A x \in Workers : \A k \in DOMAIN stack'[x] :
           ~(x = w /\ k = 1) => stack'[x][k].item # a.item
    BY <1>2, <1>5, <1>6
  <2>4. CASE u = w /\ i = 1
    BY <2>1, <2>3, <2>4, <1>3
  <2>5. CASE v = w /\ j = 1
    BY <2>1, <2>3, <2>5, <1>3
  <2>6. CASE ~(u = w /\ i = 1) /\ ~(v = w /\ j = 1)
    <3>1. i \in Int /\ j \in Int
      <4>1. \A x \in Workers : DOMAIN stack'[x] \subseteq Int
        BY <1>4, LenProperties
      <4> QED
        BY <4>1
    <3>2. CASE u = w /\ v = w
      <4>1. /\ i - 1 \in DOMAIN stack[w] /\ stack'[w][i] = stack[w][i - 1]
            /\ j - 1 \in DOMAIN stack[w] /\ stack'[w][j] = stack[w][j - 1]
        BY <2>6, <3>2, <1>5
      <4>2. i - 1 = j - 1
        BY <4>1, <2>1, <3>2 DEF Once
      <4> QED
        BY <4>2, <3>1, <3>2
    <3>3. CASE u = w /\ v # w
      BY <2>1, <2>6, <3>3, <1>2, <1>5 DEF Once
    <3>4. CASE u # w /\ v = w
      BY <2>1, <2>6, <3>4, <1>2, <1>5 DEF Once
    <3>5. CASE u # w /\ v # w
      BY <2>1, <3>5, <1>2 DEF Once
    <3> QED
      BY <3>2, <3>3, <3>4, <3>5
  <2> QED
    BY <2>4, <2>5, <2>6
<1> QED
  BY <1>4, <1>7, <1>8

LEMMA TopActive ==
    ASSUME TypeOK, NEW w \in Workers, stack[w] # <<>>
    PROVE  /\ top(w) \in Active /\ top(w) \in Activation
           /\ 1 \in DOMAIN stack[w] /\ stack[w][1] = top(w)
<1>1. stack[w] \in Seq(Activation)
  BY DEF TypeOK
<1>2. Len(stack[w]) \in Nat \ {0} /\ Head(stack[w]) = stack[w][1] /\ Head(stack[w]) \in Activation
  BY <1>1, Popped
<1>3. 1 \in DOMAIN stack[w]
  BY <1>1, <1>2, LenProperties
<1> QED
  BY <1>2, <1>3 DEF top, Active

LEMMA PopActive ==
    ASSUME TypeOK, Once, NEW w \in Workers, stack[w] # <<>>,
           stack' = [stack EXCEPT ![w] = Tail(@)]
    PROVE  /\ stack' \in [Workers -> Seq(Activation)]
           /\ Len(stack[w]) \in Nat \ {0} /\ Len(stack'[w]) = Len(stack[w]) - 1
           /\ Once'
           /\ Active' = Active \ {top(w)}
<1>1. stack \in [Workers -> Seq(Activation)]
  BY DEF TypeOK
<1>2. /\ stack'[w] = Tail(stack[w])
      /\ \A v \in Workers : v # w => stack'[v] = stack[v]
  BY <1>1
<1> DEFINE n == Len(stack[w])
<1>3. /\ n \in Nat \ {0} /\ DOMAIN stack[w] = 1 .. n
      /\ stack'[w] \in Seq(Activation) /\ Len(stack'[w]) = n - 1 /\ DOMAIN stack'[w] = 1 .. n - 1
      /\ stack[w][1] = top(w)
      /\ \A i \in 1 .. n - 1 : stack'[w][i] = stack[w][i + 1]
  <2>1. /\ n \in Nat \ {0} /\ Head(stack[w]) = stack[w][1]
        /\ Tail(stack[w]) \in Seq(Activation) /\ Len(Tail(stack[w])) = n - 1
        /\ \A i \in 1 .. n - 1 : Tail(stack[w])[i] = stack[w][i + 1]
    BY <1>1, Popped
  <2>2. DOMAIN stack[w] = 1 .. n /\ DOMAIN Tail(stack[w]) = 1 .. n - 1
    BY <1>1, <2>1, LenProperties
  <2> QED
    BY <1>2, <2>1, <2>2 DEF top
<1>4. stack' \in [Workers -> Seq(Activation)]
  BY <1>1, <1>3
<1> HIDE DEF n
<1>5. \A i \in DOMAIN stack'[w] :
         i + 1 \in DOMAIN stack[w] /\ i + 1 # 1 /\ stack'[w][i] = stack[w][i + 1]
  BY <1>3
<1>6. \A v \in Workers : \A i \in DOMAIN stack[v] : stack[v][i] \in Active
  BY <1>1, LenProperties, ElementOfSeq DEF Active
<1>7. 1 \in DOMAIN stack[w]
  BY <1>3
<1>8. Active' = Active \ {top(w)}
  <2>1. Active' \subseteq Active
    BY <1>2, <1>5, <1>6 DEF Active
  <2>2. top(w) \notin Active'
    <3>1. SUFFICES ASSUME NEW v \in Workers, NEW i \in DOMAIN stack'[v], stack'[v][i] = top(w)
          PROVE  FALSE
      BY DEF Active
    <3>2. CASE v # w
      <4>1. stack[v][i] = stack[w][1] /\ i \in DOMAIN stack[v]
        BY <3>1, <3>2, <1>2, <1>3
      <4> QED
        BY <4>1, <3>2, <1>7 DEF Once
    <3>3. CASE v = w
      <4>1. i + 1 \in DOMAIN stack[w] /\ i + 1 # 1 /\ stack[w][i + 1] = stack[w][1]
        BY <3>1, <3>3, <1>3, <1>5
      <4> QED
        BY <4>1, <1>7 DEF Once
    <3> QED
      BY <3>2, <3>3
  <2>3. ASSUME NEW v \in Workers, NEW i \in DOMAIN stack[v], stack[v][i] # top(w)
        PROVE  \E j \in DOMAIN stack'[v] : stack'[v][j] = stack[v][i]
    <3>1. CASE v # w
      BY <3>1, <1>2
    <3>2. CASE v = w
      <4>1. i \in 1 .. n /\ i # 1
        BY <3>2, <2>3, <1>3
      <4>2. i - 1 \in 1 .. n - 1 /\ (i - 1) + 1 = i
        BY <4>1, <1>3
      <4> QED
        BY <4>2, <3>2, <1>3
    <3> QED
      BY <3>1, <3>2
  <2> QED
    BY <2>1, <2>2, <2>3 DEF Active
<1>9. Once'
  <2>1. SUFFICES ASSUME NEW u \in Workers, NEW v \in Workers,
                        NEW i \in DOMAIN stack'[u], NEW j \in DOMAIN stack'[v],
                        stack'[u][i].item = stack'[v][j].item
        PROVE  u = v /\ i = j
    BY DEF Once
  <2>2. CASE u = w /\ v = w
    <3>1. /\ i + 1 \in DOMAIN stack[w] /\ stack'[w][i] = stack[w][i + 1]
          /\ j + 1 \in DOMAIN stack[w] /\ stack'[w][j] = stack[w][j + 1]
      BY <2>2, <1>5
    <3>2. i + 1 = j + 1
      BY <3>1, <2>1, <2>2 DEF Once
    <3>3. i \in Int /\ j \in Int
      BY <2>2, <1>3
    <3> QED
      BY <3>2, <3>3, <2>2
  <2>3. CASE u = w /\ v # w
    BY <2>1, <2>3, <1>2, <1>5 DEF Once
  <2>4. CASE u # w /\ v = w
    BY <2>1, <2>4, <1>2, <1>5 DEF Once
  <2>5. CASE u # w /\ v # w
    BY <2>1, <2>5, <1>2 DEF Once
  <2> QED
    BY <2>2, <2>3, <2>4, <2>5
<1> QED
  BY <1>3, <1>4, <1>8, <1>9 DEF n

LEMMA GoToActive ==
    ASSUME TypeOK, Once, NEW w \in Workers, stack[w] # <<>>,
           NEW step \in {"body", "joining", "canceled"}, goTo(w, step)
    PROVE  /\ stack' \in [Workers -> Seq(Activation)]
           /\ \A v \in Workers : Len(stack'[v]) = Len(stack[v])
           /\ Once'
           /\ Active' = (Active \ {top(w)}) \cup {[item |-> top(w).item, step |-> step]}
<1> DEFINE a == [top(w) EXCEPT !.step = step]
           n == Len(stack[w])
<1>1. stack \in [Workers -> Seq(Activation)]
  BY DEF TypeOK
<1>2. /\ top(w) \in Activation /\ stack[w][1] = top(w)
      /\ a \in Activation /\ a = [item |-> top(w).item, step |-> step]
  BY TopActive DEF Activation
<1>3. /\ stack'[w] = <<a>> \o Tail(stack[w])
      /\ \A v \in Workers : v # w => stack'[v] = stack[v]
  BY <1>1 DEF goTo
<1> HIDE DEF a
<1>4. /\ n \in Nat \ {0} /\ DOMAIN stack[w] = 1 .. n
      /\ stack'[w] \in Seq(Activation) /\ Len(stack'[w]) = n /\ DOMAIN stack'[w] = 1 .. n
      /\ stack'[w][1] = a
      /\ \A i \in 1 .. n : i # 1 => stack'[w][i] = stack[w][i]
  <2> DEFINE t == Tail(stack[w])
  <2>1. /\ n \in Nat \ {0} /\ t \in Seq(Activation) /\ Len(t) = n - 1
        /\ \A i \in 1 .. n - 1 : t[i] = stack[w][i + 1]
    BY <1>1, Popped
  <2>2. /\ stack'[w] \in Seq(Activation) /\ Len(stack'[w]) = Len(t) + 1 /\ stack'[w][1] = a
        /\ \A i \in 1 .. Len(t) : stack'[w][i + 1] = t[i]
    BY <1>2, <1>3, <2>1, Pushed
  <2>3. DOMAIN stack[w] = 1 .. n /\ DOMAIN stack'[w] = 1 .. Len(stack'[w])
    BY <1>1, <2>2, LenProperties
  <2> HIDE DEF t, n
  <2>4. \A i \in 1 .. n : i # 1 => i - 1 \in 1 .. n - 1 /\ (i - 1) + 1 = i
    BY <2>1
  <2>5. ASSUME NEW i \in 1 .. n, i # 1
        PROVE  stack'[w][i] = stack[w][i]
    <3>1. i - 1 \in 1 .. Len(t) /\ i - 1 \in 1 .. n - 1 /\ (i - 1) + 1 = i
      BY <2>1, <2>4, <2>5
    <3>2. stack'[w][(i - 1) + 1] = t[i - 1] /\ t[i - 1] = stack[w][(i - 1) + 1]
      BY <3>1, <2>1, <2>2
    <3> QED
      BY <3>1, <3>2
  <2>6. Len(stack'[w]) = n
    BY <2>1, <2>2
  <2> QED
    BY <2>1, <2>2, <2>3, <2>5, <2>6
<1>5. stack' \in [Workers -> Seq(Activation)]
  <2>1. stack' = [v \in Workers |-> stack'[v]]
    BY <1>1 DEF goTo
  <2>2. \A v \in Workers : stack'[v] \in Seq(Activation)
    BY <1>1, <1>3, <1>4
  <2> QED
    BY <2>1, <2>2
<1>6. \A v \in Workers : Len(stack'[v]) = Len(stack[v])
  BY <1>3, <1>4
<1> HIDE DEF n
<1>7. \A v \in Workers : DOMAIN stack'[v] = DOMAIN stack[v]
  BY <1>3, <1>4
<1>8. \A v \in Workers : \A i \in DOMAIN stack[v] :
         /\ stack[v][i] \in Active
         /\ v # w \/ i # 1 => stack'[v][i] = stack[v][i]
         /\ stack'[v][i].item = stack[v][i].item
  <2>1. \A v \in Workers : \A i \in DOMAIN stack[v] : stack[v][i] \in Active
    BY <1>1, LenProperties, ElementOfSeq DEF Active
  <2> QED
    BY <2>1, <1>2, <1>3, <1>4
<1>9. Once'
  BY <1>7, <1>8 DEF Once
<1>10. 1 \in DOMAIN stack[w]
  BY <1>4
<1>11. Active' = (Active \ {top(w)}) \cup {a}
  <2>1. Active' \subseteq (Active \ {top(w)}) \cup {a}
    <3>1. SUFFICES ASSUME NEW v \in Workers, NEW i \in DOMAIN stack[v], stack'[v][i] # a
          PROVE  stack'[v][i] \in Active /\ stack'[v][i] # top(w)
      BY <1>7 DEF Active
    <3>2. v # w \/ i # 1
      BY <3>1, <1>4
    <3>3. stack'[v][i] = stack[v][i] /\ stack[v][i] \in Active
      BY <3>2, <1>8
    <3>4. stack[v][i] # stack[w][1]
      BY <3>2, <1>10 DEF Once
    <3> QED
      BY <3>3, <3>4, <1>2
  <2>2. a \in Active'
    BY <1>2, <1>4, <1>7, <1>10 DEF Active
  <2>3. ASSUME NEW v \in Workers, NEW i \in DOMAIN stack[v], stack[v][i] # top(w)
        PROVE  stack'[v][i] = stack[v][i]
    BY <2>3, <1>2, <1>8
  <2> QED
    BY <2>1, <2>2, <2>3, <1>7 DEF Active
<1> QED
  BY <1>2, <1>5, <1>6, <1>9, <1>11

-----------------------------------------------------------------------------

LEMMA ItemIsPair ==
    ASSUME NEW x \in Items
    PROVE  /\ x[1] \in 1 .. MaxNodes /\ x[2] \in 0 .. MaxChildren /\ x = <<x[1], x[2]>>
           /\ <<x[1], 0>> \in Items
           /\ isTask(x) <=> x = <<x[1], 0>>
BY Bounds DEF Items, isTask

LEMMA TaskIsItem ==
    ASSUME TypeOK, NEW n \in tasks
    PROVE  n \in 1 .. MaxNodes /\ <<n, 0>> \in Items /\ isTask(<<n, 0>>) /\ <<n, 0>>[1] = n
<1>1. Len(kind) \in Nat /\ tasks = 1 .. Len(kind)
  BY LenProperties DEF TypeOK, tasks
<1> QED
  BY <1>1, Bounds DEF TypeOK, Items, isTask

LEMMA ChildIsItem ==
    ASSUME TypeOK, NEW n \in 1 .. MaxNodes
    PROVE  /\ childrenOf(n) \subseteq Items
           /\ \A x \in childrenOf(n) : x[1] = n /\ ~isTask(x)
           /\ children[n] = 0 => childrenOf(n) = {}
<1>1. children[n] \in 0 .. MaxChildren
  BY DEF TypeOK
<1> QED
  BY <1>1, Bounds DEF childrenOf, Items, isTask

LEMMA ReadyIsItem ==
    ASSUME TypeOK, NEW x \in ready
    PROVE  /\ x \in Items /\ x \notin entered /\ predecessors(x) \subseteq done
           /\ IF isTask(x) THEN x[1] \in tasks
              ELSE x[1] \in opened /\ x \in childrenOf(x[1])
<1>1. x \notin entered /\ predecessors(x) \subseteq done
  BY DEF ready
<1>2. CASE \E n \in tasks : x = <<n, 0>>
  BY <1>1, <1>2, TaskIsItem
<1>3. CASE \E n \in opened : x \in childrenOf(n)
  <2>1. PICK n \in opened : x \in childrenOf(n)
    BY <1>3
  <2>2. n \in 1 .. MaxNodes
    BY TaskIsItem DEF TypeOK
  <2> QED
    BY <1>1, <2>1, <2>2, ChildIsItem
<1> QED
  BY <1>2, <1>3 DEF ready

LEMMA SameGraph ==
    ASSUME kind' = kind, before' = before, children' = children, links' = links
    PROVE  /\ tasks' = tasks
           /\ \A n : childrenOf(n)' = childrenOf(n)
           /\ \A x : predecessors(x)' = predecessors(x)
           /\ \A x, y : comesBefore(x, y)' <=> comesBefore(x, y)
BY DEF tasks, childrenOf, predecessors, comesBefore, isTask

LEMMA SuspendedIsActive ==
    ASSUME TypeOK, NEW n
    PROVE  suspended(n) <=> \E a \in Active : a.item = <<n, 0>>
<1>1. \A w \in Workers : \A i \in DOMAIN stack[w] : stack[w][i] \in Activation
  BY LenProperties, ElementOfSeq DEF TypeOK
<1> QED
  BY <1>1 DEF suspended, Active

LEMMA EmptyStacks ==
    ASSUME \A w \in Workers : stack[w] = <<>>
    PROVE  Active = {}
BY DEF Active

LEMMA InitInv == Init => RunInv
<1> SUFFICES ASSUME Init
             PROVE  RunInv
  OBVIOUS
<1> USE Bounds
<1>1. TypeOK
  <2>1. kind \in Seq({"task", "dynamic"}) /\ Len(kind) <= MaxNodes /\ tasks = {}
    BY DEF Init, tasks
  <2>2. children \in [1 .. MaxNodes -> 0 .. MaxChildren]
    BY DEF Init
  <2>3. reported \in [Items -> Report]
    BY DEF Init, Report
  <2>4. stack \in [Workers -> Seq(Activation)]
    BY DEF Init
  <2> QED
    BY <2>1, <2>2, <2>3, <2>4 DEF Init, TypeOK
<1>2. AtRest
  BY DEF Init, AtRest
<1>3. Active = {} /\ Stacks /\ Once
  BY EmptyStacks DEF Init, Stacks, Once
<1>4. Reports
  BY DEF Init, Reports
<1>5. Families
  BY DEF Init, Families
<1>6. Ordered /\ CanceledStaysCanceled
  BY DEF Init, Ordered, CanceledStaysCanceled
<1> QED
  BY <1>1, <1>2, <1>3, <1>4, <1>5, <1>6 DEF RunInv

LEMMA NextBuild == RunInv /\ Build => RunInv'
<1> SUFFICES ASSUME RunInv, Build
             PROVE  RunInv'
  OBVIOUS
<1>1. TypeOK /\ AtRest
  BY DEF RunInv
<1>2. /\ dispatch_count = 0 /\ dispatch_count' = 0
      /\ UNCHANGED <<graph, control, entered, done, stack>>
  BY DEF Build, Register, Precede, control
<1>3. /\ ~dispatched /\ entered = {} /\ done = {} /\ opened = {}
      /\ \A n \in 1 .. MaxNodes : children[n] = 0
      /\ \A w \in Workers : stack[w] = <<>>
  BY <1>1, <1>2 DEF AtRest
<1>4. /\ ~dispatched' /\ entered' = {} /\ done' = {} /\ opened' = {}
      /\ \A n \in 1 .. MaxNodes : children'[n] = 0
      /\ \A w \in Workers : stack'[w] = <<>>
      /\ stop_requested' = stop_requested
  BY <1>2, <1>3 DEF graph, control
<1>5. Active' = {}
  BY <1>4 DEF Active
<1>6. \A x \in Items : reported[x] \in {"none", "submitted"}
  <2>1. \A x \in Items : reported[x] \in Report /\ reported[x] \notin {"started", "finished", "canceled"}
    BY <1>1, <1>3 DEF RunInv, TypeOK, Reports
  <2> QED
    BY <2>1 DEF Report
<1>7. /\ reported' \in [Items -> Report]
      /\ \A x \in Items : reported'[x] \in {"none", "submitted"}
  <2>1. PICK x : reported' = reported \/ reported' = [reported EXCEPT ![x] = "submitted"]
    BY DEF Build, Register, Precede
  <2> QED
    BY <2>1, <1>1, <1>6 DEF TypeOK, Report
<1>8. kind' \in Seq({"task", "dynamic"}) /\ Len(kind') <= MaxNodes
  <2>1. CASE \E k \in {"task", "dynamic"} : Register(k)
    <3>1. PICK k \in {"task", "dynamic"} : Register(k)
      BY <2>1
    <3>2. kind' = Append(kind, k) /\ Len(kind) + 1 <= MaxNodes
      BY <3>1 DEF Register
    <3> QED
      BY <3>2, <1>1, AppendProperties DEF TypeOK
  <2>2. CASE kind' = kind
    BY <2>2, <1>1 DEF TypeOK
  <2> QED
    BY <2>1, <2>2 DEF Build, Precede
<1>9. TypeOK'
  <2>1. children' = children /\ dispatched' = dispatched /\ stack' = stack
    BY <1>2 DEF graph, control
  <2>2. opened' \subseteq tasks' /\ entered' \subseteq Items /\ done' \subseteq Items
    BY <1>4
  <2> QED
    BY <2>1, <2>2, <1>1, <1>2, <1>4, <1>7, <1>8 DEF TypeOK
<1>10. AtRest' /\ Once' /\ Stacks'
  BY <1>4, <1>5 DEF AtRest, Once, Stacks
<1>11. Reports'
  BY <1>4, <1>7 DEF Reports
<1>12. Families' /\ Ordered'
  BY <1>4 DEF Families, Ordered
<1>13. CanceledStaysCanceled'
  BY <1>7 DEF CanceledStaysCanceled
<1> QED
  BY <1>9, <1>10, <1>11, <1>12, <1>13 DEF RunInv

LEMMA NextControl ==
    RunInv /\ (Complete \/ RequestStop \/ (\E requested \in BOOLEAN : Dispatch(requested))
               \/ UNCHANGED vars) => RunInv'
<1> SUFFICES ASSUME RunInv
             PROVE  Complete \/ RequestStop \/ (\E requested \in BOOLEAN : Dispatch(requested))
                    \/ UNCHANGED vars => RunInv'
  OBVIOUS
<1>1. TypeOK /\ AtRest /\ Stacks /\ Once /\ Reports /\ Families /\ Ordered /\ CanceledStaysCanceled
  BY DEF RunInv
<1>2. ASSUME Complete \/ RequestStop \/ UNCHANGED vars
      PROVE  RunInv'
  <2>1. /\ UNCHANGED <<kind, before, children, links, opened, dispatch_count, entered, done,
                       reported, stack>>
        /\ dispatched' = dispatched \/ (Complete /\ dispatched' = FALSE)
        /\ stop_requested' \in BOOLEAN /\ (stop_requested => stop_requested')
    BY <1>1, <1>2 DEF Complete, RequestStop, vars, plan, graph, control, TypeOK
  <2>2. dispatched' \in BOOLEAN /\ (dispatch_count = 0 => ~dispatched')
    <3>1. CASE dispatched' = dispatched
      BY <3>1, <1>1 DEF TypeOK, AtRest
    <3>2. CASE dispatched' = FALSE
      BY <3>2
    <3> QED
      BY <2>1, <3>1, <3>2
  <2>3. TypeOK'
    BY <2>1, <2>2, <1>1, SameGraph DEF TypeOK
  <2>4. Active' = Active
    BY <2>1 DEF Active
  <2>5. Complete => \A w \in Workers : stack[w] = <<>>
    BY DEF Complete
  <2>6. AtRest'
    BY <2>1, <2>2, <2>5, <1>1 DEF AtRest
  <2>7. Stacks' /\ Once'
    BY <2>1, <2>4, <1>1, SameGraph DEF Stacks, Once, allDone
  <2>8. Reports'
    BY <2>1, <2>4, <1>1 DEF Reports, final
  <2>9. Families' /\ Ordered' /\ CanceledStaysCanceled'
    BY <2>1, <1>1, SameGraph DEF Families, Ordered, CanceledStaysCanceled, allDone
  <2> QED
    BY <2>3, <2>6, <2>7, <2>8, <2>9 DEF RunInv
<1>3. ASSUME NEW requested \in BOOLEAN, Dispatch(requested)
      PROVE  RunInv'
  <2>1. /\ dispatched' = TRUE /\ dispatch_count' = dispatch_count + 1
        /\ stop_requested' = requested /\ kind' = kind /\ stack' = stack
        /\ children' = [n \in 1 .. MaxNodes |-> 0] /\ links' = {} /\ opened' = {}
        /\ entered' = {} /\ done' = {}
        /\ reported' = [x \in Items |-> IF isTask(x) THEN "submitted" ELSE "none"]
        /\ ~dispatched
    BY <1>3 DEF Dispatch, plan
  <2>2. \A w \in Workers : stack'[w] = <<>>
    BY <2>1, <1>1 DEF AtRest
  <2>3. Active' = {}
    BY <2>2 DEF Active
  <2>4. /\ reported' \in [Items -> Report]
        /\ \A x \in Items : reported'[x] \in {"none", "submitted"}
    BY <2>1 DEF Report
  <2>5. TypeOK'
    <3>1. children' \in [1 .. MaxNodes -> 0 .. MaxChildren]
      BY <2>1, Bounds
    <3>2. dispatch_count' \in Nat
      BY <2>1, <1>1 DEF TypeOK
    <3> QED
      BY <3>1, <3>2, <2>1, <2>4, <1>1 DEF TypeOK
  <2>6. AtRest' /\ Stacks' /\ Once'
    BY <2>1, <2>2, <2>3, <1>1 DEF AtRest, Stacks, Once, TypeOK
  <2>7. Reports'
    BY <2>1, <2>4 DEF Reports
  <2>8. Families' /\ Ordered'
    BY <2>1 DEF Families, Ordered
  <2>9. CanceledStaysCanceled'
    BY <2>4 DEF CanceledStaysCanceled
  <2> QED
    BY <2>5, <2>6, <2>7, <2>8, <2>9 DEF RunInv
<1> QED
  BY <1>2, <1>3
\* While a worker works the run is under way.
LEMMA Underway ==
    ASSUME RunInv, dispatched, dispatched' = dispatched, dispatch_count' = dispatch_count
    PROVE  AtRest'
BY DEF RunInv, AtRest

\* A canceled x comes before no item whose body was called when x is entered.
LEMMA NothingBefore ==
    ASSUME RunInv, NEW x \in ready, NEW y \in entered, comesBefore(x, y)
    PROVE  FALSE
<1>1. TypeOK /\ Reports /\ Families /\ Ordered
  BY DEF RunInv
<1>2. /\ x \in Items /\ x \notin entered /\ predecessors(x) \subseteq done
      /\ IF isTask(x) THEN x[1] \in tasks ELSE x[1] \in opened /\ x \in childrenOf(x[1])
  BY <1>1, ReadyIsItem
<1>3. x \notin done
  BY <1>1, <1>2 DEF Reports, final
<1>4. y \in Items /\ predecessors(y) \subseteq done
  BY <1>1 DEF Ordered, TypeOK
<1>5. CASE x \in predecessors(y)
  BY <1>3, <1>4, <1>5
<1>6. CASE <<x[1], 0>> \in predecessors(y)
  <2>1. <<x[1], 0>> \in done /\ x[1] \in 1 .. MaxNodes /\ (isTask(x) => x = <<x[1], 0>>)
    BY <1>2, <1>4, <1>6, ItemIsPair
  <2>2. childrenOf(x[1]) \subseteq done
    BY <2>1, <1>1 DEF Families, allDone
  <2> QED
    BY <2>1, <2>2, <1>2, <1>3
<1>7. CASE ~isTask(y) /\ x \in predecessors(<<y[1], 0>>)
  <2>1. y[1] \in opened /\ y[1] \in 1 .. MaxNodes /\ <<y[1], 0>> \in Items
    BY <1>1, <1>4, <1>7, ItemIsPair DEF Families
  <2>2. reported[<<y[1], 0>>] \in {"started", "finished"}
    BY <2>1, <1>1 DEF Families
  <2>3. <<y[1], 0>> \in entered
    BY <2>1, <2>2, <1>1 DEF Reports
  <2> QED
    BY <2>3, <1>1, <1>3, <1>7 DEF Ordered
<1> QED
  BY <1>5, <1>6, <1>7 DEF comesBefore

LEMMA NextEnter ==
    ASSUME RunInv, dispatched, NEW w \in Workers, NEW x \in ready, Enter(w, x)
    PROVE  RunInv'
<1> DEFINE cancel == shouldCancel(x)
           a == [item |-> x, step |-> IF cancel THEN "canceled" ELSE "body"]
<1>1. /\ TypeOK /\ AtRest /\ Stacks /\ Once /\ Reports /\ Families /\ Ordered
      /\ CanceledStaysCanceled
  BY DEF RunInv
<1>2. /\ x \in Items /\ x \notin entered /\ predecessors(x) \subseteq done
      /\ IF isTask(x) THEN x[1] \in tasks ELSE x[1] \in opened /\ x \in childrenOf(x[1])
  BY <1>1, ReadyIsItem
<1>3. /\ UNCHANGED <<kind, before, children, links, opened, dispatched, dispatch_count,
                     stop_requested, done>>
      /\ stack' = [stack EXCEPT ![w] = <<a>> \o @]
      /\ reported' = [reported EXCEPT ![x] = IF cancel THEN "canceled" ELSE "started"]
      /\ entered' = entered \cup {x}
  BY DEF Enter, invoke, plan, graph, control
<1>4. a \in Activation /\ \A b \in Active : b.item # x
  BY <1>1, <1>2 DEF Activation, Stacks
<1>5. stack' \in [Workers -> Seq(Activation)] /\ Once' /\ Active' = Active \cup {a}
  BY <1>1, <1>3, <1>4, PushActive
<1>6. /\ reported' \in [Items -> Report]
      /\ reported'[x] = IF cancel THEN "canceled" ELSE "started"
      /\ \A y \in Items : y # x => reported'[y] = reported[y]
  BY <1>1, <1>2, <1>3 DEF TypeOK, Report
<1>7. TypeOK'
  <2>1. tasks' = tasks
    BY <1>3, SameGraph
  <2> QED
    BY <2>1, <1>1, <1>2, <1>3, <1>5, <1>6 DEF TypeOK
<1>8. AtRest'
  BY <1>3, Underway
<1>9. x \notin done /\ (isTask(x) => x[1] \notin opened /\ children[x[1]] = 0)
  <2>1. x \notin done /\ reported[x] \notin {"started", "finished", "canceled"}
    BY <1>1, <1>2 DEF Reports, final
  <2>2. ASSUME isTask(x)
        PROVE  x[1] \notin opened /\ children[x[1]] = 0
    <3>1. x = <<x[1], 0>> /\ x[1] \in 1 .. MaxNodes
      BY <2>2, <1>2, ItemIsPair
    <3>2. x[1] \notin opened /\ ~(children[x[1]] > 0)
      BY <3>1, <2>1, <1>1 DEF Families
    <3>3. children[x[1]] \in Nat
      BY <3>1, <1>1, Bounds DEF TypeOK
    <3> QED
      BY <3>2, <3>3
  <2> QED
    BY <2>1, <2>2
<1>10. Stacks'
  <2>1. ASSUME NEW b \in Active
        PROVE  /\ b.item \in entered' /\ b.item \notin done'
               /\ reported'[b.item] = IF b.step = "canceled" THEN "canceled" ELSE "started"
               /\ b.step = "joining" => isTask(b.item) /\ b.item[1] \in opened'
               /\ b.step = "body" /\ isTask(b.item) /\ b.item[1] \in opened' => allDone(b.item[1])
    <3>1. b.item \in Items /\ b.item # x
      BY <1>4 DEF Active, Activation
    <3> QED
      BY <3>1, <1>1, <1>3, <1>6 DEF Stacks
  <2>2. /\ a.item \in entered' /\ a.item \notin done'
        /\ reported'[a.item] = IF a.step = "canceled" THEN "canceled" ELSE "started"
        /\ a.step # "joining"
        /\ isTask(a.item) => a.item[1] \notin opened'
    BY <1>3, <1>6, <1>9
  <2>3. \A n : allDone(n)' <=> allDone(n)
    BY <1>3, SameGraph DEF allDone
  <2> HIDE DEF a
  <2> QED
    BY <2>1, <2>2, <2>3, <1>5 DEF Stacks
<1>11. Reports'
  <2>1. SUFFICES ASSUME NEW y \in Items
        PROVE  /\ y \in entered' <=> reported'[y] \in {"started", "finished", "canceled"}
               /\ y \in entered' => (\E b \in Active' : b.item = y) \/ reported'[y] \in {"finished", "canceled"}
               /\ y \in done => reported'[y] \in {"finished", "canceled"}
               /\ reported'[y] = "canceled" => stop_requested
    BY <1>3 DEF Reports, final
  <2>2. CASE y # x
    BY <2>2, <1>1, <1>3, <1>5, <1>6 DEF Reports, final
  <2>3. CASE y = x
    BY <2>3, <1>3, <1>5, <1>6, <1>9 DEF shouldCancel
  <2> QED
    BY <2>2, <2>3
<1>12. Families'
  <2>1. \A y \in entered' : IF isTask(y) THEN y[1] \in tasks ELSE y[1] \in opened /\ y \in childrenOf(y[1])
    BY <1>1, <1>2, <1>3 DEF Families
  <2>2. ASSUME NEW n \in 1 .. MaxNodes, n \in opened \/ children[n] > 0
        PROVE  n \in tasks /\ reported'[<<n, 0>>] \in {"started", "finished"}
    <3>1. n \in tasks /\ reported[<<n, 0>>] \in {"started", "finished"} /\ <<n, 0>> \in Items
      BY <2>2, <1>1, TaskIsItem DEF Families
    <3>2. <<n, 0>> # x
      BY <3>1, <1>1, <1>2 DEF Reports
    <3> QED
      BY <3>1, <3>2, <1>6
  <2> QED
    BY <2>1, <2>2, <1>1, <1>3, SameGraph DEF Families, allDone
<1>13. Ordered'
  BY <1>1, <1>2, <1>3, SameGraph DEF Ordered
<1>14. CanceledStaysCanceled'
  <2>1. SUFFICES ASSUME NEW p \in Items, NEW q \in Items, comesBefore(p, q),
                        reported'[p] = "canceled", reported'[q] \in {"started", "finished"}
        PROVE  q \in NonCancellable
    BY <1>3, SameGraph DEF CanceledStaysCanceled
  <2>2. CASE q = x
    <3>1. ~cancel /\ p # x
      BY <2>1, <2>2, <1>6
    <3>2. stop_requested
      BY <3>1, <2>1, <1>1, <1>6 DEF Reports
    <3> QED
      BY <3>1, <3>2, <2>2 DEF shouldCancel
  <2>3. CASE q # x /\ p # x
    BY <2>1, <2>3, <1>1, <1>6 DEF CanceledStaysCanceled
  <2>4. CASE q # x /\ p = x
    <3>1. q \in entered
      BY <2>1, <2>4, <1>1, <1>6 DEF Reports
    <3> QED
      BY <3>1, <2>1, <2>4, NothingBefore
  <2> QED
    BY <2>2, <2>3, <2>4
<1> QED
  BY <1>5, <1>7, <1>8, <1>10, <1>11, <1>12, <1>13, <1>14 DEF RunInv
\* The task whose body builds has not joined, and none of its children is entered.
LEMMA Building ==
    ASSUME RunInv, NEW w \in Workers, building(w)
    PROVE  LET x == top(w).item
           IN  /\ stack[w] # <<>> /\ top(w) \in Active /\ top(w) = [item |-> x, step |-> "body"]
               /\ x \in Items /\ x = <<x[1], 0>> /\ isTask(x)
               /\ x[1] \in 1 .. MaxNodes /\ x[1] \in tasks /\ x[1] \notin opened
               /\ x \in entered /\ x \notin done /\ reported[x] = "started"
               /\ \A y \in Items : y[1] = x[1] /\ ~isTask(y) => y \notin entered
<1> DEFINE x == top(w).item
<1>1. TypeOK /\ Stacks /\ Families
  BY DEF RunInv
<1>2. stack[w] # <<>> /\ top(w).step = "body" /\ isTask(x) /\ x[1] \notin opened
  BY DEF building, at
<1>3. top(w) \in Active /\ top(w) \in Activation
  BY <1>1, <1>2, TopActive
<1>4. x \in Items /\ top(w) = [item |-> x, step |-> "body"]
  BY <1>2, <1>3 DEF Activation
<1>5. x \in entered /\ x \notin done /\ reported[x] = "started"
  BY <1>1, <1>2, <1>3 DEF Stacks
<1>6. x[1] \in 1 .. MaxNodes /\ x = <<x[1], 0>> /\ x[1] \in tasks
  BY <1>1, <1>2, <1>4, <1>5, ItemIsPair DEF Families
<1>7. \A y \in Items : y[1] = x[1] /\ ~isTask(y) => y \notin entered
  BY <1>1, <1>2 DEF Families
<1> QED
  BY <1>2, <1>3, <1>4, <1>5, <1>6, <1>7

\* The bound on the children of all tasks bounds those of each.
LEMMA RoomForAChild ==
    ASSUME TypeOK, NEW n \in 1 .. MaxNodes, Cardinality(spawned) < MaxChildren
    PROVE  children[n] < MaxChildren
<1> DEFINE c == children[n]
           f == [x \in childrenOf(n) |-> x[2]]
<1>1. c \in 0 .. MaxChildren
  BY DEF TypeOK
<1>2. IsFiniteSet(spawned)
  <2>1. \A m \in 1 .. MaxNodes : childrenOf(m) \subseteq Items
    BY ChildIsItem
  <2>2. spawned \subseteq Items
    BY <2>1 DEF spawned
  <2>3. IsFiniteSet(1 .. MaxNodes) /\ IsFiniteSet(0 .. MaxChildren)
    BY Bounds, FS_Interval
  <2>4. IsFiniteSet(Items)
    BY <2>3, FS_Product DEF Items
  <2> QED
    BY <2>2, <2>4, FS_Subset
<1>3. childrenOf(n) \subseteq spawned
  BY DEF spawned
<1>4. IsFiniteSet(childrenOf(n)) /\ Cardinality(childrenOf(n)) <= Cardinality(spawned)
  BY <1>2, <1>3, FS_Subset
<1>5. f \in Surjection(childrenOf(n), 1 .. c)
  <2>1. f \in [childrenOf(n) -> 1 .. c]
    BY DEF childrenOf
  <2>2. \A k \in 1 .. c : \E x \in childrenOf(n) : f[x] = k
    <3>1. TAKE k \in 1 .. c
    <3>2. <<n, k>> \in childrenOf(n) /\ <<n, k>>[2] = k
      BY DEF childrenOf
    <3> QED
      BY <3>2
  <2> HIDE DEF f
  <2> QED
    BY <2>1, <2>2 DEF Surjection
<1>6. Cardinality(1 .. c) <= Cardinality(childrenOf(n))
  BY <1>4, <1>5, FS_Surjection
<1>7. Cardinality(1 .. c) = c
  BY <1>1, Bounds, FS_Interval
<1>8. Cardinality(spawned) \in Nat /\ Cardinality(childrenOf(n)) \in Nat
  BY <1>2, <1>4, FS_CardinalityType
<1> QED
  BY <1>1, <1>4, <1>6, <1>7, <1>8, Bounds

LEMMA NextSpawn ==
    ASSUME RunInv, dispatched, NEW w \in Workers, Spawn(w)
    PROVE  RunInv'
<1> DEFINE n == top(w).item[1]
           k == children[n] + 1
           c == <<n, k>>
<1>1. /\ TypeOK /\ AtRest /\ Stacks /\ Once /\ Reports /\ Families /\ Ordered
      /\ CanceledStaysCanceled
  BY DEF RunInv
<1>2. building(w) /\ Cardinality(spawned) < MaxChildren
  BY DEF Spawn
<1>3. /\ n \in 1 .. MaxNodes /\ n \in tasks /\ n \notin opened
      /\ <<n, 0>> \in entered /\ <<n, 0>> \notin done /\ reported[<<n, 0>>] = "started"
      /\ \A y \in Items : y[1] = n /\ ~isTask(y) => y \notin entered
  BY <1>2, Building
<1> HIDE DEF n
<1>4. children[n] \in Nat /\ k \in 1 .. MaxChildren /\ c \in Items /\ c[1] = n /\ ~isTask(c)
  <2>1. children[n] \in 0 .. MaxChildren /\ children[n] < MaxChildren
    BY <1>1, <1>2, <1>3, RoomForAChild DEF TypeOK
  <2>2. children[n] \in Nat /\ k \in 1 .. MaxChildren
    BY <2>1, Bounds
  <2> HIDE DEF k
  <2> QED
    BY <2>2, <1>3, Bounds DEF Items, isTask
<1>5. /\ UNCHANGED <<kind, before, links, opened, dispatched, dispatch_count, stop_requested,
                     entered, done, stack>>
      /\ children' = [children EXCEPT ![n] = k]
  BY DEF Spawn, plan, control, n
<1>6. children'[n] = k /\ \A m \in 1 .. MaxNodes : m # n => children'[m] = children[m]
  BY <1>1, <1>3, <1>5 DEF TypeOK
<1>7. reported' = [reported EXCEPT ![c] = "submitted"]
  BY <1>6 DEF Spawn, n
<1>8. c \notin entered
  BY <1>3, <1>4
<1> HIDE DEF k, c
<1>9. /\ reported' \in [Items -> Report] /\ reported'[c] = "submitted"
      /\ \A x \in Items : x # c => reported'[x] = reported[x]
  BY <1>1, <1>4, <1>7 DEF TypeOK, Report
<1>10. reported[c] \notin {"started", "finished", "canceled"} /\ c \notin done
  BY <1>1, <1>4, <1>8 DEF Reports, final
<1>11. tasks' = tasks /\ Active' = Active
  BY <1>5 DEF tasks, Active
<1>12. \A m \in 1 .. MaxNodes : m # n => childrenOf(m)' = childrenOf(m)
  BY <1>6 DEF childrenOf
<1>13. TypeOK'
  <2>1. children' \in [1 .. MaxNodes -> 0 .. MaxChildren]
    BY <1>1, <1>3, <1>4, <1>5 DEF TypeOK
  <2> QED
    BY <2>1, <1>1, <1>5, <1>9, <1>11 DEF TypeOK
<1>14. AtRest'
  BY <1>5, Underway
<1>15. Once'
  BY <1>1, <1>5 DEF Once
<1>16. Stacks'
  <2>1. SUFFICES ASSUME NEW b \in Active
        PROVE  /\ reported'[b.item] = reported[b.item]
               /\ b.step = "body" /\ isTask(b.item) /\ b.item[1] \in opened =>
                     allDone(b.item[1])'
    BY <1>1, <1>5, <1>11 DEF Stacks
  <2>2. b.item \in entered /\ b.item \in Items
    BY <1>1 DEF Stacks, Active, Activation
  <2>3. reported'[b.item] = reported[b.item]
    BY <2>2, <1>8, <1>9
  <2>4. ASSUME b.step = "body", isTask(b.item), b.item[1] \in opened
        PROVE  allDone(b.item[1])'
    <3>1. b.item[1] # n /\ b.item[1] \in 1 .. MaxNodes /\ allDone(b.item[1])
      BY <2>2, <2>4, <1>1, <1>3, ItemIsPair DEF Stacks
    <3> QED
      BY <3>1, <1>5, <1>12 DEF allDone
  <2> QED
    BY <2>3, <2>4
<1>17. Reports'
  <2>1. SUFFICES ASSUME NEW y \in Items
        PROVE  /\ y \in entered <=> reported'[y] \in {"started", "finished", "canceled"}
               /\ y \in entered => (\E b \in Active : b.item = y) \/ reported'[y] \in {"finished", "canceled"}
               /\ y \in done => reported'[y] \in {"finished", "canceled"}
               /\ reported'[y] = "canceled" => stop_requested
    BY <1>5, <1>11 DEF Reports, final
  <2>2. CASE y # c
    BY <2>2, <1>1, <1>9 DEF Reports, final
  <2>3. CASE y = c
    BY <2>3, <1>8, <1>9, <1>10
  <2> QED
    BY <2>2, <2>3
<1>18. Families'
  <2>1. \A y \in entered : IF isTask(y) THEN y[1] \in tasks ELSE y[1] \in opened /\ y \in childrenOf(y[1])'
    <3>1. SUFFICES ASSUME NEW y \in entered, ~isTask(y)
          PROVE  y[1] \in opened /\ y \in childrenOf(y[1])'
      BY <1>1 DEF Families
    <3>2. y[1] \in opened /\ y \in childrenOf(y[1]) /\ y \in Items
      BY <3>1, <1>1 DEF Families, TypeOK
    <3>3. y[1] # n /\ y[1] \in 1 .. MaxNodes
      BY <3>2, <1>3, ItemIsPair
    <3> QED
      BY <3>2, <3>3, <1>12
  <2>2. ASSUME NEW m \in 1 .. MaxNodes, m \in opened \/ children'[m] > 0
        PROVE  m \in tasks /\ reported'[<<m, 0>>] \in {"started", "finished"}
    <3>1. m \in tasks /\ reported[<<m, 0>>] \in {"started", "finished"}
      BY <2>2, <1>1, <1>3, <1>6 DEF Families
    <3>2. <<m, 0>> \in Items /\ <<m, 0>> # c
      BY <3>1, <1>1, <1>4, TaskIsItem
    <3> QED
      BY <3>1, <3>2, <1>9
  <2>3. ASSUME NEW m \in 1 .. MaxNodes, <<m, 0>> \in done
        PROVE  allDone(m)'
    <3>1. m # n /\ allDone(m)
      BY <2>3, <1>1, <1>3 DEF Families
    <3> QED
      BY <3>1, <1>5, <1>12 DEF allDone
  <2> QED
    BY <2>1, <2>2, <2>3, <1>5, <1>11 DEF Families
<1>19. \A y \in entered : predecessors(y)' = predecessors(y)
  <2>1. SUFFICES ASSUME NEW y \in entered, ~isTask(y)
        PROVE  predecessors(y)' = predecessors(y)
    BY <1>5, <1>11 DEF predecessors
  <2>2. y[1] # n /\ y[1] \in 1 .. MaxNodes
    BY <2>1, <1>1, <1>3, ItemIsPair DEF TypeOK
  <2> QED
    BY <2>1, <2>2, <1>5, <1>12 DEF predecessors
<1>20. Ordered'
  BY <1>1, <1>5, <1>19 DEF Ordered
<1>21. CanceledStaysCanceled'
  <2>1. SUFFICES ASSUME NEW p \in Items, NEW q \in Items, comesBefore(p, q)',
                        reported'[p] = "canceled", reported'[q] \in {"started", "finished"}
        PROVE  q \in NonCancellable
    BY DEF CanceledStaysCanceled
  <2>2. reported[p] = "canceled" /\ reported[q] \in {"started", "finished"}
    BY <2>1, <1>9
  <2>3. q \in entered
    BY <2>2, <1>1 DEF Reports
  <2>4. ~isTask(q) => <<q[1], 0>> \in entered
    <3>1. SUFFICES ASSUME ~isTask(q)
          PROVE  <<q[1], 0>> \in entered
      OBVIOUS
    <3>2. q[1] \in opened /\ q[1] \in 1 .. MaxNodes /\ <<q[1], 0>> \in Items
      BY <2>3, <3>1, <1>1, ItemIsPair DEF Families
    <3>3. reported[<<q[1], 0>>] \in {"started", "finished"}
      BY <3>2, <1>1 DEF Families
    <3> QED
      BY <3>2, <3>3, <1>1 DEF Reports
  <2>5. comesBefore(p, q)
    BY <2>1, <2>3, <2>4, <1>19 DEF comesBefore
  <2> QED
    BY <2>2, <2>5, <1>1 DEF CanceledStaysCanceled
<1> QED
  BY <1>13, <1>14, <1>15, <1>16, <1>17, <1>18, <1>20, <1>21 DEF RunInv

LEMMA NextLink ==
    ASSUME RunInv, dispatched, NEW w \in Workers, NEW x \in Items, NEW y \in Items, Link(w, x, y)
    PROVE  RunInv'
<1> DEFINE n == top(w).item[1]
<1>1. /\ TypeOK /\ AtRest /\ Stacks /\ Once /\ Reports /\ Families /\ Ordered
      /\ CanceledStaysCanceled
  BY DEF RunInv
<1>2. building(w) /\ {x, y} \subseteq childrenOf(n)
  BY DEF Link
<1>3. /\ n \in 1 .. MaxNodes
      /\ \A z \in Items : z[1] = n /\ ~isTask(z) => z \notin entered
  BY <1>2, Building
<1> HIDE DEF n
<1>4. y \notin entered /\ ~isTask(y)
  BY <1>1, <1>2, <1>3, ChildIsItem
<1>5. /\ UNCHANGED <<kind, before, children, opened, dispatched, dispatch_count, stop_requested,
                     entered, done, reported, stack>>
      /\ links' = links \cup {<<x, y>>}
  BY DEF Link, plan, control
<1>6. tasks' = tasks /\ Active' = Active /\ \A m : childrenOf(m)' = childrenOf(m)
  BY <1>5 DEF tasks, Active, childrenOf
<1>7. \A z : z # y => predecessors(z)' = predecessors(z)
  <2>1. SUFFICES ASSUME NEW z, z # y
        PROVE  predecessors(z)' = predecessors(z)
    OBVIOUS
  <2>2. \A u : <<u, z>> \in links' <=> <<u, z>> \in links
    BY <2>1, <1>5
  <2> QED
    BY <2>2, <1>5, <1>6 DEF predecessors
<1>8. TypeOK' /\ Once'
  BY <1>1, <1>5, <1>6 DEF TypeOK, Once
<1>9. AtRest'
  BY <1>5, Underway
<1>10. Stacks' /\ Reports'
  BY <1>1, <1>5, <1>6 DEF Stacks, Reports, final, allDone
<1>11. Families'
  BY <1>1, <1>5, <1>6 DEF Families, allDone
<1>12. Ordered'
  BY <1>1, <1>4, <1>5, <1>7 DEF Ordered
<1>13. CanceledStaysCanceled'
  <2>1. SUFFICES ASSUME NEW p \in Items, NEW q \in Items, comesBefore(p, q)',
                        reported[p] = "canceled", reported[q] \in {"started", "finished"}
        PROVE  q \in NonCancellable
    BY <1>5 DEF CanceledStaysCanceled
  <2>2. q # y
    BY <2>1, <1>1, <1>4 DEF Reports
  <2>3. predecessors(q)' = predecessors(q)
    BY <2>2, <1>7
  <2>4. \A m : predecessors(<<m, 0>>)' = predecessors(<<m, 0>>)
    BY <1>4, <1>7 DEF isTask
  <2>5. comesBefore(p, q)
    BY <2>1, <2>3, <2>4 DEF comesBefore
  <2> QED
    BY <2>1, <2>5, <1>1 DEF CanceledStaysCanceled
<1> QED
  BY <1>8, <1>9, <1>10, <1>11, <1>12, <1>13 DEF RunInv

LEMMA NextJoin ==
    ASSUME RunInv, dispatched, NEW w \in Workers, Join(w)
    PROVE  RunInv'
<1> DEFINE x == top(w).item
           n == x[1]
           a == [item |-> x, step |-> "joining"]
<1>1. /\ TypeOK /\ AtRest /\ Stacks /\ Once /\ Reports /\ Families /\ Ordered
      /\ CanceledStaysCanceled
  BY DEF RunInv
<1>2. building(w) /\ goTo(w, "joining")
  BY DEF Join
<1>3. /\ stack[w] # <<>> /\ top(w) \in Active
      /\ x \in Items /\ x = <<n, 0>> /\ isTask(x)
      /\ n \in 1 .. MaxNodes /\ n \in tasks /\ n \notin opened
      /\ x \in entered /\ x \notin done /\ reported[x] = "started"
  BY <1>2, Building
<1>4. /\ UNCHANGED <<kind, before, children, links, dispatched, dispatch_count, stop_requested,
                     entered, done, reported>>
      /\ opened' = opened \cup {n}
  BY DEF Join, plan, control
<1>5. /\ stack' \in [Workers -> Seq(Activation)] /\ Once'
      /\ Active' = (Active \ {top(w)}) \cup {a}
  BY <1>1, <1>2, <1>3, GoToActive
<1>6. \A b \in Active \ {top(w)} : b.item # x
  BY <1>1, <1>3, OneActivation
<1>7. TypeOK'
  <2>1. tasks' = tasks
    BY <1>4, SameGraph
  <2> QED
    BY <2>1, <1>1, <1>3, <1>4, <1>5 DEF TypeOK
<1>8. AtRest'
  BY <1>4, Underway
<1>9. \A m : allDone(m)' <=> allDone(m)
  BY <1>4, SameGraph DEF allDone
<1>10. Stacks'
  <2>1. ASSUME NEW b \in Active \ {top(w)}
        PROVE  /\ b.item \in entered /\ b.item \notin done
               /\ reported[b.item] = IF b.step = "canceled" THEN "canceled" ELSE "started"
               /\ b.step = "joining" => isTask(b.item) /\ b.item[1] \in opened'
               /\ b.step = "body" /\ isTask(b.item) /\ b.item[1] \in opened' => allDone(b.item[1])
    <3>1. b.item \in Items /\ b.item # x
      BY <1>6 DEF Active, Activation
    <3>2. isTask(b.item) => b.item[1] # n
      BY <3>1, <1>3, ItemIsPair
    <3> QED
      BY <3>1, <3>2, <1>1, <1>4 DEF Stacks
  <2>2. /\ a.item \in entered /\ a.item \notin done /\ a.step # "canceled" /\ a.step # "body"
        /\ reported[a.item] = "started" /\ isTask(a.item) /\ a.item[1] \in opened'
    BY <1>3, <1>4
  <2> HIDE DEF a
  <2> QED
    BY <2>1, <2>2, <1>4, <1>5, <1>9 DEF Stacks
<1>11. Reports'
  <2>1. \A y \in Items : (\E b \in Active : b.item = y) => \E b \in Active' : b.item = y
    <3>1. a.item = top(w).item
      OBVIOUS
    <3> HIDE DEF a
    <3>2. a \in Active' /\ \A b \in Active : b # top(w) => b \in Active'
      BY <1>5
    <3> QED
      BY <3>1, <3>2
  <2> QED
    BY <2>1, <1>1, <1>4 DEF Reports, final
<1>12. Families'
  <2>1. \A y \in entered : IF isTask(y) THEN y[1] \in tasks
                           ELSE y[1] \in opened' /\ y \in childrenOf(y[1])
    BY <1>1, <1>4 DEF Families
  <2>2. \A m \in 1 .. MaxNodes : m \in opened' \/ children[m] > 0 =>
            m \in tasks /\ reported[<<m, 0>>] \in {"started", "finished"}
    BY <1>1, <1>3, <1>4 DEF Families
  <2> QED
    BY <2>1, <2>2, <1>1, <1>4, <1>9, SameGraph DEF Families
<1>13. Ordered' /\ CanceledStaysCanceled'
  BY <1>1, <1>4, SameGraph DEF Ordered, CanceledStaysCanceled
<1> QED
  BY <1>5, <1>7, <1>8, <1>10, <1>11, <1>12, <1>13 DEF RunInv

LEMMA NextJoined ==
    ASSUME RunInv, dispatched, NEW w \in Workers, Joined(w)
    PROVE  RunInv'
<1> DEFINE x == top(w).item
           a == [item |-> x, step |-> "body"]
<1>1. /\ TypeOK /\ AtRest /\ Stacks /\ Once /\ Reports /\ Families /\ Ordered
      /\ CanceledStaysCanceled
  BY DEF RunInv
<1>2. /\ stack[w] # <<>> /\ top(w).step = "joining" /\ allDone(x[1]) /\ goTo(w, "body")
      /\ UNCHANGED <<kind, before, children, links, opened, dispatched, dispatch_count,
                     stop_requested, entered, done, reported>>
  BY DEF Joined, at, plan, graph, control
<1>3. top(w) \in Active
  BY <1>1, <1>2, TopActive
<1>4. /\ x \in entered /\ x \notin done /\ reported[x] = "started" /\ isTask(x) /\ x[1] \in opened
  BY <1>1, <1>2, <1>3 DEF Stacks
<1>5. /\ stack' \in [Workers -> Seq(Activation)] /\ Once'
      /\ Active' = (Active \ {top(w)}) \cup {a}
  BY <1>1, <1>2, GoToActive
<1>6. TypeOK'
  BY <1>1, <1>2, <1>5, SameGraph DEF TypeOK
<1>7. AtRest'
  BY <1>2, Underway
<1>8. \A m : allDone(m)' <=> allDone(m)
  BY <1>2, SameGraph DEF allDone
<1>9. Stacks'
  <2>1. /\ a.item \in entered /\ a.item \notin done /\ a.step # "canceled" /\ a.step # "joining"
        /\ reported[a.item] = "started" /\ allDone(a.item[1])
    BY <1>2, <1>4
  <2> HIDE DEF a
  <2> QED
    BY <2>1, <1>1, <1>2, <1>5, <1>8 DEF Stacks
<1>10. Reports'
  <2>1. \A y \in Items : (\E b \in Active : b.item = y) => \E b \in Active' : b.item = y
    <3>1. a.item = top(w).item
      OBVIOUS
    <3> HIDE DEF a
    <3>2. a \in Active' /\ \A b \in Active : b # top(w) => b \in Active'
      BY <1>5
    <3> QED
      BY <3>1, <3>2
  <2> QED
    BY <2>1, <1>1, <1>2 DEF Reports, final
<1>11. Families' /\ Ordered' /\ CanceledStaysCanceled'
  BY <1>1, <1>2, <1>8, SameGraph DEF Families, Ordered, CanceledStaysCanceled
<1> QED
  BY <1>5, <1>6, <1>7, <1>9, <1>10, <1>11 DEF RunInv

LEMMA NextReturn ==
    ASSUME RunInv, dispatched, NEW w \in Workers, Return(w)
    PROVE  RunInv'
<1> DEFINE x == top(w).item
           n == x[1]
           unjoined  == isTask(x) /\ n \notin opened /\ children[n] > 0
           takesTask == ~isTask(x) /\ ~suspended(n) /\ childrenOf(n) \subseteq done \cup {x}
           step == top(w).step
<1>1. /\ TypeOK /\ AtRest /\ Stacks /\ Once /\ Reports /\ Families /\ Ordered
      /\ CanceledStaysCanceled
  BY DEF RunInv
<1>2. /\ stack[w] # <<>> /\ step \in {"body", "canceled"}
      /\ stack' = [stack EXCEPT ![w] = Tail(@)]
      /\ UNCHANGED <<kind, before, children, links, dispatched, dispatch_count, stop_requested,
                     entered>>
      /\ opened' = IF unjoined THEN opened \cup {n} ELSE opened
      /\ done' = done \cup (IF unjoined THEN {} ELSE {x})
                      \cup (IF takesTask THEN {<<n, 0>>} ELSE {})
      /\ reported' = [reported EXCEPT ![x] = IF at(w, "body") THEN "finished" ELSE @]
  BY DEF Return, at, plan, control
<1>3. top(w) \in Active /\ x \in Items
  BY <1>1, <1>2, TopActive DEF Activation
<1>4. /\ x \in entered /\ x \notin done
      /\ reported[x] = IF step = "canceled" THEN "canceled" ELSE "started"
      /\ step = "body" /\ isTask(x) /\ n \in opened => allDone(n)
  BY <1>1, <1>3 DEF Stacks
<1>5. /\ n \in 1 .. MaxNodes /\ <<n, 0>> \in Items /\ (isTask(x) <=> x = <<n, 0>>)
      /\ IF isTask(x) THEN n \in tasks ELSE n \in opened /\ x \in childrenOf(n)
  BY <1>1, <1>3, <1>4, ItemIsPair DEF Families
<1>6. /\ stack' \in [Workers -> Seq(Activation)] /\ Once'
      /\ Active' = Active \ {top(w)}
  BY <1>1, <1>2, PopActive
<1>7. \A b \in Active' : b \in Active /\ b.item \in Items /\ b.item # x
  BY <1>1, <1>3, <1>6, OneActivation DEF Active, Activation
<1>8. /\ reported' \in [Items -> Report]
      /\ reported'[x] = IF step = "canceled" THEN "canceled" ELSE "finished"
      /\ \A y \in Items : y # x => reported'[y] = reported[y]
  BY <1>1, <1>2, <1>3, <1>4 DEF TypeOK, Report, at
<1>9. \A y \in Items : reported'[y] = "canceled" <=> reported[y] = "canceled"
  BY <1>4, <1>8
<1>10. \A y \in Items : reported'[y] \in {"started", "finished"} <=> reported[y] \in {"started", "finished"}
  BY <1>2, <1>4, <1>8
<1>11. isTask(x) /\ (n \in opened \/ children[n] > 0) => step = "body"
  BY <1>1, <1>2, <1>4, <1>5 DEF Families
<1>12. takesTask => /\ <<n, 0>> # x /\ <<n, 0>> \in entered /\ reported[<<n, 0>>] \in {"finished", "canceled"}
                    /\ \A b \in Active : b.item # <<n, 0>>
  <2>1. SUFFICES ASSUME takesTask
        PROVE  /\ <<n, 0>> # x /\ <<n, 0>> \in entered /\ reported[<<n, 0>>] \in {"finished", "canceled"}
               /\ \A b \in Active : b.item # <<n, 0>>
    OBVIOUS
  <2>2. n \in opened /\ <<n, 0>> # x
    BY <2>1, <1>5
  <2>3. reported[<<n, 0>>] \in {"started", "finished"}
    BY <2>2, <1>1, <1>5 DEF Families
  <2>4. <<n, 0>> \in entered
    BY <2>3, <1>1, <1>5 DEF Reports
  <2>5. \A b \in Active : b.item # <<n, 0>>
    BY <2>1, <1>1, SuspendedIsActive
  <2>6. final(<<n, 0>>)
    BY <2>4, <2>5, <1>1, <1>5 DEF Reports
  <2> QED
    BY <2>2, <2>4, <2>5, <2>6 DEF final
<1> HIDE DEF unjoined, takesTask, n, step, x
<1>13. unjoined => isTask(x) /\ n \in tasks /\ n \notin opened /\ children[n] > 0
  BY <1>5 DEF unjoined, x, n
<1>14. opened \subseteq opened' /\ done \subseteq done'
  BY <1>2
<1>15. \A y : y \in done' => y \in done \/ y = x \/ (takesTask /\ y = <<n, 0>>)
  BY <1>2
<1>16. tasks' = tasks /\ \A m : childrenOf(m)' = childrenOf(m)
  BY <1>2, SameGraph
<1>17. TypeOK'
  <2>1. opened' \subseteq tasks' /\ done' \subseteq Items
    BY <1>1, <1>2, <1>3, <1>5, <1>13, <1>16 DEF TypeOK
  <2> QED
    BY <2>1, <1>1, <1>2, <1>6, <1>8 DEF TypeOK
<1>18. AtRest'
  BY <1>2, Underway
<1>19. Stacks'
  <2>1. SUFFICES ASSUME NEW b \in Active'
        PROVE  /\ b.item \in entered /\ b.item \notin done'
               /\ reported'[b.item] = IF b.step = "canceled" THEN "canceled" ELSE "started"
               /\ b.step = "joining" => isTask(b.item) /\ b.item[1] \in opened'
               /\ b.step = "body" /\ isTask(b.item) /\ b.item[1] \in opened' =>
                     childrenOf(b.item[1]) \subseteq done'
    BY <1>2, <1>16 DEF Stacks, allDone
  <2>2. b \in Active /\ b.item \in Items /\ b.item # x
    BY <1>7
  <2>3. /\ b.item \in entered /\ b.item \notin done
        /\ reported[b.item] = IF b.step = "canceled" THEN "canceled" ELSE "started"
        /\ b.step = "joining" => isTask(b.item) /\ b.item[1] \in opened
        /\ b.step = "body" /\ isTask(b.item) /\ b.item[1] \in opened => allDone(b.item[1])
    BY <2>2, <1>1 DEF Stacks
  <2>4. b.item \notin done'
    BY <2>2, <2>3, <1>12, <1>15
  <2>5. isTask(b.item) /\ b.item[1] \in opened' => b.item[1] \in opened
    <3>1. SUFFICES ASSUME isTask(b.item), b.item[1] = n, unjoined
          PROVE  FALSE
      BY <1>2
    <3>2. b.item = <<n, 0>> /\ x = <<n, 0>>
      BY <3>1, <2>2, <1>5, <1>13, ItemIsPair
    <3> QED
      BY <3>2, <2>2
  <2> QED
    BY <2>2, <2>3, <2>4, <2>5, <1>8, <1>14 DEF allDone
<1>20. Reports'
  <2>1. SUFFICES ASSUME NEW y \in Items
        PROVE  /\ y \in entered <=> reported'[y] \in {"started", "finished", "canceled"}
               /\ y \in entered => (\E b \in Active' : b.item = y) \/ reported'[y] \in {"finished", "canceled"}
               /\ y \in done' => reported'[y] \in {"finished", "canceled"}
               /\ reported'[y] = "canceled" => stop_requested
    BY <1>2 DEF Reports, final
  <2>2. /\ y \in entered <=> reported[y] \in {"started", "finished", "canceled"}
        /\ y \in entered => (\E b \in Active : b.item = y) \/ reported[y] \in {"finished", "canceled"}
        /\ y \in done => reported[y] \in {"finished", "canceled"}
        /\ reported[y] = "canceled" => stop_requested
    BY <1>1 DEF Reports, final
  <2>3. CASE y = x
    BY <2>2, <2>3, <1>8, <1>4
  <2>4. CASE y # x
    <3>1. reported'[y] = reported[y]
      BY <2>4, <1>8
    <3>2. (\E b \in Active : b.item = y) => \E b \in Active' : b.item = y
      BY <2>4, <1>6 DEF x
    <3>3. y \in done' => y \in done \/ reported[y] \in {"finished", "canceled"}
      BY <2>4, <1>12, <1>15
    <3> QED
      BY <3>1, <3>2, <3>3, <2>2
  <2> QED
    BY <2>3, <2>4
<1>21. Families'
  <2>1. \A y \in entered : IF isTask(y) THEN y[1] \in tasks
                           ELSE y[1] \in opened' /\ y \in childrenOf(y[1])
    BY <1>1, <1>14 DEF Families
  <2>2. ASSUME NEW m \in 1 .. MaxNodes, m \in opened' \/ children[m] > 0
        PROVE  m \in tasks /\ reported'[<<m, 0>>] \in {"started", "finished"}
    <3>1. m \in opened \/ children[m] > 0
      BY <2>2, <1>2, <1>13
    <3>2. m \in tasks /\ reported[<<m, 0>>] \in {"started", "finished"}
      BY <3>1, <1>1 DEF Families
    <3>3. <<m, 0>> \in Items
      BY <3>2, <1>1, TaskIsItem
    <3> QED
      BY <3>2, <3>3, <1>10
  <2>3. ASSUME NEW m \in 1 .. MaxNodes, <<m, 0>> \in done'
        PROVE  childrenOf(m) \subseteq done'
    <3>1. CASE <<m, 0>> \in done
      BY <3>1, <1>1, <1>14 DEF Families, allDone
    <3>2. CASE takesTask /\ <<m, 0>> = <<n, 0>>
      <4>1. childrenOf(n) \subseteq done \cup {x} /\ ~isTask(x)
        BY <3>2 DEF takesTask, x, n
      <4>2. ~unjoined
        BY <4>1, <1>13
      <4> QED
        BY <4>1, <4>2, <3>2, <1>2
    <3>3. CASE <<m, 0>> = x /\ <<m, 0>> \notin done
      <4>1. isTask(x) /\ m = n
        BY <3>3, <1>5 DEF isTask
      <4>2. ~unjoined
        <5>1. ~takesTask
          BY <4>1 DEF takesTask, x
        <5>2. unjoined => done' = done
          BY <5>1, <1>2
        <5> QED
          BY <5>2, <2>3, <3>3
      <4>3. n \in opened \/ ~(children[n] > 0)
        BY <4>1, <4>2 DEF unjoined, x, n
      <4>4. CASE n \in opened
        BY <4>1, <4>4, <1>4, <1>11, <1>14 DEF allDone
      <4>5. CASE ~(children[n] > 0)
        <5>1. children[n] \in 0 .. MaxChildren
          BY <1>1, <1>5 DEF TypeOK
        <5>2. children[n] = 0
          BY <5>1, <4>5, Bounds
        <5> QED
          BY <5>2, <4>1, <1>1, <1>5, ChildIsItem
      <4> QED
        BY <4>3, <4>4, <4>5
    <3> QED
      BY <3>1, <3>2, <3>3, <2>3, <1>15
  <2> QED
    BY <2>1, <2>2, <2>3, <1>2, <1>16 DEF Families, allDone
<1>22. Ordered'
  BY <1>1, <1>2, <1>14, SameGraph DEF Ordered
<1>23. CanceledStaysCanceled'
  BY <1>1, <1>2, <1>9, <1>10, SameGraph DEF CanceledStaysCanceled
<1> QED
  BY <1>6, <1>17, <1>18, <1>19, <1>20, <1>21, <1>22, <1>23 DEF RunInv

LEMMA NextInv == RunInv /\ [Next]_vars => RunInv'
<1> SUFFICES ASSUME RunInv, [Next]_vars
             PROVE  RunInv'
  OBVIOUS
<1>1. CASE Build
  BY <1>1, NextBuild
<1>2. CASE Complete \/ RequestStop \/ (\E requested \in BOOLEAN : Dispatch(requested))
           \/ UNCHANGED vars
  BY <1>2, NextControl
<1>3. ASSUME dispatched, NEW w \in Workers, WorkerStep(w)
      PROVE  RunInv'
  BY <1>3, NextEnter, NextSpawn, NextJoin, NextJoined, NextReturn, NextLink DEF WorkerStep
<1> QED
  BY <1>1, <1>2, <1>3 DEF Next, Execute

LEMMA Invariance == Spec => []RunInv
BY InitInv, NextInv, PTL DEF Spec
(***************************************************************************)
(* A stop cuts a plan with dynamic tasks in one place: behind a canceled   *)
(* item no body begins of an item that may be canceled, within a subflow,  *)
(* across a task that has one, and into one.                               *)
(***************************************************************************)
THEOREM CutsStayCut == Spec => []CanceledStaysCanceled
BY Invariance, PTL DEF RunInv

\* What a worker does other than return leaves no body that finishes.
LEMMA OnlyReturnsFinish ==
    ASSUME RunInv, [Next]_vars, NEW n \in tasks,
           reported[<<n, 0>>] = "started", reported'[<<n, 0>>] = "finished"
    PROVE  \E w \in Workers : Return(w) /\ top(w).item = <<n, 0>> /\ at(w, "body")
<1>1. TypeOK /\ AtRest /\ Stacks /\ Reports
  BY DEF RunInv
<1>2. n \in 1 .. MaxNodes /\ <<n, 0>> \in Items
  BY <1>1, TaskIsItem
<1>3. ASSUME NEW k, Register(k) PROVE FALSE
  BY <1>1, <1>2, <1>3 DEF Register, AtRest, Reports
<1>4. ASSUME NEW requested, Dispatch(requested) PROVE FALSE
  BY <1>2, <1>4 DEF Dispatch, isTask
<1>5. ASSUME NEW w \in Workers, NEW x \in ready, Enter(w, x) PROVE FALSE
  <2>1. reported' = [reported EXCEPT ![x] = IF shouldCancel(x) THEN "canceled" ELSE "started"]
    BY <1>5 DEF Enter, invoke
  <2> QED
    BY <2>1, <1>1, <1>2 DEF TypeOK
<1>6. ASSUME NEW w \in Workers, Spawn(w) PROVE FALSE
  <2>1. \E y \in {<<top(w).item[1], children'[top(w).item[1]]>>} :
            reported' = [reported EXCEPT ![y] = "submitted"]
    BY <1>6 DEF Spawn
  <2> QED
    BY <2>1, <1>1, <1>2 DEF TypeOK
<1>7. reported' # reported
  OBVIOUS
<1>8. ASSUME NEW w \in Workers, Return(w)
      PROVE  top(w).item = <<n, 0>> /\ at(w, "body")
  <2>1. reported' = [reported EXCEPT ![top(w).item] = IF at(w, "body") THEN "finished" ELSE @]
    BY <1>8 DEF Return
  <2> QED
    BY <2>1, <1>1, <1>2 DEF TypeOK
<1>9. ASSUME Complete \/ RequestStop \/ UNCHANGED vars \/ (\E i, j \in tasks : Precede(i, j)) PROVE FALSE
  BY <1>7, <1>9 DEF Complete, RequestStop, vars, Precede
<1>10. ASSUME NEW w \in Workers, Join(w) \/ Joined(w) \/ (\E x, y \in Items : Link(w, x, y)) PROVE FALSE
  BY <1>7, <1>10 DEF Join, Joined, Link
<1> QED
  BY <1>3, <1>4, <1>5, <1>6, <1>8, <1>9, <1>10 DEF Next, Build, Execute, WorkerStep

LEMMA NestStep == RunInv /\ [Next]_vars =>
    [\A n \in tasks :
        reported[<<n, 0>>] = "started" /\ reported'[<<n, 0>>] = "finished" =>
           IF n \in opened THEN \A x \in childrenOf(n) : final(x)
           ELSE childrenOf(n) \cap entered = {}]_vars
<1> SUFFICES ASSUME RunInv, [Next]_vars, NEW n \in tasks,
                    reported[<<n, 0>>] = "started", reported'[<<n, 0>>] = "finished"
             PROVE  IF n \in opened THEN \A x \in childrenOf(n) : final(x)
                    ELSE childrenOf(n) \cap entered = {}
  OBVIOUS
<1>1. TypeOK /\ Stacks /\ Reports /\ Families
  BY DEF RunInv
<1>2. PICK w \in Workers : top(w).item = <<n, 0>> /\ at(w, "body")
  BY OnlyReturnsFinish
<1>3. n \in 1 .. MaxNodes /\ <<n, 0>> \in Items /\ isTask(<<n, 0>>)
  BY <1>1, TaskIsItem
<1>4. childrenOf(n) \subseteq Items /\ \A x \in childrenOf(n) : x[1] = n /\ ~isTask(x)
  BY <1>1, <1>3, ChildIsItem
<1>5. CASE n \in opened
  <2>1. top(w) \in Active /\ top(w).step = "body"
    BY <1>1, <1>2, TopActive DEF at
  <2>2. childrenOf(n) \subseteq done
    BY <2>1, <1>1, <1>2, <1>3, <1>5 DEF Stacks, allDone
  <2> QED
    BY <2>2, <1>1, <1>4, <1>5 DEF Reports
<1>6. CASE n \notin opened
  BY <1>1, <1>4, <1>6 DEF Families
<1> QED
  BY <1>5, <1>6

(***************************************************************************)
(* Task events nest in the order the profile relies on: a body that joined *)
(* reports FINISHED after the last event of each of its children, and one  *)
(* that did not, before any of them is entered.                            *)
(***************************************************************************)
THEOREM EventsNest == Spec => ReportsNest
BY Invariance, NestStep, PTL DEF Spec, ReportsNest
-----------------------------------------------------------------------------

\* The abstract schedule's view of the plan: the tasks a worker has entered, and
\* those that are over with all their children.
Begun == {n \in tasks : <<n, 0>> \in entered}
Ended == {n \in tasks : ~suspended(n) /\ \A x \in {<<n, 0>>} \cup childrenOf(n) : final(x)}

onStack(x) == \E a \in Active : a.item = x

LEMMA EndedIs ==
    ASSUME TypeOK
    PROVE  Ended = {n \in tasks : ~onStack(<<n, 0>>) /\ \A x \in {<<n, 0>>} \cup childrenOf(n) : final(x)}
BY SuspendedIsActive DEF Ended, onStack

LEMMA EndedWillBe ==
    ASSUME TypeOK'
    PROVE  Ended' = {n \in tasks' :
               ~onStack(<<n, 0>>)' /\ \A x \in {<<n, 0>>} \cup childrenOf(n)' : final(x)'}
<1>1. \A w \in Workers : \A i \in DOMAIN stack'[w] : stack'[w][i] \in Activation
  BY LenProperties, ElementOfSeq DEF TypeOK
<1>2. \A n : suspended(n)' <=> onStack(<<n, 0>>)'
  BY <1>1 DEF suspended, Active, onStack
<1> QED
  BY <1>2 DEF Ended

\* A step in which one item comes to or leaves a worker moves at most its family.
LEMMA FamilyEnds ==
    ASSUME TypeOK, TypeOK', kind' = kind, children' = children,
           NEW x \in Items,
           \A y \in Items : y # x => (final(y)' <=> final(y)) /\ (onStack(y)' <=> onStack(y)),
           x[1] \in Ended => x[1] \in Ended'
    PROVE  Ended \subseteq Ended' /\ Ended' \subseteq Ended \cup {x[1]}
<1>1. tasks' = tasks /\ \A n : childrenOf(n)' = childrenOf(n)
  BY DEF tasks, childrenOf
<1>2. ASSUME NEW n \in tasks, n # x[1]
      PROVE  n \in Ended <=> n \in Ended'
  <2>1. /\ n \in 1 .. MaxNodes /\ <<n, 0>> \in Items /\ <<n, 0>> # x
        /\ childrenOf(n) \subseteq Items /\ \A y \in childrenOf(n) : y # x
    BY <1>2, TaskIsItem, ChildIsItem
  <2>2. /\ onStack(<<n, 0>>)' <=> onStack(<<n, 0>>)
        /\ \A y \in {<<n, 0>>} \cup childrenOf(n) : final(y)' <=> final(y)
    BY <2>1
  <2> QED
    BY <2>2, <1>1, EndedIs, EndedWillBe
<1>3. Ended \subseteq tasks /\ Ended' \subseteq tasks
  BY <1>1 DEF Ended
<1> QED
  BY <1>2, <1>3

\* A task that is over in the executor has ended, and with it its children.
LEMMA DoneTasksEnded ==
    ASSUME RunInv, NEW n \in tasks, <<n, 0>> \in done
    PROVE  n \in Ended
<1>1. TypeOK /\ Stacks /\ Reports /\ Families
  BY DEF RunInv
<1>2. n \in 1 .. MaxNodes /\ <<n, 0>> \in Items /\ childrenOf(n) \subseteq Items
  BY <1>1, TaskIsItem, ChildIsItem
<1>3. childrenOf(n) \subseteq done
  BY <1>1, <1>2 DEF Families, allDone
<1>4. ~onStack(<<n, 0>>)
  BY <1>1 DEF Stacks, onStack
<1>5. \A x \in {<<n, 0>>} \cup childrenOf(n) : final(x)
  BY <1>1, <1>2, <1>3 DEF Reports
<1> QED
  BY <1>1, <1>4, <1>5, EndedIs

LEMMA EndedHaveBegun == RunInv => Ended \subseteq Begun
<1> SUFFICES ASSUME RunInv, NEW n \in Ended
             PROVE  n \in Begun
  OBVIOUS
<1>1. TypeOK /\ Reports
  BY DEF RunInv
<1>2. n \in tasks /\ final(<<n, 0>>)
  BY DEF Ended
<1>3. <<n, 0>> \in entered
  BY <1>1, <1>2, TaskIsItem DEF Reports, final
<1> QED
  BY <1>2, <1>3 DEF Begun

\* Nothing has begun where no item was entered.
LEMMA NothingBegun ==
    ASSUME RunInv, entered = {}
    PROVE  Begun = {} /\ Ended = {}
BY EndedHaveBegun DEF Begun
LEMMA EnterIsScheduled ==
    ASSUME RunInv, RunInv', dispatched, NEW w \in Workers, NEW x \in ready, Enter(w, x)
    PROVE  /\ Ended \subseteq Ended' /\ Ended' \subseteq Ended \cup {x[1]}
           /\ isTask(x) => /\ x[1] \in tasks \ Begun /\ Begun' = Begun \cup {x[1]} /\ Ended' = Ended
                           /\ \A m \in tasks : <<m, x[1]>> \in before => m \in Ended
           /\ ~isTask(x) => x[1] \in Begun /\ Begun' = Begun
<1> DEFINE a == [item |-> x, step |-> IF shouldCancel(x) THEN "canceled" ELSE "body"]
           n == x[1]
<1>1. TypeOK /\ TypeOK' /\ Stacks /\ Once /\ Reports /\ Families /\ Ordered
  BY DEF RunInv
<1>2. /\ x \in Items /\ x \notin entered /\ predecessors(x) \subseteq done
      /\ IF isTask(x) THEN n \in tasks ELSE n \in opened /\ x \in childrenOf(n)
  BY <1>1, ReadyIsItem
<1>3. /\ UNCHANGED <<kind, before, children, dispatched>>
      /\ stack' = [stack EXCEPT ![w] = <<a>> \o @]
      /\ reported' = [reported EXCEPT ![x] = IF shouldCancel(x) THEN "canceled" ELSE "started"]
      /\ entered' = entered \cup {x}
  BY DEF Enter, invoke, plan, graph, control
<1>4. a \in Activation /\ a.item = x /\ \A b \in Active : b.item # x
  BY <1>1, <1>2 DEF Activation, Stacks
<1>5. Active' = Active \cup {a}
  BY <1>1, <1>3, <1>4, PushActive
<1> HIDE DEF a
<1>6. \A y \in Items : y # x => (final(y)' <=> final(y)) /\ (onStack(y)' <=> onStack(y))
  <2>1. ASSUME NEW y \in Items, y # x PROVE reported'[y] = reported[y]
    BY <2>1, <1>1, <1>2, <1>3 DEF TypeOK
  <2> QED
    BY <2>1, <1>4, <1>5 DEF final, onStack
<1>7. n \in 1 .. MaxNodes /\ <<n, 0>> \in Items /\ (isTask(x) <=> x = <<n, 0>>)
  BY <1>2, ItemIsPair
<1>8. n \notin Ended
  <2>1. ~final(x)
    BY <1>1, <1>2 DEF Reports, final
  <2> QED
    BY <2>1, <1>2, <1>7 DEF Ended
<1>9. Ended \subseteq Ended' /\ Ended' \subseteq Ended \cup {n}
  <2> HIDE DEF n
  <2>1. x[1] = n
    BY DEF n
  <2> QED
    BY <2>1, <1>1, <1>2, <1>3, <1>6, <1>8, FamilyEnds
<1>10. tasks' = tasks
  BY <1>3 DEF tasks
<1>11. ASSUME isTask(x)
       PROVE  /\ n \in tasks \ Begun /\ Begun' = Begun \cup {n} /\ Ended' = Ended
              /\ \A m \in tasks : <<m, n>> \in before => m \in Ended
  <2>1. n \in tasks /\ n \notin Begun /\ x = <<n, 0>>
    BY <1>2, <1>7, <1>11 DEF Begun
  <2>2. Begun' = Begun \cup {n}
    BY <2>1, <1>3, <1>10 DEF Begun
  <2>3. n \notin Ended'
    <3>1. onStack(x)'
      BY <1>4, <1>5 DEF onStack
    <3> QED
      BY <3>1, <2>1, <1>1, EndedWillBe
  <2>4. ASSUME NEW m \in tasks, <<m, n>> \in before PROVE m \in Ended
    <3>1. <<m, 0>> \in predecessors(x)
      BY <2>4, <1>11 DEF predecessors
    <3> QED
      BY <3>1, <2>4, <1>2, DoneTasksEnded
  <2> QED
    BY <2>1, <2>2, <2>3, <2>4, <1>9
<1>12. ASSUME ~isTask(x)
       PROVE  n \in Begun /\ Begun' = Begun
  <2>1. n \in tasks /\ reported[<<n, 0>>] \in {"started", "finished"}
    BY <1>1, <1>2, <1>7, <1>12 DEF Families
  <2>2. n \in Begun
    BY <2>1, <1>1, <1>7 DEF Reports, Begun
  <2>3. \A m : <<m, 0>> # x
    BY <1>7, <1>12 DEF isTask
  <2> QED
    BY <2>2, <2>3, <1>3, <1>10 DEF Begun
<1> QED
  BY <1>9, <1>11, <1>12

LEMMA ReturnIsScheduled ==
    ASSUME RunInv, RunInv', dispatched, NEW w \in Workers, Return(w)
    PROVE  /\ Ended \subseteq Ended' /\ Ended' \subseteq Ended \cup {top(w).item[1]}
           /\ top(w).item[1] \in Begun /\ Begun' = Begun
<1>0. PICK x, n : x = top(w).item /\ n = x[1]
  OBVIOUS
<1>1. TypeOK /\ TypeOK' /\ Stacks /\ Once /\ Reports /\ Families
  BY DEF RunInv
<1>2. /\ stack[w] # <<>> /\ top(w).step \in {"body", "canceled"}
      /\ stack' = [stack EXCEPT ![w] = Tail(@)]
      /\ UNCHANGED <<kind, before, children, dispatched, entered>>
      /\ reported' = [reported EXCEPT ![x] = IF at(w, "body") THEN "finished" ELSE @]
  BY <1>0 DEF Return, at, plan, control
<1>3. top(w) \in Active /\ x \in Items
  BY <1>0, <1>1, <1>2, TopActive DEF Activation
<1>4. x \in entered /\ reported[x] = IF top(w).step = "canceled" THEN "canceled" ELSE "started"
  BY <1>0, <1>1, <1>3 DEF Stacks
<1>5. n \in 1 .. MaxNodes /\ <<n, 0>> \in Items /\ (isTask(x) <=> x = <<n, 0>>)
  BY <1>0, <1>3, ItemIsPair
<1>6. Active' = Active \ {top(w)}
  BY <1>1, <1>2, PopActive
<1>7. \A y \in Items : y # x => (final(y)' <=> final(y)) /\ (onStack(y)' <=> onStack(y))
  <2>1. ASSUME NEW y \in Items, y # x PROVE reported'[y] = reported[y]
    BY <2>1, <1>1, <1>2, <1>3 DEF TypeOK
  <2> QED
    BY <2>1, <1>0, <1>6 DEF final, onStack
<1>8. reported'[x] \in {"finished", "canceled"}
  BY <1>0, <1>1, <1>2, <1>3, <1>4 DEF TypeOK, at
<1>9. tasks' = tasks /\ childrenOf(n)' = childrenOf(n)
  BY <1>2 DEF tasks, childrenOf
<1>10. n \in Ended => n \in Ended'
  <2>1. SUFFICES ASSUME n \in Ended PROVE n \in Ended'
    OBVIOUS
  <2>2. n \in tasks /\ ~onStack(<<n, 0>>) /\ \A y \in {<<n, 0>>} \cup childrenOf(n) : final(y)
    BY <2>1, <1>1, EndedIs
  <2>3. <<n, 0>> # x
    BY <2>2, <1>0, <1>3 DEF onStack
  <2>4. ~onStack(<<n, 0>>)'
    BY <2>2, <2>3, <1>5, <1>7
  <2>5. {<<n, 0>>} \cup childrenOf(n) \subseteq Items
    BY <1>1, <1>5, ChildIsItem
  <2>6. \A y \in {<<n, 0>>} \cup childrenOf(n) : final(y)'
    BY <2>2, <2>5, <1>7, <1>8 DEF final
  <2> QED
    BY <2>2, <2>4, <2>6, <1>1, <1>9, EndedWillBe
<1>11. n \in Begun
  <2>1. n \in tasks
    BY <1>0, <1>1, <1>4, <1>5 DEF Families
  <2>2. <<n, 0>> \in entered
    BY <1>0, <1>1, <1>4, <1>5 DEF Families, Reports
  <2> QED
    BY <2>1, <2>2 DEF Begun
<1>12. Begun' = Begun
  BY <1>2, <1>9 DEF Begun
<1>13. Ended \subseteq Ended' /\ Ended' \subseteq Ended \cup {n}
  <2>1. x[1] \in Ended => x[1] \in Ended'
    BY <1>0, <1>10
  <2> QED
    BY <2>1, <1>0, <1>1, <1>2, <1>3, <1>7, FamilyEnds
<1> QED
  BY <1>0, <1>11, <1>12, <1>13
\* Spawning, linking and joining children does not show in the schedule.
LEMMA BodiesAreHidden ==
    ASSUME RunInv, RunInv', dispatched, NEW w \in Workers,
           Spawn(w) \/ Join(w) \/ Joined(w) \/ (\E x, y \in Items : Link(w, x, y))
    PROVE  UNCHANGED <<kind, before, dispatched, Begun, Ended>>
<1>1. TypeOK /\ TypeOK' /\ Stacks /\ Once /\ Reports
  BY DEF RunInv
<1>2. UNCHANGED <<kind, before, dispatched, entered>>
  BY DEF Spawn, Join, Joined, Link, plan, control
<1>3. tasks' = tasks /\ Begun' = Begun
  BY <1>2 DEF tasks, Begun
<1>4. CASE \E x, y \in Items : Link(w, x, y)
  <2>1. UNCHANGED <<children, reported, stack>>
    BY <1>4 DEF Link
  <2> QED
    BY <2>1, <1>2, <1>3 DEF Ended, suspended, final, childrenOf
<1>5. CASE Join(w) \/ Joined(w)
  <2>1. /\ stack[w] # <<>> /\ (goTo(w, "joining") \/ goTo(w, "body"))
        /\ UNCHANGED <<children, reported>>
    BY <1>5 DEF Join, Joined, building, at, graph
  <2>2. PICK step \in {"body", "joining"} : goTo(w, step)
    BY <2>1
  <2>3. PICK a : a = [item |-> top(w).item, step |-> step]
    OBVIOUS
  <2>4. Active' = (Active \ {top(w)}) \cup {a} /\ a.item = top(w).item /\ top(w) \in Active
    BY <1>1, <2>1, <2>2, <2>3, GoToActive, TopActive
  <2>5. \A y : onStack(y)' <=> onStack(y)
    BY <2>4 DEF onStack
  <2>6. /\ \A n : childrenOf(n)' = childrenOf(n)
        /\ \A x : final(x)' <=> final(x)
    BY <2>1 DEF childrenOf, final
  <2> QED
    BY <2>5, <2>6, <1>1, <1>2, <1>3, EndedIs, EndedWillBe
<1>6. CASE Spawn(w)
  <2>1. PICK n, y : n = top(w).item[1] /\ y = <<n, children'[n]>>
    OBVIOUS
  <2>2. /\ building(w) /\ UNCHANGED <<stack, links>>
        /\ children' = [children EXCEPT ![n] = @ + 1]
        /\ reported' = [reported EXCEPT ![y] = "submitted"]
    BY <1>6, <2>1 DEF Spawn
  <2>3. /\ n \in 1 .. MaxNodes /\ n \in tasks /\ top(w) \in Active /\ top(w).item = <<n, 0>>
    BY <2>1, <2>2, Building
  <2>4. suspended(n) /\ suspended(n)'
    <3>1. suspended(n)
      BY <2>3, <1>1, SuspendedIsActive
    <3> QED
      BY <3>1, <2>2 DEF suspended
  <2>5. children'[n] \in Nat \ {0}
    <3>1. children[n] \in 0 .. MaxChildren
      BY <2>3, <1>1 DEF TypeOK
    <3> QED
      BY <3>1, <2>2, <2>3, <1>1, Bounds DEF TypeOK
  <2>6. ASSUME NEW m \in tasks, m # n
        PROVE  m \in Ended <=> m \in Ended'
    <3>1. m \in 1 .. MaxNodes
      BY <2>6, <1>1, TaskIsItem
    <3>2. childrenOf(m)' = childrenOf(m)
      BY <3>1, <2>2, <2>6, <1>1 DEF childrenOf, TypeOK
    <3>3. {<<m, 0>>} \cup childrenOf(m) \subseteq Items /\ \A x \in {<<m, 0>>} \cup childrenOf(m) : x[1] = m
      BY <3>1, <2>6, <1>1, ChildIsItem, TaskIsItem
    <3>4. \A x \in {<<m, 0>>} \cup childrenOf(m) : final(x)' <=> final(x)
      <4>1. y[1] # m
        BY <2>1, <2>6
      <4>2. \A x \in {<<m, 0>>} \cup childrenOf(m) : reported'[x] = reported[x]
        BY <4>1, <3>3, <2>2, <1>1 DEF TypeOK
      <4> QED
        BY <4>2 DEF final
    <3>5. suspended(m)' <=> suspended(m)
      BY <2>2 DEF suspended
    <3> QED
      BY <3>2, <3>4, <3>5, <1>3 DEF Ended
  <2>7. n \notin Ended /\ n \notin Ended'
    BY <2>4 DEF Ended
  <2>8. Ended \subseteq tasks /\ Ended' \subseteq tasks
    BY <1>3 DEF Ended
  <2> QED
    BY <2>6, <2>7, <2>8, <1>2, <1>3
<1> QED
  BY <1>4, <1>5, <1>6

(***************************************************************************)
(* The executor ends a run when it has nothing queued and no worker is at  *)
(* anything.  Nothing can be left out then: an item entered and not over   *)
(* is on a stack, or waits for children the executor has been given, and   *)
(* the edges of plan and contexts go forward.                              *)
(***************************************************************************)
Waiting ==
    \A x \in entered \ done :
        \/ \E a \in Active : a.item = x
        \/ isTask(x) /\ x[1] \in opened /\ ~allDone(x[1])

Forward ==
    /\ \A m, n : <<m, n>> \in before => m < n
    /\ \A x, y : <<x, y>> \in links => x[2] < y[2]

WaitInv == Waiting /\ Forward

LEMMA LeastNatural ==
    ASSUME NEW T \in SUBSET Nat, T # {}
    PROVE  \E x \in T : \A y \in T : x <= y
<1>1. PICK x \in T : \A y \in T : ~ (<<y, x>> \in OpToRel(<, Nat))
  BY NatLessThanWellFounded, WFMin
<1>2. \A y \in T : ~ (y < x)
  BY <1>1 DEF OpToRel
<1> QED
  BY <1>2

LEMMA NextForward == TypeOK /\ Forward /\ [Next]_vars => Forward'
<1> SUFFICES ASSUME TypeOK, Forward, [Next]_vars
             PROVE  Forward'
  OBVIOUS
<1>1. CASE UNCHANGED <<before, links>>
  BY <1>1 DEF Forward
<1>2. ASSUME NEW m \in tasks, NEW n \in tasks, Precede(m, n)
      PROVE  Forward'
  <2>1. m < n /\ before' = before \cup {<<m, n>>} /\ links' = links
    BY <1>2 DEF Precede, graph
  <2> QED
    BY <2>1 DEF Forward
<1>3. ASSUME NEW w \in Workers, NEW x \in Items, NEW y \in Items, Link(w, x, y)
      PROVE  Forward'
  <2>1. x[2] < y[2] /\ links' = links \cup {<<x, y>>} /\ before' = before
    BY <1>3 DEF Link, plan
  <2> QED
    BY <2>1 DEF Forward
<1>4. ASSUME NEW requested, Dispatch(requested)
      PROVE  Forward'
  BY <1>4 DEF Dispatch, plan, Forward
<1> QED
  BY <1>1, <1>2, <1>3, <1>4
     DEF Next, Build, Register, RequestStop, Execute, Complete, WorkerStep, Enter, invoke, Spawn,
         Join, Joined, Return, vars, plan, graph

LEMMA ReturnWaits ==
    ASSUME RunInv, Waiting, dispatched, NEW w \in Workers, Return(w)
    PROVE  Waiting'
<1> DEFINE x == top(w).item
           n == x[1]
           unjoined  == isTask(x) /\ n \notin opened /\ children[n] > 0
           takesTask == ~isTask(x) /\ ~suspended(n) /\ childrenOf(n) \subseteq done \cup {x}
<1>1. TypeOK /\ Stacks /\ Once /\ Reports /\ Families
  BY DEF RunInv
<1>2. /\ stack[w] # <<>> /\ stack' = [stack EXCEPT ![w] = Tail(@)]
      /\ UNCHANGED <<kind, before, children, links, entered>>
      /\ opened' = IF unjoined THEN opened \cup {n} ELSE opened
      /\ done' = done \cup (IF unjoined THEN {} ELSE {x})
                      \cup (IF takesTask THEN {<<n, 0>>} ELSE {})
  BY DEF Return, at, plan
<1>3. top(w) \in Active /\ x \in Items /\ x \in entered
  BY <1>1, <1>2, TopActive DEF Activation, Stacks
<1>4. Active' = Active \ {top(w)}
  BY <1>1, <1>2, PopActive
<1>5. n \in 1 .. MaxNodes /\ (isTask(x) <=> x = <<n, 0>>)
  BY <1>1, <1>3, ItemIsPair
<1>6. \A m : childrenOf(m)' = childrenOf(m)
  BY <1>2, SameGraph
<1>7. ASSUME NEW y \in entered', y \notin done', y = x
      PROVE  isTask(y) /\ y[1] \in opened' /\ ~allDone(y[1])'
  <2>1. unjoined /\ opened' = opened \cup {n}
    BY <1>2, <1>7
  <2>2. <<n, 1>> \in childrenOf(n)
    <3>1. children[n] \in 0 .. MaxChildren /\ children[n] > 0
      BY <1>1, <1>5, <2>1 DEF TypeOK
    <3> QED
      BY <3>1, Bounds DEF childrenOf
  <2>3. <<n, 1>> \in Items /\ ~isTask(<<n, 1>>) /\ <<n, 1>>[1] = n
    BY <1>1, <1>5, <2>2, ChildIsItem
  <2>4. <<n, 1>> \notin entered
    BY <1>1, <2>1, <2>3 DEF Families
  <2>5. <<n, 1>> \notin done
    BY <1>1, <2>3, <2>4 DEF Reports, final
  <2>6. done' = done
    <3>1. ~takesTask
      BY <2>1
    <3> QED
      BY <3>1, <2>1, <1>2
  <2>7. ~(childrenOf(n) \subseteq done')
    BY <2>2, <2>5, <2>6
  <2> QED
    BY <2>1, <2>7, <1>6, <1>7 DEF allDone
<1>8. ASSUME NEW y \in entered', y \notin done', y # x
      PROVE  \/ \E a \in Active' : a.item = y
             \/ isTask(y) /\ y[1] \in opened' /\ ~allDone(y[1])'
  <2>1. y \in entered \ done
    BY <1>2, <1>8
  <2>2. CASE \E a \in Active : a.item = y
    BY <2>2, <1>4, <1>8
  <2>3. CASE (\A a \in Active : a.item # y) /\ isTask(y) /\ y[1] \in opened /\ ~allDone(y[1])
    <3>1. y[1] \in opened' /\ y \in Items /\ y = <<y[1], 0>> /\ y[1] \in 1 .. MaxNodes
      BY <2>1, <2>3, <1>1, <1>2, ItemIsPair DEF TypeOK
    <3>2. SUFFICES ASSUME childrenOf(y[1]) \subseteq done'
          PROVE  FALSE
      BY <2>3, <3>1, <1>6 DEF allDone
    <3>3. PICK z \in childrenOf(y[1]) : z \notin done
      BY <2>3 DEF allDone
    <3>4. z[1] = y[1] /\ ~isTask(z) /\ z \in done'
      BY <3>1, <3>2, <3>3, <1>1, ChildIsItem
    <3>5. z = x
      BY <3>3, <3>4, <1>2 DEF isTask
    <3>6. ~suspended(n) /\ childrenOf(n) \subseteq done \cup {x}
      <4>1. ~suspended(y[1])
        BY <2>3, <3>1, <1>1, SuspendedIsActive
      <4>2. \A u \in childrenOf(n) : u \in done'
        BY <3>2, <3>4, <3>5
      <4>3. \A u \in childrenOf(n) : u \in done \/ u = x
        <5>1. \A u \in childrenOf(n) : ~isTask(u)
          BY <1>1, <1>5, ChildIsItem
        <5> QED
          BY <4>2, <5>1, <1>2 DEF isTask
      <4> QED
        BY <4>1, <4>3, <3>4, <3>5
    <3>7. takesTask
      BY <3>4, <3>5, <3>6
    <3>8. y \in done'
      BY <3>1, <3>4, <3>5, <3>7, <1>2
    <3> QED
      BY <3>8, <1>8
  <2> QED
    BY <2>1, <2>2, <2>3 DEF Waiting
<1> QED
  BY <1>7, <1>8 DEF Waiting, isTask

LEMMA NextWaiting == RunInv /\ Waiting /\ [Next]_vars => Waiting'
<1> SUFFICES ASSUME RunInv, Waiting, [Next]_vars
             PROVE  Waiting'
  OBVIOUS
<1>1. TypeOK /\ AtRest /\ Stacks /\ Once /\ Reports /\ Families
  BY DEF RunInv
<1>2. CASE UNCHANGED <<children, opened, entered, done, stack>>
  <2>1. Active' = Active /\ \A n : allDone(n)' <=> allDone(n)
    BY <1>2 DEF Active, allDone, childrenOf
  <2> QED
    BY <2>1, <1>2 DEF Waiting
<1>3. ASSUME entered' = {}
      PROVE  Waiting'
  BY <1>3 DEF Waiting
<1>4. CASE Build
  <2>1. UNCHANGED <<children, opened, entered, done, stack>>
    BY <1>4 DEF Build, Register, Precede, graph
  <2> QED
    BY <2>1, <1>2
<1>5. CASE Complete \/ RequestStop \/ UNCHANGED vars
  <2>1. UNCHANGED <<children, opened, entered, done, stack>>
    BY <1>5 DEF Complete, RequestStop, vars, graph
  <2> QED
    BY <2>1, <1>2
<1>6. ASSUME NEW requested \in BOOLEAN, Dispatch(requested)
      PROVE  Waiting'
  BY <1>3, <1>6 DEF Dispatch
<1>7. ASSUME NEW w \in Workers, NEW x \in ready, Enter(w, x)
      PROVE  Waiting'
  <2>1. PICK a : a = [item |-> x, step |-> IF shouldCancel(x) THEN "canceled" ELSE "body"]
    OBVIOUS
  <2>2. /\ UNCHANGED <<children, opened, done>>
        /\ stack' = [stack EXCEPT ![w] = <<a>> \o @]
        /\ entered' = entered \cup {x}
    BY <1>7, <2>1 DEF Enter, invoke, graph
  <2>3. a \in Activation /\ a.item = x /\ \A b \in Active : b.item # a.item
    BY <2>1, <1>1, ReadyIsItem DEF Activation, Stacks
  <2>4. Active' = Active \cup {a}
    BY <2>2, <2>3, <1>1, PushActive
  <2>5. \A n : allDone(n)' <=> allDone(n)
    BY <2>2 DEF allDone, childrenOf
  <2> QED
    BY <2>2, <2>3, <2>4, <2>5 DEF Waiting
<1>8. ASSUME NEW w \in Workers, Spawn(w)
      PROVE  Waiting'
  <2>1. PICK n : n = top(w).item[1]
    OBVIOUS
  <2>2. /\ UNCHANGED <<opened, entered, done, stack>>
        /\ children' = [children EXCEPT ![n] = @ + 1]
        /\ n \notin opened
    BY <1>8, <2>1 DEF Spawn, building
  <2>3. Active' = Active
    BY <2>2 DEF Active
  <2>4. \A m \in opened : allDone(m)' <=> allDone(m)
    <3>1. TAKE m \in opened
    <3>2. m \in 1 .. MaxNodes /\ m # n
      BY <2>2, <1>1, TaskIsItem DEF TypeOK
    <3>3. children'[m] = children[m]
      BY <3>2, <2>2, <1>1 DEF TypeOK
    <3> QED
      BY <3>3, <2>2 DEF allDone, childrenOf
  <2> QED
    BY <2>2, <2>3, <2>4 DEF Waiting
<1>9. ASSUME NEW w \in Workers, Join(w) \/ Joined(w)
      PROVE  Waiting'
  <2>1. /\ stack[w] # <<>> /\ (goTo(w, "joining") \/ goTo(w, "body"))
        /\ UNCHANGED <<children, entered, done>> /\ opened \subseteq opened'
    BY <1>9 DEF Join, Joined, building, at, graph
  <2>2. PICK step \in {"body", "joining"} : goTo(w, step)
    BY <2>1
  <2>3. PICK a : a = [item |-> top(w).item, step |-> step]
    OBVIOUS
  <2>4. Active' = (Active \ {top(w)}) \cup {a} /\ a.item = top(w).item
    BY <1>1, <2>1, <2>2, <2>3, GoToActive
  <2>5. \A y : (\E b \in Active : b.item = y) => \E b \in Active' : b.item = y
    BY <2>4
  <2>6. \A n : allDone(n)' <=> allDone(n)
    BY <2>1 DEF allDone, childrenOf
  <2> QED
    BY <2>1, <2>5, <2>6 DEF Waiting
<1>10. ASSUME NEW w \in Workers, NEW x \in Items, NEW y \in Items, Link(w, x, y)
       PROVE  Waiting'
  <2>1. UNCHANGED <<children, opened, entered, done, stack>>
    BY <1>10 DEF Link
  <2> QED
    BY <2>1, <1>2
<1>11. ASSUME dispatched, NEW w \in Workers, Return(w)
       PROVE  Waiting'
  BY <1>11, ReturnWaits
<1> QED
  BY <1>4, <1>5, <1>6, <1>7, <1>8, <1>9, <1>10, <1>11 DEF Next, Execute, WorkerStep

LEMMA WaitInvariance == Spec => []WaitInv
<1>1. Init => WaitInv
  BY DEF Init, WaitInv, Waiting, Forward
<1>2. RunInv /\ WaitInv /\ [Next]_vars => WaitInv'
  BY NextForward, NextWaiting DEF WaitInv, RunInv
<1> QED
  BY <1>1, <1>2, Invariance, PTL DEF Spec

\* The first of a task's children that are not over could be run.
LEMMA ChildrenCanRun ==
    ASSUME RunInv, WaitInv, ready = {}, Active = {}, NEW n \in opened
    PROVE  allDone(n)
<1> SUFFICES ASSUME ~allDone(n)
             PROVE  FALSE
  OBVIOUS
<1>1. TypeOK /\ n \in 1 .. MaxNodes
  BY TaskIsItem DEF RunInv, TypeOK
<1> DEFINE Left == {k \in Nat : <<n, k>> \in childrenOf(n) /\ <<n, k>> \notin done}
<1>2. \A x \in childrenOf(n) : x = <<n, x[2]>> /\ x[2] \in Nat /\ ~isTask(x) /\ x[1] = n /\ x \in Items
  <2>1. children[n] \in 0 .. MaxChildren
    BY <1>1 DEF TypeOK
  <2> QED
    BY <1>1, <2>1, ChildIsItem, Bounds DEF childrenOf
<1>3. Left # {} /\ Left \in SUBSET Nat
  BY <1>2 DEF allDone
<1>4. PICK k \in Left : \A j \in Left : k <= j
  BY <1>3, LeastNatural
<1> DEFINE x == <<n, k>>
<1>5. x \in childrenOf(n) /\ x \notin done /\ k \in Nat
  BY <1>4
<1>6. predecessors(x) \subseteq done
  <2>1. SUFFICES ASSUME NEW y \in childrenOf(n), <<y, x>> \in links, y \notin done
        PROVE  FALSE
    BY <1>2, <1>5 DEF predecessors
  <2>2. y[2] < x[2] /\ x[2] = k
    BY <2>1 DEF WaitInv, Forward
  <2>3. y[2] \in Left
    BY <2>1, <1>2
  <2> QED
    BY <2>2, <2>3, <1>2, <1>4, <1>5
<1>7. x \notin entered
  BY <1>2, <1>5 DEF WaitInv, Waiting
<1>8. x \in ready
  BY <1>5, <1>6, <1>7 DEF ready
<1> QED
  BY <1>8

\* And so could the first of the tasks.
LEMMA NothingLeftOut ==
    ASSUME RunInv, WaitInv, ready = {}, \A w \in Workers : stack[w] = <<>>, NEW n \in tasks
    PROVE  <<n, 0>> \in done
<1> SUFFICES ASSUME <<n, 0>> \notin done
             PROVE  FALSE
  OBVIOUS
<1>1. TypeOK /\ Active = {}
  BY EmptyStacks DEF RunInv
<1>2. \A m \in tasks : m \in Nat /\ isTask(<<m, 0>>) /\ <<m, 0>>[1] = m
  <2>1. \A m \in tasks : m \in 1 .. MaxNodes
    BY <1>1, TaskIsItem
  <2> QED
    BY <2>1, Bounds DEF isTask
<1> DEFINE Left == {m \in tasks : <<m, 0>> \notin done}
<1>3. Left # {} /\ Left \in SUBSET Nat
  BY <1>2
<1>4. PICK k \in Left : \A j \in Left : k <= j
  BY <1>3, LeastNatural
<1>5. k \in tasks /\ <<k, 0>> \notin done
  BY <1>4
<1>6. predecessors(<<k, 0>>) \subseteq done
  <2>1. predecessors(<<k, 0>>) = {<<m, 0>> : m \in {m \in tasks : <<m, k>> \in before}}
    BY DEF predecessors, isTask
  <2>2. ASSUME NEW m \in tasks, <<m, k>> \in before
        PROVE  <<m, 0>> \in done
    <3>1. m < k
      BY <2>2 DEF WaitInv, Forward
    <3>2. m \notin Left
      BY <3>1, <1>2, <1>4, <1>5
    <3> QED
      BY <3>2, <2>2
  <2> QED
    BY <2>1, <2>2
<1>7. <<k, 0>> \notin entered
  <2>1. \A m \in opened : allDone(m)
    BY <1>1, ChildrenCanRun
  <2> QED
    BY <2>1, <1>1, <1>2, <1>5 DEF WaitInv, Waiting
<1>8. <<k, 0>> \in ready
  BY <1>5, <1>6, <1>7 DEF ready
<1> QED
  BY <1>8

LEMMA ScheduleInit == Init => Schedule!Init
<1> SUFFICES ASSUME Init
             PROVE  Schedule!Init
  OBVIOUS
<1>1. tasks = {} /\ before = {} /\ dispatched = FALSE
  BY DEF Init, tasks
<1> QED
  BY <1>1 DEF Schedule!Init

LEMMA ScheduleNext ==
    RunInv /\ RunInv' /\ WaitInv /\ [Next]_vars => [Schedule!Next]_Schedule!vars
<1> SUFFICES ASSUME RunInv, RunInv', WaitInv, [Next]_vars
             PROVE  [Schedule!Next]_Schedule!vars
  OBVIOUS
<1>1. TypeOK /\ TypeOK' /\ AtRest /\ Stacks /\ Reports
  BY DEF RunInv
<1>2. Ended \subseteq Begun /\ Begun \subseteq tasks
  BY EndedHaveBegun DEF Begun
<1>3. ASSUME UNCHANGED <<kind, before, dispatched, Begun, Ended>>
      PROVE  UNCHANGED Schedule!vars
  BY <1>3 DEF Schedule!vars, Begun, Ended, tasks
<1>4. ASSUME dispatched, UNCHANGED <<kind, before, dispatched, Begun>>,
             NEW n \in Begun, Ended \subseteq Ended', Ended' \subseteq Ended \cup {n}
      PROVE  [Schedule!Next]_Schedule!vars
  <2>1. tasks' = tasks
    BY <1>4 DEF tasks
  <2>2. CASE Ended' = Ended
    BY <2>2, <1>3, <1>4
  <2>3. CASE Ended' # Ended
    <3>1. n \in tasks /\ n \in Begun \ Ended /\ Ended' = Ended \cup {n}
      BY <2>3, <1>2, <1>4
    <3>2. Schedule!End(n)
      BY <3>1, <2>1, <1>4 DEF Schedule!End, Begun, Ended
    <3> QED
      BY <3>1, <3>2 DEF Schedule!Next
  <2> QED
    BY <2>2, <2>3
<1>5. CASE Build
  <2>1. /\ dispatch_count = 0 /\ UNCHANGED <<dispatched, entered>>
    BY <1>5 DEF Build, Register, Precede, control
  <2>2. ~dispatched /\ entered = {} /\ entered' = {}
    BY <2>1, <1>1 DEF AtRest
  <2>3. Begun = {} /\ Ended = {} /\ Begun' = {} /\ Ended' = {}
    <3>1. Begun = {} /\ Ended = {}
      BY <2>2, NothingBegun
    <3>2. Begun' = {} /\ Ended' = {}
      <4>1. (RunInv /\ entered = {} => Begun = {} /\ Ended = {})'
        BY NothingBegun, PTL
      <4> QED
        BY <4>1, <2>2
    <3> QED
      BY <3>1, <3>2
  <2>4. Schedule!Edit
    BY <2>1, <2>2, <2>3 DEF Schedule!Edit, Begun, Ended
  <2> QED
    BY <2>4 DEF Schedule!Next
<1>6. CASE RequestStop \/ UNCHANGED vars
  <2>1. UNCHANGED <<kind, before, dispatched, children, entered, reported, stack>>
    BY <1>6 DEF RequestStop, vars, plan, graph, control
  <2>2. UNCHANGED <<Begun, Ended>>
    BY <2>1 DEF Begun, Ended, tasks, suspended, childrenOf, final
  <2> QED
    BY <2>1, <2>2, <1>3
<1>7. ASSUME NEW requested \in BOOLEAN, Dispatch(requested)
      PROVE  [Schedule!Next]_Schedule!vars
  <2>1. ~dispatched /\ dispatched' = TRUE /\ UNCHANGED <<kind, before>> /\ entered' = {}
    BY <1>7 DEF Dispatch, plan
  <2>2. Begun' = {} /\ Ended' = {}
    <3>1. (RunInv /\ entered = {} => Begun = {} /\ Ended = {})'
      BY NothingBegun, PTL
    <3> QED
      BY <3>1, <2>1
  <2>3. tasks' = tasks
    BY <2>1 DEF tasks
  <2>4. Schedule!Dispatch
    BY <2>1, <2>2, <2>3 DEF Schedule!Dispatch, Begun, Ended
  <2> QED
    BY <2>4 DEF Schedule!Next
<1>8. CASE Complete
  <2>1. /\ dispatched /\ dispatched' = FALSE
        /\ UNCHANGED <<kind, before, children, entered, reported, stack>>
        /\ \A n \in tasks : <<n, 0>> \in done
    BY <1>8, NothingLeftOut DEF Complete, plan, graph
  <2>2. UNCHANGED <<tasks, Begun, Ended>>
    BY <2>1 DEF Begun, Ended, tasks, suspended, childrenOf, final
  <2>3. Ended = tasks /\ Begun = tasks
    BY <2>1, <1>2, DoneTasksEnded
  <2>4. Schedule!Complete
    BY <2>1, <2>2, <2>3 DEF Schedule!Complete, Begun, Ended
  <2> QED
    BY <2>4 DEF Schedule!Next
<1>9. ASSUME dispatched, NEW w \in Workers, WorkerStep(w)
      PROVE  [Schedule!Next]_Schedule!vars
  <2>1. ASSUME NEW x \in ready, Enter(w, x)
        PROVE  [Schedule!Next]_Schedule!vars
    <3>1. UNCHANGED <<kind, before, dispatched>>
      BY <2>1 DEF Enter, invoke, plan, control
    <3>2. /\ Ended \subseteq Ended' /\ Ended' \subseteq Ended \cup {x[1]}
          /\ isTask(x) => /\ x[1] \in tasks \ Begun /\ Begun' = Begun \cup {x[1]} /\ Ended' = Ended
                          /\ \A m \in tasks : <<m, x[1]>> \in before => m \in Ended
          /\ ~isTask(x) => x[1] \in Begun /\ Begun' = Begun
      BY <2>1, <1>9, EnterIsScheduled
    <3>3. CASE isTask(x)
      <4>1. tasks' = tasks
        BY <3>1 DEF tasks
      <4>2. Schedule!Begin(x[1])
        BY <3>1, <3>2, <3>3, <4>1, <1>9 DEF Schedule!Begin, Begun, Ended
      <4> QED
        BY <4>2, <3>2, <3>3 DEF Schedule!Next
    <3>4. CASE ~isTask(x)
      BY <3>1, <3>2, <3>4, <1>4, <1>9
    <3> QED
      BY <3>3, <3>4
  <2>2. CASE Return(w)
    <3>1. UNCHANGED <<kind, before, dispatched>>
      BY <2>2 DEF Return, plan, control
    <3>2. PICK n : n = top(w).item[1]
      OBVIOUS
    <3> QED
      BY <3>1, <3>2, <2>2, <1>4, <1>9, ReturnIsScheduled
  <2>3. CASE Spawn(w) \/ Join(w) \/ Joined(w) \/ (\E x, y \in Items : Link(w, x, y))
    BY <2>3, <1>3, <1>9, BodiesAreHidden
  <2> QED
    BY <2>1, <2>2, <2>3, <1>9 DEF WorkerStep
<1> QED
  BY <1>5, <1>6, <1>7, <1>8, <1>9 DEF Next, Execute

(***************************************************************************)
(* A plan with dynamic tasks is run as a schedule of its tasks: a task     *)
(* with children has ended only when they have, joined or not, so that     *)
(* nothing behind it in the plan begins before, and a run that completes   *)
(* has left neither a task nor a child out.                                *)
(***************************************************************************)
THEOREM DynamicRunImplementsSchedule == Spec => ScheduleSpec
BY Invariance, WaitInvariance, ScheduleInit, ScheduleNext, PTL DEF Spec, ScheduleSpec, Schedule!Spec
-----------------------------------------------------------------------------

\* The wall time of the runs so far, and what a worker has been given of it:
\* what it has reported, and the time since its last entry once for each of the
\* activations that will report it again.
elapsed == total_dispatch_wall_time + IF dispatched THEN clock - dispatch_start ELSE 0

WorkerState == [started_count : Nat, finished_count : Nat, busy_time : Nat, active_begin : Nat]

Within(busy, activations, age, depth, time_elapsed) ==
    busy + activations * age <= depth * time_elapsed

Clocks ==
    /\ clock \in Nat /\ dispatch_start \in 0 .. clock /\ total_dispatch_wall_time \in Nat
    /\ profile \in [Workers -> WorkerState] /\ deepest \in [Workers -> Nat]

Share(w) ==
    /\ Len(stack[w]) <= deepest[w] /\ profile[w].active_begin <= clock
    /\ Within(profile[w].busy_time, Len(stack[w]), clock - profile[w].active_begin,
              deepest[w], elapsed)

TimeInv == Clocks /\ \A w \in Workers : Share(w)

LEMMA Grows ==
    ASSUME NEW a \in Nat, NEW b \in Nat, NEW c \in Nat, a <= b
    PROVE  a * c \in Nat /\ a * c <= b * c
BY SMT

LEMMA OneMore ==
    ASSUME NEW a \in Nat, NEW b \in Nat
    PROVE  /\ a * b \in Nat
           /\ a * (b + 1) = a * b + a
           /\ (a + 1) * b = a * b + b
BY SMT

LEMMA Tick ==
    \A b, l, age, d, e \in Nat : l <= d /\ Within(b, l, age, d, e) => Within(b, l, age + 1, d, e + 1)
<1> SUFFICES ASSUME NEW b \in Nat, NEW l \in Nat, NEW age \in Nat, NEW d \in Nat, NEW e \in Nat,
                    l <= d, Within(b, l, age, d, e)
             PROVE  Within(b, l, age + 1, d, e + 1)
  OBVIOUS
<1>1. l * age \in Nat /\ l * (age + 1) = l * age + l
  BY OneMore
<1>2. d * e \in Nat /\ d * (e + 1) = d * e + d
  BY OneMore
<1> DEFINE la == l * age
           de == d * e
<1>3. b + la <= de
  BY DEF Within
<1> HIDE DEF la, de
<1>4. b + (la + l) <= de + d
  BY <1>1, <1>2, <1>3 DEF la, de
<1> QED
  BY <1>1, <1>2, <1>4 DEF Within, la, de

LEMMA EntryFits ==
    \A b, l, age, d, e, dd \in Nat : d <= dd /\ Within(b, l, age, d, e) => Within(b, l + 1, 0, dd, e + 1)
<1> SUFFICES ASSUME NEW b \in Nat, NEW l \in Nat, NEW age \in Nat, NEW d \in Nat, NEW e \in Nat,
                    NEW dd \in Nat, d <= dd, Within(b, l, age, d, e)
             PROVE  Within(b, l + 1, 0, dd, e + 1)
  OBVIOUS
<1>1. l * age \in Nat /\ d * e \in Nat /\ (l + 1) * 0 = 0
  BY OneMore
<1>2. d * e <= dd * e /\ dd * e \in Nat
  BY Grows
<1>3. dd * (e + 1) = dd * e + dd
  BY OneMore
<1> DEFINE la == l * age
           de == d * e
           dde == dd * e
<1>4. b + la <= de
  BY DEF Within
<1> HIDE DEF la, de, dde
<1>5. b <= dde + dd
  BY <1>1, <1>2, <1>4 DEF la, de, dde
<1> QED
  BY <1>1, <1>3, <1>5 DEF Within, dde

LEMMA ExitFits ==
    \A b, l, age, d, e \in Nat :
        l > 0 /\ l <= d /\ Within(b, l, age, d, e) => Within(b + (age + 1), l - 1, age + 1, d, e + 1)
<1> SUFFICES ASSUME NEW b \in Nat, NEW l \in Nat, NEW age \in Nat, NEW d \in Nat, NEW e \in Nat,
                    l > 0, l <= d, Within(b, l, age, d, e)
             PROVE  Within(b + (age + 1), l - 1, age + 1, d, e + 1)
  OBVIOUS
<1>1. b + l * (age + 1) <= d * (e + 1)
  BY Tick DEF Within
<1>2. l - 1 \in Nat /\ (l - 1) + 1 = l /\ age + 1 \in Nat
  OBVIOUS
<1>3. (l - 1) * (age + 1) \in Nat /\ l * (age + 1) = (l - 1) * (age + 1) + (age + 1)
  BY <1>2, OneMore
<1>4. d * (e + 1) \in Nat
  BY OneMore
<1> DEFINE m == (l - 1) * (age + 1)
           n == l * (age + 1)
           de == d * (e + 1)
<1>5. m \in Nat /\ de \in Nat /\ n = m + (age + 1) /\ b + n <= de
  BY <1>1, <1>3, <1>4
<1> HIDE DEF m, n, de
<1>6. (b + (age + 1)) + m <= de
  BY <1>5
<1> QED
  BY <1>6 DEF Within, m, de

LEMMA RestFits ==
    \A b, age, ages, d, e \in Nat : Within(b, 0, age, d, e) => Within(b, 0, ages, d, e)
<1>1. \A a \in Nat : 0 * a = 0
  BY SMT
<1> QED
  BY <1>1 DEF Within

LEMMA ShareOfWhole ==
    ASSUME NEW b \in Nat, NEW l \in Nat, NEW age \in Nat, NEW d \in Nat, NEW e \in Nat \ {0},
           Within(b, l, age, d, e)
    PROVE  (b * 1000) \div e <= 1000 * d
<1>1. l * age \in Nat /\ d * e \in Nat
  BY OneMore
<1>2. b <= d * e
  BY <1>1 DEF Within
<1>3. \A x \in Nat, y \in Nat, n \in Nat \ {0} : x <= y * n => x \div n <= y
  BY SMT
<1>4. b * 1000 <= (d * e) * 1000
  BY <1>1, <1>2, Grows
<1>5. (d * e) * 1000 = (1000 * d) * e
  BY SMT
<1>6. b * 1000 \in Nat /\ 1000 * d \in Nat
  OBVIOUS
<1>7. b * 1000 <= (1000 * d) * e
  BY <1>4, <1>5
<1> DEFINE x == b * 1000
           y == 1000 * d
<1> HIDE DEF x, y
<1>8. x \in Nat /\ y \in Nat /\ x <= y * e
  BY <1>6, <1>7 DEF x, y
<1>9. x \div e <= y
  BY <1>3, <1>8
<1> QED
  BY <1>9 DEF x, y
LEMMA LengthsAreNat ==
    ASSUME TypeOK, NEW w \in Workers
    PROVE  Len(stack[w]) \in Nat /\ (stack[w] = <<>> => Len(stack[w]) = 0)
<1>1. stack[w] \in Seq(Activation)
  BY DEF TypeOK
<1> QED
  BY <1>1, LenProperties, EmptySeq

LEMMA ElapsedIsNat ==
    ASSUME TypeOK, Clocks
    PROVE  /\ elapsed \in Nat
           /\ dispatched => elapsed = total_dispatch_wall_time + (clock - dispatch_start)
           /\ ~dispatched => elapsed = total_dispatch_wall_time
BY DEF TypeOK, Clocks, elapsed

\* A worker that does nothing while the clock of a run is read.
LEMMA IdleShare ==
    ASSUME TypeOK, Clocks, NEW w \in Workers, Share(w),
           Len(stack'[w]) = Len(stack[w]), profile'[w] = profile[w], deepest'[w] = deepest[w],
           clock' = clock + 1, elapsed' = elapsed + 1
    PROVE  Share(w)'
<1> DEFINE l == Len(stack[w])
           g == profile[w].active_begin
           b == profile[w].busy_time
           d == deepest[w]
<1>1. l \in Nat /\ elapsed \in Nat /\ b \in Nat /\ g \in Nat /\ d \in Nat /\ clock \in Nat
  BY LengthsAreNat, ElapsedIsNat DEF Clocks, WorkerState
<1>2. l <= d /\ g <= clock /\ Within(b, l, clock - g, d, elapsed)
  BY DEF Share
<1> HIDE DEF l, g, b, d
<1>3. clock - g \in Nat /\ (clock + 1) - g = (clock - g) + 1 /\ g <= clock + 1
  BY <1>1, <1>2
<1>4. Within(b, l, (clock - g) + 1, d, elapsed + 1)
  BY <1>1, <1>2, <1>3, Tick
<1>5. Within(b, l, (clock + 1) - g, d, elapsed + 1)
  BY <1>3, <1>4
<1> QED
  BY <1>2, <1>3, <1>5 DEF Share, l, g, b, d

LEMMA TimeInit == Init => TimeInv
<1> SUFFICES ASSUME Init
             PROVE  TimeInv
  OBVIOUS
<1>1. Clocks
  BY DEF Init, Clocks, WorkerState, NewWorkerState
<1>2. ASSUME NEW w \in Workers PROVE Share(w)
  <2>1. stack[w] = <<>> /\ Len(stack[w]) = 0
    BY DEF Init
  <2>2. /\ profile[w].busy_time = 0 /\ profile[w].active_begin = 0
        /\ clock = 0 /\ deepest[w] = 0 /\ elapsed = 0
    BY DEF Init, NewWorkerState, elapsed
  <2>3. Within(0, 0, 0, 0, 0)
    BY DEF Within
  <2> QED
    BY <2>1, <2>2, <2>3 DEF Share
<1> QED
  BY <1>1, <1>2 DEF TimeInv

LEMMA TimeStands ==
    ASSUME TypeOK, TimeInv, UNCHANGED <<time, dispatched>>,
           \A w \in Workers : Len(stack'[w]) = Len(stack[w])
    PROVE  TimeInv'
<1>1. UNCHANGED <<profile, clock, dispatch_start, total_dispatch_wall_time, deepest>>
  BY DEF time
<1>2. elapsed' = elapsed
  BY <1>1 DEF elapsed
<1> QED
  BY <1>1, <1>2 DEF TimeInv, Clocks, Share

LEMMA TimeDispatch ==
    ASSUME RunInv, TimeInv, NEW requested, Dispatch(requested)
    PROVE  TimeInv'
<1>1. TypeOK /\ AtRest /\ Clocks
  BY DEF RunInv, TimeInv
<1>2. /\ ~dispatched /\ dispatched' = TRUE /\ clock' = clock + 1 /\ dispatch_start' = clock + 1
      /\ UNCHANGED <<profile, total_dispatch_wall_time, deepest, stack>>
  BY DEF Dispatch
<1>3. Clocks'
  BY <1>1, <1>2 DEF Clocks
<1>4. elapsed' = elapsed /\ elapsed \in Nat
  <2>1. elapsed' = total_dispatch_wall_time + ((clock + 1) - (clock + 1))
    BY <1>2 DEF elapsed
  <2> QED
    BY <2>1, <1>1, <1>2, ElapsedIsNat DEF Clocks
<1>5. ASSUME NEW w \in Workers PROVE Share(w)'
  <2> DEFINE g == profile[w].active_begin
             b == profile[w].busy_time
             d == deepest[w]
  <2>1. Len(stack[w]) = 0 /\ clock \in Nat /\ g \in Nat /\ b \in Nat /\ d \in Nat
    BY <1>1, <1>2, LengthsAreNat DEF AtRest, Clocks, WorkerState
  <2>2. g <= clock /\ Within(b, 0, clock - g, d, elapsed)
    BY <2>1 DEF TimeInv, Share
  <2>3. Len(stack'[w]) = 0 /\ profile'[w] = profile[w] /\ deepest'[w] = deepest[w]
    BY <2>1, <1>2
  <2> HIDE DEF g, b, d
  <2>4. clock - g \in Nat /\ (clock + 1) - g \in Nat /\ g <= clock + 1 /\ 0 <= d
    BY <2>1, <2>2
  <2>5. Within(b, 0, (clock + 1) - g, d, elapsed)
    BY <2>1, <2>2, <2>4, <1>4, RestFits
  <2> QED
    BY <2>3, <2>4, <2>5, <1>2, <1>4 DEF Share, g, b, d
<1> QED
  BY <1>3, <1>5 DEF TimeInv

LEMMA TimeComplete ==
    ASSUME RunInv, TimeInv, Complete
    PROVE  TimeInv'
<1>1. TypeOK /\ Clocks
  BY DEF RunInv, TimeInv
<1>2. /\ dispatched /\ dispatched' = FALSE /\ clock' = clock + 1
      /\ total_dispatch_wall_time' = total_dispatch_wall_time + (clock' - dispatch_start)
      /\ UNCHANGED <<profile, dispatch_start, deepest, stack>>
  BY DEF Complete
<1>3. Clocks'
  BY <1>1, <1>2 DEF Clocks
<1>4. elapsed' = elapsed + 1
  <2>1. elapsed' = total_dispatch_wall_time + ((clock + 1) - dispatch_start)
    BY <1>2 DEF elapsed
  <2> QED
    BY <2>1, <1>1, <1>2, ElapsedIsNat DEF Clocks
<1> QED
  BY <1>1, <1>2, <1>3, <1>4, IdleShare DEF TimeInv

LEMMA ElapsedTicks ==
    ASSUME TypeOK, Clocks, dispatched, dispatched' = dispatched, clock' = clock + 1,
           UNCHANGED <<dispatch_start, total_dispatch_wall_time>>
    PROVE  elapsed' = elapsed + 1
<1>1. elapsed' = total_dispatch_wall_time + ((clock + 1) - dispatch_start)
  BY DEF elapsed
<1> QED
  BY <1>1, ElapsedIsNat DEF Clocks

LEMMA EntryState ==
    ASSUME NEW state \in WorkerState, NEW now \in Nat
    PROVE  /\ handleWorkerEntry(state, now) \in WorkerState
           /\ handleWorkerEntry(state, now).busy_time = state.busy_time
           /\ handleWorkerEntry(state, now).active_begin = now
<1>1. state.started_count + 1 \in Nat
  BY DEF WorkerState
<1>2. handleWorkerEntry(state, now) \in WorkerState
  BY <1>1 DEF handleWorkerEntry, WorkerState
<1>3. /\ handleWorkerEntry(state, now).busy_time = state.busy_time
      /\ handleWorkerEntry(state, now).active_begin = now
  BY DEF handleWorkerEntry, WorkerState
<1> QED
  BY <1>2, <1>3

LEMMA ExitState ==
    ASSUME NEW state \in WorkerState, NEW now \in Nat, now > state.active_begin
    PROVE  /\ handleWorkerExit(state, now) \in WorkerState
           /\ handleWorkerExit(state, now).busy_time = state.busy_time + (now - state.active_begin)
           /\ handleWorkerExit(state, now).active_begin = state.active_begin
<1>1. /\ state.busy_time + (now - state.active_begin) \in Nat /\ state.finished_count + 1 \in Nat
  BY DEF WorkerState
<1> QED
  BY <1>1 DEF handleWorkerExit, WorkerState

LEMMA TimeEnter ==
    ASSUME RunInv, TimeInv, dispatched, NEW w \in Workers, NEW x \in ready, Enter(w, x)
    PROVE  TimeInv'
<1>1. TypeOK /\ Clocks /\ Share(w)
  BY DEF RunInv, TimeInv
<1>2. PICK a : a = [item |-> x, step |-> IF shouldCancel(x) THEN "canceled" ELSE "body"]
  OBVIOUS
<1>3. /\ stack' = [stack EXCEPT ![w] = <<a>> \o @]
      /\ clock' = clock + 1 /\ dispatched' = dispatched
      /\ profile' = [profile EXCEPT ![w] = handleWorkerEntry(@, clock')]
      /\ deepest' = [deepest EXCEPT ![w] = IF Len(stack'[w]) > @ THEN Len(stack'[w]) ELSE @]
      /\ UNCHANGED <<dispatch_start, total_dispatch_wall_time>>
  BY <1>2 DEF Enter, invoke, control
<1>4. a \in Activation
  BY <1>1, <1>2, ReadyIsItem DEF Activation
<1>5. Len(stack'[w]) = Len(stack[w]) + 1
  <2>1. stack[w] \in Seq(Activation) /\ stack'[w] = <<a>> \o stack[w]
    BY <1>1, <1>3 DEF TypeOK
  <2> QED
    BY <2>1, <1>4, Pushed
<1>6. elapsed' = elapsed + 1
  BY <1>1, <1>3, ElapsedTicks
<1> DEFINE l == Len(stack[w])
           g == profile[w].active_begin
           b == profile[w].busy_time
           d == deepest[w]
<1>7. l \in Nat /\ elapsed \in Nat /\ b \in Nat /\ g \in Nat /\ d \in Nat /\ clock \in Nat
  BY <1>1, LengthsAreNat, ElapsedIsNat DEF Clocks, WorkerState
<1>8. profile[w] \in WorkerState
  BY <1>1 DEF Clocks
<1>9. /\ profile'[w] \in WorkerState
      /\ profile'[w].busy_time = b /\ profile'[w].active_begin = clock + 1
  <2>1. profile'[w] = handleWorkerEntry(profile[w], clock + 1)
    BY <1>1, <1>3 DEF Clocks
  <2>2. clock + 1 \in Nat
    BY <1>7
  <2> QED
    BY <2>1, <2>2, <1>8, EntryState
<1>10. /\ deepest'[w] \in Nat /\ d <= deepest'[w] /\ Len(stack'[w]) <= deepest'[w]
  BY <1>1, <1>3, <1>5, <1>7 DEF Clocks
<1>11. Clocks'
  <2>1. profile' \in [Workers -> WorkerState]
    BY <1>1, <1>3, <1>9 DEF Clocks
  <2>2. deepest' \in [Workers -> Nat]
    BY <1>1, <1>3, <1>10 DEF Clocks
  <2> QED
    BY <2>1, <2>2, <1>1, <1>3 DEF Clocks
<1>12. Share(w)'
  <2>1. l <= d /\ g <= clock /\ Within(b, l, clock - g, d, elapsed)
    BY <1>1 DEF Share
  <2> HIDE DEF l, g, b, d
  <2>2. clock - g \in Nat /\ (clock + 1) - (clock + 1) = 0
    BY <2>1, <1>7
  <2>3. Within(b, l + 1, 0, deepest'[w], elapsed + 1)
    BY <2>1, <2>2, <1>7, <1>10, EntryFits
  <2>4. Len(stack'[w]) = l + 1
    BY <1>5 DEF l
  <2> QED
    BY <2>2, <2>3, <2>4, <1>3, <1>6, <1>7, <1>9, <1>10 DEF Share
<1>13. ASSUME NEW v \in Workers, v # w PROVE Share(v)'
  <2>1. Len(stack'[v]) = Len(stack[v]) /\ profile'[v] = profile[v] /\ deepest'[v] = deepest[v]
    BY <1>1, <1>3, <1>13 DEF TypeOK, Clocks
  <2> QED
    BY <2>1, <1>1, <1>3, <1>6, IdleShare DEF TimeInv
<1> QED
  BY <1>11, <1>12, <1>13 DEF TimeInv

LEMMA TimeReturn ==
    ASSUME RunInv, TimeInv, dispatched, NEW w \in Workers, Return(w)
    PROVE  TimeInv'
<1>1. TypeOK /\ Once /\ Clocks /\ Share(w)
  BY DEF RunInv, TimeInv
<1>2. /\ stack[w] # <<>> /\ stack' = [stack EXCEPT ![w] = Tail(@)]
      /\ clock' = clock + 1 /\ dispatched' = dispatched
      /\ profile' = [profile EXCEPT ![w] = handleWorkerExit(@, clock')]
      /\ UNCHANGED <<dispatch_start, total_dispatch_wall_time, deepest>>
  BY DEF Return, at, control
<1>3. Len(stack[w]) \in Nat \ {0} /\ Len(stack'[w]) = Len(stack[w]) - 1
  BY <1>1, <1>2, PopActive
<1>4. elapsed' = elapsed + 1
  BY <1>1, <1>2, ElapsedTicks
<1> DEFINE l == Len(stack[w])
           g == profile[w].active_begin
           b == profile[w].busy_time
           d == deepest[w]
<1>5. l \in Nat /\ elapsed \in Nat /\ b \in Nat /\ g \in Nat /\ d \in Nat /\ clock \in Nat
  BY <1>1, LengthsAreNat, ElapsedIsNat DEF Clocks, WorkerState
<1>6. l <= d /\ g <= clock /\ Within(b, l, clock - g, d, elapsed)
  BY <1>1 DEF Share
<1>7. profile[w] \in WorkerState
  BY <1>1 DEF Clocks
<1>8. /\ clock + 1 > g /\ clock - g \in Nat /\ (clock + 1) - g = (clock - g) + 1 /\ g <= clock + 1
      /\ b + ((clock + 1) - g) \in Nat
  BY <1>5, <1>6
<1>9. profile'[w] = handleWorkerExit(profile[w], clock + 1)
  BY <1>1, <1>2 DEF Clocks
<1>10. /\ profile'[w] \in WorkerState
       /\ profile'[w].busy_time = b + ((clock + 1) - g) /\ profile'[w].active_begin = g
  <2>1. clock + 1 \in Nat /\ clock + 1 > profile[w].active_begin
    BY <1>5, <1>8
  <2> QED
    BY <2>1, <1>7, <1>9, ExitState
<1>11. Clocks'
  <2>1. profile' \in [Workers -> WorkerState]
    BY <1>1, <1>2, <1>10 DEF Clocks
  <2> QED
    BY <2>1, <1>1, <1>2 DEF Clocks
<1>12. Share(w)'
  <2>1. Len(stack'[w]) = l - 1 /\ l > 0 /\ deepest'[w] = d
    BY <1>2, <1>3
  <2> HIDE DEF l, g, b, d
  <2>2. Within(b + ((clock - g) + 1), l - 1, (clock - g) + 1, d, elapsed + 1)
    BY <2>1, <1>5, <1>6, <1>8, ExitFits
  <2>3. Within(b + ((clock + 1) - g), l - 1, (clock + 1) - g, d, elapsed + 1)
    BY <2>2, <1>8
  <2>4. l - 1 <= d
    BY <1>5, <1>6
  <2> QED
    BY <2>1, <2>3, <2>4, <1>2, <1>4, <1>8, <1>10 DEF Share
<1>13. ASSUME NEW v \in Workers, v # w PROVE Share(v)'
  <2>1. Len(stack'[v]) = Len(stack[v]) /\ profile'[v] = profile[v] /\ deepest'[v] = deepest[v]
    BY <1>1, <1>2, <1>13 DEF TypeOK, Clocks
  <2> QED
    BY <2>1, <1>1, <1>2, <1>4, IdleShare DEF TimeInv
<1> QED
  BY <1>11, <1>12, <1>13 DEF TimeInv

LEMMA TimeNext == RunInv /\ TimeInv /\ [Next]_vars => TimeInv'
<1> SUFFICES ASSUME RunInv, TimeInv, [Next]_vars
             PROVE  TimeInv'
  OBVIOUS
<1>1. TypeOK /\ Once
  BY DEF RunInv
<1>2. CASE Build \/ RequestStop \/ UNCHANGED vars
  <2>1. UNCHANGED <<time, dispatched, stack>>
    BY <1>2 DEF Build, Register, Precede, RequestStop, vars, control
  <2> QED
    BY <2>1, <1>1, TimeStands
<1>3. ASSUME NEW w \in Workers,
             Spawn(w) \/ Join(w) \/ Joined(w) \/ (\E x, y \in Items : Link(w, x, y))
      PROVE  TimeInv'
  <2>1. UNCHANGED <<time, dispatched>>
    BY <1>3 DEF Spawn, Join, Joined, Link, control
  <2>2. \A v \in Workers : Len(stack'[v]) = Len(stack[v])
    <3>1. CASE Spawn(w) \/ (\E x, y \in Items : Link(w, x, y))
      BY <3>1 DEF Spawn, Link
    <3>2. CASE Join(w) \/ Joined(w)
      <4>1. stack[w] # <<>> /\ \E step \in {"body", "joining", "canceled"} : goTo(w, step)
        BY <3>2 DEF Join, Joined, building, at
      <4> QED
        BY <4>1, <1>1, GoToActive
    <3> QED
      BY <3>1, <3>2, <1>3
  <2> QED
    BY <2>1, <2>2, <1>1, TimeStands
<1>4. ASSUME dispatched, NEW w \in Workers, WorkerStep(w)
      PROVE  TimeInv'
  BY <1>3, <1>4, TimeEnter, TimeReturn DEF WorkerStep
<1> QED
  BY <1>2, <1>4, TimeComplete, TimeDispatch DEF Next, Execute

LEMMA SharesBound == RunInv /\ TimeInv => UtilizationBounded
<1> SUFFICES ASSUME RunInv, TimeInv, ~dispatched, NEW w \in Workers
             PROVE  utilization_permille(profile[w], total_dispatch_wall_time) <= 1000 * deepest[w]
  BY DEF UtilizationBounded
<1> DEFINE l == Len(stack[w])
           age == clock - profile[w].active_begin
           b == profile[w].busy_time
           d == deepest[w]
           t == total_dispatch_wall_time
<1>1. TypeOK /\ Clocks /\ Share(w)
  BY DEF RunInv, TimeInv
<1>2. l \in Nat /\ t \in Nat /\ b \in Nat /\ d \in Nat /\ elapsed = t
  BY <1>1, LengthsAreNat, ElapsedIsNat DEF Clocks, WorkerState
<1>3. age \in Nat
  BY <1>1 DEF Clocks, Share, WorkerState
<1>4. Within(b, l, age, d, t)
  BY <1>1, <1>2 DEF Share
<1> HIDE DEF l, age, b, d, t
<1>5. CASE t = 0
  BY <1>2, <1>5 DEF utilization_permille, t, d
<1>6. CASE t # 0
  <2>1. (b * 1000) \div t <= 1000 * d
    BY <1>2, <1>3, <1>4, <1>6, ShareOfWhole
  <2> QED
    BY <2>1, <1>6 DEF utilization_permille, t, d, b
<1> QED
  BY <1>5, <1>6

(***************************************************************************)
(* The utilization the report gives of a worker is at most 1000 permille   *)
(* for each activation the worker ever had on its stack at once: entries   *)
(* that nest count the time inside again, and nothing else does.           *)
(***************************************************************************)
THEOREM WorkersAreBounded == Spec => []UtilizationBounded
BY Invariance, TimeInit, TimeNext, SharesBound, PTL DEF Spec
=============================================================================
