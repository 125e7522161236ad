------------------------- MODULE ConditionRunProofs -------------------------
(***************************************************************************)
(* Plans and frame plans with condition tasks, for any number of nodes,    *)
(* edges, workers and decisions, with loops and with a stop at any moment. *)
(*                                                                         *)
(* A node that edges from conditions only lead to is never counted down:   *)
(* it is in a queue because a condition put it there, one whose function   *)
(* chose it or one that was canceled, and a stop is not taken back.  What  *)
(* was chosen is in a queue until a worker enters it.  A plan is a frame   *)
(* plan of one phase, to which the builder adds no edge; so there the      *)
(* nodes a caller put behind conditions only are such nodes.               *)
(***************************************************************************)
EXTENDS ConditionRun, TLAPS

-----------------------------------------------------------------------------
(* Bags. *)

LEMMA InSum ==
    ASSUME NEW A, NEW B, NEW x
    PROVE  BagIn(x, A (+) B) <=> BagIn(x, A) \/ BagIn(x, B)
BY DEF BagIn, BagToSet, (+)

LEMMA InMinus ==
    ASSUME NEW A, NEW B, NEW x, BagIn(x, A (-) B)
    PROVE  BagIn(x, A)
BY DEF BagIn, BagToSet, (-)

LEMMA InOne ==
    ASSUME NEW x, NEW y
    PROVE  BagIn(x, one(y)) <=> x = y
BY DEF BagIn, BagToSet, SetToBag, one

LEMMA InMinusOne ==
    ASSUME NEW A, IsABag(A), NEW y, NEW x, BagIn(x, A), x # y
    PROVE  BagIn(x, A (-) one(y))
BY DEF BagIn, BagToSet, SetToBag, one, IsABag, (-)

LEMMA InEmpty ==
    ASSUME NEW x
    PROVE  ~BagIn(x, EmptyBag)
BY DEF BagIn, BagToSet, SetToBag, EmptyBag

LEMMA InSetToBag ==
    ASSUME NEW S, NEW x
    PROVE  BagIn(x, SetToBag(S)) <=> x \in S
BY DEF BagIn, BagToSet, SetToBag

LEMMA BagsAreBags ==
    /\ IsABag(EmptyBag)
    /\ \A S : IsABag(SetToBag(S))
    /\ \A A, B : IsABag(A) /\ IsABag(B) => IsABag(A (+) B)
    /\ \A A, y : IsABag(A) => IsABag(A (-) one(y))
<1>1. \A S : IsABag(SetToBag(S))
  BY DEF IsABag, SetToBag
<1>2. ASSUME NEW A, NEW B, IsABag(A), IsABag(B)
      PROVE  IsABag(A (+) B)
  <2>1. \A e \in DOMAIN A : A[e] \in Nat /\ A[e] > 0
    BY <1>2 DEF IsABag
  <2>2. \A e \in DOMAIN B : B[e] \in Nat /\ B[e] > 0
    BY <1>2 DEF IsABag
  <2> QED
    BY <2>1, <2>2 DEF IsABag, (+)
<1>3. ASSUME NEW A, NEW y, IsABag(A)
      PROVE  IsABag(A (-) one(y))
  <2>1. \A e \in DOMAIN A : A[e] \in Nat /\ A[e] > 0
    BY <1>3 DEF IsABag
  <2> QED
    BY <2>1 DEF IsABag, SetToBag, one, (-)
<1> QED
  BY <1>1, <1>2, <1>3 DEF EmptyBag

-----------------------------------------------------------------------------

\* There is no run before a plan is compiled, and nothing is left of one complete.
AtRest ==
    /\ stage # "compiled" => phase = "idle"
    /\ phase = "idle" =>
          scheduled = EmptyBag /\ running = EmptyBag /\ called = {} /\ chosen = {}
    /\ phase = "complete" => scheduled = EmptyBag /\ running = EmptyBag
    /\ IsABag(scheduled)

\* Why a node led by conditions is in a queue, and why a node on a worker is skipped.
Brought ==
    /\ \A n : isLed(n) /\ BagIn(n, scheduled) => selected(n) \/ stop_requested
    /\ \A n : BagIn(<<n, TRUE>>, running) => stop_requested

Kept == \A n : selected(n) => n \in invoked \/ BagIn(n, scheduled)

RunInv == AtRest /\ Brought /\ Kept /\ LedRunsOnlyIfChosen

LEMMA InitInv == RunInit => RunInv
<1> SUFFICES ASSUME RunInit
             PROVE  RunInv
  OBVIOUS
<1>1. AtRest
  BY BagsAreBags DEF RunInit, Init, AtRest
<1>2. Brought
  BY InEmpty DEF RunInit, Brought
<1>3. Kept /\ LedRunsOnlyIfChosen
  BY DEF RunInit, Kept, selected, LedRunsOnlyIfChosen
<1> QED
  BY <1>1, <1>2, <1>3 DEF RunInv

\* Builder calls come before the run.
LEMMA BuildInv == RunInv /\ BuildFramePlan => RunInv'
<1> SUFFICES ASSUME RunInv, BuildFramePlan
             PROVE  RunInv'
  OBVIOUS
<1>1. stage = "building" /\ UNCHANGED run
  BY DEF BuildFramePlan, Next, Task, SystemTask, PhaseBarrier, SetAutoPhaseBarriers, Clear, addNode,
         Precede, Compile
<1>2. /\ phase' = "idle" /\ scheduled' = EmptyBag /\ running' = EmptyBag /\ called' = {}
      /\ chosen' = {} /\ IsABag(scheduled')
  BY <1>1 DEF RunInv, AtRest, run
<1>3. AtRest'
  BY <1>2 DEF AtRest
<1>4. Brought'
  BY <1>2, InEmpty DEF Brought
<1>5. Kept' /\ LedRunsOnlyIfChosen'
  BY <1>2 DEF Kept, selected, LedRunsOnlyIfChosen
<1> QED
  BY <1>3, <1>4, <1>5 DEF RunInv

\* A run leaves the plan as it is.
LEMMA SamePlan ==
    ASSUME UNCHANGED <<vars, successors>>
    PROVE  /\ UNCHANGED <<stage, nodes, kind, autoEdges, userEdges, active, barrier_sources>>
           /\ \A n : isCondition(n)' <=> isCondition(n)
           /\ \A n : isLed(n)' <=> isLed(n)
           /\ chosen \subseteq chosen' => \A n : selected(n) => selected(n)'
           /\ chosen' = chosen => \A n : selected(n)' <=> selected(n)
BY DEF vars, plan, meta, isCondition, isLed, isSource, strongPredecessors, Edges, selected

LEMMA DispatchInv ==
    ASSUME RunInv, Dispatch
    PROVE  RunInv'
<1>1. /\ stage = "compiled" /\ phase = "idle" /\ phase' = "dispatched"
      /\ scheduled' = SetToBag({n \in nodes : isSource(n)})
      /\ UNCHANGED <<vars, successors, running, invoked, called, chosen, stop_requested>>
  BY DEF Dispatch
<1>2. AtRest /\ running = EmptyBag /\ called = {} /\ chosen = {}
  BY <1>1 DEF RunInv, AtRest
<1>3. AtRest'
  BY <1>1, <1>2, SamePlan, BagsAreBags DEF AtRest
<1>4. \A n : isLed(n) => ~isSource(n)
  BY DEF isLed
<1>5. Brought'
  <2>1. PICK S : S = {n \in nodes : isSource(n)}
    OBVIOUS
  <2>2. \A n : BagIn(n, scheduled') => isSource(n)
    BY <2>1, <1>1, InSetToBag
  <2>3. \A n : isLed(n)' => ~BagIn(n, scheduled')
    BY <2>2, <1>1, <1>4, SamePlan
  <2>4. \A n : ~BagIn(<<n, TRUE>>, running')
    BY <1>1, <1>2, InEmpty
  <2> QED
    BY <2>3, <2>4 DEF Brought
<1>6. Kept' /\ LedRunsOnlyIfChosen'
  BY <1>1, <1>2 DEF Kept, selected, LedRunsOnlyIfChosen
<1> QED
  BY <1>3, <1>5, <1>6 DEF RunInv

LEMMA ControlInv ==
    ASSUME RunInv, RequestStop \/ Complete \/ UNCHANGED runVars
    PROVE  RunInv'
<1>1. /\ UNCHANGED <<vars, successors, scheduled, running, invoked, called, chosen>>
      /\ stop_requested => stop_requested'
  BY DEF RequestStop, Complete, runVars, run
<1>2. AtRest /\ Brought /\ Kept /\ LedRunsOnlyIfChosen
  BY DEF RunInv
<1>3. AtRest'
  <2>1. phase' = phase \/ (phase = "dispatched" /\ phase' = "complete" /\ scheduled = EmptyBag /\ running = EmptyBag)
    BY DEF RequestStop, Complete, runVars, run
  <2> QED
    BY <2>1, <1>1, <1>2, SamePlan DEF AtRest
<1>4. Brought'
  BY <1>1, <1>2, SamePlan DEF Brought
<1>5. Kept' /\ LedRunsOnlyIfChosen'
  BY <1>1, <1>2, SamePlan DEF Kept, LedRunsOnlyIfChosen
<1> QED
  BY <1>3, <1>4, <1>5 DEF RunInv

LEMMA InvokeInv ==
    ASSUME RunInv, NEW n \in nodes, Invoke(n)
    PROVE  RunInv'
<1>1. /\ BagIn(n, scheduled)
      /\ scheduled' = scheduled (-) one(n)
      /\ running' = running (+) one(<<n, skips(n)>>)
      /\ invoked' = invoked \cup {n}
      /\ called' = IF skips(n) THEN called ELSE called \cup {n}
      /\ UNCHANGED <<vars, successors, phase, chosen, stop_requested>>
  BY DEF Invoke
<1>2. AtRest /\ Brought /\ Kept /\ LedRunsOnlyIfChosen
  BY DEF RunInv
<1>3. phase # "idle" /\ phase # "complete"
  BY <1>1, <1>2, InEmpty DEF AtRest
<1>4. AtRest'
  BY <1>1, <1>2, <1>3, SamePlan, BagsAreBags DEF AtRest
<1>5. Brought'
  <2>1. \A m : BagIn(m, scheduled') => BagIn(m, scheduled)
    BY <1>1, InMinus
  <2>2. ASSUME NEW m, BagIn(<<m, TRUE>>, running') PROVE stop_requested
    <3>1. BagIn(<<m, TRUE>>, running) \/ <<m, TRUE>> = <<n, skips(n)>>
      BY <2>2, <1>1, InSum, InOne
    <3>2. <<m, TRUE>> = <<n, skips(n)>> => skips(n)
      OBVIOUS
    <3> QED
      BY <3>1, <3>2, <1>2 DEF Brought, skips
  <2> QED
    BY <2>1, <2>2, <1>1, <1>2, SamePlan DEF Brought
<1>6. Kept'
  <2>1. \A m : m # n /\ BagIn(m, scheduled) => BagIn(m, scheduled')
    BY <1>1, <1>2, InMinusOne DEF AtRest
  <2> QED
    BY <2>1, <1>1, <1>2, SamePlan DEF Kept
<1>7. LedRunsOnlyIfChosen'
  <2>1. ASSUME isLed(n), n \notin NonCancellable, ~skips(n) PROVE selected(n)
    BY <2>1, <1>1, <1>2 DEF Brought, skips
  <2> QED
    BY <2>1, <1>1, <1>2, SamePlan DEF LedRunsOnlyIfChosen
<1> QED
  BY <1>4, <1>5, <1>6, <1>7 DEF RunInv

\* A node that returns: what it puts into a queue is not led by conditions, or was chosen.
LEMMA FinishInv ==
    ASSUME RunInv, NEW n \in nodes, NEW skipped \in BOOLEAN, Finish(n, skipped)
    PROVE  RunInv'
<1>1. /\ BagIn(<<n, skipped>>, running)
      /\ running' = running (-) one(<<n, skipped>>)
      /\ IF isCondition(n) THEN FinishCondition(n, skipped) ELSE FinishTask(n)
      /\ UNCHANGED <<vars, successors, phase, invoked, called, stop_requested>>
  BY DEF Finish
<1>2. AtRest /\ Brought /\ Kept /\ LedRunsOnlyIfChosen
  BY DEF RunInv
<1>3. phase # "idle" /\ phase # "complete"
  BY <1>1, <1>2, InEmpty DEF AtRest
<1>4. skipped => stop_requested
  <2>1. skipped => <<n, skipped>> = <<n, TRUE>>
    OBVIOUS
  <2> QED
    BY <2>1, <1>1, <1>2 DEF Brought
<1>5. \A m : BagIn(<<m, TRUE>>, running') => stop_requested
  BY <1>1, <1>2, InMinus DEF Brought
<1> DEFINE Moved ==
             /\ chosen \subseteq chosen' /\ IsABag(scheduled')
             /\ \A m : BagIn(m, scheduled) => BagIn(m, scheduled')
             /\ \A m : isLed(m) /\ BagIn(m, scheduled') =>
                          BagIn(m, scheduled) \/ selected(m)' \/ stop_requested
             /\ \A m : selected(m)' => selected(m) \/ BagIn(m, scheduled')
<1>6. Moved
  <2>1. CASE ~isCondition(n)
    <3>1. PICK S : /\ S \subseteq {s \in nodes : <<n, s>> \in Edges}
                   /\ scheduled' = scheduled (+) SetToBag(S) /\ chosen' = chosen
      BY <1>1, <2>1 DEF FinishTask
    <3>2. \A s \in S : ~isLed(s)
      BY <3>1, <2>1 DEF isLed, strongPredecessors
    <3>3. IsABag(scheduled')
      BY <3>1, <1>2, BagsAreBags DEF AtRest
    <3> QED
      BY <3>1, <3>2, <3>3, <1>1, SamePlan, InSum, InSetToBag
  <2>2. ASSUME isCondition(n), NEW index \in Nat, branch(n, index),
               \/ skipped /\ chosen' = chosen
               \/ chosen' = chosen \cup {<<n, index>>}
        PROVE  Moved
    <3>1. CASE index < Len(successors[n])
      <4>1. PICK t : t = successors[n][index + 1]
        OBVIOUS
      <4>2. scheduled' = scheduled (+) one(t)
        BY <2>2, <3>1, <4>1 DEF branch
      <4>3. IsABag(scheduled')
        BY <4>2, <1>2, BagsAreBags DEF AtRest, one
      <4>4. \A m : BagIn(m, scheduled') <=> BagIn(m, scheduled) \/ m = t
        BY <4>2, InSum, InOne
      <4>5. \/ stop_requested
            \/ selected(t)'
        <5>1. CASE skipped
          BY <5>1, <1>4
        <5>2. CASE chosen' = chosen \cup {<<n, index>>}
          <6>1. <<n, index>> \in chosen' /\ <<n, index>>[1] = n /\ <<n, index>>[2] = index
            BY <5>2
          <6>2. index < Len(successors'[n]) /\ successors'[n][index + 1] = t
            BY <3>1, <4>1, <1>1
          <6> QED
            BY <6>1, <6>2 DEF selected
        <5> QED
          BY <5>1, <5>2, <2>2
      <4>6. \A m : selected(m)' => selected(m) \/ m = t
        BY <2>2, <4>1, <1>1 DEF selected
      <4> QED
        BY <4>3, <4>4, <4>5, <4>6, <2>2
    <3>2. CASE ~(index < Len(successors[n]))
      <4>1. scheduled' = scheduled
        BY <2>2, <3>2 DEF branch
      <4>2. \A m : selected(m)' => selected(m)
        BY <2>2, <3>2, <1>1 DEF selected
      <4> QED
        BY <4>1, <4>2, <2>2, <1>2 DEF AtRest
    <3> QED
      BY <3>1, <3>2
  <2>3. CASE isCondition(n)
    <3>1. FinishCondition(n, skipped)
      BY <2>3, <1>1
    <3>2. CASE skipped /\ branch(n, 0) /\ UNCHANGED chosen
      BY <3>2, <2>2, <2>3
    <3>3. CASE \E index \in 0 .. Len(successors[n]) : branch(n, index) /\ chosen' = chosen \cup {<<n, index>>}
      <4>1. PICK index \in 0 .. Len(successors[n]) : branch(n, index) /\ chosen' = chosen \cup {<<n, index>>}
        BY <3>3
      <4>2. index \in Nat
        OBVIOUS
      <4> QED
        BY <4>1, <4>2, <2>2, <2>3
    <3> QED
      BY <3>1, <3>2, <3>3 DEF FinishCondition
  <2> QED
    BY <2>1, <2>3
<1>7. AtRest'
  BY <1>1, <1>2, <1>3, <1>6, SamePlan DEF AtRest
<1>8. \A m : selected(m) => selected(m)'
  BY <1>1, <1>6, SamePlan
<1>9. Brought'
  BY <1>1, <1>2, <1>5, <1>6, <1>8, SamePlan DEF Brought
<1>10. Kept'
  BY <1>1, <1>2, <1>6 DEF Kept
<1>11. LedRunsOnlyIfChosen'
  BY <1>1, <1>2, <1>8, SamePlan DEF LedRunsOnlyIfChosen
<1> QED
  BY <1>7, <1>9, <1>10, <1>11 DEF RunInv

LEMMA Invariance == FramePlanSpec => []RunInv
<1>1. RunInv /\ [BuildFramePlan \/ Run]_runVars => RunInv'
  BY BuildInv, DispatchInv, ControlInv, InvokeInv, FinishInv DEF Run, Execute
<1> QED
  BY <1>1, InitInv, PTL DEF FramePlanSpec

(***************************************************************************)
(* However the phases, barriers, systems and conditions of a frame plan    *)
(* are put together, a node all of whose edges come from conditions calls  *)
(* its function only if the function of a condition chose it.              *)
(***************************************************************************)
THEOREM LedNodesAreChosen == FramePlanSpec => []LedRunsOnlyIfChosen
BY Invariance, PTL DEF RunInv

(***************************************************************************)
(* In a frame plan as in a plan, and however often a loop goes round       *)
(* beside it, a branch that was chosen has been entered by a worker when   *)
(* the run is over.                                                        *)
(***************************************************************************)
THEOREM FramesEnterChosenBranches == FramePlanSpec => []ChosenBranchRuns
<1>1. RunInv => ChosenBranchRuns
  BY InEmpty DEF RunInv, AtRest, Kept, ChosenBranchRuns
<1> QED
  BY <1>1, Invariance, PTL

-----------------------------------------------------------------------------
(* Plans. *)

LEMMA ZeroIsPhase == 0 \in Phases
BY FramePlanAssumption DEF FramePlanAssumption, Phases

(***************************************************************************)
(* What a caller builds and runs as a plan could have been a frame plan of *)
(* one phase.                                                              *)
(***************************************************************************)
THEOREM PlansAreFramePlans == PlanSpec => FramePlanSpec
<1>1. BuildPlan => BuildFramePlan
  BY ZeroIsPhase DEF BuildPlan, BuildFramePlan, Next
<1> QED
  BY <1>1, PTL DEF PlanSpec, FramePlanSpec

\* A plan in one phase has no automatic edge.
Untouched ==
    /\ autoEdges = {} /\ active \subseteq {0}
    /\ barrier_sources = [p \in Phases |-> {}]

LEMMA PlansStayUntouched == PlanSpec => []Untouched
<1>1. RunInit => Untouched
  BY DEF RunInit, Init, Untouched
<1>2. ASSUME Untouched, BuildPlan PROVE Untouched'
  <2>1. ASSUME NEW k \in TaskKinds, Task(0, k) PROVE Untouched'
    <3>1. sourcesOf(0) = {}
      BY <1>2, ZeroIsPhase DEF Untouched, sourcesOf, collectPreviousPhaseTails
    <3> QED
      BY <3>1, <2>1, <1>2 DEF Untouched, Task, registerPhaseNode, activatePhase, wireBarrierSources
  <2>2. ASSUME NEW m, NEW n, Precede(m, n) PROVE Untouched'
    BY <2>2, <1>2 DEF Untouched, Precede, meta
  <2>3. CASE Compile
    BY <2>3, <1>2 DEF Untouched, Compile, resetMetadata
  <2> QED
    BY <1>2, <2>1, <2>2, <2>3 DEF BuildPlan
<1>3. ASSUME Untouched, Run \/ UNCHANGED runVars PROVE Untouched'
  <2>1. UNCHANGED vars
    BY <1>3 DEF Run, Dispatch, RequestStop, Execute, Complete, Invoke, Finish, runVars
  <2> QED
    BY <1>3, <2>1 DEF Untouched, vars, plan, meta
<1> QED
  BY <1>1, <1>2, <1>3, PTL DEF PlanSpec

(***************************************************************************)
(* In every plan, with loops, conditions behind conditions and a stop at   *)
(* any moment, a branch calls its function only if the function of a       *)
(* condition chose it.                                                     *)
(***************************************************************************)
THEOREM BranchesAreChosen == PlanSpec => []BranchRunsOnlyIfChosen
<1>1. Untouched => \A n : isBranch(n) => isLed(n)
  BY DEF Untouched, isBranch, callerPredecessors, isLed, isSource, strongPredecessors, Edges
<1>2. Untouched /\ LedRunsOnlyIfChosen => BranchRunsOnlyIfChosen
  BY <1>1 DEF LedRunsOnlyIfChosen, BranchRunsOnlyIfChosen
<1> QED
  BY <1>2, PlansStayUntouched, PlansAreFramePlans, LedNodesAreChosen, PTL

(***************************************************************************)
(* However often a loop goes round beside it, a branch that was chosen has *)
(* been entered by a worker when the run is over.                          *)
(***************************************************************************)
THEOREM ChosenBranchesAreEntered == PlanSpec => []ChosenBranchRuns
BY PlansAreFramePlans, FramesEnterChosenBranches, PTL
=============================================================================
