--------------------------- MODULE PipelineProofs ---------------------------
(***************************************************************************)
(* Proofs about the pipeline for every number of tokens, stages and lines  *)
(* and every choice of serial stages.  What was called is what the stages  *)
(* had passed while nobody had stopped the run: each proof follows a token *)
(* from the moment its stage looked at the flags, after which the flags    *)
(* may be set but the tokens before it only move on.                       *)
(***************************************************************************)
EXTENDS Pipeline, FiniteSetTheorems, TLAPS

Flags ==
    /\ dispatched \in BOOLEAN /\ closed \in BOOLEAN
    /\ cancel_requested \in BOOLEAN /\ stop_requested \in BOOLEAN

Tables ==
    /\ dispatches \in Nat
    /\ admitted \in 0 .. TokenCount
    /\ stage \in [AllTokens -> 0 .. StageCount]
    /\ inside \subseteq AllTokens /\ calling \subseteq inside
    /\ called \subseteq AllTokens \X Stages
    /\ stoppers \subseteq AllTokens
    /\ late \in Nat

TypeOK == Flags /\ Tables

(***************************************************************************)
(* The lines: a token that was not admitted is at the start, one whose     *)
(* line was given to a later token is through, and nothing is under way    *)
(* between the runs.                                                       *)
(***************************************************************************)
Lines ==
    /\ \A t \in AllTokens : t >= admitted => stage[t] = 0 /\ t \notin inside
    /\ \A t \in AllTokens : t + LineCount < admitted => through(t)
    /\ \A t \in inside : stage[t] < StageCount
    /\ ~dispatched => \A t \in AllTokens : t < admitted => through(t)

\* A serial stage is passed in the order of the tokens.
SerialOrder ==
    /\ \A u, t \in AllTokens, s \in SerialStages :
          u < t /\ s < stage[t] => s < stage[u]
    /\ \A t \in inside, u \in AllTokens :
          u < t /\ stage[t] \in SerialStages => stage[t] < stage[u]

(***************************************************************************)
(* What was called.  While the run is not halted, every stage passed was   *)
(* called; so all that the stage of a token entered relied on, the stages  *)
(* before, the tokens before in a serial stage, the tokens whose lines     *)
(* were free, was called when it looked at the flags.                      *)
(***************************************************************************)
CalledBefore(t) ==
    /\ \A s \in Stages : s < stage[t] => <<t, s>> \in called
    /\ stage[t] \in SerialStages =>
           \A u \in AllTokens : u < t => <<u, stage[t]>> \in called
    /\ \A u \in AllTokens : u + LineCount <= t => {u} \X Stages \subseteq called

Calls ==
    /\ ~halted => \A t \in AllTokens, s \in Stages : s < stage[t] => <<t, s>> \in called
    /\ \A t \in inside : CalledBefore(t)
    /\ \A t \in calling : <<t, stage[t]>> \in called

\* How a run ends.
Ending ==
    /\ stop_requested => stoppers # {}
    /\ closed /\ ~halted => admitted = TokenCount
    /\ dispatches > 0 /\ ~dispatched => closed

\* The stages that looked at the flag before stop() and are not called yet.
LateCalls ==
    /\ stop_requested => late + Cardinality(inside \ calling) <= LineCount - 1
    /\ ~stop_requested => late = 0

PipeInv ==
    /\ TypeOK /\ Lines /\ SerialOrder /\ Calls /\ Ending /\ LateCalls
    /\ CalledIsPrefix /\ OldTokensComplete

-----------------------------------------------------------------------------
(* Types. *)

\* Arithmetic facts about the constants and the sets of tokens and stages.
LEMMA Constants ==
    /\ TokenCount \in Nat \ {0} /\ StageCount \in Nat \ {0} /\ LineCount \in Nat \ {0}
    /\ AllTokens \subseteq Nat /\ Stages \subseteq Nat /\ SerialStages \subseteq Stages
    /\ \A s \in Nat : s < StageCount => s \in Stages
    /\ \A s \in Stages : s < StageCount
BY PipelineAssumption DEF PipelineAssumption, AllTokens, Stages

LEMMA InitPipeInv == Init => PipeInv
<1> SUFFICES ASSUME Init PROVE PipeInv
  OBVIOUS
<1>1. /\ dispatched = FALSE /\ dispatches = 0 /\ cancel_requested = FALSE
      /\ stop_requested = FALSE /\ closed = FALSE
  BY DEF Init
<1>2. /\ admitted = 0 /\ stage = [t \in AllTokens |-> 0] /\ late = 0
      /\ inside = {} /\ calling = {} /\ called = {} /\ stoppers = {}
  BY DEF Init
<1>3. Flags
  BY <1>1 DEF Flags
<1>4. Tables
  <2>1. stage \in [AllTokens -> 0 .. StageCount]
    BY <1>2, Constants
  <2> QED BY <1>1, <1>2, <2>1, Constants DEF Tables
<1>5. Lines
  BY <1>2, Constants DEF Lines
<1>6. SerialOrder /\ Calls
  BY <1>2, Constants DEF SerialOrder, Calls
<1>7. Ending /\ LateCalls
  BY <1>1, <1>2 DEF Ending, LateCalls
<1>8. CalledIsPrefix /\ OldTokensComplete
  BY <1>2 DEF CalledIsPrefix, OldTokensComplete
<1> QED BY <1>3, <1>4, <1>5, <1>6, <1>7, <1>8 DEF PipeInv, TypeOK

\* A token moves to the next stage.
LEMMA StageAdvances ==
    ASSUME Tables, NEW t \in AllTokens, stage[t] < StageCount,
           stage' = [stage EXCEPT ![t] = @ + 1]
    PROVE  /\ stage' \in [AllTokens -> 0 .. StageCount]
           /\ stage[t] \in Stages /\ stage'[t] = stage[t] + 1
           /\ \A u \in AllTokens : /\ u # t => stage'[u] = stage[u]
                                   /\ stage[u] \in Nat /\ stage'[u] \in Nat
                                   /\ stage[u] <= stage'[u]
                                   /\ through(u) => through(u)'
<1>1. stage \in [AllTokens -> 0 .. StageCount] /\ StageCount \in Nat
  BY Constants DEF Tables
<1>2. stage[t] \in Nat /\ stage[t] \in Stages
  BY <1>1, Constants
<1>3. stage'[t] = stage[t] + 1 /\ stage[t] + 1 \in 0 .. StageCount
  BY <1>1, <1>2
<1>4. \A u \in AllTokens : u # t => stage'[u] = stage[u]
  BY <1>1
<1>5. stage' \in [AllTokens -> 0 .. StageCount]
  BY <1>1, <1>3
<1> QED BY <1>1, <1>2, <1>3, <1>4, <1>5 DEF through

LEMMA NextFlags == Flags /\ [Next]_vars => Flags'
<1> SUFFICES ASSUME Flags, [Next]_vars PROVE Flags'
  OBVIOUS
<1>1. ASSUME Dispatch \/ RequestStop \/ Admit \/ Complete PROVE Flags'
  BY <1>1 DEF Dispatch, RequestStop, Admit, Complete, Flags
<1>2. ASSUME NEW t \in AllTokens, EnterStage(t) \/ CallStage(t) \/ LeaveStage(t) \/ Stop(t)
      PROVE  Flags'
  BY <1>2 DEF EnterStage, CallStage, LeaveStage, Stop, Flags
<1>3. CASE UNCHANGED vars
  BY <1>3 DEF vars, Flags
<1> QED BY <1>1, <1>2, <1>3 DEF Next, Execute

LEMMA NextTables == Tables /\ Lines /\ [Next]_vars => Tables'
<1> SUFFICES ASSUME Tables, Lines, [Next]_vars PROVE Tables'
  OBVIOUS
<1> USE Constants
<1>1. CASE Dispatch
  <2>1. stage' \in [AllTokens -> 0 .. StageCount]
    BY <1>1 DEF Dispatch
  <2> QED BY <1>1, <2>1 DEF Dispatch, Tables
<1>2. CASE Admit
  <2>1. admitted' \in 0 .. TokenCount
    BY <1>2 DEF Admit, Tables
  <2> QED BY <1>2, <2>1 DEF Admit, Tables
<1>3. ASSUME NEW t \in AllTokens, EnterStage(t) PROVE Tables'
  <2>1. stage[t] \in 0 .. StageCount /\ stage[t] # StageCount
    BY <1>3 DEF EnterStage, ready, through, Tables
  <2>2. stage' \in [AllTokens -> 0 .. StageCount]
    BY <1>3, <2>1, StageAdvances DEF EnterStage, Tables
  <2>3. inside' \subseteq AllTokens /\ inside \subseteq inside'
    BY <1>3 DEF EnterStage, Tables
  <2> QED BY <1>3, <2>2, <2>3 DEF EnterStage, Tables
<1>4. ASSUME NEW t \in AllTokens, CallStage(t) PROVE Tables'
  <2>1. stage[t] \in Stages
    BY <1>4 DEF CallStage, Tables, Lines
  <2>2. /\ calling' \subseteq inside /\ inside' = inside /\ late' \in Nat
        /\ called' \subseteq AllTokens \X Stages
    BY <1>4, <2>1 DEF CallStage, Tables
  <2> QED BY <1>4, <2>2 DEF CallStage, Tables
<1>5. ASSUME NEW t \in AllTokens, LeaveStage(t) PROVE Tables'
  <2>1. stage[t] < StageCount
    BY <1>5 DEF LeaveStage, Tables, Lines
  <2>2. stage' \in [AllTokens -> 0 .. StageCount]
    BY <1>5, <2>1, StageAdvances DEF LeaveStage
  <2>3. inside' \subseteq AllTokens /\ calling' \subseteq inside'
    BY <1>5 DEF LeaveStage, Tables
  <2> QED BY <1>5, <2>2, <2>3 DEF LeaveStage, Tables
<1>6. ASSUME NEW t \in AllTokens, Stop(t) PROVE Tables'
  BY <1>6 DEF Stop, Tables
<1>7. CASE UNCHANGED <<dispatches, admitted, stage, inside, calling, called, stoppers, late>>
  BY <1>7 DEF Tables
<1> QED BY <1>1, <1>2, <1>3, <1>4, <1>5, <1>6, <1>7
     DEF Next, Execute, RequestStop, Complete, vars

-----------------------------------------------------------------------------
(* The lines and the serial stages. *)

LEMMA NextLines == PipeInv /\ [Next]_vars => Lines'
<1> SUFFICES ASSUME PipeInv, [Next]_vars PROVE Lines'
  OBVIOUS
<1>0. Tables /\ Lines /\ Tables'
  BY NextTables DEF PipeInv, TypeOK
<1> USE Constants
<1>1. CASE Dispatch
  <2>1. inside = {}
    <3> SUFFICES ASSUME NEW t \in inside PROVE FALSE
      OBVIOUS
    <3>1. t \in AllTokens /\ t < admitted
      BY <1>0 DEF Tables, Lines
    <3> QED BY <1>0, <1>1, <3>1 DEF Dispatch, Lines, through
  <2> QED BY <1>1, <2>1 DEF Dispatch, Lines, through
<1>2. CASE UNCHANGED <<dispatched, admitted, stage, inside>>
  BY <1>0, <1>2 DEF Lines, through
<1>3. CASE Admit
  <2>1. UNCHANGED <<dispatched, stage, inside>> /\ dispatched
    BY <1>3 DEF Admit
  <2>2. CASE admitted' = admitted
    BY <1>2, <2>1, <2>2
  <2>3. CASE admitted' = admitted + 1 /\ lineFree
    <3>1. \A t \in AllTokens : t + LineCount < admitted' => through(t)'
      <4> SUFFICES ASSUME NEW t \in AllTokens, t + LineCount < admitted + 1 PROVE through(t)
        BY <2>1, <2>3 DEF through
      <4>1. CASE t + LineCount < admitted
        BY <1>0, <4>1 DEF Lines
      <4>2. CASE t + LineCount = admitted
        <5>1. admitted - LineCount = t /\ admitted >= LineCount
          BY <1>0, <4>2 DEF Tables
        <5> QED BY <2>3, <5>1 DEF lineFree
      <4> QED BY <1>0, <4>1, <4>2 DEF Tables
    <3>2. \A t \in AllTokens : t >= admitted' => stage'[t] = 0 /\ t \notin inside'
      BY <1>0, <2>1, <2>3 DEF Lines, Tables
    <3> QED BY <1>0, <2>1, <3>1, <3>2 DEF Lines
  <2> QED BY <1>3, <2>2, <2>3 DEF Admit
<1>4. CASE Complete
  BY <1>0, <1>4 DEF Complete, Lines, through
<1>5. ASSUME NEW t \in AllTokens, EnterStage(t) PROVE Lines'
  <2>1. /\ t < admitted /\ stage[t] < StageCount /\ t \notin inside /\ dispatched /\ dispatched'
        /\ admitted' = admitted
    BY <1>0, <1>5 DEF EnterStage, ready, through, Tables, Lines
  <2>2. CASE inside' = inside /\ stage' = [stage EXCEPT ![t] = @ + 1]
    <3>1. \A u \in AllTokens : /\ u # t => stage'[u] = stage[u]
                               /\ through(u) => through(u)'
      BY <1>0, <2>1, <2>2, StageAdvances
    <3> QED BY <1>0, <2>1, <2>2, <3>1 DEF Lines, Tables
  <2>3. CASE inside' = inside \cup {t} /\ stage' = stage
    BY <1>0, <2>1, <2>3 DEF Lines, Tables, through
  <2> QED BY <1>5, <2>2, <2>3 DEF EnterStage
<1>6. ASSUME NEW t \in AllTokens, LeaveStage(t) PROVE Lines'
  <2>1. /\ t \in inside /\ stage[t] < StageCount /\ inside' = inside \ {t}
        /\ stage' = [stage EXCEPT ![t] = @ + 1] /\ UNCHANGED <<admitted, dispatched>>
    BY <1>0, <1>6 DEF LeaveStage, Tables, Lines
  <2>2. t < admitted /\ dispatched
    BY <1>0, <2>1 DEF Lines, Tables, through
  <2> QED BY <1>0, <2>1, <2>2, StageAdvances DEF Lines, Tables
<1> QED BY <1>1, <1>2, <1>3, <1>4, <1>5, <1>6
     DEF Next, Execute, RequestStop, CallStage, Stop, vars

LEMMA NextSerialOrder == PipeInv /\ [Next]_vars => SerialOrder'
<1> SUFFICES ASSUME PipeInv, [Next]_vars PROVE SerialOrder'
  OBVIOUS
<1>0. Tables /\ Lines /\ SerialOrder /\ Tables' /\ Lines'
  BY NextTables, NextLines DEF PipeInv, TypeOK
<1> USE Constants
<1>1. CASE Dispatch
  <2>1. stage' = [t \in AllTokens |-> 0] /\ admitted' = 0
    BY <1>1 DEF Dispatch
  <2>2. inside' = {}
    BY <1>0, <2>1 DEF Lines, Tables
  <2> QED BY <2>1, <2>2 DEF SerialOrder
<1>2. CASE UNCHANGED <<stage, inside>>
  BY <1>0, <1>2 DEF SerialOrder
<1>3. ASSUME NEW t \in AllTokens, EnterStage(t) PROVE SerialOrder'
  <2>1. stage[t] < StageCount /\ t \notin inside
    BY <1>0, <1>3 DEF EnterStage, ready, through, Tables
  <2>2. ASSUME NEW u \in AllTokens, u < t, stage[t] \in SerialStages
        PROVE  stage[t] < stage[u]
    <3>1. t > 0 /\ t - 1 \in AllTokens /\ stage[t] < stage[t - 1]
      BY <1>0, <1>3, <2>2 DEF EnterStage, ready, AllTokens, Tables
    <3>2. u = t - 1 \/ u < t - 1
      BY <2>2, <3>1
    <3> QED BY <1>0, <2>2, <3>1, <3>2 DEF SerialOrder
  <2>3. CASE inside' = inside /\ stage' = [stage EXCEPT ![t] = @ + 1]
    <3>1. /\ stage'[t] = stage[t] + 1 /\ stage[t] \in Nat
          /\ \A i \in AllTokens : /\ i # t => stage'[i] = stage[i]
                                  /\ stage[i] \in Nat /\ stage[i] <= stage'[i]
      BY <1>0, <2>1, <2>3, StageAdvances
    <3>2. ASSUME NEW u \in AllTokens, NEW i \in AllTokens, NEW s \in SerialStages,
                 u < i, s < stage'[i]
          PROVE  s < stage'[u]
      <4>1. CASE i # t \/ s < stage[i]
        <5>1. s < stage[u]
          BY <1>0, <3>1, <3>2, <4>1 DEF SerialOrder
        <5> QED BY <3>1, <5>1
      <4>2. CASE i = t /\ ~(s < stage[i])
        <5>1. s = stage[t]
          BY <3>1, <3>2, <4>2
        <5> QED BY <2>2, <3>1, <3>2, <4>2, <5>1
      <4> QED BY <4>1, <4>2
    <3>3. ASSUME NEW i \in inside', NEW u \in AllTokens, u < i, stage'[i] \in SerialStages
          PROVE  stage'[i] < stage'[u]
      <4>1. i # t /\ i \in inside /\ i \in AllTokens
        BY <1>0, <2>1, <2>3, <3>3 DEF Tables
      <4>2. stage[i] < stage[u] /\ stage'[i] = stage[i]
        BY <1>0, <3>1, <3>3, <4>1 DEF SerialOrder
      <4> QED BY <3>1, <4>1, <4>2
    <3> QED BY <3>2, <3>3 DEF SerialOrder
  <2>4. CASE inside' = inside \cup {t} /\ stage' = stage
    BY <1>0, <2>2, <2>4 DEF SerialOrder
  <2> QED BY <1>3, <2>3, <2>4 DEF EnterStage
<1>4. ASSUME NEW t \in AllTokens, LeaveStage(t) PROVE SerialOrder'
  <2>1. /\ t \in inside /\ stage[t] < StageCount /\ inside' = inside \ {t}
        /\ stage' = [stage EXCEPT ![t] = @ + 1]
    BY <1>0, <1>4 DEF LeaveStage, Tables, Lines
  <2>2. /\ stage'[t] = stage[t] + 1 /\ stage[t] \in Nat
        /\ \A i \in AllTokens : /\ i # t => stage'[i] = stage[i]
                                /\ stage[i] \in Nat /\ stage[i] <= stage'[i]
    BY <1>0, <2>1, StageAdvances
  <2>3. ASSUME NEW u \in AllTokens, NEW i \in AllTokens, NEW s \in SerialStages,
               u < i, s < stage'[i]
        PROVE  s < stage'[u]
    <3>1. CASE i # t \/ s < stage[i]
      <4>1. s < stage[u]
        BY <1>0, <2>2, <2>3, <3>1 DEF SerialOrder
      <4> QED BY <2>2, <4>1
    <3>2. CASE i = t /\ ~(s < stage[i])
      <4>1. s = stage[t]
        BY <2>2, <2>3, <3>2
      <4>2. stage[t] < stage[u]
        BY <1>0, <2>1, <2>3, <3>2, <4>1 DEF SerialOrder
      <4> QED BY <2>2, <2>3, <3>2, <4>1, <4>2
    <3> QED BY <3>1, <3>2
  <2>4. ASSUME NEW i \in inside', NEW u \in AllTokens, u < i, stage'[i] \in SerialStages
        PROVE  stage'[i] < stage'[u]
    <3>1. i # t /\ i \in inside /\ i \in AllTokens
      BY <1>0, <2>1, <2>4 DEF Tables
    <3>2. stage[i] < stage[u] /\ stage'[i] = stage[i]
      BY <1>0, <2>2, <2>4, <3>1 DEF SerialOrder
    <3> QED BY <2>2, <3>1, <3>2
  <2> QED BY <2>3, <2>4 DEF SerialOrder
<1> QED BY <1>1, <1>2, <1>3, <1>4
     DEF Next, Execute, RequestStop, Admit, Complete, CallStage, Stop, vars

-----------------------------------------------------------------------------
(* What was called. *)

\* What the stage of t relies on, when it finds that the run is not halted.
LEMMA EnteredAfterCalls ==
    ASSUME PipeInv, NEW t \in AllTokens, ready(t), ~halted
    PROVE  CalledBefore(t)
<1>0. Tables /\ Lines /\ SerialOrder
  BY DEF PipeInv, TypeOK
<1> USE Constants
<1>1. \A u \in AllTokens, s \in Stages : s < stage[u] => <<u, s>> \in called
  BY DEF PipeInv, Calls
<1>2. ASSUME stage[t] \in SerialStages, NEW u \in AllTokens, u < t
      PROVE  <<u, stage[t]>> \in called
  <2>1. t > 0 /\ t - 1 \in AllTokens /\ stage[t] < stage[t - 1]
    BY <1>0, <1>2 DEF ready, AllTokens, Tables
  <2>2. u = t - 1 \/ u < t - 1
    BY <1>2, <2>1
  <2>3. stage[t] < stage[u]
    BY <1>0, <1>2, <2>1, <2>2 DEF SerialOrder
  <2> QED BY <1>1, <1>2, <2>3
<1>3. ASSUME NEW u \in AllTokens, u + LineCount <= t PROVE {u} \X Stages \subseteq called
  <2>1. t < admitted /\ admitted \in Nat
    BY <1>0 DEF ready, Tables
  <2>2. through(u)
    BY <1>0, <1>3, <2>1 DEF Lines
  <2>3. \A s \in Stages : <<u, s>> \in called
    BY <1>1, <2>2 DEF through
  <2>4. \A e \in {u} \X Stages : e = <<u, e[2]>> /\ e[2] \in Stages
    OBVIOUS
  <2> QED BY <2>3, <2>4
<1> QED BY <1>1, <1>2, <1>3 DEF CalledBefore

LEMMA CalledBeforeKept ==
    ASSUME NEW t, CalledBefore(t), stage'[t] = stage[t], called \subseteq called'
    PROVE  CalledBefore(t)'
<1>1. \A s \in Stages : s < stage'[t] => <<t, s>> \in called'
  BY DEF CalledBefore
<1>2. stage'[t] \in SerialStages => \A u \in AllTokens : u < t => <<u, stage'[t]>> \in called'
  BY DEF CalledBefore
<1>3. \A u \in AllTokens : u + LineCount <= t => {u} \X Stages \subseteq called'
  BY DEF CalledBefore
<1> QED BY <1>1, <1>2, <1>3 DEF CalledBefore

LEMMA NextCalls == PipeInv /\ [Next]_vars => Calls'
<1> SUFFICES ASSUME PipeInv, [Next]_vars PROVE Calls'
  OBVIOUS
<1>0. Tables /\ Lines /\ Calls /\ Tables' /\ Lines'
  BY NextTables, NextLines DEF PipeInv, TypeOK
<1> USE Constants
<1>1. CASE Dispatch
  <2>1. stage' = [t \in AllTokens |-> 0] /\ admitted' = 0
    BY <1>1 DEF Dispatch
  <2>2. inside' = {} /\ calling' = {}
    BY <1>0, <2>1 DEF Lines, Tables
  <2> QED BY <2>1, <2>2 DEF Calls
<1>2. CASE UNCHANGED <<stage, inside, calling, called>> /\ (halted => halted')
  BY <1>0, <1>2 DEF Calls, CalledBefore
<1>3. ASSUME NEW t \in AllTokens, EnterStage(t) PROVE Calls'
  <2>1. ready(t) /\ stage[t] < StageCount /\ t \notin inside /\ halted' = halted
    BY <1>0, <1>3 DEF EnterStage, ready, through, Tables, halted
  <2>2. called' = called /\ calling' = calling
    BY <1>3 DEF EnterStage
  <2>3. CASE halted /\ inside' = inside /\ stage' = [stage EXCEPT ![t] = @ + 1]
    <3>1. \A i \in inside : i \in AllTokens /\ stage'[i] = stage[i]
      BY <1>0, <2>1, <2>3, StageAdvances DEF Tables
    <3>2. \A i \in inside' : CalledBefore(i)'
      BY <1>0, <2>2, <2>3, <3>1, CalledBeforeKept DEF Calls
    <3> QED BY <1>0, <2>1, <2>2, <2>3, <3>1, <3>2 DEF Calls, Tables
  <2>4. CASE ~halted /\ inside' = inside \cup {t} /\ stage' = stage
    <3>1. CalledBefore(t)
      BY <2>1, <2>4, EnteredAfterCalls
    <3>2. \A i \in inside' : CalledBefore(i)'
      BY <1>0, <2>2, <2>4, <3>1, CalledBeforeKept DEF Calls
    <3> QED BY <1>0, <2>1, <2>2, <2>4, <3>2 DEF Calls
  <2> QED BY <1>3, <2>3, <2>4 DEF EnterStage
<1>4. ASSUME NEW t \in AllTokens, CallStage(t) PROVE Calls'
  <2>1. /\ UNCHANGED <<stage, inside>> /\ calling' = calling \cup {t}
        /\ called' = called \cup {<<t, stage[t]>>} /\ halted' = halted
    BY <1>4 DEF CallStage, halted
  <2>2. \A i \in inside' : CalledBefore(i)'
    BY <1>0, <2>1, CalledBeforeKept DEF Calls
  <2> QED BY <1>0, <2>1, <2>2 DEF Calls
<1>5. ASSUME NEW t \in AllTokens, LeaveStage(t) PROVE Calls'
  <2>1. /\ t \in calling /\ stage[t] < StageCount /\ inside' = inside \ {t}
        /\ calling' = calling \ {t} /\ called' = called
        /\ stage' = [stage EXCEPT ![t] = @ + 1] /\ halted' = halted
    BY <1>0, <1>5 DEF LeaveStage, Tables, Lines, halted
  <2>2. /\ stage'[t] = stage[t] + 1 /\ stage[t] \in Nat
        /\ \A i \in AllTokens : i # t => stage'[i] = stage[i]
    BY <1>0, <2>1, StageAdvances
  <2>3. \A i \in inside' : i \in AllTokens /\ CalledBefore(i)'
    BY <1>0, <2>1, <2>2, CalledBeforeKept DEF Calls, Tables
  <2>4. \A i \in calling' : <<i, stage'[i]>> \in called'
    BY <1>0, <2>1, <2>2 DEF Calls, Tables
  <2>5. ASSUME ~halted, NEW i \in AllTokens, NEW s \in Stages, s < stage'[i]
        PROVE  <<i, s>> \in called
    <3>1. CASE i # t \/ s < stage[i]
      BY <1>0, <2>2, <2>5, <3>1 DEF Calls
    <3>2. CASE i = t /\ ~(s < stage[i])
      <4>1. s = stage[t]
        BY <2>2, <2>5, <3>2
      <4> QED BY <1>0, <2>1, <3>2, <4>1 DEF Calls
    <3> QED BY <3>1, <3>2
  <2> QED BY <2>1, <2>3, <2>4, <2>5 DEF Calls
<1>6. ASSUME NEW t \in AllTokens, Stop(t) PROVE Calls'
  BY <1>2, <1>6 DEF Stop, halted
<1> QED BY <1>1, <1>2, <1>3, <1>4, <1>5, <1>6
     DEF Next, Execute, RequestStop, Admit, Complete, vars, halted

LEMMA NextPrefix ==
    PipeInv /\ [Next]_vars => CalledIsPrefix' /\ OldTokensComplete'
<1> SUFFICES ASSUME PipeInv, [Next]_vars PROVE CalledIsPrefix' /\ OldTokensComplete'
  OBVIOUS
<1>0. Tables /\ Calls /\ CalledIsPrefix /\ OldTokensComplete
  BY DEF PipeInv, TypeOK
<1>1. CASE UNCHANGED called
  BY <1>0, <1>1 DEF CalledIsPrefix, OldTokensComplete
<1>2. CASE Dispatch
  BY <1>2 DEF Dispatch, CalledIsPrefix, OldTokensComplete
<1>3. ASSUME NEW t \in AllTokens, CallStage(t) PROVE CalledIsPrefix' /\ OldTokensComplete'
  <2>1. called' = called \cup {<<t, stage[t]>>} /\ CalledBefore(t)
    BY <1>0, <1>3 DEF CallStage, Calls
  <2> DEFINE c == <<t, stage[t]>>
  <2>2. /\ \A s \in Stages : s < c[2] => <<c[1], s>> \in called'
        /\ c[2] \in SerialStages => \A u \in AllTokens : u < c[1] => <<u, c[2]>> \in called'
        /\ \A u \in AllTokens : u + LineCount <= c[1] => {u} \X Stages \subseteq called'
    BY <2>1 DEF CalledBefore
  <2>3. CalledIsPrefix'
    BY <1>0, <2>1, <2>2 DEF CalledIsPrefix
  <2>4. OldTokensComplete'
    BY <1>0, <2>1, <2>2 DEF OldTokensComplete
  <2> QED BY <2>3, <2>4
<1> QED BY <1>1, <1>2, <1>3
     DEF Next, Execute, RequestStop, Admit, Complete, EnterStage, LeaveStage, Stop, vars

-----------------------------------------------------------------------------
(* How a run ends, and what is called after stop(). *)

LEMMA NextEnding == PipeInv /\ [Next]_vars => Ending'
<1> SUFFICES ASSUME PipeInv, [Next]_vars PROVE Ending'
  OBVIOUS
<1>0. Tables /\ Ending /\ Tables'
  BY NextTables DEF PipeInv, TypeOK
<1> USE Constants
<1>1. CASE Dispatch
  BY <1>1 DEF Dispatch, Ending
<1>2. CASE UNCHANGED <<admitted, closed, dispatched, dispatches, stop_requested, stoppers>>
           /\ (halted => halted')
  BY <1>0, <1>2 DEF Ending
<1>3. CASE Admit
  <2>1. UNCHANGED <<stop_requested, stoppers, dispatched>> /\ dispatched /\ halted' = halted
    BY <1>3 DEF Admit, halted
  <2>2. ASSUME closed', ~halted PROVE admitted' = TokenCount
    <3>1. CASE admitted >= TokenCount
      BY <1>0, <1>3, <3>1 DEF Admit, Tables
    <3>2. CASE ~(admitted >= TokenCount)
      BY <1>3, <2>2, <3>2 DEF Admit
    <3> QED BY <3>1, <3>2
  <2> QED BY <1>0, <2>1, <2>2 DEF Ending
<1>4. CASE Complete
  BY <1>0, <1>4 DEF Complete, Ending, halted
<1>5. ASSUME NEW t \in AllTokens, Stop(t) PROVE Ending'
  BY <1>0, <1>5 DEF Stop, Ending, halted
<1> QED BY <1>1, <1>2, <1>3, <1>4, <1>5
     DEF Next, Execute, RequestStop, EnterStage, CallStage, LeaveStage, vars, halted

\* The tokens under way are on different lines.
LEMMA InsideOnLines ==
    ASSUME Tables, Lines
    PROVE  IsFiniteSet(inside) /\ Cardinality(inside) <= LineCount
<1> USE Constants
<1> DEFINE first == IF admitted >= LineCount THEN admitted - LineCount ELSE 0
<1>1. first \in Nat /\ admitted \in Nat /\ first <= admitted /\ admitted - first <= LineCount
  BY DEF Tables
<1>2. inside \subseteq first .. admitted - 1
  <2> SUFFICES ASSUME NEW t \in inside PROVE t \in first .. admitted - 1
    OBVIOUS
  <2>1. t \in AllTokens /\ t \in Nat /\ t < admitted
    BY <1>1 DEF Tables, Lines
  <2>2. ~(t + LineCount < admitted)
    BY <2>1 DEF Lines, through
  <2> QED BY <1>1, <2>1, <2>2
<1> HIDE DEF first
<1>3. IsFiniteSet(first .. admitted - 1)
      /\ Cardinality(first .. admitted - 1) = (IF first > admitted - 1 THEN 0
                                               ELSE admitted - 1 - first + 1)
  BY <1>1, FS_Interval
<1>4. /\ IsFiniteSet(inside) /\ Cardinality(inside) \in Nat
      /\ Cardinality(inside) <= Cardinality(first .. admitted - 1)
  BY <1>2, <1>3, FS_Subset, FS_CardinalityType
<1> QED BY <1>1, <1>3, <1>4

LEMMA NextLateCalls == PipeInv /\ [Next]_vars => LateCalls'
<1> SUFFICES ASSUME PipeInv, [Next]_vars PROVE LateCalls'
  OBVIOUS
<1>0. Tables /\ Lines /\ LateCalls /\ Tables'
  BY NextTables DEF PipeInv, TypeOK
<1> USE Constants
<1> DEFINE waiting == inside \ calling
<1>1. /\ IsFiniteSet(inside) /\ Cardinality(inside) <= LineCount /\ Cardinality(inside) \in Nat
      /\ IsFiniteSet(waiting) /\ Cardinality(waiting) \in Nat /\ late \in Nat
  BY <1>0, InsideOnLines, FS_Subset, FS_CardinalityType DEF Tables
<1>2. CASE Dispatch
  BY <1>2 DEF Dispatch, LateCalls
<1>3. CASE UNCHANGED <<stop_requested, late, waiting>>
  BY <1>0, <1>3 DEF LateCalls
<1>4. ASSUME NEW t \in AllTokens, EnterStage(t) PROVE LateCalls'
  <2>1. late' = late /\ stop_requested' = stop_requested /\ calling' = calling
    BY <1>4 DEF EnterStage
  <2>2. CASE stop_requested
    <3>1. waiting' = waiting
      BY <1>4, <2>2 DEF EnterStage, halted
    <3> QED BY <1>3, <2>1, <3>1
  <2>3. CASE ~stop_requested
    BY <1>0, <2>1, <2>3 DEF LateCalls
  <2> QED BY <2>2, <2>3
<1>5. ASSUME NEW t \in AllTokens, CallStage(t) PROVE LateCalls'
  <2>1. t \in waiting /\ waiting' = waiting \ {t} /\ stop_requested' = stop_requested
    BY <1>5 DEF CallStage
  <2>2. Cardinality(waiting') = Cardinality(waiting) - 1
    <3>1. Cardinality(waiting \ {t}) = Cardinality(waiting) - 1
      <4> HIDE DEF waiting
      <4> QED BY <1>1, <2>1, FS_RemoveElement
    <3> QED BY <2>1, <3>1
  <2>3. late' = IF stop_requested THEN late + 1 ELSE late
    BY <1>5 DEF CallStage
  <2> HIDE DEF waiting
  <2>4. stop_requested => late + Cardinality(waiting) <= LineCount - 1
    BY <1>0 DEF LateCalls, waiting
  <2>5. stop_requested' => late' + Cardinality(waiting') <= LineCount - 1
    BY <1>1, <2>1, <2>2, <2>3, <2>4
  <2>6. ~stop_requested' => late' = 0
    BY <1>0, <2>1, <2>3 DEF LateCalls
  <2> QED BY <2>5, <2>6 DEF LateCalls, waiting
<1>6. ASSUME NEW t \in AllTokens, LeaveStage(t) PROVE LateCalls'
  <2>1. waiting' = waiting /\ UNCHANGED <<stop_requested, late>>
    BY <1>6 DEF LeaveStage
  <2> QED BY <1>3, <2>1
<1>7. ASSUME NEW t \in AllTokens, Stop(t) PROVE LateCalls'
  <2>1. UNCHANGED <<inside, calling, late>> /\ stop_requested' = TRUE /\ t \in calling
    BY <1>7 DEF Stop
  <2>2. CASE stop_requested
    BY <1>0, <2>1, <2>2 DEF LateCalls
  <2>3. CASE ~stop_requested
    <3>1. late = 0
      BY <1>0, <2>3 DEF LateCalls
    <3>2. t \in inside /\ waiting \subseteq inside \ {t}
      BY <1>0, <2>1 DEF Tables
    <3>3. IsFiniteSet(inside \ {t}) /\ Cardinality(inside \ {t}) = Cardinality(inside) - 1
      BY <1>1, <3>2, FS_RemoveElement
    <3>4. Cardinality(waiting) <= Cardinality(inside \ {t})
      BY <3>2, <3>3, FS_Subset
    <3> HIDE DEF waiting
    <3>5. late + Cardinality(waiting) <= LineCount - 1
      BY <1>1, <3>1, <3>3, <3>4
    <3> QED BY <2>1, <3>5 DEF LateCalls, waiting
  <2> QED BY <2>2, <2>3
<1> QED BY <1>2, <1>3, <1>4, <1>5, <1>6, <1>7
     DEF Next, Execute, RequestStop, Admit, Complete, vars

LEMMA PipeInvariant == Spec => []PipeInv
<1>1. PipeInv /\ [Next]_vars => PipeInv'
  <2> SUFFICES ASSUME PipeInv, [Next]_vars PROVE PipeInv'
    OBVIOUS
  <2>1. TypeOK'
    BY NextFlags, NextTables DEF PipeInv, TypeOK
  <2> QED BY <2>1, NextLines, NextSerialOrder, NextCalls, NextPrefix, NextEnding,
             NextLateCalls DEF PipeInv
<1> QED BY <1>1, InitPipeInv, PTL DEF Spec

-----------------------------------------------------------------------------
(* The theorems. *)

(***************************************************************************)
(* A stop or a cancellation cuts a run cleanly: a token is never called in *)
(* a stage without the stages before, nor in a serial stage without the    *)
(* tokens before.                                                          *)
(***************************************************************************)
THEOREM CutsAreClean == Spec => []CalledIsPrefix
BY PipeInvariant, PTL DEF PipeInv

(***************************************************************************)
(* When a token is called in any stage, every token LineCount or more      *)
(* before it has been called in all of them.                               *)
(***************************************************************************)
THEOREM OldTokensAreComplete == Spec => []OldTokensComplete
BY PipeInvariant, PTL DEF PipeInv

(***************************************************************************)
(* A run that nobody stopped or cancelled has called every stage for every *)
(* token when it ends.                                                     *)
(***************************************************************************)
THEOREM RunsCallEverything == Spec => []AllStagesCalled
<1>1. PipeInv => AllStagesCalled
  <2> SUFFICES ASSUME PipeInv, dispatches > 0, ~dispatched, stoppers = {}, ~cancel_requested
               PROVE  called = AllTokens \X Stages
    BY DEF AllStagesCalled
  <2>1. ~halted /\ admitted = TokenCount
    BY DEF PipeInv, Ending, halted
  <2>2. \A t \in AllTokens : t < admitted
    BY <2>1, Constants DEF AllTokens
  <2>3. \A t \in AllTokens : stage[t] = StageCount
    BY <2>2 DEF PipeInv, Lines, through
  <2>4. \A t \in AllTokens, s \in Stages : <<t, s>> \in called
    BY <2>1, <2>3, Constants DEF PipeInv, Calls
  <2> QED BY <2>4 DEF PipeInv, TypeOK, Tables
<1> QED BY <1>1, PipeInvariant, PTL

(***************************************************************************)
(* After stop() at most one call begins on each of the other lines.        *)
(***************************************************************************)
THEOREM StopHolds == Spec => []StopTakesHold
<1>1. PipeInv => StopTakesHold
  <2> SUFFICES ASSUME PipeInv PROVE late <= LineCount - 1
    BY DEF StopTakesHold
  <2>1. Cardinality(inside \ calling) \in Nat /\ late \in Nat /\ LineCount \in Nat \ {0}
    BY Constants, InsideOnLines, FS_Subset, FS_CardinalityType DEF PipeInv, TypeOK, Tables
  <2>2. CASE stop_requested
    BY <2>1, <2>2 DEF PipeInv, LateCalls
  <2>3. CASE ~stop_requested
    BY <2>1, <2>3 DEF PipeInv, LateCalls
  <2> QED BY <2>2, <2>3
<1> QED BY <1>1, PipeInvariant, PTL
=============================================================================
