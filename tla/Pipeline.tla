------------------------------ MODULE Pipeline ------------------------------
(***************************************************************************)
(* A pipeline task of a plan on the Taskflow backend: a serial pipe that   *)
(* admits tokens, then one pipe per stage, on LineCount lines.  Token t    *)
(* runs on line t modulo LineCount; a serial stage takes the tokens in     *)
(* order, a parallel one as they come.  A stage looks at the cancel token  *)
(* and at the pipeline's stop flag, then calls its function, which may     *)
(* set the flag.                                                           *)
(***************************************************************************)
EXTENDS Naturals, FiniteSets

CONSTANTS
    TokenCount,     \* token_count_
    StageCount,     \* stages the builder added
    SerialStages,   \* those added with serialStage
    LineCount,      \* line_count, from max_concurrency and token_count_
    MaxDispatches   \* bound: dispatches, each after the run before is over

ASSUME PipelineAssumption ==
    /\ TokenCount \in Nat \ {0} /\ StageCount \in Nat \ {0}
    /\ SerialStages \subseteq 0 .. StageCount - 1
    /\ LineCount \in 1 .. TokenCount
    /\ MaxDispatches \in Nat

Stages == 0 .. StageCount - 1
AllTokens == 0 .. TokenCount - 1

VARIABLES
    dispatched, dispatches,
    cancel_requested,   \* the cancel state of the plan
    stop_requested,     \* the pipeline's own flag
    admitted,           \* tokens the first pipe has let in
    closed,             \* pipeflow.stop() was called
    stage,              \* the stage each token is at, StageCount when through
    inside,             \* tokens whose stage has looked at the flags and goes on
    calling,            \* those of them in the stage's function
    called,             \* history: <<token, stage>> called in this run
    stoppers,           \* history: tokens that called stop() in this run
    late                \* history: calls begun in this run after stop()

vars == <<dispatched, dispatches, cancel_requested, stop_requested, admitted, closed, stage,
          inside, calling, called, stoppers, late>>

Init ==
    /\ dispatched = FALSE /\ dispatches = 0
    /\ cancel_requested = FALSE /\ stop_requested = FALSE
    /\ admitted = 0 /\ closed = FALSE
    /\ stage = [t \in AllTokens |-> 0]
    /\ inside = {} /\ calling = {} /\ called = {} /\ stoppers = {}
    /\ late = 0

\* Mutant: the stop flag of the last run is kept.
DispatchStillStopped ==
    /\ ~dispatched /\ dispatches < MaxDispatches
    /\ dispatched' = TRUE /\ dispatches' = dispatches + 1
    /\ cancel_requested' = FALSE
    /\ admitted' = 0 /\ closed' = FALSE
    /\ stage' = [t \in AllTokens |-> 0]
    /\ called' = {} /\ stoppers' = {} /\ late' = 0
    /\ UNCHANGED <<stop_requested, inside, calling>>

\* Center::dispatch with a fresh token; its pre-dispatch hook resets the flag
\* and the pipeline.
Dispatch ==
    /\ ~dispatched /\ dispatches < MaxDispatches
    /\ dispatched' = TRUE /\ dispatches' = dispatches + 1
    /\ cancel_requested' = FALSE /\ stop_requested' = FALSE
    /\ admitted' = 0 /\ closed' = FALSE
    /\ stage' = [t \in AllTokens |-> 0]
    /\ called' = {} /\ stoppers' = {} /\ late' = 0
    /\ UNCHANGED <<inside, calling>>

RequestStop ==
    /\ dispatched /\ ~cancel_requested
    /\ cancel_requested' = TRUE
    /\ UNCHANGED <<dispatched, dispatches, stop_requested, admitted, closed, stage, inside,
                   calling, called, stoppers, late>>

through(t) == stage[t] = StageCount

\* Mutant: one line too many.
ExtraLineFree == admitted > LineCount => through(admitted - LineCount - 1)

\* The line of the next token is free.
lineFree == admitted >= LineCount => through(admitted - LineCount)

halted == cancel_requested \/ stop_requested

\* Mutant: a halted pipe returns without pipeflow.stop().
AdmitUnlessHalted ==
    /\ dispatched /\ ~closed /\ lineFree
    /\ ~halted
    /\ IF admitted >= TokenCount
       THEN closed' = TRUE /\ UNCHANGED admitted
       ELSE admitted' = admitted + 1 /\ UNCHANGED closed
    /\ UNCHANGED <<dispatched, dispatches, cancel_requested, stop_requested, stage, inside,
                   calling, called, stoppers, late>>

\* The first pipe: lets the next token in, or ends the stream.
Admit ==
    /\ dispatched /\ ~closed /\ lineFree
    /\ IF halted \/ admitted >= TokenCount
       THEN closed' = TRUE /\ UNCHANGED admitted
       ELSE admitted' = admitted + 1 /\ UNCHANGED closed
    /\ UNCHANGED <<dispatched, dispatches, cancel_requested, stop_requested, stage, inside,
                   calling, called, stoppers, late>>

\* Mutant: every stage is parallel.
ReadyInAnyOrder(t) == t < admitted /\ ~through(t) /\ t \notin inside

\* Taskflow runs the stage of token t: a serial stage once the token before has
\* left it.
ready(t) ==
    /\ t < admitted /\ ~through(t) /\ t \notin inside
    /\ stage[t] \in SerialStages /\ t > 0 => stage[t - 1] > stage[t]

\* Mutant: the stop flag is not looked at.
EnterStoppedStage(t) ==
    /\ ready(t)
    /\ IF cancel_requested
       THEN stage' = [stage EXCEPT ![t] = @ + 1] /\ UNCHANGED inside
       ELSE inside' = inside \cup {t} /\ UNCHANGED stage
    /\ UNCHANGED <<dispatched, dispatches, cancel_requested, stop_requested, admitted, closed,
                   calling, called, stoppers, late>>

\* The pipe of a stage looks at the cancel token and the flag, and returns at
\* once if one is set.
EnterStage(t) ==
    /\ ready(t)
    /\ IF halted
       THEN stage' = [stage EXCEPT ![t] = @ + 1] /\ UNCHANGED inside
       ELSE inside' = inside \cup {t} /\ UNCHANGED stage
    /\ UNCHANGED <<dispatched, dispatches, cancel_requested, stop_requested, admitted, closed,
                   calling, called, stoppers, late>>

\* It calls the function of the stage.
CallStage(t) ==
    /\ t \in inside \ calling
    /\ calling' = calling \cup {t}
    /\ called' = called \cup {<<t, stage[t]>>}
    /\ late' = IF stop_requested THEN late + 1 ELSE late
    /\ UNCHANGED <<dispatched, dispatches, cancel_requested, stop_requested, admitted, closed,
                   stage, inside, stoppers>>

\* PipelineTokenContext::stop, from the function of a stage.
Stop(t) ==
    /\ t \in calling \ stoppers
    /\ stop_requested' = TRUE
    /\ stoppers' = stoppers \cup {t}
    /\ UNCHANGED <<dispatched, dispatches, cancel_requested, admitted, closed, stage, inside,
                   calling, called, late>>

LeaveStage(t) ==
    /\ t \in calling
    /\ calling' = calling \ {t}
    /\ inside' = inside \ {t}
    /\ stage' = [stage EXCEPT ![t] = @ + 1]
    /\ UNCHANGED <<dispatched, dispatches, cancel_requested, stop_requested, admitted, closed,
                   called, stoppers, late>>

Complete ==
    /\ dispatched /\ closed
    /\ \A t \in AllTokens : t < admitted => through(t)
    /\ dispatched' = FALSE
    /\ UNCHANGED <<dispatches, cancel_requested, stop_requested, admitted, closed, stage, inside,
                   calling, called, stoppers, late>>

Execute ==
    \/ Admit \/ Complete
    \/ \E t \in AllTokens : EnterStage(t) \/ CallStage(t) \/ LeaveStage(t)

Next == Dispatch \/ RequestStop \/ Execute \/ \E t \in AllTokens : Stop(t)

\* The workers keep running and the functions of the stages return.
Spec == Init /\ [][Next]_vars /\ WF_vars(Execute)

-----------------------------------------------------------------------------

(***************************************************************************)
(* What was called is cut off cleanly wherever a stop or a cancellation    *)
(* strikes: a token is never called in a stage without the stages before,  *)
(* nor in a serial stage without the tokens before.                        *)
(***************************************************************************)
CalledIsPrefix ==
    \A c \in called :
        /\ \A s \in Stages : s < c[2] => <<c[1], s>> \in called
        /\ c[2] \in SerialStages =>
               \A t \in AllTokens : t < c[1] => <<t, c[2]>> \in called

\* When a token is called, the tokens LineCount or more before it have gone
\* through every stage: with one line, everything before a stop is complete.
OldTokensComplete ==
    \A c \in called, t \in AllTokens :
        t + LineCount <= c[1] => {t} \X Stages \subseteq called

\* A run that nobody stopped or cancelled calls each stage for each token,
\* whatever happened in the run before.
AllStagesCalled ==
    dispatches > 0 /\ ~dispatched /\ stoppers = {} /\ ~cancel_requested =>
        called = AllTokens \X Stages

\* After stop(), each of the other lines calls at most the one stage that had
\* looked at the flag before.
StopTakesHold == late <= LineCount - 1

\* Every dispatched pipeline ends, stopped, cancelled or not.
PipelineEnds == dispatched ~> ~dispatched
=============================================================================
