--------------------------- MODULE FrameSchedule ---------------------------
(***************************************************************************)
(* What a frame promises, without graph, barriers, counters or workers:    *)
(* a dispatch runs every task once, and a task begins only when every task *)
(* promised to come before it has ended.  Only of an orderly frame is it   *)
(* promised that nothing is left out.                                      *)
(***************************************************************************)
VARIABLES
    tasks,        \* the tasks of the frame
    before,       \* pairs <<m, n>>: m is promised to end before n begins
    orderly,      \* the caller asked for no order against the registration
    dispatched,   \* a run of the frame is under way
    begun, ended  \* tasks that have begun, ended in this run

vars == <<tasks, before, orderly, dispatched, begun, ended>>

Init ==
    /\ tasks = {} /\ before = {} /\ orderly = TRUE
    /\ dispatched = FALSE
    /\ begun = {} /\ ended = {}

\* Between runs the frame may be changed in any way.
Edit ==
    /\ ~dispatched
    /\ UNCHANGED <<dispatched, begun, ended>>

Dispatch ==
    /\ ~dispatched
    /\ dispatched' = TRUE
    /\ begun' = {} /\ ended' = {}
    /\ UNCHANGED <<tasks, before, orderly>>

Begin(t) ==
    /\ dispatched
    /\ t \in tasks \ begun
    /\ \A m \in tasks : <<m, t>> \in before => m \in ended
    /\ begun' = begun \cup {t}
    /\ UNCHANGED <<tasks, before, orderly, dispatched, ended>>

End(t) ==
    /\ dispatched
    /\ t \in begun \ ended
    /\ ended' = ended \cup {t}
    /\ UNCHANGED <<tasks, before, orderly, dispatched, begun>>

Complete ==
    /\ dispatched
    /\ begun = ended
    /\ orderly => ended = tasks
    /\ dispatched' = FALSE
    /\ UNCHANGED <<tasks, before, orderly, begun, ended>>

Next ==
    \/ Edit \/ Dispatch \/ Complete
    \/ \E t \in tasks : Begin(t) \/ End(t)

Spec == Init /\ [][Next]_vars
=============================================================================
