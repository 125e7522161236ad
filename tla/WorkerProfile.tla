---------------------------- MODULE WorkerProfile ----------------------------
(***************************************************************************)
(* What a FrameRuntimeCollector keeps of one worker, and the utilization   *)
(* the report gives.  Only its own worker writes a WorkerRuntimeState, so  *)
(* each update is one step.                                                *)
(***************************************************************************)
EXTENDS Naturals

NewWorkerState ==
    [started_count |-> 0, finished_count |-> 0, busy_time |-> 0, active_begin |-> 0]

\* Mutant: an entry does not note the time.
EntryKeepsTime(worker_state, now) == [worker_state EXCEPT !.started_count = @ + 1]

handleWorkerEntry(worker_state, now) ==
    [worker_state EXCEPT !.started_count = @ + 1, !.active_begin = now]

\* The time since the last entry, of whichever task that was.
handleWorkerExit(worker_state, now) ==
    [worker_state EXCEPT
        !.finished_count = @ + 1,
        !.busy_time = IF now > worker_state.active_begin
                      THEN @ + (now - worker_state.active_begin) ELSE @]

\* snapshot, of the dispatches that have ended.
utilization_permille(worker_state, total_dispatch_wall_time) ==
    IF total_dispatch_wall_time = 0 THEN 0
    ELSE (worker_state.busy_time * 1000) \div total_dispatch_wall_time
=============================================================================
