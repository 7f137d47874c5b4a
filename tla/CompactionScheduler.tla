------------------------ MODULE CompactionScheduler ------------------------
(***************************************************************************)
(* namidb-server/src/maintenance.rs: the single-flight admission of a       *)
(* namespace's compaction worker, and the fair lock that keeps compaction   *)
(* passes and orphan sweeps apart. Every operation holds the scheduler's    *)
(* mutex, or is one lock transition, so each is one step. Who takes the     *)
(* steps, and what a pass or a sweep does, is said by Maintenance.          *)
(***************************************************************************)
VARIABLES
    worker_active,  \* SchedulerState.worker_active
    pending,        \* SchedulerState.pending holds a trigger
    readers,        \* the passes holding maintenance_gate for reading
    sweeping,       \* the sweep holds maintenance_gate for writing
    queued,         \* the sweep waits for maintenance_gate
    due             \* history: a trigger no basis has been captured after

schedVars == <<worker_active, pending, readers, sweeping, queued, due>>

SchedInit ==
    /\ worker_active = FALSE
    /\ pending = FALSE
    /\ readers = {}
    /\ sweeping = FALSE
    /\ queued = FALSE
    /\ due = FALSE

-----------------------------------------------------------------------------
(* Forms of the operations below with a plausible mistake in them.          *)

\* The follow-up is looked at after the worker has declared itself idle.
NextTriggerOrStopForgetting(p, again) ==
    /\ again = FALSE
    /\ worker_active' = FALSE
    /\ pending' = FALSE
    /\ readers' = readers \ {p}
    /\ UNCHANGED <<sweeping, queued, due>>

\* Dropping an aborted worker does not reset admission.
WorkerDroppedStuck(p) ==
    /\ readers' = readers \ {p}
    /\ due' = FALSE
    /\ UNCHANGED <<worker_active, pending, sweeping, queued>>

\* Readers overtake a queued sweep.
CompactionGuardBarging(p) ==
    /\ ~sweeping
    /\ readers' = readers \cup {p}
    /\ UNCHANGED <<worker_active, pending, sweeping, queued, due>>

\* The sweep does not wait for passes that hold the gate.
SweepGuardIgnoringPasses ==
    /\ queued
    /\ queued' = FALSE
    /\ sweeping' = TRUE
    /\ UNCHANGED <<worker_active, pending, readers, due>>

-----------------------------------------------------------------------------
\* CompactionScheduler::admit. `starts` tells the caller to spawn the worker;
\* while one is active the first trigger is kept and later ones coalesce.
Admit(starts) ==
    /\ starts = ~worker_active
    /\ worker_active' = TRUE
    /\ pending' = (pending \/ worker_active)
    /\ due' = TRUE
    /\ UNCHANGED <<readers, sweeping, queued>>

\* next_trigger_or_stop: take the follow-up (`again`), or become idle, in one
\* critical section; the maintenance guard of the pass ends with it.
NextTriggerOrStop(p, again) ==
    /\ again = pending
    /\ worker_active' = pending
    /\ pending' = FALSE
    /\ readers' = readers \ {p}
    /\ UNCHANGED <<sweeping, queued, due>>

\* WorkerLease::drop: the worker was aborted or panicked. Its follow-up goes
\* with it, and so does its read guard.
WorkerDropped(p) ==
    /\ worker_active' = FALSE
    /\ pending' = FALSE
    /\ due' = FALSE
    /\ readers' = readers \ {p}
    /\ UNCHANGED <<sweeping, queued>>

\* compaction_guard. The lock is fair and prefers writers: a pass that comes
\* after a queued sweep waits for it.
CompactionGuard(p) ==
    /\ ~sweeping
    /\ ~queued
    /\ readers' = readers \cup {p}
    /\ UNCHANGED <<worker_active, pending, sweeping, queued, due>>

\* The guard of a drain's pass is dropped at the end of the loop body.
ReleaseGuard(p) ==
    /\ readers' = readers \ {p}
    /\ UNCHANGED <<worker_active, pending, sweeping, queued, due>>

\* The worker captured its basis: every trigger so far is served by this pass.
BasisCaptured ==
    /\ due' = FALSE
    /\ UNCHANGED <<worker_active, pending, readers, sweeping, queued>>

\* wait_idle returns, and the maintenance loop goes on to sweep_guard.
WaitIdleOver ==
    /\ ~worker_active
    /\ queued' = TRUE
    /\ UNCHANGED <<worker_active, pending, readers, sweeping, due>>

\* sweep_guard is granted.
SweepGuard ==
    /\ queued
    /\ readers = {}
    /\ queued' = FALSE
    /\ sweeping' = TRUE
    /\ UNCHANGED <<worker_active, pending, readers, due>>

\* The sweep is over and its guard is dropped.
SweepOver ==
    /\ sweeping
    /\ sweeping' = FALSE
    /\ UNCHANGED <<worker_active, pending, readers, queued, due>>

=============================================================================
