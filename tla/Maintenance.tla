---------------------------- MODULE Maintenance ----------------------------
(***************************************************************************)
(* Which objects a namespace's own maintenance leaves in the store: flushes *)
(* upload and commit SSTs under the writer mutex, compaction passes of the  *)
(* scheduled worker and of an operator's drain prepare off it, and the      *)
(* maintenance loop sweeps what no retained manifest references             *)
(* (namidb-server/src/maintenance.rs, registry.rs, lib.rs). An SST is its   *)
(* object's id; what its rows are is Lsm's, and leases of other processes   *)
(* are Retention's. The session's base and the published snapshot are one   *)
(* manifest, `pub`; it lags the store's after a commit that landed unseen.  *)
(*                                                                          *)
(* Assumption: a flush commits within the sweep's min_age of its upload,    *)
(* and a request whose sender is gone has landed by then or never does.     *)
(***************************************************************************)
EXTENDS CompactionScheduler, Integers, FiniteSets, FiniteSetsExt

CONSTANTS
    MaxObjects,     \* bound: below this many objects a flush or a plan is made
    MaxFaults,      \* bound on faults
    MaxIds,         \* bound on object ids
    None

ASSUME MaintAssumption ==
    /\ {MaxObjects, MaxFaults, MaxIds} \subseteq Nat
    /\ None \notin 1..MaxIds

Passes == {"worker", "drain"}

VARIABLES
    manifest,   \* the SSTs of the store's current manifest
    pub,        \* the SSTs of the session's base, which is what it published
    objects,    \* the SST objects in the store
    aged,       \* the ones older than min_age
    flushing,   \* the SST of the flush that holds the writer mutex
    pass,       \* where every pass is, its inputs and its output
    loop,       \* the maintenance loop: between ticks, in wait_idle, beyond it
    doomed,     \* what the sweep under way has decided to delete
    faults      \* faults so far

dataVars == <<manifest, pub, objects, aged, flushing>>
vars == <<schedVars, dataVars, pass, loop, doomed, faults>>

NoPass == [at |-> "idle", removed |-> {}, out |-> None]

Some(x) == {x} \ {None}

Ids == 1..MaxIds

\* Object ids are UUIDs: an id is fresh when nothing mentions it.
Unused ==
    Ids \ (manifest \cup pub \cup objects \cup doomed \cup Some(flushing)
            \cup UNION {pass[p].removed \cup Some(pass[p].out) : p \in Passes})

FreshId == Min(Unused)

Init ==
    /\ SchedInit
    /\ manifest = {} /\ pub = {} /\ objects = {} /\ aged = {}
    /\ flushing = None
    /\ pass = [p \in Passes |-> NoPass]
    /\ loop = "idle"
    /\ doomed = {}
    /\ faults = 0

Fault == faults < MaxFaults /\ faults' = faults + 1

Goto(p, at) == pass' = [pass EXCEPT ![p].at = at]

-----------------------------------------------------------------------------
(* Flushes.                                                                 *)

\* The SST is uploaded under the writer mutex.
FlushUpload ==
    /\ flushing = None
    /\ Cardinality(objects) < MaxObjects /\ Unused # {}
    /\ flushing' = FreshId
    /\ objects' = objects \cup {flushing'}
    /\ UNCHANGED <<schedVars, manifest, pub, aged, pass, loop, doomed, faults>>

\* The manifest commit, or its conflict, after which the session is reopened.
FlushCommit ==
    /\ flushing # None
    /\ manifest' = IF manifest = pub THEN manifest \cup {flushing} ELSE manifest
    /\ pub' = manifest'
    /\ flushing' = None
    /\ UNCHANGED <<schedVars, objects, aged, pass, loop, doomed, faults>>

\* The flush dies with its task, its commit landed or not.
FlushDies ==
    /\ flushing # None
    /\ Fault
    /\ manifest' \in {manifest} \cup
                      (IF manifest = pub THEN {manifest \cup {flushing}} ELSE {})
    /\ flushing' = None
    /\ UNCHANGED <<schedVars, pub, objects, aged, pass, loop, doomed>>

-----------------------------------------------------------------------------
(* Compaction passes: run_worker, drain_compaction, run_compaction_pass.    *)

\* request_compaction: a flush past its threshold, CREATE INDEX.
Request ==
    /\ \E starts \in BOOLEAN :
         /\ Admit(starts)
         /\ pass' = IF starts THEN [pass EXCEPT !["worker"].at = "gate"] ELSE pass
    /\ UNCHANGED <<dataVars, loop, doomed, faults>>

\* POST /v0/admin/compact: the drain does not go through admission.
StartDrain ==
    /\ pass["drain"].at = "idle"
    /\ Goto("drain", "gate")
    /\ UNCHANGED <<schedVars, dataVars, loop, doomed, faults>>

EnterGate(p) ==
    /\ pass[p].at = "gate"
    /\ CompactionGuard(p)
    /\ Goto(p, "basis")
    /\ UNCHANGED <<dataVars, loop, doomed, faults>>

\* The basis, under the writer mutex: Noop, or a plan. A merge takes two SSTs,
\* but a single one may be rewritten for a new index; here a plan takes all.
TakeBasis(p) ==
    /\ pass[p].at = "basis"
    /\ flushing = None
    /\ IF p = "worker" THEN BasisCaptured ELSE UNCHANGED schedVars
    /\ \/ Goto(p, "over")
       \/ /\ pub # {}
          /\ Cardinality(objects) < MaxObjects
          /\ pass' = [pass EXCEPT ![p] = [@ EXCEPT !.at = "prepare", !.removed = pub]]
    /\ UNCHANGED <<dataVars, loop, doomed, faults>>

\* prepare, off the mutex: the inputs are read, the output is uploaded.
Prepare(p) ==
    /\ pass[p].at = "prepare" /\ Unused # {}
    /\ pass' = [pass EXCEPT ![p] = [@ EXCEPT !.at = "install", !.out = FreshId]]
    /\ objects' = objects \cup {FreshId}
    /\ UNCHANGED <<schedVars, manifest, pub, aged, flushing, loop, doomed, faults>>

Compacted(p) == (manifest \ pass[p].removed) \cup Some(pass[p].out)

\* What an install whose caller does not learn of it may have left.
Landed(p) ==
    IF /\ pass[p].at = "install"
       /\ flushing = None /\ manifest = pub /\ pass[p].removed \subseteq pub
      THEN {Compacted(p)} ELSE {}

\* install_prepared_compaction under the mutex: abandoned when an input is no
\* longer there, else committed, or lost to a base that is stale and reopened.
Install(p) ==
    /\ pass[p].at = "install"
    /\ flushing = None
    /\ IF pass[p].removed \subseteq pub
         THEN /\ manifest' = IF manifest = pub THEN Compacted(p) ELSE manifest
              /\ pub' = manifest'
         ELSE UNCHANGED <<manifest, pub>>
    /\ pass' = [pass EXCEPT ![p] = [NoPass EXCEPT !.at = "over"]]
    /\ UNCHANGED <<schedVars, objects, aged, flushing, loop, doomed, faults>>

\* The prepare or the install reports an error and the pass is over; its task
\* goes on. An output may have been uploaded; an install may have landed, and
\* the reopen that follows it succeeds or fails.
PassFails(p) ==
    /\ Fault
    /\ \/ /\ pass[p].at = "prepare" /\ Unused # {}
          /\ objects' \in {objects, objects \cup {FreshId}}
          /\ UNCHANGED <<manifest, pub>>
       \/ /\ pass[p].at = "install" /\ flushing = None
          /\ manifest' \in {manifest} \cup Landed(p)
          /\ pub' \in {pub, manifest'}
          /\ UNCHANGED objects
    /\ pass' = [pass EXCEPT ![p] = [NoPass EXCEPT !.at = "over"]]
    /\ UNCHANGED <<schedVars, aged, flushing, loop, doomed>>

\* run_worker's loop: the follow-up, or idle.
WorkerNext ==
    /\ pass["worker"].at = "over"
    /\ \E again \in BOOLEAN :
         /\ NextTriggerOrStop("worker", again)
         /\ Goto("worker", IF again THEN "gate" ELSE "idle")
    /\ UNCHANGED <<dataVars, loop, doomed, faults>>

\* drain_compaction's loop: the next pass takes the gate anew, or the drain
\* has nothing left to merge.
DrainNext ==
    /\ pass["drain"].at = "over"
    /\ ReleaseGuard("drain")
    /\ \E at \in {"gate", "idle"} : Goto("drain", at)
    /\ UNCHANGED <<dataVars, loop, doomed, faults>>

\* A pass dies with its task, wherever it is; an install may have landed.
PassDies(p) ==
    /\ pass[p].at # "idle"
    /\ Fault
    /\ IF p = "worker" THEN WorkerDropped(p) ELSE ReleaseGuard(p)
    /\ manifest' \in {manifest} \cup Landed(p)
    /\ pass' = [pass EXCEPT ![p] = NoPass]
    /\ UNCHANGED <<pub, objects, aged, flushing, loop, doomed>>

\* A writer whose base is stale is reopened by whoever meets it first.
RecoverWriter ==
    /\ flushing = None
    /\ manifest # pub
    /\ pub' = manifest
    /\ UNCHANGED <<schedVars, manifest, objects, aged, flushing, pass, loop, doomed, faults>>

-----------------------------------------------------------------------------
(* The maintenance loop.                                                    *)

\* A tick requests a pass and waits for the burst to drain.
Tick ==
    /\ loop = "idle"
    /\ \E starts \in BOOLEAN :
         /\ Admit(starts)
         /\ pass' = IF starts THEN [pass EXCEPT !["worker"].at = "gate"] ELSE pass
    /\ loop' = "wait_idle"
    /\ UNCHANGED <<dataVars, doomed, faults>>

QueueSweep ==
    /\ loop = "wait_idle"
    /\ WaitIdleOver
    /\ loop' = "sweep"
    /\ UNCHANGED <<dataVars, pass, doomed, faults>>

\* sweep_orphans loads the current manifest and takes the time: it keeps the
\* manifests from the published one to the current one, and what is young.
StartSweep ==
    /\ SweepGuard
    /\ doomed' = aged \ (manifest \cup pub)
    /\ UNCHANGED <<dataVars, pass, loop, faults>>

SweepDelete ==
    /\ sweeping
    /\ \E id \in doomed :
         /\ doomed' = doomed \ {id}
         /\ objects' = objects \ {id}
         /\ aged' = aged \ {id}
    /\ UNCHANGED <<schedVars, manifest, pub, flushing, pass, loop, faults>>

\* The sweep is done, or fails on the way.
EndSweep ==
    /\ SweepOver
    /\ IF doomed = {} THEN UNCHANGED faults ELSE Fault
    /\ doomed' = {}
    /\ loop' = "idle"
    /\ UNCHANGED <<dataVars, pass>>

\* min_age passes: for everything but the upload of a flush under way.
MinAgePasses ==
    /\ aged' = objects \ Some(flushing)
    /\ aged' # aged
    /\ UNCHANGED <<schedVars, manifest, pub, objects, flushing, pass, loop, doomed, faults>>

\* The process dies and another is started.
Crash ==
    /\ Fault
    /\ worker_active' = FALSE /\ pending' = FALSE /\ readers' = {}
    /\ sweeping' = FALSE /\ queued' = FALSE /\ due' = FALSE
    /\ pub' = manifest
    /\ flushing' = None
    /\ pass' = [p \in Passes |-> NoPass]
    /\ loop' = "idle"
    /\ doomed' = {}
    /\ UNCHANGED <<manifest, objects, aged>>

-----------------------------------------------------------------------------
Next ==
    \/ FlushUpload \/ FlushCommit \/ FlushDies
    \/ Request \/ StartDrain \/ WorkerNext \/ DrainNext
    \/ \E p \in Passes : EnterGate(p)
    \/ \E p \in Passes : TakeBasis(p)
    \/ \E p \in Passes : Prepare(p)
    \/ \E p \in Passes : Install(p)
    \/ \E p \in Passes : PassFails(p)
    \/ \E p \in Passes : PassDies(p)
    \/ RecoverWriter
    \/ Tick \/ QueueSweep \/ StartSweep \/ SweepDelete \/ EndSweep
    \/ MinAgePasses
    \/ Crash

\* The mutex and the gate are FIFO, so a task waiting for one gets it although
\* others keep coming: strong fairness. Everything else runs once it can.
\* Nothing makes a client, a tick or a fault happen.
Fairness ==
    /\ WF_vars(FlushCommit)
    /\ \A p \in Passes :
         /\ SF_vars(EnterGate(p))
         /\ SF_vars(TakeBasis(p))
         /\ WF_vars(Prepare(p))
         /\ SF_vars(Install(p))
    /\ WF_vars(WorkerNext)
    /\ WF_vars(DrainNext)
    /\ WF_vars(StartSweep)
    /\ WF_vars(SweepDelete)
    /\ WF_vars(EndSweep)

MaintSpec == Init /\ [][Next]_vars /\ Fairness

-----------------------------------------------------------------------------
(* Properties.                                                              *)

\* Types, and what the scheduler's two flags and the gate say of the tasks:
\* worker_active is set exactly while a worker exists, the gate is held by
\* exactly the passes beyond it, and never by a pass and a sweep together.
\* (maintenance.rs WorkerLease, maintenance_gate.)
MaintTypeOK ==
    /\ manifest \cup pub \cup objects \subseteq Ids
    /\ aged \subseteq objects
    /\ flushing \in Ids \cup {None}
    /\ worker_active <=> pass["worker"].at # "idle"
    /\ pending => worker_active
    /\ readers = {p \in Passes : pass[p].at \notin {"idle", "gate"}}
    /\ ~(sweeping /\ readers # {})
    /\ loop \in {"idle", "wait_idle", "sweep"}
    /\ (queued \/ sweeping) <=> loop = "sweep"

\* No sweep deletes an SST that the current manifest, the published snapshot,
\* the inputs of a pass or the output it is about to install needs, although
\* the sweep decided on a manifest that flushes and passes have since replaced.
\* (maintenance.rs maintenance_gate; janitor.rs sweep_orphans.)
LiveObjectsPresent ==
    /\ manifest \cup pub \subseteq objects
    /\ \A p \in Passes :
         pass[p].at # "idle" => pass[p].removed \cup Some(pass[p].out) \subseteq objects

\* Every trigger is followed by a pass that took its basis after it, or by the
\* death of the worker: none is lost between the worker's last look at
\* `pending` and its becoming idle. (maintenance.rs next_trigger_or_stop.)
RequestServed == due ~> ~due

\* A sweep that waits for the gate gets it however many passes keep coming.
\* (maintenance.rs maintenance_gate, "prevents a trigger stream from starving
\* a queued janitor".)
SweepNotStarved == queued ~> ~queued
=============================================================================
