--------------------------- MODULE PointerResolve ---------------------------
(***************************************************************************)
(* How a process finds the current version of a namespace, request by      *)
(* request: load_pointer's LIST, its fallbacks on p0 and on the advisory   *)
(* current.json, the forward HEAD probe and the GETs of load_current       *)
(* (manifest.rs), against writers that publish, a janitor that reclaims    *)
(* what lies below its horizon (janitor.rs), and a store whose LIST may    *)
(* answer with an earlier state of the pointer family.                     *)
(*                                                                         *)
(* A body and its pointer are published in one step here: ManifestCommit   *)
(* has the steps in between.                                               *)
(***************************************************************************)
EXTENDS Integers, FiniteSets, FiniteSetsExt

CONSTANTS
  Writers,          \* processes that open the namespace
  Readers,          \* processes that only load it
  None,
  MaxVersion,       \* bound: highest manifest version
  MaxSweeps,        \* bound: sweeps of the janitor
  MaxFaults,        \* bound: sessions closed or lost, and requests failed
  MaxProbe,         \* MAX_PROBE of probe_pointer_forward (8192 in the code)
  Legacy,           \* versions a namespace older than the family may be at
  Timely            \* whether a LIST's lag, the load that uses it and the
                    \* bootstrap or claim that load leads to together last
                    \* less than the janitor's min_age

ASSUME ConstantsAssumption ==
  /\ {MaxVersion, MaxSweeps, MaxFaults, MaxProbe} \subseteq Nat
  /\ Timely \in BOOLEAN /\ Writers \cap Readers = {} /\ Legacy \subseteq 0..MaxVersion
  /\ None \notin 0..MaxVersion

VARIABLES
  ptrs,      \* versions N whose manifest/pointer/p<N>.json exists
  bodies,    \* versions N whose manifest/v<N>.json exists
  ancient,   \* those of them that a namespace from before the family came with
  advisory,  \* the version manifest/current.json names, or None
  views,     \* the highest pointer, -1 for none, a LIST may still answer with
  pc,        \* where each process is
  load,      \* its load: what it is for, whether the pointer family was found,
             \* where the probe began, the cursor and, as history, what its
             \* LIST answered and top when it began
  base,      \* the version a writer's session stands on, or None
  horizon,   \* the running sweep's horizon, or None
  sweeps, faults,
  top,       \* history: the highest version ever published, -1 if none
  rebooted, regressed  \* history: a live namespace was bootstrapped again; a
                       \* version at or below top was published

store == <<ptrs, bodies, ancient, advisory, views>>
sweeper == <<horizon, sweeps>>
history == <<top, rebooted, regressed>>
vars == <<store, pc, load, base, sweeper, faults, history>>

Procs == Writers \cup Readers
Versions == 0..MaxVersion

Goto(p, label) == pc' = [pc EXCEPT ![p] = label]
Higher(v) == IF v > top THEN v ELSE top
NoLoad == [why |-> "none", family |-> FALSE, lo |-> 0, n |-> 0,
           seen |-> -1, began |-> -1]
EndLoad(p) == load' = [load EXCEPT ![p] = NoLoad]

-----------------------------------------------------------------------------
(* load_current.                                                           *)

Load(p, reason) ==
  /\ Goto(p, "list")
  /\ load' = [load EXCEPT ![p] = [NoLoad EXCEPT !.why = reason, !.began = top]]

\* WriterSession::open_claiming loads first; a reader, a fence probe or a
\* backup only loads.
StartLoad(p) ==
  /\ pc[p] = "idle"
  /\ Load(p, IF p \in Writers THEN "open" ELSE "read")
  /\ UNCHANGED <<store, base, sweeper, faults, history>>

\* One request of a load: what it changes besides pc and load.
Request == UNCHANGED <<store, base, sweeper, faults, history>>

Cursor(p, v) == load' = [load EXCEPT ![p].n = v]
Found(l, v) == [l EXCEPT !.family = TRUE, !.lo = v, !.n = v]
StartProbe(p, v) == load' = [load EXCEPT ![p] = Found(@, v)] /\ Goto(p, "probe")

\* max_pointer_version: LIST the family and take the highest, which may be
\* the highest of an earlier moment.
List(p) ==
  /\ pc[p] = "list" /\ Request
  /\ \E v \in views :
       \/ /\ v >= 0 /\ Goto(p, "probe")
          /\ load' = [load EXCEPT ![p] = Found([@ EXCEPT !.seen = v], v)]
       \/ v < 0 /\ Goto(p, "p0") /\ UNCHANGED load

\* An empty LIST proves nothing: HEAD p0, which a fresh namespace has.
HeadP0(p) ==
  /\ pc[p] = "p0" /\ Request
  /\ \/ 0 \in ptrs /\ StartProbe(p, 0)
     \/ 0 \notin ptrs /\ Goto(p, "advisory") /\ UNCHANGED load

\* GET the advisory, which an aged namespace has.
GetAdvisory(p) ==
  /\ pc[p] = "advisory" /\ Request
  /\ Cursor(p, advisory)
  /\ Goto(p, IF advisory = None THEN "legacy" ELSE "advisory_head")

HeadAdvisoryTrusted(p) ==                \* mutant: whether or not p<N> exists
  /\ pc[p] = "advisory_head" /\ Request
  /\ StartProbe(p, load[p].n)

\* It is trusted only if the pointer it names exists.
HeadAdvisory(p) ==
  /\ pc[p] = "advisory_head" /\ Request
  /\ \/ load[p].n \in ptrs /\ StartProbe(p, load[p].n)
     \/ load[p].n \notin ptrs /\ Goto(p, "legacy") /\ UNCHANGED load

\* No family: a legacy namespace, read through current.json itself.
GetLegacy(p) ==
  /\ pc[p] = "legacy" /\ Request
  /\ Cursor(p, advisory)
  /\ Goto(p, IF advisory = None THEN "not_found" ELSE "body")

ProbeBestEffort(p) ==                    \* mutant: returns what it has reached
  LET l == load[p] IN
  /\ pc[p] = "probe" /\ Request
  /\ IF l.n - l.lo < MaxProbe /\ l.n + 1 \in ptrs
     THEN Cursor(p, l.n + 1) /\ UNCHANGED pc
     ELSE Goto(p, "pointer") /\ UNCHANGED load

\* probe_pointer_forward: one HEAD per version until one is missing; a probe
\* that spends its budget first fails with PointerResolveStale.
Probe(p) ==
  LET l == load[p]
      budget == l.n - l.lo < MaxProbe IN
  /\ pc[p] = "probe" /\ Request
  /\ \/ budget /\ l.n + 1 \in ptrs /\ Cursor(p, l.n + 1) /\ UNCHANGED pc
     \/ budget /\ l.n + 1 \notin ptrs /\ Goto(p, "pointer") /\ UNCHANGED load
     \/ ~budget /\ Goto(p, "stale") /\ UNCHANGED load

\* load_pointer: GET the pointer.
GetPointer(p) ==
  /\ pc[p] = "pointer" /\ Request
  /\ Goto(p, IF load[p].n \in ptrs THEN "body" ELSE "not_found")
  /\ UNCHANGED load

\* load_current: GET the body it names.
GetBody(p) ==
  /\ pc[p] = "body" /\ Request
  /\ Goto(p, IF load[p].n \in bodies THEN "loaded" ELSE "not_found")
  /\ UNCHANGED load

\* A request of a load fails with something else than NotFound. The load
\* fails with it, except that max_pointer_version's fallbacks take any error
\* for absence.
RequestFails(p) ==
  /\ faults < MaxFaults /\ faults' = faults + 1
  /\ \/ pc[p] = "p0" /\ Goto(p, "advisory") /\ UNCHANGED load
     \/ pc[p] \in {"advisory", "advisory_head"} /\ Goto(p, "legacy") /\ UNCHANGED load
     \/ pc[p] \in {"list", "legacy", "probe", "pointer", "body"}
        /\ Goto(p, "idle") /\ EndLoad(p)
  /\ UNCHANGED <<store, base, sweeper, history>>

\* PointerResolveStale, or a NotFound that is not the open's: the caller
\* gives up.
LoadFails(p) ==
  /\ pc[p] = "stale" \/ (pc[p] = "not_found" /\ load[p].why # "open")
  /\ Goto(p, "idle") /\ EndLoad(p) /\ Request

\* open_claiming discards the first load, and the claim loads again.
LoadSucceeds(p) ==
  /\ pc[p] = "loaded"
  /\ \/ load[p].why = "open" /\ Load(p, "claim") /\ UNCHANGED base
     \/ load[p].why = "claim" /\ Goto(p, "claim") /\ UNCHANGED load
        /\ base' = [base EXCEPT ![p] = load[p].n]
     \/ load[p].why = "read" /\ EndLoad(p) /\ Goto(p, "idle") /\ UNCHANGED base
  /\ UNCHANGED <<store, sweeper, faults, history>>

-----------------------------------------------------------------------------
(* Publishing.                                                             *)

\* What changes when version v is published: put_body, cas_pointer.
PublishVersion(v) ==
  /\ ptrs' = ptrs \cup {v} /\ bodies' = bodies \cup {v}
  /\ views' = views \cup {Max(ptrs')}
  /\ top' = Higher(v)

\* NotFound in open_claiming: bootstrap, which completes a v0 it finds and
\* refuses a namespace that has p0.
Bootstrap(p) ==
  /\ pc[p] = "not_found" /\ load[p].why = "open" /\ EndLoad(p)
  /\ IF 0 \in ptrs
     THEN /\ Goto(p, "idle") /\ bodies' = bodies \cup {0}
          /\ UNCHANGED <<ptrs, views, top, rebooted, base>>
     ELSE /\ PublishVersion(0)
          /\ rebooted' = (rebooted \/ top >= 0)
          /\ base' = [base EXCEPT ![p] = 0]
          /\ Goto(p, "advise")
  /\ UNCHANGED <<ancient, advisory, sweeper, faults, regressed>>

\* A claim over the version loaded, or a commit over the session's base, body
\* first; a version whose body or pointer exists is a lost race and the session
\* is dropped.
Publish(p) ==
  LET v == base[p] + 1 IN
  /\ pc[p] \in {"claim", "session"} /\ v <= MaxVersion /\ EndLoad(p)
  /\ IF v \in bodies \cup ptrs
     THEN /\ Goto(p, "idle") /\ base' = [base EXCEPT ![p] = None]
          /\ bodies' = bodies \cup {v}
          /\ UNCHANGED <<ptrs, views, top, regressed>>
     ELSE /\ PublishVersion(v)
          /\ regressed' = (regressed \/ v <= top)
          /\ base' = [base EXCEPT ![p] = v]
          /\ Goto(p, "advise")
  /\ UNCHANGED <<ancient, advisory, sweeper, faults, rebooted>>

\* write_advisory_current: a plain overwrite, in whatever order two writers'
\* requests arrive.
PutAdvisory(p) ==
  /\ pc[p] = "advise"
  /\ advisory' = base[p]
  /\ Goto(p, "session")
  /\ UNCHANGED <<ptrs, bodies, ancient, views, load, base, sweeper, faults, history>>

\* A session is closed, fails or dies, at any request.
Close(p) ==
  /\ pc[p] # "idle" /\ faults < MaxFaults
  /\ faults' = faults + 1
  /\ Goto(p, "idle") /\ EndLoad(p) /\ base' = [base EXCEPT ![p] = None]
  /\ UNCHANGED <<store, sweeper, history>>

-----------------------------------------------------------------------------
(* The janitor, and the store's LIST.                                      *)

CurrentVersion == IF ptrs = {} THEN advisory ELSE Max(ptrs)

\* sweep_orphans: load the current version, clamp the horizon to it; the
\* readers and pins that lower it further are any.
SweepStart ==
  /\ horizon = None /\ sweeps < MaxSweeps /\ top >= 0
  /\ \E h \in 1..CurrentVersion : horizon' = h
  /\ sweeps' = sweeps + 1
  /\ UNCHANGED <<store, pc, load, base, faults, history>>

\* From a LIST's answer to the request that the load it began leads to.
Resolving == {"p0", "advisory", "advisory_head", "legacy", "probe", "pointer", "body",
              "loaded", "not_found", "claim"}

\* Older than min_age, of what was published with a pointer: published before
\* any moment that a LIST, or a load in progress, may still reflect. The age is
\* the object's own, whenever it was superseded. A body from before the family
\* is older than any of this.
Aged(v) ==
  Timely => /\ Min(views) >= v
            /\ \A p \in Procs : pc[p] \in Resolving => load[p].seen >= v

\* The sweep of manifest/: pointers and bodies below the horizon, in
\* whatever order the LIST has them.
ReclaimPointer ==
  /\ horizon # None
  /\ \E v \in ptrs : v < horizon /\ Aged(v) /\ ptrs' = ptrs \ {v}
  /\ UNCHANGED <<bodies, ancient, advisory, views, pc, load, base, sweeper, faults, history>>

ReclaimBody ==
  /\ horizon # None
  /\ \E v \in bodies : /\ v < horizon /\ (v \in ancient \/ Aged(v))
                       /\ bodies' = bodies \ {v} /\ ancient' = ancient \ {v}
  /\ UNCHANGED <<ptrs, advisory, views, pc, load, base, sweeper, faults, history>>

SweepEnd ==
  /\ horizon # None /\ horizon' = None
  /\ UNCHANGED <<store, pc, load, base, sweeps, faults, history>>

\* The LIST no longer answers with its oldest state.
ListCatchesUp ==
  /\ Cardinality(views) > 1
  /\ views' = views \ {Min(views)}
  /\ UNCHANGED <<ptrs, bodies, ancient, advisory, pc, load, base, sweeper, faults, history>>

-----------------------------------------------------------------------------
\* A namespace not yet bootstrapped, or one from before the family: bodies
\* and current.json only.
Init ==
  /\ ptrs = {} /\ views = {-1}
  /\ \/ bodies = {} /\ advisory = None /\ top = -1
     \/ \E k \in Legacy : bodies = 0..k /\ advisory = k /\ top = k
  /\ ancient = bodies
  /\ pc = [p \in Procs |-> "idle"] /\ load = [p \in Procs |-> NoLoad]
  /\ base = [p \in Procs |-> None]
  /\ horizon = None /\ sweeps = 0 /\ faults = 0
  /\ rebooted = FALSE /\ regressed = FALSE

LoadStep(p) ==
  \/ List(p) \/ HeadP0(p) \/ GetAdvisory(p) \/ HeadAdvisory(p) \/ GetLegacy(p)
  \/ Probe(p) \/ GetPointer(p) \/ GetBody(p) \/ RequestFails(p) \/ LoadFails(p)
  \/ LoadSucceeds(p)

Next ==
  \/ \E p \in Procs : StartLoad(p) \/ LoadStep(p)
  \/ \E p \in Writers : Close(p) \/ Bootstrap(p) \/ Publish(p) \/ PutAdvisory(p)
  \/ SweepStart \/ ReclaimPointer \/ ReclaimBody \/ SweepEnd \/ ListCatchesUp

Spec == Init /\ [][Next]_vars

-----------------------------------------------------------------------------
\* Until a namespace has been started over or a version published over a newer
\* one, a load that finds the pointer family returns a version at least as new
\* as the newest one published when it began, however far its LIST lagged,
\* whoever publishes and whatever the janitor reclaims meanwhile. The probe is
\* "a best-effort mitigation": it may fail the load, but it does not hand "a
\* writer a stale base". (A load of a legacy namespace that is being upgraded
\* may return the version current.json still names.)
\* (manifest.rs probe_pointer_forward, max_pointer_version.)
FreshLoad ==
  rebooted \/ regressed \/
  \A p \in Procs : pc[p] = "loaded" /\ load[p].family => load[p].n >= load[p].began

\* Until the first sweep begins, no open bootstraps a live namespace a second
\* time and no version is published at or below one published before: for any
\* number of processes that race, die or fail at any request, on fresh and on
\* legacy namespaces, however far the LIST lags. An empty LIST is caught by p0
\* or by the advisory, and "a superseded writer loses its next compare-and-swap",
\* because every version above its base is still there. (manifest.rs
\* max_pointer_version, bootstrap, commit; ingest.rs open_claiming.)
NeverGoesBack == sweeps = 0 => ~rebooted /\ ~regressed
=============================================================================
