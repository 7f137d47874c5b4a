----------------------------- MODULE Retention -----------------------------
(***************************************************************************)
(* What a sweep of the janitor may delete while others still need it        *)
(* (janitor.rs): readers of its own process (read.rs SnapshotCell), reader  *)
(* sessions and backups of other processes, which hold leases (pin.rs,      *)
(* reader.rs, backup.rs), the restore point window (restore_point.rs), and  *)
(* commits whose objects are uploaded but not yet referenced.               *)
(*                                                                          *)
(* An object stands for an SST, a side-car or a WAL segment: the sweep has  *)
(* one rule for them. Every commit adds one and keeps or drops the others.  *)
(* Objects and manifest bodies of one sweep go in any order. Holders and    *)
(* the janitor read the same clock.                                         *)
(*                                                                          *)
(* Time passes in ticks. It is kept as ages and as what a lease has left,    *)
(* each up to the point where no rule tells it apart any more.              *)
(*                                                                          *)
(* Assumption: a commit follows the upload of what it adds by less than     *)
(* min_age.                                                                 *)
(***************************************************************************)
EXTENDS Integers, Sequences, FiniteSets, FiniteSetsExt

CONSTANTS
    Pins,       \* RetentionPins: of a ReaderSession, current or retired, or of
                \* a copy under way
    MinAge,     \* sweep_min_age
    Ttl,        \* DEFAULT_PIN_TTL
    Period,     \* the retention of the restore point window
    Margin,     \* its renew_margin
    MaxVersion, MaxPending, MaxLive,    \* bounds of the instance
    Casts,      \* which kinds of holder there are, one choice per behaviour
    None

Window == "window"
Leases == Pins \cup {Window}

Scopes == {"floor", "point", Window}
Seen == [ver: Nat, scope: Scopes]       \* a lease as a sweep honours it

ASSUME RetentionAssumption ==
    /\ {MinAge, Ttl, Period, Margin} \subseteq Nat \ {0}
    /\ {MaxVersion, MaxPending, MaxLive} \subseteq Nat
    /\ Ttl >= 2
    /\ Window \notin Pins
    /\ None \notin Seen
    /\ Casts \subseteq SUBSET {"local", "reader", "copy", Window}

VARIABLES
    man,        \* every version committed: what it references and its age, and
                \* which objects were more than min_age older than it
    bodies,     \* versions N whose manifest/v<N>.json exists
    objs,       \* objects in the store
    age,        \* the age of every object
    pending,    \* objects uploaded whose commit has not been made
    live,       \* versions held by PinnedSnapshots of the janitor's process
    lease,      \* manifest/pins/: one lease per pin, and the window's
    holder,     \* the pins' holders
    sw,         \* the sweep under way
    cast        \* the kinds of holder there are

storeVars == <<man, bodies, objs, age, pending>>
vars == <<storeVars, live, lease, holder, sw, cast>>

cur == Len(man)

\* sound, history: the lease found its version whole when it landed, with no
\* sweep past its pre-delete check, and was never renewed too late.
NoHold == [at |-> "idle", ver |-> 0, scope |-> "floor", sound |-> FALSE]

Closure(v) == man[v].refs

Restorable(v) == v \in bodies /\ Closure(v) \subseteq objs

Init ==
    /\ man = <<[refs |-> {1}, age |-> 0, older |-> {}]>>
    /\ bodies = {1} /\ objs = {1} /\ age = <<0>> /\ pending = {}
    /\ live = {}
    /\ lease = [p \in Leases |-> None]
    /\ holder = [p \in Pins |-> NoHold]
    /\ sw = None
    /\ cast \in Casts

AtMost(n, max) == IF n > max THEN max ELSE n

Tick ==
    /\ age' = [o \in DOMAIN age |-> AtMost(age[o] + 1, MinAge + 1)]
    /\ man' = [v \in DOMAIN man |->
                 [man[v] EXCEPT !.age = AtMost(@ + 1, Max({MinAge, Period}))]]
    /\ lease' = [p \in Leases |->
                   IF lease[p] = None \/ lease[p].left < 0 THEN lease[p]
                   ELSE [lease[p] EXCEPT !.left = @ - 1]]
    /\ UNCHANGED <<bodies, objs, pending, live, holder, sw, cast>>

-----------------------------------------------------------------------------
(* The writer.                                                              *)

Upload ==
    /\ Len(age) < MaxVersion
    /\ Cardinality(pending) < MaxPending
    /\ age' = Append(age, 0)
    /\ objs' = objs \cup {Len(age')}
    /\ pending' = pending \cup {Len(age')}
    /\ UNCHANGED <<man, bodies, live, lease, holder, sw, cast>>

\* A commit adds what was uploaded for it; a flush or a compaction drops what
\* it replaces.
Commit(o) ==
    /\ o \in pending
    /\ age[o] < MinAge
    /\ \E kept \in {Closure(cur), {}} :
         man' = Append(man, [refs |-> kept \cup {o}, age |-> 0,
                             older |-> {x \in DOMAIN age : age[x] > MinAge}])
    /\ bodies' = bodies \cup {cur + 1}
    /\ pending' = pending \ {o}
    /\ UNCHANGED <<objs, age, live, lease, holder, sw, cast>>

\* SnapshotCell::load registers the published version as it hands it out.
LoadSnapshot ==
    /\ "local" \in cast
    /\ Cardinality(live) < MaxLive
    /\ live' = live \cup {cur}
    /\ UNCHANGED <<storeVars, lease, holder, sw, cast>>

\* PinnedSnapshot::drop.
DropSnapshot(v) ==
    /\ v \in live
    /\ live' = live \ {v}
    /\ UNCHANGED <<storeVars, lease, holder, sw, cast>>

-----------------------------------------------------------------------------
(* Lease holders.                                                           *)

InForce(p) == lease[p] # None /\ lease[p].left >= 0

Deleting == sw # None /\ sw.deleting

Load(p, v, scope) ==
    /\ holder[p].at = "idle"
    /\ holder' = [holder EXCEPT ![p] =
                    [NoHold EXCEPT !.at = "loaded", !.ver = v, !.scope = scope]]
    /\ UNCHANGED <<storeVars, live, lease, sw, cast>>

\* ReaderSession::open and refresh load the current version, to pin a floor.
LoadVersion(p) == "reader" \in cast /\ Load(p, cur, "floor")

\* copy_namespace_snapshot loads the current version, or one that
\* resolve_restore_point found in the window, to pin a point.
LoadBackup(p) ==
    /\ "copy" \in cast
    /\ \E v \in bodies :
         /\ v = cur \/ (InForce(Window) /\ v >= lease[Window].ver)
         /\ Load(p, v, "point")

\* write_lease.
Written(p) == [ver |-> holder[p].ver, scope |-> holder[p].scope, left |-> Ttl]

\* RetentionPin::acquire_scoped.
Acquire(p) ==
    /\ holder[p].at = "loaded"
    /\ lease' = [lease EXCEPT ![p] = Written(p)]
    /\ holder' = [holder EXCEPT ![p] =
                    [@ EXCEPT !.at = "leased",
                              !.sound = Restorable(holder[p].ver) /\ ~Deleting]]
    /\ UNCHANGED <<storeVars, live, sw, cast>>

Released(p) ==
    /\ holder' = [holder EXCEPT ![p] = NoHold]
    /\ lease' = [lease EXCEPT ![p] = None]

\* HEAD of the manifest body under the lease: held, or given up.
Verify(p) ==
    /\ holder[p].at = "leased"
    /\ \/ holder[p].ver \in bodies
          /\ holder' = [holder EXCEPT ![p].at = "held"]
          /\ UNCHANGED lease
       \/ holder[p].ver \notin bodies /\ Released(p)
    /\ UNCHANGED <<storeVars, live, sw, cast>>

\* renew_if_due: at half the TTL. Whether it has expired is not asked here. A
\* holder that died is one that never renews again.
Renew(p) ==
    /\ holder[p].at = "held"
    /\ InForce(p) => lease[p].left <= Ttl \div 2
    /\ lease' = [lease EXCEPT ![p] = Written(p)]
    /\ holder' = [holder EXCEPT ![p].sound = @ /\ InForce(p)]
    /\ UNCHANGED <<storeVars, live, sw, cast>>

\* The copy is over, the read of a retired version has ended, or the session
\* is released: the lease is deleted.
Release(p) ==
    /\ holder[p].at = "held"
    /\ Released(p)
    /\ UNCHANGED <<storeVars, live, sw, cast>>

-----------------------------------------------------------------------------
(* The restore point window and the sweep, both of the maintenance loop.    *)

\* newest_at_or_before now - retention, from the held floor up.
Outside == {v \in lease[Window].ver..cur : man[v].age >= Period}

\* refresh_restore_point_lease: a window whose lease lapsed, or whose floor is
\* gone, starts again at the current version.
NewFloor ==
    IF InForce(Window) /\ lease[Window].ver \in bodies
      THEN Max({lease[Window].ver} \cup Outside)
      ELSE cur

\* keep_restore_point_window, before the sweep.
RefreshWindow ==
    /\ Window \in cast
    /\ sw = None
    /\ lease' = [lease EXCEPT ![Window] =
                   [ver |-> NewFloor, scope |-> "window", left |-> Period + Margin]]
    /\ UNCHANGED <<storeVars, live, holder, sw, cast>>

\* The published version alone.
RetentionHorizonPublished == cur

\* SnapshotCell::retention_horizon.
RetentionHorizon == Min(live \cup {cur})

Pinned(honoured, scope) ==
    {honoured[p].ver : p \in {q \in Leases : honoured[q] # None /\ honoured[q].scope = scope}}

\* Age is not looked at.
OldAtAnyAge(a) == TRUE

\* Objects and bodies younger than min_age are left alone.
Old(a) == a >= MinAge

\* sweep_orphans begins: current, now, the leases. Expired ones are deleted,
\* the others honoured; floors lower the horizon. Ages are as of now.
SweepStart ==
    /\ sw = None
    /\ LET honoured == [p \in Leases |->
                          IF InForce(p) THEN [ver |-> lease[p].ver, scope |-> lease[p].scope]
                          ELSE None]
       IN  sw' = [cur |-> cur, honoured |-> honoured, deleting |-> FALSE,
                  strict |-> RetentionHorizon,
                  horizon |-> Min({RetentionHorizon} \cup Pinned(honoured, "floor")),
                  objs |-> {o \in objs : Old(age[o])},
                  bodies |-> {v \in bodies : Old(man[v].age)}]
    /\ lease' = [p \in Leases |-> IF InForce(p) THEN lease[p] ELSE None]
    /\ UNCHANGED <<storeVars, live, holder, cast>>

\* A body is gone that no lease alone retained: the live set cannot be marked.
BodyMissing == \E v \in sw.strict..sw.cur : v \notin bodies

\* What is kept of the versions below the horizon: points, the window's floor.
ExtraVersions ==
    {v \in Pinned(sw.honoured, "point") \cup Pinned(sw.honoured, "window") : v < sw.horizon}

\* The live set; a version that only a lease retained may be gone and is skipped.
Referenced ==
    UNION {Closure(v) : v \in {w \in (sw.horizon..sw.cur) \cup ExtraVersions : w \in bodies}}

\* The window keeps its floor's closure and what is referenced now, no more.
KeptByWindowNothing(o) == FALSE

\* window_keep_since: what was uploaded since the window's floor, less min_age.
KeptByWindow(o) ==
    \E v \in Pinned(sw.honoured, "window") : o \notin man[v].older

\* body_floor, and the versions of point leases.
BodyKept(v) ==
    \/ v >= Min({sw.horizon} \cup Pinned(sw.honoured, "window"))
    \/ v \in Pinned(sw.honoured, "point")

\* A lease of a pin seen when the sweep began covers the one found now.
Covers(seen, l) ==
    /\ seen # None
    /\ CASE seen.scope = "floor" -> seen.ver <= l.ver
         [] seen.scope = "point" -> l.scope = "point" /\ seen.ver = l.ver
         [] seen.scope = "window" -> l.scope = "window" /\ seen.ver <= l.ver

\* The pins are not listed again.
PinsNeverChange == FALSE

\* pins_changed_below_horizon. A lease found now had not expired at the start.
PinsChangedBelowHorizon ==
    \E p \in Leases :
        /\ lease[p] # None
        /\ lease[p].ver < sw.horizon
        /\ ~Covers(sw.honoured[p], lease[p])

\* The live set and the pre-delete check: the pass is given up, or deletion begins. What is
\* deleted is fixed by then: an object uploaded later is too young.
SweepRecheck ==
    /\ sw # None /\ ~sw.deleting
    /\ sw' = IF BodyMissing \/ PinsChangedBelowHorizon THEN None
             ELSE [sw EXCEPT !.deleting = TRUE,
                             !.objs = {o \in @ : o \notin Referenced /\ ~KeptByWindow(o)},
                             !.bodies = {v \in @ : ~BodyKept(v)}]
    /\ UNCHANGED <<storeVars, live, lease, holder, cast>>

DeleteObject ==
    /\ Deleting
    /\ \E o \in sw.objs :
         /\ objs' = objs \ {o}
         /\ pending' = pending \ {o}
         /\ sw' = [sw EXCEPT !.objs = @ \ {o}]
    /\ UNCHANGED <<man, bodies, age, live, lease, holder, cast>>

DeleteBody ==
    /\ Deleting
    /\ \E v \in sw.bodies :
         /\ bodies' = bodies \ {v}
         /\ sw' = [sw EXCEPT !.bodies = @ \ {v}]
    /\ UNCHANGED <<man, objs, age, pending, live, lease, holder, cast>>

\* The sweep is done, or fails part way.
SweepEnd ==
    /\ Deleting
    /\ sw' = None
    /\ UNCHANGED <<storeVars, live, lease, holder, cast>>

\* The janitor's process dies, and its readers and commits with it.
Crash ==
    /\ sw' = None
    /\ live' = {}
    /\ pending' = {}
    /\ UNCHANGED <<man, bodies, objs, age, lease, holder, cast>>

-----------------------------------------------------------------------------
Next ==
    \/ Tick
    \/ Upload \/ (\E o \in pending : Commit(o))
    \/ LoadSnapshot \/ (\E v \in live : DropSnapshot(v))
    \/ \E p \in Pins : LoadVersion(p)
    \/ \E p \in Pins : LoadBackup(p)
    \/ \E p \in Pins : Acquire(p)
    \/ \E p \in Pins : Verify(p)
    \/ \E p \in Pins : Renew(p)
    \/ \E p \in Pins : Release(p)
    \/ RefreshWindow \/ SweepStart \/ SweepRecheck \/ DeleteObject \/ DeleteBody
    \/ SweepEnd \/ Crash

Spec == Init /\ [][Next]_vars

-----------------------------------------------------------------------------
(* Properties.                                                              *)

\* Types. A committed version references no object still pending, and the
\* leases in the store are the ones their holders believe in.
RetTypeOK ==
    /\ cur \in 1..MaxVersion /\ bodies \subseteq 1..cur
    /\ objs \subseteq DOMAIN age /\ pending \subseteq objs
    /\ Closure(cur) \cap pending = {}
    /\ live \subseteq 1..cur
    /\ \A p \in Pins :
         /\ holder[p].at \in {"idle", "loaded", "leased", "held"}
         /\ lease[p] # None => /\ holder[p].at \in {"leased", "held"}
                               /\ lease[p].ver = holder[p].ver

\* Nothing the current version references is ever deleted, although every
\* commit's objects lie in the store unreferenced for a while.
\* (janitor.rs, the min_age guard on SSTs and WAL segments.)
CurrentRestorable == Restorable(cur)

\* A version that a reader of this process holds keeps its body and objects,
\* through any number of commits and sweeps. (read.rs SnapshotCell::load.)
LocalReadersServed == \A v \in live : Restorable(v)

\* A lease that found its version whole, while no sweep was past its pre-delete
\* check, keeps it whole for as long as it is renewed before it expires.
\* (pin.rs, janitor.rs pins_changed_below_horizon.)
LeaseProtects ==
    \A p \in Pins :
        holder[p].sound /\ InForce(p) => Restorable(holder[p].ver)

\* While the window's lease is in force every version from its floor up can
\* be restored, also those committed and superseded since it was written.
\* (restore_point.rs, janitor.rs window_keep_since.)
WindowRestorable == InForce(Window) => \A v \in lease[Window].ver..cur : Restorable(v)

\* "The holder's own post-acquire root verification covers the (now much
\* smaller) residual window between this check and the deletes below": a holder
\* that found the body under its lease can read all of its version for as long
\* as the lease is in force.
\* (janitor.rs, the pre-delete check; backup.rs copy_namespace_snapshot.)
RootCheckSuffices ==
    \A p \in Pins : holder[p].at = "held" /\ InForce(p) => Restorable(holder[p].ver)
=============================================================================
