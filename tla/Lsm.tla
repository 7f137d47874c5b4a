-------------------------------- MODULE Lsm --------------------------------
(***************************************************************************)
(* The rows of one namespace inside the process that owns it: the memtable  *)
(* and its flush into an SST (ingest.rs, flush.rs, memtable.rs), compaction *)
(* prepared off the writer lock and installed under it (compact.rs), the    *)
(* memtable snapshot file and recovery from it (recovery.rs). A row is a    *)
(* key, the LSN of its write and whether it is a tombstone; a WAL segment   *)
(* holds one row. Scope 0 is the id-primary scope "", scope 1 a per-label   *)
(* scope of an older release; a key may be in either. The manifest protocol *)
(* is ManifestCommit's: here a batch and a schema commit are acknowledged,  *)
(* and the commit of a flush or an install succeeds, fails, or lands        *)
(* without its caller learning of it. Which objects the store still holds,  *)
(* and when passes run, is Maintenance's.                                   *)
(***************************************************************************)
EXTENDS Integers, FiniteSets, Sequences, FiniteSetsExt

CONSTANTS
    Keys,
    Passes,         \* the tasks that run compaction passes: worker and drain
    Base, Ratio,    \* the budgets of the levels, in rows
    MaxWrites, MaxDdl, MaxFaults, MaxSsts,  \* bounds of the instance
    Origins,        \* what the namespace held before
    None

OriginKinds == {"fresh", "deep", "legacy"}

RowSet == [k : Keys, lsn : Nat, del : BOOLEAN]

SstSet == [id : 0..MaxSsts, level : Nat, scope : {0, 1}, rows : SUBSET RowSet,
           max_lsn : Nat, schema : Nat]

\* What memtable_snapshot.bin holds, and a PreparedCompaction.
SnapshotSet == [wal : Seq(RowSet), rows : SUBSET RowSet]
PassSet == [removed : SUBSET SstSet, outs : SUBSET SstSet, base_schema : Nat]

ASSUME LsmAssumption ==
    /\ {Base, Ratio, MaxWrites, MaxDdl, MaxFaults, MaxSsts} \subseteq Nat
    /\ Ratio >= 2
    /\ Origins \subseteq OriginKinds
    /\ None \notin SstSet /\ None \notin SnapshotSet /\ None \notin PassSet

VARIABLES
    manifest,   \* the store's current manifest: ssts, wal, schema
    snapfile,   \* memtable_snapshot.bin: the WAL it is bound to and its rows
    cur,        \* WriterSession.current
    mem,        \* WriterSession.memtable
    frozen,     \* the flush under way: its SST, whose rows are the frozen ones
    stale,      \* the session's base is no longer the store's current
    next_lsn,   \* WriterSession.next_lsn
    pub,        \* what SnapshotCell publishes: SSTs and a memtable
    prepared,   \* the PreparedCompaction every pass holds
    truth,      \* history: the last acknowledged write of every key
    spent       \* writes, DDL statements and faults used

sessVars == <<cur, mem, frozen, stale, next_lsn>>
vars == <<manifest, snapfile, sessVars, pub, prepared, truth, spent>>

-----------------------------------------------------------------------------
(* Rows and memtables.                                                      *)

Rows(ssts) == UNION {s.rows : s \in ssts}

MaxOr0(S) == IF S = {} THEN 0 ELSE Max(S)

\* Of the rows of one key the one with the highest LSN wins.
Winners(rows) ==
    {r \in rows : \A s \in rows : s.k = r.k => s.lsn <= r.lsn}

\* What a read returns for every key: the LSN of the visible write, or 0.
View(rows) ==
    [k \in Keys |->
        MaxOr0({r.lsn : r \in {w \in Winners(rows) : w.k = k /\ ~w.del}})]

\* The key's older row stays beside the new one.
ApplyBeside(m, row) == m \cup {row}

\* Memtable::apply: insert, replacing whatever the key held.
Apply(m, row) == {r \in m : r.k # row.k} \cup {row}

\* Memtable::restore: newest wins.
Restore(m, f) == Winners(m \cup f)

\* Replay of the WAL records above a floor on top of a seed, each by Apply: the
\* last record of a key replaces what the key held.
Replay(seed, wal, floor) ==
    LET live == {i \in DOMAIN wal : wal[i].lsn > floor}
        last == {i \in live : \A j \in live : wal[j].k = wal[i].k => j <= i}
    IN  {r \in seed : \A i \in live : wal[i].k # r.k} \cup {wal[i] : i \in last}

LastLsn(wal) == MaxOr0({wal[i].lsn : i \in DOMAIN wal})

HighWater(ssts) == MaxOr0({s.max_lsn : s \in ssts})

-----------------------------------------------------------------------------
(* The memtable snapshot file and recovery.                                 *)

\* A staleness rule by LSN: the snapshot is newer than everything flushed.
CoversByHighWater(snap, man) == LastLsn(snap.wal) > HighWater(man.ssts)

\* DecodedMemtableSnapshot::covers_manifest: bound to exactly this WAL.
Covers(snap, man) ==
    /\ snap.wal = man.wal
    /\ \A r \in snap.rows : r.lsn <= LastLsn(man.wal)
    /\ man.wal = <<>> => snap.rows = {}

\* recover_memtable_with_snapshot.
Recovered(snap, man) ==
    IF snap # None /\ Covers(snap, man)
      THEN Replay(snap.rows, man.wal, LastLsn(snap.wal))
      ELSE Replay({}, man.wal, 0)

\* LSNs go on after the replayed WAL alone.
NextLsnFromWal(man) == 1 + LastLsn(man.wal)

\* WriterSession::open: LSNs go on after the WAL and after every SST.
NextLsn(man) == 1 + Max({HighWater(man.ssts), LastLsn(man.wal)})

-----------------------------------------------------------------------------
(* Compaction: planning, merging.                                           *)

Bucket(ssts, scope) == {s \in ssts : s.scope = scope}

Size(ssts) == MapThenSumSet(LAMBDA s : Cardinality(s.rows), ssts)

Deepest(ssts) == MaxOr0({s.level : s \in ssts})

UpTo(ssts, level) == {s \in ssts : s.level <= level}

\* level_budget_bytes.
Budget(level) == Base * Ratio ^ (level - 1)

Overflows(ssts, level) == Size(UpTo(ssts, level)) > Budget(level)

\* Where plan_bucket_merge's cascade stops taking inputs: at the first level
\* within its budget, or at the deepest.
StopLevel(ssts) ==
    Min({l \in 1..(Deepest(ssts) + 1) : ~Overflows(ssts, l) \/ l >= Deepest(ssts)})

\* plan_bucket_merge. Over budget at the deepest level, it spills into a fresh
\* one, unless this is the bucket's first merge.
BucketPlan(ssts) ==
    LET stop == StopLevel(ssts)
        spill == Overflows(ssts, stop) /\ Deepest(ssts) >= 1
        target == IF spill THEN stop + 1 ELSE stop
    IN  IF Cardinality(UpTo(ssts, stop)) < 2 THEN None
        ELSE [inputs |-> UpTo(ssts, stop), level |-> target,
              deepest |-> target >= Deepest(ssts)]

\* plan_node_bucket: a bucket with an SST that lacks the sidecars the catalog
\* asks for is rewritten as a whole at its deepest level.
NodePlan(ssts, schema) ==
    LET plan == BucketPlan(ssts) IN
    IF plan = None /\ (\E s \in ssts : s.schema < schema)
      THEN [inputs |-> ssts, level |-> Max({1, Deepest(ssts)}), deepest |-> TRUE]
      ELSE plan

\* The scopes whose buckets any_bucket_plans finds a plan for.
Planned(man) == {c \in {0, 1} : NodePlan(Bucket(man.ssts, c), man.schema) # None}

\* Only the levels are looked at, not the other scopes.
GcSafeByLevel(man, plan) == plan.deepest

\* prepare_leveled, gc: a merge is authoritative for its keys when no deeper
\* level is left out and no other scope can hold them.
GcSafe(man, plan) ==
    /\ plan.deepest
    /\ Cardinality({s.scope : s \in man.ssts}) <= 1

\* merge_node_sources.
Merge(rows, gc) == {r \in Winners(rows) : ~(gc /\ r.del)}

\* The SST written for one bucket, if a row is left to write, under an id of its
\* own. It keeps the high-water mark of its inputs.
Output(man, scope, id) ==
    LET plan == NodePlan(Bucket(man.ssts, scope), man.schema)
        rows == Merge(Rows(plan.inputs), GcSafe(man, plan))
    IN  IF rows = {} THEN {}
        ELSE {[id |-> id, level |-> plan.level, scope |-> scope, rows |-> rows,
               max_lsn |-> HighWater(plan.inputs), schema |-> man.schema]}

Ids(ssts) == {s.id : s \in ssts}

\* SST ids are UUIDs, never used twice: an id is fresh when nothing in the
\* state mentions it.
Unused ==
    (0..MaxSsts) \ (Ids(manifest.ssts) \cup Ids(cur.ssts) \cup Ids(pub.ssts)
        \cup (IF frozen = None THEN {} ELSE {frozen.id})
        \cup UNION {Ids(prepared[p].removed \cup prepared[p].outs) :
                        p \in {q \in Passes : prepared[q] # None}})

FreshId == Min(Unused)
SecondId == Min(Unused \ {FreshId})

\* prepare_leveled: every bucket with a plan goes into one PreparedCompaction,
\* which remembers the catalog it was made for.
Prepare(man) ==
    [removed |-> UNION {NodePlan(Bucket(man.ssts, c), man.schema).inputs : c \in Planned(man)},
     outs |-> UNION {Output(man, c, IF c = 0 THEN FreshId ELSE SecondId) : c \in Planned(man)},
     base_schema |-> man.schema]

-----------------------------------------------------------------------------
Old(k, level, scope) ==
    [id |-> 0, level |-> level, scope |-> scope, schema |-> 0, max_lsn |-> 1,
     rows |-> {[k |-> k, lsn |-> 1, del |-> FALSE]}]

\* A fresh namespace, or one holding an older row at a deep level or in a
\* legacy scope.
OriginSsts(o) ==
    CASE o = "fresh" -> {{}}
      [] o = "deep" -> {{Old(k, 2, 0)} : k \in Keys}
      [] o = "legacy" -> {{Old(k, 1, 1)} : k \in Keys}

Init ==
    /\ \E o \in Origins : \E ssts \in OriginSsts(o) :
         manifest = [ssts |-> ssts, wal |-> <<>>, schema |-> 0]
    /\ snapfile = None
    /\ cur = manifest
    /\ mem = {}
    /\ frozen = None
    /\ stale = FALSE
    /\ next_lsn = NextLsn(manifest)
    /\ pub = [ssts |-> manifest.ssts, mem |-> {}]
    /\ prepared = [p \in Passes |-> None]
    /\ truth = View(Rows(manifest.ssts))
    /\ spent = [write |-> 0, ddl |-> 0, fault |-> 0]

-----------------------------------------------------------------------------
(* The writer session. A flush holds the writer mutex until it is over.     *)

Unlocked == frozen = None

Spend(what, max) ==
    /\ spent[what] < max
    /\ spent' = [spent EXCEPT ![what] = @ + 1]

\* The manifest commit succeeded and the server published the snapshot.
Commit(man, m) ==
    /\ manifest' = man
    /\ cur' = man
    /\ pub' = [ssts |-> man.ssts, mem |-> m]

\* WriterSession::reopen under the writer lock, then SnapshotCell::store.
Reopen ==
    /\ cur' = manifest
    /\ mem' = Recovered(snapfile, manifest)
    /\ frozen' = None
    /\ stale' = FALSE
    /\ next_lsn' = NextLsn(manifest)
    /\ pub' = [ssts |-> manifest.ssts, mem |-> mem']

\* commit_batch of one row, acknowledged; the auto-snapshot tick may follow.
CommitBatch(k, del) ==
    /\ Unlocked /\ ~stale
    /\ Spend("write", MaxWrites)
    /\ LET row == [k |-> k, lsn |-> next_lsn, del |-> del]
           man == [cur EXCEPT !.wal = Append(@, row)]
       IN  /\ mem' = Apply(mem, row)
           /\ Commit(man, mem')
           /\ snapfile' \in {snapfile, [wal |-> man.wal, rows |-> mem']}
    /\ truth' = [truth EXCEPT ![k] = IF del THEN 0 ELSE next_lsn]
    /\ next_lsn' = next_lsn + 1
    /\ UNCHANGED <<frozen, stale, prepared>>

\* write_memtable_snapshot_now, also by a session that is stale unawares.
WriteSnapshot ==
    /\ Unlocked
    /\ snapfile' = [wal |-> cur.wal, rows |-> mem]
    /\ UNCHANGED <<manifest, sessVars, pub, prepared, truth, spent>>

\* The janitor's last step: a snapshot file no recovery would take is deleted.
ReclaimSnapshot ==
    /\ snapfile # None
    /\ ~Covers(snapfile, manifest)
    /\ snapfile' = None
    /\ UNCHANGED <<manifest, sessVars, pub, prepared, truth, spent>>

\* A DDL statement commits a new catalog: CREATE INDEX.
Ddl ==
    /\ Unlocked /\ ~stale
    /\ Spend("ddl", MaxDdl)
    /\ Commit([cur EXCEPT !.schema = @ + 1], mem)
    /\ UNCHANGED <<snapfile, mem, frozen, stale, next_lsn, prepared, truth>>

\* A commit of a stale session loses its CAS; the server reopens the session.
RecoverWriter ==
    /\ Unlocked /\ stale
    /\ Reopen
    /\ UNCHANGED <<manifest, snapfile, prepared, truth, spent>>

\* flush: freeze the memtable, build and upload the SST.
FlushStart ==
    /\ Unlocked
    /\ mem # {} /\ Unused # {}
    /\ frozen' = [id |-> FreshId, level |-> 0, scope |-> 0, rows |-> mem,
                  max_lsn |-> Max({r.lsn : r \in mem}), schema |-> cur.schema]
    /\ mem' = {}
    /\ UNCHANGED <<manifest, snapfile, cur, stale, next_lsn, pub, prepared, truth, spent>>

\* The manifest a flush commits: its SST added, the WAL cleared.
Flushed == [cur EXCEPT !.ssts = @ \cup {frozen}, !.wal = <<>>]

FlushCommit ==
    /\ frozen # None /\ ~stale
    /\ Commit(Flushed, {})
    /\ frozen' = None
    /\ UNCHANGED <<snapfile, mem, stale, next_lsn, prepared, truth, spent>>

\* The flush fails or its future is dropped, before its commit or, `landed`,
\* after: FrozenMemtableRestoreGuard puts the rows back.
FlushFails(landed) ==
    /\ frozen # None
    /\ Spend("fault", MaxFaults)
    /\ landed => ~stale
    /\ manifest' = IF landed THEN Flushed ELSE manifest
    /\ stale' = (stale \/ landed)
    /\ mem' = Restore(mem, frozen.rows)
    /\ frozen' = None
    /\ UNCHANGED <<snapfile, cur, next_lsn, pub, prepared, truth>>

\* The flush of a stale session loses its CAS; the server reopens the session.
FlushConflict ==
    /\ frozen # None /\ stale
    /\ Reopen
    /\ UNCHANGED <<manifest, snapfile, prepared, truth, spent>>

-----------------------------------------------------------------------------
(* Compaction passes: run_compaction_pass.                                  *)

\* The basis is taken under the lock. What prepare makes of it off-lock
\* depends on nothing else: its inputs are immutable and its outputs new.
PreparePass(p) ==
    /\ Unlocked
    /\ prepared[p] = None
    /\ Planned(cur) # {} /\ Unused # {} /\ Unused \ {FreshId} # {}
    /\ prepared' = [prepared EXCEPT ![p] = Prepare(cur)]
    /\ UNCHANGED <<manifest, snapfile, sessVars, pub, truth, spent>>

\* Prepare fails, or the pass is cancelled: its outputs are orphans.
AbandonPass(p) ==
    /\ prepared[p] # None
    /\ Spend("fault", MaxFaults)
    /\ prepared' = [prepared EXCEPT ![p] = None]
    /\ UNCHANGED <<manifest, snapfile, sessVars, pub, truth>>

\* The catalog is not compared.
InstallableAcrossDdl(pc) == pc.removed \subseteq cur.ssts

\* install_prepared's checks: the catalog is the one prepared for, and every
\* input is still referenced.
Installable(pc) ==
    /\ cur.schema = pc.base_schema
    /\ pc.removed \subseteq cur.ssts

\* The manifest an install commits, over whatever the session has by now.
Compacted(pc) == [cur EXCEPT !.ssts = (@ \ pc.removed) \cup pc.outs]

\* install_prepared_compaction under the writer lock.
Install(p) ==
    /\ Unlocked
    /\ prepared[p] # None
    /\ \/ /\ Installable(prepared[p]) /\ ~stale
          /\ Commit(Compacted(prepared[p]), mem)
          /\ UNCHANGED <<mem, frozen, stale, next_lsn>>
       \/ /\ Installable(prepared[p]) /\ stale     \* the CAS is lost
          /\ Reopen
          /\ UNCHANGED manifest
       \/ /\ ~Installable(prepared[p])             \* Precondition
          /\ UNCHANGED <<manifest, sessVars, pub>>
    /\ prepared' = [prepared EXCEPT ![p] = None]
    /\ UNCHANGED <<snapfile, truth, spent>>

\* The install's commit lands, but its task dies before it learns of it.
InstallLost(p) ==
    /\ Unlocked /\ ~stale
    /\ prepared[p] # None
    /\ Installable(prepared[p])
    /\ Spend("fault", MaxFaults)
    /\ manifest' = Compacted(prepared[p])
    /\ stale' = TRUE
    /\ prepared' = [prepared EXCEPT ![p] = None]
    /\ UNCHANGED <<snapfile, cur, mem, frozen, next_lsn, pub, truth>>

\* The process dies, wherever it is, and the namespace is opened again.
Crash ==
    /\ Spend("fault", MaxFaults)
    /\ Reopen
    /\ prepared' = [p \in Passes |-> None]
    /\ UNCHANGED <<manifest, snapfile, truth>>

-----------------------------------------------------------------------------
Next ==
    \/ \E k \in Keys, del \in BOOLEAN : CommitBatch(k, del)
    \/ WriteSnapshot
    \/ ReclaimSnapshot
    \/ Ddl
    \/ RecoverWriter
    \/ FlushStart
    \/ FlushCommit
    \/ FlushConflict
    \/ \E landed \in BOOLEAN : FlushFails(landed)
    \/ \E p \in Passes : PreparePass(p)
    \/ \E p \in Passes : AbandonPass(p)
    \/ \E p \in Passes : Install(p)
    \/ \E p \in Passes : InstallLost(p)
    \/ Crash

Spec == Init /\ [][Next]_vars

-----------------------------------------------------------------------------
(* Properties.                                                              *)

IsManifest(m) ==
    /\ \A s \in m.ssts : s.id \in 0..MaxSsts /\ s.rows # {} /\ s.rows \subseteq RowSet
    /\ \A s, t \in m.ssts : s.id = t.id => s = t
    /\ \A i \in DOMAIN m.wal : m.wal[i] \in RowSet
    /\ m.schema \in 0..MaxDdl

\* Types. No SST is empty, no two SSTs of a manifest share an id, a memtable
\* holds one row per key.
LsmTypeOK ==
    /\ IsManifest(manifest)
    /\ IsManifest(cur)
    /\ mem \subseteq RowSet
    /\ \A r, s \in mem : r.k = s.k => r = s
    /\ stale \in BOOLEAN
    /\ frozen # None => mem = {}

\* Every read through the published snapshot returns the last acknowledged
\* write of its key: no flush, failed flush, compaction, tombstone GC, install
\* over a newer base or reopen makes a row vanish, reappear or shadow a newer
\* one. (ingest.rs FrozenMemtableRestoreGuard, compact.rs install_prepared.)
ReadsTruth == View(Rows(pub.ssts) \cup pub.mem) = truth

\* What a crash right now would leave: an open of the store's current manifest,
\* from its WAL or from the snapshot file if that is taken to cover it, returns
\* the last acknowledged write of every key. (recovery.rs
\* recover_memtable_with_snapshot; flush.rs, where the WAL is cleared.)
StoreTruth == View(Rows(manifest.ssts) \cup Recovered(snapfile, manifest)) = truth

\* A tombstone GC and a reopen may hand LSNs out again, but never one that a
\* row the session can meet already has. (ingest.rs open, next_lsn.)
LsnsAboveRows == \A r \in Rows(cur.ssts) \cup mem : r.lsn < next_lsn

\* A commit adds only SSTs built for the catalog it commits: a compaction
\* prepared before a CREATE INDEX is not installed after it.
\* (compact.rs install_prepared, catalog_drift.)
AddsCurrentCatalog ==
    [][\A s \in manifest'.ssts \ manifest.ssts : s.schema = manifest'.schema]_vars
=============================================================================
