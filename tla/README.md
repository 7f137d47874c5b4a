# A TLA+ development of namidb

namidb is a graph database whose only durable state is an object store: a
namespace is a tree of immutable objects, and one writer process at a time
commits to it with conditional PUTs. This directory models that protocol, checks
it with TLC and proves most of its safety properties with TLAPS. `PROJECT.json` maps every
definition to the lines it models, lists the runs, the mutants that show each
property can fail, the hazards and the findings.

## The system

| part | state | operations | talks to |
|---|---|---|---|
| manifest store (`manifest.rs`, `fence.rs`) | `manifest/v<N>.json` bodies, the Create-only pointer family `manifest/pointer/p<N>.json`, the advisory `manifest/current.json` | bootstrap, load_current, commit = put_body + cas_pointer, claim_writer, repair_stalled_commit | object store; called by every writer, reader and sweep |
| WAL (`wal.rs`) | slots `wal/<seq>.wal`, one segment of records each; an empty segment is a sentinel that fences a slot | append_segment, list_segments, read | referenced by manifests |
| writer session (`ingest.rs`) | base manifest, fence epoch, next LSN, WAL slot, pending batch, memtable, poison flag | open, reopen, reopen_unless_claimed, stage, rollback, commit_batch, flush, compact, snapshot, DDL | manifest store, WAL, LSM |
| recovery (`recovery.rs`) | memtable snapshot object | replay the manifest's segments | WAL, session open |
| LSM (`memtable.rs`, `flush.rs`, `compact.rs`) | memtables, SSTs by level | freeze, flush, off-lock prepare, install | manifest commits |
| janitor (`janitor.rs`) | horizon of a sweep | reclaim SSTs, pointers, bodies, WAL segments, snapshots below the horizon | everything that reads old versions |
| retention (`pin.rs`, `restore_point.rs`, `backup.rs`, `reader.rs`) | leases, windows, pinned readers | acquire, renew, release, copy, refresh | janitor |
| server (`registry.rs`, `maintenance.rs`, `recovery.rs`, `lib.rs`) | open namespaces, writer health, compaction scheduler, group commit | open, evict, drain, recover, probe the fence, schedule | sessions |
| Bolt, HTTP, auth, query, graph algorithms, ANN, clients | per connection or none | request handling, pure evaluation | server |

What is hard here:

* there is no lock: two processes may believe they own the namespace, at any
  request, and only conditional PUTs separate them;
* any request can fail, or fail after it was applied, and a PUT can be applied
  after its client gave up; a process can die between any two;
* an interrupted commit leaves objects behind (a body without a pointer, a
  segment without a body) that later opens must adopt, fence or delete, while
  the writer that left them may still be alive;
* an acknowledgement and a negative acknowledgement must both stay true;
* LIST may be stale while GET and HEAD are not, and the janitor removes the
  objects from which staleness would be noticed.

What makes each part correct: an acknowledged batch is in the log of the
current manifest, exactly once, in LSN order; a batch reported as definitively
not committed never appears; the current manifest can always be loaded and
replayed; versions form one lineage in which nothing published changes; no two
sessions share an epoch; an open always ends with a session; a load finds the
newest version; a live namespace is never bootstrapped again; nothing a reader,
pin or pending commit needs is reclaimed.

## Modules

| module | models | composes |
|---|---|---|
| `ManifestCommit` | the commit protocol: `manifest.rs`, `wal.rs`, `fence.rs`, the open and commit paths of `ingest.rs` and `recovery.rs` | |
| `CommitLog` | what that protocol promises a client: one append-only log of commits, acknowledgements, rejections, an epoch | refined by `ManifestCommit` |
| `PointerResolve` | load_current request by request, with a lagging LIST, the advisory, legacy namespaces and the janitor's sweep of pointers and bodies | |
| `Lsm` | rows: memtable, flush, compaction off the lock, memtable snapshot, recovery | |
| `CompactionScheduler` | the scheduler's mutex and the gate of `maintenance.rs` | |
| `Maintenance` | the objects: flushes, passes, drains and sweeps of one process | extends `CompactionScheduler` |
| `Retention` | sweeps against leases, local readers, the restore point window and uncommitted uploads | |
| `NamespaceRegistry` | slots, eviction, draining and restores of `registry.rs`, and the requests that hold an incarnation | |
| `GroupCommit` | group commit, explicit transactions, recovery and health of one incarnation | |
| `Extrema` | lemmas: least and greatest elements of sets of naturals | extended by every proof module |
| `ManifestCommitProofs` | theorems about the commit protocol: types, the pointer family; durability, lineage, epochs, the refinement of `CommitLog` | extends `ManifestCommit` |
| `PointerResolveProofs`, `LsmProofs`, `MaintenanceProofs`, `RetentionProofs`, `RegistryProofs`, `GroupCommitProofs` | theorems about the module of that name (`NamespaceRegistry` for the fifth) | extend it |

`MCManifestCommit`, `MCResolve`, `MCLsm` and `MCRegistry` add the symmetry sets of
their instances. A module treats what another one opens up as one step: the commit of
a flush or an install in `Lsm`, or any of `GroupCommit`, succeeds, fails, or lands
unseen, which is what `ManifestCommit` shows it to do (in `Lsm` a batch or a schema
commit is always acknowledged); `Maintenance` keeps only the ids of the SSTs
whose rows `Lsm` follows; `NamespaceRegistry` keeps only the epoch of a session.

### ManifestCommit

`body`, `ptr` and `wal` are the store; `late` holds PUTs still in flight after
their client gave up. Each process has a label `pc`, a session `sess` (a
`WriterSession`), the locals `claim` of an open (open_claiming, claim_writer,
repair_stalled_commit) and the locals `txn` of commit_batch. `staged`, `acked`
and `nacked` are history.

Every request to the store is one action, so two processes interleave at every
await. A PUT of a commit or a claim has the outcomes `Outcomes` lists: it succeeds; it
is applied but its response is lost; it never arrives; it is applied later (`LatePut`).
The PUTs of a bootstrap, the sentinel and pointer of a repair and the DELETEs of a repair
or a resolver are applied at once or fail without effect (`OpenFault`, and the failing
alternatives of the two deletes): they do not land unseen or late in this model. `Recover`, several GETs and a LIST of
WAL slots in the code, is one step.
`Open`, `Reopen` start an open (`Reopen` with the epoch it would yield to);
`LoadForOpen`, `BootBody`, `BootPtr` are the bootstrap; `ClaimLoad`,
`ClaimBody`, `ClaimPtr`, `ClaimLost` are claim_writer's loop with its stall and
repair budgets; `RepairHead` ... `RepairDel` are repair_stalled_commit: judge the
orphan body, fence its WAL slot with a sentinel if it is empty, publish or
delete. `Recover` replays the WAL and seeds LSN and slot. `Stage`, `Rollback`,
`StartCommit` are the session; `PutWal` and `PutBody` run concurrently, `BodyExists`
tells one's own body from a peer's, `JoinPuts` is the match on both results,
`Reseq` and `CancelRetry` the retry in a higher slot; `CasPointer`,
`PointerExists`, `ResolveCas`, `DeleteOrphanBody`, `DeleteOrphanWal` the
pointer, its indeterminate failure and the clean-up. `Crash` takes a process
down anywhere.

A batch is a model value; a record is a batch and the LSN it was given; a
descriptor carries its slot and the records its hash and last LSN stand for, so
comparing descriptors is comparing hashes. A writer's uuid is the pair of
process and open. load_current is one step here, and the advisory is left out:
both are `PointerResolve`. There is no janitor in this module, so its versions
are never reclaimed.

### PointerResolve

Each process walks the labels of a load: `List`, then on an empty answer
`HeadP0`, `GetAdvisory`, `HeadAdvisory`, `GetLegacy`, else `Probe`, `GetPointer`,
`GetBody`. `views` holds the answers a LIST may still give: the highest pointer at each
recent moment; `ListCatchesUp` forgets the oldest. `Aged` is the janitor's
min_age. With `Timely`, a LIST's lag, the load that uses it and the bootstrap or
claim that load leads to together last less than min_age; without it they may not.
A load keeps, as history, what its LIST answered (`seen`): under `Timely` nothing above
that has been reclaimed before the load's last consequence, its claim's PUT included.
The bodies a namespace from before the family came with (`ancient`) are older than all of
that, and a sweep may take them as soon as they are below its horizon.
Min_age is the age of the object and not of its being superseded, so `Timely`
does not protect a version that was current for long. The
retention horizon that readers and pins determine is any version up to the
current one. `RequestFails` is a request that fails otherwise than with
NotFound: max_pointer_version's fallbacks take it for absence, every other
request of a load passes it on. A body and its pointer are published in one
step.

### Lsm

`manifest` and `snapfile` are the store, `cur`, `mem`, `frozen`, `stale` and
`next_lsn` the `WriterSession`, `pub` what `SnapshotCell` publishes, `prepared`
the `PreparedCompaction` a pass holds while the writer lock is free, `truth` the
last acknowledged write of each key. A row is a key, an LSN and a tombstone flag.
`CommitBatch` is commit_batch; `FlushStart` freezes the memtable and uploads,
`FlushCommit`, `FlushConflict` and `FlushFails` end the flush with the restore guard
of `ingest.rs`; `PreparePass` takes a basis and merges by the planner's rules
(levels, budgets, the two scopes, tombstone GC), `Install` and `InstallLost` commit it if the
basis still matches, `AbandonPass` drops it. `WriteSnapshot` and `ReclaimSnapshot`
are the snapshot file's, `Ddl` a schema commit (its failure changes no row), `RecoverWriter` the reopen after a
lost commit, `Crash` a restart with recovery. `Replay` states what recovery's loop
over the WAL leaves in the memtable, the last entry of every key above the
horizon, without the loop. Every output of a pass has an id of its own; the migration
that gives a lone SST of an older format its side-cars, and keeps its id and its rows
(`compact.rs` 1360-1421), is not modelled.

### CompactionScheduler and Maintenance

The scheduler's variables are those of `SchedulerState` and of the gate
(`maintenance_gate`); `due` remembers a trigger no basis has been taken after.
`Maintenance` says who uses them: flushes (`FlushUpload`, `FlushCommit`, `FlushDies`),
the worker and an operator's drain (`EnterGate`, `TakeBasis`, `Prepare`, `Install`,
`PassFails`, `PassDies`, `WorkerNext`, `DrainNext`), and the maintenance loop (`Tick`,
`QueueSweep`, `StartSweep`, `SweepDelete`, `EndSweep`). A sweep decides on one manifest
and deletes one object at a time.

### Retention

A version references objects; `man`, `bodies`, `objs` and `age` are the store,
`pending` what is uploaded and not committed. Holders of a lease go through
`LoadVersion` or `LoadBackup`, `Acquire`, `Verify` (the HEAD of their root under the
lease), `Renew`, `Release`; `RefreshWindow` moves the restore point window;
`LoadSnapshot` and `DropSnapshot` are the readers of the janitor's own process. A
sweep is `SweepStart` (leases, horizon, live set), `SweepRecheck` (the pre-delete
look at the leases, and the live set: a body missing at or above the strict floor aborts
the sweep), then `DeleteObject` and `DeleteBody` in any order, then
`SweepEnd`. `Tick` passes time; ages and terms are kept only as far as a rule can
tell them apart. `cast` chooses which kinds of holder a behaviour has.

### NamespaceRegistry

`slots` are the OnceCells with the `NamespaceState` in them, `map` and `draining` the
registry's two maps, `restoring` its set of restores, `epoch` the store.
A request runs `Lookup`, one of the `Insert...` actions, `InitSlot`, `Claim`, and on
the way drains a predecessor (`Quiesce`, `JoinTasks`, `QuiesceLock`, `Forget`); then it
takes the writer as its kind does (`HttpLock`, `BoltLock`, `CompactBasis` and
`CompactLock`, or `Pin` for a read), writes, and recovers when it was fenced.
`TaskLock` ... `AbortLands` are the background tasks of an incarnation. `Disconnect`
drops a handler's future inside get_or_open. A claim is one step, so a claim PUT that a
disconnected opener left in flight has landed or never does.

### GroupCommit

`pending` and `session` are the writer session, `waiters`, `notified` and `committer`
the group commit, `health` and `probe` those of `recovery.rs`. A section under the
writer mutex is one action unless it awaits the store; `mutex` and `phase` say who
holds it across such an await. `Stage` registers a waiter; `Wake` and `CommitGroup` are
the committer's, a flush's or a transaction's commit (`Settlers`). A schema statement
over HTTP or Bolt and the install of a compaction (`Installers`) take the mutex with
rows staged and never look at the group (`DdlStart`, `DdlOk`, `DdlFails`), and a
statement that fails rolls back its own rows and recovers a poisoned session
(`StageFails`). `Failures` lists how what holds the mutex can fail; `ReopenOk`,
`ReopenYields` and `ReopenFails` are the recovery in place under either `FencePolicy`: a
successful one drops the batch, whoever staged it, and hands its LSNs out again.
`SettledAs` is GroupCommit::settle, which tells the waiters of a dropped batch
GROUP_ROWS_DROPPED and only them. `BoltWrites` are the writes that no retired check
stops. `ProbeLoad`, `ProbeLocal`,
`ProbeReport` are the read-fence probe of the maintenance loop (`probe.on`: it is off where the
server is configured without one), which holds no lock between its loads and its
report; `health.masked` is history: such a report took the place of a commit
failure's reason. `Evict`, `CommitterStops`, `Abort` end the incarnation.

## Runs

| run | instance | shows |
|---|---|---|
| `commit_takeover` | 2 writers, 2 batches, 3 opens, 1 fault (lost, landed and late PUTs, crashes), one claim at a time | takeover at every request of a commit: `AckedDurable`, `LineageExtends`, `CurrentRecoverable`, `PublishedImmutable`, `TypeOK`, and the refinement `ImplementsCommitLog` |
| `commit_single` | 1 writer, 2 batches, 3 opens, 3 faults, no late PUTs, fair | crashes, lost and landed PUTs, rollbacks and retries of one process: `NackStaysTrue`, `PublishedBodyPresent`, the refinement; and `OpenSucceeds`: orphans, sentinels and half-done bootstraps never wedge an open |
| `claim_race` | 3 processes claiming at once, 1 fault, no data | `OneSessionPerEpoch`, `SessionMatchesStore`, `PointerFamily` |
| `resolve` | 2 writers, 4 versions, 1 sweep, 1 crash or failed request, a probe of 2, lagging LIST, fresh or legacy, `Timely` | `FreshLoad`, `NeverGoesBack` |
| `lsm` | 1 key, 3 writes or deletes, 2 passes, 1 DDL, 1 fault, three origins | `ReadsTruth` (what is published), `StoreTruth` (what a restart would find), `LsnsAboveRows`, `AddsCurrentCatalog`, `LsmTypeOK` |
| `maintenance` | below 2 objects a flush or plan, worker and drain, 1 fault (a failed pass, a dead task, a crash), fair | `LiveObjectsPresent`, `RequestServed`, `SweepNotStarved`, `MaintTypeOK`, no deadlock |
| `retention` | 1 pin, 3 versions, min_age 2, TTL 2, three casts | `CurrentRestorable`, `LocalReadersServed`, `LeaseProtects`, `WindowRestorable`, no deadlock |
| `registry` | 2 namespaces, capacity 1, 2 requests of 4 kinds, 3 slots, 1 event | `OneIncarnation`, `RestoreAlone`, `EvictedAreDraining`, `HttpAndTasksYield` |
| `group` | 2 writes (HTTP, Bolt), or 1 and the probe, 1 transaction, flushes, DDL, installs, 1 trouble, both policies, fair | `AckedVisible`, `LostNeverApplied`, `BrokenIsDegraded`, `YieldNeverFences`, `WaiterAnswered`, `SoundBecomesHealthy` |

Three runs show where the code departs from what its comments or documents say
(the quotations are in `PROJECT.json`):

* `repair_race` - two claims repair one orphan: the slower one deletes the body
  the faster one published (`PublishedBodyPresent`).
* `retired_bolt` - a Bolt statement that looked up an incarnation before its
  eviction recovers it afterwards and fences the successor (`SuccessorUnfenced`).
* `root_check` - a lease lands after the sweep's pre-delete check; its holder finds
  the manifest body, and the sweep then deletes the objects that body references
  (`RootCheckSuffices`). `LeaseProtects` is the promise that does hold: a lease
  under which the version was whole while no sweep was past its check.

### Other observations

Cases met while modelling that no run of the list shows; the first eight come out
of the models with other constants, the others from reading. The first three are how a
namespace goes back although nothing lags longer than min_age: all start from min_age
being the age of the object and not of its being superseded, and all need a sweep
(`NeverGoesBack`). In each, TLC finds `rebooted` or `regressed` set with the constants given.

* The writer that upgrades a namespace from before the family dies between its first
  pointer p(k+1) and the advisory, a sweep reclaims v(k), and an open whose LIST lags finds
  no p0, an advisory that names k, no p(k), and then no body: it bootstraps the live
  namespace again (one writer, `Legacy = {1}`, three versions, one crash). `manifest.rs`
  1095 says of the advisory that it closes the window of an empty LIST.
* An open has resolved the newest pointer when a peer publishes the next one and a sweep
  reclaims the first; its GET answers NotFound, which is taken for an uninitialised
  namespace, and the bootstrap's Creates find v0 and p0 free, although `manifest.rs` 952
  says that the pointer PUT "still guards a genuinely bootstrapped namespace" (two
  writers, `Legacy = {}`, no fault).
* A superseded writer pauses until the version it writes next has been published by its
  successor, superseded and reclaimed: its compare-and-swap succeeds below the newest
  version (the same constants). `docs/ARCHITECTURE.md` 57 says that "a superseded writer
  loses its next compare-and-swap".
* With two writers and a lost pointer PUT, a claim adopts a commit between
  resolve_failed_pointer_cas's re-read and its deletes (`ingest.rs` 2134): a
  definitive rejection becomes false (`NackStaysTrue` with `PtrFaults = {"lost"}`).
* With one writer and three faults, two of them late PUTs: the body and WAL PUTs of a
  first attempt report errors and are still in flight when the second attempt's
  pointer PUT is lost; the resolver finds the commit absent, deletes what is there and
  rejects it; the PUTs of the first attempt land, and the repair of the next open
  adopts them. `ingest.rs` 2076 says the negative ACK stays true forever. It holds for
  one writer whose failed PUTs do not arrive later (`commit_single`).
* Without `Timely`, a LIST whose top has been reclaimed stops the probe at once and
  a live namespace is bootstrapped again with a single writer.
* `Timely` has to cover the request a load leads to, not only the load: a bootstrap or a
  claim that pauses after its load while a sweep reclaims the versions above what its
  LIST answered re-creates one of them, with a single writer and three crashes.
* A probe that has loaded its two epochs and stalls through a reopen, a poisoned
  commit and a failed reopen reports its own reason over the commit failure's; the
  next probe, at parity, clears it while the session is still poisoned, although
  `recovery.rs` 157 says parity never clears a commit failure. It takes four
  troubles under `FencePolicy::Steal`; `BrokenIsDegraded` leaves it out (`masked`).
  It came up when the invariant below did not turn out inductive.
* A yielding reopen whose own earlier claim landed unseen steps aside for itself
  (`manifest.rs` 1449).
* A current exactly MAX_PROBE ahead of the LIST fails as stale (`manifest.rs` 1171).
* A writer that dies between the first pointer of an upgraded namespace and the
  advisory leaves an empty LIST returning the version before it; `FreshLoad`
  therefore speaks of loads that went through the family.
* `renew_pins` renews a lease without asking whether it had lapsed, and a refresh
  that finds its own version renews without verifying again; a reader that cannot
  write its pin serves unprotected; the janitor's delete of an expired lease is
  unconditional and can remove one renewed meanwhile.
* The window rule, and the protection of a compaction's outputs from a sweep of
  another process, rest on an upload being committed within min_age; a long
  off-lock prepare need not be. The gate that excludes the two is per process.
* Writes queued behind an aborted committer are answered only by their deadline,
  and a committer aborted between the discard of its batch and the answers leaves
  waiters that a later settle reports as dropped although the commit landed; hence
  `~evicted` in `LostNeverApplied`.
* Commits clear WriterHealth's persistence reason, which `recovery.rs` says only
  flush outcomes do.
* A quiesce interrupted by a disconnect has already taken the task handles, so the
  next caller has none to join; a request that holds the state and has not pinned
  yet does not keep it from being evicted.
* A merge that drops every row leaves a lower high-water mark, so a reopen hands
  LSNs out again although `ARCHITECTURE.md` calls them monotonic; `LsnsAboveRows`
  and `ReadsTruth` show that it does no harm.
* A steady stream of triggers can keep wait_idle from returning.

### Bounds

In `ManifestCommit` three opens are a first writer, the one that fences it, and one
that repairs or fences again; two batches are one that is interrupted and one that
meets its remains; `MaxFaults` counts store errors and crashes together. The
versions, slots and LSNs are as many as those opens and batches can use (an open
takes a version, and a sentinel a slot), so the bounds in the guards cut off no
shorter behaviour. `MaxStalledRounds` 1 and `MaxRepairPasses` 2 stand for 8 and 4: the
loop's choices are the same, reached in fewer rounds. In `PointerResolve`,
`MaxProbe` 2 stands for 8192, and four versions are one more than a probe from p0 may
walk, so that the budget runs out; they are also a version a superseded writer stands on
and two that its successor publishes above it. `resolve` explores no further once a
namespace has gone back, of which nothing is claimed (`Explored`), and in the fourth version
lets a sweep happen or a fault, not both (`MaxWork`); without `MaxWork` TLC finds the two
properties kept as well, over 12 million states. `commit_takeover`
allows one claim at a time, because with more the race of `repair_race` breaks the
properties.

`PutFaults` and `PtrFaults` are the ways a request may fail. `commit_takeover` and
`claim_race` let a PUT arrive late, `commit_single` does not (the fifth
observation). No run lets a
commit's pointer PUT arrive after the resolver has re-read the pointer ("late" in
`PtrFaults`): resolve_failed_pointer_cas decides by that re-read, so a PUT it
cannot see yet is beyond what the code can tell. In `commit_takeover` a pointer
PUT fails only after it was applied, because one that is lost leads to the fourth
observation.

In `Lsm` keys share nothing but the budgets of the levels, so one key with three writes shows a put, a delete
and a put in three different levels; a second pass is the one that installs under the
first. Level budgets 2 and 2 make every level overflow within that. In
`Maintenance` two objects are a merge's two inputs, and ids are reused once nothing
mentions them, so flushing goes on for ever. In `Retention` a version, its
successor and the one after that are what a holder needs to fall two behind; a
min_age and a TTL of two ticks have a tick at which they are half over. Capacity 1
with two namespaces makes each open of the one evict the other, three slots are an
incarnation, its successor and the next. Two writes and a transaction give the
committer a group, a write that joins it without rows of its own (hence two LSNs),
and a foreign commit of both. A trouble is a peer's claim or a failed request; one is
enough for a reopen under registered waiters that hands their LSNs out again and for a
probe that reports over the recovery. Where the probe is on, one write is sent
(`ProbedWrites`): the two multiply the states, and the probe meets a write only through
`published`, `store` and `health`. A report that masks a later failure (`masked`) takes two
troubles; with one write and two troubles TLC finds the six properties kept as well (1.3
million states). A failed reopen follows other trouble, so it may use
the transaction's share of the bounds (`InBudget`).

CHECK_DEADLOCK is off where a spent bound leaves nothing to do (every process down
or idle); `maintenance` and `retention` have no such bound and check it.

### Fairness

`FairSpec` of `ManifestCommit` asks weak fairness of `OpenStep` and `CommitStep` for each
process: one that has begun an open or a commit goes on to its next request, as an
async task does whose future is awaited. Nothing is asked of clients, opens,
crashes, faults or late PUTs. `OpenSucceeds` is about opens begun after the
fault budget is spent with nothing in flight, and of one process, so that no
peer can fence it for ever: an open against an active peer may lose as often as
the peer claims.

`GrpFairSpec` asks strong fairness of the committer's wait for the mutex, which is a
fair queue, and weak fairness of every await under the mutex, a schema statement's
included, and of the probe's steps; of a transaction's rollback too, since Bolt ends an idle one after 30
seconds and any one after five minutes (`main.rs`, `bolt.rs`). Writes, peers and
evictions are free not to happen.

`MaintSpec` asks strong fairness where a task waits for the gate or the writer mutex
(tokio queues both first in, first out, so a waiter is served although others keep
coming) and weak fairness of the other steps of a pass, a sweep and the loop.
Nothing is asked of flushes beginning, triggers or faults.

## Proofs

Every theorem is for any values of the constants that satisfy the module's ASSUME:
any sets of writers, keys, requests or pins, any bounds, budgets and fault counts.
Each proof module defines the inductive invariant as a conjunction of named parts,
has one lemma per action, and derives the properties at its end. Each invariant was
first checked by TLC on the run's instance or a larger one. `Extrema` has the two
facts they share, that a nonempty set of naturals has a least element and a nonempty
bounded one a greatest (`LeastNat`, `BoundedMax`); what CHOOSE picks as a fresh id or as the
newest version is then known.

| module | theorem | states |
|---|---|---|
| `ManifestCommitProofs` | `TypeCorrect`, `FamilyCorrect` | `TypeOK`, `PointerFamily` |
| the same, under `Scope` and `[]OneJudge` | `AckedCorrect`, `LineageCorrect`, `RecoverableCorrect`, `ImmutableCorrect`, `BodyPresentCorrect`, `EpochsCorrect`, `SessionCorrect`, `RefinementCorrect` | `AckedDurable`, `LineageExtends`, `CurrentRecoverable`, `PublishedImmutable`, `PublishedBodyPresent`, `OneSessionPerEpoch`, `SessionMatchesStore`, `ImplementsCommitLog` |
| the same, under `Scope` | `ScopeCorrect` | where `OneJudge` always holds |
| the same, under `Solo` alone | `SoloCorrect` | `PublishedBodyPresent`, `NackStaysTrue`, `ImplementsCommitLog` |
| `PointerResolveProofs`, under `Timely` | `FreshCorrect` | `FreshLoad` |
| the same, with one writer and no legacy version | `SingleNeverGoesBack` | never `rebooted` nor `regressed`, with any sweeps |
| `PointerResolveProofs`, no assumption | `BeforeSweepsCorrect` | `NeverGoesBack` |
| `LsmProofs` | `ReadsTruthCorrect`, `StoreTruthCorrect`, `LsnsCorrect`, `CatalogCorrect`, `LsmTypeCorrect` | `ReadsTruth`, `StoreTruth`, `LsnsAboveRows`, `AddsCurrentCatalog`, `LsmTypeOK` |
| `MaintenanceProofs` | `LiveObjectsCorrect`, `MaintTypeCorrect` | `LiveObjectsPresent`, `MaintTypeOK` |
| `RetentionProofs` | `CurrentCorrect`, `LocalReadersCorrect`, `LeasesCorrect`, `WindowCorrect` | `CurrentRestorable`, `LocalReadersServed`, `LeaseProtects`, `WindowRestorable` |
| `RegistryProofs` | `OneIncarnationCorrect`, `RestoreAloneCorrect`, `EvictedCorrect`, `YieldsCorrect`, `RegTypeCorrect` | `OneIncarnation`, `RestoreAlone`, `EvictedAreDraining`, `HttpAndTasksYield`, `RegTypeOK` |
| `GroupCommitProofs` | `AckedVisibleCorrect`, `LostCorrect`, `BrokenCorrect`, `YieldCorrect`, `GrpTypeCorrect` | `AckedVisible`, `LostNeverApplied`, `BrokenIsDegraded`, `YieldNeverFences`, `GrpTypeOK` |

The arguments:

* `TypeOK`. Types alone are not inductive: an action reads `claim[w].man` or
  `sess[w].ver` because of its label. `TypeOK` therefore carries `Locals`, which ties
  each label to the locals a process holds there and to the room below `MaxVersion`
  its next PUT needs. `StepOfOne` reduces a step of one process to its own label and
  locals.
* `PointerFamily`. Contiguity is not inductive: a pointer PUT extends the family by
  one only if its base is published. `PointerFamily` adds that the base of every
  claim, repair and session is published and that so is the predecessor of every
  pointer PUT in flight. The family only grows (`FamilyKept`), so these anchors,
  once true, stay true.
* `SafeInv`, the invariant of the second part of `ManifestCommitProofs`. Two conditions
  delimit it. `OneJudge`: no two repairs are between reading an orphan that adds data and
  deciding about it. `Scope`, of the constants: `PointersLand`, a pointer PUT of a commit
  that reports an error has been applied, or `Solo`, one process writes and no PUT arrives
  after its sender gave it up, the scope of `commit_single`. Under `PointersLand`
  everything else is free: any number of writers that open, claim and commit at
  once, repairs that publish each other's claims, takeovers, crashes at any request,
  body and WAL PUTs lost, landed or late, and pointer PUTs of claims too. The
  conditions are needed, not convenient: of two repairs that judge one orphan the
  slower deletes the body the faster has published (`repair_race`), and after a lost
  pointer PUT another process's claim adopts what the resolver is about to clean up (the
  fourth observation above). `OneJudge` is a condition on behaviours, hence
  `Spec /\ []OneJudge => []P`; `ScopeCorrect` proves it of every behaviour when opens do
  not overlap (the scope of `commit_takeover`), when there is one process, and when there
  is nothing to commit (the scope of `claim_race`). TLC checked `SafeInv` with two racing
  claimers, data and late PUTs, on the states with `OneJudge`, and with one process that
  loses pointer PUTs, before it was proved.
  `Bodies` says that whatever is stored or still in flight as version v is a claim of,
  or one segment more than, the published v - 1 (`Fits`), so it does not matter whose
  PUT arrives. `Segments`: the segments of published versions are in their slots.
  `ClaimOK` and `CommitOK` relate the locals of an open and of a commit to the store,
  and carry the argument of the repair: an orphan is deleted only once its WAL slot
  holds something else (the sentinel, or a peer's segment), and a commit whose slot
  does so never reaches its pointer PUT; one that is published has its own
  segment in the slot. `Chain` gives an epoch one owner; with `OneZero` (only the
  bootstrapping open has epoch 0) no two sessions share one. `Durable` says an
  acknowledged batch is in some published version, and `Chain` carries it to the
  current one. `SafeStep` also gives `Kept`, the action property. `Rejecting` is what the
  resolver's clean-up needs: it runs only in `Solo`, of a version that is not published,
  and deletes the WAL segment only after the body that names it.
* `ImplementsCommitLog`. `Ordered` adds that bodies, stored or in flight, are in LSN
  order and that a session's staged records and its next LSN follow its base.
  `Publishes` says what a step does to the family: one version more, with its commit
  acknowledged or not. `Simulates` then maps the step: bootstrap, an acknowledgement
  found by the resolver and everything that publishes nothing to `Ack` or a stutter, a
  version with a new epoch to `Claim`, one with a new segment to `Commit`. Under
  `PointersLand` the resolver never finds a commit definitively absent
  (`DeleteOrphanSafe`); in `Solo` it does, and the end of its clean-up is the abstract
  `Reject` (`RejectStep`).
* `NackStaysTrue`. That a rejected batch is not published is not inductive: its body may
  be stored and published later, by the process that reopens. `NackInv` says that no
  stored body, published or not, holds a rejected batch, and that no commit under way
  carries one. It holds when the batch is rejected because the clean-up has deleted the
  one body that could hold it (`UnpublishedGone`, `RejectedAbsent`): the version after
  the session's base, and nothing is stored above that.
* `ResolveInv` and `SingleInv`. No fact about the store alone carries a load: what
  protects its cursor is what has not been reclaimed since its LIST. `Known(u)` says what
  an answer u is worth: no body above u is missing, the family has no gap from u, or
  from its first pointer, on, and an empty answer with no advisory means p0 or nothing.
  It holds of every answer a LIST may still give and of every load's `seen`; a
  publication of the next version keeps it (`KnownExtends`), and so does a reclamation at
  or below u (`KnownReclaims`), which is what `Aged` allows. `LoadOK` ties each label of
  a load to it: from a cursor on, the probe's next hit exists until it stands on the
  newest version, so it ends there. All this is under `Sound`, that nothing was
  published below the newest version and no live namespace started over; it needs no
  bound on the writers (`ResolveInvariant`) and gives `FreshLoad`, whose condition is
  `Sound`: the first observations say how it is lost, and a stale load is not among the
  ways. `SingleInv` adds, for one writer and a namespace born with the family,
  that nothing is published while it loads, that a session stands on the newest version
  and that NotFound is reached only in a new namespace or where p0 refuses the bootstrap;
  from these, that `Sound` is never lost: a claim over a version that is not the newest
  meets the body above it.
* `Kept`, for `BeforeSweepsCorrect`. Until the first sweep every version from 0 to the newest keeps
  its body, what a LIST answers is still there, and NotFound means a new namespace or a p0
  that refuses the bootstrap; so the next version is the only free one, however stale the
  base of whoever writes it.
* `LsmInv`. What is published is the view of the session's SSTs and of the rows it
  holds (`Held`: memtable or frozen memtable); `Ordered` says that held rows are newer
  than stored ones of their key, so a flush changes no view. A pass reads its inputs
  without the lock: `Merged` says its outputs invent no row and leave out only
  shadowed rows or, under tombstone GC, all rows of a `Buried` key; `Above` says that
  while its inputs are all still referenced, every other row of such a key is newer,
  whatever was flushed or installed meanwhile. That is what makes the install sound.
  `Names` (ids are used once, outputs are referenced by nobody) lets install tell its
  inputs by id. `Journal` ties the WAL and the snapshot file to the held rows; `Stored`
  relates the store to the session when a commit landed unseen. `Truths` is the goal,
  for the session and for the store.
* `MaintInv`. `Gate` is the exclusion of sweep and passes; from it `Spared`: what a
  sweep has condemned is in no manifest, is not published, is no flush's upload, and
  a pass needs nothing while it does not hold the gate.
* `RetInv`. A sweep goes by one look at leases and versions, and holders move on
  afterwards. `History`: a commit adds young objects only, so an object that was old
  when version f was committed is in a later version only if it is in f. `Basis`
  carries that over to the sweep's candidates, all of them old, so that a version
  committed during the sweep needs none of them unless the sweep's own base does.
  `Spared` then says of each protected version that the sweep deletes nothing of it,
  and `Whole` that it is whole.
* `RegInv`. `Held` and `Owners` are the two directions of who has which slot;
  `Life` orders a slot's stages; `Order`: the mapped slot of a namespace is its last;
  `Drained`: a retired slot stays in the draining table until it is quiesced and no
  request reaches the claim before, however many share the drain and whichever of
  them is disconnected. `Bounded` counts the mapped incarnations against the cap.
* `GrpInv`. `Phases`: who holds the mutex in which phase and what the batch is then.
  `Staged`: what is pending or stored of a write, and what its waiter waits
  for, are one row, because a write stages once; `Covered`: a waiter whose batch was not
  dropped has its row in the batch or has it durable and published, so an LSN that a
  reopen handed to other rows settles nobody else's waiter; `Unapplied`: a registered
  waiter's row is not durable except while a commit that landed unseen is recovered from,
  so a reopen under waiters loses only rows no commit has sent; `Reported` with `Sick`: the
  reason of a broken writer is the failure's or one that the probe under way will confirm.

Only model-checked:

* liveness (`OpenSucceeds`, `RequestServed`, `SweepNotStarved`, `WaiterAnswered`,
  `SoundBecomesHealthy`): fairness and ENABLED are out of the prover's reach.

## Assumptions

* The store is linearisable per object, PutMode::Create is atomic, LIST may lag.
* A commit follows the upload of what it adds by less than min_age, and a request
  whose sender is gone has landed by then or never does (`Retention`, `Maintenance`).
* `Timely`: a LIST's lag, the load that uses it and what that load leads to last less
  than min_age.
* Holders of leases and the janitor read the same clock.
* Of the constants the proofs ask what the code or its types give: bounds are
  naturals, fault kinds, policies and origins those the modules list, a level is at
  least twice the one above it (`Ratio`, 10 in `compact.rs`), `None`, `TxWrite` and the
  lock holder `"task"` are none of the values they are told apart from. TLC evaluates
  each ASSUME in its module's run.

## Not modelled

`PROJECT.json` lists every component with its status. Most of the repository's lines
are code without a state machine: the query engine (parser, planner, executor), the
row-level read path, the SST, search and vector formats, the graph kernels,
authentication, PackStream, the clients, and tests that live beside the code. They
are pure functions of large data or sequential I/O, where a model on a few values
would only repeat the code; so the mapped share of all lines stays small although
the concurrent core - commit, resolution, LSM, retention, maintenance, registry,
group commit - is covered. Within it, offline SST attach, the unique index and the property
caches, Search-LSM generations, and the destination side of a copy are left out.

## Plan

1. `Solo` for several writers: with `OneJudge` extended to a resolver's clean-up (no
   repair judges while it deletes), TLC finds the invariant kept for two writers and two
   racing claims whose pointer PUTs may be lost. The proof needs, of the version being
   deleted, that no claim or session above it names its WAL slot until the clean-up ends.
