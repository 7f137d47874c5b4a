------------------------- MODULE NamespaceRegistry -------------------------
(***************************************************************************)
(* The multi-tenant namespace registry of namidb-server (registry.rs):     *)
(* slots that are opened lazily, idle incarnations evicted at capacity,    *)
(* their quiescing before a replacement claims the writer epoch, admin     *)
(* restores, and the requests that hold on to an incarnation while all of  *)
(* that happens (HTTP and Bolt writes, admin compaction, reads).           *)
(*                                                                         *)
(* A namespace's store is abstracted to its epoch: opening or reopening a  *)
(* session claims the next one, and a write through a session whose epoch  *)
(* is no longer the store's fails and triggers recovery (FencePolicy::     *)
(* Steal).  Idle time is not counted: any incarnation a request does not   *)
(* read from may have been idle for long enough, because last_access is    *)
(* stamped when a request starts and a request has no upper duration.      *)
(***************************************************************************)
EXTENDS Naturals, FiniteSets

CONSTANTS Namespaces,   \* names of namespaces
          Requests,     \* requests in flight at once
          Kinds,        \* what they do: a subset of AllKinds
          Cap,          \* max_namespaces
          MaxSlots,     \* bound: slots ever inserted
          MaxEvents,    \* bound: claims by another process, failed opens, restores
          None

\* HTTP writes (with admin flush and DDL), Bolt writes, POST /v0/admin/compact
\* and reads.
AllKinds == {"http", "bolt", "compact", "read"}
SlotIds == 1..MaxSlots

ASSUME RegistryAssumption ==
    /\ Cap \in Nat \ {0} /\ MaxSlots \in Nat /\ MaxEvents \in Nat
    /\ None \notin Requests \cup Namespaces \cup SlotIds
    /\ "task" \notin Requests \cup {None} /\ Kinds \subseteq AllKinds

VARIABLES
    slots,      \* slot id -> the OnceCell and the NamespaceState in it
    map,        \* sessions: namespace -> slot id or None
    draining,   \* evicted incarnations not quiesced yet: namespace -> slot id or None
    restoring,  \* namespaces an admin restore copies into
    epoch,      \* the store: namespace -> epoch of its current manifest
    req,        \* request -> where it is, which slot it holds, which it drains
    events      \* claims by other processes, failed opens and restores so far

regVars == <<slots, map, draining, restoring, epoch, req, events>>

-----------------------------------------------------------------------------
(* State.                                                                  *)

\* A slot: its namespace, whether the cell is initialised, the request that
\* is initialising it, the session's epoch, the retired and quiesced flags of
\* the state, the request running quiesce, whether maintenance_tasks still
\* holds the handles, the holder of the writer mutex, and the background task.
UnusedSlot == [ns |-> None, open |-> FALSE, opener |-> None, epoch |-> 0,
               retired |-> FALSE, quiesced |-> FALSE, quiescer |-> None,
               handles |-> FALSE, lock |-> None, task |-> "none"]

SlotStates == [ns: Namespaces \cup {None}, open: BOOLEAN, opener: Requests \cup {None},
               epoch: Nat, retired: BOOLEAN, quiesced: BOOLEAN,
               quiescer: Requests \cup {None}, handles: BOOLEAN,
               lock: Requests \cup {"task", None},
               task: {"none", "idle", "locked", "recover", "aborted", "gone"}]

Idle == [pc |-> "idle", kind |-> "http", ns |-> None, slot |-> None, drain |-> None, then |-> "idle"]

Pcs == {"idle", "insert", "drain", "join", "lockq", "forget", "init", "claim",
        "have", "locked", "recover", "prepared", "reading"}

ReqStates == [pc: Pcs, kind: AllKinds, ns: Namespaces \cup {None}, slot: SlotIds \cup {None},
              drain: SlotIds \cup {None}, then: {"idle", "init", "claim"}]

\* One type invariant: every slot, request and map entry of NamespaceRegistry
\* and NamespaceState keeps its shape, and an initialiser, a quiescer or a lock
\* holder is a request that is doing just that (OnceCell and the mutex guard
\* are handed back by whoever leaves).
RegTypeOK ==
    /\ slots \in [SlotIds -> SlotStates]
    /\ map \in [Namespaces -> SlotIds \cup {None}]
    /\ draining \in [Namespaces -> SlotIds \cup {None}]
    /\ restoring \subseteq Namespaces
    /\ epoch \in [Namespaces -> Nat]
    /\ req \in [Requests -> ReqStates]
    /\ events \in 0..MaxEvents
    /\ \A i \in SlotIds, r \in Requests :
          /\ slots[i].opener = r => req[r].slot = i /\ req[r].pc # "init"
          /\ slots[i].quiescer = r => req[r].drain = i /\ req[r].pc \in {"join", "lockq"}
          /\ slots[i].lock = r => req[r].slot = i /\ req[r].pc \in {"locked", "recover"}

RegInit ==
    /\ slots = [i \in SlotIds |-> UnusedSlot]
    /\ map = [n \in Namespaces |-> None]
    /\ draining = [n \in Namespaces |-> None]
    /\ restoring = {}
    /\ epoch = [n \in Namespaces |-> 0]
    /\ req = [r \in Requests |-> Idle]
    /\ events = 0

Mapped == {n \in Namespaces : map[n] # None}
Unused == {i \in SlotIds : slots[i].ns = None}
Fresh == CHOOSE i \in Unused : \A j \in Unused : i <= j

\* Arc::strong_count(slot) == 1 on an uninitialised cell: its opener is gone
\* and nobody waits on it.
Abandoned(i) == ~slots[i].open /\ \A r \in Requests : req[r].slot # i

\* SnapshotCell::has_live_readers.
LiveReaders(i) == \E r \in Requests : req[r].pc = "reading" /\ req[r].slot = i

\* find_idle_oldest: an abandoned slot first, else an open one without live
\* readers that has been idle long enough.
IdleOldest ==
    LET abandoned == {n \in Mapped : Abandoned(map[n])}
    IN  IF abandoned # {} THEN abandoned
        ELSE {n \in Mapped : slots[map[n]].open /\ ~LiveReaders(map[n])}

-----------------------------------------------------------------------------
(* get_or_open.                                                            *)

Goto(r, pc) == req' = [req EXCEPT ![r].pc = pc]
Finish(r) == req' = [req EXCEPT ![r] = Idle]

\* A request of kind k for namespace n arrives and looks its slot up.
Lookup(r, k, n) ==
    /\ req[r].pc = "idle"
    /\ req' = [req EXCEPT ![r] = [Idle EXCEPT !.pc = IF map[n] = None THEN "insert" ELSE "init",
                                              !.kind = k, !.ns = n, !.slot = map[n]]]
    /\ UNCHANGED <<slots, map, draining, restoring, epoch, events>>

\* insert_slot: another request inserted the slot first.
InsertFound(r) ==
    /\ req[r].pc = "insert" /\ map[req[r].ns] # None
    /\ req' = [req EXCEPT ![r].pc = "init", ![r].slot = map[req[r].ns]]
    /\ UNCHANGED <<slots, map, draining, restoring, epoch, events>>

\* insert_slot: a restore is copying into the namespace.
InsertRefused(r) ==
    /\ req[r].pc = "insert" /\ map[req[r].ns] = None /\ req[r].ns \in restoring
    /\ Finish(r)
    /\ UNCHANGED <<slots, map, draining, restoring, epoch, events>>

Insertable(r) == /\ req[r].pc = "insert" /\ map[req[r].ns] = None
                 /\ req[r].ns \notin restoring /\ Unused # {}

\* insert_slot below the cap.
InsertFits(r) ==
    /\ Insertable(r) /\ Cardinality(Mapped) < Cap
    /\ slots' = [slots EXCEPT ![Fresh].ns = req[r].ns]
    /\ map' = [map EXCEPT ![req[r].ns] = Fresh]
    /\ req' = [req EXCEPT ![r].pc = "init", ![r].slot = Fresh]
    /\ UNCHANGED <<draining, restoring, epoch, events>>

\* Mutant: the victim is retired but not put into draining.
InsertEvictingUntracked(r, v) ==
    LET i == map[v] IN
    /\ Insertable(r) /\ Cardinality(Mapped) >= Cap /\ v \in IdleOldest
    /\ slots' = [slots EXCEPT ![Fresh].ns = req[r].ns, ![i].retired = slots[i].open]
    /\ map' = [map EXCEPT ![v] = None, ![req[r].ns] = Fresh]
    /\ req' = [req EXCEPT ![r].pc = "init", ![r].slot = Fresh]
    /\ UNCHANGED <<draining, restoring, epoch, events>>

\* insert_slot at the cap: evict namespace v under the map lock (mark_retired,
\* into draining) and insert the slot; the victim is drained afterwards.
InsertEvicting(r, v) ==
    LET i == map[v] IN
    /\ Insertable(r) /\ Cardinality(Mapped) >= Cap /\ v \in IdleOldest
    /\ slots' = [slots EXCEPT ![Fresh].ns = req[r].ns, ![i].retired = slots[i].open]
    /\ map' = [map EXCEPT ![v] = None, ![req[r].ns] = Fresh]
    /\ IF slots[i].open
       THEN /\ draining' = [draining EXCEPT ![v] = i]
            /\ req' = [req EXCEPT ![r].pc = "drain", ![r].slot = Fresh,
                                  ![r].drain = i, ![r].then = "init"]
       ELSE /\ req' = [req EXCEPT ![r].pc = "init", ![r].slot = Fresh]
            /\ UNCHANGED draining
    /\ UNCHANGED <<restoring, epoch, events>>

\* insert_slot at the cap with nothing idle: RegistryError::AtCapacity.
InsertAtCapacity(r) ==
    /\ Insertable(r) /\ Cardinality(Mapped) >= Cap
    /\ ~\E n \in Mapped : Abandoned(map[n])
    /\ Finish(r)
    /\ UNCHANGED <<slots, map, draining, restoring, epoch, events>>

\* Mutant: the initialiser claims without draining the previous incarnation.
InitSlotAtOnce(r) ==
    LET i == req[r].slot IN
    /\ req[r].pc = "init"
    /\ IF slots[i].open
       THEN Goto(r, "have") /\ UNCHANGED slots
       ELSE /\ slots[i].opener = None
            /\ slots' = [slots EXCEPT ![i].opener = r]
            /\ Goto(r, "claim")
    /\ UNCHANGED <<map, draining, restoring, epoch, events>>

\* get_or_try_init: the cell is initialised, or r becomes its initialiser and
\* looks for a previous incarnation that is still draining.
InitSlot(r) ==
    LET i == req[r].slot
        p == draining[req[r].ns] IN
    /\ req[r].pc = "init"
    /\ \/ /\ slots[i].open
          /\ Goto(r, "have")
          /\ UNCHANGED slots
       \/ /\ ~slots[i].open /\ slots[i].opener = None
          /\ slots' = [slots EXCEPT ![i].opener = r]
          /\ req' = [req EXCEPT ![r].pc = IF p = None THEN "claim" ELSE "drain",
                                ![r].drain = p, ![r].then = "claim"]
    /\ UNCHANGED <<map, draining, restoring, epoch, events>>

\* open_namespace: WriterSession::open claims the epoch, spawn_maintenance.
Claim(r) ==
    LET i == req[r].slot
        n == req[r].ns IN
    /\ req[r].pc = "claim"
    /\ epoch' = [epoch EXCEPT ![n] = @ + 1]
    /\ slots' = [slots EXCEPT ![i].open = TRUE, ![i].opener = None, ![i].epoch = epoch[n] + 1,
                              ![i].handles = TRUE, ![i].task = "idle"]
    /\ Goto(r, "have")
    /\ UNCHANGED <<map, draining, restoring, events>>

\* The open fails, before or after its claim reached the store.
ClaimFails(r) ==
    /\ req[r].pc = "claim" /\ events < MaxEvents
    /\ events' = events + 1
    /\ \E landed \in 0..1 : epoch' = [epoch EXCEPT ![req[r].ns] = @ + landed]
    /\ slots' = [slots EXCEPT ![req[r].slot].opener = None]
    /\ Finish(r)
    /\ UNCHANGED <<map, draining, restoring>>

\* The client goes away: the handler's future is dropped anywhere inside
\* get_or_open.  OnceCell hands an interrupted initialisation or quiesce to
\* the next caller.
Disconnect(r) ==
    /\ req[r].pc \in {"insert", "drain", "join", "lockq", "forget", "init", "claim"}
    /\ slots' = [i \in SlotIds |->
                    [slots[i] EXCEPT !.opener = IF @ = r THEN None ELSE @,
                                     !.quiescer = IF @ = r THEN None ELSE @]]
    /\ Finish(r)
    /\ UNCHANGED <<map, draining, restoring, epoch, events>>

-----------------------------------------------------------------------------
(* drain: quiesce the evicted incarnation, then forget it.                 *)

\* Mutant: quiesce neither aborts nor joins the maintenance tasks.
QuiesceUnjoined(r) ==
    LET d == req[r].drain IN
    /\ req[r].pc = "drain"
    /\ slots[d].quiescer = None
    /\ slots' = [slots EXCEPT ![d].quiescer = r]
    /\ Goto(r, "lockq")
    /\ UNCHANGED <<map, draining, restoring, epoch, events>>

\* quiesce is idempotent: done, being run by another request (wait), or run
\* here: cancel, take the handles and abort them.  A second run after an
\* interrupted first finds no handles to join.
Quiesce(r) ==
    LET d == req[r].drain IN
    /\ req[r].pc = "drain"
    /\ \/ /\ slots[d].quiesced
          /\ Goto(r, "forget")
          /\ UNCHANGED slots
       \/ /\ ~slots[d].quiesced /\ slots[d].quiescer = None
          /\ slots' = [slots EXCEPT ![d].quiescer = r, ![d].handles = FALSE,
                                    ![d].task = IF slots[d].handles /\ @ # "gone"
                                                THEN "aborted" ELSE @]
          /\ Goto(r, IF slots[d].handles THEN "join" ELSE "lockq")
    /\ UNCHANGED <<map, draining, restoring, epoch, events>>

\* Every aborted task has ended.
JoinTasks(r) ==
    /\ req[r].pc = "join" /\ slots[req[r].drain].task = "gone"
    /\ Goto(r, "lockq")
    /\ UNCHANGED <<slots, map, draining, restoring, epoch, events>>

\* The writer mutex was free once: no write begun before retirement goes on.
QuiesceLock(r) ==
    /\ req[r].pc = "lockq" /\ slots[req[r].drain].lock = None
    /\ slots' = [slots EXCEPT ![req[r].drain].quiesced = TRUE, ![req[r].drain].quiescer = None]
    /\ Goto(r, "forget")
    /\ UNCHANGED <<map, draining, restoring, epoch, events>>

\* The tail of drain: leave the draining map if this incarnation is the one
\* in it, and go on with the open or the claim the drain was for.
Forget(r) ==
    LET d == req[r].drain
        n == slots[d].ns IN
    /\ req[r].pc = "forget"
    /\ draining' = [draining EXCEPT ![n] = IF @ = d THEN None ELSE @]
    /\ req' = [req EXCEPT ![r].pc = req[r].then, ![r].drain = None]
    /\ UNCHANGED <<slots, map, restoring, epoch, events>>

\* An aborted maintenance task ends at its next await; a writer guard it holds
\* is dropped with it.
AbortLands(i) ==
    /\ slots[i].task = "aborted"
    /\ slots' = [slots EXCEPT ![i].task = "gone",
                              ![i].lock = IF @ = "task" THEN None ELSE @]
    /\ UNCHANGED <<map, draining, restoring, epoch, req, events>>

-----------------------------------------------------------------------------
(* Writes through an incarnation.                                          *)

Current(i) == slots[i].epoch = epoch[slots[i].ns]

\* run_write_section_multi, run_admin_flush_multi and the DDL handlers check
\* the retired flag after they have the mutex.
HttpLock(r) ==
    LET i == req[r].slot IN
    /\ req[r].kind = "http" /\ req[r].pc = "have" /\ slots[i].lock = None
    /\ IF slots[i].retired
       THEN Finish(r) /\ UNCHANGED slots
       ELSE Goto(r, "locked") /\ slots' = [slots EXCEPT ![i].lock = r]
    /\ UNCHANGED <<map, draining, restoring, epoch, events>>

\* A Bolt statement or BEGIN locks the writer of the AppState view it was
\* given by delegate_for; the view carries no retired flag.
BoltLock(r) ==
    LET i == req[r].slot IN
    /\ req[r].kind = "bolt" /\ req[r].pc = "have" /\ slots[i].lock = None
    /\ Goto(r, "locked")
    /\ slots' = [slots EXCEPT ![i].lock = r]
    /\ UNCHANGED <<map, draining, restoring, epoch, events>>

\* dispatch_admin_compact_multi checks the flag once, then drain_compaction
\* takes a basis under the mutex and prepares off-lock, without a cancel signal.
CompactBasis(r) ==
    LET i == req[r].slot IN
    /\ req[r].kind = "compact" /\ req[r].pc = "have"
    /\ IF slots[i].retired THEN Finish(r) ELSE slots[i].lock = None /\ Goto(r, "prepared")
    /\ UNCHANGED <<slots, map, draining, restoring, epoch, events>>

CompactLock(r) ==
    LET i == req[r].slot IN
    /\ req[r].pc = "prepared" /\ slots[i].lock = None
    /\ Goto(r, "locked")
    /\ slots' = [slots EXCEPT ![i].lock = r]
    /\ UNCHANGED <<map, draining, restoring, epoch, events>>

\* lock_writer_bounded times out: the writer is busy.
LockTimeout(r) ==
    /\ req[r].kind \in {"http", "bolt"} /\ req[r].pc = "have" /\ slots[req[r].slot].lock # None
    /\ Finish(r)
    /\ UNCHANGED <<slots, map, draining, restoring, epoch, events>>

\* The commit, flush or install under the mutex: it succeeds while the
\* session's epoch is the store's; otherwise the handler recovers, unless an
\* HTTP handler finds the incarnation retired.
WriteDone(r) ==
    LET i == req[r].slot IN
    /\ req[r].pc = "locked"
    /\ IF Current(i) \/ (req[r].kind = "http" /\ slots[i].retired)
       THEN Finish(r) /\ slots' = [slots EXCEPT ![i].lock = None]
       ELSE Goto(r, "recover") /\ UNCHANGED slots
    /\ UNCHANGED <<map, draining, restoring, epoch, events>>

\* recover_writer_if_needed: reopen claims the next epoch under the mutex.
Recover(r) ==
    LET i == req[r].slot
        n == slots[i].ns IN
    /\ req[r].pc = "recover"
    /\ epoch' = [epoch EXCEPT ![n] = @ + 1]
    /\ slots' = [slots EXCEPT ![i].epoch = epoch[n] + 1, ![i].lock = None]
    /\ Finish(r)
    /\ UNCHANGED <<map, draining, restoring, events>>

\* Every reopen attempt fails: the session stays broken.
RecoverFails(r) ==
    /\ req[r].pc = "recover" /\ events < MaxEvents
    /\ events' = events + 1
    /\ slots' = [slots EXCEPT ![req[r].slot].lock = None]
    /\ Finish(r)
    /\ UNCHANGED <<map, draining, restoring, epoch>>

\* A read pins the incarnation's snapshot and lets it go.
Pin(r) ==
    /\ req[r].kind = "read" /\ req[r].pc = "have"
    /\ Goto(r, "reading")
    /\ UNCHANGED <<slots, map, draining, restoring, epoch, events>>

Unpin(r) ==
    /\ req[r].pc = "reading"
    /\ Finish(r)
    /\ UNCHANGED <<slots, map, draining, restoring, epoch, events>>

-----------------------------------------------------------------------------
(* The incarnation's maintenance task: the flush loop leaves a retired     *)
(* incarnation after it has the mutex, the group committer does not look.  *)

TaskLock(i) ==
    /\ slots[i].task = "idle" /\ slots[i].lock = None
    /\ \/ slots' = [slots EXCEPT ![i].task = "locked", ![i].lock = "task"]
       \/ slots[i].retired /\ slots' = [slots EXCEPT ![i].task = "gone"]
    /\ UNCHANGED <<map, draining, restoring, epoch, req, events>>

TaskDone(i) ==
    /\ slots[i].task = "locked"
    /\ IF Current(i)
       THEN slots' = [slots EXCEPT ![i].task = "idle", ![i].lock = None]
       ELSE slots' = [slots EXCEPT ![i].task = "recover"]
    /\ UNCHANGED <<map, draining, restoring, epoch, req, events>>

TaskRecover(i) ==
    LET n == slots[i].ns IN
    /\ slots[i].task = "recover"
    /\ epoch' = [epoch EXCEPT ![n] = @ + 1]
    /\ slots' = [slots EXCEPT ![i].task = "idle", ![i].lock = None, ![i].epoch = epoch[n] + 1]
    /\ UNCHANGED <<map, draining, restoring, req, events>>

-----------------------------------------------------------------------------
(* Admin restore, and other processes.                                     *)

\* Mutant: a draining incarnation does not hold a restore up.
BeginRestoreUndrained(n) ==
    LET abandoned == map[n] # None /\ Abandoned(map[n]) IN
    /\ n \notin restoring /\ events < MaxEvents
    /\ map[n] = None \/ abandoned
    /\ events' = events + 1
    /\ map' = [map EXCEPT ![n] = None]
    /\ restoring' = restoring \cup {n}
    /\ UNCHANGED <<slots, draining, epoch, req>>

\* begin_restore: drop an abandoned slot, refuse an open, opening or draining
\* namespace and one already being restored.
BeginRestore(n) ==
    LET abandoned == map[n] # None /\ Abandoned(map[n]) IN
    /\ n \notin restoring /\ events < MaxEvents
    /\ map[n] = None \/ abandoned
    /\ events' = events + 1
    /\ map' = [map EXCEPT ![n] = None]
    /\ restoring' = IF draining[n] = None THEN restoring \cup {n} ELSE restoring
    /\ UNCHANGED <<slots, draining, epoch, req>>

\* RestoreGuard is dropped when the copy ends.
EndRestore(n) ==
    /\ n \in restoring
    /\ restoring' = restoring \ {n}
    /\ UNCHANGED <<slots, map, draining, epoch, req, events>>

\* Another process claims the namespace.
PeerClaim(n) ==
    /\ events < MaxEvents
    /\ events' = events + 1
    /\ epoch' = [epoch EXCEPT ![n] = @ + 1]
    /\ UNCHANGED <<slots, map, draining, restoring, req>>

RequestStep(r) ==
    \/ InsertFound(r) \/ InsertRefused(r) \/ InsertFits(r) \/ InsertAtCapacity(r)
    \/ \E v \in Namespaces : InsertEvicting(r, v)
    \/ InitSlot(r) \/ Claim(r)
    \/ Quiesce(r) \/ JoinTasks(r) \/ QuiesceLock(r) \/ Forget(r)
    \/ HttpLock(r) \/ BoltLock(r) \/ CompactBasis(r) \/ CompactLock(r) \/ LockTimeout(r)
    \/ WriteDone(r) \/ Recover(r) \/ Pin(r) \/ Unpin(r)

TaskStep(i) == TaskLock(i) \/ TaskDone(i) \/ TaskRecover(i) \/ AbortLands(i)

RegNext ==
    \/ \E r \in Requests : \/ \E k \in Kinds, n \in Namespaces : Lookup(r, k, n)
                           \/ RequestStep(r) \/ ClaimFails(r) \/ RecoverFails(r) \/ Disconnect(r)
    \/ \E i \in SlotIds : TaskStep(i)
    \/ \E n \in Namespaces : BeginRestore(n) \/ EndRestore(n) \/ PeerClaim(n)

RegSpec == RegInit /\ [][RegNext]_regVars

-----------------------------------------------------------------------------
(* Properties.                                                             *)

\* A later incarnation of slot i's namespace has opened in this process.
Superseded(i) == \E j \in SlotIds : j > i /\ slots[j].ns = slots[i].ns /\ slots[j].open

\* An HTTP request holds slot i's writer mutex.
HttpHolds(i) == \E r \in Requests : slots[i].lock = r /\ req[r].kind = "http"

ClaimsThrough(i) == slots[i].open /\ slots'[i].epoch > slots[i].epoch

\* No session of this process is fenced by the process itself: once a
\* replacement of an evicted incarnation has claimed the epoch, nothing that
\* still holds the evicted one reopens it.  registry.rs 314-323 and quiesce.
SuccessorUnfenced == [][\A i \in SlotIds : ClaimsThrough(i) => ~Superseded(i)]_regVars

\* The same for HTTP writes and for the maintenance tasks alone: the retired
\* check after the mutex and quiesce keep them from reopening a superseded
\* incarnation, whatever Bolt and admin compaction do.
HttpAndTasksYield ==
    [][\A i \in SlotIds : ClaimsThrough(i) /\ (HttpHolds(i) \/ slots[i].lock = "task")
                            => ~Superseded(i)]_regVars

\* At most one incarnation of a namespace accepts writes, and a replacement
\* claims only after its predecessor is quiesced: no two unretired open slots,
\* no open slot above one whose task or HTTP writer still runs.
OneIncarnation ==
    \A i, j \in SlotIds :
        i < j /\ slots[i].open /\ slots[j].open /\ slots[i].ns = slots[j].ns
          => /\ slots[i].retired /\ slots[i].quiesced
             /\ slots[i].task \in {"gone", "aborted"}
             /\ ~HttpHolds(i)

\* While a restore copies into a namespace, nothing of this process is open,
\* opening or draining there.
RestoreAlone ==
    \A n \in restoring :
        /\ map[n] = None /\ draining[n] = None
        /\ \A i \in SlotIds : slots[i].ns = n =>
              /\ slots[i].open => slots[i].quiesced
              /\ slots[i].opener = None
        /\ \A r \in Requests : req[r].ns = n /\ req[r].pc \in {"init", "claim"}
                                 => slots[req[r].slot].open

\* The map never grows past max_namespaces, the draining map only holds
\* retired incarnations, and an unquiesced retired incarnation is in it, so
\* that a replacement finds it.
EvictedAreDraining ==
    /\ Cardinality(Mapped) <= Cap
    /\ \A i \in SlotIds : slots[i].retired /\ ~slots[i].quiesced
                            => draining[slots[i].ns] = i
=============================================================================
