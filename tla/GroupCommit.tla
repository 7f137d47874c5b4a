---------------------------- MODULE GroupCommit ----------------------------
(***************************************************************************)
(* Group commit of one namespace (namidb-server lib.rs, RFC-034): writes   *)
(* stage rows under the writer mutex, register a waiter and leave; the     *)
(* committer, a flush or a Bolt transaction commits the batch and settles  *)
(* the waiters.  Schema statements, compaction installs and statements     *)
(* that fail take the mutex without looking at the group, and what they    *)
(* recover drops the batch under its waiters.  With it, what decides the   *)
(* outcome of a failure: in-place recovery and the health it reports       *)
(* (recovery.rs), a peer that claims the namespace, and the eviction that  *)
(* stops the committer.                                                    *)
(*                                                                         *)
(* A section under the mutex is one action except where it awaits the      *)
(* store.  A row is the write that staged it and its LSN; the store is the *)
(* set of durable rows, their highest LSN and the epoch.  What a commit    *)
(* does request by request is module ManifestCommit's subject.             *)
(***************************************************************************)
EXTENDS Naturals, FiniteSets, FiniteSetsExt

CONSTANTS Writes,       \* grouped writes (HTTP or Bolt auto-commit)
          BoltWrites,   \* those of them that come over Bolt
          Policies,     \* fence policies to consider
          ProbedWrites, \* bound: those of them sent where the maintenance loop
                        \* with its read-fence probe is on
          MaxTrouble,   \* bound: peer claims, failed store requests, reopens
          MaxTx,        \* bound: explicit transactions
          MaxLsns       \* bound: LSNs handed out

TxWrite == "tx"

\* Who commits the group first: the committer, a flush, an explicit transaction.
Settlers == {"committer", "flush", "tx"}

\* Who publishes a manifest of its own beside the batch: a schema statement over
\* HTTP or over Bolt, the install of a compaction.
Installers == {"ddl", "bolt", "install"}

\* "stmt" is a failed statement that recovers the session.
Holders == {"free", "committer", "flush", "tx", "ddl", "bolt", "install", "stmt"}

ASSUME GroupAssumption ==
    /\ MaxTrouble \in Nat /\ MaxTx \in Nat /\ MaxLsns \in Nat
    /\ TxWrite \notin Writes /\ BoltWrites \subseteq Writes /\ ProbedWrites \subseteq Writes
    /\ Policies \subseteq {"steal", "yield"}

VARIABLES
    pending,    \* staged rows: [w, lsn]
    session,    \* next_lsn, durable_lsn, dropped_batches, epoch, poisoned; and
                \* behind: the store holds a body above the manifest it stands on
    waiters,    \* GroupCommit.waiters: [w, lsn, dropped]
    answer,     \* write -> what its client was told so far
    notified,   \* the committer's Notify permit
    committer,  \* the committer task
    mutex,      \* who holds the writer mutex across an await
    phase,      \* what that holder waits for
    store,      \* durable rows' writes, highest LSN, epoch, who claimed it last
    published,  \* the SnapshotCell: visible writes and the epoch
    health,     \* WriterHealth: degraded reason and the yielded latch; masked,
                \* history: a probe has replaced a commit failure's reason by
                \* epochs it had loaded before the last reopen
    probe,      \* the read-fence probe: whether the maintenance loop is on, and
                \* the epochs it has loaded, 0 before
    policy,     \* FencePolicy
    evicted,    \* the registry has evicted this incarnation
    trouble, txs,
    wrote       \* history: the writes that staged a row

grpVars == <<pending, session, waiters, answer, notified, committer, mutex, phase,
             store, published, health, probe, policy, evicted, trouble, txs, wrote>>

Rows == [w: Writes \cup {TxWrite}, lsn: 1..MaxLsns]

\* What a client has been told: nothing yet, Ok, GROUP_ROWS_DROPPED, or an
\* error that promises nothing (its statement failed, the group's shared error,
\* the coordinator stopped, outcome unknown at the deadline).
Answers == {"idle", "waiting", "ok", "lost", "error"}


\* What the group sees of the writer session.
Session == [next: 1..(MaxLsns + 1), durable: 0..MaxLsns, dropped: Nat, epoch: Nat,
            poisoned: BOOLEAN, behind: BOOLEAN]

\* One type invariant: the fields of GroupCommit, of the session state it
\* reads and of WriterHealth keep their shape, and staged rows lie between the
\* durable watermark and the next LSN, across reopens on a store that moved.
GrpTypeOK ==
    /\ pending \subseteq Rows
    /\ session \in Session
    /\ waiters \subseteq [w: Writes, lsn: 1..MaxLsns, dropped: Nat]
    /\ answer \in [Writes -> Answers]
    /\ notified \in BOOLEAN
    /\ committer \in {"wait", "window", "locked", "gone"}
    /\ mutex \in Holders
    /\ phase \in {"none", "commit", "recover", "reopen", "flush", "tx", "seal", "ddl"}
    /\ store.writes \subseteq Writes \cup {TxWrite}
    /\ published.writes \subseteq Writes \cup {TxWrite}
    /\ health \in [reason: {"none", "probe", "writer"}, yielded: BOOLEAN, masked: BOOLEAN]
    /\ probe \in [on: BOOLEAN, observed: Nat, local: Nat]
    /\ policy \in Policies
    /\ session.durable < session.next
    /\ \A row \in pending : session.durable < row.lsn /\ row.lsn < session.next

GrpInit ==
    /\ pending = {}
    /\ session = [next |-> 1, durable |-> 0, dropped |-> 0, epoch |-> 1, poisoned |-> FALSE,
                 behind |-> FALSE]
    /\ waiters = {}
    /\ answer = [w \in Writes |-> "idle"]
    /\ notified = FALSE
    /\ committer = "wait"
    /\ mutex = "free" /\ phase = "none"
    /\ store = [writes |-> {}, lsn |-> 0, epoch |-> 1, owner |-> "us"]
    /\ published = [writes |-> {}, epoch |-> 1]
    /\ health = [reason |-> "none", yielded |-> FALSE, masked |-> FALSE]
    /\ \E on \in BOOLEAN : probe = [on |-> on, observed |-> 0, local |-> 0]
    /\ policy \in Policies
    /\ evicted = FALSE
    /\ trouble = 0 /\ txs = 0
    /\ wrote = {}

-----------------------------------------------------------------------------
(* Waiters.                                                                *)

\* Bound: transactions and troubles together.
InBudget == trouble + txs < MaxTrouble + MaxTx

\* staged_last_lsn, for a nonempty batch.
StagedLastLsn == Max({row.lsn : row \in pending})

\* Mutant: a waiter is judged by its LSN alone.
SettledByLsn(x, s) == IF x.lsn <= s.durable THEN "ok" ELSE "waiting"

\* GroupCommit::settle against a session s: dropped_batches has moved on (the
\* rows are gone), the durable watermark covers the LSN, or the waiter stays.
SettledAs(x, s) == CASE x.dropped # s.dropped -> "lost"
                     [] x.dropped = s.dropped /\ x.lsn <= s.durable -> "ok"
                     [] OTHER -> "waiting"

\* What the clients are told when each waiter x is sent told[x]; an answer to a
\* client that has already left goes nowhere.
Tell(told) ==
    [w \in Writes |-> IF answer[w] = "waiting" /\ \E x \in DOMAIN told : x.w = w
                      THEN told[CHOOSE x \in DOMAIN told : x.w = w] ELSE answer[w]]

Settle(s) ==
    /\ answer' = Tell([x \in waiters |-> SettledAs(x, s)])
    /\ waiters' = {x \in waiters : SettledAs(x, s) = "waiting"}

\* GroupCommit::wake_all_err.
WakeAllErr == /\ answer' = Tell([x \in waiters |-> "error"])
              /\ waiters' = {}

\* discard_batch: a batch that held rows is counted as dropped.
Discarded(s) == [s EXCEPT !.dropped = IF pending = {} THEN @ ELSE @ + 1]

\* A successful reopen of session s on store st: next epoch, LSNs and durable
\* watermark from the store, poison cleared, dropped_batches carried over + 1.
Reopened(s, st) == [next |-> st.lsn + 1, durable |-> st.lsn, dropped |-> s.dropped + 1,
                    epoch |-> st.epoch + 1, poisoned |-> FALSE, behind |-> FALSE]

Claimed(st) == [st EXCEPT !.epoch = @ + 1, !.owner = "us"]

\* The store after it has taken the pending rows.
Sealed == [store EXCEPT !.writes = @ \cup {row.w : row \in pending}, !.lsn = StagedLastLsn]

\* SnapshotCell::store of the writer's owned_snapshot.
Publish(writes, epoch) == published' = [writes |-> writes, epoch |-> epoch]

-----------------------------------------------------------------------------
(* Grouped writes.                                                         *)

\* Mutant: the committer is not told.
NotifyNobody == notified' = notified

\* GroupCommit::notify_committer.
NotifyCommitter == notified' = TRUE

\* A write w takes the mutex; an evicted incarnation only lets Bolt's in.
Sent(w) ==
    /\ answer[w] = "idle" /\ mutex = "free"
    /\ evicted => w \in BoltWrites
    /\ probe.on => w \in ProbedWrites

\* run_write_section(_multi), grouped arm: stage one row, or none when the
\* statement changes nothing, register under the mutex, notify the committer.
Stage(w, rows) ==
    LET lsn == session.next
        batch == pending \cup {[w |-> w, lsn |-> lsn] : k \in 1..rows} IN
    /\ Sent(w)
    /\ rows = 1 => lsn <= MaxLsns
    /\ pending' = batch
    /\ session' = [session EXCEPT !.next = @ + rows]
    /\ IF batch = {}
       THEN /\ answer' = [answer EXCEPT ![w] = "ok"]
            /\ UNCHANGED waiters
       ELSE /\ answer' = [answer EXCEPT ![w] = "waiting"]
            /\ waiters' = waiters \cup {[w |-> w, lsn |-> Max({row.lsn : row \in batch}),
                                         dropped |-> session.dropped]}
    /\ NotifyCommitter
    /\ wrote' = IF rows = 1 THEN wrote \cup {w} ELSE wrote
    /\ UNCHANGED <<committer, mutex, phase, store, published, health, probe, policy,
                   evicted, trouble, txs>>

\* mark_degraded, and yield_namespace, which sets the latch as well.
MarkDegraded(yields) ==
    health' = [reason |-> "writer", yielded |-> health.yielded \/ yields, masked |-> FALSE]

\* recover_writer_if_needed returns without reopening: the error does not call
\* for it, or the policy is to yield and the namespace is yielded or fenced.
StaysDown(err, s) == \/ err = "other" /\ ~s.poisoned
                     \/ policy = "yield" /\ (health.yielded \/ err = "fenced")

\* The statement fails: its rows are rolled back alone, its LSNs stay used, and
\* a session found poisoned is recovered with the rows of others staged.
StageFails(w) ==
    /\ Sent(w)
    /\ session.next <= MaxLsns
    /\ session' = [session EXCEPT !.next = @ + 1]
    /\ answer' = [answer EXCEPT ![w] = "error"]
    /\ IF StaysDown("other", session)
       THEN UNCHANGED <<mutex, phase, health>>
       ELSE mutex' = "stmt" /\ phase' = "reopen" /\ MarkDegraded(FALSE)
    /\ UNCHANGED <<pending, waiters, notified, committer, store, published, probe, policy,
                   evicted, trouble, txs, wrote>>

\* bounded_group_ack: the write deadline passes; the waiter stays registered.
Deadline(w) ==
    /\ answer[w] = "waiting"
    /\ answer' = [answer EXCEPT ![w] = "error"]
    /\ UNCHANGED <<pending, session, waiters, notified, committer, mutex, phase, store,
                   published, health, probe, policy, evicted, trouble, txs, wrote>>

-----------------------------------------------------------------------------
(* The committer, and the other holders that end the batch.                *)

\* group_committer_loop: a notification opens the window.
Wake ==
    /\ committer = "wait" /\ notified
    /\ notified' = FALSE
    /\ committer' = "window"
    /\ UNCHANGED <<pending, session, waiters, answer, mutex, phase, store, published, health,
                   probe, policy, evicted, trouble, txs, wrote>>

\* After commit_group_locked succeeded, what its caller h goes on with.
Onward(h) == CASE h = "committer" -> "none" [] h = "flush" -> "flush" [] h = "tx" -> "tx"

Release(h) ==
    /\ mutex' = IF Onward(h) = "none" THEN "free" ELSE h
    /\ phase' = Onward(h)
    /\ committer' = IF h = "committer" THEN "wait" ELSE committer

\* commit_group_locked by h, to its first await: settle, and either there is
\* nothing to commit or commit_batch starts.
CommitGroup(h) ==
    /\ mutex = "free"
    /\ h = "committer" => committer = "window"
    /\ h = "flush" => ~evicted
    /\ h = "tx" => txs < MaxTx /\ InBudget
    /\ txs' = IF h = "tx" THEN txs + 1 ELSE txs
    /\ Settle(session)
    /\ IF pending = {}
       THEN Release(h)
       ELSE /\ mutex' = h /\ phase' = "commit"
            /\ committer' = IF h = "committer" THEN "locked" ELSE committer
    /\ UNCHANGED <<pending, session, notified, store, published, health, probe, policy,
                   evicted, trouble, wrote>>

\* The session stands on the store's manifest, and may commit to it.
Current == session.epoch = store.epoch /\ ~session.behind
Sound == Current /\ ~session.poisoned

\* commit_batch succeeds: publish, then settle (RFC-021), and go on.
CommitOk ==
    LET s == [session EXCEPT !.durable = StagedLastLsn] IN
    /\ phase = "commit" /\ Sound
    /\ store' = Sealed
    /\ session' = s
    /\ pending' = {}
    /\ Publish(Sealed.writes, session.epoch)
    /\ Settle(s)
    /\ Release(mutex)
    /\ UNCHANGED <<notified, health, probe, policy, evicted, trouble, txs, wrote>>

-----------------------------------------------------------------------------
(* Failures and in-place recovery.                                         *)

\* The mutex is released and its holder is done.
LetGo == /\ mutex' = "free" /\ phase' = "none"
         /\ committer' = IF mutex = "committer" THEN "wait" ELSE committer

Seals == phase \in {"commit", "seal"}

\* How what holds the mutex can fail: the error, the session afterwards, whether
\* the rows of the batch end up durable all the same (at once, or by a repair),
\* and what the failure takes of the bound.  commit_batch and flush refuse a
\* poisoned session.  A stale epoch shows as Fenced or as a lost CAS, a body
\* above the session's base as a lost CAS.  A schema statement may be wrong.
\* A store error may leave a body behind; only commit_batch poisons.
Failures ==
    LET sessions == {session} \cup IF Seals THEN {[session EXCEPT !.poisoned = TRUE]} ELSE {}
        passed == sessions \cup {[s EXCEPT !.behind = TRUE] : s \in sessions}
        overtaken == IF session.epoch # store.epoch THEN {"fenced", "cas"}
                     ELSE IF session.behind THEN {"cas"} ELSE {}
        other == [err |-> "other", s |-> session, landed |-> FALSE, cost |-> 0] IN
    IF session.poisoned /\ phase # "ddl" THEN {other}
    ELSE [err: overtaken, s: sessions, landed: {FALSE}, cost: {0}]
         \cup (IF phase = "ddl" THEN {other} ELSE {})
         \cup {f \in [err: {"other"}, s: passed, landed: BOOLEAN, cost: {1}] :
                  /\ trouble < MaxTrouble
                  /\ f.landed => Seals /\ Sound /\ f.s.behind}

\* Tasks and HTTP handlers re-check the retired flag before they recover what
\* their own request found; the batch's failure is recovered in any case.
LeavesRetired == evicted /\ phase \in {"flush", "ddl"} /\ mutex # "bolt"

\* commit_batch has failed: the batch is discarded.  Recovery is entered, or
\* passed over.  A failed group commit (phase "recover") answers its waiters
\* when it is over.
Fails(next) ==
    \E f \in Failures :
        LET s == IF Seals THEN Discarded(f.s) ELSE f.s IN
        /\ session' = s
        /\ pending' = IF Seals THEN {} ELSE pending
        /\ store' = IF f.landed THEN Sealed ELSE store
        /\ trouble' = trouble + f.cost
        /\ IF LeavesRetired \/ StaysDown(f.err, s)
           THEN /\ IF ~LeavesRetired /\ f.err = "fenced" /\ ~health.yielded
                   THEN MarkDegraded(TRUE) ELSE UNCHANGED health
                /\ LetGo
                /\ IF next = "recover" THEN WakeAllErr ELSE UNCHANGED <<answer, waiters>>
           ELSE /\ MarkDegraded(FALSE)
                /\ phase' = next
                /\ UNCHANGED <<mutex, committer, answer, waiters>>
        /\ UNCHANGED <<notified, published, probe, policy, evicted, txs, wrote>>

\* commit_group_locked: commit_batch failed.
CommitFails == phase = "commit" /\ Fails("recover")

Recovering == phase \in {"recover", "reopen"}

\* Mutant: the waiters of a failed group are left to the next settle.
RecoveredSilently == LetGo /\ UNCHANGED <<answer, waiters>>

\* The recovery loop is over: shared fate for the waiters of a failed group.
Recovered == /\ LetGo
             /\ IF phase = "recover" THEN WakeAllErr ELSE UNCHANGED <<answer, waiters>>

\* Mutant: every recovery uses the plain reopen.
MayAlwaysClaim == TRUE

\* reopen takes the namespace from anyone; reopen_unless_claimed refuses to
\* claim over an epoch newer than the session's.
MayClaim == policy = "yield" => store.epoch <= session.epoch

\* reopen, or reopen_unless_claimed when yielding, succeeds: rows still staged
\* are gone with the old session; publish, mark ok.
ReopenOk ==
    /\ Recovering /\ MayClaim
    /\ store' = Claimed(store)
    /\ session' = Reopened(session, store)
    /\ pending' = {}
    /\ Publish(store.writes, store.epoch + 1)
    /\ health' = [health EXCEPT !.reason = "none", !.masked = FALSE]
    /\ Recovered
    /\ UNCHANGED <<notified, probe, policy, evicted, trouble, txs, wrote>>

\* reopen_unless_claimed finds a newer epoch: yield_namespace.
ReopenYields ==
    /\ Recovering /\ ~MayClaim
    /\ MarkDegraded(TRUE)
    /\ Recovered
    /\ UNCHANGED <<pending, session, notified, store, published, probe, policy, evicted,
                   trouble, txs, wrote>>

\* Every attempt fails, the claim of the last one landing or not.  It takes
\* trouble to get here, so that this failure may also use a transaction's share
\* of the bounds.
ReopenFails ==
    /\ Recovering /\ MayClaim /\ InBudget
    /\ trouble' = trouble + 1
    /\ store' \in {store, Claimed(store)}
    /\ Recovered
    /\ UNCHANGED <<pending, session, notified, published, health, probe, policy, evicted, txs, wrote>>

-----------------------------------------------------------------------------
(* Flush and explicit transactions, once they have settled the group, and  *)
(* what takes the mutex beside it.                                         *)

\* A manifest without new rows is published, and with it the session's snapshot;
\* or there was nothing to do (an empty memtable, IF NOT EXISTS, a no-op merge).
Install ==
    /\ \/ Current /\ Publish(store.writes, session.epoch)
       \/ UNCHANGED published
    /\ LetGo
    /\ UNCHANGED <<pending, session, waiters, answer, notified, store, health, probe, policy,
                   evicted, trouble, txs, wrote>>

FlushOk == phase = "flush" /\ ~session.poisoned /\ Install

FlushFails == phase = "flush" /\ Fails("reopen")

\* COMMIT: the transaction's rows are the batch.
TxCommit ==
    /\ phase = "tx" /\ session.next <= MaxLsns
    /\ pending' = pending \cup {[w |-> TxWrite, lsn |-> session.next]}
    /\ session' = [session EXCEPT !.next = @ + 1]
    /\ phase' = "seal"
    /\ UNCHANGED <<waiters, answer, notified, committer, mutex, store, published, health,
                   probe, policy, evicted, trouble, txs, wrote>>

\* ROLLBACK, RESET or a closed connection: discard_batch.
TxRollback ==
    /\ phase = "tx"
    /\ \E rows \in 0..1 :
          /\ session.next + rows <= MaxLsns + 1
          /\ session' = [session EXCEPT !.next = @ + rows,
                                        !.dropped = IF rows > 0 \/ pending # {} THEN @ + 1 ELSE @]
    /\ pending' = {}
    /\ LetGo
    /\ UNCHANGED <<waiters, answer, notified, store, published, health, probe, policy,
                   evicted, trouble, txs, wrote>>

\* commit_tx: seal, publish, release; it does not look at the group.
SealOk ==
    /\ phase = "seal" /\ Sound
    /\ store' = Sealed
    /\ session' = [session EXCEPT !.durable = StagedLastLsn]
    /\ pending' = {}
    /\ Publish(Sealed.writes, session.epoch)
    /\ LetGo
    /\ UNCHANGED <<waiters, answer, notified, health, probe, policy, evicted, trouble, txs, wrote>>

SealFails == phase = "seal" /\ Fails("reopen")

\* A schema statement or the install of a compaction takes the mutex and goes to
\* the store, whatever is staged; Bolt does not look at the retired flag.
DdlStart(h) ==
    /\ mutex = "free" /\ (h # "bolt" => ~evicted)
    /\ mutex' = h /\ phase' = "ddl"
    /\ UNCHANGED <<pending, session, waiters, answer, notified, committer, store, published,
                   health, probe, policy, evicted, trouble, txs, wrote>>

DdlOk == phase = "ddl" /\ Install

DdlFails == phase = "ddl" /\ Fails("reopen")

-----------------------------------------------------------------------------
(* The read-fence probe, other processes and eviction.                     *)

\* probe_read_fence: load the store's epoch, then the published one, then
\* report both to observe_peer_epoch; commits and recoveries run in between.
ProbeLoad ==
    /\ probe.on /\ probe.observed = 0 /\ ~evicted
    /\ probe' = [probe EXCEPT !.observed = store.epoch]
    /\ UNCHANGED <<pending, session, waiters, answer, notified, committer, mutex, phase, store,
                   published, health, policy, evicted, trouble, txs, wrote>>

ProbeLocal ==
    /\ probe.observed # 0 /\ probe.local = 0
    /\ probe' = [probe EXCEPT !.local = published.epoch]
    /\ UNCHANGED <<pending, session, waiters, answer, notified, committer, mutex, phase, store,
                   published, health, policy, evicted, trouble, txs, wrote>>

\* Mutants: parity clears any reason, or none.
ObservedClearing(reason) == IF probe.observed > probe.local THEN "probe" ELSE "none"
ObservedKeeping(reason) == IF probe.observed > probe.local THEN "probe" ELSE reason

\* observe_peer_epoch: a higher epoch degrades, parity clears a probe's reason.
Observed(reason) ==
    CASE probe.observed > probe.local -> "probe"
      [] probe.observed <= probe.local /\ reason = "probe" -> "none"
      [] OTHER -> reason

\* The report is of a snapshot that has been replaced since.
Masks == /\ probe.observed > probe.local /\ probe.local # published.epoch
         /\ health.reason = "writer"

ProbeReport ==
    /\ probe.local # 0
    /\ health' = [health EXCEPT !.reason = Observed(@), !.masked = @ \/ Masks]
    /\ probe' = [probe EXCEPT !.observed = 0, !.local = 0]
    /\ UNCHANGED <<pending, session, waiters, answer, notified, committer, mutex, phase, store,
                   published, policy, evicted, trouble, txs, wrote>>

\* A peer opens the namespace and may commit rows of its own.
PeerOpens ==
    /\ trouble < MaxTrouble
    /\ trouble' = trouble + 1
    /\ \E rows \in 0..1 :
          /\ store.lsn + rows <= MaxLsns
          /\ store' = [store EXCEPT !.epoch = @ + 1, !.owner = "peer", !.lsn = @ + rows]
    /\ UNCHANGED <<pending, session, waiters, answer, notified, committer, mutex, phase,
                   published, health, probe, policy, evicted, txs, wrote>>

\* mark_retired and the cancel signal: later writes are refused, the maintenance
\* loop with its probe ends, and so will the committer.
Evict ==
    /\ ~evicted /\ evicted' = TRUE
    /\ probe' = [probe EXCEPT !.observed = 0, !.local = 0]
    /\ UNCHANGED <<pending, session, waiters, answer, notified, committer, mutex, phase, store,
                   published, health, policy, trouble, txs, wrote>>

\* The committer sees the cancel signal while it waits for a notification.
CommitterStops ==
    /\ evicted /\ committer = "wait"
    /\ committer' = "gone"
    /\ WakeAllErr
    /\ UNCHANGED <<pending, session, notified, mutex, phase, store, published, health, probe,
                   policy, evicted, trouble, txs, wrote>>

\* quiesce aborts the maintenance tasks wherever they are; what they had in
\* flight, a commit, a manifest or a reopen's claim, may have landed.
Tasks == {"committer", "flush", "install"}

Abort ==
    /\ evicted /\ (committer # "gone" \/ mutex \in Tasks)
    /\ committer' = "gone"
    /\ IF mutex \in Tasks
       THEN /\ mutex' = "free" /\ phase' = "none"
            /\ \/ UNCHANGED <<store, session>>
               \/ /\ Current /\ ~Recovering
                  /\ store' = IF phase = "commit" THEN Sealed ELSE store
                  /\ session' = [session EXCEPT !.behind = TRUE]
               \/ /\ Recovering /\ MayClaim
                  /\ store' = Claimed(store)
                  /\ UNCHANGED session
       ELSE UNCHANGED <<mutex, phase, store, session>>
    /\ UNCHANGED <<pending, waiters, answer, notified, published, health, probe, policy,
                   evicted, trouble, txs, wrote>>

CommitStep == CommitOk \/ CommitFails
ReopenStep == ReopenOk \/ ReopenYields \/ ReopenFails
FlushStep == FlushOk \/ FlushFails
SealStep == SealOk \/ SealFails
DdlStep == DdlOk \/ DdlFails
ProbeStep == ProbeLoad \/ ProbeLocal \/ ProbeReport

GrpNext ==
    \/ \E w \in Writes : \/ \E rows \in 0..1 : Stage(w, rows)
                         \/ StageFails(w) \/ Deadline(w)
    \/ Wake \/ (\E h \in Settlers : CommitGroup(h)) \/ (\E h \in Installers : DdlStart(h))
    \/ CommitStep \/ ReopenStep \/ FlushStep \/ TxCommit \/ TxRollback \/ SealStep \/ DdlStep
    \/ ProbeStep \/ PeerOpens \/ Evict \/ CommitterStops \/ Abort

GrpSpec == GrpInit /\ [][GrpNext]_grpVars

\* The committer and the probe are tasks the runtime keeps polling, a section
\* that holds the mutex runs to its end, and the mutex is a fair queue.  An open
\* transaction is ended by the session's idle timeout or lifetime limit.
GrpFairness ==
    /\ WF_grpVars(Wake) /\ SF_grpVars(CommitGroup("committer"))
    /\ WF_grpVars(CommitStep) /\ WF_grpVars(ReopenStep) /\ WF_grpVars(FlushStep)
    /\ WF_grpVars(SealStep) /\ WF_grpVars(DdlStep) /\ WF_grpVars(TxRollback) /\ WF_grpVars(ProbeStep)
    /\ WF_grpVars(Abort \/ CommitterStops)

GrpFairSpec == GrpSpec /\ GrpFairness

-----------------------------------------------------------------------------
(* Properties.                                                             *)

\* A grouped write is acknowledged only when it is durable and visible to its
\* client's next read: whoever committed the batch, and although a schema
\* statement, a compaction or a failed statement may have reopened the session
\* under the registered waiter and handed its LSN to other rows.
AckedVisible == \A w \in wrote : answer[w] = "ok" => w \in store.writes /\ w \in published.writes

\* A client told that its rows were dropped and the write can be retried is not
\* contradicted: GROUP_ROWS_DROPPED goes to the waiters whose rows a reopen
\* dropped before a commit had sent them, never to those of a failed commit,
\* whose rows may have landed or be repaired later.  Of an evicted incarnation
\* it is not claimed: its committer may have been aborted between the discard
\* and wake_all_err of a commit that landed.
LostNeverApplied ==
    ~evicted => \A w \in Writes : answer[w] = "lost" => w \notin store.writes

\* A yielded writer never reports healthy, whatever the probe has loaded before,
\* during or after the failure; nor does a poisoned one, unless a probe that
\* stalled through a reopen has put its own reason, which parity clears, in the
\* place of the commit failure's. (recovery.rs observe_peer_epoch.)
BrokenIsDegraded ==
    health.yielded \/ (session.poisoned /\ ~health.masked) => health.reason # "none"

\* Under FencePolicy::Yield this process never takes the namespace back from a
\* peer, however the fence surfaced.
YieldNeverFences ==
    [][policy = "yield" /\ store.owner = "peer" => store'.owner = "peer"]_grpVars

\* Every registered write is answered, unless its incarnation is evicted: never
\* is there, from some moment on, always one that waits. (A write registers once,
\* so this is waiting ~> answered for each.)
WaiterAnswered == []<>(evicted \/ \A w \in Writes : answer[w] # "waiting")

\* A session that stays sound is eventually reported healthy (<>[]Sound implies
\* []<>healthy): a probe whose report came after the recovery is corrected by the
\* next one.
SoundBecomesHealthy == []<>(Sound => health.reason = "none" \/ evicted)
=============================================================================
