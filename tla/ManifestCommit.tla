--------------------------- MODULE ManifestCommit ---------------------------
(***************************************************************************)
(* The commit protocol of a namidb namespace: manifest bodies              *)
(* (manifest/v<N>.json), the Create-only pointer family                    *)
(* (manifest/pointer/p<N>.json), the WAL slots and the writers that open,  *)
(* claim, repair, commit and fail over them (manifest.rs, ingest.rs,       *)
(* wal.rs, fence.rs, recovery.rs).                                         *)
(*                                                                         *)
(* Every request to the object store is one action, so that two writers    *)
(* interleave at every await point.  What is read is read from the store   *)
(* as it is at that moment, except that load_current (resolve the highest  *)
(* pointer, then GET its body) is one step here; the module PointerResolve *)
(* opens it up.                                                            *)
(*                                                                         *)
(* Data: a manifest keeps its epoch, the id of the writer that produced it *)
(* and its WAL descriptors; a descriptor is a slot number together with    *)
(* the records whose hash and last LSN it declares; a record is a client's *)
(* batch and the LSN it was given.  SSTs are left out.                 *)
(***************************************************************************)
EXTENDS Integers, Sequences, FiniteSets, FiniteSetsExt, SequencesExt

CONSTANTS
  Writers,          \* processes that open the namespace for writing
  Batches,          \* client batches, each staged once
  None,             \* an object that is absent, or no value
  MaxVersion,       \* bound: highest manifest version
  MaxSeq,           \* bound: highest WAL slot
  MaxLsn,           \* bound: highest LSN
  MaxPending,       \* bound: records in one staged batch
  MaxOpens,         \* bound: opens and reopens, over all writers
  MaxFaults,        \* bound: store errors and crashes
  MaxClaimers,      \* how many opens may be in progress at once
  MaxStalledRounds, \* MAX_STALLED_ROUNDS of claim_writer (8 in the code)
  MaxRepairPasses,  \* MAX_REPAIR_PASSES of claim_writer (4 in the code)
  PutFaults,        \* how a body or WAL PUT can fail: see Outcomes
  PtrFaults         \* how a commit's pointer PUT can fail

ASSUME BoundsAssumption ==
  /\ {MaxVersion, MaxSeq, MaxLsn, MaxPending, MaxOpens, MaxFaults, MaxClaimers,
      MaxStalledRounds, MaxRepairPasses} \subseteq Nat
  /\ PutFaults \subseteq {"landed", "lost", "late"}
  /\ PtrFaults \subseteq {"landed", "lost", "late"}

VARIABLES
  body,    \* manifest/v<N>.json: a manifest or None
  ptr,     \* versions N whose manifest/pointer/p<N>.json exists
  wal,     \* WAL slots: a sequence of records (empty: the sentinel) or None
  late,    \* PUTs whose client gave up while they were still in flight
  pc,      \* where each process is
  sess,    \* its WriterSession, or None
  claim,   \* locals of open_claiming / claim_writer / repair, or None
  txn,     \* locals of commit_batch, or None
  staged,  \* history: batches ever staged
  acked,   \* history: batches whose commit_batch returned Committed
  nacked,  \* history: batches whose last commit attempt was reported
           \* definitively absent by resolve_failed_pointer_cas
  opens, faults

store == <<body, ptr, wal>>
history == <<staged, acked, nacked>>
vars == <<store, late, pc, sess, claim, txn, history, opens, faults>>

Versions == 0..MaxVersion
Seqs == 1..MaxSeq
Owners == Writers \X (1..MaxOpens)  \* the uuid of one open
Record == [b : Batches, lsn : 1..MaxLsn]
Descriptor == [seq : Seqs, recs : Seq(Record)]
Manifest == [epoch : Nat, owner : Owners, wal : Seq(Descriptor)]
Session ==
  [ver : Versions, man : Manifest, epoch : Nat, owner : Owners, next_lsn : 1..(MaxLsn + 1),
   seq : 1..(MaxSeq + 1), pending : Seq(Record), poisoned : BOOLEAN,
   memtable : SUBSET Record]
Claim ==
  [id : Owners, mine : Nat \cup {None}, ver : Versions, man : Manifest \cup {None},
   stalled : Nat, passes : Nat, last : Versions \cup {None},
   orphan : Manifest \cup {None}]
Txn ==
  [seq : Seqs, next : Manifest, wal : {"todo", "ok", "exists", "err"},
   body : {"todo", "ok", "exists", "err", "fenced", "cas"}, retry : BOOLEAN]
Request ==
  [obj : {"body"}, at : Versions, val : Manifest]
    \cup [obj : {"wal"}, at : Seqs, val : Seq(Record)]
    \cup [obj : {"ptr"}, at : Versions, val : {None}]

ASSUME NoneAssumption ==
  /\ None \notin Manifest /\ None \notin Session /\ None \notin Claim /\ None \notin Txn
  /\ None \notin Seq(Record) /\ None \notin Nat

ClaimPcs == {"load", "boot_body", "boot_ptr", "claim", "claim_body",
             "claim_ptr", "claim_lost", "repair_head", "repair_get",
             "repair_wal", "repair_fence", "repair_pub", "repair_del",
             "recover"}
CommitPcs == {"puts", "ptr", "ptr_lost", "resolve", "del_body", "del_wal",
              "reseq"}
Labels == {"down", "open"} \cup ClaimPcs \cup CommitPcs

-----------------------------------------------------------------------------
(* Store primitives.                                                       *)

\* WalSegment::last_lsn; the empty sentinel has last_lsn 0.
last_lsn(recs) == IF recs = <<>> THEN 0 ELSE recs[Len(recs)].lsn

BatchesOf(recs) == {recs[i].b : i \in DOMAIN recs}
RecordsOf(man) == UNION {{man.wal[i].recs[j] : j \in DOMAIN man.wal[i].recs} :
                           i \in DOMAIN man.wal}

\* The version load_pointer resolves, and whether load_current succeeds.
Top == Max(ptr)
Loadable == ptr # {} /\ body[Top] # None
Current == body[Top]

\* list_segments: the next slot above every segment visible.
Occupied == {s \in Seqs : wal[s] # None}
next_seq(default) == IF Occupied = {} THEN default ELSE Max(Occupied) + 1

\* How a conditional PUT on a free key can end: "ok"; "landed", with the
\* response lost; "lost" before it reached the store; or "late", the client
\* gave up and the request is still in flight.
Outcomes(kinds) == {"ok"} \cup (IF faults < MaxFaults THEN kinds ELSE {})
Lands(out) == out \in {"ok", "landed"}
Charge(out) == faults' = IF out = "ok" THEN faults ELSE faults + 1
InFlight(out, req) == late' = IF out = "late" THEN late \cup {req} ELSE late

\* The bodies once an orphan is deleted: DELETE is unconditional.
BodyKept(v) == body                      \* mutant
BodyDeleted(v) == [body EXCEPT ![v] = None]

\* Manifest::next_version and put_body's check: exactly base + 1.
version_skipped(v) == v + 2              \* mutant
next_version(v) == v + 1

Goto(w, label) == pc' = [pc EXCEPT ![w] = label]

-----------------------------------------------------------------------------
(* Opening a session: bootstrap, claim, repair, recover.                   *)

Claiming == {w \in Writers : pc[w] \in ClaimPcs}

NewClaim(w, mine) == [id |-> <<w, opens + 1>>, mine |-> mine, ver |-> 0, man |-> None,
                      stalled |-> 0, passes |-> 0, last |-> None, orphan |-> None]

StartOpen(w, mine) ==
  /\ opens < MaxOpens
  /\ Cardinality(Claiming) < MaxClaimers
  /\ opens' = opens + 1
  /\ claim' = [claim EXCEPT ![w] = NewClaim(w, mine)]
  /\ Goto(w, "load")
  /\ UNCHANGED <<store, late, sess, txn, history, faults>>

\* WriterSession::open by a fresh process.
Open(w) == pc[w] = "down" /\ StartOpen(w, None)

\* WriterSession::reopen, and reopen_unless_claimed when it yields to a peer.
Reopen(w) == pc[w] = "open" /\ \E mine \in {None, sess[w].epoch} : StartOpen(w, mine)

FailOpenUnwound(w) ==                    \* mutant: as if no session were left
  /\ claim' = [claim EXCEPT ![w] = None]
  /\ Goto(w, "down")

\* The open fails: a reopen leaves the session it started from untouched.
FailOpen(w) ==
  /\ claim' = [claim EXCEPT ![w] = None]
  /\ Goto(w, IF sess[w] = None THEN "down" ELSE "open")

\* open_claiming: NotFound means an empty namespace.
LoadForOpen(w) ==
  /\ pc[w] = "load"
  /\ Goto(w, IF Loadable THEN "claim" ELSE "boot_body")
  /\ UNCHANGED <<store, late, sess, claim, txn, history, opens, faults>>

\* Manifest::empty.
empty(id) == [epoch |-> 0, owner |-> id, wal |-> <<>>]

\* What bootstrap goes on with once v0 exists: its own empty body, or the one
\* a half-done bootstrap left there.
BootAssumedEmpty(id) == empty(id)        \* mutant
BootManifest(id) == IF body[0] = None THEN empty(id) ELSE body[0]

\* bootstrap: PUT v0, tolerating one that exists.
BootBody(w) ==
  /\ pc[w] = "boot_body"
  /\ body' = IF body[0] = None THEN [body EXCEPT ![0] = empty(claim[w].id)] ELSE body
  /\ claim' = [claim EXCEPT ![w].man = BootManifest(claim[w].id)]
  /\ Goto(w, "boot_ptr")
  /\ UNCHANGED <<ptr, wal, late, sess, txn, history, opens, faults>>

\* bootstrap: an existing p0 is an in-use namespace, and the open fails.
BootPtr(w) ==
  /\ pc[w] = "boot_ptr"
  /\ ptr' = ptr \cup {0}
  /\ IF 0 \in ptr THEN FailOpen(w)
     ELSE Goto(w, "recover") /\ UNCHANGED claim
  /\ UNCHANGED <<body, wal, late, sess, txn, history, opens, faults>>

\* claim_writer_unless_newer: the load at the top of the loop.
ClaimLoad(w) ==
  LET mine == claim[w].mine IN
  /\ pc[w] = "claim"
  /\ IF ~Loadable \/ (mine # None /\ Current.epoch > mine)
     THEN FailOpen(w)
     ELSE /\ claim' = [claim EXCEPT ![w] = [@ EXCEPT !.ver = Top, !.man = Current]]
          /\ Goto(w, "claim_body")
  /\ UNCHANGED <<store, late, sess, txn, history, opens, faults>>

ClaimedSameEpoch(c) == [c.man EXCEPT !.owner = c.id]   \* mutant

\* The manifest a claim publishes: the base with the next epoch, under a
\* writer id minted for this round, so a body found in its place is not ours.
Claimed(c) == [c.man EXCEPT !.epoch = @ + 1, !.owner = c.id]

ClaimBody(w) ==
  LET c == claim[w]
      v == next_version(c.ver) IN
  /\ pc[w] = "claim_body"
  /\ v <= MaxVersion
  /\ UNCHANGED <<ptr, wal, sess, txn, history, opens>>
  /\ \/ /\ body[v] # None
        /\ Goto(w, "claim_lost")
        /\ UNCHANGED <<body, late, claim, faults>>
     \/ /\ body[v] = None
        /\ \E out \in Outcomes(PutFaults) :
             /\ body' = IF Lands(out) THEN [body EXCEPT ![v] = Claimed(c)] ELSE body
             /\ InFlight(out, [obj |-> "body", at |-> v, val |-> Claimed(c)])
             /\ Charge(out)
             /\ IF out = "ok" THEN Goto(w, "claim_ptr") /\ UNCHANGED claim
                ELSE FailOpen(w)

\* A pointer that lands without its response, like a failed advisory write
\* after it, ends the open although the epoch has been taken.
ClaimPtr(w) ==
  LET c == claim[w]
      v == next_version(c.ver) IN
  /\ pc[w] = "claim_ptr"
  /\ UNCHANGED <<body, wal, sess, txn, history, opens>>
  /\ \/ /\ v \in ptr
        /\ Goto(w, "claim_lost")
        /\ UNCHANGED <<ptr, late, claim, faults>>
     \/ /\ v \notin ptr
        /\ \E out \in Outcomes(PutFaults) :
             /\ ptr' = IF Lands(out) THEN ptr \cup {v} ELSE ptr
             /\ InFlight(out, [obj |-> "ptr", at |-> v, val |-> None])
             /\ Charge(out)
             /\ IF out = "ok"
                THEN /\ Goto(w, "recover")
                     /\ claim' = [claim EXCEPT ![w] = [c EXCEPT !.ver = v, !.man = Claimed(c)]]
                ELSE FailOpen(w)

\* AlreadyExists: reload; fenced by a newer epoch, or a CAS loss, counted as
\* a stall when the pointer has not moved since the last one.
ClaimLost(w) ==
  LET c == claim[w]
      stall == c.last = c.ver
      repair == stall /\ c.stalled + 1 >= MaxStalledRounds
      exhausted == repair /\ c.passes >= MaxRepairPasses
      again == Loadable /\ Current.epoch <= c.man.epoch /\ ~exhausted IN
  /\ pc[w] = "claim_lost"
  /\ UNCHANGED <<store, late, sess, txn, history, opens, faults>>
  /\ \/ /\ ~again
        /\ FailOpen(w)
     \/ /\ again
        /\ claim' = [claim EXCEPT ![w] =
                      [c EXCEPT !.last = c.ver,
                                !.stalled = IF stall /\ ~repair THEN @ + 1 ELSE 0,
                                !.passes = IF repair THEN @ + 1 ELSE @]]
        /\ Goto(w, IF repair THEN "repair_head" ELSE "claim")

\* repair_stalled_commit: the pointer may have landed meanwhile.
RepairHead(w) ==
  /\ pc[w] = "repair_head"
  /\ Goto(w, IF next_version(claim[w].ver) \in ptr THEN "claim" ELSE "repair_get")
  /\ UNCHANGED <<store, late, sess, claim, txn, history, opens, faults>>

\* The segments an orphan adds over the base.  A commit adds one, a claim
\* none, so there is at most one slot to judge.
Added(c) == {i \in DOMAIN c.orphan.wal :
               \A j \in DOMAIN c.man.wal : c.man.wal[j].seq # c.orphan.wal[i].seq}
AddedSegment(c) == c.orphan.wal[CHOOSE i \in Added(c) : TRUE]

\* orphan_ready_to_publish: the orphan continues the base's lineage.
ExtendsNewerEpoch(orphan, base) == orphan.epoch > base.epoch   \* mutant
ExtendsLineage(orphan, base) == orphan.epoch >= base.epoch

\* GET the orphan; one that does not extend the lineage is deleted.
RepairGet(w) ==
  LET c == [claim[w] EXCEPT !.orphan = body[next_version(claim[w].ver)]] IN
  /\ pc[w] = "repair_get"
  /\ claim' = [claim EXCEPT ![w] = c]
  /\ Goto(w, IF c.orphan = None THEN "claim"
             ELSE IF ~ExtendsLineage(c.orphan, c.man) THEN "repair_del"
             ELSE IF Added(c) = {} THEN "repair_pub" ELSE "repair_wal")
  /\ UNCHANGED <<store, late, sess, txn, history, opens, faults>>

\* wal_slot_matches: the slot's last LSN and hash are the descriptor's, and it
\* is not the sentinel.
SlotLsnMatches(slot, seg) == slot # <<>> /\ last_lsn(slot) = last_lsn(seg.recs)  \* mutant
SlotMatches(slot, seg) == slot # <<>> /\ slot = seg.recs

\* wal_slot_matches: GET the slot and judge it.
RepairWal(w) ==
  LET seg == AddedSegment(claim[w]) IN
  /\ pc[w] = "repair_wal"
  /\ Goto(w, IF wal[seg.seq] = None THEN "repair_fence"
             ELSE IF SlotMatches(wal[seg.seq], seg) THEN "repair_pub"
             ELSE "repair_del")
  /\ UNCHANGED <<store, late, sess, claim, txn, history, opens, faults>>

\* wal_slot_matches: fence the free slot with an empty segment, or re-judge
\* it when the interrupted commit's own PUT came first.
RepairFence(w) ==
  LET s == AddedSegment(claim[w]).seq IN
  /\ pc[w] = "repair_fence"
  /\ wal' = IF wal[s] = None THEN [wal EXCEPT ![s] = <<>>] ELSE wal
  /\ Goto(w, IF wal[s] = None THEN "repair_del" ELSE "repair_wal")
  /\ UNCHANGED <<body, ptr, late, sess, claim, txn, history, opens, faults>>

\* Adopt: publish the pointer (whoever publishes it first), claim again.
RepairPub(w) ==
  /\ pc[w] = "repair_pub"
  /\ ptr' = ptr \cup {next_version(claim[w].ver)}
  /\ claim' = [claim EXCEPT ![w].orphan = None]
  /\ Goto(w, "claim")
  /\ UNCHANGED <<body, wal, late, sess, txn, history, opens, faults>>

\* Delete whatever is at the orphan's key by now.
RepairDel(w) ==
  /\ pc[w] = "repair_del"
  /\ body' = BodyDeleted(next_version(claim[w].ver))
  /\ claim' = [claim EXCEPT ![w].orphan = None]
  /\ Goto(w, "claim")
  /\ UNCHANGED <<ptr, wal, late, sess, txn, history, opens, faults>>

\* recover_memtable_with_snapshot without a snapshot: every segment the
\* manifest names must be there with the declared last LSN.
Recoverable(man) ==
  \A i \in DOMAIN man.wal :
    LET slot == wal[man.wal[i].seq] IN
    slot # None /\ last_lsn(slot) = last_lsn(man.wal[i].recs)

Replayed(man) ==
  UNION {LET slot == wal[man.wal[i].seq] IN {slot[j] : j \in DOMAIN slot} :
           i \in DOMAIN man.wal}

\* The first LSN of a session: above every recovered one.
first_lsn_fixed(mem) == 1                \* mutant
first_lsn(mem) == Max({0} \cup {r.lsn : r \in mem}) + 1

\* The rest of open_claiming: replay the WAL, pick the first LSN and slot.
Recover(w) ==
  LET c == claim[w]
      mem == Replayed(c.man) IN
  /\ pc[w] = "recover"
  /\ IF ~Recoverable(c.man)
     THEN FailOpen(w) /\ UNCHANGED sess
     ELSE /\ sess' = [sess EXCEPT ![w] =
               [ver |-> c.ver, man |-> c.man, epoch |-> c.man.epoch, owner |-> c.id,
                next_lsn |-> first_lsn(mem),
                seq |-> next_seq(1), pending |-> <<>>, poisoned |-> FALSE,
                memtable |-> mem]]
          /\ claim' = [claim EXCEPT ![w] = None]
          /\ Goto(w, "open")
  /\ UNCHANGED <<store, late, txn, history, opens, faults>>

\* Any request of an open can fail outright: the open returns the error.
OpenFault(w) ==
  /\ pc[w] \in ClaimPcs /\ faults < MaxFaults
  /\ FailOpen(w)
  /\ faults' = faults + 1
  /\ UNCHANGED <<store, late, sess, txn, history, opens>>

-----------------------------------------------------------------------------
(* Staging and committing a batch.                                         *)

\* upsert_* / tombstone_*: alloc_lsn and append_pending.
Stage(w, b) ==
  LET s == sess[w] IN
  /\ pc[w] = "open" /\ b \notin staged
  /\ Len(s.pending) < MaxPending /\ s.next_lsn <= MaxLsn
  /\ staged' = staged \cup {b}
  /\ sess' = [sess EXCEPT ![w] =
       [s EXCEPT !.pending = Append(@, [b |-> b, lsn |-> s.next_lsn]), !.next_lsn = @ + 1]]
  /\ UNCHANGED <<store, late, pc, claim, txn, acked, nacked, opens, faults>>

\* rollback_staged_request to a mark, discard_batch when the mark is 0: the
\* slot number and the LSN counter stay where they are.
Rollback(w) ==
  /\ pc[w] = "open"
  /\ \E mark \in 0..(Len(sess[w].pending) - 1) :
       sess' = [sess EXCEPT ![w].pending = SubSeq(@, 1, mark)]
  /\ UNCHANGED <<store, late, pc, claim, txn, history, opens, faults>>

build_next_dropping(s, seq) ==           \* mutant: forgets the base's segments
  [epoch |-> s.man.epoch, owner |-> s.owner, wal |-> <<[seq |-> seq, recs |-> s.pending]>>]

\* The next manifest: the base's segments and the pending one.
build_next(s, seq) ==
  [epoch |-> s.man.epoch, owner |-> s.owner,
   wal |-> Append(s.man.wal, [seq |-> seq, recs |-> s.pending])]

NewTxn(s, seq, retry) ==
  [seq |-> seq, next |-> build_next(s, seq), wal |-> "todo", body |-> "todo",
   retry |-> retry]

\* commit_batch up to the pipelined PUTs.
StartCommit(w) ==
  LET s == sess[w] IN
  /\ pc[w] = "open" /\ ~s.poisoned /\ s.pending # <<>>
  /\ s.ver < MaxVersion /\ s.seq <= MaxSeq
  /\ txn' = [txn EXCEPT ![w] = NewTxn(s, s.seq, FALSE)]
  /\ nacked' = nacked \ BatchesOf(s.pending)
  /\ Goto(w, "puts")
  /\ UNCHANGED <<store, late, sess, claim, staged, acked, opens, faults>>

\* append_segment.  The body-first retry sends it only after the body PUT.
PutWal(w) ==
  LET t == txn[w]
      recs == sess[w].pending IN
  /\ pc[w] = "puts" /\ t.wal = "todo"
  /\ t.retry => t.body = "ok"
  /\ UNCHANGED <<body, ptr, pc, sess, claim, history, opens>>
  /\ \/ /\ wal[t.seq] # None
        /\ txn' = [txn EXCEPT ![w].wal = "exists"]
        /\ UNCHANGED <<wal, late, faults>>
     \/ /\ wal[t.seq] = None
        /\ \E out \in Outcomes(PutFaults) :
             /\ wal' = IF Lands(out) THEN [wal EXCEPT ![t.seq] = recs] ELSE wal
             /\ InFlight(out, [obj |-> "wal", at |-> t.seq, val |-> recs])
             /\ Charge(out)
             /\ txn' = [txn EXCEPT ![w].wal = IF out = "ok" THEN "ok" ELSE "err"]

\* put_body: the conditional PUT.
PutBody(w) ==
  LET t == txn[w]
      v == next_version(sess[w].ver) IN
  /\ pc[w] = "puts" /\ t.body = "todo"
  /\ UNCHANGED <<ptr, wal, pc, sess, claim, history, opens>>
  /\ \/ /\ body[v] # None
        /\ txn' = [txn EXCEPT ![w].body = "exists"]
        /\ UNCHANGED <<body, late, faults>>
     \/ /\ body[v] = None
        /\ \E out \in Outcomes(PutFaults) :
             /\ body' = IF Lands(out) THEN [body EXCEPT ![v] = t.next] ELSE body
             /\ InFlight(out, [obj |-> "body", at |-> v, val |-> t.next])
             /\ Charge(out)
             /\ txn' = [txn EXCEPT ![w].body = IF out = "ok" THEN "ok" ELSE "err"]

\* existing_body_is_ours: equal in every field but created_at.
BodySameEpoch(w) ==                      \* mutant
  LET found == body[next_version(sess[w].ver)] IN
  found # None /\ found.epoch = txn[w].next.epoch
BodyIsOurs(w) == body[next_version(sess[w].ver)] = txn[w].next

\* put_body after AlreadyExists: our own body from an earlier attempt is
\* adopted; otherwise reload to tell a fence from a lost race.
BodyExists(w) ==
  /\ pc[w] = "puts" /\ txn[w].body = "exists"
  /\ txn' = [txn EXCEPT ![w].body =
               IF BodyIsOurs(w) THEN "ok"
               ELSE IF ~Loadable THEN "err"
               ELSE IF Current.epoch > sess[w].epoch THEN "fenced" ELSE "cas"]
  /\ UNCHANGED <<store, late, pc, sess, claim, history, opens, faults>>

\* commit_batch returns an error.  The batch stays pending; a failure of the
\* body-first retry, or a terminal one, poisons the session.
FailCommit(w, terminal) ==
  /\ sess' = [sess EXCEPT ![w].poisoned = @ \/ terminal \/ txn[w].retry]
  /\ txn' = [txn EXCEPT ![w] = None]
  /\ Goto(w, "open")

\* commit_batch after the pointer is published: drain, ACK, advance.
SealCommit(w, man) ==
  LET s == sess[w] IN
  /\ sess' = [sess EXCEPT ![w] =
       [s EXCEPT !.ver = @ + 1, !.man = man, !.seq = txn[w].seq + 1, !.pending = <<>>,
                 !.memtable = @ \cup {s.pending[i] : i \in DOMAIN s.pending}]]
  /\ acked' = acked \cup BatchesOf(s.pending)
  /\ txn' = [txn EXCEPT ![w] = None]
  /\ Goto(w, "open")
  /\ UNCHANGED <<staged, nacked>>

\* Both results of the pipelined PUTs, or of the body-first retry, are in.
JoinPuts(w) ==
  LET t == txn[w] IN
  /\ pc[w] = "puts" /\ t.body \notin {"todo", "exists"}
  /\ t.wal # "todo" \/ (t.retry /\ t.body # "ok")
  /\ UNCHANGED <<store, late, claim, history, opens, faults>>
  /\ \/ /\ t.wal = "ok" /\ t.body = "ok"
        /\ Goto(w, "ptr") /\ UNCHANGED <<sess, txn>>
     \/ /\ t.wal = "exists" /\ ~t.retry
        /\ Goto(w, "reseq") /\ UNCHANGED <<sess, txn>>
     \/ /\ t.wal \in {"todo", "err"} \/ (t.wal = "ok" /\ t.body # "ok")
          \/ (t.wal = "exists" /\ t.retry)
        /\ FailCommit(w, FALSE)

\* The orphan-WAL retry: a slot above every one listed, body first.
Reseq(w) ==
  LET s == sess[w]
      fresh == next_seq(s.seq + 1) IN
  /\ pc[w] = "reseq" /\ fresh <= MaxSeq
  /\ txn' = [txn EXCEPT ![w] = NewTxn(s, fresh, TRUE)]
  /\ Goto(w, "puts")
  /\ UNCHANGED <<store, late, sess, claim, history, opens, faults>>

\* cancel::check before the retry: a deadline fails the commit here.
CancelRetry(w) ==
  /\ pc[w] = "reseq"
  /\ FailCommit(w, FALSE)
  /\ UNCHANGED <<store, late, claim, history, opens, faults>>

\* cas_pointer: the linearization point.
CasPointer(w) ==
  LET v == next_version(sess[w].ver) IN
  /\ pc[w] = "ptr"
  /\ UNCHANGED <<body, wal, claim, opens>>
  /\ \/ /\ v \in ptr
        /\ Goto(w, "ptr_lost")
        /\ UNCHANGED <<ptr, late, sess, txn, history, faults>>
     \/ /\ v \notin ptr
        /\ \E out \in Outcomes(PtrFaults) :
             /\ ptr' = IF Lands(out) THEN ptr \cup {v} ELSE ptr
             /\ InFlight(out, [obj |-> "ptr", at |-> v, val |-> None])
             /\ Charge(out)
             /\ IF out = "ok" THEN SealCommit(w, txn[w].next)
                ELSE Goto(w, "resolve") /\ UNCHANGED <<sess, txn, history>>

\* cas_pointer after AlreadyExists: Fenced and ManifestCommitCas are
\* returned as they are, a failed reload (no body, or a store error) goes to the resolver.
PointerExists(w) ==
  /\ pc[w] = "ptr_lost"
  /\ UNCHANGED <<store, late, claim, history, opens>>
  /\ \/ /\ Loadable
        /\ FailCommit(w, FALSE) /\ UNCHANGED faults
     \/ /\ Loadable => faults < MaxFaults
        /\ faults' = IF Loadable THEN faults + 1 ELSE faults
        /\ Goto(w, "resolve") /\ UNCHANGED <<sess, txn>>

\* resolve_failed_pointer_cas: the durable manifest is this very commit's.
ProvablyOurs(s, t) ==
  /\ Top = next_version(s.ver)
  /\ Current.owner = s.owner
  /\ \E i \in DOMAIN Current.wal : Current.wal[i] = [seq |-> t.seq, recs |-> s.pending]

ResolveBlindly(w) ==                     \* mutant: takes the error for a failure
  /\ pc[w] = "resolve"
  /\ Goto(w, "del_body")
  /\ UNCHANGED <<store, late, sess, claim, txn, history, opens, faults>>

\* Re-read the pointer and decide.
ResolveCas(w) ==
  LET s == sess[w] IN
  /\ pc[w] = "resolve"
  /\ UNCHANGED <<store, late, claim, opens>>
  /\ \/ /\ faults < MaxFaults                      \* the re-read fails
        /\ faults' = faults + 1
        /\ FailCommit(w, TRUE) /\ UNCHANGED history
     \/ /\ UNCHANGED faults
        /\ IF ~Loadable \/ Current.epoch > s.epoch
           THEN FailCommit(w, TRUE) /\ UNCHANGED history
           ELSE IF ProvablyOurs(s, txn[w]) THEN SealCommit(w, Current)
           ELSE IF Top >= next_version(s.ver) THEN FailCommit(w, FALSE) /\ UNCHANGED history
           ELSE Goto(w, "del_body") /\ UNCHANGED <<sess, txn, history>>

LeaveOrphan(w) ==                        \* mutant: rejects, and leaves the orphans to a sweep
  /\ pc[w] = "del_body"
  /\ nacked' = nacked \cup BatchesOf(sess[w].pending)
  /\ FailCommit(w, FALSE)
  /\ UNCHANGED <<store, late, claim, staged, acked, opens, faults>>

\* Definitively absent: delete the orphan body, then the WAL segment; a
\* failed DELETE poisons the session.
DeleteOrphanBody(w) ==
  /\ pc[w] = "del_body"
  /\ UNCHANGED <<ptr, wal, late, claim, history, opens>>
  /\ \/ /\ body' = BodyDeleted(next_version(sess[w].ver))
        /\ Goto(w, "del_wal")
        /\ UNCHANGED <<sess, txn, faults>>
     \/ /\ faults < MaxFaults
        /\ faults' = faults + 1
        /\ FailCommit(w, TRUE) /\ UNCHANGED body

DeleteOrphanWal(w) ==
  /\ pc[w] = "del_wal"
  /\ UNCHANGED <<body, ptr, late, claim, staged, acked, opens>>
  /\ \/ /\ wal' = [wal EXCEPT ![txn[w].seq] = None]
        /\ nacked' = nacked \cup BatchesOf(sess[w].pending)
        /\ FailCommit(w, FALSE) /\ UNCHANGED faults
     \/ /\ faults < MaxFaults
        /\ faults' = faults + 1
        /\ FailCommit(w, TRUE) /\ UNCHANGED <<wal, nacked>>

-----------------------------------------------------------------------------
(* The environment: a process dies; a PUT its client gave up on arrives.   *)

Crash(w) ==
  /\ pc[w] # "down" /\ faults < MaxFaults
  /\ faults' = faults + 1
  /\ Goto(w, "down")
  /\ sess' = [sess EXCEPT ![w] = None]
  /\ claim' = [claim EXCEPT ![w] = None]
  /\ txn' = [txn EXCEPT ![w] = None]
  /\ UNCHANGED <<store, late, history, opens>>

LatePut ==
  \E req \in late :
    /\ late' = late \ {req}
    /\ body' = IF req.obj = "body" /\ body[req.at] = None
               THEN [body EXCEPT ![req.at] = req.val] ELSE body
    /\ wal' = IF req.obj = "wal" /\ wal[req.at] = None
              THEN [wal EXCEPT ![req.at] = req.val] ELSE wal
    /\ ptr' = IF req.obj = "ptr" THEN ptr \cup {req.at} ELSE ptr
    /\ UNCHANGED <<pc, sess, claim, txn, history, opens, faults>>

-----------------------------------------------------------------------------
Init ==
  /\ body = [v \in Versions |-> None]
  /\ ptr = {}
  /\ wal = [s \in Seqs |-> None]
  /\ late = {}
  /\ pc = [w \in Writers |-> "down"]
  /\ sess = [w \in Writers |-> None]
  /\ claim = [w \in Writers |-> None]
  /\ txn = [w \in Writers |-> None]
  /\ staged = {} /\ acked = {} /\ nacked = {}
  /\ opens = 0 /\ faults = 0

\* The steps of an open that has started, and of a commit that has started:
\* the process runs them to completion unless it dies.
OpenStep(w) ==
  \/ LoadForOpen(w) \/ BootBody(w) \/ BootPtr(w)
  \/ ClaimLoad(w) \/ ClaimBody(w) \/ ClaimPtr(w) \/ ClaimLost(w)
  \/ RepairHead(w) \/ RepairGet(w) \/ RepairWal(w) \/ RepairFence(w)
  \/ RepairPub(w) \/ RepairDel(w) \/ Recover(w)

CommitStep(w) ==
  \/ PutWal(w) \/ PutBody(w) \/ BodyExists(w) \/ JoinPuts(w)
  \/ Reseq(w) \/ CancelRetry(w) \/ CasPointer(w) \/ PointerExists(w)
  \/ ResolveCas(w) \/ DeleteOrphanBody(w) \/ DeleteOrphanWal(w)

Next ==
  \/ \E w \in Writers :
       \/ Open(w) \/ Reopen(w) \/ OpenStep(w) \/ OpenFault(w)
       \/ \E b \in Batches : Stage(w, b)
       \/ Rollback(w) \/ StartCommit(w) \/ CommitStep(w)
       \/ Crash(w)
  \/ LatePut

Spec == Init /\ [][Next]_vars

Fairness == \A w \in Writers : WF_vars(OpenStep(w)) /\ WF_vars(CommitStep(w))
FairSpec == Spec /\ Fairness

-----------------------------------------------------------------------------
(* What the protocol promises.                                             *)

RepairPcs == {"repair_head", "repair_get", "repair_wal", "repair_fence", "repair_pub",
              "repair_del"}

\* Which locals a process at label l holds: session s, open c, commit t.
Locals(l, s, c, t) ==
  /\ c # None <=> l \in ClaimPcs
  /\ t # None <=> l \in CommitPcs
  /\ l \in CommitPcs \cup {"open"} => s # None
  /\ l = "down" => s = None
  /\ l \in RepairPcs \cup {"boot_ptr", "claim_body", "claim_ptr", "claim_lost", "recover"}
       => c.man # None
  /\ l \in RepairPcs \cup {"claim_ptr", "claim_lost"} => c.ver < MaxVersion
  /\ l \in CommitPcs => s.ver < MaxVersion

\* The shape of every variable.
TypeOK ==
  /\ body \in [Versions -> Manifest \cup {None}]
  /\ ptr \subseteq Versions
  /\ wal \in [Seqs -> Seq(Record) \cup {None}]
  /\ late \subseteq Request
  /\ pc \in [Writers -> Labels]
  /\ sess \in [Writers -> Session \cup {None}]
  /\ claim \in [Writers -> Claim \cup {None}]
  /\ txn \in [Writers -> Txn \cup {None}]
  /\ staged \subseteq Batches /\ acked \subseteq Batches /\ nacked \subseteq Batches
  /\ opens \in 0..MaxOpens /\ faults \in 0..MaxFaults
  /\ \A w \in Writers : Locals(pc[w], sess[w], claim[w], txn[w])

\* The committed log: the segments of the manifest the pointer resolves to, in
\* the order of its WAL descriptors.
Log == IF Loadable THEN [i \in DOMAIN Current.wal |-> Current.wal[i].recs] ELSE <<>>

\* The batches a manifest holds, and that it holds none of them twice.
Contents(man) == UNION {BatchesOf(man.wal[i].recs) : i \in DOMAIN man.wal}
OnceEach(man) ==
  \A i, k \in DOMAIN man.wal :
    \A j \in DOMAIN man.wal[i].recs, l \in DOMAIN man.wal[k].recs :
      man.wal[i].recs[j].b = man.wal[k].recs[l].b => i = k /\ j = l
LogBatches == IF Loadable THEN Contents(Current) ELSE {}

\* A published pointer always has its body: no repair, and no cleanup of a
\* failed commit, deletes a body somebody has published (repair_stalled_commit,
\* resolve_failed_pointer_cas).
PublishedBodyPresent == \A v \in ptr : body[v] # None

\* Each published version extends the one before it: the epoch never goes
\* back and no committed segment disappears, whoever wrote the two versions
\* (put_body's checks and the Create-only slots are all that enforces it).
LineageExtends ==
  \A v \in ptr : v + 1 \in ptr /\ body[v] # None /\ body[v + 1] # None =>
    /\ body[v].epoch <= body[v + 1].epoch
    /\ IsPrefix(body[v].wal, body[v + 1].wal)

\* Recovery of the current manifest always succeeds and replays exactly the
\* records its descriptors declare (a body can be durable before its WAL
\* segment, and a slot can hold a peer's segment or a sentinel).
CurrentRecoverable ==
  Loadable => \A i \in DOMAIN Current.wal :
                wal[Current.wal[i].seq] = Current.wal[i].recs

\* An acknowledged batch is in the committed log, once; a batch that is in
\* the log twice was committed by two attempts of the same commit.
AckedDurable ==
  /\ acked \subseteq LogBatches
  /\ Loadable => OnceEach(Current)

\* No two sessions hold the same epoch, even when claims race, are
\* repaired by a peer, or lose the response to their pointer PUT.
OneSessionPerEpoch ==
  \A w, x \in Writers : w # x /\ sess[w] # None /\ sess[x] # None
                          => sess[w].epoch # sess[x].epoch

\* What a session believes is published: its base is a published version and
\* its memtable holds exactly the records of that base.
SessionMatchesStore ==
  \A w \in Writers : sess[w] # None =>
    /\ sess[w].ver \in ptr
    /\ body[sess[w].ver] = sess[w].man
    /\ sess[w].memtable = RecordsOf(sess[w].man)

\* "The negative ACK stays true forever": a batch whose commit was reported
\* definitively absent is never in the committed log. It is so of one writer whose
\* failed PUTs are lost or landed; one that arrives late can be adopted.
NackStaysTrue == nacked \cap LogBatches = {}

\* The pointer family only grows and a published body never changes.
PublishedImmutable ==
  [][/\ ptr \subseteq ptr'
     /\ \A v \in ptr : body'[v] = body[v]]_<<ptr, body>>

\* Published versions are 0..N: the forward probe of load_pointer walks the
\* family one version at a time.
PointersContiguous == \A v \in ptr : \A u \in 0..v : u \in ptr

\* Why they are: every base a claim, a repair or a session builds on is
\* published, and so is the predecessor of every pointer still in flight, so
\* whoever's PUT lands next, however late, extends the family by one.
PointerFamily ==
  /\ PointersContiguous
  /\ \A w \in Writers :
       /\ pc[w] \in {"load", "boot_body", "boot_ptr"} => claim[w].ver = 0
       /\ pc[w] \in RepairPcs \cup {"claim_body", "claim_ptr", "claim_lost", "recover"}
            => claim[w].ver \in ptr
       /\ sess[w] # None => sess[w].ver \in ptr
  /\ \A req \in late : req.obj = "ptr" => req.at - 1 \in ptr

\* Once the store and the processes stop failing and nothing is in flight,
\* an open that runs alone ends with a session of its own: no orphan body, sentinel or half-done
\* bootstrap a crashed commit or claim left behind wedges the namespace.
OpenSucceeds ==
  \A w \in Writers : \A n \in 1..MaxOpens :
    (/\ faults = MaxFaults /\ late = {}
     /\ pc[w] = "load" /\ claim[w].id = <<w, n>> /\ claim[w].mine = None)
      ~> (sess[w] # None /\ sess[w].owner = <<w, n>>)

\* The protocol implements one append-only log: the segments of the manifest
\* the pointer resolves to (CommitLog).
Abstract == INSTANCE CommitLog WITH
              log <- Log, rejected <- nacked,
              epoch <- IF Loadable THEN Current.epoch ELSE 0
ImplementsCommitLog == Abstract!Spec
=============================================================================
