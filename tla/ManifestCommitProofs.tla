------------------------ MODULE ManifestCommitProofs ------------------------
(***************************************************************************)
(* Theorems about ManifestCommit, in two parts.                            *)
(*                                                                         *)
(* The first holds for any number of writers, batches, opens and faults,   *)
(* and for any number of concurrent claims.                                *)
(*                                                                         *)
(* The second holds while no two repairs judge orphans at once and where   *)
(* either a failing pointer PUT of a commit has been applied, or one       *)
(* process writes and no PUT is late: the lineage, the durability of what  *)
(* is acknowledged, the truth of a rejection, the immutability of what is  *)
(* published, the uniqueness of epochs, and that the protocol implements   *)
(* CommitLog; in the first case for any number of writers, batches, racing *)
(* opens and commits, crashes, lost, landed and late PUTs. ScopeCorrect    *)
(* says where no two repairs judge at once; without these conditions the   *)
(* code does not keep the promises (run repair_race, and the README's      *)
(* observations).                                                          *)
(***************************************************************************)
EXTENDS ManifestCommit, Extrema, FiniteSetTheorems, SequenceTheorems, TLAPS

\* What load_current resolves, when it resolves anything, is a published
\* version that carries a manifest.
LEMMA CurrentType ==
  ASSUME TypeOK, Loadable
  PROVE  Top \in ptr /\ Top \in Versions /\ Current \in Manifest
BY BoundedMax, BoundsAssumption DEF TypeOK, Loadable, Top, Current, Versions

\* A slot picked above every occupied one is at most one past the last slot.
LEMMA NextSeqType ==
  ASSUME TypeOK, NEW d \in 1..(MaxSeq + 1)
  PROVE  next_seq(d) \in 1..(MaxSeq + 1)
<1>1. CASE Occupied = {}
  BY <1>1 DEF next_seq
<1>2. CASE Occupied # {}
  <2>1. Occupied \subseteq 0..MaxSeq /\ Occupied \subseteq Seqs
    BY BoundsAssumption DEF Occupied, Seqs
  <2>2. Max(Occupied) \in Occupied
    BY <2>1, <1>2, BoundedMax, BoundsAssumption
  <2>3. Max(Occupied) \in 1..MaxSeq
    BY <2>1, <2>2 DEF Seqs
  <2> QED BY <1>2, <2>3, BoundsAssumption DEF next_seq
<1> QED BY <1>1, <1>2

\* The first LSN of a session is within the LSNs' range.
LEMMA FirstLsnType ==
  ASSUME NEW mem \in SUBSET Record
  PROVE  first_lsn(mem) \in 1..(MaxLsn + 1)
<1> DEFINE L == {0} \cup {r.lsn : r \in mem}
<1>1. L \subseteq 0..MaxLsn /\ L # {}
  BY BoundsAssumption DEF Record
<1>2. Max(L) \in L
  BY <1>1, BoundedMax, BoundsAssumption
<1>3. Max(L) \in 0..MaxLsn
  BY <1>1, <1>2
<1> HIDE DEF L
<1> QED BY <1>3, BoundsAssumption DEF first_lsn, L

\* The part of TypeOK that is not about the processes.
StoreOK ==
  /\ body \in [Versions -> Manifest \cup {None}]
  /\ ptr \subseteq Versions
  /\ wal \in [Seqs -> Seq(Record) \cup {None}]
  /\ late \subseteq Request
  /\ staged \subseteq Batches /\ acked \subseteq Batches /\ nacked \subseteq Batches
  /\ opens \in 0..MaxOpens /\ faults \in 0..MaxFaults

\* Only process w moves, and what it holds afterwards is well typed.
MovesOnly(w) ==
  /\ pc' = [pc EXCEPT ![w] = pc'[w]] /\ sess' = [sess EXCEPT ![w] = sess'[w]]
  /\ claim' = [claim EXCEPT ![w] = claim'[w]] /\ txn' = [txn EXCEPT ![w] = txn'[w]]

MovedOK(w) ==
  /\ pc'[w] \in Labels /\ sess'[w] \in Session \cup {None}
  /\ claim'[w] \in Claim \cup {None} /\ txn'[w] \in Txn \cup {None}
  /\ Locals(pc'[w], sess'[w], claim'[w], txn'[w])

\* A step in which one process moves keeps the shape of the state.
LEMMA StepOfOne ==
  ASSUME TypeOK, StoreOK', NEW w \in Writers, MovesOnly(w), MovedOK(w)
  PROVE  TypeOK'
<1>1. /\ pc' \in [Writers -> Labels] /\ sess' \in [Writers -> Session \cup {None}]
      /\ claim' \in [Writers -> Claim \cup {None}] /\ txn' \in [Writers -> Txn \cup {None}]
  BY DEF TypeOK, MovesOnly, MovedOK
<1>2. \A x \in Writers : Locals(pc'[x], sess'[x], claim'[x], txn'[x])
  BY DEF TypeOK, MovesOnly, MovedOK
<1> QED BY <1>1, <1>2 DEF TypeOK, StoreOK, Locals

\* What a process in an open, or in a commit, holds.
LEMMA OpenLocals ==
  ASSUME TypeOK, NEW w \in Writers, pc[w] \in ClaimPcs
  PROVE  claim[w] \in Claim /\ txn[w] = None /\ sess[w] \in Session \cup {None}
BY DEF TypeOK, Locals, ClaimPcs, CommitPcs

\* What a process in commit_batch holds.
LEMMA CommitLocals ==
  ASSUME TypeOK, NEW w \in Writers, pc[w] \in CommitPcs
  PROVE  /\ claim[w] = None /\ txn[w] \in Txn /\ sess[w] \in Session
         /\ sess[w].ver < MaxVersion
BY DEF TypeOK, Locals, ClaimPcs, CommitPcs

\* A failed open leaves the process as it was before the open.
LEMMA FailOpenType ==
  ASSUME TypeOK, NEW w \in Writers, pc[w] \in ClaimPcs, FailOpen(w), UNCHANGED <<sess, txn>>
  PROVE  MovesOnly(w) /\ MovedOK(w)
<1>1. MovesOnly(w)
  BY DEF TypeOK, MovesOnly, FailOpen, Goto
<1>2. pc'[w] \in {"down", "open"} /\ (pc'[w] = "down" <=> sess[w] = None) /\ claim'[w] = None
  BY DEF TypeOK, FailOpen, Goto
<1> QED BY <1>1, <1>2, OpenLocals DEF MovedOK, Locals, ClaimPcs, CommitPcs, RepairPcs, Labels

\* The labels at which an open has a base, and those at which it builds the
\* version after it.
Based == RepairPcs \cup {"boot_ptr", "claim_body", "claim_ptr", "claim_lost", "recover"}
Ahead == RepairPcs \cup {"claim_ptr", "claim_lost"}

\* A step from one label of an open to another.
LEMMA ClaimMoves ==
  ASSUME TypeOK, NEW w \in Writers, pc[w] \in ClaimPcs, UNCHANGED <<sess, txn>>,
         pc'[w] \in ClaimPcs, claim'[w] \in Claim,
         pc'[w] \in Based => claim'[w].man # None,
         pc'[w] \in Ahead => claim'[w].ver < MaxVersion
  PROVE  MovedOK(w)
BY OpenLocals, NoneAssumption
   DEF MovedOK, Locals, ClaimPcs, CommitPcs, RepairPcs, Based, Ahead, Labels

\* A step from one label of a commit to another.
LEMMA CommitMoves ==
  ASSUME TypeOK, NEW w \in Writers, pc[w] \in CommitPcs, UNCHANGED <<sess, claim>>,
         pc'[w] \in CommitPcs, txn'[w] \in Txn
  PROVE  MovedOK(w)
BY CommitLocals, NoneAssumption DEF MovedOK, Locals, ClaimPcs, CommitPcs, RepairPcs, Labels

\* A failed commit leaves a session with its batch still pending.
LEMMA FailCommitType ==
  ASSUME TypeOK, NEW w \in Writers, pc[w] \in CommitPcs, NEW terminal \in BOOLEAN,
         FailCommit(w, terminal), UNCHANGED claim
  PROVE  MovesOnly(w) /\ MovedOK(w)
<1> DEFINE s == [sess[w] EXCEPT !.poisoned = @ \/ terminal \/ txn[w].retry]
<1>1. s \in Session
  BY CommitLocals DEF Session, Txn
<1> HIDE DEF s
<1>2. pc'[w] = "open" /\ sess'[w] = s /\ txn'[w] = None /\ MovesOnly(w)
  BY DEF FailCommit, Goto, TypeOK, MovesOnly, s
<1> QED BY <1>1, <1>2, CommitLocals, NoneAssumption
        DEF MovedOK, Locals, ClaimPcs, CommitPcs, RepairPcs, Labels

\* A sealed commit leaves a session one version further.
LEMMA SealCommitType ==
  ASSUME TypeOK, NEW w \in Writers, pc[w] \in CommitPcs, NEW man \in Manifest,
         SealCommit(w, man), UNCHANGED claim
  PROVE  /\ MovesOnly(w) /\ MovedOK(w)
         /\ staged' \subseteq Batches /\ acked' \subseteq Batches /\ nacked' \subseteq Batches
<1> DEFINE drained == {sess[w].pending[i] : i \in DOMAIN sess[w].pending}
           s == [sess[w] EXCEPT !.ver = @ + 1, !.man = man, !.seq = txn[w].seq + 1,
                                !.pending = <<>>, !.memtable = @ \cup drained]
<1>1. sess[w] \in Session /\ txn[w] \in Txn /\ sess[w].pending \in Seq(Record)
  BY CommitLocals DEF Session
<1>2. drained \subseteq Record /\ BatchesOf(sess[w].pending) \subseteq Batches
  <2>1. \A i \in DOMAIN sess[w].pending : sess[w].pending[i] \in Record
    BY <1>1
  <2>2. \A r \in Record : r.b \in Batches
    BY DEF Record
  <2> QED BY <2>1, <2>2 DEF BatchesOf
<1>3. sess[w].ver + 1 \in Versions /\ txn[w].seq + 1 \in 1..(MaxSeq + 1) /\ <<>> \in Seq(Record)
  <2>1. sess[w].ver \in 0..MaxVersion /\ sess[w].ver < MaxVersion
    BY <1>1, CommitLocals DEF Session, Versions
  <2>2. txn[w].seq \in 1..MaxSeq
    BY <1>1 DEF Txn, Seqs
  <2>3. sess[w].ver + 1 \in Versions
    BY <2>1, BoundsAssumption DEF Versions
  <2>4. txn[w].seq + 1 \in 1..(MaxSeq + 1)
    BY <2>2, BoundsAssumption
  <2>5. <<>> \in Seq(Record)
    OBVIOUS
  <2> QED BY <2>3, <2>4, <2>5
<1> HIDE DEF drained
<1>4. s \in Session
  BY <1>1, <1>2, <1>3 DEF Session
<1> HIDE DEF s
<1>5. pc'[w] = "open" /\ sess'[w] = s /\ txn'[w] = None /\ MovesOnly(w)
  BY DEF SealCommit, Goto, TypeOK, MovesOnly, s, drained
<1>6. MovedOK(w)
  BY <1>4, <1>5, CommitLocals, NoneAssumption
     DEF MovedOK, Locals, ClaimPcs, CommitPcs, RepairPcs, Labels
<1>7. staged' \subseteq Batches /\ acked' \subseteq Batches /\ nacked' \subseteq Batches
  BY <1>2 DEF SealCommit, TypeOK
<1> QED BY <1>5, <1>6, <1>7

\* An open or a reopen starts with fresh locals.
LEMMA OpenType ==
  ASSUME TypeOK, NEW w \in Writers, Open(w) \/ Reopen(w)
  PROVE  TypeOK'
<1>1. PICK mine \in Nat \cup {None} : StartOpen(w, mine) /\ pc[w] \in {"down", "open"}
  BY DEF Open, Reopen, TypeOK, Locals, Session, CommitPcs
<1> DEFINE c == NewClaim(w, mine)
<1>2. c \in Claim /\ opens + 1 \in 0..MaxOpens
  BY <1>1, BoundsAssumption DEF NewClaim, Claim, Owners, Versions, StartOpen, TypeOK
<1> HIDE DEF c
<1>3. StoreOK'
  BY <1>1, <1>2 DEF StoreOK, TypeOK, StartOpen, store, history
<1>4. pc'[w] = "load" /\ claim'[w] = c /\ MovesOnly(w) /\ UNCHANGED <<sess, txn>>
  BY <1>1 DEF StartOpen, Goto, TypeOK, MovesOnly, c
<1>5. sess[w] \in Session \cup {None} /\ txn[w] = None
  BY <1>1 DEF TypeOK, Locals, CommitPcs
<1>6. MovedOK(w)
  BY <1>2, <1>4, <1>5, NoneAssumption DEF MovedOK, Locals, ClaimPcs, CommitPcs, RepairPcs, Labels
<1> QED BY <1>3, <1>4, <1>6, StepOfOne

\* open_claiming: bootstrap or claim.
LEMMA LoadForOpenType ==
  ASSUME TypeOK, NEW w \in Writers, LoadForOpen(w)
  PROVE  TypeOK'
<1>1. pc[w] \in ClaimPcs /\ StoreOK' /\ UNCHANGED <<sess, txn, claim>>
  BY DEF StoreOK, TypeOK, LoadForOpen, store, history, ClaimPcs
<1>2. pc'[w] \in {"claim", "boot_body"} /\ MovesOnly(w)
  BY DEF LoadForOpen, Goto, TypeOK, MovesOnly
<1>3. MovedOK(w)
  BY <1>1, <1>2, OpenLocals, ClaimMoves DEF ClaimPcs, RepairPcs, Based, Ahead
<1> QED BY <1>1, <1>2, <1>3, StepOfOne

\* bootstrap goes on with a manifest, its own or the one it found.
LEMMA BootBodyType ==
  ASSUME TypeOK, NEW w \in Writers, BootBody(w)
  PROVE  TypeOK'
<1>1. pc[w] \in ClaimPcs /\ claim[w] \in Claim /\ UNCHANGED <<sess, txn>>
  BY OpenLocals DEF BootBody, ClaimPcs
<1>2. empty(claim[w].id) \in Manifest /\ 0 \in Versions
  BY <1>1, BoundsAssumption DEF empty, Manifest, Claim, Versions
<1>3. BootManifest(claim[w].id) \in Manifest
  BY <1>2 DEF BootManifest, TypeOK
<1> DEFINE c == [claim[w] EXCEPT !.man = BootManifest(claim[w].id)]
<1>4. c \in Claim /\ c.man # None
  BY <1>1, <1>3, NoneAssumption DEF Claim
<1>5. StoreOK'
  BY <1>2 DEF StoreOK, TypeOK, BootBody, history
<1> HIDE DEF c
<1>6. pc'[w] = "boot_ptr" /\ claim'[w] = c /\ MovesOnly(w)
  BY <1>1 DEF BootBody, Goto, TypeOK, MovesOnly, c
<1>7. MovedOK(w)
  BY <1>1, <1>4, <1>6, ClaimMoves DEF ClaimPcs, RepairPcs, Based, Ahead
<1> QED BY <1>5, <1>6, <1>7, StepOfOne

\* bootstrap wins p0, or the open fails.
LEMMA BootPtrType ==
  ASSUME TypeOK, NEW w \in Writers, BootPtr(w)
  PROVE  TypeOK'
<1>1. pc[w] \in ClaimPcs /\ claim[w] \in Claim /\ UNCHANGED <<sess, txn>> /\ claim[w].man # None
  BY OpenLocals DEF BootPtr, ClaimPcs, TypeOK, Locals
<1>2. StoreOK'
  BY BoundsAssumption DEF StoreOK, TypeOK, BootPtr, history, Versions
<1>3. CASE FailOpen(w)
  BY <1>1, <1>2, <1>3, FailOpenType, StepOfOne
<1>4. CASE ~FailOpen(w)
  <2>1. pc'[w] = "recover" /\ claim' = claim /\ MovesOnly(w)
    BY <1>1, <1>4 DEF BootPtr, Goto, TypeOK, MovesOnly
  <2>2. MovedOK(w)
    BY <1>1, <2>1, ClaimMoves DEF ClaimPcs, RepairPcs, Ahead
  <2> QED BY <1>2, <2>1, <2>2, StepOfOne
<1> QED BY <1>3, <1>4

\* A claim is based on what load_current resolved.
LEMMA ClaimLoadType ==
  ASSUME TypeOK, NEW w \in Writers, ClaimLoad(w)
  PROVE  TypeOK'
<1>1. pc[w] \in ClaimPcs /\ StoreOK' /\ UNCHANGED <<sess, txn>>
  BY DEF StoreOK, TypeOK, ClaimLoad, store, history, ClaimPcs
<1>2. CASE FailOpen(w)
  BY <1>1, <1>2, FailOpenType, StepOfOne
<1>3. CASE ~FailOpen(w)
  <2> DEFINE c == [claim[w] EXCEPT !.ver = Top, !.man = Current]
  <2>1. c \in Claim /\ c.man # None
    BY <1>1, <1>3, OpenLocals, CurrentType, NoneAssumption DEF Claim, ClaimLoad
  <2> HIDE DEF c
  <2>2. pc'[w] = "claim_body" /\ claim'[w] = c /\ MovesOnly(w)
    BY <1>1, <1>3 DEF ClaimLoad, Goto, TypeOK, MovesOnly, c
  <2>3. MovedOK(w)
    BY <2>1, <2>2, <1>1, ClaimMoves DEF ClaimPcs, RepairPcs, Ahead
  <2> QED BY <1>1, <2>2, <2>3, StepOfOne
<1> QED BY <1>2, <1>3

\* What claim_writer publishes over its base is a manifest.
LEMMA ClaimedType ==
  ASSUME TypeOK, NEW w \in Writers, pc[w] \in Based
  PROVE  /\ pc[w] \in ClaimPcs /\ claim[w] \in Claim /\ claim[w].man \in Manifest
         /\ Claimed(claim[w]) \in Manifest
<1>1. pc[w] \in ClaimPcs
  BY DEF Based, RepairPcs, ClaimPcs
<1>2. claim[w] \in Claim /\ claim[w].man \in Manifest
  BY <1>1, OpenLocals DEF Based, TypeOK, Locals, Claim
<1>3. claim[w].id \in Owners /\ claim[w].man.epoch + 1 \in Nat
  BY <1>2 DEF Manifest, Claim
<1>4. Claimed(claim[w]) \in Manifest
  BY <1>2, <1>3 DEF Claimed, Manifest
<1> QED BY <1>1, <1>2, <1>4

\* The body PUT of a claim: lost, failed, or stored.
LEMMA ClaimBodyType ==
  ASSUME TypeOK, NEW w \in Writers, ClaimBody(w)
  PROVE  TypeOK'
<1> DEFINE c == claim[w]
           v == next_version(c.ver)
<1>1. /\ pc[w] \in Based /\ pc[w] \in ClaimPcs /\ c \in Claim /\ Claimed(c) \in Manifest
      /\ UNCHANGED <<sess, txn>> /\ c.man # None
  BY ClaimedType, NoneAssumption DEF ClaimBody, Based
<1>2. v \in Versions /\ c.ver < MaxVersion
  BY <1>1, BoundsAssumption DEF ClaimBody, next_version, Claim, Versions
<1>3. CASE body[v] # None
  <2>1. pc'[w] = "claim_lost" /\ claim' = claim /\ MovesOnly(w) /\ StoreOK'
    BY <1>1, <1>3 DEF ClaimBody, Goto, TypeOK, MovesOnly, StoreOK, history
  <2>2. MovedOK(w)
    BY <1>1, <1>2, <2>1, ClaimMoves DEF ClaimPcs
  <2> QED BY <2>1, <2>2, StepOfOne
<1>4. CASE body[v] = None
  <2>1. PICK out \in Outcomes(PutFaults) :
          /\ body' = IF Lands(out) THEN [body EXCEPT ![v] = Claimed(c)] ELSE body
          /\ InFlight(out, [obj |-> "body", at |-> v, val |-> Claimed(c)])
          /\ Charge(out)
          /\ IF out = "ok" THEN Goto(w, "claim_ptr") /\ UNCHANGED claim ELSE FailOpen(w)
    BY <1>4 DEF ClaimBody
  <2>2. [obj |-> "body", at |-> v, val |-> Claimed(c)] \in Request
    BY <1>1, <1>2 DEF Request
  <2>3. faults' \in 0..MaxFaults
    BY <2>1, BoundsAssumption DEF Charge, Outcomes, TypeOK
  <2>4. StoreOK'
    BY <1>1, <1>2, <2>1, <2>2, <2>3 DEF StoreOK, TypeOK, ClaimBody, history, InFlight
  <2>5. CASE out = "ok"
    <3>1. pc'[w] = "claim_ptr" /\ claim' = claim /\ MovesOnly(w)
      BY <1>1, <2>1, <2>5 DEF Goto, TypeOK, MovesOnly
    <3>2. MovedOK(w)
      BY <1>1, <1>2, <3>1, ClaimMoves DEF ClaimPcs
    <3> QED BY <2>4, <3>1, <3>2, StepOfOne
  <2>6. CASE out # "ok"
    BY <1>1, <2>1, <2>4, <2>6, FailOpenType, StepOfOne
  <2> QED BY <2>5, <2>6
<1> QED BY <1>3, <1>4

\* The pointer PUT of a claim: lost, failed, or stored.
LEMMA ClaimPtrType ==
  ASSUME TypeOK, NEW w \in Writers, ClaimPtr(w)
  PROVE  TypeOK'
<1> DEFINE c == claim[w]
           v == next_version(c.ver)
<1>1. /\ pc[w] \in Based /\ pc[w] \in ClaimPcs /\ c \in Claim /\ Claimed(c) \in Manifest
      /\ UNCHANGED <<sess, txn>> /\ c.man # None
  BY ClaimedType, NoneAssumption DEF ClaimPtr, Based
<1>2. v \in Versions /\ c.ver < MaxVersion
  BY <1>1, BoundsAssumption DEF ClaimPtr, next_version, Claim, Versions, TypeOK, Locals
<1>3. CASE v \in ptr
  <2>1. pc'[w] = "claim_lost" /\ claim' = claim /\ MovesOnly(w) /\ StoreOK'
    BY <1>1, <1>3 DEF ClaimPtr, Goto, TypeOK, MovesOnly, StoreOK, history
  <2>2. MovedOK(w)
    BY <1>1, <1>2, <2>1, ClaimMoves DEF ClaimPcs
  <2> QED BY <2>1, <2>2, StepOfOne
<1>4. CASE v \notin ptr
  <2> DEFINE d == [c EXCEPT !.ver = v, !.man = Claimed(c)]
  <2>1. PICK out \in Outcomes(PutFaults) :
          /\ ptr' = IF Lands(out) THEN ptr \cup {v} ELSE ptr
          /\ InFlight(out, [obj |-> "ptr", at |-> v, val |-> None])
          /\ Charge(out)
          /\ IF out = "ok" THEN Goto(w, "recover") /\ claim' = [claim EXCEPT ![w] = d]
             ELSE FailOpen(w)
    BY <1>4 DEF ClaimPtr
  <2>2. [obj |-> "ptr", at |-> v, val |-> None] \in Request
    BY <1>1, <1>2 DEF Request
  <2>3. faults' \in 0..MaxFaults
    BY <2>1, BoundsAssumption DEF Charge, Outcomes, TypeOK
  <2>4. StoreOK'
    BY <1>1, <1>2, <2>1, <2>2, <2>3 DEF StoreOK, TypeOK, ClaimPtr, history, InFlight
  <2>5. CASE out = "ok"
    <3>1. d \in Claim /\ d.man # None
      BY <1>1, <1>2, NoneAssumption DEF Claim
    <3> HIDE DEF d
    <3>2. pc'[w] = "recover" /\ claim'[w] = d /\ MovesOnly(w)
      BY <1>1, <2>1, <2>5 DEF Goto, TypeOK, MovesOnly
    <3>3. MovedOK(w)
      BY <1>1, <3>1, <3>2, ClaimMoves DEF ClaimPcs, Ahead, RepairPcs
    <3> QED BY <2>4, <3>2, <3>3, StepOfOne
  <2>6. CASE out # "ok"
    BY <1>1, <2>1, <2>4, <2>6, FailOpenType, StepOfOne
  <2> QED BY <2>5, <2>6
<1> QED BY <1>3, <1>4

\* A lost claim keeps its base, whether it retries or repairs.
LEMMA ClaimLostType ==
  ASSUME TypeOK, NEW w \in Writers, ClaimLost(w)
  PROVE  TypeOK'
<1>1. /\ pc[w] \in ClaimPcs /\ claim[w] \in Claim /\ claim[w].man # None
      /\ claim[w].ver < MaxVersion /\ StoreOK' /\ UNCHANGED <<sess, txn>>
  BY OpenLocals DEF StoreOK, TypeOK, Locals, ClaimLost, store, history, ClaimPcs
<1>2. CASE FailOpen(w)
  BY <1>1, <1>2, FailOpenType, StepOfOne
<1>3. CASE ~FailOpen(w)
  <2> DEFINE c == claim[w]
             stall == c.last = c.ver
             repair == stall /\ c.stalled + 1 >= MaxStalledRounds
             st == IF stall /\ ~repair THEN c.stalled + 1 ELSE 0
             ps == IF repair THEN c.passes + 1 ELSE c.passes
             d == [c EXCEPT !.last = c.ver, !.stalled = st, !.passes = ps]
  <2>a. claim' = [claim EXCEPT ![w] = d]
    BY <1>3 DEF ClaimLost
  <2>b. c.stalled + 1 \in Nat /\ c.passes + 1 \in Nat /\ c.passes \in Nat /\ c.ver \in Versions
    BY <1>1 DEF Claim
  <2>c. st \in Nat /\ ps \in Nat
    BY <2>b
  <2> HIDE DEF st, ps
  <2>d. d \in Claim /\ d.man = c.man /\ d.ver = c.ver
    BY <1>1, <2>b, <2>c DEF Claim
  <2> HIDE DEF d
  <2>1. claim'[w] \in Claim /\ claim'[w].man = claim[w].man /\ claim'[w].ver = claim[w].ver
    BY <1>1, <2>a, <2>d DEF TypeOK
  <2>2. pc'[w] \in {"repair_head", "claim"} /\ MovesOnly(w)
    BY <1>1, <1>3 DEF ClaimLost, Goto, TypeOK, MovesOnly
  <2>3. MovedOK(w)
    BY <1>1, <2>1, <2>2, ClaimMoves DEF ClaimPcs
  <2> QED BY <1>1, <2>2, <2>3, StepOfOne
<1> QED BY <1>2, <1>3

\* What a repair holds: a base below the version bound.
LEMMA RepairLocals ==
  ASSUME TypeOK, NEW w \in Writers, pc[w] \in RepairPcs
  PROVE  /\ pc[w] \in ClaimPcs /\ claim[w] \in Claim /\ claim[w].man # None
         /\ claim[w].ver < MaxVersion /\ next_version(claim[w].ver) \in Versions
<1>1. pc[w] \in ClaimPcs
  BY DEF RepairPcs, ClaimPcs
<1>2. claim[w] \in Claim /\ claim[w].man # None /\ claim[w].ver < MaxVersion
  BY <1>1, OpenLocals DEF TypeOK, Locals
<1>3. claim[w].ver \in 0..MaxVersion
  BY <1>2 DEF Claim, Versions
<1> QED BY <1>1, <1>2, <1>3, BoundsAssumption DEF next_version, Versions

\* repair_stalled_commit up to its verdict only moves the process.
LEMMA RepairVerdictType ==
  ASSUME TypeOK, NEW w \in Writers, RepairHead(w) \/ RepairWal(w) \/ RepairFence(w)
  PROVE  TypeOK'
<1>1. pc[w] \in RepairPcs
  BY DEF RepairHead, RepairWal, RepairFence, RepairPcs
<1>2. StoreOK' /\ UNCHANGED <<sess, txn, claim>>
  <2>1. <<>> \in Seq(Record)
    OBVIOUS
  <2> QED BY <2>1 DEF StoreOK, TypeOK, RepairHead, RepairWal, RepairFence, store, history
<1>3. pc'[w] \in RepairPcs \cup {"claim"} /\ MovesOnly(w)
  BY DEF RepairHead, RepairWal, RepairFence, Goto, TypeOK, MovesOnly, RepairPcs
<1>4. MovedOK(w)
  BY <1>1, <1>2, <1>3, RepairLocals, ClaimMoves DEF ClaimPcs, RepairPcs
<1> QED BY <1>2, <1>3, <1>4, StepOfOne

\* A repair reads the orphan next to its base.
LEMMA RepairGetType ==
  ASSUME TypeOK, NEW w \in Writers, RepairGet(w)
  PROVE  TypeOK'
<1>1. pc[w] \in RepairPcs /\ StoreOK' /\ UNCHANGED <<sess, txn>>
  BY DEF RepairGet, RepairPcs, StoreOK, TypeOK, store, history
<1>2. body[next_version(claim[w].ver)] \in Manifest \cup {None}
  BY <1>1, RepairLocals DEF TypeOK
<1> DEFINE c == [claim[w] EXCEPT !.orphan = body[next_version(claim[w].ver)]]
<1>3. c \in Claim /\ c.man = claim[w].man /\ c.ver = claim[w].ver
  BY <1>1, <1>2, RepairLocals DEF Claim
<1> HIDE DEF c
<1>4. claim' = [claim EXCEPT ![w] = c] /\ pc'[w] \in RepairPcs \cup {"claim"} /\ MovesOnly(w)
  BY DEF RepairGet, Goto, TypeOK, MovesOnly, RepairPcs, c
<1>5. MovedOK(w)
  BY <1>1, <1>3, <1>4, RepairLocals, ClaimMoves DEF ClaimPcs, RepairPcs, TypeOK
<1> QED BY <1>1, <1>4, <1>5, StepOfOne

\* A repair ends by publishing the orphan or deleting it.
LEMMA RepairEndType ==
  ASSUME TypeOK, NEW w \in Writers, RepairPub(w) \/ RepairDel(w)
  PROVE  TypeOK'
<1>1. pc[w] \in RepairPcs /\ UNCHANGED <<sess, txn>>
  BY DEF RepairPub, RepairDel, RepairPcs
<1>2. StoreOK'
  BY <1>1, RepairLocals DEF StoreOK, TypeOK, RepairPub, RepairDel, BodyDeleted, history
<1> DEFINE c == [claim[w] EXCEPT !.orphan = None]
<1>3. c \in Claim
  BY <1>1, RepairLocals DEF Claim
<1> HIDE DEF c
<1>4. claim' = [claim EXCEPT ![w] = c] /\ pc'[w] = "claim" /\ MovesOnly(w)
  BY DEF RepairPub, RepairDel, Goto, TypeOK, MovesOnly, c
<1>5. MovedOK(w)
  BY <1>1, <1>3, <1>4, RepairLocals, ClaimMoves DEF ClaimPcs, RepairPcs, Based, Ahead, TypeOK
<1> QED BY <1>1, <1>2, <1>4, <1>5, StepOfOne

\* What recovery replays are records.
LEMMA ReplayedType ==
  ASSUME TypeOK, NEW man \in Manifest, Recoverable(man)
  PROVE  Replayed(man) \subseteq Record
<1> SUFFICES ASSUME NEW i \in DOMAIN man.wal, NEW j \in DOMAIN wal[man.wal[i].seq]
             PROVE  wal[man.wal[i].seq][j] \in Record
  BY DEF Replayed
<1>1. man.wal \in Seq(Descriptor)
  BY DEF Manifest
<1>2. man.wal[i] \in Descriptor
  BY <1>1
<1>3. man.wal[i].seq \in Seqs
  BY <1>2 DEF Descriptor
<1>4. wal[man.wal[i].seq] \in Seq(Record)
  BY <1>3 DEF TypeOK, Recoverable
<1> QED BY <1>4

\* Recovery builds a session from the claimed manifest.
LEMMA RecoverType ==
  ASSUME TypeOK, NEW w \in Writers, Recover(w)
  PROVE  TypeOK'
<1>1. /\ pc[w] \in ClaimPcs /\ claim[w] \in Claim /\ claim[w].man \in Manifest
      /\ StoreOK' /\ UNCHANGED txn
  BY ClaimedType DEF Recover, ClaimPcs, Based, StoreOK, TypeOK, store, history
<1>2. CASE ~Recoverable(claim[w].man)
  BY <1>1, <1>2, FailOpenType, StepOfOne DEF Recover
<1>3. CASE Recoverable(claim[w].man)
  <2> DEFINE c == claim[w]
             mem == Replayed(c.man)
             s == [ver |-> c.ver, man |-> c.man, epoch |-> c.man.epoch, owner |-> c.id,
                   next_lsn |-> first_lsn(mem), seq |-> next_seq(1), pending |-> <<>>,
                   poisoned |-> FALSE, memtable |-> mem]
  <2>1. mem \in SUBSET Record
    BY <1>1, <1>3, ReplayedType
  <2>2. first_lsn(mem) \in 1..(MaxLsn + 1)
    BY <2>1, FirstLsnType
  <2>3. next_seq(1) \in 1..(MaxSeq + 1)
    <3>1. 1 \in 1..(MaxSeq + 1)
      BY BoundsAssumption
    <3> QED BY <3>1, NextSeqType
  <2>4. c.ver \in Versions /\ c.id \in Owners /\ c.man.epoch \in Nat /\ <<>> \in Seq(Record)
    BY <1>1 DEF Claim, Manifest
  <2> HIDE DEF mem
  <2>5. s \in Session
    BY <1>1, <2>1, <2>2, <2>3, <2>4 DEF Session
  <2> HIDE DEF s
  <2>6. /\ pc'[w] = "open" /\ sess'[w] = s /\ claim'[w] = None /\ MovesOnly(w)
        /\ txn'[w] = None
    BY <1>1, <1>3, OpenLocals DEF Recover, Goto, TypeOK, MovesOnly, s, mem
  <2>7. MovedOK(w)
    BY <2>5, <2>6, NoneAssumption DEF MovedOK, Locals, ClaimPcs, CommitPcs, RepairPcs, Labels
  <2> QED BY <1>1, <2>6, <2>7, StepOfOne
<1> QED BY <1>2, <1>3

\* Any request of an open can fail.
LEMMA OpenFaultType ==
  ASSUME TypeOK, NEW w \in Writers, OpenFault(w)
  PROVE  TypeOK'
<1>1. pc[w] \in ClaimPcs /\ FailOpen(w) /\ UNCHANGED <<sess, txn>>
  BY DEF OpenFault
<1>2. faults' \in 0..MaxFaults
  BY BoundsAssumption DEF OpenFault, TypeOK
<1>3. StoreOK'
  BY <1>2 DEF StoreOK, TypeOK, OpenFault, store, history
<1> QED BY <1>1, <1>3, FailOpenType, StepOfOne

\* A process that stays open with a new session.
LEMMA StaysOpen ==
  ASSUME TypeOK, NEW w \in Writers, pc[w] = "open", NEW s \in Session,
         sess' = [sess EXCEPT ![w] = s], UNCHANGED <<pc, claim, txn>>
  PROVE  MovesOnly(w) /\ MovedOK(w)
<1>1. claim[w] = None /\ txn[w] = None
  BY DEF TypeOK, Locals, ClaimPcs, CommitPcs
<1>2. sess'[w] = s /\ MovesOnly(w)
  BY DEF TypeOK, MovesOnly
<1> QED BY <1>1, <1>2, NoneAssumption DEF MovedOK, Locals, ClaimPcs, CommitPcs, RepairPcs, Labels

\* Staging appends one record and takes one LSN.
LEMMA StageType ==
  ASSUME TypeOK, NEW w \in Writers, NEW b \in Batches, Stage(w, b)
  PROVE  TypeOK'
<1>1. sess[w] \in Session /\ pc[w] = "open"
  BY DEF Stage, TypeOK, Locals
<1> DEFINE r == [b |-> b, lsn |-> sess[w].next_lsn]
           p == Append(sess[w].pending, r)
           s == [sess[w] EXCEPT !.pending = p, !.next_lsn = sess[w].next_lsn + 1]
<1>2. sess[w].next_lsn \in 1..MaxLsn
  BY <1>1, BoundsAssumption DEF Session, Stage
<1>3. r \in Record /\ sess[w].next_lsn + 1 \in 1..(MaxLsn + 1)
  BY <1>2, BoundsAssumption DEF Record
<1>6. sess' = [sess EXCEPT ![w] = s]
  BY DEF Stage
<1>4. p \in Seq(Record)
  <2> HIDE DEF r
  <2> QED BY <1>1, <1>3 DEF Session
<1> HIDE DEF p
<1>5. s \in Session
  BY <1>1, <1>3, <1>4 DEF Session
<1> HIDE DEF s
<1>7. StoreOK' /\ UNCHANGED <<pc, claim, txn>>
  BY DEF Stage, StoreOK, TypeOK, store
<1> QED BY <1>1, <1>5, <1>6, <1>7, StaysOpen, StepOfOne

\* A rollback keeps a prefix of the staged records.
LEMMA RollbackType ==
  ASSUME TypeOK, NEW w \in Writers, Rollback(w)
  PROVE  TypeOK'
<1>1. sess[w] \in Session /\ pc[w] = "open"
  BY DEF Rollback, TypeOK, Locals
<1>2. PICK mark \in 0..(Len(sess[w].pending) - 1) :
        sess' = [sess EXCEPT ![w] = [sess[w] EXCEPT !.pending = SubSeq(sess[w].pending, 1, mark)]]
  BY DEF Rollback
<1> DEFINE p == SubSeq(sess[w].pending, 1, mark)
           s == [sess[w] EXCEPT !.pending = p]
<1>3. sess[w].pending \in Seq(Record)
  BY <1>1 DEF Session
<1>4. p \in Seq(Record)
  <2>1. \A i \in 1..mark : sess[w].pending[i] \in Record
    BY <1>3
  <2> QED BY <1>3, <2>1
<1> HIDE DEF p
<1>5. s \in Session
  BY <1>1, <1>4 DEF Session
<1>6. sess' = [sess EXCEPT ![w] = s]
  BY <1>2 DEF p
<1> HIDE DEF s
<1>7. StoreOK' /\ UNCHANGED <<pc, claim, txn>>
  BY DEF Rollback, StoreOK, TypeOK, store, history
<1> QED BY <1>1, <1>5, <1>6, <1>7, StaysOpen, StepOfOne

\* The manifest a commit builds over its session's base, and its locals.
LEMMA NewTxnType ==
  ASSUME NEW s \in Session, NEW q \in Seqs, NEW retry \in BOOLEAN
  PROVE  NewTxn(s, q, retry) \in Txn
<1> DEFINE d == [seq |-> q, recs |-> s.pending]
           n == build_next(s, q)
<1>1. /\ s.man \in Manifest /\ s.owner \in Owners /\ s.pending \in Seq(Record)
  BY DEF Session
<1>2. d \in Descriptor
  BY <1>1 DEF Descriptor
<1>3. s.man.wal \in Seq(Descriptor) /\ s.man.epoch \in Nat
  BY <1>1 DEF Manifest
<1> HIDE DEF d
<1>4. Append(s.man.wal, d) \in Seq(Descriptor)
  BY <1>2, <1>3
<1>5. n = [epoch |-> s.man.epoch, owner |-> s.owner, wal |-> Append(s.man.wal, d)]
  BY DEF build_next, d
<1>6. n \in Manifest
  BY <1>1, <1>3, <1>4, <1>5 DEF Manifest
<1> HIDE DEF n
<1>7. NewTxn(s, q, retry) = [seq |-> q, next |-> n, wal |-> "todo", body |-> "todo",
                             retry |-> retry]
  BY DEF NewTxn, n
<1> QED BY <1>6, <1>7 DEF Txn

\* commit_batch starts from an open session with room for a version and a slot.
LEMMA StartCommitType ==
  ASSUME TypeOK, NEW w \in Writers, StartCommit(w)
  PROVE  TypeOK'
<1> DEFINE t == NewTxn(sess[w], sess[w].seq, FALSE)
<1>1. sess[w] \in Session /\ claim[w] = None /\ sess[w].ver < MaxVersion
  BY DEF StartCommit, TypeOK, Locals, ClaimPcs
<1>2. sess[w].seq \in Seqs
  BY <1>1, BoundsAssumption DEF Session, Seqs, StartCommit
<1>3. t \in Txn
  BY <1>1, <1>2, NewTxnType
<1> HIDE DEF t
<1>4. StoreOK' /\ UNCHANGED <<sess, claim>>
  BY DEF StartCommit, StoreOK, TypeOK, store
<1>5. pc'[w] = "puts" /\ txn'[w] = t /\ MovesOnly(w)
  BY DEF StartCommit, Goto, TypeOK, MovesOnly, t
<1>6. MovedOK(w)
  BY <1>1, <1>3, <1>4, <1>5, NoneAssumption
     DEF MovedOK, Locals, ClaimPcs, CommitPcs, RepairPcs, Labels
<1> QED BY <1>4, <1>5, <1>6, StepOfOne

\* A commit that stays within its labels, with new locals t.
LEMMA CommitGoesOn ==
  ASSUME TypeOK, NEW w \in Writers, pc[w] \in CommitPcs, NEW t \in Txn, NEW l \in CommitPcs,
         txn' = [txn EXCEPT ![w] = t], pc' = [pc EXCEPT ![w] = l], UNCHANGED <<sess, claim>>,
         StoreOK'
  PROVE  TypeOK'
<1>1. pc'[w] = l /\ txn'[w] = t /\ MovesOnly(w)
  BY DEF TypeOK, MovesOnly
<1>2. MovedOK(w)
  BY <1>1, CommitMoves
<1> QED BY <1>1, <1>2, StepOfOne

\* ... or with the locals it has.
LEMMA CommitMovesOn ==
  ASSUME TypeOK, NEW w \in Writers, pc[w] \in CommitPcs, NEW l \in CommitPcs,
         pc' = [pc EXCEPT ![w] = l], UNCHANGED <<sess, claim, txn>>, StoreOK'
  PROVE  TypeOK'
<1>1. pc'[w] = l /\ MovesOnly(w)
  BY DEF TypeOK, MovesOnly
<1>2. MovedOK(w)
  BY <1>1, CommitMoves, CommitLocals
<1> QED BY <1>1, <1>2, StepOfOne

\* A conditional PUT of a commit leaves at most one more fault.
LEMMA ChargeType ==
  ASSUME TypeOK, NEW kinds, NEW out \in Outcomes(kinds), Charge(out)
  PROVE  faults' \in 0..MaxFaults
BY BoundsAssumption DEF Charge, Outcomes, TypeOK

\* The WAL PUT stores exactly the pending records.
LEMMA PutWalType ==
  ASSUME TypeOK, NEW w \in Writers, PutWal(w)
  PROVE  TypeOK'
<1> DEFINE t(o) == [txn[w] EXCEPT !.wal = o]
           recs == sess[w].pending
<1>1. /\ pc[w] = "puts" /\ pc[w] \in CommitPcs /\ txn[w] \in Txn /\ recs \in Seq(Record)
      /\ txn[w].seq \in Seqs /\ UNCHANGED <<pc, sess, claim>>
  BY CommitLocals DEF PutWal, CommitPcs, Session, Txn
<1>2. \A o \in {"exists", "ok", "err"} : t(o) \in Txn
  BY <1>1 DEF Txn
<1> HIDE DEF t
<1>3. pc' = [pc EXCEPT ![w] = "puts"] /\ "puts" \in CommitPcs
  BY <1>1 DEF TypeOK, CommitPcs
<1>4. CASE wal[txn[w].seq] # None
  <2>1. StoreOK' /\ txn' = [txn EXCEPT ![w] = t("exists")]
    BY <1>1, <1>4 DEF PutWal, StoreOK, TypeOK, history, t
  <2> QED BY <1>1, <1>2, <1>3, <2>1, CommitGoesOn
<1>5. CASE wal[txn[w].seq] = None
  <2>1. PICK out \in Outcomes(PutFaults) :
          /\ wal' = IF Lands(out) THEN [wal EXCEPT ![txn[w].seq] = recs] ELSE wal
          /\ InFlight(out, [obj |-> "wal", at |-> txn[w].seq, val |-> recs])
          /\ Charge(out)
          /\ txn' = [txn EXCEPT ![w] = t(IF out = "ok" THEN "ok" ELSE "err")]
    BY <1>5 DEF PutWal, t
  <2>2. [obj |-> "wal", at |-> txn[w].seq, val |-> recs] \in Request
    BY <1>1 DEF Request
  <2>3. StoreOK'
    <3>1. wal' \in [Seqs -> Seq(Record) \cup {None}]
      BY <1>1, <2>1 DEF TypeOK
    <3>2. late' \subseteq Request
      BY <2>1, <2>2 DEF TypeOK, InFlight
    <3>3. faults' \in 0..MaxFaults
      BY <2>1, ChargeType
    <3> QED BY <3>1, <3>2, <3>3 DEF PutWal, StoreOK, TypeOK, history
  <2>4. t(IF out = "ok" THEN "ok" ELSE "err") \in Txn
    BY <1>2
  <2> QED BY <1>1, <1>3, <2>1, <2>3, <2>4, CommitGoesOn
<1> QED BY <1>4, <1>5

\* The body PUT stores exactly the manifest that was built.
LEMMA PutBodyType ==
  ASSUME TypeOK, NEW w \in Writers, PutBody(w)
  PROVE  TypeOK'
<1> DEFINE t(o) == [txn[w] EXCEPT !.body = o]
           v == next_version(sess[w].ver)
<1>1. /\ pc[w] = "puts" /\ pc[w] \in CommitPcs /\ txn[w] \in Txn /\ txn[w].next \in Manifest
      /\ UNCHANGED <<pc, sess, claim>>
  BY CommitLocals DEF PutBody, CommitPcs, Txn
<1>2. \A o \in {"exists", "ok", "err"} : t(o) \in Txn
  BY <1>1 DEF Txn
<1>3. v \in Versions
  <2>1. sess[w].ver \in 0..MaxVersion /\ sess[w].ver < MaxVersion
    BY <1>1, CommitLocals DEF Session, Versions
  <2> QED BY <2>1, BoundsAssumption DEF next_version, Versions
<1> HIDE DEF t, v
<1>4. pc' = [pc EXCEPT ![w] = "puts"] /\ "puts" \in CommitPcs
  BY <1>1 DEF TypeOK, CommitPcs
<1>5. CASE body[v] # None
  <2>1. StoreOK' /\ txn' = [txn EXCEPT ![w] = t("exists")]
    BY <1>1, <1>5 DEF PutBody, StoreOK, TypeOK, history, t, v
  <2> QED BY <1>1, <1>2, <1>4, <2>1, CommitGoesOn
<1>6. CASE body[v] = None
  <2>1. PICK out \in Outcomes(PutFaults) :
          /\ body' = IF Lands(out) THEN [body EXCEPT ![v] = txn[w].next] ELSE body
          /\ InFlight(out, [obj |-> "body", at |-> v, val |-> txn[w].next])
          /\ Charge(out)
          /\ txn' = [txn EXCEPT ![w] = t(IF out = "ok" THEN "ok" ELSE "err")]
    BY <1>6 DEF PutBody, t, v
  <2>2. [obj |-> "body", at |-> v, val |-> txn[w].next] \in Request
    BY <1>1, <1>3 DEF Request
  <2>3. StoreOK'
    <3>1. body' \in [Versions -> Manifest \cup {None}]
      BY <1>1, <2>1 DEF TypeOK
    <3>2. late' \subseteq Request
      BY <2>1, <2>2 DEF TypeOK, InFlight
    <3>3. faults' \in 0..MaxFaults
      BY <2>1, ChargeType
    <3> QED BY <3>1, <3>2, <3>3 DEF PutBody, StoreOK, TypeOK, history
  <2>4. t(IF out = "ok" THEN "ok" ELSE "err") \in Txn
    BY <1>2
  <2> QED BY <1>1, <1>4, <2>1, <2>3, <2>4, CommitGoesOn
<1> QED BY <1>5, <1>6

\* put_body judges a body that is already there.
LEMMA BodyExistsType ==
  ASSUME TypeOK, NEW w \in Writers, BodyExists(w)
  PROVE  TypeOK'
<1>1. /\ pc[w] = "puts" /\ pc[w] \in CommitPcs /\ txn[w] \in Txn /\ UNCHANGED <<pc, sess, claim>>
      /\ StoreOK'
  BY CommitLocals DEF BodyExists, CommitPcs, StoreOK, TypeOK, store, history
<1>2. PICK o \in {"ok", "err", "fenced", "cas"} :
        txn' = [txn EXCEPT ![w] = [txn[w] EXCEPT !.body = o]]
  BY DEF BodyExists
<1>3. [txn[w] EXCEPT !.body = o] \in Txn
  BY <1>1 DEF Txn
<1>4. pc' = [pc EXCEPT ![w] = "puts"] /\ "puts" \in CommitPcs
  BY <1>1 DEF TypeOK, CommitPcs
<1> QED BY <1>1, <1>2, <1>3, <1>4, CommitGoesOn

\* The two PUTs of a commit are joined.
LEMMA JoinPutsType ==
  ASSUME TypeOK, NEW w \in Writers, JoinPuts(w)
  PROVE  TypeOK'
<1>1. pc[w] \in CommitPcs /\ StoreOK' /\ UNCHANGED claim
  BY DEF JoinPuts, CommitPcs, StoreOK, TypeOK, store, history
<1>2. CASE FailCommit(w, FALSE)
  BY <1>1, <1>2, FailCommitType, StepOfOne
<1>3. CASE ~FailCommit(w, FALSE)
  <2>1. PICK l \in {"ptr", "reseq"} : pc' = [pc EXCEPT ![w] = l] /\ UNCHANGED <<sess, txn>>
    BY <1>3 DEF JoinPuts, Goto
  <2>2. l \in CommitPcs
    BY DEF CommitPcs
  <2> QED BY <1>1, <2>1, <2>2, CommitMovesOn
<1> QED BY <1>2, <1>3

\* The orphan-WAL retry moves to a slot above every listed one.
LEMMA ReseqType ==
  ASSUME TypeOK, NEW w \in Writers, Reseq(w)
  PROVE  TypeOK'
<1> DEFINE q == next_seq(sess[w].seq + 1)
<1>1. pc[w] \in CommitPcs /\ StoreOK' /\ UNCHANGED <<sess, claim>> /\ "puts" \in CommitPcs
  BY DEF Reseq, CommitPcs, StoreOK, TypeOK, store, history
<1>2. sess[w] \in Session /\ sess[w].seq \in 1..(MaxSeq + 1)
  BY <1>1, CommitLocals DEF Session
<1>3. q \in Seqs
  <2>1. CASE Occupied = {}
    BY <2>1, <1>2, BoundsAssumption DEF next_seq, Reseq, Seqs
  <2>2. CASE Occupied # {}
    <3>1. q = next_seq(1)
      BY <2>2 DEF next_seq
    <3>2. 1 \in 1..(MaxSeq + 1)
      BY BoundsAssumption
    <3>3. q \in 1..(MaxSeq + 1)
      BY <3>1, <3>2, NextSeqType
    <3>4. q <= MaxSeq
      BY DEF Reseq
    <3> HIDE DEF q
    <3> QED BY <3>3, <3>4, BoundsAssumption DEF Seqs
  <2> QED BY <2>1, <2>2
<1> HIDE DEF q
<1>4. txn' = [txn EXCEPT ![w] = NewTxn(sess[w], q, TRUE)] /\ pc' = [pc EXCEPT ![w] = "puts"]
  BY DEF Reseq, Goto, q
<1>5. NewTxn(sess[w], q, TRUE) \in Txn
  BY <1>2, <1>3, NewTxnType
<1> QED BY <1>1, <1>4, <1>5, CommitGoesOn

\* A cancelled retry fails the commit.
LEMMA CancelRetryType ==
  ASSUME TypeOK, NEW w \in Writers, CancelRetry(w)
  PROVE  TypeOK'
<1>1. pc[w] \in CommitPcs /\ StoreOK' /\ UNCHANGED claim /\ FailCommit(w, FALSE)
  BY DEF CancelRetry, CommitPcs, StoreOK, TypeOK, store, history
<1> QED BY <1>1, FailCommitType, StepOfOne

\* The pointer PUT of a commit: lost, indeterminate, or sealed.
LEMMA CasPointerType ==
  ASSUME TypeOK, NEW w \in Writers, CasPointer(w)
  PROVE  TypeOK'
<1> DEFINE v == next_version(sess[w].ver)
<1>1. /\ pc[w] \in CommitPcs /\ UNCHANGED claim /\ txn[w] \in Txn /\ txn[w].next \in Manifest
      /\ "ptr_lost" \in CommitPcs /\ "resolve" \in CommitPcs
  BY CommitLocals DEF CasPointer, CommitPcs, Txn
<1>2. v \in Versions
  <2>1. sess[w].ver \in 0..MaxVersion /\ sess[w].ver < MaxVersion
    BY <1>1, CommitLocals DEF Session, Versions
  <2> QED BY <2>1, BoundsAssumption DEF next_version, Versions
<1> HIDE DEF v
<1>3. CASE v \in ptr
  <2>1. StoreOK' /\ pc' = [pc EXCEPT ![w] = "ptr_lost"] /\ UNCHANGED <<sess, txn>>
    BY <1>3 DEF CasPointer, Goto, StoreOK, TypeOK, history, v
  <2> QED BY <1>1, <2>1, CommitMovesOn
<1>4. CASE v \notin ptr
  <2>1. PICK out \in Outcomes(PtrFaults) :
          /\ ptr' = IF Lands(out) THEN ptr \cup {v} ELSE ptr
          /\ InFlight(out, [obj |-> "ptr", at |-> v, val |-> None])
          /\ Charge(out)
          /\ IF out = "ok" THEN SealCommit(w, txn[w].next)
             ELSE Goto(w, "resolve") /\ UNCHANGED <<sess, txn, history>>
    BY <1>4 DEF CasPointer, v
  <2>2. [obj |-> "ptr", at |-> v, val |-> None] \in Request
    BY <1>2 DEF Request
  <2>3. ptr' \subseteq Versions /\ late' \subseteq Request /\ faults' \in 0..MaxFaults
    BY <1>2, <2>1, <2>2, ChargeType DEF TypeOK, InFlight
  <2>4. CASE out = "ok"
    <3>1. MovesOnly(w) /\ MovedOK(w) /\ staged' \subseteq Batches /\ acked' \subseteq Batches
            /\ nacked' \subseteq Batches
      BY <1>1, <2>1, <2>4, SealCommitType
    <3>2. StoreOK'
      BY <2>3, <3>1 DEF CasPointer, StoreOK, TypeOK
    <3> QED BY <3>1, <3>2, StepOfOne
  <2>5. CASE out # "ok"
    <3>1. StoreOK' /\ pc' = [pc EXCEPT ![w] = "resolve"] /\ UNCHANGED <<sess, txn>>
      BY <2>1, <2>3, <2>5 DEF CasPointer, Goto, StoreOK, TypeOK, history
    <3> QED BY <1>1, <3>1, CommitMovesOn
  <2> QED BY <2>4, <2>5
<1> QED BY <1>3, <1>4

\* cas_pointer tells a lost race from an unreadable pointer.
LEMMA PointerExistsType ==
  ASSUME TypeOK, NEW w \in Writers, PointerExists(w)
  PROVE  TypeOK'
<1>1. pc[w] \in CommitPcs /\ StoreOK' /\ UNCHANGED claim /\ "resolve" \in CommitPcs
  <2>1. faults' = faults \/ (faults < MaxFaults /\ faults' = faults + 1)
    BY DEF PointerExists
  <2>2. faults' \in 0..MaxFaults
    BY <2>1, BoundsAssumption DEF TypeOK
  <2>3. /\ pc[w] \in CommitPcs /\ "resolve" \in CommitPcs
        /\ UNCHANGED <<store, late, claim, history, opens>>
    BY DEF PointerExists, CommitPcs
  <2> QED BY <2>2, <2>3 DEF StoreOK, TypeOK, store, history
<1>2. CASE FailCommit(w, FALSE)
  BY <1>1, <1>2, FailCommitType, StepOfOne
<1>3. CASE ~FailCommit(w, FALSE)
  <2>1. pc' = [pc EXCEPT ![w] = "resolve"] /\ UNCHANGED <<sess, txn>>
    BY <1>3 DEF PointerExists, Goto
  <2> QED BY <1>1, <2>1, CommitMovesOn
<1> QED BY <1>2, <1>3

\* resolve_failed_pointer_cas decides from a fresh read.
LEMMA ResolveCasType ==
  ASSUME TypeOK, NEW w \in Writers, ResolveCas(w)
  PROVE  TypeOK'
<1>1. /\ pc[w] \in CommitPcs /\ UNCHANGED claim /\ "del_body" \in CommitPcs
      /\ UNCHANGED <<store, late, opens>>
  BY DEF ResolveCas, CommitPcs
<1>2. faults' \in 0..MaxFaults
  <2>1. faults' = faults \/ (faults < MaxFaults /\ faults' = faults + 1)
    BY DEF ResolveCas
  <2>2. faults \in 0..MaxFaults
    BY DEF TypeOK
  <2> QED BY <2>1, <2>2, BoundsAssumption
<1>3. CASE UNCHANGED history /\ \E terminal \in BOOLEAN : FailCommit(w, terminal)
  <2>1. StoreOK'
    BY <1>1, <1>2, <1>3 DEF StoreOK, TypeOK, store, history
  <2> QED BY <1>1, <1>3, <2>1, FailCommitType, StepOfOne
<1>4. CASE Loadable /\ SealCommit(w, Current)
  <2>1. MovesOnly(w) /\ MovedOK(w) /\ staged' \subseteq Batches /\ acked' \subseteq Batches
          /\ nacked' \subseteq Batches
    BY <1>1, <1>4, CurrentType, SealCommitType
  <2>2. StoreOK'
    BY <1>1, <1>2, <2>1 DEF StoreOK, TypeOK, store
  <2> QED BY <2>1, <2>2, StepOfOne
<1>5. CASE Goto(w, "del_body") /\ UNCHANGED <<sess, txn, history>>
  <2>1. StoreOK'
    BY <1>1, <1>2, <1>5 DEF StoreOK, TypeOK, store, history
  <2> QED BY <1>1, <1>5, <2>1, CommitMovesOn DEF Goto
<1> QED BY <1>3, <1>4, <1>5 DEF ResolveCas

\* The two DELETEs that follow a definitive failure.
LEMMA DeleteOrphanType ==
  ASSUME TypeOK, NEW w \in Writers, DeleteOrphanBody(w) \/ DeleteOrphanWal(w)
  PROVE  TypeOK'
<1>1. pc[w] \in CommitPcs /\ UNCHANGED claim /\ "del_wal" \in CommitPcs
  BY DEF DeleteOrphanBody, DeleteOrphanWal, CommitPcs
<1>2. BatchesOf(sess[w].pending) \subseteq Batches
  <2>1. sess[w].pending \in Seq(Record)
    BY <1>1, CommitLocals DEF Session
  <2>2. \A i \in DOMAIN sess[w].pending : sess[w].pending[i] \in Record
    BY <2>1
  <2>3. \A r \in Record : r.b \in Batches
    BY DEF Record
  <2> QED BY <2>2, <2>3 DEF BatchesOf
<1>3. StoreOK'
  <2>1. faults' \in 0..MaxFaults
    <3>1. faults' = faults \/ (faults < MaxFaults /\ faults' = faults + 1)
      BY DEF DeleteOrphanBody, DeleteOrphanWal
    <3>2. faults \in 0..MaxFaults
      BY DEF TypeOK
    <3> QED BY <3>1, <3>2, BoundsAssumption
  <2>2. body' \in [Versions -> Manifest \cup {None}] /\ wal' \in [Seqs -> Seq(Record) \cup {None}]
    BY DEF DeleteOrphanBody, DeleteOrphanWal, BodyDeleted, TypeOK
  <2>3. nacked' \subseteq Batches /\ acked' = acked /\ staged' = staged
    BY <1>2 DEF DeleteOrphanBody, DeleteOrphanWal, TypeOK, history
  <2> QED BY <2>1, <2>2, <2>3 DEF DeleteOrphanBody, DeleteOrphanWal, StoreOK, TypeOK
<1>4. CASE \E terminal \in BOOLEAN : FailCommit(w, terminal)
  BY <1>1, <1>3, <1>4, FailCommitType, StepOfOne
<1>5. CASE Goto(w, "del_wal") /\ UNCHANGED <<sess, txn>>
  BY <1>1, <1>3, <1>5, CommitMovesOn DEF Goto
<1> QED BY <1>4, <1>5 DEF DeleteOrphanBody, DeleteOrphanWal

\* A crash forgets everything the process held.
LEMMA CrashType ==
  ASSUME TypeOK, NEW w \in Writers, Crash(w)
  PROVE  TypeOK'
<1>1. faults' \in 0..MaxFaults
  BY BoundsAssumption DEF Crash, TypeOK
<1>2. StoreOK'
  BY <1>1 DEF Crash, StoreOK, TypeOK, store, history
<1>3. /\ pc'[w] = "down" /\ sess'[w] = None /\ claim'[w] = None /\ txn'[w] = None
      /\ MovesOnly(w)
  BY DEF Crash, Goto, TypeOK, MovesOnly
<1>4. MovedOK(w)
  BY <1>3 DEF MovedOK, Locals, ClaimPcs, CommitPcs, RepairPcs, Labels
<1> QED BY <1>2, <1>3, <1>4, StepOfOne

\* A PUT that arrives late stores what the request carried.
LEMMA LatePutType ==
  ASSUME TypeOK, LatePut
  PROVE  TypeOK'
<1>1. PICK req \in late :
        /\ late' = late \ {req}
        /\ body' = IF req.obj = "body" /\ body[req.at] = None
                   THEN [body EXCEPT ![req.at] = req.val] ELSE body
        /\ wal' = IF req.obj = "wal" /\ wal[req.at] = None
                  THEN [wal EXCEPT ![req.at] = req.val] ELSE wal
        /\ ptr' = IF req.obj = "ptr" THEN ptr \cup {req.at} ELSE ptr
        /\ UNCHANGED <<pc, sess, claim, txn, history, opens, faults>>
  BY DEF LatePut
<1>2. req \in Request
  BY DEF TypeOK
<1>3. /\ req.obj = "body" => req.val \in Manifest
      /\ req.obj = "wal" => req.val \in Seq(Record)
      /\ req.obj = "ptr" => req.at \in Versions
  BY <1>2 DEF Request
<1>4. body' \in [Versions -> Manifest \cup {None}]
  BY <1>1, <1>3 DEF TypeOK
<1>5. wal' \in [Seqs -> Seq(Record) \cup {None}]
  BY <1>1, <1>3 DEF TypeOK
<1>6. ptr' \subseteq Versions /\ late' \subseteq Request
  BY <1>1, <1>3 DEF TypeOK
<1> QED BY <1>1, <1>4, <1>5, <1>6 DEF TypeOK, history, Locals

\* Every step keeps the shape of the state.
LEMMA TypeStep ==
  ASSUME TypeOK, [Next]_vars
  PROVE  TypeOK'
<1>1. CASE LatePut
  BY <1>1, LatePutType
<1>2. CASE UNCHANGED vars
  BY <1>2 DEF TypeOK, vars, store, history, Locals
<1>3. ASSUME NEW w \in Writers, OpenStep(w) PROVE TypeOK'
  BY <1>3, LoadForOpenType, BootBodyType, BootPtrType, ClaimLoadType, ClaimBodyType,
     ClaimPtrType, ClaimLostType, RepairVerdictType, RepairGetType, RepairEndType, RecoverType
     DEF OpenStep
<1>4. ASSUME NEW w \in Writers, CommitStep(w) PROVE TypeOK'
  BY <1>4, PutWalType, PutBodyType, BodyExistsType, JoinPutsType, ReseqType, CancelRetryType,
     CasPointerType, PointerExistsType, ResolveCasType, DeleteOrphanType
     DEF CommitStep
<1>5. ASSUME NEW w \in Writers,
             \/ Open(w) \/ Reopen(w) \/ OpenFault(w) \/ Rollback(w) \/ StartCommit(w) \/ Crash(w)
             \/ \E b \in Batches : Stage(w, b)
      PROVE TypeOK'
  BY <1>5, OpenType, OpenFaultType, StageType, RollbackType, StartCommitType, CrashType
<1> QED BY <1>1, <1>2, <1>3, <1>4, <1>5 DEF Next

\* The empty namespace has the right shape.
LEMMA TypeInit ==
  ASSUME Init
  PROVE  TypeOK
<1>1. \A w \in Writers : Locals(pc[w], sess[w], claim[w], txn[w])
  BY DEF Init, Locals, ClaimPcs, CommitPcs, RepairPcs
<1>2. StoreOK
  BY BoundsAssumption DEF Init, StoreOK
<1>3. /\ pc \in [Writers -> Labels] /\ sess \in [Writers -> Session \cup {None}]
      /\ claim \in [Writers -> Claim \cup {None}] /\ txn \in [Writers -> Txn \cup {None}]
  BY DEF Init, Labels
<1> QED BY <1>1, <1>2, <1>3 DEF TypeOK, StoreOK

\* Every variable keeps its shape and every process holds exactly the locals
\* its place in the code has, for any number of writers, opens and faults.
THEOREM TypeCorrect == Spec => []TypeOK
BY TypeInit, TypeStep, PTL DEF Spec

-----------------------------------------------------------------------------
(* The pointer family of a namespace is the versions 0..N with no gap and   *)
(* only grows, whichever of any number of writers bootstrap, claim, repair  *)
(* and commit at once, and however late a pointer PUT lands.                *)

\* What PointerFamily says of one process.
Bases == RepairPcs \cup {"claim_body", "claim_ptr", "claim_lost", "recover"}
Anchored(w) ==
  /\ pc[w] \in {"load", "boot_body", "boot_ptr"} => claim[w].ver = 0
  /\ pc[w] \in Bases => claim[w].ver \in ptr
  /\ sess[w] # None => sess[w].ver \in ptr

OthersStay(w) ==
  \A x \in Writers \ {w} : pc'[x] = pc[x] /\ claim'[x] = claim[x] /\ sess'[x] = sess[x]

\* The pointers in flight after a step were in flight before it, or have
\* their predecessor published.
LateExtends == \A req \in late' : req.obj = "ptr" => req \in late \/ req.at - 1 \in ptr

\* Publishing version 0, or the successor of a published one, leaves no gap.
LEMMA ExtendsFamily ==
  ASSUME PointersContiguous, ptr \subseteq Nat, NEW v \in Nat, v = 0 \/ v - 1 \in ptr,
         ptr' = ptr \/ ptr' = ptr \cup {v}
  PROVE  PointersContiguous'
<1> SUFFICES ASSUME NEW x \in ptr', NEW u \in 0..x PROVE u \in ptr'
  BY DEF PointersContiguous
<1>1. CASE x \in ptr
  BY <1>1 DEF PointersContiguous
<1>2. CASE x \notin ptr
  <2>1. x = v /\ u \in 0..v
    BY <1>2
  <2>2. CASE u = v
    BY <2>1, <2>2
  <2>3. CASE u # v
    <3>1. v - 1 \in ptr /\ u \in 0..(v - 1)
      BY <2>1, <2>3
    <3> QED BY <3>1 DEF PointersContiguous
  <2> QED BY <2>2, <2>3
<1> QED BY <1>1, <1>2

\* A step of one process that adds at most one pointer, a successor.
LEMMA FamilyKept ==
  ASSUME PointerFamily, TypeOK, NEW w \in Writers, OthersStay(w), Anchored(w)', LateExtends,
         NEW v \in Nat, v = 0 \/ v - 1 \in ptr, ptr' = ptr \/ ptr' = ptr \cup {v}
  PROVE  PointerFamily'
<1>1. ptr \subseteq Nat /\ ptr \subseteq ptr'
  BY BoundsAssumption DEF TypeOK, Versions
<1>2. PointersContiguous'
  BY <1>1, ExtendsFamily DEF PointerFamily
<1>3. \A req \in late' : req.obj = "ptr" => req.at - 1 \in ptr'
  BY <1>1 DEF LateExtends, PointerFamily
<1>4. \A x \in Writers : Anchored(x)'
  BY <1>1 DEF Anchored, OthersStay, PointerFamily, Bases
<1> QED BY <1>2, <1>3, <1>4 DEF PointerFamily, Anchored, Bases

\* The same, when no pointer is published.
LEMMA FamilyStill ==
  ASSUME PointerFamily, TypeOK, NEW w \in Writers, OthersStay(w), Anchored(w)', LateExtends,
         UNCHANGED ptr
  PROVE  PointerFamily'
<1>1. 0 \in Nat
  OBVIOUS
<1> QED BY <1>1, FamilyKept

\* A process that leaves an open or a commit keeps a published base.
LEMMA LeavesAnchored ==
  ASSUME PointerFamily, NEW w \in Writers, ptr \subseteq ptr', pc'[w] \notin ClaimPcs,
         sess'[w] # None => sess'[w].ver \in ptr' \/ (sess[w] # None /\ sess'[w].ver = sess[w].ver)
  PROVE  Anchored(w)'
BY DEF Anchored, PointerFamily, ClaimPcs, RepairPcs, Bases

\* A process that goes on with an open keeps the base it has.
LEMMA OpenAnchored ==
  ASSUME PointerFamily, NEW w \in Writers, ptr \subseteq ptr', UNCHANGED sess,
         pc'[w] \in Bases => claim'[w].ver \in ptr' \/ (pc[w] \in Bases /\ claim'[w].ver = claim[w].ver),
         pc'[w] \in {"load", "boot_body", "boot_ptr"} => claim'[w].ver = 0
  PROVE  Anchored(w)'
BY DEF Anchored, PointerFamily, Bases

\* FailOpen, from any label.
LEMMA FailOpenAnchored ==
  ASSUME PointerFamily, TypeOK, NEW w \in Writers, ptr \subseteq ptr', FailOpen(w), UNCHANGED sess
  PROVE  Anchored(w)' /\ OthersStay(w)
<1>1. pc'[w] \notin ClaimPcs /\ OthersStay(w)
  BY DEF FailOpen, Goto, TypeOK, ClaimPcs, OthersStay
<1> QED BY <1>1, LeavesAnchored

\* A new claim starts at version 0, before it has loaded a base.
LEMMA OpenFamily ==
  ASSUME PointerFamily, TypeOK, NEW w \in Writers, Open(w) \/ Reopen(w)
  PROVE  PointerFamily'
<1>1. PICK mine : StartOpen(w, mine)
  BY DEF Open, Reopen
<1>2. pc'[w] = "load" /\ claim'[w].ver = 0 /\ OthersStay(w) /\ UNCHANGED <<sess, ptr, late>>
  BY <1>1 DEF StartOpen, Goto, NewClaim, TypeOK, OthersStay, store
<1>3. Anchored(w)' /\ LateExtends
  BY <1>2, OpenAnchored DEF Bases, RepairPcs, LateExtends
<1> QED BY <1>2, <1>3, FamilyStill

\* bootstrap is about version 0.
LEMMA BootFamily ==
  ASSUME PointerFamily, TypeOK, NEW w \in Writers, LoadForOpen(w) \/ BootBody(w)
  PROVE  PointerFamily'
<1>1. /\ claim[w].ver = 0 /\ pc[w] \in ClaimPcs
      /\ UNCHANGED <<sess, ptr, late>> /\ LateExtends /\ OthersStay(w)
  BY DEF LoadForOpen, BootBody, PointerFamily, OthersStay, Goto, TypeOK, store, LateExtends,
         ClaimPcs
<1>2. pc'[w] \in {"claim", "boot_body", "boot_ptr"}
  BY DEF LoadForOpen, BootBody, Goto, TypeOK
<1>3. claim'[w].ver = 0
  <2>1. claim[w] \in Claim
    BY <1>1, OpenLocals
  <2> QED BY <1>1, <2>1 DEF LoadForOpen, BootBody, TypeOK, Claim
<1>4. Anchored(w)'
  BY <1>1, <1>2, <1>3, OpenAnchored DEF Bases, RepairPcs
<1> QED BY <1>1, <1>4, FamilyStill

\* bootstrap publishes version 0, and recovers on it.
LEMMA BootPtrFamily ==
  ASSUME PointerFamily, TypeOK, NEW w \in Writers, BootPtr(w)
  PROVE  PointerFamily'
<1>1. /\ claim[w].ver = 0 /\ ptr' = ptr \cup {0} /\ UNCHANGED <<sess, late>> /\ LateExtends
  BY DEF BootPtr, PointerFamily, LateExtends
<1>2. Anchored(w)' /\ OthersStay(w)
  <2>1. CASE FailOpen(w)
    BY <1>1, <2>1, FailOpenAnchored
  <2>2. CASE ~FailOpen(w)
    <3>1. pc'[w] = "recover" /\ claim' = claim /\ OthersStay(w)
      BY <1>1, <2>2 DEF BootPtr, Goto, TypeOK, OthersStay
    <3> QED BY <1>1, <3>1, OpenAnchored
  <2> QED BY <2>1, <2>2
<1>3. 0 \in Nat
  OBVIOUS
<1> QED BY <1>1, <1>2, <1>3, FamilyKept

\* What a claim loads is published.
LEMMA ClaimLoadFamily ==
  ASSUME PointerFamily, TypeOK, NEW w \in Writers, ClaimLoad(w)
  PROVE  PointerFamily'
<1>1. UNCHANGED <<sess, ptr, late>> /\ LateExtends
  BY DEF ClaimLoad, store, LateExtends
<1>2. Anchored(w)' /\ OthersStay(w)
  <2>1. CASE FailOpen(w)
    BY <1>1, <2>1, FailOpenAnchored
  <2>2. CASE ~FailOpen(w)
    <3>1. claim[w] \in Claim
      BY OpenLocals DEF ClaimLoad, ClaimPcs
    <3>2. /\ pc'[w] = "claim_body" /\ OthersStay(w) /\ Loadable
          /\ claim'[w] = [claim[w] EXCEPT !.ver = Top, !.man = Current]
      BY <2>2 DEF ClaimLoad, Goto, TypeOK, OthersStay
    <3>3. claim'[w].ver = Top
      BY <3>1, <3>2 DEF Claim
    <3>4. Top \in ptr
      BY <3>2, CurrentType
    <3> QED BY <1>1, <3>2, <3>3, <3>4, OpenAnchored
  <2> QED BY <2>1, <2>2
<1> QED BY <1>1, <1>2, FamilyStill

\* The body PUT of a claim leaves its base alone.
LEMMA ClaimBodyFamily ==
  ASSUME PointerFamily, TypeOK, NEW w \in Writers, ClaimBody(w)
  PROVE  PointerFamily'
<1>1. UNCHANGED <<sess, ptr>> /\ pc[w] \in Bases
  BY DEF ClaimBody, Bases
<1>2. LateExtends
  BY DEF ClaimBody, InFlight, LateExtends
<1>3. Anchored(w)' /\ OthersStay(w)
  <2>1. CASE FailOpen(w)
    BY <1>1, <2>1, FailOpenAnchored
  <2>2. CASE ~FailOpen(w)
    <3>1. pc'[w] \in {"claim_lost", "claim_ptr"} /\ claim' = claim /\ OthersStay(w)
      BY <2>2 DEF ClaimBody, Goto, TypeOK, OthersStay
    <3> QED BY <1>1, <3>1, OpenAnchored
  <2> QED BY <2>1, <2>2
<1> QED BY <1>1, <1>2, <1>3, FamilyStill

\* The version a claim, a repair or a commit publishes is a successor.
LEMMA Successor ==
  ASSUME PointerFamily, TypeOK, NEW v \in ptr
  PROVE  next_version(v) \in Nat /\ next_version(v) - 1 \in ptr
<1>1. v \in Nat
  <2>1. v \in 0..MaxVersion
    BY DEF TypeOK, Versions
  <2> QED BY <2>1
<1>2. next_version(v) = v + 1 /\ (v + 1) - 1 = v
  BY <1>1 DEF next_version
<1> QED BY <1>1, <1>2

\* The pointer PUT of a claim, landed or still in flight, is for the successor of a
\* published version.
LEMMA ClaimPtrFamily ==
  ASSUME PointerFamily, TypeOK, NEW w \in Writers, ClaimPtr(w)
  PROVE  PointerFamily'
<1> DEFINE v == next_version(claim[w].ver)
<1>1. pc[w] = "claim_ptr" /\ UNCHANGED sess /\ pc[w] \in Bases /\ claim[w].ver \in ptr
  BY DEF ClaimPtr, Bases, PointerFamily
<1>2. v \in Nat /\ v - 1 \in ptr
  BY <1>1, Successor
<1> HIDE DEF v
<1>3. ptr' = ptr \/ ptr' = ptr \cup {v}
  BY DEF ClaimPtr, v
<1>4. LateExtends
  BY <1>2 DEF ClaimPtr, InFlight, LateExtends, v
<1>5. Anchored(w)' /\ OthersStay(w)
  <2>1. CASE FailOpen(w)
    BY <1>1, <1>3, <2>1, FailOpenAnchored
  <2>2. CASE ~FailOpen(w) /\ v \in ptr
    <3>1. pc'[w] = "claim_lost" /\ claim' = claim /\ OthersStay(w)
      BY <2>2 DEF ClaimPtr, Goto, TypeOK, OthersStay, v
    <3> QED BY <1>1, <1>3, <3>1, OpenAnchored
  <2>3. CASE ~FailOpen(w) /\ v \notin ptr
    <3>1. claim[w] \in Claim
      BY <1>1, OpenLocals DEF ClaimPcs
    <3>2. /\ pc'[w] = "recover" /\ OthersStay(w) /\ v \in ptr'
          /\ claim'[w] = [claim[w] EXCEPT !.ver = v, !.man = Claimed(claim[w])]
      BY <2>3 DEF ClaimPtr, Goto, TypeOK, OthersStay, v, Lands
    <3>3. claim'[w].ver = v
      BY <3>1, <3>2 DEF Claim
    <3> QED BY <1>1, <1>3, <3>2, <3>3, OpenAnchored
  <2> QED BY <2>1, <2>2, <2>3
<1> QED BY <1>2, <1>3, <1>4, <1>5, FamilyKept

\* A lost claim keeps its base.
LEMMA ClaimLostFamily ==
  ASSUME PointerFamily, TypeOK, NEW w \in Writers, ClaimLost(w)
  PROVE  PointerFamily'
<1>1. /\ UNCHANGED <<sess, ptr, late>> /\ LateExtends /\ pc[w] \in Bases /\ claim[w] \in Claim
  BY OpenLocals DEF ClaimLost, store, LateExtends, Bases, ClaimPcs
<1>2. Anchored(w)' /\ OthersStay(w)
  <2>1. CASE FailOpen(w)
    BY <1>1, <2>1, FailOpenAnchored
  <2>2. CASE ~FailOpen(w)
    <3>1. pc'[w] \in {"repair_head", "claim"} /\ OthersStay(w)
      BY <2>2 DEF ClaimLost, Goto, TypeOK, OthersStay
    <3>2. PICK st, ps, la : claim' = [claim EXCEPT ![w] =
                              [claim[w] EXCEPT !.last = la, !.stalled = st, !.passes = ps]]
      BY <2>2, Zenon DEF ClaimLost
    <3> DEFINE d == [claim[w] EXCEPT !.last = la, !.stalled = st, !.passes = ps]
    <3>3. d.ver = claim[w].ver
      BY <1>1 DEF Claim
    <3> HIDE DEF d
    <3>4. claim'[w].ver = claim[w].ver
      BY <3>2, <3>3 DEF TypeOK, d
    <3> QED BY <1>1, <3>1, <3>4, OpenAnchored
  <2> QED BY <2>1, <2>2
<1> QED BY <1>1, <1>2, FamilyStill

\* A repair publishes the successor of its base, or nothing.
LEMMA RepairFamily ==
  ASSUME PointerFamily, TypeOK, NEW w \in Writers,
         RepairHead(w) \/ RepairGet(w) \/ RepairWal(w) \/ RepairFence(w) \/ RepairPub(w) \/ RepairDel(w)
  PROVE  PointerFamily'
<1> DEFINE v == next_version(claim[w].ver)
<1>1. pc[w] \in RepairPcs
  BY DEF RepairHead, RepairGet, RepairWal, RepairFence, RepairPub, RepairDel, RepairPcs
<1>2. claim[w] \in Claim /\ pc[w] \in Bases /\ claim[w].ver \in ptr
  BY <1>1, RepairLocals DEF Bases, PointerFamily
<1>3. v \in Nat /\ v - 1 \in ptr
  BY <1>2, Successor
<1>4. ptr' = ptr \/ ptr' = ptr \cup {v}
  BY DEF RepairHead, RepairGet, RepairWal, RepairFence, RepairPub, RepairDel, store
<1>5. UNCHANGED <<sess, late>> /\ LateExtends
  BY DEF RepairHead, RepairGet, RepairWal, RepairFence, RepairPub, RepairDel, LateExtends
<1>6. pc'[w] \in RepairPcs \cup {"claim"}
  BY DEF RepairHead, RepairGet, RepairWal, RepairFence, RepairPub, RepairDel, Goto, TypeOK,
         RepairPcs
<1>7. OthersStay(w)
  BY DEF RepairHead, RepairGet, RepairWal, RepairFence, RepairPub, RepairDel, Goto, TypeOK,
         OthersStay
<1>8. claim'[w].ver = claim[w].ver
  <2>1. claim' = claim \/ \E o : claim' = [claim EXCEPT ![w] = [claim[w] EXCEPT !.orphan = o]]
    BY DEF RepairHead, RepairGet, RepairWal, RepairFence, RepairPub, RepairDel
  <2>2. \A o : [claim[w] EXCEPT !.orphan = o].ver = claim[w].ver
    BY <1>2 DEF Claim
  <2>3. CASE claim' = claim
    BY <2>3
  <2>4. CASE claim' # claim
    <3>1. PICK o : claim' = [claim EXCEPT ![w] = [claim[w] EXCEPT !.orphan = o]]
      BY <2>1, <2>4
    <3> DEFINE d == [claim[w] EXCEPT !.orphan = o]
    <3>2. d.ver = claim[w].ver
      BY <2>2
    <3> HIDE DEF d
    <3>3. claim'[w] = d
      BY <3>1 DEF TypeOK, d
    <3> QED BY <3>2, <3>3
  <2> QED BY <2>3, <2>4
<1>9. Anchored(w)'
  BY <1>2, <1>4, <1>5, <1>6, <1>8, OpenAnchored DEF RepairPcs
<1> HIDE DEF v
<1> QED BY <1>3, <1>4, <1>5, <1>7, <1>9, FamilyKept

\* The session of an open stands on the version the open published.
LEMMA RecoverFamily ==
  ASSUME PointerFamily, TypeOK, NEW w \in Writers, Recover(w) \/ OpenFault(w)
  PROVE  PointerFamily'
<1>1. UNCHANGED <<ptr, late>> /\ LateExtends
  BY DEF Recover, OpenFault, store, LateExtends
<1>2. Anchored(w)' /\ OthersStay(w)
  <2>1. CASE FailOpen(w) /\ UNCHANGED sess
    BY <1>1, <2>1, FailOpenAnchored
  <2>2. CASE ~(FailOpen(w) /\ UNCHANGED sess)
    <3>1. pc[w] = "recover" /\ pc'[w] = "open" /\ OthersStay(w)
      BY <2>2 DEF Recover, OpenFault, Goto, TypeOK, OthersStay
    <3>2. sess'[w].ver = claim[w].ver
      BY <2>2 DEF Recover, OpenFault, TypeOK
    <3>3. claim[w].ver \in ptr
      BY <3>1 DEF PointerFamily
    <3> QED BY <1>1, <3>1, <3>2, <3>3, LeavesAnchored DEF ClaimPcs
  <2> QED BY <2>1, <2>2
<1> QED BY <1>1, <1>2, FamilyStill

\* What leaves the session's base alone: staging, and a commit up to its
\* pointer.
LEMMA SameBase ==
  ASSUME PointerFamily, TypeOK, NEW w \in Writers, pc'[w] \notin ClaimPcs, OthersStay(w),
         sess'[w] # None => sess[w] # None /\ sess'[w].ver = sess[w].ver, LateExtends, UNCHANGED ptr
  PROVE  PointerFamily'
<1>1. Anchored(w)'
  BY LeavesAnchored
<1> QED BY <1>1, FamilyStill

\* Staging, rollback, the start of a commit and a crash publish nothing.
LEMMA StagingFamily ==
  ASSUME PointerFamily, TypeOK, NEW w \in Writers,
         Rollback(w) \/ StartCommit(w) \/ Crash(w) \/ \E b \in Batches : Stage(w, b)
  PROVE  PointerFamily'
<1>1. UNCHANGED <<ptr, late>> /\ LateExtends
  BY DEF Rollback, StartCommit, Crash, Stage, store, LateExtends
<1>2. pc'[w] \notin ClaimPcs /\ OthersStay(w)
  BY DEF Rollback, StartCommit, Crash, Stage, Goto, TypeOK, OthersStay, ClaimPcs
<1>3. sess'[w] # None => sess[w] # None /\ sess'[w].ver = sess[w].ver
  <2>1. CASE Crash(w)
    BY <2>1 DEF Crash, TypeOK
  <2>2. CASE ~Crash(w)
    <3>1. sess[w] \in Session
      BY <2>2 DEF Rollback, StartCommit, Stage, TypeOK, Locals
    <3>2. CASE StartCommit(w)
      BY <3>1, <3>2, NoneAssumption DEF StartCommit
    <3>3. CASE Rollback(w)
      <4>1. PICK p : sess' = [sess EXCEPT ![w] = [sess[w] EXCEPT !.pending = p]]
        BY <3>3 DEF Rollback
      <4> DEFINE d == [sess[w] EXCEPT !.pending = p]
      <4>2. d.ver = sess[w].ver
        BY <3>1 DEF Session
      <4> HIDE DEF d
      <4>3. sess'[w] = d
        BY <4>1 DEF TypeOK, d
      <4> QED BY <3>1, <4>2, <4>3, NoneAssumption
    <3>4. CASE \E b \in Batches : Stage(w, b)
      <4>1. PICK p, n : sess' = [sess EXCEPT ![w] = [sess[w] EXCEPT !.pending = p, !.next_lsn = n]]
        BY <3>4, Zenon DEF Stage
      <4> DEFINE d == [sess[w] EXCEPT !.pending = p, !.next_lsn = n]
      <4>2. d.ver = sess[w].ver
        BY <3>1 DEF Session
      <4> HIDE DEF d
      <4>3. sess'[w] = d
        BY <4>1 DEF TypeOK, d
      <4> QED BY <3>1, <4>2, <4>3, NoneAssumption
    <3> QED BY <2>2, <3>2, <3>3, <3>4
  <2> QED BY <2>1, <2>2
<1> QED BY <1>1, <1>2, <1>3, SameBase

\* FailCommit keeps the base; the labels of a commit are no labels of an open.
LEMMA FailCommitBase ==
  ASSUME TypeOK, NEW w \in Writers, pc[w] \in CommitPcs, NEW terminal,
         FailCommit(w, terminal), UNCHANGED claim
  PROVE  /\ sess[w] # None /\ sess'[w].ver = sess[w].ver /\ pc'[w] \notin ClaimPcs
         /\ OthersStay(w)
<1>1. sess[w] \in Session
  BY CommitLocals
<1>2. \A p : [sess[w] EXCEPT !.poisoned = p].ver = sess[w].ver
  BY <1>1 DEF Session
<1> QED BY <1>1, <1>2, NoneAssumption DEF FailCommit, Goto, TypeOK, OthersStay, ClaimPcs

\* SealCommit advances the base by one version.
LEMMA SealCommitBase ==
  ASSUME TypeOK, NEW w \in Writers, pc[w] \in CommitPcs, NEW man,
         SealCommit(w, man), UNCHANGED claim
  PROVE  sess'[w].ver = next_version(sess[w].ver) /\ pc'[w] \notin ClaimPcs /\ OthersStay(w)
<1>1. sess[w] \in Session
  BY CommitLocals
<1>2. PICK q, p, m : sess' = [sess EXCEPT ![w] = [sess[w] EXCEPT !.ver = sess[w].ver + 1, !.man = man,
                       !.seq = q, !.pending = p, !.memtable = m]]
  BY Zenon DEF SealCommit
<1>3. [sess[w] EXCEPT !.ver = sess[w].ver + 1, !.man = man,
         !.seq = q, !.pending = p, !.memtable = m].ver = sess[w].ver + 1
  BY <1>1 DEF Session
<1>4. sess'[w].ver = next_version(sess[w].ver)
  BY <1>2, <1>3 DEF TypeOK, next_version
<1> QED BY <1>4 DEF SealCommit, Goto, TypeOK, OthersStay, ClaimPcs

\* The steps of a commit other than its pointer publish nothing.
LEMMA CommitFamily ==
  ASSUME PointerFamily, TypeOK, NEW w \in Writers,
         \/ PutWal(w) \/ PutBody(w) \/ BodyExists(w) \/ JoinPuts(w) \/ Reseq(w) \/ CancelRetry(w)
         \/ PointerExists(w) \/ DeleteOrphanBody(w) \/ DeleteOrphanWal(w)
  PROVE  PointerFamily'
<1>1. pc[w] \in CommitPcs
  BY DEF PutWal, PutBody, BodyExists, JoinPuts, Reseq, CancelRetry, PointerExists,
         DeleteOrphanBody, DeleteOrphanWal, CommitPcs
<1>2. UNCHANGED <<ptr, claim>> /\ LateExtends
  <2>1. CASE PutWal(w)
    BY <2>1 DEF PutWal, InFlight, LateExtends
  <2>2. CASE PutBody(w)
    BY <2>2 DEF PutBody, InFlight, LateExtends
  <2>3. CASE ~PutWal(w) /\ ~PutBody(w)
    <3>1. UNCHANGED <<ptr, claim, late>>
      BY <2>3 DEF BodyExists, JoinPuts, Reseq, CancelRetry, PointerExists, DeleteOrphanBody,
                  DeleteOrphanWal, store
    <3> QED BY <3>1 DEF LateExtends
  <2> QED BY <2>1, <2>2, <2>3
<1>3. CASE \E terminal : FailCommit(w, terminal)
  BY <1>1, <1>2, <1>3, FailCommitBase, SameBase
<1>4. CASE ~ \E terminal : FailCommit(w, terminal)
  <2>1. UNCHANGED sess
    BY <1>4 DEF PutWal, PutBody, BodyExists, JoinPuts, Reseq, CancelRetry, PointerExists,
         DeleteOrphanBody, DeleteOrphanWal
  <2>2. pc'[w] \notin ClaimPcs /\ OthersStay(w)
    BY <1>2, <1>4, <2>1 DEF PutWal, PutBody, BodyExists, JoinPuts, Reseq, CancelRetry,
         PointerExists, DeleteOrphanBody, DeleteOrphanWal, Goto, TypeOK, OthersStay, ClaimPcs
  <2>3. sess[w] # None
    BY <1>1, CommitLocals, NoneAssumption
  <2> QED BY <1>2, <2>1, <2>2, <2>3, SameBase
<1> QED BY <1>3, <1>4

\* The pointer PUT of a commit is for the successor of its session's base.
LEMMA CasPointerFamily ==
  ASSUME PointerFamily, TypeOK, NEW w \in Writers, CasPointer(w)
  PROVE  PointerFamily'
<1> DEFINE v == next_version(sess[w].ver)
<1>1. pc[w] \in CommitPcs /\ UNCHANGED claim /\ sess[w] # None
  BY CommitLocals, NoneAssumption DEF CasPointer, CommitPcs
<1>2. v \in Nat /\ v - 1 \in ptr
  BY <1>1, Successor DEF PointerFamily
<1> HIDE DEF v
<1>3. ptr' = ptr \/ ptr' = ptr \cup {v}
  BY DEF CasPointer, v
<1>4. LateExtends
  BY <1>2 DEF CasPointer, InFlight, LateExtends, v
<1>5. CASE \E man : SealCommit(w, man) /\ v \in ptr'
  BY <1>1, <1>2, <1>3, <1>4, <1>5, SealCommitBase, LeavesAnchored, FamilyKept DEF v
<1>6. CASE ~ \E man : SealCommit(w, man) /\ v \in ptr'
  <2>1. UNCHANGED sess /\ pc'[w] \notin ClaimPcs /\ OthersStay(w)
    BY <1>1, <1>6 DEF CasPointer, Lands, Goto, TypeOK, ClaimPcs, OthersStay, v
  <2> QED BY <1>1, <1>2, <1>3, <1>4, <2>1, LeavesAnchored, FamilyKept
<1> QED BY <1>5, <1>6

\* A commit found durable after all advances its session to the top pointer.
LEMMA ResolveFamily ==
  ASSUME PointerFamily, TypeOK, NEW w \in Writers, ResolveCas(w)
  PROVE  PointerFamily'
<1>1. /\ pc[w] \in CommitPcs /\ UNCHANGED <<claim, ptr, late>> /\ sess[w] # None /\ LateExtends
  BY CommitLocals, NoneAssumption DEF ResolveCas, CommitPcs, store, LateExtends
<1>2. CASE \E terminal : FailCommit(w, terminal)
  BY <1>1, <1>2, FailCommitBase, SameBase
<1>3. CASE Loadable /\ ProvablyOurs(sess[w], txn[w]) /\ SealCommit(w, Current)
  <2>1. sess'[w].ver \in ptr /\ pc'[w] \notin ClaimPcs /\ OthersStay(w)
    BY <1>1, <1>3, SealCommitBase, CurrentType DEF ProvablyOurs
  <2> QED BY <1>1, <2>1, LeavesAnchored, FamilyStill
<1>4. CASE Goto(w, "del_body") /\ UNCHANGED sess
  <2>1. pc'[w] \notin ClaimPcs /\ OthersStay(w)
    BY <1>1, <1>4 DEF Goto, TypeOK, ClaimPcs, OthersStay
  <2> QED BY <1>1, <1>4, <2>1, SameBase
<1> QED BY <1>2, <1>3, <1>4 DEF ResolveCas

\* A pointer that lands late extends the family, if it is new.
LEMMA LatePutFamily ==
  ASSUME PointerFamily, TypeOK, LatePut
  PROVE  PointerFamily'
<1>1. PICK req \in late :
        /\ late' = late \ {req}
        /\ ptr' = IF req.obj = "ptr" THEN ptr \cup {req.at} ELSE ptr
        /\ UNCHANGED <<pc, sess, claim>>
  BY DEF LatePut
<1>2. ptr \subseteq Nat /\ ptr \subseteq ptr'
  BY <1>1, BoundsAssumption DEF TypeOK, Versions
<1>3. PointersContiguous'
  <2>1. CASE req.obj = "ptr"
    <3>1. req \in Request
      BY DEF TypeOK
    <3>2. req.at \in Nat /\ req.at - 1 \in ptr
      BY <2>1, <3>1, BoundsAssumption DEF Request, Versions, PointerFamily
    <3> QED BY <1>1, <1>2, <2>1, <3>2, ExtendsFamily DEF PointerFamily
  <2>2. CASE req.obj # "ptr"
    BY <1>1, <2>2 DEF PointersContiguous, PointerFamily
  <2> QED BY <2>1, <2>2
<1> QED BY <1>1, <1>2, <1>3 DEF PointerFamily

\* Every step keeps the family contiguous and every base published.
LEMMA FamilyStep ==
  ASSUME PointerFamily, TypeOK, [Next]_vars
  PROVE  PointerFamily'
<1>1. CASE LatePut
  BY <1>1, LatePutFamily
<1>2. CASE UNCHANGED vars
  BY <1>2 DEF PointerFamily, PointersContiguous, vars, store
<1>3. ASSUME NEW w \in Writers, OpenStep(w) PROVE PointerFamily'
  BY <1>3, BootFamily, BootPtrFamily, ClaimLoadFamily, ClaimBodyFamily, ClaimPtrFamily,
     ClaimLostFamily, RepairFamily, RecoverFamily DEF OpenStep
<1>4. ASSUME NEW w \in Writers, CommitStep(w) PROVE PointerFamily'
  BY <1>4, CommitFamily, CasPointerFamily, ResolveFamily DEF CommitStep
<1>5. ASSUME NEW w \in Writers,
             \/ Open(w) \/ Reopen(w) \/ OpenFault(w) \/ Rollback(w) \/ StartCommit(w) \/ Crash(w)
             \/ \E b \in Batches : Stage(w, b)
      PROVE PointerFamily'
  BY <1>5, OpenFamily, RecoverFamily, StagingFamily
<1> QED BY <1>1, <1>2, <1>3, <1>4, <1>5 DEF Next

\* The pointer family has no gap, and every base in use is published, at
\* every moment of every interleaving of any number of writers.
THEOREM FamilyCorrect == Spec => []PointerFamily
<1>1. Init => PointerFamily
  BY DEF Init, PointerFamily, PointersContiguous, RepairPcs
<1> QED BY <1>1, FamilyStep, TypeCorrect, PTL DEF Spec

-----------------------------------------------------------------------------
(* Part two: promises kept in the scope of Scope and OneJudge.             *)

\* The scope of the theorems below: a commit's pointer PUT that reports an
\* error has been applied, or the one process there is sends no PUT that
\* arrives late; and no two repairs judge orphans at once.
PointersLand == PtrFaults \subseteq {"landed"}
Solo == (\A w, x \in Writers : w = x) /\ "late" \notin PutFaults \cup PtrFaults
Scope == PointersLand \/ Solo
Judging == {"repair_wal", "repair_fence", "repair_del"}
OneJudge == \A w, x \in Writers : pc[w] \in Judging /\ pc[x] \in Judging => w = x

\* The manifest m may be the version after base: a claim of the next epoch, or
\* one segment committed by the writer of that epoch, in a slot above the base's.
ClaimOf(m, base) == m.epoch = base.epoch + 1 /\ m.wal = base.wal
CommitOf(m, base) ==
  LET d == m.wal[Len(m.wal)] IN
  /\ m.epoch = base.epoch
  /\ base.epoch > 0 => m.owner = base.owner
  /\ m.wal # <<>> /\ m.wal = Append(base.wal, d) /\ d.recs # <<>>
  /\ \A i \in DOMAIN base.wal : base.wal[i].seq < d.seq

\* m can be published as version v: its base is.
Fits(v, m) ==
  /\ v > 0 /\ v - 1 \in ptr
  /\ ClaimOf(m, body[v - 1]) \/ CommitOf(m, body[v - 1])
  /\ OnceEach(m) /\ Contents(m) \subseteq staged

\* A pointer PUT in flight is a claim's, whose body nobody deletes.
Claims(v) == v > 0 /\ v - 1 \in ptr /\ body[v] # None /\ body[v].wal = body[v - 1].wal

\* Bodies, stored or in flight.
Bodies ==
  /\ \A v \in ptr : body[v] # None
  /\ body[0] # None => body[0].epoch = 0 /\ body[0].wal = <<>>
  /\ \A v \in Versions \ {0} : body[v] # None => Fits(v, body[v])
  /\ \A rq \in late : rq.obj = "body" => Fits(rq.at, rq.val)
  /\ \A rq \in late : rq.obj = "ptr" => Claims(rq.at)

\* The segments of a published version are in their slots.
Present(m) == \A i \in DOMAIN m.wal : wal[m.wal[i].seq] = m.wal[i].recs
Segments == \A v \in ptr : Present(body[v])

\* Published versions form one lineage, and an epoch has one owner.
Chain ==
  /\ \A u, v \in ptr : u <= v => /\ body[u].epoch <= body[v].epoch
                                 /\ Contents(body[u]) \subseteq Contents(body[v])
  /\ \A u, v \in ptr : body[u].epoch = body[v].epoch /\ body[u].epoch > 0
                         => body[u].owner = body[v].owner

Durable == \A b \in acked : \E v \in ptr : b \in Contents(body[v])

\* Only the open that created p0 has epoch 0.
HasZero(w) ==
  \/ sess[w] # None /\ sess[w].epoch = 0
  \/ pc[w] = "recover" /\ claim[w].man.epoch = 0
OneZero ==
  /\ \A w, x \in Writers : HasZero(w) /\ HasZero(x) => w = x
  /\ 0 \notin ptr => \A w \in Writers : ~HasZero(w)

\* A session s of w stands on a published version and knows what is in it;
\* what it has staged is not in it.
SessOK(w, s) ==
  s # None =>
    /\ s.ver \in ptr /\ body[s.ver] = s.man /\ s.epoch = s.man.epoch /\ s.owner[1] = w
    /\ s.epoch > 0 => s.man.owner = s.owner
    /\ s.memtable = RecordsOf(s.man)
    /\ \A i \in DOMAIN s.man.wal : s.man.wal[i].seq < s.seq
    /\ \A i, j \in DOMAIN s.pending : s.pending[i].b = s.pending[j].b => i = j
    /\ BatchesOf(s.pending) \subseteq staged \ Contents(s.man)

\* An open of w with locals c, by where it is. The orphan it judges stays where
\* it is; the one it deletes can no longer be published, since its slot is taken.
Judged == {"repair_wal", "repair_fence", "repair_pub", "repair_del"}
ClaimOK(w, l, c) ==
  LET seg == AddedSegment(c) IN
  /\ l \in ClaimPcs => c.id[1] = w
  /\ l \in Bases \cup {"boot_ptr"} => body[c.ver] = c.man
  /\ l \in Bases => c.ver \in ptr
  /\ l = "claim_ptr" => body[c.ver + 1] = Claimed(c)
  /\ l = "recover" /\ c.man.epoch > 0 => c.man.owner = c.id
  /\ l \in Judged => c.orphan # None /\ body[c.ver + 1] = c.orphan
  /\ l \in {"repair_wal", "repair_fence", "repair_del"} => Added(c) # {}
  /\ l = "repair_pub" => Added(c) = {} \/ wal[seg.seq] = seg.recs
  /\ l = "repair_del" => wal[seg.seq] \notin {None, seg.recs}

\* A commit t of session s: its body is there, or its WAL slot is taken by
\* something else and it will not be published.
CommitOK(l, s, t) ==
  l \in CommitPcs =>
    /\ t.next = build_next(s, t.seq) /\ s.pending # <<>>
    /\ \A i \in DOMAIN s.man.wal : s.man.wal[i].seq < t.seq
    /\ t.wal = "ok" => wal[t.seq] = s.pending
    /\ t.body = "ok" /\ l # "del_wal"
         => body[s.ver + 1] = t.next \/ wal[t.seq] \notin {None, s.pending}
    /\ l = "ptr" => t.body = "ok"
    /\ l \in {"ptr", "ptr_lost", "resolve", "del_body", "del_wal"} => t.wal = "ok"
    /\ l = "ptr_lost" => s.ver + 1 \in ptr
    /\ l = "resolve" => Solo \/ s.ver + 1 \in ptr

Locally(w) == SessOK(w, sess[w]) /\ ClaimOK(w, pc[w], claim[w]) /\ CommitOK(pc[w], sess[w], txn[w])

Safe ==
  /\ Bodies /\ Segments /\ Chain /\ Durable /\ OneZero
  /\ \A w \in Writers : Locally(w)

\* A commit is rejected only in Solo, where no PUT is in flight, and what it
\* deletes is not published.
Rejecting ==
  /\ Solo => late = {}
  /\ \A w \in Writers : pc[w] \in {"del_body", "del_wal"} =>
       /\ Solo /\ sess[w].ver + 1 \notin ptr
       /\ pc[w] = "del_wal" => body[sess[w].ver + 1] = None

SafeInv == TypeOK /\ PointerFamily /\ Safe /\ Rejecting

-----------------------------------------------------------------------------
(* What a step that only adds to the store leaves true.                     *)

Grows ==
  /\ ptr \subseteq ptr' /\ staged \subseteq staged'
  /\ \A v \in Versions : body[v] # None => body'[v] = body[v]
  /\ \A s \in Seqs : wal[s] # None => wal'[s] = wal[s]

\* No pointer is taken back, and no published body changes.
Kept == ptr \subseteq ptr' /\ \A v \in ptr : body'[v] = body[v]

\* Only process w moves.
Alone(w) ==
  \A x \in Writers \ {w} : /\ pc'[x] = pc[x] /\ sess'[x] = sess[x]
                           /\ claim'[x] = claim[x] /\ txn'[x] = txn[x]

\* A published version has a body, a manifest.
LEMMA PublishedType ==
  ASSUME SafeInv, NEW v \in ptr
  PROVE  /\ v \in Versions /\ v \in Nat /\ body[v] # None /\ body[v] \in Manifest
         /\ body[v].wal \in Seq(Descriptor) /\ body[v].epoch \in Nat
<1>1. v \in Versions /\ body[v] # None /\ body[v] \in Manifest
  BY DEF SafeInv, Safe, Bodies, TypeOK
<1> QED BY <1>1, BoundsAssumption DEF Versions, Manifest

\* A store that only grew kept every published version.
LEMMA GrowsKept ==
  ASSUME SafeInv, Grows
  PROVE  Kept
BY PublishedType DEF Grows, Kept

\* What fits keeps fitting.
LEMMA FitsKept ==
  ASSUME SafeInv, Kept, staged \subseteq staged', NEW v, NEW m, Fits(v, m)
  PROVE  Fits(v, m)'
BY DEF Fits, Kept

\* A session that is untouched stays on its base.
LEMMA SessKept ==
  ASSUME SafeInv, Kept, staged \subseteq staged', NEW w, NEW s, SessOK(w, s)
  PROVE  SessOK(w, s)'
BY DEF SessOK, Kept

\* The segment an orphan adds is a descriptor.
LEMMA SegmentType ==
  ASSUME NEW c \in Claim, c.orphan # None, Added(c) # {}
  PROVE  /\ AddedSegment(c) \in Descriptor /\ AddedSegment(c).seq \in Seqs
         /\ AddedSegment(c).recs \in Seq(Record) /\ AddedSegment(c).recs # None
<1>1. c.orphan \in Manifest
  BY DEF Claim
<1>2. c.orphan.wal \in Seq(Descriptor)
  BY <1>1 DEF Manifest
<1>3. \E i \in DOMAIN c.orphan.wal : AddedSegment(c) = c.orphan.wal[i]
  BY DEF AddedSegment, Added
<1>4. AddedSegment(c) \in Descriptor
  BY <1>2, <1>3
<1> QED BY <1>4, NoneAssumption DEF Descriptor

\* What an open holds, by its label.
LEMMA ClaimWhat ==
  ASSUME SafeInv, NEW w \in Writers, pc[w] \in ClaimPcs
  PROVE  /\ claim[w] \in Claim /\ claim[w].ver \in Versions /\ claim[w].ver \in Nat
         /\ ClaimOK(w, pc[w], claim[w])
         /\ pc[w] \in Based => claim[w].man \in Manifest /\ claim[w].man # None
         /\ pc[w] \in Ahead => claim[w].ver + 1 \in Versions
<1>1. claim[w] \in Claim /\ ClaimOK(w, pc[w], claim[w]) /\ Locals(pc[w], sess[w], claim[w], txn[w])
  BY OpenLocals DEF SafeInv, Safe, Locally, TypeOK
<1>2. claim[w].ver \in Versions /\ claim[w].man \in Manifest \cup {None}
  BY <1>1 DEF Claim
<1>3. claim[w].ver \in Nat
  BY <1>2, BoundsAssumption DEF Versions
<1>4. pc[w] \in Based => claim[w].man # None
  BY <1>1 DEF Locals, Based
<1>5. pc[w] \in Ahead => claim[w].ver < MaxVersion
  BY <1>1 DEF Locals, Ahead
<1>6. pc[w] \in Ahead => claim[w].ver + 1 \in Versions
  BY <1>2, <1>3, <1>5, BoundsAssumption DEF Versions
<1> QED BY <1>1, <1>2, <1>3, <1>4, <1>6

\* An open that does not move stays right about the store.
LEMMA ClaimKept ==
  ASSUME SafeInv, Grows, NEW w \in Writers, NEW l, NEW c, l = pc[w], c = claim[w]
  PROVE  ClaimOK(w, l, c)'
<1>1. CASE l \notin ClaimPcs
  BY <1>1 DEF ClaimOK, ClaimPcs, Bases, RepairPcs, Judged
<1>2. CASE l \in ClaimPcs
  <2> DEFINE seg == AddedSegment(c)
  <2>1. /\ c \in Claim /\ c.ver \in Versions /\ ClaimOK(w, l, c)
        /\ l \in Based => c.man # None
        /\ l \in Ahead => c.ver + 1 \in Versions
    BY <1>2, ClaimWhat
  <2>2. Kept
    BY GrowsKept
  <2>3. l \in Bases \cup {"boot_ptr"} => body'[c.ver] = c.man
    BY <2>1 DEF ClaimOK, Grows, Bases, Based
  <2>4. l \in Bases => c.ver \in ptr'
    BY <2>1, <2>2 DEF ClaimOK, Kept
  <2>5. l = "claim_ptr" => body'[c.ver + 1] = Claimed(c)
    <3>1. l = "claim_ptr" => Claimed(c) # None
      BY ClaimedType, NoneAssumption DEF Based, SafeInv
    <3> QED BY <2>1, <3>1 DEF ClaimOK, Grows, Ahead
  <2>6. l \in Judged => body'[c.ver + 1] = c.orphan
    BY <2>1 DEF ClaimOK, Grows, Ahead, Judged, RepairPcs
  <2>7. l \in Judged /\ Added(c) # {} => seg.seq \in Seqs /\ seg.recs # None
    BY <2>1, SegmentType DEF ClaimOK
  <2>8. l = "repair_pub" => Added(c) = {} \/ wal'[seg.seq] = seg.recs
    <3> HIDE DEF seg
    <3> QED BY <2>1, <2>7 DEF ClaimOK, Grows, Judged, seg
  <2>9. l = "repair_del" => wal'[seg.seq] \notin {None, seg.recs}
    <3> HIDE DEF seg
    <3> QED BY <2>1, <2>7 DEF ClaimOK, Grows, Judged, seg
  <2> QED BY <2>1, <2>3, <2>4, <2>5, <2>6, <2>8, <2>9 DEF ClaimOK
<1> QED BY <1>1, <1>2

\* What a commit holds.
LEMMA CommitWhat ==
  ASSUME SafeInv, NEW w \in Writers, pc[w] \in CommitPcs
  PROVE  /\ sess[w] \in Session /\ sess[w] # None /\ txn[w] \in Txn
         /\ sess[w].ver \in Nat /\ sess[w].ver + 1 \in Versions /\ txn[w].seq \in Seqs
         /\ sess[w].pending \in Seq(Record) /\ sess[w].pending # None
         /\ txn[w].next \in Manifest /\ txn[w].next # None
         /\ sess[w].man \in Manifest /\ sess[w].seq \in Nat
         /\ SessOK(w, sess[w]) /\ CommitOK(pc[w], sess[w], txn[w])
<1>1. sess[w] \in Session /\ txn[w] \in Txn /\ sess[w].ver < MaxVersion
  BY CommitLocals DEF SafeInv
<1>2. sess[w].ver \in Versions /\ sess[w].seq \in 1..(MaxSeq + 1)
      /\ sess[w].pending \in Seq(Record) /\ sess[w].man \in Manifest
  BY <1>1 DEF Session
<1>3. sess[w].ver \in Nat /\ sess[w].ver + 1 \in Versions
  <2>1. sess[w].ver \in 0..MaxVersion /\ sess[w].ver < MaxVersion /\ MaxVersion \in Nat
    BY <1>1, <1>2, BoundsAssumption DEF Versions
  <2> QED BY <2>1 DEF Versions
<1>4. sess[w].seq \in Nat
  BY <1>2, BoundsAssumption
<1>5. txn[w].seq \in Seqs /\ txn[w].next \in Manifest
  BY <1>1 DEF Txn
<1> QED BY <1>1, <1>2, <1>3, <1>4, <1>5, NoneAssumption DEF SafeInv, Safe, Locally

\* A commit that does not move stays right about the store.
LEMMA CommitKept ==
  ASSUME SafeInv, Grows, NEW w \in Writers, NEW l, NEW s, NEW t,
         l = pc[w], s = sess[w], t = txn[w]
  PROVE  CommitOK(l, s, t)'
<1>1. CASE l \notin CommitPcs
  BY <1>1 DEF CommitOK
<1>2. CASE l \in CommitPcs
  <2>1. /\ s.ver + 1 \in Versions /\ t.seq \in Seqs /\ s.pending # None /\ t.next # None
        /\ CommitOK(l, s, t)
    BY <1>2, CommitWhat
  <2>2. t.wal = "ok" => wal'[t.seq] = s.pending
    BY <1>2, <2>1 DEF CommitOK, Grows
  <2>3. t.body = "ok" /\ l # "del_wal"
          => body'[s.ver + 1] = t.next \/ wal'[t.seq] \notin {None, s.pending}
    BY <1>2, <2>1 DEF CommitOK, Grows
  <2> QED BY <1>2, <2>1, <2>2, <2>3 DEF CommitOK, Grows
<1> QED BY <1>1, <1>2

\* The processes that do not move.
LEMMA OthersKept ==
  ASSUME SafeInv, Grows, NEW x \in Writers, pc'[x] = pc[x], sess'[x] = sess[x],
         claim'[x] = claim[x], txn'[x] = txn[x]
  PROVE  Locally(x)'
<1>1. PICK l, s, c, t : l = pc[x] /\ s = sess[x] /\ c = claim[x] /\ t = txn[x]
  OBVIOUS
<1>2. SessOK(x, s)
  BY <1>1 DEF SafeInv, Safe, Locally
<1>3. SessOK(x, s)' /\ ClaimOK(x, l, c)' /\ CommitOK(l, s, t)'
  BY <1>1, <1>2, GrowsKept, SessKept, ClaimKept, CommitKept DEF Grows
<1> QED BY <1>1, <1>3 DEF Locally

-----------------------------------------------------------------------------
(* The shared part of the invariant.                                        *)

\* A step of w that adds to the store gets epoch 0 only with p0.
LEMMA StepSafe ==
  ASSUME SafeInv, NEW w \in Writers, Alone(w), Grows, Bodies', Segments', Chain', Durable',
         Locally(w)', HasZero(w)' => HasZero(w) \/ (0 \notin ptr /\ 0 \in ptr')
  PROVE  Safe' /\ Kept
<1>1. \A x \in Writers : Locally(x)'
  BY OthersKept DEF Alone
<1>2. \A x \in Writers \ {w} : HasZero(x)' => HasZero(x)
  BY DEF HasZero, Alone
<1>3. OneZero'
  BY <1>2, Zenon DEF OneZero, SafeInv, Safe, Grows
<1> QED BY <1>1, <1>3, GrowsKept DEF Safe

\* Nothing is published, and nothing is acknowledged.
LEMMA NotPublished ==
  ASSUME SafeInv, TypeOK', Grows, UNCHANGED <<ptr, acked>>,
         \A v \in Versions : body'[v] # None =>
            \/ body'[v] = body[v]
            \/ v = 0 /\ body'[v].epoch = 0 /\ body'[v].wal = <<>>
            \/ v # 0 /\ Fits(v, body'[v]),
         \A rq \in late' : \/ rq \in late \/ rq.obj = "wal"
                           \/ rq.obj = "body" /\ Fits(rq.at, rq.val)
                           \/ rq.obj = "ptr" /\ Claims(rq.at)
  PROVE  Bodies' /\ Segments' /\ Chain' /\ Durable'
<1>1. Kept /\ staged \subseteq staged' /\ 0 \in Versions
  BY GrowsKept, BoundsAssumption DEF Grows, Versions
<1>2. \A v \in ptr : body'[v] = body[v] /\ body[v] # None /\ body[v] \in Manifest /\ v \in Versions
  BY <1>1, PublishedType DEF Kept
<1>3. \A v, m : Fits(v, m) => Fits(v, m)'
  BY <1>1, FitsKept
<1>4. \A v \in Versions : Claims(v) => Claims(v)'
  BY <1>1, <1>2 DEF Claims, Grows
<1>5. \A rq \in late' : rq.obj = "ptr" => rq.at \in Versions
  BY DEF TypeOK, Request
<1>6. Bodies'
  <2>1. \A v \in ptr' : body'[v] # None
    BY <1>2
  <2>2. body'[0] # None => body'[0].epoch = 0 /\ body'[0].wal = <<>>
    BY <1>1 DEF SafeInv, Safe, Bodies
  <2>3. ASSUME NEW v \in Versions \ {0}, body'[v] # None PROVE Fits(v, body[v])'
    <3>1. PICK m : m = body'[v]
      OBVIOUS
    <3>2. Fits(v, m)
      BY <2>3, <3>1 DEF SafeInv, Safe, Bodies
    <3>3. Fits(v, m)'
      BY <1>3, <3>2
    <3> QED BY <3>1, <3>3
  <2>4. ASSUME NEW rq \in late', rq.obj = "body" PROVE Fits(rq.at, rq.val)'
    <3>1. Fits(rq.at, rq.val)
      BY <2>4 DEF SafeInv, Safe, Bodies
    <3> QED BY <1>3, <3>1
  <2>5. ASSUME NEW rq \in late', rq.obj = "ptr" PROVE Claims(rq.at)'
    BY <1>4, <1>5, <2>5 DEF SafeInv, Safe, Bodies
  <2> QED BY <2>1, <2>2, <2>3, <2>4, <2>5 DEF Bodies
<1>7. Segments'
  <2> SUFFICES ASSUME NEW v \in ptr, NEW i \in DOMAIN body[v].wal
               PROVE  wal'[body[v].wal[i].seq] = body[v].wal[i].recs
    BY <1>2 DEF Segments, Present
  <2>1. body[v].wal[i] \in Descriptor
    BY <1>2, PublishedType
  <2>2. body[v].wal[i].seq \in Seqs /\ body[v].wal[i].recs # None
    BY <2>1, NoneAssumption DEF Descriptor
  <2> QED BY <2>2 DEF Grows, SafeInv, Safe, Segments, Present
<1>8. Chain'
  <2>1. Chain /\ ptr' = ptr
    BY DEF SafeInv, Safe
  <2>2. \A v \in ptr : body'[v] = body[v]
    BY <1>2
  <2>3. /\ \A u, v \in ptr : u <= v => /\ body[u].epoch <= body[v].epoch
                                       /\ Contents(body[u]) \subseteq Contents(body[v])
        /\ \A u, v \in ptr : body[u].epoch = body[v].epoch /\ body[u].epoch > 0
                               => body[u].owner = body[v].owner
    BY <2>1 DEF Chain
  <2> QED BY <2>1, <2>2, <2>3, ZenonT(60) DEF Chain
<1>9. Durable'
  BY <1>2 DEF Durable, SafeInv, Safe
<1> QED BY <1>6, <1>7, <1>8, <1>9

\* The store stays as it is.
LEMMA StoreStill ==
  ASSUME SafeInv, TypeOK', UNCHANGED <<body, ptr, wal, late, acked>>, staged \subseteq staged'
  PROVE  Grows /\ Bodies' /\ Segments' /\ Chain' /\ Durable'
<1>1. Grows
  BY DEF Grows
<1> QED BY <1>1, NotPublished

\* A slot number is a natural number.
LEMMA SlotIsNat ==
  ASSUME NEW d \in Descriptor PROVE d.seq \in Nat
<1>1. d.seq \in Seqs
  BY DEF Descriptor
<1> QED BY <1>1, BoundsAssumption DEF Seqs

\* What an appended sequence is made of.
LEMMA Appended ==
  ASSUME NEW S, NEW q \in Seq(S), NEW d \in S
  PROVE  /\ DOMAIN Append(q, d) = (DOMAIN q) \cup {Len(q) + 1} /\ Len(q) + 1 \notin DOMAIN q
         /\ \A i \in DOMAIN q : Append(q, d)[i] = q[i]
         /\ Append(q, d)[Len(q) + 1] = d
         /\ Len(Append(q, d)) = Len(q) + 1 /\ Append(q, d) # <<>>
OBVIOUS

\* The segment a commit adds to its base.
LEMMA CommitWal ==
  ASSUME NEW m \in Manifest, NEW base \in Manifest, CommitOf(m, base)
  PROVE  \E d \in Descriptor :
            /\ m.wal = Append(base.wal, d) /\ d = m.wal[Len(m.wal)] /\ d.recs # <<>>
            /\ \A i \in DOMAIN base.wal : base.wal[i].seq < d.seq
<1>1. m.wal \in Seq(Descriptor) /\ m.wal # <<>>
  BY DEF CommitOf, Manifest
<1>2. m.wal[Len(m.wal)] \in Descriptor
  BY <1>1
<1> QED BY <1>2 DEF CommitOf

\* A manifest with one more segment has one more segment's records.
LEMMA AppendedContents ==
  ASSUME NEW base \in Manifest, NEW m, NEW d \in Descriptor, m.wal = Append(base.wal, d)
  PROVE  /\ Contents(m) = Contents(base) \cup BatchesOf(d.recs)
         /\ RecordsOf(m) = RecordsOf(base) \cup {d.recs[j] : j \in DOMAIN d.recs}
         /\ Present(base) /\ wal[d.seq] = d.recs => Present(m)
<1>1. base.wal \in Seq(Descriptor)
  BY DEF Manifest
<1>2. /\ DOMAIN m.wal = (DOMAIN base.wal) \cup {Len(base.wal) + 1}
      /\ \A i \in DOMAIN base.wal : m.wal[i] = base.wal[i]
      /\ m.wal[Len(base.wal) + 1] = d
  BY <1>1, Appended
<1>3. Contents(m) = Contents(base) \cup BatchesOf(d.recs)
  <2>1. \A b : b \in Contents(m) <=> \E i \in DOMAIN m.wal : b \in BatchesOf(m.wal[i].recs)
    BY DEF Contents
  <2>2. \A b : b \in Contents(base) <=> \E i \in DOMAIN base.wal : b \in BatchesOf(base.wal[i].recs)
    BY DEF Contents
  <2>3. \A b : b \in Contents(m) <=> b \in Contents(base) \cup BatchesOf(d.recs)
    BY <1>2, <2>1, <2>2
  <2> QED BY <2>3
<1>4. RecordsOf(m) = RecordsOf(base) \cup {d.recs[j] : j \in DOMAIN d.recs}
  <2>1. \A r : r \in RecordsOf(m) <=>
               \E i \in DOMAIN m.wal : r \in {m.wal[i].recs[j] : j \in DOMAIN m.wal[i].recs}
    BY DEF RecordsOf
  <2>2. \A r : r \in RecordsOf(base) <=>
               \E i \in DOMAIN base.wal : r \in {base.wal[i].recs[j] : j \in DOMAIN base.wal[i].recs}
    BY DEF RecordsOf
  <2>3. \A r : r \in RecordsOf(m) <=> r \in RecordsOf(base) \cup {d.recs[j] : j \in DOMAIN d.recs}
    BY <1>2, <2>1, <2>2
  <2> QED BY <2>3
<1>5. Present(base) /\ wal[d.seq] = d.recs => Present(m)
  BY <1>2 DEF Present
<1> QED BY <1>3, <1>4, <1>5

\* A version keeps the epoch and the contents of the one before it.
LEMMA Extends ==
  ASSUME NEW m \in Manifest, NEW base \in Manifest, ClaimOf(m, base) \/ CommitOf(m, base)
  PROVE  base.epoch <= m.epoch /\ Contents(base) \subseteq Contents(m)
<1>1. base.epoch \in Nat /\ m.epoch \in Nat
  BY DEF Manifest
<1>2. CASE ClaimOf(m, base)
  BY <1>1, <1>2 DEF ClaimOf, Contents
<1>3. CASE CommitOf(m, base)
  <2>1. PICK d \in Descriptor : m.wal = Append(base.wal, d)
    BY <1>3, CommitWal
  <2>2. Contents(m) = Contents(base) \cup BatchesOf(d.recs)
    BY <2>1, AppendedContents
  <2>3. m.epoch = base.epoch
    BY <1>3 DEF CommitOf
  <2> QED BY <1>1, <2>2, <2>3
<1> QED BY <1>2, <1>3

\* Only the version after the last one is left to publish.
LEMMA NextIsLast ==
  ASSUME SafeInv, NEW v \in Nat, v \notin ptr, NEW u \in ptr
  PROVE  u < v
<1>1. u \in Nat
  BY PublishedType
<1>2. v \in 0..u => v \in ptr
  BY DEF SafeInv, PointerFamily, PointersContiguous
<1> QED BY <1>1, <1>2

\* The next version is published, and the batches in it acknowledged.
LEMMA Published ==
  ASSUME SafeInv, TypeOK', NEW v \in Versions, v \notin ptr, ptr' = ptr \cup {v},
         UNCHANGED <<body, wal, staged>>, late' \subseteq late,
         body[v] # None, Present(body[v]),
         \A b \in acked' : b \in acked \/ b \in Contents(body[v])
  PROVE  Grows /\ Bodies' /\ Segments' /\ Chain' /\ Durable'
<1>1. Grows /\ Kept /\ v \in Nat /\ body[v] \in Manifest
  <2>1. Grows
    BY DEF Grows
  <2>2. v \in Nat /\ body[v] \in Manifest
    BY BoundsAssumption DEF Versions, SafeInv, TypeOK
  <2> QED BY <2>1, <2>2, GrowsKept
<1>2. Bodies'
  <2>1. \A u, m : Fits(u, m) => Fits(u, m)'
    BY <1>1, FitsKept
  <2>2. \A u : Claims(u) => Claims(u)'
    BY DEF Claims
  <2>3. \A u \in ptr' : body'[u] # None
    BY PublishedType
  <2> QED BY <2>1, <2>2, <2>3 DEF Bodies, SafeInv, Safe
<1>3. Segments'
  <2>1. \A u \in ptr' : Present(body[u])
    BY DEF SafeInv, Safe, Segments
  <2> QED BY <2>1 DEF Segments, Present
<1>4. Durable'
  BY DEF Durable, SafeInv, Safe
<1>5. CASE v = 0
  <2>1. ptr = {}
    <3> SUFFICES ASSUME NEW u \in ptr PROVE FALSE
      OBVIOUS
    <3>1. u \in Nat /\ u < v
      BY <1>1, PublishedType, NextIsLast
    <3> QED BY <1>5, <3>1
  <2>2. Chain'
    BY <1>1, <1>5, <2>1 DEF Chain, Manifest
  <2> QED BY <1>1, <1>2, <1>3, <1>4, <2>2
<1>6. CASE v # 0
  <2>1. v - 1 \in ptr /\ (ClaimOf(body[v], body[v - 1]) \/ CommitOf(body[v], body[v - 1]))
    BY <1>6 DEF SafeInv, Safe, Bodies, Fits
  <2> DEFINE base == body[v - 1]
  <2>2. base \in Manifest /\ base.epoch \in Nat /\ body[v].epoch \in Nat
    BY <1>1, <2>1, PublishedType DEF Manifest
  <2>3. base.epoch <= body[v].epoch /\ Contents(base) \subseteq Contents(body[v])
    BY <1>1, <2>1, <2>2, Extends
  <2>4. \A u \in ptr : u \in Nat /\ u < v /\ u <= v - 1 /\ body[u].epoch \in Nat
    BY <1>1, PublishedType, NextIsLast
  <2>5. \A u \in ptr : body[u].epoch <= base.epoch /\ Contents(body[u]) \subseteq Contents(base)
    BY <2>1, <2>4 DEF SafeInv, Safe, Chain
  <2> HIDE DEF base
  <2>6. ASSUME NEW a \in ptr', NEW b \in ptr', a <= b
        PROVE  body[a].epoch <= body[b].epoch /\ Contents(body[a]) \subseteq Contents(body[b])
    <3>1. CASE a \in ptr /\ b \in ptr
      BY <2>6, <3>1 DEF SafeInv, Safe, Chain
    <3>2. CASE a \in ptr /\ b = v
      BY <2>2, <2>3, <2>4, <2>5, <3>2
    <3>3. CASE a = v
      <4>1. b = v
        BY <1>1, <2>4, <2>6, <3>3
      <4> QED BY <2>2, <3>3, <4>1
    <3> QED BY <3>1, <3>2, <3>3
  <2>7. \A u \in ptr : body[u].epoch = body[v].epoch /\ body[u].epoch > 0
                         => body[u].owner = body[v].owner
    <3> SUFFICES ASSUME NEW u \in ptr, body[u].epoch = body[v].epoch, body[u].epoch > 0
                 PROVE  body[u].owner = body[v].owner
      OBVIOUS
    <3>1. base.epoch = body[v].epoch /\ base.epoch = body[u].epoch
      BY <2>2, <2>3, <2>4, <2>5
    <3>2. CommitOf(body[v], base)
      BY <2>1, <2>2, <3>1 DEF ClaimOf, base
    <3>3. body[v].owner = base.owner
      BY <3>1, <3>2 DEF CommitOf
    <3>4. body[u].owner = base.owner
      BY <2>1, <3>1 DEF SafeInv, Safe, Chain, base
    <3> QED BY <3>3, <3>4
  <2>8. Chain'
    <3>1. \A a, b \in ptr' : body[a].epoch = body[b].epoch /\ body[a].epoch > 0
                               => body[a].owner = body[b].owner
      <4> SUFFICES ASSUME NEW a \in ptr', NEW b \in ptr', body[a].epoch = body[b].epoch,
                          body[a].epoch > 0
                   PROVE  body[a].owner = body[b].owner
        OBVIOUS
      <4>1. CASE a \in ptr /\ b \in ptr
        BY <4>1 DEF SafeInv, Safe, Chain
      <4>2. CASE a = v \/ b = v
        BY <2>7, <4>2
      <4> QED BY <4>1, <4>2
    <3> QED BY <2>6, <3>1 DEF Chain
  <2> QED BY <1>1, <1>2, <1>3, <1>4, <2>8
<1> QED BY <1>5, <1>6

-----------------------------------------------------------------------------
(* Opens.                                                                   *)

\* An open goes on; it keeps the session it may have started from.
LEMMA OpenGoesOn ==
  ASSUME SafeInv, NEW w \in Writers, Alone(w), UNCHANGED sess, pc[w] \in ClaimPcs,
         pc'[w] \in ClaimPcs, Grows, Bodies', Segments', Chain', Durable',
         ClaimOK(w, pc[w], claim[w])',
         pc'[w] = "recover" => claim'[w].man.epoch # 0 \/ (0 \notin ptr /\ 0 \in ptr')
  PROVE  Safe' /\ Kept
<1>1. CommitOK(pc[w], sess[w], txn[w])'
  BY DEF CommitOK, ClaimPcs, CommitPcs
<1>2. SessOK(w, sess[w])'
  <2>1. PICK s : s = sess[w]
    OBVIOUS
  <2>2. SessOK(w, s)
    BY <2>1 DEF SafeInv, Safe, Locally
  <2>3. SessOK(w, s)'
    BY <2>2, GrowsKept, SessKept DEF Grows
  <2> QED BY <2>1, <2>3
<1>3. HasZero(w)' => HasZero(w) \/ (0 \notin ptr /\ 0 \in ptr')
  BY DEF HasZero
<1> QED BY <1>1, <1>2, <1>3, StepSafe DEF Locally

\* An open fails.
LEMMA OpenFails ==
  ASSUME SafeInv, NEW w \in Writers, Alone(w), UNCHANGED sess, pc[w] \in ClaimPcs,
         pc'[w] \in {"down", "open"}, Grows, Bodies', Segments', Chain', Durable'
  PROVE  Safe' /\ Kept
<1>1. CommitOK(pc[w], sess[w], txn[w])' /\ ClaimOK(w, pc[w], claim[w])'
  BY DEF CommitOK, ClaimOK, ClaimPcs, CommitPcs, Bases, RepairPcs, Judged
<1>2. SessOK(w, sess[w])'
  <2>1. PICK s : s = sess[w]
    OBVIOUS
  <2>2. SessOK(w, s)
    BY <2>1 DEF SafeInv, Safe, Locally
  <2>3. SessOK(w, s)'
    BY <2>2, GrowsKept, SessKept DEF Grows
  <2> QED BY <2>1, <2>3
<1>3. HasZero(w)' => HasZero(w)
  BY DEF HasZero
<1> QED BY <1>1, <1>2, <1>3, StepSafe DEF Locally, ClaimPcs

\* FailOpen's effect on the process.
LEMMA FailOpenWhat ==
  ASSUME SafeInv, NEW w \in Writers, FailOpen(w), UNCHANGED <<sess, txn>>
  PROVE  Alone(w) /\ pc'[w] \in {"down", "open"}
BY DEF FailOpen, Goto, SafeInv, TypeOK, Alone

\* A failed open that has changed nothing in the store.
LEMMA OpenFailsStill ==
  ASSUME SafeInv, TypeOK', NEW w \in Writers, pc[w] \in ClaimPcs, FailOpen(w),
         UNCHANGED <<body, ptr, wal, late, sess, txn, staged, acked>>
  PROVE  Safe' /\ Kept
<1>1. Grows /\ Bodies' /\ Segments' /\ Chain' /\ Durable'
  BY StoreStill
<1> QED BY <1>1, FailOpenWhat, OpenFails

\* An open begins.
LEMMA OpenSafe ==
  ASSUME SafeInv, TypeOK', NEW w \in Writers, Open(w) \/ Reopen(w)
  PROVE  Safe' /\ Kept
<1>1. PICK mine : StartOpen(w, mine) /\ pc[w] \in {"down", "open"}
  BY DEF Open, Reopen
<1>2. /\ pc'[w] = "load" /\ claim'[w] = NewClaim(w, mine) /\ Alone(w)
      /\ UNCHANGED <<body, ptr, wal, late, sess, txn, staged, acked>>
  BY <1>1 DEF StartOpen, Goto, SafeInv, TypeOK, Alone, store, history
<1>3. Grows /\ Bodies' /\ Segments' /\ Chain' /\ Durable'
  BY <1>2, StoreStill
<1>5. SessOK(w, sess[w])'
  <2>1. PICK s : s = sess[w]
    OBVIOUS
  <2>2. SessOK(w, s)
    BY <2>1 DEF SafeInv, Safe, Locally
  <2>3. SessOK(w, s)'
    BY <1>3, <2>2, GrowsKept, SessKept DEF Grows
  <2> QED BY <1>2, <2>1, <2>3
<1>6. ClaimOK(w, pc[w], claim[w])' /\ CommitOK(pc[w], sess[w], txn[w])'
  <2>1. NewClaim(w, mine).id[1] = w
    BY DEF NewClaim
  <2> QED BY <1>2, <2>1 DEF CommitOK, ClaimOK, ClaimPcs, CommitPcs, Bases, RepairPcs, Judged
<1>7. HasZero(w)' => HasZero(w)
  BY <1>2 DEF HasZero
<1> QED BY <1>2, <1>3, <1>5, <1>6, <1>7, StepSafe DEF Locally

\* open_claiming: bootstrap or claim.
LEMMA LoadForOpenSafe ==
  ASSUME SafeInv, TypeOK', NEW w \in Writers, LoadForOpen(w)
  PROVE  Safe' /\ Kept
<1>1. /\ pc[w] \in ClaimPcs /\ pc'[w] \in {"claim", "boot_body"} /\ Alone(w)
      /\ claim'[w] = claim[w]
      /\ UNCHANGED <<body, ptr, wal, late, sess, txn, staged, acked>>
  BY DEF LoadForOpen, Goto, SafeInv, TypeOK, Alone, store, history, ClaimPcs
<1>2. Grows /\ Bodies' /\ Segments' /\ Chain' /\ Durable'
  BY <1>1, StoreStill
<1>3. ClaimOK(w, pc[w], claim[w])'
  BY <1>1, ClaimWhat DEF ClaimOK, ClaimPcs, Bases, RepairPcs, Judged
<1> QED BY <1>1, <1>2, <1>3, OpenGoesOn DEF ClaimPcs

\* bootstrap finds or writes v0, which is empty.
LEMMA BootBodySafe ==
  ASSUME SafeInv, TypeOK', NEW w \in Writers, BootBody(w)
  PROVE  Safe' /\ Kept
<1> DEFINE c == [claim[w] EXCEPT !.man = BootManifest(claim[w].id)]
<1>1. /\ pc[w] \in ClaimPcs /\ pc'[w] = "boot_ptr" /\ Alone(w) /\ claim'[w] = c
      /\ UNCHANGED <<ptr, wal, late, sess, txn, staged, acked>>
  BY DEF BootBody, Goto, SafeInv, TypeOK, Alone, history, ClaimPcs
<1>2. claim[w] \in Claim /\ claim[w].ver = 0 /\ claim[w].id[1] = w /\ 0 \in Versions
  BY <1>1, ClaimWhat, BoundsAssumption DEF BootBody, SafeInv, PointerFamily, ClaimOK, Versions
<1>3. c.ver = 0 /\ c.id = claim[w].id /\ c.man = BootManifest(claim[w].id)
  BY <1>2 DEF Claim
<1>4. /\ body'[0] = BootManifest(claim[w].id)
      /\ \A v \in Versions \ {0} : body'[v] = body[v]
      /\ body[0] # None => body'[0] = body[0]
      /\ body[0] = None => body'[0] = empty(claim[w].id)
  BY <1>2 DEF BootBody, BootManifest, SafeInv, TypeOK
<1>5. empty(claim[w].id).epoch = 0 /\ empty(claim[w].id).wal = <<>>
  BY DEF empty
<1>6. Grows
  BY <1>1, <1>4 DEF Grows
<1>7. Bodies' /\ Segments' /\ Chain' /\ Durable'
  <2>1. \A v \in Versions : body'[v] # None =>
            \/ body'[v] = body[v]
            \/ v = 0 /\ body'[v].epoch = 0 /\ body'[v].wal = <<>>
    BY <1>4, <1>5
  <2> QED BY <1>1, <1>6, <2>1, NotPublished
<1> HIDE DEF c
<1>8. ClaimOK(w, pc[w], claim[w])'
  BY <1>1, <1>2, <1>3, <1>4 DEF ClaimOK, Bases, RepairPcs, Judged
<1> QED BY <1>1, <1>6, <1>7, <1>8, OpenGoesOn DEF ClaimPcs

\* bootstrap publishes v0 and has epoch 0, or finds p0 and fails.
LEMMA BootPtrSafe ==
  ASSUME SafeInv, TypeOK', NEW w \in Writers, BootPtr(w)
  PROVE  Safe' /\ Kept
<1>1. /\ pc[w] = "boot_ptr" /\ pc[w] \in ClaimPcs /\ ptr' = ptr \cup {0} /\ 0 \in Versions
      /\ UNCHANGED <<body, wal, late, sess, txn, staged, acked>>
  BY BoundsAssumption DEF BootPtr, history, ClaimPcs, Versions
<1>2. CASE 0 \in ptr
  <2>1. FailOpen(w) /\ ptr' = ptr
    BY <1>1, <1>2 DEF BootPtr
  <2> QED BY <1>1, <2>1, OpenFailsStill
<1>3. CASE 0 \notin ptr
  <2>1. pc'[w] = "recover" /\ claim'[w] = claim[w] /\ Alone(w)
    BY <1>1, <1>3 DEF BootPtr, Goto, SafeInv, TypeOK, Alone
  <2>2. /\ claim[w].ver = 0 /\ body[0] = claim[w].man /\ body[0] # None /\ claim[w].id[1] = w
    BY <1>1, ClaimWhat DEF SafeInv, PointerFamily, ClaimOK, Based
  <2>3. body[0].epoch = 0 /\ body[0].wal = <<>>
    BY <2>2 DEF SafeInv, Safe, Bodies
  <2>4. Present(body[0])
    BY <2>3 DEF Present
  <2>5. Grows /\ Bodies' /\ Segments' /\ Chain' /\ Durable'
    BY <1>1, <1>3, <2>2, <2>4, Published
  <2>6. ClaimOK(w, pc[w], claim[w])'
    BY <1>1, <2>1, <2>2, <2>3 DEF ClaimOK, Judged
  <2> QED BY <1>1, <1>3, <2>1, <2>5, <2>6, OpenGoesOn DEF ClaimPcs
<1> QED BY <1>2, <1>3

\* A claim is based on what is published.
LEMMA ClaimLoadSafe ==
  ASSUME SafeInv, TypeOK', NEW w \in Writers, ClaimLoad(w)
  PROVE  Safe' /\ Kept
<1>1. pc[w] \in ClaimPcs /\ UNCHANGED <<body, ptr, wal, late, sess, txn, staged, acked>>
  BY DEF ClaimLoad, store, history, ClaimPcs
<1>2. CASE FailOpen(w)
  BY <1>1, <1>2, OpenFailsStill
<1>3. CASE ~FailOpen(w)
  <2> DEFINE c == [claim[w] EXCEPT !.ver = Top, !.man = Current]
  <2>1. pc'[w] = "claim_body" /\ claim'[w] = c /\ Alone(w) /\ Loadable
    BY <1>1, <1>3 DEF ClaimLoad, Goto, SafeInv, TypeOK, Alone
  <2>2. claim[w] \in Claim /\ claim[w].id[1] = w
    BY <1>1, ClaimWhat DEF ClaimOK
  <2>3. c.ver = Top /\ c.man = body[Top] /\ c.id = claim[w].id
    BY <2>2 DEF Claim, Current
  <2>4. Top \in ptr
    BY <2>1, CurrentType DEF SafeInv
  <2>5. Grows /\ Bodies' /\ Segments' /\ Chain' /\ Durable'
    BY <1>1, StoreStill
  <2> HIDE DEF c
  <2>6. ClaimOK(w, pc[w], claim[w])'
    BY <1>1, <2>1, <2>2, <2>3, <2>4 DEF ClaimOK, Bases, RepairPcs, Judged
  <2> QED BY <1>1, <2>1, <2>5, <2>6, OpenGoesOn DEF ClaimPcs
<1> QED BY <1>2, <1>3

\* A published version holds no batch twice, and only staged ones.
LEMMA PublishedOnce ==
  ASSUME SafeInv, NEW v \in ptr
  PROVE  OnceEach(body[v]) /\ Contents(body[v]) \subseteq staged
<1>1. v \in Versions /\ body[v] # None
  BY PublishedType
<1>2. CASE v # 0
  BY <1>1, <1>2 DEF SafeInv, Safe, Bodies, Fits
<1>3. CASE v = 0
  <2>1. body[v].wal = <<>>
    BY <1>1, <1>3 DEF SafeInv, Safe, Bodies
  <2>2. DOMAIN body[v].wal = {}
    BY <2>1
  <2> QED BY <2>2 DEF OnceEach, Contents
<1> QED BY <1>2, <1>3

\* The manifest a claim publishes fits above its base.
LEMMA ClaimedFits ==
  ASSUME SafeInv, NEW w \in Writers, pc[w] \in Bases
  PROVE  /\ Fits(claim[w].ver + 1, Claimed(claim[w])) /\ Claimed(claim[w]) \in Manifest
         /\ Claimed(claim[w]).wal = claim[w].man.wal
         /\ Claimed(claim[w]).epoch = claim[w].man.epoch + 1
         /\ Claimed(claim[w]).owner = claim[w].id
         /\ claim[w].ver \in Nat /\ claim[w].man \in Manifest
<1> DEFINE c == claim[w]
           m == Claimed(c)
<1>1. pc[w] \in ClaimPcs /\ pc[w] \in Based
  BY DEF Bases, Based, RepairPcs, ClaimPcs
<1>2. c \in Claim /\ c.ver \in Nat /\ c.man \in Manifest /\ c.ver \in ptr /\ body[c.ver] = c.man
  BY <1>1, ClaimWhat DEF ClaimOK
<1>3. m.wal = c.man.wal /\ m.epoch = c.man.epoch + 1 /\ m.owner = c.id /\ m \in Manifest
  <2>1. m \in Manifest
    BY <1>1, ClaimedType DEF SafeInv
  <2> QED BY <1>2, <2>1 DEF Claimed, Manifest
<1> HIDE DEF m
<1>4. OnceEach(m) /\ Contents(m) \subseteq staged
  BY <1>2, <1>3, PublishedOnce DEF OnceEach, Contents
<1>5. ClaimOf(m, c.man)
  BY <1>3 DEF ClaimOf
<1>6. (c.ver + 1) - 1 = c.ver /\ c.ver + 1 > 0
  BY <1>2
<1>7. Fits(c.ver + 1, m)
  BY <1>2, <1>4, <1>5, <1>6 DEF Fits
<1> QED BY <1>2, <1>3, <1>7 DEF m

\* A PUT that may fail, on a free body key.
LEMMA BodyPutGrows ==
  ASSUME SafeInv, TypeOK', NEW v \in Versions, v # 0, body[v] = None, NEW m, Fits(v, m),
         NEW out, body' = IF Lands(out) THEN [body EXCEPT ![v] = m] ELSE body,
         InFlight(out, [obj |-> "body", at |-> v, val |-> m]),
         UNCHANGED <<ptr, wal, staged, acked>>
  PROVE  Grows /\ Bodies' /\ Segments' /\ Chain' /\ Durable'
<1>1. \A u \in Versions : body'[u] = body[u] \/ (u = v /\ body'[u] = m)
  BY DEF SafeInv, TypeOK
<1>2. Grows
  BY <1>1 DEF Grows
<1>3. \A rq \in late' : rq \in late \/ rq = [obj |-> "body", at |-> v, val |-> m]
  BY DEF InFlight
<1>4. \A rq \in late' : rq \in late \/ (rq.obj = "body" /\ Fits(rq.at, rq.val))
  BY <1>3
<1> QED BY <1>1, <1>2, <1>4, NotPublished

\* The body PUT of a claim.
LEMMA ClaimBodySafe ==
  ASSUME SafeInv, TypeOK', NEW w \in Writers, ClaimBody(w)
  PROVE  Safe' /\ Kept
<1> DEFINE c == claim[w]
           v == c.ver + 1
<1>1. /\ pc[w] = "claim_body" /\ pc[w] \in ClaimPcs /\ pc[w] \in Bases
      /\ UNCHANGED <<ptr, wal, sess, txn, staged, acked>>
  BY DEF ClaimBody, ClaimPcs, Bases, history
<1>2. /\ Fits(v, Claimed(c)) /\ Claimed(c) \in Manifest /\ c.ver \in Nat
      /\ ClaimOK(w, pc[w], c) /\ next_version(c.ver) = v
  BY <1>1, ClaimedFits, ClaimWhat DEF next_version
<1>3. v \in Versions /\ v # 0
  BY <1>2, BoundsAssumption DEF ClaimBody, Versions
<1> HIDE DEF v
<1>4. CASE body[v] # None
  <2>1. /\ pc'[w] = "claim_lost" /\ claim'[w] = c /\ Alone(w) /\ UNCHANGED <<body, late>>
    BY <1>1, <1>2, <1>4 DEF ClaimBody, Goto, SafeInv, TypeOK, Alone
  <2>2. Grows /\ Bodies' /\ Segments' /\ Chain' /\ Durable'
    BY <1>1, <2>1, StoreStill
  <2>3. ClaimOK(w, pc[w], claim[w])'
    BY <1>1, <1>2, <2>1 DEF ClaimOK, Bases, Judged
  <2> QED BY <1>1, <2>1, <2>2, <2>3, OpenGoesOn DEF ClaimPcs
<1>5. CASE body[v] = None
  <2>1. PICK out \in Outcomes(PutFaults) :
          /\ body' = IF Lands(out) THEN [body EXCEPT ![v] = Claimed(c)] ELSE body
          /\ InFlight(out, [obj |-> "body", at |-> v, val |-> Claimed(c)])
          /\ IF out = "ok" THEN Goto(w, "claim_ptr") /\ UNCHANGED claim ELSE FailOpen(w)
    BY <1>2, <1>5 DEF ClaimBody
  <2>2. Grows /\ Bodies' /\ Segments' /\ Chain' /\ Durable'
    BY <1>1, <1>2, <1>3, <1>5, <2>1, BodyPutGrows
  <2>3. CASE out # "ok"
    BY <1>1, <2>1, <2>2, <2>3, FailOpenWhat, OpenFails
  <2>4. CASE out = "ok"
    <3>1. pc'[w] = "claim_ptr" /\ claim'[w] = c /\ Alone(w)
      BY <1>1, <2>1, <2>4 DEF Goto, SafeInv, TypeOK, Alone
    <3>2. body'[v] = Claimed(c)
      BY <1>3, <2>1, <2>4 DEF Lands, SafeInv, TypeOK
    <3>3. Kept /\ c.ver \in ptr /\ body[c.ver] = c.man /\ c.id[1] = w
      BY <1>1, <1>2, <2>2, GrowsKept DEF ClaimOK
    <3>4. ClaimOK(w, pc[w], claim[w])'
      BY <3>1, <3>2, <3>3 DEF ClaimOK, Judged, Kept, v
    <3> QED BY <1>1, <2>2, <3>1, <3>4, OpenGoesOn DEF ClaimPcs
  <2> QED BY <2>3, <2>4
<1> QED BY <1>4, <1>5

\* The pointer PUT of a claim: the epoch is taken when it lands.
LEMMA ClaimPtrSafe ==
  ASSUME SafeInv, TypeOK', NEW w \in Writers, ClaimPtr(w)
  PROVE  Safe' /\ Kept
<1> DEFINE c == claim[w]
           v == c.ver + 1
           m == Claimed(c)
<1>1. /\ pc[w] = "claim_ptr" /\ pc[w] \in ClaimPcs /\ pc[w] \in Bases /\ pc[w] \in Ahead
      /\ UNCHANGED <<body, wal, sess, txn, staged, acked>>
  BY DEF ClaimPtr, ClaimPcs, Bases, history, Ahead
<1>2. /\ Fits(v, m) /\ m \in Manifest /\ c.ver \in Nat /\ c \in Claim /\ v \in Versions
      /\ ClaimOK(w, pc[w], c) /\ next_version(c.ver) = v /\ c.man \in Manifest
      /\ m.wal = c.man.wal /\ m.epoch = c.man.epoch + 1 /\ m.owner = c.id
  BY <1>1, ClaimedFits, ClaimWhat DEF next_version
<1>3. /\ body[v] = m /\ body[v] # None /\ body[c.ver] = c.man /\ c.ver \in ptr /\ c.id[1] = w
      /\ v - 1 = c.ver /\ v > 0
  BY <1>1, <1>2, NoneAssumption DEF ClaimOK
<1> HIDE DEF v, m
<1>4. CASE v \in ptr
  <2>1. /\ pc'[w] = "claim_lost" /\ claim'[w] = c /\ Alone(w) /\ UNCHANGED <<ptr, late>>
    BY <1>1, <1>2, <1>4 DEF ClaimPtr, Goto, SafeInv, TypeOK, Alone
  <2>2. Grows /\ Bodies' /\ Segments' /\ Chain' /\ Durable'
    BY <1>1, <2>1, StoreStill
  <2>3. ClaimOK(w, pc[w], claim[w])'
    BY <1>1, <1>2, <2>1 DEF ClaimOK, Bases, Judged
  <2> QED BY <1>1, <2>1, <2>2, <2>3, OpenGoesOn DEF ClaimPcs
<1>5. CASE v \notin ptr
  <2>1. PICK out \in Outcomes(PutFaults) :
          /\ ptr' = IF Lands(out) THEN ptr \cup {v} ELSE ptr
          /\ InFlight(out, [obj |-> "ptr", at |-> v, val |-> None])
          /\ IF out = "ok"
             THEN /\ Goto(w, "recover")
                  /\ claim' = [claim EXCEPT ![w] = [c EXCEPT !.ver = v, !.man = Claimed(c)]]
             ELSE FailOpen(w)
    BY <1>2, <1>5 DEF ClaimPtr
  <2>2. Present(body[v])
    <3>1. Present(body[c.ver])
      BY <1>3 DEF SafeInv, Safe, Segments
    <3> QED BY <1>2, <1>3, <3>1 DEF Present
  <2>3. Grows /\ Bodies' /\ Segments' /\ Chain' /\ Durable'
    <3>1. CASE Lands(out)
      <4>1. late' = late
        BY <2>1, <3>1 DEF Lands, InFlight
      <4> QED BY <1>1, <1>2, <1>3, <1>5, <2>1, <2>2, <3>1, <4>1, Published
    <3>2. CASE ~Lands(out)
      <4>1. \A rq \in late' : rq \in late \/ rq = [obj |-> "ptr", at |-> v, val |-> None]
        BY <2>1 DEF InFlight
      <4>2. Claims(v)
        BY <1>2, <1>3 DEF Claims
      <4>3. \A rq \in late' : rq \in late \/ (rq.obj = "ptr" /\ Claims(rq.at))
        BY <4>1, <4>2
      <4>4. Grows /\ ptr' = ptr
        BY <1>1, <2>1, <3>2 DEF Grows
      <4> QED BY <1>1, <4>3, <4>4, NotPublished
    <3> QED BY <3>1, <3>2
  <2>4. CASE out # "ok"
    BY <1>1, <2>1, <2>3, <2>4, FailOpenWhat, OpenFails
  <2>5. CASE out = "ok"
    <3> DEFINE e == [c EXCEPT !.ver = v, !.man = Claimed(c)]
    <3>1. pc'[w] = "recover" /\ claim'[w] = e /\ Alone(w) /\ v \in ptr'
      BY <1>1, <2>1, <2>5 DEF Goto, SafeInv, TypeOK, Alone, Lands
    <3>2. e.ver = v /\ e.man = m /\ e.id = c.id
      BY <1>2 DEF Claim, m
    <3> HIDE DEF e
    <3>3. ClaimOK(w, pc[w], claim[w])'
      BY <1>1, <1>2, <1>3, <3>1, <3>2 DEF ClaimOK, Judged
    <3>4. m.epoch # 0
      BY <1>2 DEF Manifest
    <3> QED BY <1>1, <2>3, <3>1, <3>2, <3>3, <3>4, OpenGoesOn DEF ClaimPcs
  <2> QED BY <2>4, <2>5
<1> QED BY <1>4, <1>5

\* A lost claim keeps its base.
LEMMA ClaimLostSafe ==
  ASSUME SafeInv, TypeOK', NEW w \in Writers, ClaimLost(w)
  PROVE  Safe' /\ Kept
<1>1. /\ pc[w] = "claim_lost" /\ pc[w] \in ClaimPcs /\ pc[w] \in Bases
      /\ UNCHANGED <<body, ptr, wal, late, sess, txn, staged, acked>>
  BY DEF ClaimLost, ClaimPcs, Bases, store, history
<1>2. CASE FailOpen(w)
  BY <1>1, <1>2, OpenFailsStill
<1>3. CASE ~FailOpen(w)
  <2>1. pc'[w] \in {"repair_head", "claim"} /\ Alone(w)
    BY <1>1, <1>3 DEF ClaimLost, Goto, SafeInv, TypeOK, Alone
  <2>2. PICK st, ps, la : claim' = [claim EXCEPT ![w] =
                            [claim[w] EXCEPT !.last = la, !.stalled = st, !.passes = ps]]
    BY <1>3, Zenon DEF ClaimLost
  <2> DEFINE d == [claim[w] EXCEPT !.last = la, !.stalled = st, !.passes = ps]
  <2>3. claim[w] \in Claim /\ ClaimOK(w, pc[w], claim[w])
    BY <1>1, ClaimWhat
  <2>4. d.ver = claim[w].ver /\ d.man = claim[w].man /\ d.id = claim[w].id
    BY <2>3 DEF Claim
  <2> HIDE DEF d
  <2>5. claim'[w] = d
    BY <2>2 DEF SafeInv, TypeOK, d
  <2>6. Grows /\ Bodies' /\ Segments' /\ Chain' /\ Durable'
    BY <1>1, StoreStill
  <2>7. ClaimOK(w, pc[w], claim[w])'
    BY <1>1, <2>1, <2>3, <2>4, <2>5 DEF ClaimOK, Judged
  <2> QED BY <1>1, <2>1, <2>6, <2>7, OpenGoesOn DEF ClaimPcs
<1> QED BY <1>2, <1>3


-----------------------------------------------------------------------------
(* Repairs.                                                                 *)

\* The segment an orphan adds over its base is the last one, if it adds any.
LEMMA AddedWhat ==
  ASSUME NEW c, c.man \in Manifest, c.orphan \in Manifest,
         ClaimOf(c.orphan, c.man) \/ CommitOf(c.orphan, c.man)
  PROVE  /\ Added(c) = {} => c.orphan.wal = c.man.wal
         /\ Added(c) # {} => /\ AddedSegment(c) \in Descriptor
                             /\ c.orphan.wal = Append(c.man.wal, AddedSegment(c))
                             /\ AddedSegment(c).recs # <<>>
<1>1. CASE ClaimOf(c.orphan, c.man)
  <2>1. c.orphan.wal = c.man.wal
    BY <1>1 DEF ClaimOf
  <2>2. Added(c) = {}
    BY <2>1 DEF Added
  <2> QED BY <2>1, <2>2
<1>2. CASE CommitOf(c.orphan, c.man)
  <2>1. PICK d \in Descriptor :
          /\ c.orphan.wal = Append(c.man.wal, d) /\ d.recs # <<>>
          /\ \A i \in DOMAIN c.man.wal : c.man.wal[i].seq < d.seq
    BY <1>2, CommitWal
  <2>2. c.man.wal \in Seq(Descriptor)
    BY DEF Manifest
  <2> DEFINE n == Len(c.man.wal) + 1
  <2>3. /\ DOMAIN c.orphan.wal = (DOMAIN c.man.wal) \cup {n}
        /\ \A i \in DOMAIN c.man.wal : c.orphan.wal[i] = c.man.wal[i]
        /\ c.orphan.wal[n] = d
    BY <2>1, <2>2, Appended
  <2> HIDE DEF n
  <2>4. \A j \in DOMAIN c.man.wal : c.man.wal[j].seq # d.seq
    <3> SUFFICES ASSUME NEW j \in DOMAIN c.man.wal PROVE c.man.wal[j].seq # d.seq
      OBVIOUS
    <3>1. c.man.wal[j] \in Descriptor
      BY <2>2
    <3>2. c.man.wal[j].seq \in Nat /\ d.seq \in Nat
      BY <3>1, SlotIsNat
    <3> QED BY <2>1, <3>2
  <2>5. Added(c) = {n}
    BY <2>3, <2>4 DEF Added
  <2>6. AddedSegment(c) = d
    BY <2>3, <2>5 DEF AddedSegment
  <2> QED BY <2>1, <2>5, <2>6
<1> QED BY <1>1, <1>2

\* What a repair that has judged an orphan knows of it.
LEMMA JudgedWhat ==
  ASSUME SafeInv, NEW w \in Writers, pc[w] \in Judged
  PROVE  LET c == claim[w]  seg == AddedSegment(c) IN
         /\ pc[w] \in ClaimPcs /\ c \in Claim /\ c.ver \in Nat /\ c.ver + 1 \in Versions
         /\ next_version(c.ver) = c.ver + 1 /\ c.ver + 1 # 0 /\ (c.ver + 1) - 1 = c.ver
         /\ c.ver \in ptr /\ body[c.ver] = c.man /\ c.man \in Manifest /\ c.orphan \in Manifest
         /\ body[c.ver + 1] = c.orphan /\ body[c.ver + 1] # None
         /\ ClaimOK(w, pc[w], c) /\ c.id[1] = w
         /\ Added(c) = {} => c.orphan.wal = c.man.wal
         /\ Added(c) # {} => /\ seg \in Descriptor /\ c.orphan.wal = Append(c.man.wal, seg)
                             /\ seg.seq \in Seqs /\ seg.recs # None /\ seg.recs # <<>>
<1> DEFINE c == claim[w]
           v == c.ver + 1
<1>1. pc[w] \in ClaimPcs /\ pc[w] \in Bases /\ pc[w] \in Based /\ pc[w] \in Ahead
  BY DEF Judged, ClaimPcs, Bases, Based, Ahead, RepairPcs
<1>2. /\ c \in Claim /\ c.ver \in Nat /\ v \in Versions /\ ClaimOK(w, pc[w], c)
      /\ c.man \in Manifest
  BY <1>1, ClaimWhat
<1>3. /\ c.id[1] = w /\ c.ver \in ptr /\ body[c.ver] = c.man /\ c.orphan # None
      /\ body[v] = c.orphan
  BY <1>1, <1>2 DEF ClaimOK
<1>4. c.orphan \in Manifest
  BY <1>2, <1>3 DEF Claim
<1>5. next_version(c.ver) = v /\ v # 0 /\ v - 1 = c.ver
  BY <1>2 DEF next_version
<1> HIDE DEF c, v
<1>6. Fits(v, c.orphan)
  BY <1>2, <1>3, <1>5 DEF SafeInv, Safe, Bodies
<1>7. ClaimOf(c.orphan, c.man) \/ CommitOf(c.orphan, c.man)
  BY <1>3, <1>5, <1>6 DEF Fits
<1>8. /\ Added(c) = {} => c.orphan.wal = c.man.wal
      /\ Added(c) # {} => /\ AddedSegment(c) \in Descriptor
                          /\ c.orphan.wal = Append(c.man.wal, AddedSegment(c))
                          /\ AddedSegment(c).recs # <<>>
  BY <1>2, <1>4, <1>7, AddedWhat
<1>9. Added(c) # {} => AddedSegment(c).seq \in Seqs /\ AddedSegment(c).recs # None
  BY <1>2, <1>3, SegmentType
<1> QED BY <1>1, <1>2, <1>3, <1>4, <1>5, <1>8, <1>9 DEF c, v

\* The repair looks whether the pointer has landed.
LEMMA RepairHeadSafe ==
  ASSUME SafeInv, TypeOK', NEW w \in Writers, RepairHead(w)
  PROVE  Safe' /\ Kept
<1>1. /\ pc[w] = "repair_head" /\ pc[w] \in ClaimPcs /\ pc[w] \in Bases
      /\ pc'[w] \in {"claim", "repair_get"} /\ Alone(w) /\ claim'[w] = claim[w]
      /\ UNCHANGED <<body, ptr, wal, late, sess, txn, staged, acked>>
  BY DEF RepairHead, Goto, SafeInv, TypeOK, Alone, store, history, ClaimPcs, Bases, RepairPcs
<1>2. Grows /\ Bodies' /\ Segments' /\ Chain' /\ Durable'
  BY <1>1, StoreStill
<1>3. ClaimOK(w, pc[w], claim[w])'
  BY <1>1, ClaimWhat DEF ClaimOK, Judged, Bases, RepairPcs
<1> QED BY <1>1, <1>2, <1>3, OpenGoesOn DEF ClaimPcs

\* GET the orphan: what is there extends the base, so it is adopted or judged.
LEMMA RepairGetSafe ==
  ASSUME SafeInv, TypeOK', NEW w \in Writers, RepairGet(w)
  PROVE  Safe' /\ Kept
<1> DEFINE v == claim[w].ver + 1
           c == [claim[w] EXCEPT !.orphan = body[v]]
<1>1. /\ pc[w] = "repair_get" /\ pc[w] \in ClaimPcs /\ pc[w] \in Bases /\ pc[w] \in Ahead
      /\ pc[w] \in Based /\ UNCHANGED <<body, ptr, wal, late, sess, txn, staged, acked>>
  BY DEF RepairGet, store, history, ClaimPcs, Bases, RepairPcs, Ahead, Based
<1>2. /\ claim[w] \in Claim /\ claim[w].ver \in Nat /\ v \in Versions
      /\ ClaimOK(w, pc[w], claim[w]) /\ claim[w].man \in Manifest
  BY <1>1, ClaimWhat
<1>3. /\ claim[w].id[1] = w /\ claim[w].ver \in ptr /\ body[claim[w].ver] = claim[w].man
      /\ next_version(claim[w].ver) = v /\ v # 0 /\ v - 1 = claim[w].ver
      /\ body[v] \in Manifest \cup {None}
  <2>1. /\ claim[w].id[1] = w /\ claim[w].ver \in ptr /\ body[claim[w].ver] = claim[w].man
    BY <1>1, <1>2 DEF ClaimOK
  <2>2. next_version(claim[w].ver) = v /\ v # 0 /\ v - 1 = claim[w].ver
    BY <1>2 DEF next_version
  <2>3. body[v] \in Manifest \cup {None}
    BY <1>2 DEF SafeInv, TypeOK
  <2> QED BY <2>1, <2>2, <2>3
<1>4. /\ c.ver = claim[w].ver /\ c.id = claim[w].id /\ c.man = claim[w].man /\ c.orphan = body[v]
  BY <1>2 DEF Claim
<1>5. /\ claim' = [claim EXCEPT ![w] = c]
      /\ pc' = [pc EXCEPT ![w] = IF c.orphan = None THEN "claim"
                                 ELSE IF ~ExtendsLineage(c.orphan, c.man) THEN "repair_del"
                                 ELSE IF Added(c) = {} THEN "repair_pub" ELSE "repair_wal"]
  BY <1>3 DEF RepairGet, Goto
<1> HIDE DEF c, v
<1>6. /\ claim'[w] = c /\ Alone(w)
      /\ pc'[w] = IF c.orphan = None THEN "claim"
                  ELSE IF ~ExtendsLineage(c.orphan, c.man) THEN "repair_del"
                  ELSE IF Added(c) = {} THEN "repair_pub" ELSE "repair_wal"
  BY <1>1, <1>5 DEF SafeInv, TypeOK, Alone
<1>7. c.orphan # None => ExtendsLineage(c.orphan, c.man)
  <2> SUFFICES ASSUME c.orphan # None PROVE ExtendsLineage(c.orphan, c.man)
    OBVIOUS
  <2>1. Fits(v, c.orphan) /\ c.orphan \in Manifest
    BY <1>2, <1>3, <1>4 DEF SafeInv, Safe, Bodies
  <2>2. ClaimOf(c.orphan, c.man) \/ CommitOf(c.orphan, c.man)
    BY <1>3, <1>4, <2>1 DEF Fits
  <2>3. c.man.epoch <= c.orphan.epoch /\ c.man.epoch \in Nat /\ c.orphan.epoch \in Nat
    BY <1>2, <1>4, <2>1, <2>2, Extends DEF Manifest
  <2> QED BY <2>3 DEF ExtendsLineage
<1>8. \/ pc'[w] = "claim"
      \/ c.orphan # None /\ Added(c) = {} /\ pc'[w] = "repair_pub"
      \/ c.orphan # None /\ Added(c) # {} /\ pc'[w] = "repair_wal"
  BY <1>6, <1>7
<1>9. Grows /\ Bodies' /\ Segments' /\ Chain' /\ Durable'
  BY <1>1, StoreStill
<1>10. c.id[1] = w /\ c.ver \in ptr /\ body[c.ver] = c.man /\ body[c.ver + 1] = c.orphan
  BY <1>3, <1>4 DEF v
<1>11. ClaimOK(w, pc[w], claim[w])'
  <2>1. CASE pc'[w] = "claim"
    BY <1>6, <1>10, <2>1 DEF ClaimOK, Judged, Bases, RepairPcs
  <2>2. CASE c.orphan # None /\ Added(c) = {} /\ pc'[w] = "repair_pub"
    BY <1>1, <1>6, <1>10, <2>2 DEF ClaimOK, Judged
  <2>3. CASE c.orphan # None /\ Added(c) # {} /\ pc'[w] = "repair_wal"
    BY <1>1, <1>6, <1>10, <2>3 DEF ClaimOK, Judged
  <2> QED BY <1>8, <2>1, <2>2, <2>3
<1> QED BY <1>1, <1>6, <1>8, <1>9, <1>11, OpenGoesOn DEF ClaimPcs

\* The slot is judged.
LEMMA RepairWalSafe ==
  ASSUME SafeInv, TypeOK', NEW w \in Writers, RepairWal(w)
  PROVE  Safe' /\ Kept
<1> DEFINE c == claim[w]
           seg == AddedSegment(c)
<1>1. /\ pc[w] = "repair_wal" /\ pc[w] \in Judged
      /\ UNCHANGED <<body, ptr, wal, late, sess, claim, txn, staged, acked>>
  BY DEF RepairWal, store, history, Judged
<1>2. /\ pc[w] \in ClaimPcs /\ ClaimOK(w, pc[w], c) /\ c.id[1] = w /\ c.ver \in ptr
      /\ body[c.ver] = c.man /\ c.orphan # None /\ body[c.ver + 1] = c.orphan
      /\ Added(c) # {}
  BY <1>1, JudgedWhat, Zenon DEF ClaimOK
<1>3. seg.recs # <<>>
  BY <1>1, <1>2, JudgedWhat
<1> HIDE DEF seg
<1>4. /\ Alone(w) /\ claim'[w] = c
      /\ pc'[w] = IF wal[seg.seq] = None THEN "repair_fence"
                  ELSE IF SlotMatches(wal[seg.seq], seg) THEN "repair_pub" ELSE "repair_del"
  BY <1>1 DEF RepairWal, Goto, SafeInv, TypeOK, Alone, seg
<1>5. Grows /\ Bodies' /\ Segments' /\ Chain' /\ Durable'
  BY <1>1, StoreStill
<1>6. /\ pc'[w] \in {"repair_fence", "repair_pub", "repair_del"}
      /\ pc'[w] = "repair_pub" => wal[seg.seq] = seg.recs
      /\ pc'[w] = "repair_del" => wal[seg.seq] \notin {None, seg.recs}
  BY <1>3, <1>4 DEF SlotMatches
<1>7. ClaimOK(w, pc[w], claim[w])'
  BY <1>1, <1>2, <1>4, <1>6 DEF ClaimOK, Judged, seg
<1> QED BY <1>1, <1>2, <1>4, <1>5, <1>6, <1>7, OpenGoesOn DEF ClaimPcs

\* A PUT on a WAL slot.
LEMMA WalPutGrows ==
  ASSUME SafeInv, TypeOK', NEW q \in Seqs, NEW r, UNCHANGED <<body, ptr, staged, acked>>,
         wal' = wal \/ (wal[q] = None /\ wal' = [wal EXCEPT ![q] = r]),
         \A rq \in late' : rq \in late \/ rq.obj = "wal"
  PROVE  Grows /\ Bodies' /\ Segments' /\ Chain' /\ Durable'
<1>1. \A s \in Seqs : wal[s] # None => wal'[s] = wal[s]
  BY DEF SafeInv, TypeOK
<1>2. Grows
  BY <1>1 DEF Grows
<1> QED BY <1>2, NotPublished

\* A free slot is fenced.
LEMMA RepairFenceSafe ==
  ASSUME SafeInv, TypeOK', NEW w \in Writers, RepairFence(w)
  PROVE  Safe' /\ Kept
<1> DEFINE c == claim[w]
           seg == AddedSegment(c)
<1>1. /\ pc[w] = "repair_fence" /\ pc[w] \in Judged
      /\ UNCHANGED <<body, ptr, late, sess, claim, txn, staged, acked>>
  BY DEF RepairFence, history, Judged
<1>2. /\ pc[w] \in ClaimPcs /\ ClaimOK(w, pc[w], c) /\ c.id[1] = w /\ c.ver \in ptr
      /\ body[c.ver] = c.man /\ c.orphan # None /\ body[c.ver + 1] = c.orphan
      /\ Added(c) # {}
  BY <1>1, JudgedWhat, Zenon DEF ClaimOK
<1>3. seg.recs # <<>> /\ seg.seq \in Seqs
  BY <1>1, <1>2, JudgedWhat
<1> HIDE DEF seg
<1>4. /\ Alone(w) /\ claim'[w] = c
      /\ wal' = IF wal[seg.seq] = None THEN [wal EXCEPT ![seg.seq] = <<>>] ELSE wal
      /\ pc'[w] = IF wal[seg.seq] = None THEN "repair_del" ELSE "repair_wal"
  BY <1>1 DEF RepairFence, Goto, SafeInv, TypeOK, Alone, seg
<1>5. Grows /\ Bodies' /\ Segments' /\ Chain' /\ Durable'
  BY <1>1, <1>3, <1>4, WalPutGrows
<1>6. <<>> # None
  <2>1. <<>> \in Seq(Record)
    OBVIOUS
  <2> QED BY <2>1, NoneAssumption
<1>7. /\ pc'[w] \in {"repair_del", "repair_wal"}
      /\ pc'[w] = "repair_del" => wal'[seg.seq] \notin {None, seg.recs}
  BY <1>3, <1>4, <1>6 DEF SafeInv, TypeOK
<1>8. ClaimOK(w, pc[w], claim[w])'
  BY <1>1, <1>2, <1>4, <1>7 DEF ClaimOK, Judged, seg
<1> QED BY <1>1, <1>2, <1>4, <1>5, <1>7, <1>8, OpenGoesOn DEF ClaimPcs

\* An orphan whose segment is in its slot is published.
LEMMA RepairPubSafe ==
  ASSUME SafeInv, TypeOK', NEW w \in Writers, RepairPub(w)
  PROVE  Safe' /\ Kept
<1> DEFINE c == claim[w]
           v == c.ver + 1
           seg == AddedSegment(c)
           d == [c EXCEPT !.orphan = None]
<1>1. /\ pc[w] = "repair_pub" /\ pc[w] \in Judged
      /\ UNCHANGED <<body, wal, late, sess, txn, staged, acked>>
  BY DEF RepairPub, history, Judged
<1>2. /\ pc[w] \in ClaimPcs /\ c \in Claim /\ v \in Versions /\ next_version(c.ver) = v
      /\ c.ver \in ptr /\ body[c.ver] = c.man /\ c.man \in Manifest
      /\ body[v] = c.orphan /\ body[v] # None /\ c.id[1] = w /\ ClaimOK(w, pc[w], c)
      /\ Added(c) = {} => c.orphan.wal = c.man.wal
      /\ Added(c) # {} => seg \in Descriptor /\ c.orphan.wal = Append(c.man.wal, seg)
  BY <1>1, JudgedWhat
<1>3. Added(c) = {} \/ wal[seg.seq] = seg.recs
  BY <1>1, <1>2 DEF ClaimOK
<1> HIDE DEF v, seg
<1>4. Present(body[v])
  <2>1. Present(c.man)
    BY <1>2 DEF SafeInv, Safe, Segments
  <2>2. CASE Added(c) = {}
    BY <1>2, <2>1, <2>2 DEF Present
  <2>3. CASE Added(c) # {}
    BY <1>2, <1>3, <2>1, <2>3, AppendedContents
  <2> QED BY <2>2, <2>3
<1>5. ptr' = ptr \cup {v} /\ claim'[w] = d /\ pc'[w] = "claim" /\ Alone(w) /\ d.id = c.id
  BY <1>1, <1>2 DEF RepairPub, Goto, SafeInv, TypeOK, Alone, Claim
<1>6. Grows /\ Bodies' /\ Segments' /\ Chain' /\ Durable'
  <2>1. CASE v \in ptr
    <3>1. ptr' = ptr
      BY <1>5, <2>1
    <3> QED BY <1>1, <3>1, StoreStill
  <2>2. CASE v \notin ptr
    BY <1>1, <1>2, <1>4, <1>5, <2>2, Published
  <2> QED BY <2>1, <2>2
<1> HIDE DEF d
<1>7. ClaimOK(w, pc[w], claim[w])'
  BY <1>2, <1>5 DEF ClaimOK, Judged, Bases, RepairPcs
<1> QED BY <1>1, <1>2, <1>5, <1>6, <1>7, OpenGoesOn DEF ClaimPcs

\* The orphan that is deleted is not published, and can no longer be: nothing
\* in flight would publish it, and its own commit has lost its slot.
LEMMA RepairDelSafe ==
  ASSUME SafeInv, TypeOK', OneJudge, NEW w \in Writers, RepairDel(w)
  PROVE  Safe' /\ Kept
<1> DEFINE c == claim[w]
           v == c.ver + 1
           seg == AddedSegment(c)
           d == [c EXCEPT !.orphan = None]
<1>1. /\ pc[w] = "repair_del" /\ pc[w] \in Judged
      /\ UNCHANGED <<ptr, wal, late, sess, txn, staged, acked>>
  BY DEF RepairDel, history, Judged
<1>2. /\ pc[w] \in ClaimPcs /\ c \in Claim /\ v \in Versions /\ next_version(c.ver) = v
      /\ c.ver \in ptr /\ body[c.ver] = c.man /\ c.man \in Manifest
      /\ body[v] = c.orphan /\ body[v] # None /\ c.id[1] = w /\ ClaimOK(w, pc[w], c)
      /\ v # 0 /\ v - 1 = c.ver /\ c.ver \in Nat
      /\ Added(c) # {} => seg \in Descriptor /\ c.orphan.wal = Append(c.man.wal, seg)
  BY <1>1, JudgedWhat
<1>3. Added(c) # {} /\ wal[seg.seq] \notin {None, seg.recs}
  BY <1>1, <1>2 DEF ClaimOK
<1>4. seg \in Descriptor /\ c.orphan.wal = Append(c.man.wal, seg) /\ c.man.wal \in Seq(Descriptor)
  BY <1>2, <1>3 DEF Manifest
<1> HIDE DEF v, seg
<1>5. /\ DOMAIN c.orphan.wal = (DOMAIN c.man.wal) \cup {Len(c.man.wal) + 1}
      /\ Len(c.man.wal) + 1 \notin DOMAIN c.man.wal
      /\ c.orphan.wal[Len(c.man.wal) + 1] = seg
  BY <1>4, Appended, SMTT(30)
<1>6. v \notin ptr
  BY <1>2, <1>3, <1>5 DEF SafeInv, Safe, Segments, Present
<1>7. /\ \A u \in Versions \ {v} : body'[u] = body[u]
      /\ body'[v] = None
      /\ claim'[w] = d /\ pc'[w] = "claim" /\ Alone(w) /\ d.id = c.id
  <2>1. body' = [body EXCEPT ![v] = None] /\ claim' = [claim EXCEPT ![w] = d]
    BY <1>2 DEF RepairDel, BodyDeleted
  <2>2. claim'[w] = d /\ pc'[w] = "claim" /\ Alone(w) /\ d.id = c.id
    BY <1>1, <1>2, <2>1 DEF RepairDel, Goto, SafeInv, TypeOK, Alone, Claim
  <2> QED BY <1>2, <2>1, <2>2 DEF SafeInv, TypeOK
<1> HIDE DEF d
<1>8. Kept /\ \A u \in ptr : body'[u] = body[u] /\ u \in Versions /\ body[u] # None
  BY <1>1, <1>6, <1>7, PublishedType DEF Kept
<1>9. Bodies'
  <2>1. \A u, m : Fits(u, m) => Fits(u, m)'
    BY <1>1, <1>8, FitsKept
  <2>2. 0 \in Versions
    BY BoundsAssumption DEF Versions
  <2>3. ASSUME NEW rq \in late, rq.obj = "ptr" PROVE Claims(rq.at)'
    <3>1. Claims(rq.at) /\ rq.at \in Versions
      BY <2>3 DEF SafeInv, Safe, Bodies, TypeOK, Request
    <3>2. rq.at # v
      <4> SUFFICES ASSUME rq.at = v PROVE FALSE
        OBVIOUS
      <4>1. c.orphan.wal = c.man.wal
        BY <1>2, <3>1 DEF Claims
      <4> QED BY <1>5, <4>1
    <3> QED BY <1>1, <1>7, <1>8, <3>1, <3>2 DEF Claims
  <2>4. ASSUME NEW u \in Versions \ {0}, body'[u] # None PROVE Fits(u, body[u])'
    <3>1. PICK m : m = body'[u]
      OBVIOUS
    <3>2. Fits(u, m)
      BY <1>7, <2>4, <3>1 DEF SafeInv, Safe, Bodies
    <3>3. Fits(u, m)'
      BY <2>1, <3>2
    <3> QED BY <3>1, <3>3
  <2>5. body'[0] = body[0]
    BY <1>2, <1>7, <2>2
  <2>6. \A rq \in late' : rq.obj = "body" => Fits(rq.at, rq.val)'
    BY <1>1, <2>1 DEF SafeInv, Safe, Bodies
  <2>7. \A u \in ptr' : body'[u] # None
    BY <1>1, <1>8
  <2> QED BY <1>1, <2>3, <2>4, <2>5, <2>6, <2>7 DEF Bodies, SafeInv, Safe
<1>10. Segments' /\ Chain' /\ Durable'
  <2>1. \A u \in ptr' : u \in ptr /\ body'[u] = body[u]
    BY <1>1, <1>8
  <2>2. Segments'
    <3> SUFFICES ASSUME NEW u \in ptr' PROVE Present(body[u])'
      BY DEF Segments
    <3>1. PICK m : m = body[u] /\ m = body'[u]
      BY <2>1
    <3>2. Present(m)
      BY <2>1, <3>1 DEF SafeInv, Safe, Segments
    <3>3. Present(m)'
      BY <1>1, <3>2 DEF Present
    <3> QED BY <3>1, <3>3
  <2>3. Chain'
    <3>1. Chain
      BY DEF SafeInv, Safe
    <3> QED BY <2>1, <3>1 DEF Chain
  <2>4. Durable'
    BY <1>1, <2>1 DEF Durable, SafeInv, Safe
  <2> QED BY <2>2, <2>3, <2>4
<1>11. ASSUME NEW x \in Writers PROVE SessOK(x, sess[x])'
  <2>1. PICK s : s = sess[x]
    OBVIOUS
  <2>2. SessOK(x, s)
    BY <2>1 DEF SafeInv, Safe, Locally
  <2>3. SessOK(x, s)'
    BY <1>1, <1>8, <2>2, SessKept
  <2> QED BY <1>1, <2>1, <2>3
<1>12. Locally(w)'
  <2>1. ClaimOK(w, pc[w], claim[w])' /\ CommitOK(pc[w], sess[w], txn[w])'
    BY <1>2, <1>7 DEF ClaimOK, CommitOK, CommitPcs, Judged, Bases, RepairPcs
  <2> QED BY <1>11, <2>1 DEF Locally
<1>13. ASSUME NEW x \in Writers \ {w} PROVE Locally(x)'
  <2>1. /\ pc[x] \notin Judging /\ pc'[x] = pc[x] /\ sess'[x] = sess[x] /\ txn'[x] = txn[x]
        /\ claim'[x] = claim[x]
    BY <1>1, <1>7 DEF OneJudge, Judging, Alone
  <2>2. ClaimOK(x, pc[x], claim[x])'
    <3>1. PICK l, k : l = pc[x] /\ k = claim[x]
      OBVIOUS
    <3>2. ClaimOK(x, l, k)
      BY <3>1 DEF SafeInv, Safe, Locally
    <3>3. l \in Bases \cup {"boot_ptr"} => body'[k.ver] = k.man
      <4>1. CASE l \in Bases
        BY <1>8, <3>2, <4>1 DEF ClaimOK
      <4>2. CASE l = "boot_ptr"
        <5>1. 0 \in Versions
          BY BoundsAssumption DEF Versions
        <5>2. k.ver = 0
          BY <3>1, <4>2 DEF SafeInv, PointerFamily
        <5> QED BY <1>2, <1>7, <3>2, <4>2, <5>1, <5>2 DEF ClaimOK
      <4> QED BY <4>1, <4>2
    <3>4. l = "claim_ptr" => body'[k.ver + 1] = Claimed(k)
      <4> SUFFICES ASSUME l = "claim_ptr" PROVE body'[k.ver + 1] = Claimed(k)
        OBVIOUS
      <4>1. pc[x] \in Bases /\ pc[x] \in ClaimPcs /\ pc[x] \in Ahead
        BY <3>1 DEF Bases, ClaimPcs, Ahead
      <4>2. /\ k.ver \in ptr /\ k.ver \in Nat /\ k.ver + 1 \in Versions /\ body[k.ver] = k.man
            /\ body[k.ver + 1] = Claimed(k) /\ Claimed(k).wal = k.man.wal
        BY <3>1, <3>2, <4>1, ClaimWhat, ClaimedFits DEF ClaimOK
      <4>3. k.ver + 1 # v
        <5> SUFFICES ASSUME k.ver + 1 = v PROVE FALSE
          OBVIOUS
        <5>1. k.ver = c.ver
          BY <1>2, <4>2 DEF v
        <5>2. c.orphan.wal = c.man.wal
          BY <1>2, <4>2, <5>1 DEF v
        <5> QED BY <1>5, <5>2
      <4> QED BY <1>7, <4>2, <4>3
    <3>5. l \in Judged => k.orphan # None /\ body'[k.ver + 1] = k.orphan
      <4> SUFFICES ASSUME l \in Judged PROVE k.orphan # None /\ body'[k.ver + 1] = k.orphan
        OBVIOUS
      <4>1. l = "repair_pub"
        BY <2>1, <3>1 DEF Judged, Judging
      <4>2. PICK last : last = AddedSegment(k)
        OBVIOUS
      <4>3. /\ k.ver + 1 \in Versions /\ k.ver \in ptr /\ body[k.ver] = k.man
            /\ body[k.ver + 1] = k.orphan /\ body[k.ver + 1] # None /\ k.ver \in Nat
            /\ Added(k) = {} => k.orphan.wal = k.man.wal
            /\ Added(k) # {} => last \in Descriptor /\ k.orphan.wal = Append(k.man.wal, last)
        BY <3>1, <4>1, <4>2, JudgedWhat
      <4>4. Added(k) = {} \/ wal[last.seq] = last.recs
        BY <3>2, <4>1, <4>2 DEF ClaimOK
      <4>5. k.ver + 1 # v
        <5> SUFFICES ASSUME k.ver + 1 = v PROVE FALSE
          OBVIOUS
        <5>1. k.ver = c.ver
          BY <1>2, <4>3 DEF v
        <5>2. k.orphan = c.orphan /\ k.man = c.man
          BY <1>2, <4>3, <5>1 DEF v
        <5>3. Added(k) # {}
          BY <1>5, <4>3, <5>2
        <5>4. c.orphan.wal = Append(c.man.wal, last) /\ last \in Descriptor
          BY <4>3, <5>2, <5>3
        <5>5. c.orphan.wal[Len(c.man.wal) + 1] = last
          BY <1>4, <5>4, Appended
        <5> QED BY <1>3, <1>5, <4>4, <5>3, <5>5
      <4> QED BY <1>7, <4>3, <4>5
    <3>6. ClaimOK(x, l, k)'
      BY <1>1, <2>1, <3>1, <3>2, <3>3, <3>4, <3>5 DEF ClaimOK, Judging
    <3> QED BY <2>1, <3>1, <3>6
  <2>3. CommitOK(pc[x], sess[x], txn[x])'
    <3> SUFFICES ASSUME pc[x] \in CommitPcs PROVE CommitOK(pc[x], sess[x], txn[x])'
      BY <2>1 DEF CommitOK
    <3>1. PICK l, s, t : l = pc[x] /\ s = sess[x] /\ t = txn[x]
      OBVIOUS
    <3>2. /\ s.ver + 1 \in Versions /\ s.ver \in Nat /\ t.seq \in Seqs /\ s.man \in Manifest
          /\ s.pending \in Seq(Record) /\ s \in Session /\ s # None
          /\ SessOK(x, s) /\ CommitOK(l, s, t)
      BY <3>1, CommitWhat
    <3>3. t.body = "ok" /\ s.ver + 1 = v /\ body[v] = t.next
             => wal[t.seq] \notin {None, s.pending}
      <4> SUFFICES ASSUME s.ver + 1 = v, body[v] = t.next
                   PROVE  wal[t.seq] \notin {None, s.pending}
        OBVIOUS
      <4>1. s.ver = c.ver
        BY <1>2, <3>2 DEF v
      <4>2. s.man = c.man
        BY <1>2, <3>2, <4>1 DEF SessOK
      <4> DEFINE e == [seq |-> t.seq, recs |-> s.pending]
      <4>3. c.orphan.wal = Append(c.man.wal, e) /\ e \in Descriptor
        BY <1>2, <3>1, <3>2, <4>2 DEF CommitOK, build_next, Descriptor
      <4>4. c.orphan.wal[Len(c.man.wal) + 1] = e
        BY <1>4, <4>3, Appended
      <4>5. seg.seq = t.seq /\ seg.recs = s.pending
        BY <1>5, <4>4
      <4> QED BY <1>3, <4>5
    <3>4. t.body = "ok" /\ l # "del_wal"
            => body'[s.ver + 1] = t.next \/ wal[t.seq] \notin {None, s.pending}
      BY <1>7, <3>1, <3>2, <3>3 DEF CommitOK
    <3>5. CommitOK(l, s, t)'
      BY <1>1, <3>2, <3>4 DEF CommitOK
    <3> QED BY <2>1, <3>1, <3>5
  <2> QED BY <1>11, <2>2, <2>3 DEF Locally
<1>14. OneZero'
  <2>1. \A x \in Writers : HasZero(x)' => HasZero(x)
    BY <1>1, <1>7 DEF HasZero, Alone
  <2> QED BY <1>1, <2>1 DEF OneZero, SafeInv, Safe
<1> QED BY <1>8, <1>9, <1>10, <1>12, <1>13, <1>14 DEF Safe

-----------------------------------------------------------------------------
(* Recovery.                                                                *)

\* The next slot is above those of any published version.
LEMMA NextSeqAbove ==
  ASSUME SafeInv, NEW v \in ptr, NEW q
  PROVE  \A i \in DOMAIN body[v].wal : body[v].wal[i].seq < next_seq(q)
<1> SUFFICES ASSUME NEW i \in DOMAIN body[v].wal PROVE body[v].wal[i].seq < next_seq(q)
  OBVIOUS
<1>1. PICK s : s = body[v].wal[i].seq
  OBVIOUS
<1>2. body[v].wal[i] \in Descriptor
  BY PublishedType
<1>3. s \in Seqs /\ wal[s] = body[v].wal[i].recs /\ wal[s] # None
  BY <1>1, <1>2, NoneAssumption DEF Descriptor, SafeInv, Safe, Segments, Present
<1>4. s \in Occupied
  BY <1>3 DEF Occupied
<1>5. Occupied \subseteq 0..MaxSeq /\ MaxSeq \in Nat /\ Occupied # {}
  BY <1>4, BoundsAssumption DEF Occupied, Seqs
<1>6. Max(Occupied) \in Occupied /\ s <= Max(Occupied)
  BY <1>4, <1>5, BoundedMax
<1>7. next_seq(q) = Max(Occupied) + 1
  BY <1>5 DEF next_seq
<1>8. Max(Occupied) \in Nat /\ s \in Nat
  <2>1. \A x \in Occupied : x \in Nat
    BY <1>5
  <2> QED BY <1>4, <1>6, <2>1
<1> QED BY <1>1, <1>6, <1>7, <1>8

\* What is replayed is what the descriptors declare.
LEMMA ReplayedWhat ==
  ASSUME SafeInv, NEW v \in ptr
  PROVE  Replayed(body[v]) = RecordsOf(body[v])
<1>1. PICK m : m = body[v]
  OBVIOUS
<1>2. \A i \in DOMAIN m.wal : wal[m.wal[i].seq] = m.wal[i].recs
  BY <1>1 DEF SafeInv, Safe, Segments, Present
<1>3. \A r : r \in Replayed(m) <=>
             \E i \in DOMAIN m.wal : r \in {wal[m.wal[i].seq][j] : j \in DOMAIN wal[m.wal[i].seq]}
  BY DEF Replayed
<1>4. \A r : r \in RecordsOf(m) <=>
             \E i \in DOMAIN m.wal : r \in {m.wal[i].recs[j] : j \in DOMAIN m.wal[i].recs}
  BY DEF RecordsOf
<1>5. \A r : r \in Replayed(m) <=> r \in RecordsOf(m)
  BY <1>2, <1>3, <1>4
<1> QED BY <1>1, <1>5

\* The new session stands on what its claim published.
LEMMA RecoverSafe ==
  ASSUME SafeInv, TypeOK', NEW w \in Writers, Recover(w)
  PROVE  Safe' /\ Kept
<1>1. /\ pc[w] = "recover" /\ pc[w] \in ClaimPcs /\ pc[w] \in Bases /\ pc[w] \in Based
      /\ UNCHANGED <<body, ptr, wal, late, txn, staged, acked>>
  BY DEF Recover, store, history, ClaimPcs, Bases, Based
<1>2. CASE ~Recoverable(claim[w].man)
  <2>1. FailOpen(w) /\ UNCHANGED sess
    BY <1>2 DEF Recover
  <2> QED BY <1>1, <2>1, OpenFailsStill
<1>3. CASE Recoverable(claim[w].man)
  <2> DEFINE c == claim[w]
             s == [ver |-> c.ver, man |-> c.man, epoch |-> c.man.epoch, owner |-> c.id,
                   next_lsn |-> first_lsn(Replayed(c.man)),
                   seq |-> next_seq(1), pending |-> <<>>, poisoned |-> FALSE,
                   memtable |-> Replayed(c.man)]
  <2>1. sess' = [sess EXCEPT ![w] = s] /\ claim' = [claim EXCEPT ![w] = None]
        /\ pc' = [pc EXCEPT ![w] = "open"]
    BY <1>3 DEF Recover, Goto
  <2>2. /\ s.ver = c.ver /\ s.man = c.man /\ s.epoch = c.man.epoch /\ s.owner = c.id
        /\ s.seq = next_seq(1) /\ s.pending = <<>> /\ s.memtable = Replayed(c.man)
    OBVIOUS
  <2> HIDE DEF s
  <2>3. sess'[w] = s /\ pc'[w] = "open" /\ Alone(w)
    BY <1>1, <2>1 DEF SafeInv, TypeOK, Alone
  <2>4. /\ c.ver \in ptr /\ body[c.ver] = c.man /\ c.id[1] = w
        /\ c.man.epoch > 0 => c.man.owner = c.id
    BY <1>1, ClaimWhat DEF ClaimOK
  <2>5. /\ Replayed(c.man) = RecordsOf(c.man)
        /\ \A i \in DOMAIN c.man.wal : c.man.wal[i].seq < next_seq(1)
    BY <2>4, ReplayedWhat, NextSeqAbove
  <2>6. DOMAIN s.pending = {} /\ BatchesOf(s.pending) = {}
    BY <2>2 DEF BatchesOf
  <2>7. Grows /\ Bodies' /\ Segments' /\ Chain' /\ Durable'
    BY <1>1, StoreStill
  <2>p. PICK n : n = s
    OBVIOUS
  <2>8. SessOK(w, n)'
    BY <1>1, <2>2, <2>4, <2>5, <2>6, <2>p DEF SessOK
  <2>9. ClaimOK(w, pc[w], claim[w])' /\ CommitOK(pc[w], sess[w], txn[w])'
    BY <2>3 DEF ClaimOK, CommitOK, CommitPcs, ClaimPcs, Judged, Bases, RepairPcs
  <2>10. HasZero(w)' => HasZero(w)
    BY <1>1, <2>2, <2>3 DEF HasZero
  <2>11. Locally(w)'
    BY <2>3, <2>8, <2>9, <2>p DEF Locally
  <2> QED BY <2>3, <2>7, <2>10, <2>11, StepSafe DEF ClaimPcs
<1> QED BY <1>2, <1>3

\* A request of an open fails.
LEMMA OpenFaultSafe ==
  ASSUME SafeInv, TypeOK', NEW w \in Writers, OpenFault(w)
  PROVE  Safe' /\ Kept
BY OpenFailsStill DEF OpenFault, store, history

-----------------------------------------------------------------------------
(* Staging and committing.                                                  *)

\* A session goes on, or ends.
LEMMA SessionStep ==
  ASSUME SafeInv, NEW w \in Writers, Alone(w), pc'[w] \notin ClaimPcs, Grows,
         Bodies', Segments', Chain', Durable', SessOK(w, sess[w])',
         CommitOK(pc[w], sess[w], txn[w])',
         sess'[w] # None => sess[w] # None /\ sess'[w].epoch = sess[w].epoch
  PROVE  Safe' /\ Kept
<1>1. ClaimOK(w, pc[w], claim[w])'
  BY DEF ClaimOK, ClaimPcs, Judged, Bases, RepairPcs
<1>2. HasZero(w)' => HasZero(w)
  BY DEF HasZero, ClaimPcs
<1> QED BY <1>1, <1>2, StepSafe DEF Locally

\* An open session stands on a published version.
LEMMA SessionWhat ==
  ASSUME SafeInv, NEW w \in Writers, pc[w] = "open" \/ pc[w] \in CommitPcs
  PROVE  /\ sess[w] \in Session /\ sess[w] # None /\ SessOK(w, sess[w])
         /\ sess[w].ver \in ptr /\ body[sess[w].ver] = sess[w].man
         /\ sess[w].man \in Manifest /\ sess[w].pending \in Seq(Record)
         /\ sess[w].epoch = sess[w].man.epoch /\ sess[w].epoch \in Nat
         /\ OnceEach(sess[w].man) /\ Contents(sess[w].man) \subseteq staged
<1>1. sess[w] \in Session /\ sess[w] # None /\ SessOK(w, sess[w])
  BY DEF SafeInv, Safe, Locally, TypeOK, Locals
<1>2. /\ sess[w].ver \in ptr /\ body[sess[w].ver] = sess[w].man
      /\ sess[w].epoch = sess[w].man.epoch
  BY <1>1 DEF SessOK
<1>3. sess[w].man \in Manifest /\ sess[w].pending \in Seq(Record) /\ sess[w].epoch \in Nat
  BY <1>1 DEF Session
<1> QED BY <1>1, <1>2, <1>3, PublishedOnce

\* A batch is staged for the first time.
LEMMA StageSafe ==
  ASSUME SafeInv, TypeOK', NEW w \in Writers, NEW b \in Batches, Stage(w, b)
  PROVE  Safe' /\ Kept
<1>s. PICK s : s = sess[w]
  OBVIOUS
<1> DEFINE r == [b |-> b, lsn |-> s.next_lsn]
           n == [s EXCEPT !.pending = Append(@, r), !.next_lsn = @ + 1]
<1>1. /\ pc[w] = "open" /\ b \notin staged /\ staged' = staged \cup {b} /\ s.next_lsn <= MaxLsn
      /\ sess' = [sess EXCEPT ![w] = n]
      /\ UNCHANGED <<body, ptr, wal, late, pc, claim, txn, acked>>
  BY <1>s DEF Stage, store
<1>2. /\ s \in Session /\ s # None /\ SessOK(w, s) /\ s.pending \in Seq(Record)
      /\ Contents(s.man) \subseteq staged
  BY <1>s, <1>1, SessionWhat
<1>3. r \in Record /\ r.b = b
  <2>1. s.next_lsn \in 1..(MaxLsn + 1)
    BY <1>2 DEF Session
  <2>2. s.next_lsn \in 1..MaxLsn
    BY <1>1, <2>1, BoundsAssumption
  <2> QED BY <2>2 DEF Record
<1>4. /\ n.ver = s.ver /\ n.man = s.man /\ n.epoch = s.epoch /\ n.owner = s.owner
      /\ n.seq = s.seq /\ n.memtable = s.memtable /\ n.pending = Append(s.pending, r)
  BY <1>2 DEF Session
<1> HIDE DEF n, r
<1>5. /\ DOMAIN n.pending = (DOMAIN s.pending) \cup {Len(s.pending) + 1}
      /\ \A i \in DOMAIN s.pending : n.pending[i] = s.pending[i]
      /\ n.pending[Len(s.pending) + 1] = r
  BY <1>2, <1>3, <1>4, Appended
<1>6. BatchesOf(n.pending) = BatchesOf(s.pending) \cup {b}
  BY <1>3, <1>5 DEF BatchesOf
<1>7. \A i \in DOMAIN s.pending : s.pending[i].b # b
  BY <1>1, <1>2 DEF SessOK, BatchesOf
<1>8. \A i, j \in DOMAIN n.pending : n.pending[i].b = n.pending[j].b => i = j
  BY <1>2, <1>3, <1>5, <1>7 DEF SessOK
<1>9. SessOK(w, n)'
  BY <1>1, <1>2, <1>4, <1>6, <1>8 DEF SessOK
<1>10. sess'[w] = n /\ Alone(w) /\ pc'[w] = "open"
  BY <1>1 DEF SafeInv, TypeOK, Alone
<1>11. Grows /\ Bodies' /\ Segments' /\ Chain' /\ Durable'
  BY <1>1, StoreStill
<1>12. CommitOK(pc[w], sess[w], txn[w])'
  BY <1>10 DEF CommitOK, CommitPcs
<1> QED BY <1>s, <1>2, <1>4, <1>9, <1>10, <1>11, <1>12, SessionStep DEF ClaimPcs

\* What was staged is dropped.
LEMMA RollbackSafe ==
  ASSUME SafeInv, TypeOK', NEW w \in Writers, Rollback(w)
  PROVE  Safe' /\ Kept
<1>s. PICK s : s = sess[w]
  OBVIOUS
<1>1. pc[w] = "open" /\ UNCHANGED <<body, ptr, wal, late, pc, claim, txn, staged, acked>>
  BY DEF Rollback, store, history
<1>2. s \in Session /\ s # None /\ SessOK(w, s) /\ s.pending \in Seq(Record)
  BY <1>s, <1>1, SessionWhat
<1>3. PICK mark \in 0..(Len(s.pending) - 1) :
        sess' = [sess EXCEPT ![w].pending = SubSeq(s.pending, 1, mark)]
  BY <1>s DEF Rollback
<1> DEFINE p == SubSeq(s.pending, 1, mark)
           n == [s EXCEPT !.pending = p]
<1>4. DOMAIN p \subseteq DOMAIN s.pending /\ \A i \in DOMAIN p : p[i] = s.pending[i]
  <2>1. mark \in Nat /\ mark <= Len(s.pending) /\ Len(s.pending) \in Nat
    BY <1>2, LenProperties
  <2> QED BY <1>2, <2>1
<1> HIDE DEF p
<1>5. /\ n.ver = s.ver /\ n.man = s.man /\ n.epoch = s.epoch /\ n.owner = s.owner
      /\ n.seq = s.seq /\ n.memtable = s.memtable /\ n.pending = p
  BY <1>2 DEF Session
<1>6. sess'[w] = n /\ Alone(w) /\ pc'[w] = "open"
  BY <1>s, <1>1, <1>3 DEF SafeInv, TypeOK, Alone, p
<1> HIDE DEF n
<1>7. BatchesOf(n.pending) \subseteq BatchesOf(s.pending)
  BY <1>4, <1>5 DEF BatchesOf
<1>8. \A i, j \in DOMAIN n.pending : n.pending[i].b = n.pending[j].b => i = j
  BY <1>2, <1>4, <1>5 DEF SessOK
<1>9. SessOK(w, n)'
  BY <1>1, <1>2, <1>5, <1>7, <1>8 DEF SessOK
<1>10. Grows /\ Bodies' /\ Segments' /\ Chain' /\ Durable'
  BY <1>1, StoreStill
<1>11. CommitOK(pc[w], sess[w], txn[w])'
  BY <1>6 DEF CommitOK, CommitPcs
<1> QED BY <1>s, <1>2, <1>5, <1>6, <1>9, <1>10, <1>11, SessionStep DEF ClaimPcs

\* A commit goes on from label to label, with locals t.
LEMMA CommitMovesSafe ==
  ASSUME SafeInv, NEW w \in Writers, UNCHANGED <<sess, claim>>, NEW l \in CommitPcs, NEW t,
         pc[w] = "open" \/ pc[w] \in CommitPcs,
         txn' = [txn EXCEPT ![w] = t], pc' = [pc EXCEPT ![w] = l], Grows,
         Bodies', Segments', Chain', Durable', CommitOK(l, sess[w], t)'
  PROVE  Safe' /\ Kept
<1>1. txn'[w] = t /\ pc'[w] = l /\ Alone(w) /\ pc'[w] \notin ClaimPcs
  BY DEF SafeInv, TypeOK, Alone, ClaimPcs, CommitPcs
<1>2. SessOK(w, sess[w])'
  <2>1. PICK s : s = sess[w]
    OBVIOUS
  <2>2. SessOK(w, s)
    BY <2>1 DEF SafeInv, Safe, Locally
  <2>3. SessOK(w, s)'
    BY <2>2, GrowsKept, SessKept DEF Grows
  <2> QED BY <2>1, <2>3
<1> QED BY <1>1, <1>2, SessionStep

\* A commit begins.
LEMMA StartCommitSafe ==
  ASSUME SafeInv, TypeOK', NEW w \in Writers, StartCommit(w)
  PROVE  Safe' /\ Kept
<1>1. PICK s, t : s = sess[w] /\ t = NewTxn(s, s.seq, FALSE)
  OBVIOUS
<1>2. /\ pc[w] = "open" /\ s.pending # <<>> /\ txn' = [txn EXCEPT ![w] = t]
      /\ pc' = [pc EXCEPT ![w] = "puts"] /\ "puts" \in CommitPcs
      /\ UNCHANGED <<body, ptr, wal, late, sess, claim, staged, acked>>
  BY <1>1 DEF StartCommit, Goto, store, CommitPcs
<1>3. SessOK(w, s) /\ s # None
  BY <1>1, <1>2, SessionWhat
<1>4. t.seq = s.seq /\ t.next = build_next(s, s.seq) /\ t.wal = "todo" /\ t.body = "todo"
  BY <1>1 DEF NewTxn
<1>5. CommitOK("puts", s, t)'
  BY <1>2, <1>3, <1>4 DEF CommitOK, SessOK
<1>6. Grows /\ Bodies' /\ Segments' /\ Chain' /\ Durable'
  BY <1>2, StoreStill
<1> QED BY <1>1, <1>2, <1>5, <1>6, CommitMovesSafe

\* The manifest a commit writes fits above its base.
LEMMA NextFits ==
  ASSUME SafeInv, NEW w \in Writers, pc[w] \in CommitPcs
  PROVE  LET s == sess[w]  t == txn[w]  e == [seq |-> t.seq, recs |-> s.pending] IN
         /\ Fits(s.ver + 1, t.next) /\ e \in Descriptor
         /\ t.next.wal = Append(s.man.wal, e) /\ t.next.epoch = s.epoch
         /\ t.next.owner = s.owner
         /\ Contents(t.next) = Contents(s.man) \cup BatchesOf(s.pending)
<1> DEFINE s == sess[w]
           t == txn[w]
           e == [seq |-> t.seq, recs |-> s.pending]
           n == t.next
<1>1. /\ s \in Session /\ SessOK(w, s) /\ s # None /\ s.ver \in ptr /\ body[s.ver] = s.man
      /\ s.man \in Manifest /\ s.epoch = s.man.epoch
      /\ OnceEach(s.man) /\ Contents(s.man) \subseteq staged
  BY SessionWhat
<1>2. /\ t.seq \in Seqs /\ s.pending \in Seq(Record) /\ CommitOK(pc[w], s, t) /\ s.ver \in Nat
      /\ n \in Manifest
  BY CommitWhat
<1>3. /\ n = build_next(s, t.seq) /\ s.pending # <<>>
      /\ \A i \in DOMAIN s.man.wal : s.man.wal[i].seq < t.seq
  BY <1>2 DEF CommitOK
<1>4. e \in Descriptor /\ e.seq = t.seq /\ e.recs = s.pending
  BY <1>2 DEF Descriptor
<1>5. n.wal = Append(s.man.wal, e) /\ n.epoch = s.epoch /\ n.owner = s.owner
  BY <1>1, <1>3 DEF build_next
<1> HIDE DEF e, n
<1>6. s.man.wal \in Seq(Descriptor)
  BY <1>1 DEF Manifest
<1>7. /\ DOMAIN n.wal = (DOMAIN s.man.wal) \cup {Len(s.man.wal) + 1}
      /\ Len(s.man.wal) + 1 \notin DOMAIN s.man.wal
      /\ \A i \in DOMAIN s.man.wal : n.wal[i] = s.man.wal[i]
      /\ n.wal[Len(s.man.wal) + 1] = e /\ Len(n.wal) = Len(s.man.wal) + 1 /\ n.wal # <<>>
  BY <1>4, <1>5, <1>6, Appended
<1>8. CommitOf(n, s.man)
  BY <1>1, <1>3, <1>4, <1>5, <1>7 DEF CommitOf, SessOK
<1>9. Contents(n) = Contents(s.man) \cup BatchesOf(s.pending)
  BY <1>1, <1>4, <1>5, AppendedContents
<1>10. OnceEach(n)
  <2> SUFFICES ASSUME NEW i \in DOMAIN n.wal, NEW k \in DOMAIN n.wal,
                      NEW j \in DOMAIN n.wal[i].recs, NEW l \in DOMAIN n.wal[k].recs,
                      n.wal[i].recs[j].b = n.wal[k].recs[l].b
               PROVE  i = k /\ j = l
    BY DEF OnceEach
  <2>1. \A x \in DOMAIN s.man.wal : \A y \in DOMAIN s.man.wal[x].recs :
           s.man.wal[x].recs[y].b \in Contents(s.man)
    <3>1. \A x \in DOMAIN s.man.wal : BatchesOf(s.man.wal[x].recs) \subseteq Contents(s.man)
      BY DEF Contents
    <3>2. \A q : \A y \in DOMAIN q : q[y].b \in BatchesOf(q)
      BY DEF BatchesOf
    <3> QED BY <3>1, <3>2
  <2>2. \A x \in DOMAIN s.pending : s.pending[x].b \notin Contents(s.man)
    BY <1>1 DEF SessOK, BatchesOf
  <2>3. CASE i \in DOMAIN s.man.wal /\ k \in DOMAIN s.man.wal
    <3>1. n.wal[i] = s.man.wal[i] /\ n.wal[k] = s.man.wal[k]
      BY <1>7, <2>3
    <3>2. s.man.wal[i].recs[j].b = s.man.wal[k].recs[l].b
      BY <3>1
    <3> HIDE DEF s
    <3> QED BY <1>1, <2>3, <3>1, <3>2 DEF OnceEach
  <2>4. CASE i \notin DOMAIN s.man.wal /\ k \notin DOMAIN s.man.wal
    <3>1. n.wal[i].recs = s.pending /\ n.wal[k].recs = s.pending /\ i = k
      BY <1>4, <1>7, <2>4
    <3> QED BY <1>1, <3>1 DEF SessOK
  <2>5. CASE i \in DOMAIN s.man.wal /\ k \notin DOMAIN s.man.wal
    <3>1. n.wal[i] = s.man.wal[i] /\ n.wal[k].recs = s.pending
      BY <1>4, <1>7, <2>5
    <3> QED BY <2>1, <2>2, <2>5, <3>1
  <2>6. CASE i \notin DOMAIN s.man.wal /\ k \in DOMAIN s.man.wal
    <3>1. n.wal[k] = s.man.wal[k] /\ n.wal[i].recs = s.pending
      BY <1>4, <1>7, <2>6
    <3> QED BY <2>1, <2>2, <2>6, <3>1
  <2> QED BY <2>3, <2>4, <2>5, <2>6
<1>11. Contents(n) \subseteq staged
  BY <1>1, <1>9 DEF SessOK
<1>12. (s.ver + 1) - 1 = s.ver /\ s.ver + 1 > 0
  BY <1>2
<1>13. Fits(s.ver + 1, n)
  BY <1>1, <1>8, <1>10, <1>11, <1>12 DEF Fits
<1> QED BY <1>4, <1>5, <1>9, <1>13 DEF e, n

\* The WAL PUT.
LEMMA PutWalSafe ==
  ASSUME SafeInv, TypeOK', NEW w \in Writers, PutWal(w)
  PROVE  Safe' /\ Kept
<1>1. PICK s, t : s = sess[w] /\ t = txn[w]
  OBVIOUS
<1>2. /\ pc[w] = "puts" /\ "puts" \in CommitPcs /\ t.wal = "todo"
      /\ UNCHANGED <<body, ptr, pc, sess, claim, staged, acked>>
  BY <1>1 DEF PutWal, history, CommitPcs
<1>3. t \in Txn /\ t.seq \in Seqs /\ CommitOK("puts", s, t) /\ s.pending # None
  BY <1>1, <1>2, CommitWhat
<1>4. PICK r \in {"ok", "exists", "err"} :
        /\ txn' = [txn EXCEPT ![w].wal = r]
        /\ wal' = wal \/ (wal[t.seq] = None /\ wal' = [wal EXCEPT ![t.seq] = s.pending])
        /\ \A rq \in late' : rq \in late \/ rq.obj = "wal"
        /\ r = "ok" => wal[t.seq] = None /\ wal' = [wal EXCEPT ![t.seq] = s.pending]
  <2>1. CASE wal[t.seq] # None
    BY <1>1, <2>1 DEF PutWal
  <2>2. CASE wal[t.seq] = None
    <3>1. PICK out \in Outcomes(PutFaults) :
             /\ wal' = IF Lands(out) THEN [wal EXCEPT ![t.seq] = s.pending] ELSE wal
             /\ InFlight(out, [obj |-> "wal", at |-> t.seq, val |-> s.pending])
             /\ txn' = [txn EXCEPT ![w].wal = IF out = "ok" THEN "ok" ELSE "err"]
      BY <1>1, <2>2 DEF PutWal
    <3>2. \A rq \in late' : rq \in late \/ rq.obj = "wal"
      BY <3>1 DEF InFlight
    <3>3. out = "ok" => Lands(out)
      BY DEF Lands
    <3> QED BY <2>2, <3>1, <3>2, <3>3
  <2> QED BY <2>1, <2>2
<1>5. Grows /\ Bodies' /\ Segments' /\ Chain' /\ Durable'
  BY <1>2, <1>3, <1>4, WalPutGrows
<1> DEFINE u == [t EXCEPT !.wal = r]
<1>6. u.seq = t.seq /\ u.next = t.next /\ u.body = t.body /\ u.wal = r
  BY <1>3 DEF Txn
<1>7. txn' = [txn EXCEPT ![w] = u] /\ pc' = [pc EXCEPT ![w] = "puts"]
  BY <1>1, <1>2, <1>4 DEF SafeInv, TypeOK
<1> HIDE DEF u
<1>8. r = "ok" => wal'[t.seq] = s.pending
  BY <1>3, <1>4 DEF SafeInv, TypeOK
<1>9. wal[t.seq] # None => wal'[t.seq] = wal[t.seq]
  BY <1>3, <1>5 DEF Grows
<1>10. CommitOK("puts", s, u)'
  BY <1>2, <1>3, <1>6, <1>8, <1>9 DEF CommitOK
<1> QED BY <1>1, <1>2, <1>5, <1>7, <1>10, CommitMovesSafe

\* The body PUT.
LEMMA PutBodySafe ==
  ASSUME SafeInv, TypeOK', NEW w \in Writers, PutBody(w)
  PROVE  Safe' /\ Kept
<1>1. PICK s, t, v : s = sess[w] /\ t = txn[w] /\ v = s.ver + 1
  OBVIOUS
<1>2. /\ pc[w] = "puts" /\ "puts" \in CommitPcs
      /\ UNCHANGED <<ptr, wal, pc, sess, claim, staged, acked>>
  BY <1>1 DEF PutBody, history, CommitPcs
<1>3. /\ t \in Txn /\ CommitOK("puts", s, t) /\ v \in Versions /\ v # 0 /\ t.next # None
      /\ next_version(s.ver) = v /\ Fits(v, t.next)
  <2>1. s.ver \in Nat /\ v \in Versions /\ t \in Txn /\ CommitOK("puts", s, t) /\ t.next # None
    BY <1>1, <1>2, CommitWhat
  <2>2. Fits(v, t.next)
    BY <1>1, <1>2, NextFits
  <2> QED BY <1>1, <2>1, <2>2 DEF next_version
<1>4. PICK r \in {"ok", "exists", "err"} :
        /\ txn' = [txn EXCEPT ![w].body = r]
        /\ Grows /\ Bodies' /\ Segments' /\ Chain' /\ Durable'
        /\ r = "ok" => body'[v] = t.next
  <2>1. CASE body[v] # None
    <3>1. txn' = [txn EXCEPT ![w].body = "exists"] /\ UNCHANGED <<body, late>>
      BY <1>1, <1>3, <2>1 DEF PutBody
    <3>2. Grows /\ Bodies' /\ Segments' /\ Chain' /\ Durable'
      BY <1>2, <3>1, StoreStill
    <3> QED BY <3>1, <3>2
  <2>2. CASE body[v] = None
    <3>1. PICK out \in Outcomes(PutFaults) :
             /\ body' = IF Lands(out) THEN [body EXCEPT ![v] = t.next] ELSE body
             /\ InFlight(out, [obj |-> "body", at |-> v, val |-> t.next])
             /\ txn' = [txn EXCEPT ![w].body = IF out = "ok" THEN "ok" ELSE "err"]
      BY <1>1, <1>3, <2>2 DEF PutBody
    <3>2. Grows /\ Bodies' /\ Segments' /\ Chain' /\ Durable'
      BY <1>2, <1>3, <2>2, <3>1, BodyPutGrows
    <3>3. out = "ok" => body'[v] = t.next
      BY <1>3, <3>1 DEF Lands, SafeInv, TypeOK
    <3> QED BY <3>1, <3>2, <3>3
  <2> QED BY <2>1, <2>2
<1> DEFINE u == [t EXCEPT !.body = r]
<1>5. u.seq = t.seq /\ u.next = t.next /\ u.body = r /\ u.wal = t.wal
  BY <1>3 DEF Txn
<1>6. txn' = [txn EXCEPT ![w] = u] /\ pc' = [pc EXCEPT ![w] = "puts"]
  BY <1>1, <1>2, <1>4 DEF SafeInv, TypeOK
<1> HIDE DEF u
<1>7. CommitOK("puts", s, u)'
  BY <1>1, <1>2, <1>3, <1>4, <1>5 DEF CommitOK
<1> QED BY <1>1, <1>2, <1>4, <1>6, <1>7, CommitMovesSafe

\* Its own body from an earlier attempt is taken for this one's.
LEMMA BodyExistsSafe ==
  ASSUME SafeInv, TypeOK', NEW w \in Writers, BodyExists(w)
  PROVE  Safe' /\ Kept
<1>1. PICK s, t : s = sess[w] /\ t = txn[w]
  OBVIOUS
<1>2. /\ pc[w] = "puts" /\ "puts" \in CommitPcs
      /\ UNCHANGED <<body, ptr, wal, late, pc, sess, claim, staged, acked>>
  BY <1>1 DEF BodyExists, history, store, CommitPcs
<1>3. t \in Txn /\ CommitOK("puts", s, t) /\ next_version(s.ver) = s.ver + 1
  BY <1>1, <1>2, CommitWhat DEF next_version
<1>4. PICK r : txn' = [txn EXCEPT ![w].body = r] /\ (r = "ok" => body[s.ver + 1] = t.next)
  <2>1. PICK r : /\ txn' = [txn EXCEPT ![w].body = r]
                 /\ r = IF BodyIsOurs(w) THEN "ok" ELSE IF ~Loadable THEN "err"
                        ELSE IF Current.epoch > sess[w].epoch THEN "fenced" ELSE "cas"
    BY DEF BodyExists
  <2>2. r = "ok" => BodyIsOurs(w)
    BY <2>1
  <2>3. r = "ok" => body[s.ver + 1] = t.next
    BY <1>1, <1>3, <2>2 DEF BodyIsOurs
  <2> QED BY <2>1, <2>3
<1> DEFINE u == [t EXCEPT !.body = r]
<1>5. u.seq = t.seq /\ u.next = t.next /\ u.body = r /\ u.wal = t.wal
  BY <1>3 DEF Txn
<1>6. txn' = [txn EXCEPT ![w] = u] /\ pc' = [pc EXCEPT ![w] = "puts"]
  BY <1>1, <1>2, <1>4 DEF SafeInv, TypeOK
<1> HIDE DEF u
<1>7. Grows /\ Bodies' /\ Segments' /\ Chain' /\ Durable'
  BY <1>2, StoreStill
<1>8. CommitOK("puts", s, u)'
  BY <1>1, <1>2, <1>3, <1>4, <1>5 DEF CommitOK
<1> QED BY <1>1, <1>2, <1>6, <1>7, <1>8, CommitMovesSafe

\* A commit fails: the session keeps its base and its batch.
LEMMA FailedSession ==
  ASSUME SafeInv, NEW w \in Writers, pc[w] \in CommitPcs, NEW terminal, FailCommit(w, terminal),
         UNCHANGED claim, Kept, staged \subseteq staged'
  PROVE  /\ SessOK(w, sess[w])' /\ pc'[w] = "open" /\ Alone(w)
         /\ sess[w] # None /\ sess'[w].epoch = sess[w].epoch
         /\ CommitOK(pc[w], sess[w], txn[w])'
<1>1. PICK s : s = sess[w]
  OBVIOUS
<1>2. s \in Session /\ s # None /\ SessOK(w, s)
  BY <1>1, SessionWhat
<1>3. PICK p : sess' = [sess EXCEPT ![w].poisoned = p]
  BY DEF FailCommit
<1> DEFINE n == [s EXCEPT !.poisoned = p]
<1>4. /\ n.ver = s.ver /\ n.man = s.man /\ n.epoch = s.epoch /\ n.owner = s.owner
      /\ n.seq = s.seq /\ n.memtable = s.memtable /\ n.pending = s.pending
  BY <1>2 DEF Session
<1>5. sess'[w] = n /\ pc'[w] = "open" /\ Alone(w)
  BY <1>1, <1>3 DEF FailCommit, Goto, SafeInv, TypeOK, Alone
<1> HIDE DEF n
<1>6. SessOK(w, n)'
  <2>1. SessOK(w, s)'
    BY <1>2, SessKept
  <2> QED BY <1>2, <1>4, <2>1 DEF SessOK
<1>7. CommitOK(pc[w], sess[w], txn[w])'
  BY <1>5 DEF CommitOK, CommitPcs
<1> QED BY <1>1, <1>2, <1>4, <1>5, <1>6, <1>7

\* What it had stored stays, as orphans.
LEMMA FailCommitSafe ==
  ASSUME SafeInv, NEW w \in Writers, pc[w] \in CommitPcs, NEW terminal, FailCommit(w, terminal),
         UNCHANGED claim, Grows, Bodies', Segments', Chain', Durable'
  PROVE  Safe' /\ Kept
<1>1. Kept /\ staged \subseteq staged'
  BY GrowsKept DEF Grows
<1> QED BY <1>1, FailedSession, SessionStep DEF ClaimPcs

\* Both results are in.
LEMMA JoinPutsSafe ==
  ASSUME SafeInv, TypeOK', NEW w \in Writers, JoinPuts(w)
  PROVE  Safe' /\ Kept
<1>1. PICK s, t : s = sess[w] /\ t = txn[w]
  OBVIOUS
<1>2. /\ pc[w] = "puts" /\ pc[w] \in CommitPcs
      /\ UNCHANGED <<body, ptr, wal, late, claim, staged, acked>>
  BY DEF JoinPuts, history, store, CommitPcs
<1>3. Grows /\ Bodies' /\ Segments' /\ Chain' /\ Durable'
  BY <1>2, StoreStill
<1>4. CASE FailCommit(w, FALSE)
  BY <1>2, <1>3, <1>4, FailCommitSafe
<1>5. CASE ~FailCommit(w, FALSE)
  <2>1. PICK l \in {"ptr", "reseq"} :
          /\ l = "ptr" => t.wal = "ok" /\ t.body = "ok"
          /\ pc' = [pc EXCEPT ![w] = l] /\ UNCHANGED <<sess, txn>>
    BY <1>1, <1>5 DEF JoinPuts, Goto
  <2>2. CommitOK("puts", s, t) /\ l \in CommitPcs
    BY <1>1, <1>2, CommitWhat DEF CommitPcs
  <2>3. CommitOK(l, s, t)'
    BY <1>2, <2>1, <2>2 DEF CommitOK
  <2>4. txn' = [txn EXCEPT ![w] = t]
    BY <1>1, <2>1 DEF SafeInv, TypeOK
  <2> QED BY <1>1, <1>2, <1>3, <2>1, <2>2, <2>3, <2>4, CommitMovesSafe
<1> QED BY <1>4, <1>5

\* The retry's slot is above every one occupied.
LEMMA ReseqSafe ==
  ASSUME SafeInv, TypeOK', NEW w \in Writers, Reseq(w)
  PROVE  Safe' /\ Kept
<1>1. PICK s, t, q : s = sess[w] /\ q = next_seq(s.seq + 1) /\ t = NewTxn(s, q, TRUE)
  OBVIOUS
<1>2. /\ pc[w] \in CommitPcs /\ "puts" \in CommitPcs
      /\ txn' = [txn EXCEPT ![w] = t] /\ pc' = [pc EXCEPT ![w] = "puts"]
      /\ UNCHANGED <<body, ptr, wal, late, sess, claim, staged, acked>>
  BY <1>1 DEF Reseq, Goto, history, store, CommitPcs
<1>3. CommitOK(pc[w], s, txn[w]) /\ s.ver \in ptr /\ body[s.ver] = s.man
  BY <1>1, <1>2, CommitWhat, SessionWhat
<1>4. \A i \in DOMAIN s.man.wal : s.man.wal[i].seq < q
  BY <1>1, <1>3, NextSeqAbove
<1>5. t.seq = q /\ t.next = build_next(s, q) /\ t.wal = "todo" /\ t.body = "todo"
  BY <1>1 DEF NewTxn
<1>6. s.pending # <<>>
  BY <1>2, <1>3 DEF CommitOK
<1>7. CommitOK("puts", s, t)'
  BY <1>2, <1>4, <1>5, <1>6 DEF CommitOK
<1>8. Grows /\ Bodies' /\ Segments' /\ Chain' /\ Durable'
  BY <1>2, StoreStill
<1> QED BY <1>1, <1>2, <1>7, <1>8, CommitMovesSafe

\* A deadline ends the commit before its retry.
LEMMA CancelRetrySafe ==
  ASSUME SafeInv, TypeOK', NEW w \in Writers, CancelRetry(w)
  PROVE  Safe' /\ Kept
<1>1. /\ pc[w] \in CommitPcs /\ FailCommit(w, FALSE)
      /\ UNCHANGED <<body, ptr, wal, late, claim, staged, acked>>
  BY DEF CancelRetry, history, store, CommitPcs
<1>2. Grows /\ Bodies' /\ Segments' /\ Chain' /\ Durable'
  BY <1>1, StoreStill
<1> QED BY <1>1, <1>2, FailCommitSafe

\* A session advances to the version that holds its batch.
LEMMA SealSafe ==
  ASSUME SafeInv, NEW w \in Writers, pc[w] \in CommitPcs, NEW man, SealCommit(w, man),
         UNCHANGED claim, Grows, Bodies', Segments', Chain', Durable',
         sess[w].ver + 1 \in ptr', body'[sess[w].ver + 1] = man,
         NEW e \in Descriptor, e.seq = txn[w].seq, e.recs = sess[w].pending,
         man.wal = Append(sess[w].man.wal, e),
         man.epoch = sess[w].epoch, man.owner = sess[w].owner
  PROVE  Safe' /\ Kept
<1>1. PICK s, q : s = sess[w] /\ q = txn[w].seq
  OBVIOUS
<1> DEFINE mem == s.memtable \cup {s.pending[i] : i \in DOMAIN s.pending}
           n == [s EXCEPT !.ver = @ + 1, !.man = man, !.seq = q + 1, !.pending = <<>>,
                          !.memtable = mem]
<1>2. /\ s \in Session /\ s # None /\ SessOK(w, s) /\ s.man \in Manifest
      /\ s.pending \in Seq(Record) /\ q \in Seqs
      /\ \A i \in DOMAIN s.man.wal : s.man.wal[i].seq < q
  BY <1>1, SessionWhat, CommitWhat DEF CommitOK
<1>3. /\ n.ver = s.ver + 1 /\ n.man = man /\ n.epoch = s.epoch /\ n.owner = s.owner
      /\ n.seq = q + 1 /\ n.pending = <<>> /\ n.memtable = mem
  BY <1>2 DEF Session
<1>4. sess'[w] = n /\ pc'[w] = "open" /\ Alone(w)
  BY <1>1 DEF SealCommit, Goto, SafeInv, TypeOK, Alone
<1>5. e \in Descriptor /\ e.recs = s.pending /\ e.seq = q
  BY <1>1
<1>w. man.wal = Append(s.man.wal, e)
  BY <1>1
<1>6. mem = RecordsOf(man)
  <2>0. s.man \in Manifest
    BY <1>2
  <2>1. RecordsOf(man) = RecordsOf(s.man) \cup {e.recs[j] : j \in DOMAIN e.recs}
    BY <1>w, <2>0, AppendedContents, ZenonT(60)
  <2>2. s.memtable = RecordsOf(s.man)
    BY <1>2 DEF SessOK
  <2> QED BY <1>5, <2>1, <2>2
<1> HIDE DEF n, mem
<1>7. \A i \in DOMAIN man.wal : man.wal[i].seq < q + 1
  <2>1. s.man.wal \in Seq(Descriptor) /\ q \in Nat
    BY <1>2, BoundsAssumption DEF Manifest, Seqs
  <2>2. /\ DOMAIN man.wal = (DOMAIN s.man.wal) \cup {Len(s.man.wal) + 1}
        /\ \A i \in DOMAIN s.man.wal : man.wal[i] = s.man.wal[i]
        /\ man.wal[Len(s.man.wal) + 1] = e
    BY <1>w, <1>5, <2>1, Appended
  <2>3. \A i \in DOMAIN s.man.wal : s.man.wal[i].seq \in Nat
    <3> SUFFICES ASSUME NEW i \in DOMAIN s.man.wal PROVE s.man.wal[i].seq \in Nat
      OBVIOUS
    <3>1. s.man.wal[i] \in Descriptor
      BY <2>1
    <3> QED BY <3>1, SlotIsNat
  <2>4. e.seq = q
    BY <1>5
  <2>5. \A i \in DOMAIN s.man.wal : s.man.wal[i].seq < q
    BY <1>2
  <2>6. \A i \in DOMAIN s.man.wal : s.man.wal[i].seq < q + 1
    BY <2>1, <2>3, <2>5
  <2>7. q < q + 1
    BY <2>1
  <2> QED BY <2>2, <2>4, <2>6, <2>7
<1>8. DOMAIN n.pending = {} /\ BatchesOf(n.pending) = {}
  BY <1>3 DEF BatchesOf
<1>9. PICK m : m = n
  OBVIOUS
<1>10. SessOK(w, m)'
  BY <1>1, <1>2, <1>3, <1>6, <1>7, <1>8, <1>9 DEF SessOK
<1>11. CommitOK(pc[w], sess[w], txn[w])'
  BY <1>4 DEF CommitOK, CommitPcs
<1> QED BY <1>1, <1>2, <1>3, <1>4, <1>9, <1>10, <1>11, SessionStep DEF ClaimPcs

\* The pointer PUT of a commit publishes its body, whose segment is stored.
LEMMA CasPointerSafe ==
  ASSUME SafeInv, TypeOK', Scope, NEW w \in Writers, CasPointer(w)
  PROVE  Safe' /\ Kept
<1>1. PICK s, t, v : s = sess[w] /\ t = txn[w] /\ v = s.ver + 1
  OBVIOUS
<1>2. /\ pc[w] = "ptr" /\ pc[w] \in CommitPcs /\ {"ptr_lost", "resolve"} \subseteq CommitPcs
      /\ UNCHANGED <<body, wal, claim>>
  BY DEF CasPointer, CommitPcs
<1>3. /\ s.ver \in Nat /\ v \in Versions /\ next_version(s.ver) = v /\ CommitOK("ptr", s, t)
      /\ s.man \in Manifest /\ t.next # None /\ s.ver \in ptr /\ body[s.ver] = s.man
  BY <1>1, <1>2, CommitWhat, SessionWhat DEF next_version
<1>4. wal[t.seq] = s.pending /\ body[v] = t.next
  BY <1>1, <1>2, <1>3 DEF CommitOK
<1> DEFINE e == [seq |-> t.seq, recs |-> s.pending]
<1>5. /\ e \in Descriptor /\ t.next.wal = Append(s.man.wal, e) /\ t.next.epoch = s.epoch
      /\ t.next.owner = s.owner /\ Contents(t.next) = Contents(s.man) \cup BatchesOf(s.pending)
  BY <1>1, <1>2, NextFits
<1>6. CASE v \in ptr
  <2>1. /\ pc' = [pc EXCEPT ![w] = "ptr_lost"]
        /\ UNCHANGED <<ptr, late, sess, txn, staged, acked>>
    BY <1>1, <1>3, <1>6 DEF CasPointer, Goto, history
  <2>2. Grows /\ Bodies' /\ Segments' /\ Chain' /\ Durable'
    BY <1>2, <2>1, StoreStill
  <2>3. txn' = [txn EXCEPT ![w] = t]
    BY <1>1, <2>1 DEF SafeInv, TypeOK
  <2>4. CommitOK("ptr_lost", s, t)'
    BY <1>1, <1>2, <1>3, <1>6, <2>1 DEF CommitOK
  <2> QED BY <1>1, <1>2, <2>1, <2>2, <2>3, <2>4, CommitMovesSafe
<1>7. CASE v \notin ptr
  <2>1. PICK out \in Outcomes(PtrFaults) :
          /\ ptr' = IF Lands(out) THEN ptr \cup {v} ELSE ptr
          /\ InFlight(out, [obj |-> "ptr", at |-> v, val |-> None])
          /\ IF out = "ok" THEN SealCommit(w, t.next)
             ELSE Goto(w, "resolve") /\ UNCHANGED <<sess, txn, history>>
    BY <1>1, <1>3, <1>7 DEF CasPointer
  <2>2. out \in {"ok", "landed"} \/ (Solo /\ out = "lost")
    BY BoundsAssumption DEF Outcomes, Scope, PointersLand, Solo
  <2>l. CASE Solo /\ out = "lost"
    <3>1. /\ pc' = [pc EXCEPT ![w] = "resolve"]
          /\ UNCHANGED <<ptr, late, sess, txn, staged, acked>>
      BY <2>1, <2>l DEF Lands, InFlight, Goto, history
    <3>2. Grows /\ Bodies' /\ Segments' /\ Chain' /\ Durable'
      BY <1>2, <3>1, StoreStill
    <3>3. txn' = [txn EXCEPT ![w] = t]
      BY <1>1, <3>1 DEF SafeInv, TypeOK
    <3>4. CommitOK("resolve", s, t)'
      BY <1>1, <1>2, <1>3, <2>l, <3>1 DEF CommitOK
    <3> QED BY <1>1, <1>2, <3>1, <3>2, <3>3, <3>4, CommitMovesSafe
  <2> SUFFICES ASSUME out \in {"ok", "landed"} PROVE Safe' /\ Kept
    BY <2>2, <2>l
  <2>3. ptr' = ptr \cup {v} /\ late' = late
    BY <2>1 DEF Lands, InFlight
  <2>4. Present(t.next)
    <3>1. Present(s.man)
      BY <1>3 DEF SafeInv, Safe, Segments
    <3>2. e.seq = t.seq /\ e.recs = s.pending
      OBVIOUS
    <3> HIDE DEF e
    <3>3. t.next.wal = Append(s.man.wal, e) /\ e \in Descriptor /\ wal[e.seq] = e.recs
      BY <1>4, <1>5, <3>2
    <3>4. PICK m : m = t.next
      OBVIOUS
    <3>5. Present(s.man) /\ wal[e.seq] = e.recs => Present(m)
      BY <1>3, <3>3, <3>4, AppendedContents
    <3> QED BY <3>1, <3>3, <3>4, <3>5
  <2> HIDE DEF e
  <2>5. staged' = staged /\ \A b \in acked' : b \in acked \/ b \in Contents(body[v])
    BY <1>1, <1>4, <1>5, <2>1 DEF SealCommit, history
  <2>6. Grows /\ Bodies' /\ Segments' /\ Chain' /\ Durable'
    BY <1>2, <1>3, <1>4, <1>7, <2>3, <2>4, <2>5, Published
  <2>7. CASE out = "ok"
    <3>1. SealCommit(w, t.next)
      BY <2>1, <2>7
    <3>2. s.ver + 1 \in ptr' /\ body'[s.ver + 1] = t.next
      BY <1>1, <1>2, <1>4, <2>3
    <3>3. e.seq = t.seq /\ e.recs = s.pending
      BY DEF e
    <3> QED BY <1>1, <1>2, <1>5, <2>6, <3>1, <3>2, <3>3, SealSafe
  <2>8. CASE out # "ok"
    <3>1. pc' = [pc EXCEPT ![w] = "resolve"] /\ UNCHANGED <<sess, txn>>
      BY <2>1, <2>8 DEF Goto
    <3>2. txn' = [txn EXCEPT ![w] = t]
      BY <1>1, <3>1 DEF SafeInv, TypeOK
    <3>3. CommitOK("resolve", s, t)'
      BY <1>1, <1>2, <1>3, <2>3, <3>1 DEF CommitOK
    <3> QED BY <1>1, <1>2, <2>6, <3>1, <3>2, <3>3, CommitMovesSafe
  <2> QED BY <2>7, <2>8
<1> QED BY <1>6, <1>7

\* The slot is taken: the commit fails, or asks what has happened.
LEMMA PointerExistsSafe ==
  ASSUME SafeInv, TypeOK', NEW w \in Writers, PointerExists(w)
  PROVE  Safe' /\ Kept
<1>1. PICK s, t : s = sess[w] /\ t = txn[w]
  OBVIOUS
<1>2. /\ pc[w] = "ptr_lost" /\ pc[w] \in CommitPcs /\ "resolve" \in CommitPcs
      /\ UNCHANGED <<body, ptr, wal, late, claim, staged, acked>>
  BY DEF PointerExists, history, store, CommitPcs
<1>3. Grows /\ Bodies' /\ Segments' /\ Chain' /\ Durable'
  BY <1>2, StoreStill
<1>4. CASE FailCommit(w, FALSE)
  BY <1>2, <1>3, <1>4, FailCommitSafe
<1>5. CASE ~FailCommit(w, FALSE)
  <2>1. pc' = [pc EXCEPT ![w] = "resolve"] /\ UNCHANGED <<sess, txn>>
    BY <1>5 DEF PointerExists, Goto
  <2>2. CommitOK("ptr_lost", s, t)
    BY <1>1, <1>2, CommitWhat
  <2>3. CommitOK("resolve", s, t)'
    BY <1>2, <2>2 DEF CommitOK
  <2>4. txn' = [txn EXCEPT ![w] = t]
    BY <1>1, <2>1 DEF SafeInv, TypeOK
  <2> QED BY <1>1, <1>2, <1>3, <2>1, <2>3, <2>4, CommitMovesSafe
<1> QED BY <1>4, <1>5

\* Batches of a published version are acknowledged.
LEMMA AckedStill ==
  ASSUME SafeInv, UNCHANGED <<body, ptr, wal, late, staged>>, NEW v \in ptr,
         \A b \in acked' : b \in acked \/ b \in Contents(body[v])
  PROVE  Grows /\ Bodies' /\ Segments' /\ Chain' /\ Durable'
<1>1. Grows
  BY DEF Grows
<1>2. Bodies'
  BY DEF SafeInv, Safe, Bodies, Fits, Claims
<1>3. Segments'
  BY DEF SafeInv, Safe, Segments, Present
<1>4. Chain'
  BY DEF SafeInv, Safe, Chain
<1>5. Durable'
  BY DEF SafeInv, Safe, Durable
<1> QED BY <1>1, <1>2, <1>3, <1>4, <1>5

\* What the resolver takes for its own commit is its own commit.
LEMMA OursIsOurs ==
  ASSUME SafeInv, NEW w \in Writers, pc[w] \in CommitPcs, Loadable,
         Current.epoch <= sess[w].epoch, ProvablyOurs(sess[w], txn[w])
  PROVE  LET s == sess[w]  e == [seq |-> txn[w].seq, recs |-> s.pending] IN
         /\ s.ver + 1 \in ptr /\ body[s.ver + 1] = Current /\ e \in Descriptor
         /\ Current.wal = Append(s.man.wal, e) /\ Current.epoch = s.epoch
         /\ Current.owner = s.owner
<1> DEFINE s == sess[w]
           q == txn[w].seq
           e == [seq |-> q, recs |-> s.pending]
           v == s.ver + 1
<1>1. /\ s.ver \in Nat /\ v \in Versions /\ q \in Seqs /\ s.pending \in Seq(Record)
      /\ \A i \in DOMAIN s.man.wal : s.man.wal[i].seq < q
  BY CommitWhat DEF CommitOK
<1>2. /\ s.ver \in ptr /\ body[s.ver] = s.man /\ s.man \in Manifest
      /\ s.epoch = s.man.epoch /\ s.epoch \in Nat
  BY SessionWhat
<1>3. Top \in ptr /\ Current \in Manifest
  BY CurrentType DEF SafeInv
<1>4. Top = v /\ Current.owner = s.owner /\ \E i \in DOMAIN Current.wal : Current.wal[i] = e
  BY DEF ProvablyOurs, next_version
<1>5. v \in ptr /\ body[v] = Current /\ body[v] # None
  BY <1>3, <1>4 DEF Current, Loadable
<1>6. e \in Descriptor /\ e.seq = q
  BY <1>1 DEF Descriptor
<1>7. v # 0 /\ v - 1 = s.ver
  BY <1>1
<1> HIDE DEF e, v
<1>8. ClaimOf(Current, s.man) \/ CommitOf(Current, s.man)
  BY <1>1, <1>2, <1>5, <1>7 DEF SafeInv, Safe, Bodies, Fits
<1>9. ~ClaimOf(Current, s.man)
  <2>1. Current.epoch \in Nat
    BY <1>3 DEF Manifest
  <2> QED BY <1>2, <2>1 DEF ClaimOf
<1>10. PICK d \in Descriptor : Current.wal = Append(s.man.wal, d)
  BY <1>2, <1>3, <1>8, <1>9, CommitWal
<1>11. s.man.wal \in Seq(Descriptor)
  BY <1>2 DEF Manifest
<1>12. /\ DOMAIN Current.wal = (DOMAIN s.man.wal) \cup {Len(s.man.wal) + 1}
       /\ \A i \in DOMAIN s.man.wal : Current.wal[i] = s.man.wal[i]
       /\ Current.wal[Len(s.man.wal) + 1] = d
  BY <1>10, <1>11, Appended
<1>13. q \in Nat
  BY <1>1, BoundsAssumption DEF Seqs
<1>14. \A i \in DOMAIN s.man.wal : s.man.wal[i] # e
  BY <1>1, <1>6, <1>13
<1>15. d = e
  BY <1>4, <1>12, <1>14
<1>16. Current.epoch = s.epoch
  BY <1>2, <1>8, <1>9 DEF CommitOf
<1> QED BY <1>4, <1>5, <1>6, <1>10, <1>15, <1>16 DEF e, v

\* The resolver acknowledges its commit, fails, or finds it absent.
LEMMA ResolveCasSafe ==
  ASSUME SafeInv, TypeOK', NEW w \in Writers, ResolveCas(w)
  PROVE  Safe' /\ Kept
<1>1. PICK s, t : s = sess[w] /\ t = txn[w]
  OBVIOUS
<1>2. /\ pc[w] = "resolve" /\ pc[w] \in CommitPcs
      /\ UNCHANGED <<body, ptr, wal, late, claim>>
  BY DEF ResolveCas, store, CommitPcs
<1>3. /\ CommitOK("resolve", s, t) /\ next_version(s.ver) = s.ver + 1 /\ s.ver \in Nat
      /\ s.ver + 1 \in Versions
  BY <1>1, <1>2, CommitWhat DEF next_version
<1>4. CASE \E terminal \in BOOLEAN : FailCommit(w, terminal) /\ UNCHANGED history
  <2>1. PICK terminal \in BOOLEAN : FailCommit(w, terminal) /\ UNCHANGED history
    BY <1>4
  <2>2. Grows /\ Bodies' /\ Segments' /\ Chain' /\ Durable'
    BY <1>2, <2>1, StoreStill DEF history
  <2> QED BY <1>2, <2>1, <2>2, FailCommitSafe
<1>5. CASE /\ Goto(w, "del_body") /\ UNCHANGED <<sess, txn, history>>
  <2>1. /\ pc' = [pc EXCEPT ![w] = "del_body"] /\ "del_body" \in CommitPcs
        /\ UNCHANGED <<body, ptr, wal, late, sess, claim, txn, staged, acked>>
    BY <1>2, <1>5 DEF Goto, history, CommitPcs
  <2>2. Grows /\ Bodies' /\ Segments' /\ Chain' /\ Durable'
    BY <2>1, StoreStill
  <2>3. CommitOK("del_body", s, t)'
    BY <1>1, <1>2, <1>3, <2>1 DEF CommitOK
  <2>4. txn' = [txn EXCEPT ![w] = t]
    BY <1>1, <2>1 DEF SafeInv, TypeOK
  <2> QED BY <1>1, <1>2, <2>1, <2>2, <2>3, <2>4, CommitMovesSafe
<1>6. CASE /\ Loadable /\ ~(Current.epoch > s.epoch) /\ ProvablyOurs(s, t)
           /\ SealCommit(w, Current)
  <2>4. s.epoch \in Nat /\ Current.epoch \in Nat /\ Current \in Manifest /\ s.man \in Manifest
    BY <1>1, <1>2, <1>6, SessionWhat, CurrentType DEF SafeInv, Manifest
  <2>5. Current.epoch <= s.epoch
    BY <1>6, <2>4
  <2>6. PICK e \in Descriptor :
          /\ e.seq = t.seq /\ e.recs = s.pending /\ s.ver + 1 \in ptr
          /\ body[s.ver + 1] = Current /\ Current.wal = Append(s.man.wal, e)
          /\ Current.epoch = s.epoch /\ Current.owner = s.owner
    BY <1>1, <1>2, <1>6, <2>5, OursIsOurs
  <2>7. BatchesOf(s.pending) \subseteq Contents(Current)
    <3>1. Contents(Current) = Contents(s.man) \cup BatchesOf(e.recs)
      BY <2>4, <2>6, AppendedContents
    <3> QED BY <2>6, <3>1
  <2>8. staged' = staged /\ acked' = acked \cup BatchesOf(s.pending)
    BY <1>1, <1>6 DEF SealCommit
  <2>9. Grows /\ Bodies' /\ Segments' /\ Chain' /\ Durable'
    BY <1>2, <2>6, <2>7, <2>8, AckedStill
  <2>10. PICK m : m = Current
    OBVIOUS
  <2>11. s.ver + 1 \in ptr' /\ body'[s.ver + 1] = m
    BY <1>2, <1>3, <2>6, <2>10
  <2> QED BY <1>1, <1>2, <1>6, <2>6, <2>9, <2>10, <2>11, SealSafe
<1>7. \/ \E terminal \in BOOLEAN : FailCommit(w, terminal) /\ UNCHANGED history
      \/ Goto(w, "del_body") /\ UNCHANGED <<sess, txn, history>>
      \/ /\ Loadable /\ ~(Current.epoch > s.epoch) /\ ProvablyOurs(s, t)
         /\ SealCommit(w, Current)
  BY <1>1 DEF ResolveCas
<1> QED BY <1>4, <1>5, <1>6, <1>7

\* A body that is not published is deleted, or a slot that holds no published
\* segment is.
LEMMA UnpublishedGone ==
  ASSUME SafeInv, late = {}, UNCHANGED <<ptr, late, staged, acked>>,
         \A u \in Versions : body'[u] = body[u] \/ (u # 0 /\ u \notin ptr /\ body'[u] = None),
         \A u \in ptr : \A i \in DOMAIN body[u].wal :
            wal'[body[u].wal[i].seq] = wal[body[u].wal[i].seq]
  PROVE  Bodies' /\ Segments' /\ Chain' /\ Durable' /\ Kept
<1>1. \A u \in ptr : u \in ptr' /\ body'[u] = body[u] /\ u \in Versions /\ body[u] # None
  BY PublishedType
<1>2. Kept
  BY <1>1 DEF Kept
<1>3. Bodies'
  <2>1. ASSUME NEW u \in Versions \ {0}, body'[u] # None PROVE Fits(u, body[u])'
    <3>1. PICK m : m = body'[u]
      OBVIOUS
    <3>2. Fits(u, m)
      BY <2>1, <3>1 DEF SafeInv, Safe, Bodies
    <3>3. Fits(u, m)'
      BY <1>2, <3>2, FitsKept
    <3> QED BY <3>1, <3>3
  <2>2. body'[0] = body[0]
    BY BoundsAssumption DEF Versions
  <2> QED BY <1>1, <2>1, <2>2 DEF Bodies, SafeInv, Safe
<1>4. Segments'
  <2> SUFFICES ASSUME NEW u \in ptr, NEW i \in DOMAIN body[u].wal
               PROVE  wal'[body[u].wal[i].seq] = body[u].wal[i].recs
    BY <1>1 DEF Segments, Present
  <2>1. wal[body[u].wal[i].seq] = body[u].wal[i].recs
    BY DEF SafeInv, Safe, Segments, Present
  <2>2. wal'[body[u].wal[i].seq] = wal[body[u].wal[i].seq]
    OBVIOUS
  <2> QED BY <2>1, <2>2
<1>5. Chain'
  <2>1. Chain
    BY DEF SafeInv, Safe
  <2> QED BY <1>1, <2>1 DEF Chain
<1>6. Durable'
  BY <1>1 DEF Durable, SafeInv, Safe
<1> QED BY <1>2, <1>3, <1>4, <1>5, <1>6

\* A step of the only process there is, out of its opens.
LEMMA SoloStep ==
  ASSUME SafeInv, Solo, NEW w \in Writers, ptr' = ptr, pc'[w] \notin ClaimPcs,
         Bodies', Segments', Chain', Durable', SessOK(w, sess[w])',
         CommitOK(pc[w], sess[w], txn[w])',
         sess[w] # None /\ sess'[w].epoch = sess[w].epoch
  PROVE  Safe'
<1>1. \A x \in Writers : x = w
  BY DEF Solo
<1>2. Locally(w)'
  BY DEF Locally, ClaimOK, ClaimPcs, Judged, Bases, RepairPcs
<1>3. HasZero(w)' => HasZero(w)
  BY DEF HasZero, ClaimPcs
<1>4. OneZero'
  BY <1>1, <1>3 DEF OneZero, SafeInv, Safe
<1> QED BY <1>1, <1>2, <1>4 DEF Safe

\* A slot of a commit that was not published holds no published segment.
LEMMA OwnSlot ==
  ASSUME SafeInv, NEW w \in Writers, pc[w] = "del_wal", NEW u \in ptr,
         NEW i \in DOMAIN body[u].wal
  PROVE  body[u].wal[i].seq # txn[w].seq
<1> SUFFICES ASSUME body[u].wal[i].seq = txn[w].seq PROVE FALSE
  OBVIOUS
<1>1. PICK s, t : s = sess[w] /\ t = txn[w]
  OBVIOUS
<1>2. /\ pc[w] \in CommitPcs /\ CommitOK("del_wal", s, t) /\ SessOK(w, s) /\ s # None
      /\ s.pending \in Seq(Record) /\ s.ver \in Nat /\ s.ver + 1 \notin ptr
  BY <1>1, CommitWhat DEF CommitPcs, SafeInv, Rejecting
<1>3. wal[t.seq] = s.pending /\ s.pending # <<>>
  BY <1>2 DEF CommitOK, CommitPcs
<1>4. body[u].wal[i].recs = s.pending
  BY <1>1, <1>3 DEF SafeInv, Safe, Segments, Present
<1>5. BatchesOf(s.pending) \subseteq Contents(body[u])
  BY <1>4 DEF Contents
<1>6. u <= s.ver /\ s.ver \in ptr /\ body[s.ver] = s.man
  <2>1. u \in Nat
    BY PublishedType
  <2>2. ~(s.ver + 1 <= u)
    <3>1. s.ver + 1 <= u => s.ver + 1 \in 0..u
      BY <1>2, <2>1
    <3> QED BY <1>2, <3>1 DEF SafeInv, PointerFamily, PointersContiguous
  <2> QED BY <1>2, <2>1, <2>2 DEF SessOK
<1>7. Contents(body[u]) \subseteq Contents(s.man)
  BY <1>6 DEF SafeInv, Safe, Chain
<1>8. s.pending[1].b \in BatchesOf(s.pending)
  <2>1. 1 \in DOMAIN s.pending
    BY <1>2, <1>3
  <2> QED BY <2>1 DEF BatchesOf
<1> QED BY <1>2, <1>5, <1>7, <1>8 DEF SessOK

\* A commit that is definitively absent is cleaned up: what is deleted was not
\* published, and the only process there is knows.
LEMMA DeleteOrphanSafe ==
  ASSUME SafeInv, TypeOK', NEW w \in Writers, DeleteOrphanBody(w) \/ DeleteOrphanWal(w)
  PROVE  Safe' /\ Kept
<1>1. PICK s, t, v : s = sess[w] /\ t = txn[w] /\ v = s.ver + 1
  OBVIOUS
<1>2. /\ pc[w] \in {"del_body", "del_wal"} /\ pc[w] \in CommitPcs
      /\ UNCHANGED <<ptr, late, claim, staged, acked>>
  BY DEF DeleteOrphanBody, DeleteOrphanWal, CommitPcs, history
<1>3. Solo /\ late = {} /\ v \notin ptr
  BY <1>1, <1>2 DEF SafeInv, Rejecting
<1>4. /\ s.ver \in Nat /\ v \in Versions /\ v # 0 /\ next_version(s.ver) = v
      /\ CommitOK(pc[w], s, t) /\ SessOK(w, s) /\ s # None /\ t.seq \in Seqs
  BY <1>1, <1>2, CommitWhat DEF next_version
<1>5. CASE \E terminal \in BOOLEAN : FailCommit(w, terminal) /\ UNCHANGED <<body, wal>>
  <2>1. Grows /\ Bodies' /\ Segments' /\ Chain' /\ Durable'
    BY <1>2, <1>5, StoreStill
  <2> QED BY <1>2, <1>5, <2>1, FailCommitSafe
<1>6. CASE DeleteOrphanBody(w) /\ body' = BodyDeleted(v) /\ Goto(w, "del_wal")
           /\ UNCHANGED <<sess, txn>>
  <2>1. wal' = wal /\ pc'[w] = "del_wal" /\ pc[w] = "del_body"
    BY <1>6 DEF DeleteOrphanBody, Goto, SafeInv, TypeOK
  <2>2. \A u \in Versions : body'[u] = body[u] \/ (u # 0 /\ u \notin ptr /\ body'[u] = None)
    BY <1>3, <1>4, <1>6 DEF BodyDeleted, SafeInv, TypeOK
  <2>3. Bodies' /\ Segments' /\ Chain' /\ Durable' /\ Kept
    BY <1>2, <1>3, <2>1, <2>2, UnpublishedGone
  <2>4. SessOK(w, s)' /\ CommitOK("del_wal", s, t)'
    BY <1>2, <1>4, <2>1, <2>3, SessKept DEF CommitOK, CommitPcs
  <2> QED BY <1>1, <1>2, <1>3, <1>4, <1>6, <2>1, <2>3, <2>4, SoloStep DEF ClaimPcs
<1>7. CASE DeleteOrphanWal(w) /\ wal' = [wal EXCEPT ![t.seq] = None] /\ FailCommit(w, FALSE)
  <2>1. body' = body /\ pc[w] = "del_wal"
    BY <1>7 DEF DeleteOrphanWal
  <2>2. \A u \in ptr : \A i \in DOMAIN body[u].wal :
          wal'[body[u].wal[i].seq] = wal[body[u].wal[i].seq]
    BY <1>1, <1>7, <2>1, OwnSlot DEF SafeInv, TypeOK
  <2>3. Bodies' /\ Segments' /\ Chain' /\ Durable' /\ Kept
    BY <1>2, <1>3, <2>1, <2>2, UnpublishedGone
  <2> QED BY <1>2, <1>3, <1>7, <2>3, FailedSession, SoloStep DEF ClaimPcs
<1> QED BY <1>1, <1>2, <1>4, <1>5, <1>6, <1>7 DEF DeleteOrphanBody, DeleteOrphanWal

\* A process dies.
LEMMA CrashSafe ==
  ASSUME SafeInv, TypeOK', NEW w \in Writers, Crash(w)
  PROVE  Safe' /\ Kept
<1>1. /\ pc'[w] = "down" /\ sess'[w] = None /\ Alone(w)
      /\ UNCHANGED <<body, ptr, wal, late, staged, acked>>
  BY DEF Crash, Goto, SafeInv, TypeOK, Alone, store, history
<1>2. Grows /\ Bodies' /\ Segments' /\ Chain' /\ Durable'
  BY <1>1, StoreStill
<1>3. SessOK(w, sess[w])' /\ CommitOK(pc[w], sess[w], txn[w])'
  BY <1>1 DEF SessOK, CommitOK, CommitPcs
<1> QED BY <1>1, <1>2, <1>3, SessionStep DEF ClaimPcs

\* A PUT its client gave up on arrives.
LEMMA LatePutSafe ==
  ASSUME SafeInv, TypeOK', LatePut
  PROVE  Safe' /\ Kept
<1>1. PICK req \in late :
        /\ late' = late \ {req}
        /\ body' = IF req.obj = "body" /\ body[req.at] = None
                   THEN [body EXCEPT ![req.at] = req.val] ELSE body
        /\ wal' = IF req.obj = "wal" /\ wal[req.at] = None
                  THEN [wal EXCEPT ![req.at] = req.val] ELSE wal
        /\ ptr' = IF req.obj = "ptr" THEN ptr \cup {req.at} ELSE ptr
        /\ UNCHANGED <<pc, sess, claim, txn, staged, acked>>
  BY DEF LatePut, history
<1>2. req \in Request
  BY DEF SafeInv, TypeOK
<1>3. Grows /\ Bodies' /\ Segments' /\ Chain' /\ Durable'
  <2>1. CASE req.obj = "body"
    <3>1. req.at \in Versions /\ Fits(req.at, req.val) /\ ptr' = ptr /\ wal' = wal
      BY <1>1, <1>2, <2>1 DEF Request, SafeInv, Safe, Bodies
    <3>2. \A v \in Versions : body'[v] = body[v]
                                \/ (v = req.at /\ body[v] = None /\ body'[v] = req.val)
      BY <1>1 DEF SafeInv, TypeOK
    <3>3. Grows
      BY <1>1, <3>1, <3>2 DEF Grows
    <3>4. req.at # 0
      BY <3>1 DEF Fits
    <3>5. \A v \in Versions :
            body'[v] # None => body'[v] = body[v] \/ (v # 0 /\ Fits(v, body'[v]))
      <4> SUFFICES ASSUME NEW v \in Versions, body'[v] # body[v]
                   PROVE  v # 0 /\ Fits(v, body'[v])
        OBVIOUS
      <4>1. v = req.at /\ body'[v] = req.val
        BY <3>2
      <4> QED BY <3>1, <3>4, <4>1, Zenon
    <3>6. \A rq \in late' : rq \in late
      BY <1>1
    <3> QED BY <1>1, <3>1, <3>3, <3>5, <3>6, NotPublished
  <2>2. CASE req.obj = "wal"
    <3>1. req.at \in Seqs /\ ptr' = ptr /\ body' = body
      BY <1>1, <1>2, <2>2 DEF Request
    <3>2. wal' = wal \/ (wal[req.at] = None /\ wal' = [wal EXCEPT ![req.at] = req.val])
      BY <1>1
    <3> QED BY <1>1, <3>1, <3>2, WalPutGrows
  <2>3. CASE req.obj = "ptr"
    <3>1. /\ req.at \in Versions /\ Claims(req.at) /\ ptr' = ptr \cup {req.at}
          /\ body' = body /\ wal' = wal /\ late' \subseteq late
      BY <1>1, <1>2, <2>3 DEF Request, SafeInv, Safe, Bodies
    <3>2. CASE req.at \in ptr
      <4>1. ptr' = ptr
        BY <3>1, <3>2
      <4>2. Grows
        BY <1>1, <3>1, <4>1 DEF Grows
      <4> QED BY <1>1, <3>1, <4>1, <4>2, NotPublished
    <3>3. CASE req.at \notin ptr
      <4>1. Present(body[req.at])
        <5>1. Present(body[req.at - 1]) /\ body[req.at].wal = body[req.at - 1].wal
          BY <3>1 DEF Claims, SafeInv, Safe, Segments
        <5> QED BY <5>1 DEF Present
      <4>2. body[req.at] # None
        BY <3>1 DEF Claims
      <4> QED BY <1>1, <3>1, <3>3, <4>1, <4>2, Published
    <3> QED BY <3>2, <3>3
  <2> QED BY <1>2, <2>1, <2>2, <2>3 DEF Request
<1>4. \A x \in Writers : Locally(x)'
  BY <1>1, <1>3, OthersKept
<1>5. OneZero'
  <2>1. \A x \in Writers : HasZero(x)' => HasZero(x)
    BY <1>1 DEF HasZero
  <2> QED BY <1>3, <2>1 DEF OneZero, SafeInv, Safe, Grows
<1> QED BY <1>3, <1>4, <1>5, GrowsKept DEF Safe

-----------------------------------------------------------------------------
(* The invariant.                                                           *)

\* Without late PUTs nothing is in flight.
LEMMA NothingLate ==
  ASSUME Solo, late = {}, [Next]_vars
  PROVE  late' = {}
<1>1. \A out \in Outcomes(PutFaults) \cup Outcomes(PtrFaults) : \A rq :
        InFlight(out, rq) => late' = late
  BY DEF Outcomes, InFlight, Solo
<1>2. CASE LatePut \/ UNCHANGED vars
  BY <1>2 DEF LatePut, vars
<1>3. ASSUME NEW w \in Writers, OpenStep(w) PROVE late' = late
  <2>1. CASE ClaimBody(w) \/ ClaimPtr(w)
    BY <1>1, <2>1 DEF ClaimBody, ClaimPtr
  <2> QED BY <1>3, <2>1 DEF OpenStep, LoadForOpen, BootBody, BootPtr, ClaimLoad, ClaimLost,
        RepairHead, RepairGet, RepairWal, RepairFence, RepairPub, RepairDel, Recover
<1>4. ASSUME NEW w \in Writers, CommitStep(w) PROVE late' = late
  <2>1. CASE PutWal(w) \/ PutBody(w) \/ CasPointer(w)
    BY <1>1, <2>1 DEF PutWal, PutBody, CasPointer
  <2> QED BY <1>4, <2>1 DEF CommitStep, BodyExists, JoinPuts, Reseq, CancelRetry, PointerExists,
        ResolveCas, DeleteOrphanBody, DeleteOrphanWal
<1>5. ASSUME NEW w \in Writers,
             \/ Open(w) \/ Reopen(w) \/ OpenFault(w) \/ Rollback(w) \/ StartCommit(w) \/ Crash(w)
             \/ \E b \in Batches : Stage(w, b)
      PROVE  late' = late
  BY <1>5 DEF Open, Reopen, StartOpen, OpenFault, Rollback, StartCommit, Crash, Stage
<1> QED BY <1>2, <1>3, <1>4, <1>5 DEF Next

\* An open stays an open until it ends.
LEMMA OpenLabels ==
  ASSUME TypeOK, NEW w \in Writers, Open(w) \/ Reopen(w) \/ OpenStep(w) \/ OpenFault(w)
  PROVE  \E l \in {"down", "open"} \cup ClaimPcs : pc' = [pc EXCEPT ![w] = l]
<1>0. pc \in [Writers -> Labels]
  BY DEF TypeOK
<1>1. CASE OpenFault(w) \/ Recover(w) \/ BootPtr(w) \/ ClaimLoad(w) \/ ClaimLost(w)
  BY <1>0, <1>1 DEF OpenFault, Recover, BootPtr, ClaimLoad, ClaimLost, FailOpen, Goto, ClaimPcs
<1>2. CASE ClaimBody(w) \/ ClaimPtr(w)
  BY <1>0, <1>2 DEF ClaimBody, ClaimPtr, FailOpen, Goto, ClaimPcs
<1>3. CASE LoadForOpen(w) \/ BootBody(w) \/ RepairHead(w) \/ RepairGet(w) \/ RepairWal(w)
           \/ RepairFence(w) \/ RepairPub(w) \/ RepairDel(w)
  BY <1>0, <1>3 DEF LoadForOpen, BootBody, RepairHead, RepairGet, RepairWal, RepairFence,
       RepairPub, RepairDel, Goto, ClaimPcs
<1>4. CASE Open(w) \/ Reopen(w)
  BY <1>0, <1>4 DEF Open, Reopen, StartOpen, Goto, ClaimPcs
<1> QED BY <1>1, <1>2, <1>3, <1>4 DEF OpenStep

\* A process gets to the cleanup by the resolver, and through it by deleting.
LEMMA Rejects ==
  ASSUME TypeOK, [Next]_vars, NEW x \in Writers, pc'[x] \in {"del_body", "del_wal"}
  PROVE  \/ ResolveCas(x) \/ DeleteOrphanBody(x) \/ UNCHANGED vars
         \/ pc[x] \in {"del_body", "del_wal"} /\ (late # {} \/ \E w \in Writers : w # x)
<1>0. pc \in [Writers -> Labels]
  BY DEF TypeOK
<1>1. LatePut => pc' = pc /\ late # {}
  BY DEF LatePut
<1>2. ASSUME NEW w \in Writers, Open(w) \/ Reopen(w) \/ OpenStep(w) \/ OpenFault(w)
      PROVE  w # x /\ pc'[x] = pc[x]
  BY <1>0, <1>2, OpenLabels DEF ClaimPcs
<1>4. ASSUME NEW w \in Writers,
             Rollback(w) \/ StartCommit(w) \/ Crash(w) \/ \E b \in Batches : Stage(w, b)
      PROVE  w # x /\ pc'[x] = pc[x]
  <2>1. \E l \in {"down", "open", "puts"} : pc' = [pc EXCEPT ![w] = l]
    BY <1>0, <1>4 DEF Rollback, StartCommit, Crash, Stage, Goto
  <2> QED BY <1>0, <2>1
<1>5. ASSUME NEW w \in Writers,
             \/ PutWal(w) \/ PutBody(w) \/ BodyExists(w) \/ JoinPuts(w) \/ Reseq(w)
             \/ CancelRetry(w) \/ CasPointer(w) \/ PointerExists(w) \/ DeleteOrphanWal(w)
      PROVE  w # x /\ pc'[x] = pc[x]
  <2>1. \E l \in {"open", "puts", "ptr", "reseq", "ptr_lost", "resolve"} :
          pc' = [pc EXCEPT ![w] = l]
    <3>1. CASE PutWal(w) \/ PutBody(w) \/ BodyExists(w) \/ JoinPuts(w) \/ Reseq(w)
      BY <1>0, <3>1 DEF PutWal, PutBody, BodyExists, JoinPuts, Reseq, FailCommit, Goto
    <3>2. CASE CancelRetry(w) \/ CasPointer(w) \/ PointerExists(w) \/ DeleteOrphanWal(w)
      BY <1>0, <3>2 DEF CancelRetry, CasPointer, PointerExists, DeleteOrphanWal, SealCommit,
           FailCommit, Goto
    <3> QED BY <1>5, <3>1, <3>2
  <2> QED BY <1>0, <2>1
<1>6. ASSUME NEW w \in Writers, ResolveCas(w) \/ DeleteOrphanBody(w)
      PROVE  w = x \/ pc'[x] = pc[x]
  BY <1>0, <1>6 DEF ResolveCas, DeleteOrphanBody, SealCommit, FailCommit, Goto
<1> QED BY <1>1, <1>2, <1>4, <1>5, <1>6 DEF Next, CommitStep

\* Cleaning up starts and goes on only where the commit is not published.
LEMMA RejectingStep ==
  ASSUME SafeInv, TypeOK', [Next]_vars
  PROVE  Rejecting'
<1>1. Solo => late' = {}
  BY NothingLate DEF SafeInv, Rejecting
<1>2. ASSUME NEW w \in Writers, pc'[w] \in {"del_body", "del_wal"}
      PROVE  /\ Solo /\ sess'[w].ver + 1 \notin ptr'
             /\ pc'[w] = "del_wal" => body'[sess'[w].ver + 1] = None
  <2>1. PICK s, t : s = sess[w] /\ t = txn[w]
    OBVIOUS
  <2>2. CASE ResolveCas(w)
    <3>1. /\ pc[w] = "resolve" /\ pc[w] \in CommitPcs /\ UNCHANGED <<body, ptr>>
          /\ Loadable /\ ~(Top >= next_version(s.ver)) /\ sess' = sess
          /\ pc' = [pc EXCEPT ![w] = "del_body"]
      BY <1>2, <2>1, <2>2 DEF ResolveCas, SealCommit, FailCommit, Goto, store, SafeInv, TypeOK,
           CommitPcs
    <3>2. /\ CommitOK("resolve", s, t) /\ next_version(s.ver) = s.ver + 1 /\ s.ver \in Nat
      BY <2>1, <3>1, CommitWhat DEF next_version
    <3>3. s.ver + 1 \notin ptr
      <4> SUFFICES ASSUME s.ver + 1 \in ptr PROVE FALSE
        OBVIOUS
      <4>1. ptr \subseteq 0..MaxVersion /\ MaxVersion \in Nat
        BY BoundsAssumption DEF SafeInv, TypeOK, Versions
      <4>2. s.ver + 1 <= Top /\ Top \in ptr
        BY <4>1, BoundedMax DEF Top
      <4>3. Top \in Nat
        BY <4>1, <4>2
      <4> QED BY <3>1, <3>2, <4>2, <4>3
    <3>4. Solo
      BY <3>1, <3>2, <3>3 DEF CommitOK, CommitPcs
    <3>5. pc'[w] # "del_wal"
      BY <3>1 DEF SafeInv, TypeOK
    <3> QED BY <2>1, <3>1, <3>3, <3>4, <3>5
  <2>3. CASE DeleteOrphanBody(w)
    <3>1. pc[w] = "del_body" /\ pc[w] \in CommitPcs /\ ptr' = ptr
      BY <2>3 DEF DeleteOrphanBody, CommitPcs
    <3>2. sess' = sess /\ body' = BodyDeleted(next_version(s.ver))
      BY <1>2, <2>1, <2>3, <3>1 DEF DeleteOrphanBody, FailCommit, Goto, SafeInv, TypeOK
    <3>3. Solo /\ s.ver + 1 \notin ptr /\ s.ver + 1 \in Versions /\ next_version(s.ver) = s.ver + 1
      BY <2>1, <3>1, CommitWhat DEF SafeInv, Rejecting, next_version
    <3>4. body'[s.ver + 1] = None
      BY <3>2, <3>3 DEF BodyDeleted, SafeInv, TypeOK
    <3> QED BY <2>1, <3>1, <3>2, <3>3, <3>4
  <2>4. CASE UNCHANGED vars
    BY <1>2, <2>4 DEF vars, store, SafeInv, Rejecting
  <2>5. ~(pc[w] \in {"del_body", "del_wal"} /\ (late # {} \/ \E x \in Writers : x # w))
    BY DEF SafeInv, Rejecting, Solo
  <2> QED BY <1>2, <2>2, <2>3, <2>4, <2>5, Rejects DEF SafeInv
<1> QED BY <1>1, <1>2 DEF Rejecting


\* Every step keeps the invariant and every published version.
LEMMA SafeStep ==
  ASSUME Scope, OneJudge, SafeInv, [Next]_vars
  PROVE  SafeInv' /\ Kept
<1>1. TypeOK' /\ PointerFamily' /\ Rejecting'
  BY TypeStep, FamilyStep, RejectingStep DEF SafeInv
<1>2. CASE LatePut
  BY <1>1, <1>2, LatePutSafe DEF SafeInv
<1>3. CASE UNCHANGED vars
  <2>1. UNCHANGED <<body, ptr, wal, late, pc, sess, claim, txn, staged, acked>>
    BY <1>3 DEF vars, store, history
  <2>2. Grows /\ Bodies' /\ Segments' /\ Chain' /\ Durable'
    BY <1>1, <2>1, StoreStill
  <2>3. \A x \in Writers : Locally(x)'
    BY <2>1, <2>2, OthersKept
  <2>4. OneZero'
    BY <2>1 DEF OneZero, HasZero, SafeInv, Safe
  <2> QED BY <1>1, <2>2, <2>3, <2>4, GrowsKept DEF SafeInv, Safe
<1>4. ASSUME NEW w \in Writers, OpenStep(w) PROVE Safe' /\ Kept
  BY <1>1, <1>4, LoadForOpenSafe, BootBodySafe, BootPtrSafe, ClaimLoadSafe, ClaimBodySafe,
     ClaimPtrSafe, ClaimLostSafe, RepairHeadSafe, RepairGetSafe, RepairWalSafe,
     RepairFenceSafe, RepairPubSafe, RepairDelSafe, RecoverSafe DEF OpenStep
<1>5. ASSUME NEW w \in Writers, CommitStep(w) PROVE Safe' /\ Kept
  BY <1>1, <1>5, PutWalSafe, PutBodySafe, BodyExistsSafe, JoinPutsSafe, ReseqSafe,
     CancelRetrySafe, CasPointerSafe, PointerExistsSafe, ResolveCasSafe, DeleteOrphanSafe
     DEF CommitStep
<1>6. ASSUME NEW w \in Writers,
             \/ Open(w) \/ Reopen(w) \/ OpenFault(w) \/ Rollback(w) \/ StartCommit(w) \/ Crash(w)
             \/ \E b \in Batches : Stage(w, b)
      PROVE  Safe' /\ Kept
  BY <1>1, <1>6, OpenSafe, OpenFaultSafe, RollbackSafe, StartCommitSafe, CrashSafe, StageSafe
<1> QED BY <1>1, <1>2, <1>3, <1>4, <1>5, <1>6 DEF Next, SafeInv

\* The invariant holds of an empty store.
LEMMA SafeInit ==
  ASSUME Init
  PROVE  SafeInv
<1>1. TypeOK /\ PointerFamily
  BY TypeInit DEF Init, PointerFamily, PointersContiguous, RepairPcs
<1>2. Bodies /\ Segments /\ Chain /\ Durable
  BY BoundsAssumption DEF Init, Bodies, Segments, Chain, Durable, Versions
<1>3. OneZero
  BY DEF Init, OneZero, HasZero
<1>4. \A w \in Writers : Locally(w)
  BY DEF Init, Locally, SessOK, ClaimOK, CommitOK, ClaimPcs, CommitPcs, Judged, Bases, RepairPcs
<1>5. Rejecting
  BY DEF Init, Rejecting
<1> QED BY <1>1, <1>2, <1>3, <1>4, <1>5 DEF SafeInv, Safe

\* The inductive invariant of this part holds in every reachable state, for
\* any number of writers, opens, crashes and failed, landed or late PUTs, as
\* long as no two repairs judge orphans at once and a commit's pointer PUT that
\* fails has been applied.
THEOREM SafeCorrect == ASSUME Scope PROVE Spec /\ []OneJudge => []SafeInv
<1>1. OneJudge /\ SafeInv /\ [Next]_vars => SafeInv'
  BY SafeStep
<1> QED BY <1>1, SafeInit, PTL DEF Spec

\* No repair and no cleanup takes a published pointer back or changes a
\* published body (repair_stalled_commit deletes only what cannot have been
\* published).
THEOREM ImmutableCorrect == ASSUME Scope PROVE Spec /\ []OneJudge => PublishedImmutable
<1>1. OneJudge /\ SafeInv /\ [Next]_vars
        => [/\ ptr \subseteq ptr' /\ \A v \in ptr : body'[v] = body[v]]_<<ptr, body>>
  BY SafeStep DEF Kept
<1> QED BY <1>1, SafeCorrect, PTL DEF Spec, PublishedImmutable

\* Every published pointer has its body.
THEOREM BodyPresentCorrect == ASSUME Scope PROVE Spec /\ []OneJudge => []PublishedBodyPresent
<1>1. SafeInv => PublishedBodyPresent
  BY DEF SafeInv, Safe, Bodies, PublishedBodyPresent
<1> QED BY <1>1, SafeCorrect, PTL

\* The published version is a prefix of the next.
LEMMA LineageHolds ==
  ASSUME SafeInv
  PROVE  LineageExtends
<1> SUFFICES ASSUME NEW v \in ptr, v + 1 \in ptr
             PROVE  /\ body[v].epoch <= body[v + 1].epoch
                    /\ IsPrefix(body[v].wal, body[v + 1].wal)
  BY DEF LineageExtends
<1>1. v \in Nat /\ v + 1 \in Versions /\ body[v + 1] # None
  BY PublishedType
<1>2. PICK m, base : m = body[v + 1] /\ base = body[v]
  OBVIOUS
<1>3. m \in Manifest /\ base \in Manifest
  BY <1>2, PublishedType
<1>4. v + 1 # 0 /\ (v + 1) - 1 = v
  BY <1>1
<1>5. ClaimOf(m, base) \/ CommitOf(m, base)
  BY <1>1, <1>2, <1>4 DEF SafeInv, Safe, Bodies, Fits
<1>6. base.epoch <= m.epoch
  BY <1>3, <1>5, Extends
<1>7. base.wal \in Seq(Descriptor)
  BY <1>3 DEF Manifest
<1>8. CASE ClaimOf(m, base)
  <2>1. m.wal = base.wal /\ Len(base.wal) \in Nat
    BY <1>7, <1>8, LenProperties DEF ClaimOf
  <2>2. IsPrefix(base.wal, m.wal)
    BY <2>1 DEF IsPrefix
  <2> QED BY <1>2, <1>6, <2>2
<1>9. CASE CommitOf(m, base)
  <2>1. PICK d \in Descriptor : m.wal = Append(base.wal, d)
    BY <1>3, <1>9, CommitWal
  <2>2. /\ m.wal \in Seq(Descriptor) /\ Len(m.wal) = Len(base.wal) + 1 /\ Len(base.wal) \in Nat
        /\ \A i \in 1..Len(base.wal) : m.wal[i] = base.wal[i]
    BY <1>7, <2>1, AppendProperties, LenProperties
  <2>3. SubSeq(base.wal, 1, Len(base.wal)) = SubSeq(m.wal, 1, Len(base.wal))
    BY <1>7, <2>2
  <2>4. IsPrefix(base.wal, m.wal)
    BY <2>2, <2>3 DEF IsPrefix
  <2> QED BY <1>2, <1>6, <2>4
<1> QED BY <1>5, <1>8, <1>9

\* Each published version extends the one before it: no epoch goes back and
\* no committed segment is lost.
THEOREM LineageCorrect == ASSUME Scope PROVE Spec /\ []OneJudge => []LineageExtends
BY LineageHolds, SafeCorrect, PTL

\* Recovery of the current manifest finds every segment it names, as declared.
THEOREM RecoverableCorrect == ASSUME Scope PROVE Spec /\ []OneJudge => []CurrentRecoverable
<1>1. SafeInv => CurrentRecoverable
  BY CurrentType DEF SafeInv, Safe, Segments, Present, CurrentRecoverable, Current
<1> QED BY <1>1, SafeCorrect, PTL

\* The last published version holds what was acknowledged.
LEMMA AckedHolds ==
  ASSUME SafeInv
  PROVE  AckedDurable
<1>1. ptr \subseteq 0..MaxVersion /\ MaxVersion \in Nat
  BY BoundsAssumption DEF SafeInv, TypeOK, Versions
<1>2. ASSUME NEW b \in acked PROVE b \in LogBatches
  <2>1. PICK v \in ptr : b \in Contents(body[v])
    BY <1>2 DEF SafeInv, Safe, Durable
  <2>2. Top \in ptr /\ v <= Top
    BY <1>1, <2>1, BoundedMax DEF Top
  <2>3. Contents(body[v]) \subseteq Contents(body[Top])
    BY <2>1, <2>2 DEF SafeInv, Safe, Chain
  <2>4. Loadable
    BY <2>2 DEF Loadable, SafeInv, Safe, Bodies
  <2> QED BY <2>1, <2>3, <2>4 DEF LogBatches, Current
<1>3. Loadable => OnceEach(Current)
  BY CurrentType, PublishedOnce DEF Current, SafeInv
<1> QED BY <1>2, <1>3 DEF AckedDurable

\* An acknowledged batch is in the committed log, and no batch is in it twice,
\* whoever committed, repaired, took over or retried since.
THEOREM AckedCorrect == ASSUME Scope PROVE Spec /\ []OneJudge => []AckedDurable
BY AckedHolds, SafeCorrect, PTL

\* Two processes with one epoch would both be its owner.
LEMMA EpochsDiffer ==
  ASSUME SafeInv
  PROVE  OneSessionPerEpoch
<1> SUFFICES ASSUME NEW w \in Writers, NEW x \in Writers, sess[w] # None, sess[x] # None,
                    sess[w].epoch = sess[x].epoch
             PROVE  w = x
  BY DEF OneSessionPerEpoch
<1>1. PICK s, z : s = sess[w] /\ z = sess[x]
  OBVIOUS
<1>2. SessOK(w, s) /\ SessOK(x, z) /\ s.epoch \in Nat
  BY <1>1 DEF SafeInv, Safe, Locally, TypeOK, Session
<1>3. CASE s.epoch = 0
  BY <1>1, <1>3 DEF SafeInv, Safe, OneZero, HasZero
<1>4. CASE s.epoch > 0
  <2>1. /\ s.ver \in ptr /\ z.ver \in ptr /\ body[s.ver] = s.man /\ body[z.ver] = z.man
        /\ s.man.owner = s.owner /\ z.man.owner = z.owner
        /\ s.man.epoch = z.man.epoch /\ s.man.epoch > 0 /\ s.owner[1] = w /\ z.owner[1] = x
    BY <1>1, <1>2, <1>4 DEF SessOK
  <2>2. s.man.owner = z.man.owner
    BY <2>1 DEF SafeInv, Safe, Chain
  <2> QED BY <2>1, <2>2
<1> QED BY <1>2, <1>3, <1>4

\* No two sessions hold the same epoch.
THEOREM EpochsCorrect == ASSUME Scope PROVE Spec /\ []OneJudge => []OneSessionPerEpoch
BY EpochsDiffer, SafeCorrect, PTL

\* A session's base is published and its memtable is the records of that base.
THEOREM SessionCorrect == ASSUME Scope PROVE Spec /\ []OneJudge => []SessionMatchesStore
<1>1. SafeInv => SessionMatchesStore
  BY DEF SafeInv, Safe, Locally, SessOK, SessionMatchesStore
<1> QED BY <1>1, SafeCorrect, PTL

-----------------------------------------------------------------------------
(* The order of LSNs, and the abstract log.                                 *)

\* The records of a manifest are in LSN order.
Ascending(m) ==
  \A i, k \in DOMAIN m.wal :
    \A j \in DOMAIN m.wal[i].recs, n \in DOMAIN m.wal[k].recs :
      i < k \/ (i = k /\ j < n) => m.wal[i].recs[j].lsn < m.wal[k].recs[n].lsn

\* What a session has staged follows its base in LSN order, and its next LSN
\* follows both.
SessOrdered(s) ==
  s # None =>
    /\ \A r \in RecordsOf(s.man) :
         r.lsn < s.next_lsn /\ \A j \in DOMAIN s.pending : r.lsn < s.pending[j].lsn
    /\ \A j \in DOMAIN s.pending : s.pending[j].lsn < s.next_lsn
    /\ \A j, n \in DOMAIN s.pending : j < n => s.pending[j].lsn < s.pending[n].lsn

\* Every body is in order and so is every session; what was rejected is in no
\* body, published or not, and no commit is at it again.
BodiesOrdered ==
  /\ \A v \in Versions : body[v] # None => Ascending(body[v])
  /\ \A rq \in late : rq.obj = "body" => Ascending(rq.val)
NackInv ==
  /\ nacked # {} => Solo
  /\ \A v \in Versions : body[v] # None => nacked \cap Contents(body[v]) = {}
  /\ \A w \in Writers : pc[w] \in CommitPcs => nacked \cap BatchesOf(sess[w].pending) = {}
Ordered ==
  /\ BodiesOrdered /\ NackInv
  /\ \A w \in Writers : SessOrdered(sess[w])

\* One more segment, in order and after the others, keeps a manifest in order.
LEMMA AscendingAppend ==
  ASSUME NEW base \in Manifest, Ascending(base), NEW m, NEW d \in Descriptor,
         m.wal = Append(base.wal, d),
         \A j, n \in DOMAIN d.recs : j < n => d.recs[j].lsn < d.recs[n].lsn,
         \A r \in RecordsOf(base) : \A j \in DOMAIN d.recs : r.lsn < d.recs[j].lsn
  PROVE  Ascending(m)
<1>1. base.wal \in Seq(Descriptor)
  BY DEF Manifest
<1>2. PICK last : last = Len(base.wal) + 1
  OBVIOUS
<1>3. /\ DOMAIN m.wal = (DOMAIN base.wal) \cup {last}
      /\ \A i \in DOMAIN base.wal : m.wal[i] = base.wal[i]
      /\ m.wal[last] = d
  BY <1>1, <1>2, Appended
<1>4. \A i \in DOMAIN base.wal : i < last /\ i \in Nat /\ last \in Nat
  BY <1>1, <1>2, LenProperties
<1>5. \A i \in DOMAIN base.wal : \A j \in DOMAIN base.wal[i].recs :
        base.wal[i].recs[j] \in RecordsOf(base)
  BY DEF RecordsOf
<1> SUFFICES ASSUME NEW i \in DOMAIN m.wal, NEW k \in DOMAIN m.wal,
                    NEW j \in DOMAIN m.wal[i].recs, NEW n \in DOMAIN m.wal[k].recs,
                    i < k \/ (i = k /\ j < n)
             PROVE  m.wal[i].recs[j].lsn < m.wal[k].recs[n].lsn
  BY DEF Ascending
<1>6. CASE i \in DOMAIN base.wal /\ k \in DOMAIN base.wal
  BY <1>3, <1>6 DEF Ascending
<1>7. CASE i \in DOMAIN base.wal /\ k = last
  BY <1>3, <1>5, <1>7
<1>8. CASE i = last /\ k = last
  <2>1. ~(i < k)
    BY <1>2, <1>8, <1>1, LenProperties
  <2> QED BY <1>3, <1>8, <2>1
<1>9. ~(i = last /\ k \in DOMAIN base.wal)
  BY <1>4
<1> QED BY <1>3, <1>6, <1>7, <1>8, <1>9

\* A claim takes over its base's segments, and their order.
LEMMA SameWalAscending ==
  ASSUME NEW m, NEW base, Ascending(base), m.wal = base.wal
  PROVE  Ascending(m)
BY DEF Ascending

\* A step stores, or leaves in flight, no body but those that are in order.
LEMMA StoresOrdered ==
  ASSUME Ordered,
         \A v \in Versions : body'[v] = body[v] \/ body'[v] = None \/ Ascending(body'[v]),
         \A rq \in late' : rq \in late \/ (rq.obj = "body" => Ascending(rq.val))
  PROVE  BodiesOrdered'
<1>1. ASSUME NEW v \in Versions, body'[v] # None PROVE Ascending(body[v])'
  <2>1. PICK m : m = body'[v]
    OBVIOUS
  <2>2. Ascending(m)
    BY <1>1, <2>1 DEF Ordered, BodiesOrdered
  <2> QED BY <2>1, <2>2 DEF Ascending
<1>2. ASSUME NEW rq \in late', rq.obj = "body" PROVE Ascending(rq.val)'
  BY <1>2 DEF Ordered, BodiesOrdered, Ascending
<1> QED BY <1>1, <1>2 DEF BodiesOrdered

\* What a session's commit would publish is in order.
LEMMA NextAscending ==
  ASSUME SafeInv, Ordered, NEW w \in Writers, pc[w] \in CommitPcs
  PROVE  Ascending(txn[w].next)
<1>1. PICK s, m, e : /\ s = sess[w] /\ m = txn[w].next
                     /\ e = [seq |-> txn[w].seq, recs |-> sess[w].pending]
  OBVIOUS
<1>2. /\ s.man \in Manifest /\ e \in Descriptor /\ m.wal = Append(s.man.wal, e)
      /\ s # None /\ s.ver \in Versions /\ body[s.ver] = s.man /\ body[s.ver] # None
  BY <1>1, NextFits, CommitWhat, SessionWhat, PublishedType
<1>3. e.recs = s.pending
  BY <1>1
<1>4. Ascending(s.man)
  BY <1>2 DEF Ordered, BodiesOrdered
<1>5. SessOrdered(s)
  BY <1>1 DEF Ordered
<1>6. /\ \A j, n \in DOMAIN e.recs : j < n => e.recs[j].lsn < e.recs[n].lsn
      /\ \A r \in RecordsOf(s.man) : \A j \in DOMAIN e.recs : r.lsn < e.recs[j].lsn
  BY <1>2, <1>3, <1>5 DEF SessOrdered
<1>7. Ascending(m)
  BY <1>2, <1>4, <1>6, AscendingAppend
<1> QED BY <1>1, <1>7

\* Bootstrap stores the empty manifest.
LEMMA BootBodyOrdered ==
  ASSUME SafeInv, Ordered, NEW w \in Writers, BootBody(w)
  PROVE  BodiesOrdered'
<1>1. late' = late /\ body' = IF body[0] = None THEN [body EXCEPT ![0] = empty(claim[w].id)] ELSE body
  BY DEF BootBody
<1>2. PICK m : m = empty(claim[w].id)
  OBVIOUS
<1>3. Ascending(m)
  <2>1. DOMAIN m.wal = {}
    BY <1>2 DEF empty
  <2> QED BY <2>1 DEF Ascending
<1>4. \A v \in Versions : body'[v] = body[v] \/ body'[v] = m
  BY <1>1, <1>2 DEF SafeInv, TypeOK
<1>5. \A v \in Versions : body'[v] = body[v] \/ body'[v] = None \/ Ascending(body'[v])
  BY <1>3, <1>4, Zenon
<1> QED BY <1>1, <1>5, StoresOrdered

\* The body m is put at v, and arrives, is lost, or stays in flight.
LEMMA PutOrdered ==
  ASSUME SafeInv, Ordered, NEW v \in Versions, NEW m, Ascending(m), NEW out,
         body' = IF Lands(out) THEN [body EXCEPT ![v] = m] ELSE body,
         InFlight(out, [obj |-> "body", at |-> v, val |-> m])
  PROVE  BodiesOrdered'
<1>1. \A u \in Versions : body'[u] = body[u] \/ body'[u] = m
  BY DEF SafeInv, TypeOK
<1>2. \A u \in Versions : body'[u] = body[u] \/ body'[u] = None \/ Ascending(body'[u])
  BY <1>1, Zenon
<1>3. PICK req : req = [obj |-> "body", at |-> v, val |-> m]
  OBVIOUS
<1>4. req.val = m /\ \A rq \in late' : rq \in late \/ rq = req
  BY <1>3 DEF InFlight
<1>5. \A rq \in late' : rq \in late \/ (rq.obj = "body" => Ascending(rq.val))
  BY <1>4, Zenon
<1> QED BY <1>2, <1>5, StoresOrdered

\* A claim's body has the segments of its base.
LEMMA ClaimBodyOrdered ==
  ASSUME SafeInv, Ordered, NEW w \in Writers, ClaimBody(w)
  PROVE  BodiesOrdered'
<1>1. PICK c, m, v : c = claim[w] /\ m = Claimed(c) /\ v = c.ver + 1
  OBVIOUS
<1>2. pc[w] = "claim_body" /\ pc[w] \in Bases /\ pc[w] \in ClaimPcs
  BY DEF ClaimBody, Bases, ClaimPcs, RepairPcs
<1>3. /\ c.ver \in ptr /\ c.ver \in Nat /\ body[c.ver] = c.man /\ m.wal = c.man.wal
  BY <1>1, <1>2, ClaimWhat, ClaimedFits DEF ClaimOK
<1>4. Ascending(c.man)
  BY <1>3, PublishedType DEF Ordered, BodiesOrdered
<1>5. Ascending(m)
  BY <1>3, <1>4, SameWalAscending
<1>6. v <= MaxVersion /\ next_version(c.ver) = v
  BY <1>1 DEF ClaimBody, next_version
<1>7. v \in Versions
  BY <1>1, <1>3, <1>6, BoundsAssumption DEF Versions
<1>8. CASE body[v] # None
  <2>1. UNCHANGED <<body, late>>
    BY <1>1, <1>6, <1>8 DEF ClaimBody
  <2> QED BY <2>1, StoresOrdered
<1>9. CASE body[v] = None
  <2>1. PICK out \in Outcomes(PutFaults) :
          /\ body' = IF Lands(out) THEN [body EXCEPT ![v] = m] ELSE body
          /\ InFlight(out, [obj |-> "body", at |-> v, val |-> m])
    BY <1>1, <1>6, <1>9 DEF ClaimBody
  <2> QED BY <1>5, <1>7, <2>1, PutOrdered
<1> QED BY <1>8, <1>9

\* A commit's body adds what was staged after its base.
LEMMA PutBodyOrdered ==
  ASSUME SafeInv, Ordered, NEW w \in Writers, PutBody(w)
  PROVE  BodiesOrdered'
<1>1. PICK m, v : m = txn[w].next /\ v = sess[w].ver + 1
  OBVIOUS
<1>2. pc[w] = "puts" /\ pc[w] \in CommitPcs
  BY DEF PutBody, CommitPcs
<1>3. v \in Versions /\ Ascending(m) /\ next_version(sess[w].ver) = v
  BY <1>1, <1>2, CommitWhat, NextAscending DEF next_version
<1>4. CASE body[v] # None
  <2>1. UNCHANGED <<body, late>>
    BY <1>3, <1>4 DEF PutBody
  <2> QED BY <2>1, StoresOrdered
<1>5. CASE body[v] = None
  <2>1. PICK out \in Outcomes(PutFaults) :
          /\ body' = IF Lands(out) THEN [body EXCEPT ![v] = m] ELSE body
          /\ InFlight(out, [obj |-> "body", at |-> v, val |-> m])
    BY <1>1, <1>3, <1>5 DEF PutBody
  <2> QED BY <1>3, <2>1, PutOrdered
<1> QED BY <1>4, <1>5

\* A body that arrives late was in order when it was sent.
LEMMA LatePutOrdered ==
  ASSUME SafeInv, Ordered, LatePut
  PROVE  BodiesOrdered'
<1>1. PICK req \in late :
        /\ late' = late \ {req}
        /\ body' = IF req.obj = "body" /\ body[req.at] = None
                   THEN [body EXCEPT ![req.at] = req.val] ELSE body
  BY DEF LatePut
<1>2. PICK m : m = req.val
  OBVIOUS
<1>3. \A v \in Versions : body'[v] = body[v] \/ (req.obj = "body" /\ body'[v] = m)
  BY <1>1, <1>2 DEF SafeInv, TypeOK
<1>4. req.obj = "body" => Ascending(m)
  BY <1>2 DEF Ordered, BodiesOrdered
<1>5. \A v \in Versions : body'[v] = body[v] \/ body'[v] = None \/ Ascending(body'[v])
  BY <1>3, <1>4, Zenon
<1>6. \A rq \in late' : rq \in late
  BY <1>1
<1> QED BY <1>5, <1>6, StoresOrdered

\* The other requests in flight are not of bodies.
LEMMA OtherPutOrdered ==
  ASSUME SafeInv, Ordered, body' = body, NEW out, NEW req, req.obj # "body",
         InFlight(out, req)
  PROVE  BodiesOrdered'
<1>1. \A rq \in late' : rq \in late \/ (rq.obj = "body" => Ascending(rq.val))
  BY DEF InFlight
<1> QED BY <1>1, StoresOrdered

\* Deleting a body, or storing none, keeps the order.
LEMMA StillOrdered ==
  ASSUME SafeInv, Ordered, late' = late,
         body' = body \/ \E v : body' = BodyDeleted(v)
  PROVE  BodiesOrdered'
<1>1. \A v \in Versions : body'[v] = body[v] \/ body'[v] = None
  BY DEF BodyDeleted, SafeInv, TypeOK
<1> QED BY <1>1, StoresOrdered

\* A claim's pointer leaves the bodies alone.
LEMMA ClaimPtrOrdered ==
  ASSUME SafeInv, Ordered, NEW w \in Writers, ClaimPtr(w)
  PROVE  BodiesOrdered'
<1>1. PICK v : v = next_version(claim[w].ver)
  OBVIOUS
<1>2. body' = body
  BY DEF ClaimPtr
<1>3. CASE late' = late
  BY <1>2, <1>3, StillOrdered
<1>4. CASE late' # late
  <2>1. PICK out \in Outcomes(PutFaults) : InFlight(out, [obj |-> "ptr", at |-> v, val |-> None])
    BY <1>1, <1>4 DEF ClaimPtr
  <2>2. [obj |-> "ptr", at |-> v, val |-> None].obj # "body"
    OBVIOUS
  <2> QED BY <1>2, <2>1, <2>2, OtherPutOrdered
<1> QED BY <1>3, <1>4

\* A WAL segment leaves the bodies alone.
LEMMA PutWalOrdered ==
  ASSUME SafeInv, Ordered, NEW w \in Writers, PutWal(w)
  PROVE  BodiesOrdered'
<1>1. PICK q, recs : q = txn[w].seq /\ recs = sess[w].pending
  OBVIOUS
<1>2. body' = body
  BY DEF PutWal
<1>3. CASE late' = late
  BY <1>2, <1>3, StillOrdered
<1>4. CASE late' # late
  <2>1. PICK out \in Outcomes(PutFaults) : InFlight(out, [obj |-> "wal", at |-> q, val |-> recs])
    BY <1>1, <1>4 DEF PutWal
  <2>2. [obj |-> "wal", at |-> q, val |-> recs].obj # "body"
    OBVIOUS
  <2> QED BY <1>2, <2>1, <2>2, OtherPutOrdered
<1> QED BY <1>3, <1>4

\* A commit's pointer leaves the bodies alone.
LEMMA CasPointerOrdered ==
  ASSUME SafeInv, Ordered, NEW w \in Writers, CasPointer(w)
  PROVE  BodiesOrdered'
<1>1. PICK v : v = next_version(sess[w].ver)
  OBVIOUS
<1>2. body' = body
  BY DEF CasPointer
<1>3. CASE late' = late
  BY <1>2, <1>3, StillOrdered
<1>4. CASE late' # late
  <2>1. PICK out \in Outcomes(PtrFaults) : InFlight(out, [obj |-> "ptr", at |-> v, val |-> None])
    BY <1>1, <1>4 DEF CasPointer
  <2>2. [obj |-> "ptr", at |-> v, val |-> None].obj # "body"
    OBVIOUS
  <2> QED BY <1>2, <2>1, <2>2, OtherPutOrdered
<1> QED BY <1>3, <1>4

\* Every body a step stores is in order.
LEMMA BodiesStep ==
  ASSUME SafeInv, Ordered, [Next]_vars
  PROVE  BodiesOrdered'
<1>1. CASE LatePut
  BY <1>1, LatePutOrdered
<1>2. CASE UNCHANGED vars
  <2>1. UNCHANGED <<body, late>>
    BY <1>2 DEF vars, store
  <2> QED BY <2>1, StillOrdered
<1>3. ASSUME NEW w \in Writers, OpenStep(w) PROVE BodiesOrdered'
  <2>1. CASE LoadForOpen(w) \/ BootPtr(w) \/ ClaimLoad(w) \/ ClaimLost(w) \/ RepairHead(w)
             \/ RepairGet(w) \/ RepairWal(w) \/ RepairFence(w) \/ RepairPub(w) \/ Recover(w)
    <3>1. UNCHANGED <<body, late>>
      BY <2>1 DEF LoadForOpen, BootPtr, ClaimLoad, ClaimLost, RepairHead, RepairGet, RepairWal,
                  RepairFence, RepairPub, Recover, store
    <3> QED BY <3>1, StillOrdered
  <2>2. CASE RepairDel(w)
    BY <2>2, StillOrdered DEF RepairDel
  <2> QED BY <1>3, <2>1, <2>2, BootBodyOrdered, ClaimBodyOrdered, ClaimPtrOrdered DEF OpenStep
<1>4. ASSUME NEW w \in Writers, CommitStep(w) PROVE BodiesOrdered'
  <2>1. CASE BodyExists(w) \/ JoinPuts(w) \/ Reseq(w) \/ CancelRetry(w) \/ PointerExists(w)
             \/ ResolveCas(w)
    <3>1. UNCHANGED <<body, late>>
      BY <2>1 DEF BodyExists, JoinPuts, Reseq, CancelRetry, PointerExists, ResolveCas, store
    <3> QED BY <3>1, StillOrdered
  <2>2. CASE DeleteOrphanBody(w) \/ DeleteOrphanWal(w)
    BY <2>2, StillOrdered DEF DeleteOrphanBody, DeleteOrphanWal
  <2> QED BY <1>4, <2>1, <2>2, PutWalOrdered, PutBodyOrdered, CasPointerOrdered DEF CommitStep
<1>5. ASSUME NEW w \in Writers,
             \/ Open(w) \/ Reopen(w) \/ OpenFault(w) \/ Rollback(w) \/ StartCommit(w) \/ Crash(w)
             \/ \E b \in Batches : Stage(w, b)
      PROVE  BodiesOrdered'
  <2>1. UNCHANGED <<body, late>>
    BY <1>5 DEF Open, Reopen, StartOpen, OpenFault, Rollback, StartCommit, Crash, Stage, store
  <2> QED BY <2>1, StillOrdered
<1> QED BY <1>1, <1>2, <1>3, <1>4, <1>5 DEF Next

\* A commit is rejected by the end of its cleanup, and taken up by StartCommit.
LEMMA NackedMoves ==
  ASSUME [Next]_vars
  PROVE  \/ nacked' = nacked
         \/ \E w \in Writers : StartCommit(w) \/ DeleteOrphanWal(w)
<1>1. CASE LatePut \/ UNCHANGED vars
  BY <1>1 DEF LatePut, vars, history
<1>2. ASSUME NEW w \in Writers, OpenStep(w) PROVE nacked' = nacked
  BY <1>2 DEF OpenStep, LoadForOpen, BootBody, BootPtr, ClaimLoad, ClaimBody, ClaimPtr, ClaimLost,
              RepairHead, RepairGet, RepairWal, RepairFence, RepairPub, RepairDel, Recover, history
<1>3. ASSUME NEW w \in Writers, CommitStep(w) PROVE nacked' = nacked \/ DeleteOrphanWal(w)
  <2>1. CASE PutWal(w) \/ PutBody(w) \/ BodyExists(w) \/ JoinPuts(w) \/ Reseq(w) \/ CancelRetry(w)
             \/ PointerExists(w) \/ DeleteOrphanBody(w)
    BY <2>1 DEF PutWal, PutBody, BodyExists, JoinPuts, Reseq, CancelRetry, PointerExists,
         DeleteOrphanBody, history
  <2>2. CASE CasPointer(w) \/ ResolveCas(w)
    BY <2>2 DEF CasPointer, ResolveCas, SealCommit, history
  <2> QED BY <1>3, <2>1, <2>2 DEF CommitStep
<1>4. ASSUME NEW w \in Writers,
             \/ Open(w) \/ Reopen(w) \/ OpenFault(w) \/ Rollback(w) \/ Crash(w)
             \/ \E b \in Batches : Stage(w, b)
      PROVE  nacked' = nacked
  BY <1>4 DEF Open, Reopen, StartOpen, OpenFault, Rollback, Crash, Stage, history
<1> QED BY <1>1, <1>2, <1>3, <1>4 DEF Next

\* What a rejected commit holds is in no body: its own is gone, and those of the
\* versions before it are of what it was staged on.
LEMMA RejectedAbsent ==
  ASSUME SafeInv, NEW w \in Writers, pc[w] = "del_wal", NEW v \in Versions, body[v] # None
  PROVE  BatchesOf(sess[w].pending) \cap Contents(body[v]) = {}
<1>1. PICK s : s = sess[w]
  OBVIOUS
<1>2. /\ SessOK(w, s) /\ s # None /\ s.ver \in Nat /\ s.ver + 1 \notin ptr
      /\ body[s.ver + 1] = None /\ pc[w] \in CommitPcs
  BY <1>1, CommitWhat DEF CommitPcs, SafeInv, Rejecting
<1>3. s.ver \in ptr /\ body[s.ver] = s.man /\ BatchesOf(s.pending) \cap Contents(s.man) = {}
  BY <1>2 DEF SessOK
<1>4. v \in Nat
  BY BoundsAssumption DEF Versions
<1>5. v <= s.ver
  <2>1. CASE v = 0
    BY <1>2, <2>1
  <2>2. CASE v # 0
    <3>1. v - 1 \in ptr
      BY <2>2 DEF SafeInv, Safe, Bodies, Fits
    <3>2. ~(s.ver + 1 <= v - 1)
      <4>1. s.ver + 1 <= v - 1 => s.ver + 1 \in 0..(v - 1)
        BY <1>2, <1>4
      <4> QED BY <1>2, <3>1, <4>1 DEF SafeInv, PointerFamily, PointersContiguous
    <3>3. v # s.ver + 1
      BY <1>2
    <3> QED BY <1>2, <1>4, <3>2, <3>3
  <2> QED BY <2>1, <2>2
<1>6. v \in ptr
  <2>1. v \in 0..s.ver
    BY <1>2, <1>4, <1>5
  <2> QED BY <1>3, <2>1 DEF SafeInv, PointerFamily, PointersContiguous
<1>7. Contents(body[v]) \subseteq Contents(s.man)
  BY <1>3, <1>5, <1>6 DEF SafeInv, Safe, Chain
<1> QED BY <1>1, <1>3, <1>7

\* A step that rejects nothing, stores no body that holds what was rejected, and
\* commits nothing that was.
LEMMA NackKept ==
  ASSUME NackInv, nacked' \subseteq nacked,
         \A v \in Versions : \/ body'[v] = body[v] \/ body'[v] = None
                            \/ nacked \cap Contents(body'[v]) = {},
         \A w \in Writers : pc'[w] \in CommitPcs
                              => nacked' \cap BatchesOf(sess'[w].pending) = {}
  PROVE  NackInv'
<1>1. ASSUME NEW v \in Versions, body'[v] # None PROVE (nacked \cap Contents(body[v]) = {})'
  <2>1. PICK m : m = body'[v]
    OBVIOUS
  <2>2. nacked \cap Contents(m) = {}
    BY <1>1, <2>1 DEF NackInv
  <2>3. nacked' \cap Contents(m) = {}
    BY <2>2
  <2> QED BY <2>1, <2>3
<1>2. ASSUME NEW w \in Writers, pc'[w] \in CommitPcs
      PROVE  (nacked \cap BatchesOf(sess[w].pending) = {})'
  BY <1>2
<1> QED BY <1>1, <1>2 DEF NackInv

\* An open stores what is published already.
LEMMA OpenNacks ==
  ASSUME SafeInv, NackInv, Solo, NEW w \in Writers,
         Open(w) \/ Reopen(w) \/ OpenStep(w) \/ OpenFault(w), nacked' = nacked
  PROVE  NackInv'
<1>1. \A x \in Writers : pc'[x] \notin CommitPcs
  <2>1. \A x \in Writers : x = w
    BY DEF Solo
  <2>2. PICK l \in {"down", "open"} \cup ClaimPcs : pc' = [pc EXCEPT ![w] = l]
    BY OpenLabels DEF SafeInv
  <2> QED BY <2>1, <2>2 DEF SafeInv, TypeOK, ClaimPcs, CommitPcs
<1>2. CASE BootBody(w)
  <2>1. PICK m : m = empty(claim[w].id)
    OBVIOUS
  <2>2. Contents(m) = {}
    BY <2>1 DEF empty, Contents
  <2>3. \A v \in Versions : body'[v] = body[v] \/ body'[v] = m
    BY <1>2, <2>1 DEF BootBody, SafeInv, TypeOK
  <2>4. \A v \in Versions : body'[v] = body[v] \/ nacked \cap Contents(body'[v]) = {}
    <3>1. nacked \cap Contents(m) = {}
      BY <2>2
    <3> QED BY <2>3, <3>1, Zenon
  <2> QED BY <1>1, <2>4, NackKept
<1>3. CASE ClaimBody(w)
  <2>1. PICK c, m, v : c = claim[w] /\ m = Claimed(c) /\ v = next_version(c.ver)
    OBVIOUS
  <2>2. pc[w] = "claim_body" /\ pc[w] \in Bases /\ pc[w] \in ClaimPcs
    BY <1>3 DEF ClaimBody, Bases, ClaimPcs, RepairPcs
  <2>3. c.ver \in ptr /\ body[c.ver] = c.man /\ m.wal = c.man.wal
    BY <2>1, <2>2, ClaimWhat, ClaimedFits DEF ClaimOK
  <2>4. Contents(m) = Contents(c.man)
    BY <2>3 DEF Contents
  <2>5. nacked \cap Contents(m) = {}
    BY <2>3, <2>4, PublishedType DEF NackInv
  <2>6. \A u \in Versions : body'[u] = body[u] \/ body'[u] = m
    BY <1>3, <2>1 DEF ClaimBody, SafeInv, TypeOK
  <2>7. \A u \in Versions : body'[u] = body[u] \/ nacked \cap Contents(body'[u]) = {}
    BY <2>5, <2>6, Zenon
  <2> QED BY <1>1, <2>7, NackKept
<1>4. CASE RepairDel(w)
  <2>1. \A u \in Versions : body'[u] = body[u] \/ body'[u] = None
    BY <1>4 DEF RepairDel, BodyDeleted, SafeInv, TypeOK
  <2> QED BY <1>1, <2>1, NackKept
<1>5. CASE \/ Open(w) \/ Reopen(w) \/ OpenFault(w) \/ LoadForOpen(w) \/ BootPtr(w)
           \/ ClaimLoad(w) \/ ClaimPtr(w) \/ ClaimLost(w) \/ RepairHead(w) \/ RepairGet(w)
           \/ RepairWal(w) \/ RepairFence(w) \/ RepairPub(w) \/ Recover(w)
  <2>1. body' = body
    BY <1>5 DEF Open, Reopen, StartOpen, OpenFault, LoadForOpen, BootPtr, ClaimLoad, ClaimPtr,
         ClaimLost, RepairHead, RepairGet, RepairWal, RepairFence, RepairPub, Recover, store
  <2> QED BY <1>1, <2>1, NackKept
<1> QED BY <1>2, <1>3, <1>4, <1>5 DEF OpenStep

\* A commit stores its base and what it commits, which is no longer rejected.
LEMMA CommitNacks ==
  ASSUME SafeInv, NackInv, Solo, NEW w \in Writers, CommitStep(w)
  PROVE  NackInv'
<1>0. \A x \in Writers : x = w
  BY DEF Solo
<1>1. CASE DeleteOrphanWal(w) /\ nacked' # nacked
  <2>1. PICK s : s = sess[w]
    OBVIOUS
  <2>2. /\ pc[w] = "del_wal" /\ body' = body /\ nacked' = nacked \cup BatchesOf(s.pending)
        /\ pc' = [pc EXCEPT ![w] = "open"]
    BY <1>1, <2>1 DEF DeleteOrphanWal, FailCommit, Goto
  <2>3. ASSUME NEW v \in Versions, body'[v] # None PROVE (nacked \cap Contents(body[v]) = {})'
    <3>1. PICK m : m = body[v]
      OBVIOUS
    <3>2. BatchesOf(s.pending) \cap Contents(m) = {} /\ nacked \cap Contents(m) = {}
      BY <2>1, <2>2, <2>3, <3>1, RejectedAbsent DEF NackInv
    <3>3. nacked' \cap Contents(m) = {}
      BY <2>2, <3>2
    <3> QED BY <2>2, <3>1, <3>3
  <2>4. \A x \in Writers : pc'[x] \notin CommitPcs
    BY <1>0, <2>2 DEF SafeInv, TypeOK, CommitPcs
  <2> QED BY <2>3, <2>4 DEF NackInv
<1>2. CASE ~(DeleteOrphanWal(w) /\ nacked' # nacked)
  <2>1. nacked' = nacked
    <3>1. [Next]_vars
      BY DEF Next
    <3>2. ~StartCommit(w)
      <4>1. pc[w] \in CommitPcs
        BY DEF CommitStep, PutWal, PutBody, BodyExists, JoinPuts, Reseq, CancelRetry, CasPointer,
             PointerExists, ResolveCas, DeleteOrphanBody, DeleteOrphanWal, CommitPcs
      <4> QED BY <4>1 DEF StartCommit, CommitPcs
    <3> QED BY <1>0, <1>2, <3>1, <3>2, NackedMoves
  <2>2. pc[w] \in CommitPcs /\ (sess' = sess \/ pc' = [pc EXCEPT ![w] = "open"])
    <3>1. CASE PutWal(w) \/ PutBody(w) \/ BodyExists(w) \/ JoinPuts(w) \/ Reseq(w) \/ CancelRetry(w)
      BY <3>1 DEF PutWal, PutBody, BodyExists, JoinPuts, Reseq, CancelRetry, FailCommit, Goto,
           CommitPcs
    <3>2. CASE CasPointer(w) \/ PointerExists(w) \/ ResolveCas(w)
      BY <3>2 DEF CasPointer, PointerExists, ResolveCas, SealCommit, FailCommit, Goto, CommitPcs
    <3>3. CASE DeleteOrphanBody(w) \/ DeleteOrphanWal(w)
      BY <3>3 DEF DeleteOrphanBody, DeleteOrphanWal, FailCommit, Goto, CommitPcs
    <3> QED BY <3>1, <3>2, <3>3 DEF CommitStep
  <2>3. \A x \in Writers : pc'[x] \in CommitPcs => nacked' \cap BatchesOf(sess'[x].pending) = {}
    <3>1. CASE sess' = sess
      BY <1>0, <2>1, <2>2, <3>1 DEF NackInv
    <3>2. CASE pc' = [pc EXCEPT ![w] = "open"]
      BY <1>0, <3>2 DEF SafeInv, TypeOK, CommitPcs
    <3> QED BY <2>2, <3>1, <3>2
  <2>4. CASE PutBody(w)
    <3>1. PICK s, m : s = sess[w] /\ m = txn[w].next
      OBVIOUS
    <3>2. /\ Contents(m) = Contents(s.man) \cup BatchesOf(s.pending)
          /\ s.ver \in ptr /\ body[s.ver] = s.man
      BY <2>2, <3>1, NextFits, SessionWhat
    <3>3. nacked \cap Contents(m) = {}
      BY <2>2, <3>1, <3>2, PublishedType DEF NackInv
    <3>4. \A u \in Versions : body'[u] = body[u] \/ body'[u] = m
      BY <2>4, <3>1 DEF PutBody, SafeInv, TypeOK
    <3>5. \A u \in Versions : body'[u] = body[u] \/ nacked \cap Contents(body'[u]) = {}
      BY <3>3, <3>4, Zenon
    <3> QED BY <2>1, <2>3, <3>5, NackKept
  <2>5. CASE ~PutBody(w)
    <3>1. body' = body \/ \E v : body' = BodyDeleted(v)
      BY <2>5 DEF CommitStep, PutWal, BodyExists, JoinPuts, Reseq, CancelRetry, CasPointer,
           PointerExists, ResolveCas, DeleteOrphanBody, DeleteOrphanWal, store
    <3>2. \A u \in Versions : body'[u] = body[u] \/ body'[u] = None
      BY <3>1 DEF BodyDeleted, SafeInv, TypeOK
    <3> QED BY <2>1, <2>3, <3>2, NackKept
  <2> QED BY <2>4, <2>5
<1> QED BY <1>1, <1>2

\* What was rejected stays out of every body, in every step.
LEMMA NackStep ==
  ASSUME SafeInv, NackInv, [Next]_vars
  PROVE  NackInv'
<1>1. CASE nacked' = {}
  BY <1>1 DEF NackInv
<1>2. CASE nacked' # {}
  <2>1. Solo /\ late = {}
    <3>1. CASE nacked # {}
      BY <3>1 DEF NackInv, SafeInv, Rejecting
    <3>2. CASE nacked = {}
      <4>1. \A w \in Writers : ~StartCommit(w)
        BY <1>2, <3>2 DEF StartCommit
      <4>2. PICK w \in Writers : DeleteOrphanWal(w)
        BY <1>2, <3>2, <4>1, NackedMoves
      <4>3. pc[w] = "del_wal"
        BY <4>2 DEF DeleteOrphanWal
      <4> QED BY <4>3 DEF SafeInv, Rejecting
    <3> QED BY <3>1, <3>2
  <2>2. ~LatePut
    BY <2>1 DEF LatePut
  <2>3. CASE UNCHANGED vars
    <3>1. UNCHANGED <<body, pc, sess, nacked>>
      BY <2>3 DEF vars, store, history
    <3> QED BY <3>1 DEF NackInv
  <2>4. ASSUME NEW w \in Writers, Open(w) \/ Reopen(w) \/ OpenStep(w) \/ OpenFault(w)
        PROVE  NackInv'
    <3>1. nacked' = nacked
      BY <2>4 DEF Open, Reopen, StartOpen, OpenFault, OpenStep, LoadForOpen, BootBody, BootPtr,
           ClaimLoad, ClaimBody, ClaimPtr, ClaimLost, RepairHead, RepairGet, RepairWal,
           RepairFence, RepairPub, RepairDel, Recover, history
    <3> QED BY <2>1, <2>4, <3>1, OpenNacks
  <2>5. ASSUME NEW w \in Writers, StartCommit(w) PROVE NackInv'
    <3>1. \A x \in Writers : x = w
      BY <2>1 DEF Solo
    <3>2. /\ body' = body /\ sess' = sess /\ nacked' = nacked \ BatchesOf(sess[w].pending)
      BY <2>5 DEF StartCommit, store
    <3>3. nacked' \cap BatchesOf(sess'[w].pending) = {} /\ nacked' \subseteq nacked
      BY <3>2
    <3> QED BY <3>1, <3>2, <3>3, NackKept
  <2>6. ASSUME NEW w \in Writers, Rollback(w) \/ Crash(w) \/ \E b \in Batches : Stage(w, b)
        PROVE  NackInv'
    <3>1. \A x \in Writers : x = w
      BY <2>1 DEF Solo
    <3>2. /\ body' = body /\ nacked' = nacked /\ pc'[w] \in {"open", "down"}
      BY <2>6 DEF Rollback, Crash, Stage, Goto, store, history, SafeInv, TypeOK
    <3> QED BY <3>1, <3>2, NackKept DEF CommitPcs
  <2> QED BY <2>1, <2>2, <2>3, <2>4, <2>5, <2>6, CommitNacks DEF Next
<1> QED BY <1>1, <1>2

\* What is in no body is not in the log.
LEMMA NackHolds ==
  ASSUME SafeInv, NackInv
  PROVE  NackStaysTrue
<1>1. CASE Loadable
  <2>1. Top \in Versions /\ body[Top] # None
    BY <1>1, CurrentType DEF SafeInv, TypeOK, Loadable
  <2> QED BY <1>1, <2>1 DEF NackInv, NackStaysTrue, LogBatches, Current
<1>2. CASE ~Loadable
  BY <1>2 DEF NackStaysTrue, LogBatches
<1> QED BY <1>1, <1>2

\* Records have LSNs that are numbers.
LEMMA RecordLsn ==
  ASSUME NEW r \in Record PROVE r.lsn \in Nat /\ r.lsn \in 0..MaxLsn
<1>1. r.lsn \in 1..MaxLsn /\ MaxLsn \in Nat
  BY BoundsAssumption DEF Record
<1> QED BY <1>1

\* What a manifest holds are records.
LEMMA ManifestRecords ==
  ASSUME NEW m \in Manifest PROVE RecordsOf(m) \subseteq Record
<1>1. m.wal \in Seq(Descriptor)
  BY DEF Manifest
<1>2. \A i \in DOMAIN m.wal : m.wal[i] \in Descriptor
  BY <1>1
<1>3. \A i \in DOMAIN m.wal : m.wal[i].recs \in Seq(Record)
  BY <1>2 DEF Descriptor
<1>4. \A i \in DOMAIN m.wal : \A j \in DOMAIN m.wal[i].recs : m.wal[i].recs[j] \in Record
  BY <1>3
<1> QED BY <1>4 DEF RecordsOf

\* The first LSN of a session is above all it recovered.
LEMMA FirstLsnAbove ==
  ASSUME NEW mem \in SUBSET Record, NEW r \in mem
  PROVE  r.lsn < first_lsn(mem)
<1>1. PICK S : S = {0} \cup {q.lsn : q \in mem}
  OBVIOUS
<1>2. \A q \in mem : q.lsn \in 0..MaxLsn
  BY RecordLsn
<1>3. MaxLsn \in Nat /\ 0 \in 0..MaxLsn
  BY BoundsAssumption
<1>4. S \subseteq 0..MaxLsn /\ S # {} /\ r.lsn \in S
  BY <1>1, <1>2, <1>3
<1>5. Max(S) \in S /\ r.lsn <= Max(S)
  BY <1>3, <1>4, BoundedMax
<1>6. first_lsn(mem) = Max(S) + 1
  BY <1>1 DEF first_lsn
<1>7. Max(S) \in Nat /\ r.lsn \in Nat
  <2>1. \A x \in S : x \in Nat
    BY <1>3, <1>4
  <2> QED BY <1>4, <1>5, <2>1
<1> QED BY <1>5, <1>6, <1>7

\* A new session starts above everything it replayed.
LEMMA RecoverOrders ==
  ASSUME SafeInv, Ordered, NEW w \in Writers, Recover(w), sess' # sess
  PROVE  SessOrdered(sess'[w]) /\ Alone(w)
<1>1. pc[w] = "recover" /\ pc[w] \in ClaimPcs /\ pc[w] \in Bases /\ UNCHANGED txn
  BY DEF Recover, ClaimPcs, Bases
<1> DEFINE c == claim[w]
           s == [ver |-> c.ver, man |-> c.man, epoch |-> c.man.epoch, owner |-> c.id,
                 next_lsn |-> first_lsn(Replayed(c.man)),
                 seq |-> next_seq(1), pending |-> <<>>, poisoned |-> FALSE,
                 memtable |-> Replayed(c.man)]
<1>2. sess' = [sess EXCEPT ![w] = s] /\ claim' = [claim EXCEPT ![w] = None]
      /\ pc' = [pc EXCEPT ![w] = "open"]
  BY DEF Recover, Goto
<1>3. s.man = c.man /\ s.next_lsn = first_lsn(Replayed(c.man)) /\ DOMAIN s.pending = {}
  OBVIOUS
<1> HIDE DEF s
<1>4. sess'[w] = s /\ Alone(w)
  BY <1>1, <1>2 DEF SafeInv, TypeOK, Alone
<1>5. c.ver \in ptr /\ body[c.ver] = c.man
  BY <1>1, ClaimWhat DEF ClaimOK
<1>6. Replayed(c.man) = RecordsOf(c.man) /\ RecordsOf(c.man) \subseteq Record
  BY <1>5, ReplayedWhat, PublishedType, ManifestRecords
<1>7. \A r \in RecordsOf(s.man) : r.lsn < s.next_lsn
  BY <1>3, <1>6, FirstLsnAbove
<1>8. SessOrdered(s)
  BY <1>3, <1>7 DEF SessOrdered
<1> QED BY <1>4, <1>8

\* A staged record gets the next LSN.
LEMMA StageOrders ==
  ASSUME SafeInv, Ordered, NEW w \in Writers, NEW b \in Batches, Stage(w, b)
  PROVE  SessOrdered(sess'[w]) /\ Alone(w)
<1>s. PICK s : s = sess[w]
  OBVIOUS
<1> DEFINE r == [b |-> b, lsn |-> s.next_lsn]
           n == [s EXCEPT !.pending = Append(@, r), !.next_lsn = @ + 1]
<1>1. /\ pc[w] = "open" /\ s.next_lsn <= MaxLsn
      /\ sess' = [sess EXCEPT ![w] = n] /\ UNCHANGED <<pc, claim, txn>>
  BY <1>s DEF Stage
<1>2. s \in Session /\ s # None /\ s.pending \in Seq(Record) /\ s.man \in Manifest
  BY <1>s, <1>1, SessionWhat
<1>3. s.next_lsn \in 1..(MaxLsn + 1) /\ s.next_lsn \in Nat
  <2>1. s.next_lsn \in 1..(MaxLsn + 1)
    BY <1>2 DEF Session
  <2> QED BY <2>1, BoundsAssumption
<1>4. r \in Record /\ r.lsn = s.next_lsn
  <2>1. s.next_lsn \in 1..MaxLsn
    BY <1>1, <1>3, BoundsAssumption
  <2> QED BY <2>1 DEF Record
<1>5. n.man = s.man /\ n.pending = Append(s.pending, r) /\ n.next_lsn = s.next_lsn + 1
  BY <1>2 DEF Session
<1>6. sess'[w] = n /\ Alone(w)
  BY <1>1 DEF SafeInv, TypeOK, Alone
<1> HIDE DEF n, r
<1>7. PICK last : last = Len(s.pending) + 1
  OBVIOUS
<1>8. /\ DOMAIN n.pending = (DOMAIN s.pending) \cup {last}
      /\ \A i \in DOMAIN s.pending : n.pending[i] = s.pending[i]
      /\ n.pending[last] = r
  BY <1>2, <1>4, <1>5, <1>7, Appended
<1>9. \A i \in DOMAIN s.pending : i < last /\ i \in Nat /\ last \in Nat
  BY <1>2, <1>7, LenProperties
<1>10. /\ \A i \in DOMAIN s.pending : s.pending[i].lsn \in Nat
       /\ \A q \in RecordsOf(s.man) : q.lsn \in Nat
  BY <1>2, RecordLsn, ManifestRecords
<1>11. SessOrdered(s)
  BY <1>s DEF Ordered
<1>12. \A q \in RecordsOf(n.man) : q.lsn < n.next_lsn
  BY <1>2, <1>3, <1>5, <1>10, <1>11 DEF SessOrdered
<1>13. \A q \in RecordsOf(n.man) : \A j \in DOMAIN n.pending : q.lsn < n.pending[j].lsn
  BY <1>2, <1>4, <1>5, <1>8, <1>11 DEF SessOrdered
<1>14. \A j \in DOMAIN n.pending : n.pending[j].lsn < n.next_lsn
  BY <1>2, <1>3, <1>4, <1>5, <1>8, <1>10, <1>11 DEF SessOrdered
<1>15. \A j, k \in DOMAIN n.pending : j < k => n.pending[j].lsn < n.pending[k].lsn
  <2> SUFFICES ASSUME NEW j \in DOMAIN n.pending, NEW k \in DOMAIN n.pending, j < k
               PROVE  n.pending[j].lsn < n.pending[k].lsn
    OBVIOUS
  <2>1. last \in Nat /\ ~(last < last)
    BY <1>2, <1>7, LenProperties
  <2>2. j \in DOMAIN s.pending
    BY <1>8, <1>9, <2>1
  <2>3. CASE k \in DOMAIN s.pending
    BY <1>2, <1>8, <1>11, <2>2, <2>3 DEF SessOrdered
  <2>4. CASE k = last
    BY <1>2, <1>4, <1>8, <1>11, <2>2, <2>4 DEF SessOrdered
  <2> QED BY <1>8, <2>3, <2>4
<1>16. SessOrdered(n)
  BY <1>12, <1>13, <1>14, <1>15 DEF SessOrdered
<1> QED BY <1>6, <1>16

\* A rollback drops the records staged last.
LEMMA RollbackOrders ==
  ASSUME SafeInv, Ordered, NEW w \in Writers, Rollback(w)
  PROVE  SessOrdered(sess'[w]) /\ Alone(w)
<1>s. PICK s : s = sess[w]
  OBVIOUS
<1>1. pc[w] = "open" /\ UNCHANGED <<pc, claim, txn>>
  BY DEF Rollback
<1>2. s \in Session /\ s # None /\ s.pending \in Seq(Record)
  BY <1>s, <1>1, SessionWhat
<1>3. PICK mark \in 0..(Len(s.pending) - 1) :
        sess' = [sess EXCEPT ![w].pending = SubSeq(s.pending, 1, mark)]
  BY <1>s DEF Rollback
<1> DEFINE p == SubSeq(s.pending, 1, mark)
           n == [s EXCEPT !.pending = p]
<1>4. DOMAIN p \subseteq DOMAIN s.pending /\ \A i \in DOMAIN p : p[i] = s.pending[i]
  <2>1. mark \in Nat /\ mark <= Len(s.pending) /\ Len(s.pending) \in Nat
    BY <1>2, LenProperties
  <2> QED BY <1>2, <2>1
<1> HIDE DEF p
<1>5. n.man = s.man /\ n.next_lsn = s.next_lsn /\ n.pending = p
  BY <1>2 DEF Session
<1>6. sess'[w] = n /\ Alone(w)
  BY <1>s, <1>1, <1>3 DEF SafeInv, TypeOK, Alone, p
<1> HIDE DEF n
<1>7. SessOrdered(s)
  BY <1>s DEF Ordered
<1>8. SessOrdered(n)
  BY <1>2, <1>4, <1>5, <1>7 DEF SessOrdered
<1> QED BY <1>6, <1>8

\* A failed commit keeps what is staged.
LEMMA FailOrders ==
  ASSUME SafeInv, Ordered, NEW w \in Writers, pc[w] \in CommitPcs,
         NEW t \in BOOLEAN, FailCommit(w, t), UNCHANGED claim
  PROVE  SessOrdered(sess'[w]) /\ Alone(w)
<1>1. PICK s, p : s = sess[w] /\ p = (sess[w].poisoned \/ t \/ txn[w].retry)
  OBVIOUS
<1> DEFINE n == [s EXCEPT !.poisoned = p]
<1>2. s \in Session /\ s # None
  BY <1>1, CommitWhat
<1>3. n.man = s.man /\ n.next_lsn = s.next_lsn /\ n.pending = s.pending
  BY <1>2 DEF Session
<1>4. sess'[w] = n /\ Alone(w)
  BY <1>1 DEF FailCommit, Goto, SafeInv, TypeOK, Alone
<1> HIDE DEF n
<1>5. SessOrdered(s)
  BY <1>1 DEF Ordered
<1>6. SessOrdered(n)
  BY <1>2, <1>3, <1>5 DEF SessOrdered
<1> QED BY <1>4, <1>6

\* A commit moves what was staged into the base.
LEMMA SealOrders ==
  ASSUME SafeInv, Ordered, NEW w \in Writers, pc[w] \in CommitPcs, NEW man, SealCommit(w, man),
         UNCHANGED claim, NEW e \in Descriptor, e.recs = sess[w].pending,
         man.wal = Append(sess[w].man.wal, e)
  PROVE  SessOrdered(sess'[w]) /\ Alone(w)
<1>1. PICK s, mem, q : /\ s = sess[w] /\ q = txn[w].seq + 1
                       /\ mem = s.memtable \cup {s.pending[i] : i \in DOMAIN s.pending}
  OBVIOUS
<1> DEFINE n == [s EXCEPT !.ver = @ + 1, !.man = man, !.seq = q, !.pending = <<>>,
                          !.memtable = mem]
<1>2. s \in Session /\ s # None /\ s.man \in Manifest
  BY <1>1, CommitWhat
<1>3. n.man = man /\ n.next_lsn = s.next_lsn /\ n.pending = <<>>
  BY <1>2 DEF Session
<1>4. sess'[w] = n /\ Alone(w)
  BY <1>1 DEF SealCommit, Goto, SafeInv, TypeOK, Alone
<1> HIDE DEF n
<1>5. man.wal = Append(s.man.wal, e) /\ e.recs = s.pending
  BY <1>1
<1>6. RecordsOf(man) = RecordsOf(s.man) \cup {e.recs[j] : j \in DOMAIN e.recs}
  BY <1>2, <1>5, AppendedContents, ZenonT(60)
<1>7. SessOrdered(s)
  BY <1>1 DEF Ordered
<1>8. \A r \in RecordsOf(man) : r.lsn < s.next_lsn
  BY <1>2, <1>5, <1>6, <1>7 DEF SessOrdered
<1>9. DOMAIN n.pending = {}
  BY <1>3
<1>10. SessOrdered(n)
  BY <1>3, <1>8, <1>9 DEF SessOrdered
<1> QED BY <1>4, <1>10

\* The pointer PUT seals the commit, or leaves the session alone.
LEMMA CasPointerOrders ==
  ASSUME SafeInv, Ordered, NEW w \in Writers, CasPointer(w)
  PROVE  sess' = sess \/ (SessOrdered(sess'[w]) /\ Alone(w))
<1>1. pc[w] = "ptr" /\ pc[w] \in CommitPcs /\ claim' = claim
  BY DEF CasPointer, CommitPcs
<1>2. PICK s, m, e : /\ s = sess[w] /\ m = txn[w].next
                     /\ e = [seq |-> txn[w].seq, recs |-> sess[w].pending]
  OBVIOUS
<1>3. e \in Descriptor /\ m.wal = Append(s.man.wal, e)
  BY <1>1, <1>2, NextFits
<1>4. e.recs = s.pending
  BY <1>2
<1>5. sess' = sess \/ SealCommit(w, m)
  BY <1>2 DEF CasPointer
<1> QED BY <1>1, <1>2, <1>3, <1>4, <1>5, SealOrders

\* So does the resolver, whose manifest is this very commit's.
LEMMA ResolveOrders ==
  ASSUME SafeInv, Ordered, NEW w \in Writers, ResolveCas(w)
  PROVE  sess' = sess \/ (SessOrdered(sess'[w]) /\ Alone(w))
<1>1. pc[w] = "resolve" /\ pc[w] \in CommitPcs /\ claim' = claim
  BY DEF ResolveCas, CommitPcs
<1>2. \/ sess' = sess \/ FailCommit(w, TRUE) \/ FailCommit(w, FALSE)
      \/ /\ SealCommit(w, Current) /\ Loadable /\ ProvablyOurs(sess[w], txn[w])
         /\ ~(Current.epoch > sess[w].epoch)
  BY DEF ResolveCas
<1>3. CASE SealCommit(w, Current) /\ Loadable /\ ProvablyOurs(sess[w], txn[w])
           /\ ~(Current.epoch > sess[w].epoch)
  <2>1. PICK s, m, e : /\ s = sess[w] /\ m = Current
                       /\ e = [seq |-> txn[w].seq, recs |-> sess[w].pending]
    OBVIOUS
  <2>2. Current.epoch <= sess[w].epoch
    <3>1. Current.epoch \in Nat /\ sess[w].epoch \in Nat
      BY <1>1, <1>3, CurrentType, SessionWhat, PublishedType DEF SafeInv, Current
    <3> QED BY <1>3, <3>1
  <2>3. e \in Descriptor /\ m.wal = Append(s.man.wal, e)
    BY <1>1, <1>3, <2>1, <2>2, OursIsOurs
  <2>4. e.recs = s.pending
    BY <2>1
  <2> QED BY <1>1, <1>3, <2>1, <2>3, <2>4, SealOrders
<1> QED BY <1>1, <1>2, <1>3, FailOrders

\* Every session a step changes stays in order.
LEMMA SessionsStep ==
  ASSUME SafeInv, Ordered, [Next]_vars
  PROVE  \A x \in Writers : SessOrdered(sess[x])'
<1>0. ASSUME sess' = sess \/ \E w \in Writers : SessOrdered(sess'[w]) /\ Alone(w)
      PROVE  \A x \in Writers : SessOrdered(sess[x])'
  <2> SUFFICES ASSUME NEW x \in Writers PROVE SessOrdered(sess[x])'
    OBVIOUS
  <2>1. PICK s : s = sess'[x]
    OBVIOUS
  <2>2. SessOrdered(s)
    BY <1>0, <2>1 DEF Ordered, Alone
  <2> QED BY <2>1, <2>2 DEF SessOrdered
<1>1. CASE LatePut \/ UNCHANGED vars
  BY <1>0, <1>1 DEF LatePut, vars
<1>2. ASSUME NEW w \in Writers, OpenStep(w)
      PROVE  sess' = sess \/ (SessOrdered(sess'[w]) /\ Alone(w))
  <2>1. CASE Recover(w)
    BY <2>1, RecoverOrders
  <2>2. CASE ~Recover(w)
    BY <1>2, <2>2 DEF OpenStep, LoadForOpen, BootBody, BootPtr, ClaimLoad, ClaimBody, ClaimPtr,
         ClaimLost, RepairHead, RepairGet, RepairWal, RepairFence, RepairPub, RepairDel
  <2> QED BY <2>1, <2>2
<1>3. ASSUME NEW w \in Writers, CommitStep(w)
      PROVE  sess' = sess \/ (SessOrdered(sess'[w]) /\ Alone(w))
  <2>1. CASE PutWal(w) \/ PutBody(w) \/ BodyExists(w) \/ Reseq(w)
    BY <2>1 DEF PutWal, PutBody, BodyExists, Reseq
  <2>2. CASE JoinPuts(w) \/ CancelRetry(w) \/ PointerExists(w)
    <3>1. pc[w] \in CommitPcs /\ claim' = claim /\ (sess' = sess \/ FailCommit(w, FALSE))
      BY <2>2 DEF JoinPuts, CancelRetry, PointerExists, CommitPcs
    <3> QED BY <3>1, FailOrders
  <2>3. CASE DeleteOrphanBody(w) \/ DeleteOrphanWal(w)
    <3>1. /\ pc[w] \in CommitPcs /\ claim' = claim
          /\ sess' = sess \/ FailCommit(w, FALSE) \/ FailCommit(w, TRUE)
      BY <2>3 DEF DeleteOrphanBody, DeleteOrphanWal, CommitPcs
    <3> QED BY <3>1, FailOrders
  <2> QED BY <1>3, <2>1, <2>2, <2>3, CasPointerOrders, ResolveOrders DEF CommitStep
<1>4. ASSUME NEW w \in Writers, Open(w) \/ Reopen(w) \/ OpenFault(w) \/ StartCommit(w)
      PROVE  sess' = sess
  BY <1>4 DEF Open, Reopen, StartOpen, OpenFault, StartCommit
<1>5. ASSUME NEW w \in Writers, Crash(w) PROVE SessOrdered(sess'[w]) /\ Alone(w)
  BY <1>5 DEF Crash, Goto, SafeInv, TypeOK, Alone, SessOrdered
<1> QED BY <1>0, <1>1, <1>2, <1>3, <1>4, <1>5, RollbackOrders, StageOrders DEF Next

\* The order of LSNs is kept by every step.
LEMMA OrderStep ==
  ASSUME SafeInv, Ordered, [Next]_vars
  PROVE  Ordered'
BY BodiesStep, SessionsStep, NackStep DEF Ordered

\* An empty store is in order.
LEMMA OrderInit ==
  ASSUME Init
  PROVE  Ordered
BY DEF Init, Ordered, BodiesOrdered, NackInv, SessOrdered, CommitPcs

\* What a step may do to the family and to what is acknowledged: one version
\* is published, and a commit is acknowledged with the version that holds it.
Publishes ==
  /\ acked \subseteq acked'
  /\ \/ ptr' = ptr
     \/ \E v \in Versions \ ptr :
          /\ ptr' = ptr \cup {v}
          /\ acked' = acked \/ (v - 1 \in ptr /\ body'[v].epoch = body[v - 1].epoch)

\* A step that publishes at most one version and acknowledges nothing.
LEMMA PublishesOne ==
  ASSUME SafeInv, NEW v \in Versions, ptr' = ptr \/ ptr' = ptr \cup {v}, acked' = acked
  PROVE  Publishes
<1>1. CASE v \in ptr
  <2>1. ptr' = ptr
    BY <1>1
  <2> QED BY <2>1 DEF Publishes
<1>2. CASE v \notin ptr
  BY <1>2 DEF Publishes
<1> QED BY <1>1, <1>2

\* The pointer PUT of a commit publishes the version after its base.
LEMMA CasPublishes ==
  ASSUME SafeInv, NEW w \in Writers, CasPointer(w)
  PROVE  Publishes
<1>1. pc[w] = "ptr" /\ pc[w] \in CommitPcs /\ body' = body
  BY DEF CasPointer, CommitPcs
<1>2. PICK s, t, v : s = sess[w] /\ t = txn[w] /\ v = s.ver + 1
  OBVIOUS
<1>3. /\ s.ver \in Nat /\ v \in Versions /\ next_version(s.ver) = v /\ CommitOK("ptr", s, t)
      /\ s.ver \in ptr /\ body[s.ver] = s.man /\ s.epoch = s.man.epoch
  BY <1>1, <1>2, CommitWhat, SessionWhat DEF next_version
<1>4. t.next.epoch = s.epoch
  BY <1>1, <1>2, NextFits
<1>5. CASE v \in ptr
  <2>1. UNCHANGED <<ptr, acked>>
    BY <1>2, <1>3, <1>5 DEF CasPointer, history
  <2> QED BY <2>1 DEF Publishes
<1>6. CASE v \notin ptr
  <2>1. PICK out \in Outcomes(PtrFaults) :
          /\ ptr' = IF Lands(out) THEN ptr \cup {v} ELSE ptr
          /\ IF out = "ok" THEN SealCommit(w, t.next)
             ELSE Goto(w, "resolve") /\ UNCHANGED <<sess, txn, history>>
    BY <1>2, <1>3, <1>6 DEF CasPointer
  <2>2. CASE out = "ok"
    <3>1. acked \subseteq acked' /\ ptr' = ptr \cup {v}
      BY <2>1, <2>2 DEF SealCommit, Lands
    <3>2. body[v] = t.next
      BY <1>1, <1>2, <1>3, CommitWhat DEF CommitOK
    <3>3. v - 1 = s.ver
      BY <1>2, <1>3
    <3>4. v - 1 \in ptr /\ body'[v].epoch = body[v - 1].epoch
      BY <1>1, <1>3, <1>4, <3>2, <3>3
    <3> QED BY <1>3, <1>6, <3>1, <3>4 DEF Publishes
  <2>3. CASE out # "ok"
    <3>1. acked' = acked
      BY <2>1, <2>3 DEF history
    <3> QED BY <1>3, <2>1, <3>1, PublishesOne
  <2> QED BY <2>2, <2>3
<1> QED BY <1>5, <1>6

\* Every step publishes at most one version.
LEMMA PublishesStep ==
  ASSUME SafeInv, [Next]_vars
  PROVE  Publishes
<1>0. 0 \in Versions
  BY BoundsAssumption DEF Versions
<1>1. CASE LatePut
  <2>1. PICK req \in late : ptr' = IF req.obj = "ptr" THEN ptr \cup {req.at} ELSE ptr
    BY <1>1 DEF LatePut
  <2>2. req.obj = "ptr" => req.at \in Versions
    BY DEF SafeInv, TypeOK, Request
  <2>3. acked' = acked
    BY <1>1 DEF LatePut, history
  <2> QED BY <1>0, <2>1, <2>2, <2>3, PublishesOne
<1>2. CASE UNCHANGED vars
  BY <1>2 DEF vars, store, history, Publishes
<1>3. ASSUME NEW w \in Writers, OpenStep(w) PROVE Publishes
  <2>1. acked' = acked
    BY <1>3 DEF OpenStep, LoadForOpen, BootBody, BootPtr, ClaimLoad, ClaimBody, ClaimPtr, ClaimLost,
         RepairHead, RepairGet, RepairWal, RepairFence, RepairPub, RepairDel, Recover, history
  <2>2. CASE ClaimPtr(w) \/ RepairPub(w)
    <3>1. pc[w] \in ClaimPcs /\ pc[w] \in Ahead
      BY <2>2 DEF ClaimPtr, RepairPub, ClaimPcs, Ahead, RepairPcs
    <3>2. claim[w].ver + 1 \in Versions
      BY <3>1, ClaimWhat
    <3>3. ptr' = ptr \/ ptr' = ptr \cup {claim[w].ver + 1}
      BY <2>2 DEF ClaimPtr, RepairPub, next_version
    <3> QED BY <2>1, <3>2, <3>3, PublishesOne
  <2>3. CASE BootPtr(w)
    BY <1>0, <2>1, <2>3, PublishesOne DEF BootPtr
  <2>4. CASE LoadForOpen(w) \/ BootBody(w) \/ ClaimLoad(w) \/ ClaimBody(w) \/ ClaimLost(w)
             \/ RepairHead(w) \/ RepairGet(w) \/ RepairWal(w) \/ RepairFence(w) \/ RepairDel(w)
             \/ Recover(w)
    <3>1. ptr' = ptr
      BY <2>4 DEF LoadForOpen, BootBody, ClaimLoad, ClaimBody, ClaimLost, RepairHead, RepairGet,
           RepairWal, RepairFence, RepairDel, Recover, store
    <3> QED BY <2>1, <3>1 DEF Publishes
  <2> QED BY <1>3, <2>2, <2>3, <2>4 DEF OpenStep
<1>4. ASSUME NEW w \in Writers, CommitStep(w) PROVE Publishes
  <2>1. CASE PutWal(w) \/ PutBody(w) \/ BodyExists(w) \/ JoinPuts(w) \/ Reseq(w) \/ CancelRetry(w)
             \/ PointerExists(w)
    <3>1. UNCHANGED <<ptr, acked>>
      BY <2>1 DEF PutWal, PutBody, BodyExists, JoinPuts, Reseq, CancelRetry, PointerExists,
           store, history
    <3> QED BY <3>1 DEF Publishes
  <2>2. CASE ResolveCas(w)
    <3>1. ptr' = ptr /\ acked \subseteq acked'
      BY <2>2 DEF ResolveCas, SealCommit, store, history
    <3> QED BY <3>1 DEF Publishes
  <2>3. CASE DeleteOrphanBody(w) \/ DeleteOrphanWal(w)
    <3>1. UNCHANGED <<ptr, acked>>
      BY <2>3 DEF DeleteOrphanBody, DeleteOrphanWal, history
    <3> QED BY <3>1 DEF Publishes
  <2> QED BY <1>4, <2>1, <2>2, <2>3, CasPublishes DEF CommitStep
<1>5. ASSUME NEW w \in Writers,
             \/ Open(w) \/ Reopen(w) \/ OpenFault(w) \/ Rollback(w) \/ StartCommit(w) \/ Crash(w)
             \/ \E b \in Batches : Stage(w, b)
      PROVE  Publishes
  <2>1. UNCHANGED <<ptr, acked>>
    BY <1>5 DEF Open, Reopen, StartOpen, OpenFault, Rollback, StartCommit, Crash, Stage, store,
         history
  <2> QED BY <2>1 DEF Publishes
<1> QED BY <1>1, <1>2, <1>3, <1>4, <1>5 DEF Next

\* What is rejected changes when nothing is published or acknowledged.
LEMMA RejectStep ==
  ASSUME [Next]_vars
  PROVE  nacked' = nacked \/ (ptr' = ptr /\ acked' = acked)
BY NackedMoves DEF StartCommit, DeleteOrphanWal, store

\* The commits of a manifest.
Segs(m) == [i \in DOMAIN m.wal |-> m.wal[i].recs]

\* The batches of a manifest are those of its commits.
LEMMA SegsHold ==
  ASSUME NEW m
  PROVE  Abstract!BatchesIn(Segs(m)) = Contents(m)
<1>1. DOMAIN Segs(m) = DOMAIN m.wal /\ \A i \in DOMAIN m.wal : Segs(m)[i] = m.wal[i].recs
  BY DEF Segs
<1>2. \A b : b \in Abstract!BatchesIn(Segs(m)) <=>
             \E i \in DOMAIN Segs(m) : b \in {Segs(m)[i][j].b : j \in DOMAIN Segs(m)[i]}
  BY DEF Abstract!BatchesIn
<1>3. \A b : b \in Contents(m) <=> \E i \in DOMAIN m.wal : b \in BatchesOf(m.wal[i].recs)
  BY DEF Contents
<1>4. \A b : b \in Abstract!BatchesIn(Segs(m)) <=> b \in Contents(m)
  BY <1>1, <1>2, <1>3 DEF BatchesOf
<1> QED BY <1>4

\* The batches of the abstract log are those of the current manifest.
LEMMA LogHolds == Abstract!BatchesIn(Log) = LogBatches
<1>1. CASE Loadable
  <2>1. Log = Segs(Current)
    BY <1>1 DEF Log, Segs
  <2> QED BY <1>1, <2>1, SegsHold DEF LogBatches
<1>2. CASE ~Loadable
  BY <1>2 DEF Log, LogBatches, Abstract!BatchesIn
<1> QED BY <1>1, <1>2

\* The version the pointer resolves to.
Headed ==
  /\ ptr = {} => ~Loadable
  /\ ptr # {} => Loadable /\ Top \in ptr /\ \A u \in ptr : u <= Top

\* In a safe state the last pointer resolves.
LEMMA HeadHolds ==
  ASSUME SafeInv
  PROVE  Headed
<1>1. ptr \subseteq 0..MaxVersion /\ MaxVersion \in Nat
  BY BoundsAssumption DEF SafeInv, TypeOK, Versions
<1>2. CASE ptr # {}
  <2>1. Top \in ptr /\ \A u \in ptr : u <= Top
    BY <1>1, <1>2, BoundedMax DEF Top
  <2> QED BY <1>2, <2>1 DEF Headed, Loadable, SafeInv, Safe, Bodies
<1> QED BY <1>2 DEF Headed, Loadable

\* A step that leaves the log and the epoch alone at most acknowledges what is
\* in the log.
LEMMA AckSimulates ==
  ASSUME SafeInv', Log' = Log,
         (IF Loadable THEN Current.epoch ELSE 0)' = (IF Loadable THEN Current.epoch ELSE 0),
         acked \subseteq acked', nacked' = nacked
  PROVE  Abstract!Ack
<1>1. AckedDurable'
  BY AckedHolds, PTL
<1>2. (Abstract!BatchesIn(Log) = LogBatches)'
  BY LogHolds, PTL
<1>3. acked' \subseteq Abstract!BatchesIn(Log)
  BY <1>1, <1>2 DEF AckedDurable, Abstract!BatchesIn
<1> QED BY <1>3 DEF Abstract!Ack

\* A manifest in order, with no batch twice, is a log in order.
LEMMA SegsInOrder ==
  ASSUME NEW m \in Manifest, Ascending(m), OnceEach(m)
  PROVE  Abstract!InOrder(Segs(m))
<1>1. DOMAIN Segs(m) = DOMAIN m.wal /\ \A i \in DOMAIN m.wal : Segs(m)[i] = m.wal[i].recs
  BY DEF Segs
<1>2. m.wal \in Seq(Descriptor)
  BY DEF Manifest
<1>3. \A i \in DOMAIN m.wal : i \in Nat /\ m.wal[i] \in Descriptor
  BY <1>2, LenProperties
<1>4. \A i \in DOMAIN m.wal : m.wal[i].recs \in Seq(Record)
  BY <1>3 DEF Descriptor
<1>5. \A i \in DOMAIN m.wal : \A j \in DOMAIN m.wal[i].recs : j \in Nat
  BY <1>4, LenProperties
<1> SUFFICES ASSUME NEW i \in DOMAIN m.wal, NEW k \in DOMAIN m.wal,
                    NEW j \in DOMAIN m.wal[i].recs, NEW n \in DOMAIN m.wal[k].recs,
                    i < k \/ (i = k /\ j < n)
             PROVE  /\ m.wal[i].recs[j].lsn < m.wal[k].recs[n].lsn
                    /\ m.wal[i].recs[j].b # m.wal[k].recs[n].b
  BY <1>1 DEF Abstract!InOrder
<1>6. m.wal[i].recs[j].lsn < m.wal[k].recs[n].lsn
  BY DEF Ascending
<1>7. i \in Nat /\ k \in Nat /\ j \in Nat /\ n \in Nat
  BY <1>3, <1>5
<1>8. ~(i = k /\ j = n)
  BY <1>7
<1>9. m.wal[i].recs[j].b # m.wal[k].recs[n].b
  BY <1>8 DEF OnceEach
<1> QED BY <1>6, <1>9

\* One more segment is one more commit at the end.
LEMMA SegsAppended ==
  ASSUME NEW base \in Manifest, NEW m \in Manifest, NEW d \in Descriptor,
         m.wal = Append(base.wal, d)
  PROVE  Segs(m) # <<>> /\ Abstract!Front(Segs(m)) = Segs(base) /\ Abstract!Last(Segs(m)) = d.recs
<1>1. base.wal \in Seq(Descriptor) /\ m.wal \in Seq(Descriptor)
  BY DEF Manifest
<1>2. PICK len \in Nat : len = Len(base.wal)
  BY <1>1, LenProperties
<1>3. /\ DOMAIN base.wal = 1..len /\ Len(m.wal) = len + 1 /\ DOMAIN m.wal = 1..(len + 1)
      /\ \A i \in 1..len : m.wal[i] = base.wal[i]
      /\ m.wal[len + 1] = d
  BY <1>1, <1>2, Appended, LenProperties
<1>4. /\ Segs(m) = [i \in 1..(len + 1) |-> m.wal[i].recs]
      /\ Segs(base) = [i \in 1..len |-> base.wal[i].recs]
  BY <1>3 DEF Segs
<1>5. \A i \in 1..(len + 1) : m.wal[i].recs \in Seq(Record)
  <2>1. \A i \in 1..(len + 1) : m.wal[i] \in Descriptor
    BY <1>1, <1>3
  <2> QED BY <2>1 DEF Descriptor
<1>6. Segs(m) \in Seq(Seq(Record)) /\ Len(Segs(m)) = len + 1
  <2>1. PICK R : R = Seq(Record)
    OBVIOUS
  <2>2. Segs(m) \in [1..(len + 1) -> R] /\ len + 1 \in Nat
    BY <1>2, <1>4, <1>5, <2>1
  <2>3. Segs(m) \in Seq(R)
    BY <2>2, SeqDef
  <2> QED BY <2>1, <2>2, <2>3, LenProperties
<1>7. Segs(m) # <<>>
  BY <1>2, <1>6
<1>8. Abstract!Last(Segs(m)) = d.recs
  <2>1. len + 1 \in 1..(len + 1)
    BY <1>2
  <2> QED BY <1>3, <1>4, <1>6, <2>1 DEF Abstract!Last
<1>9. Abstract!Front(Segs(m)) = Segs(base)
  <2>1. Len(Segs(m)) - 1 = len
    BY <1>2, <1>6
  <2>2. SubSeq(Segs(m), 1, len) = [i \in 1..len |-> Segs(m)[i]]
    BY <1>2, <1>6
  <2>3. \A i \in 1..len : Segs(m)[i] = base.wal[i].recs
    BY <1>2, <1>3, <1>4
  <2> QED BY <1>4, <2>1, <2>2, <2>3 DEF Abstract!Front
<1> QED BY <1>7, <1>8, <1>9

\* Every published version but the first has its base.
Founded == \A v \in ptr : v # 0 => Fits(v, body[v]) /\ body[v] \in Manifest

\* In a safe state every published version is founded.
LEMMA FoundedHolds ==
  ASSUME SafeInv
  PROVE  Founded
BY PublishedType DEF Founded, SafeInv, Safe, Bodies

\* Every step is a step of the abstract log.
LEMMA Simulates ==
  ASSUME SafeInv, SafeInv', Ordered, Ordered', Kept, Publishes,
         nacked' = nacked \/ (ptr' = ptr /\ acked' = acked)
  PROVE  [Abstract!Next]_(Abstract!vars)
<1>1. Headed /\ Headed'
  BY HeadHolds, PTL
<1>n. NackStaysTrue' /\ (Abstract!BatchesIn(Log) = LogBatches)'
  BY NackHolds, LogHolds, PTL DEF Ordered
<1>r. nacked' \cap Abstract!BatchesIn(Log') = {}
  BY <1>n DEF NackStaysTrue, Abstract!BatchesIn
<1>2. acked \subseteq acked'
  BY DEF Publishes
<1>3. CASE ptr' = ptr
  <2>1. (Loadable <=> Loadable') /\ Top' = Top
    BY <1>1, <1>3 DEF Headed, Top
  <2>2. Loadable => Current' = Current
    BY <1>1, <2>1 DEF Headed, Current, Kept, Loadable
  <2>3. Log' = Log
    BY <2>1, <2>2 DEF Log
  <2>4. (IF Loadable THEN Current.epoch ELSE 0)' = (IF Loadable THEN Current.epoch ELSE 0)
    BY <2>1, <2>2
  <2>5. CASE nacked' = nacked
    BY <1>2, <2>3, <2>4, <2>5, AckSimulates DEF Abstract!Next
  <2>6. CASE nacked' # nacked
    <3>1. acked' = acked
      BY <2>6
    <3>2. Abstract!Reject
      BY <1>r, <2>3, <2>4, <3>1 DEF Abstract!Reject
    <3> QED BY <3>2 DEF Abstract!Next
  <2> QED BY <2>5, <2>6
<1>4. ASSUME NEW v \in Versions \ ptr, ptr' = ptr \cup {v},
             acked' = acked \/ (v - 1 \in ptr /\ body'[v].epoch = body[v - 1].epoch)
      PROVE  [Abstract!Next]_(Abstract!vars)
  <2>n. nacked' = nacked
    BY <1>4
  <2>1. v \in Nat /\ v \notin ptr /\ \A u \in ptr : u < v /\ u \in Nat
    <3>1. v \in Nat
      BY BoundsAssumption DEF Versions
    <3> QED BY <3>1, NextIsLast, PublishedType
  <2>2. Loadable' /\ Top' = v /\ Current' = body'[v]
    <3>1. v \in ptr' /\ ptr' # {}
      BY <1>4
    <3>2. Loadable' /\ Top' \in ptr' /\ v <= Top'
      BY <1>1, <3>1 DEF Headed
    <3>3. Top' = v
      BY <1>4, <2>1, <3>2
    <3> QED BY <3>2, <3>3 DEF Current
  <2>3. CASE v = 0
    <3>1. ptr = {}
      BY <2>1, <2>3
    <3>2. ~Loadable
      BY <1>1, <3>1 DEF Headed
    <3>3. body'[0].epoch = 0 /\ body'[0].wal = <<>>
      BY <2>2, <2>3 DEF SafeInv, Safe, Bodies, Loadable, Current
    <3>4. Log' = <<>> /\ Log = <<>>
      <4>1. Log' = Segs(body'[0])
        BY <2>2, <2>3 DEF Log, Segs
      <4>2. Segs(body'[0]) = [i \in DOMAIN <<>> |-> body'[0].wal[i].recs]
        BY <3>3 DEF Segs
      <4> QED BY <3>2, <4>1, <4>2 DEF Log
    <3>5. (IF Loadable THEN Current.epoch ELSE 0)' = (IF Loadable THEN Current.epoch ELSE 0)
      BY <2>2, <2>3, <3>2, <3>3
    <3> QED BY <1>2, <2>n, <3>4, <3>5, AckSimulates DEF Abstract!Next
  <2>4. CASE v # 0
    <3>1. PICK m, base : m = body'[v] /\ base = body[v - 1]
      OBVIOUS
    <3>2. /\ v - 1 \in ptr' /\ m \in Manifest /\ OnceEach(m)
          /\ ClaimOf(m, body'[v - 1]) \/ CommitOf(m, body'[v - 1])
      <4>1. Founded'
        BY FoundedHolds, PTL
      <4>2. Fits(v, body[v])' /\ body'[v] \in Manifest
        BY <1>4, <2>4, <4>1 DEF Founded
      <4> QED BY <3>1, <4>2 DEF Fits
    <3>3. v - 1 \in ptr /\ base \in Manifest /\ body'[v - 1] = base
      <4>1. v - 1 \in ptr
        BY <1>4, <2>1, <3>2
      <4> QED BY <3>1, <4>1, PublishedType DEF Kept
    <3>4. Loadable /\ Top = v - 1 /\ Current = base
      <4>1. Loadable /\ Top \in ptr /\ v - 1 <= Top
        BY <1>1, <3>3 DEF Headed
      <4>2. Top = v - 1
        BY <2>1, <4>1
      <4> QED BY <3>1, <4>1, <4>2 DEF Current
    <3>5. Log = Segs(base) /\ Log' = Segs(m)
      BY <2>2, <3>1, <3>4 DEF Log, Segs
    <3>6. /\ (IF Loadable THEN Current.epoch ELSE 0)' = m.epoch
          /\ (IF Loadable THEN Current.epoch ELSE 0) = base.epoch
      BY <2>2, <3>1, <3>4
    <3>7. CASE ClaimOf(m, base)
      <4>1. m.epoch = base.epoch + 1 /\ m.wal = base.wal /\ base.epoch \in Nat
        BY <3>3, <3>7 DEF ClaimOf, Manifest
      <4>2. Log' = Log
        BY <3>5, <4>1 DEF Segs
      <4>3. acked' = acked
        BY <1>4, <3>1, <4>1
      <4>4. Abstract!Claim
        BY <2>n, <3>6, <4>1, <4>2, <4>3 DEF Abstract!Claim
      <4> QED BY <4>4 DEF Abstract!Next
    <3>8. CASE CommitOf(m, base)
      <4>1. PICK d \in Descriptor : m.wal = Append(base.wal, d) /\ d.recs # <<>>
        BY <3>2, <3>3, <3>8, CommitWal
      <4>2. Log' # <<>> /\ Abstract!Front(Log') = Log /\ Abstract!Last(Log') # <<>>
        BY <3>2, <3>3, <3>5, <4>1, SegsAppended
      <4>3. Ascending(m)
        <5>1. BodiesOrdered' /\ v \in Versions /\ body'[v] # None
          BY <2>2 DEF Ordered, Loadable
        <5>2. Ascending(body[v])'
          BY <5>1 DEF BodiesOrdered
        <5> QED BY <3>1, <5>2 DEF Ascending
      <4>4. Abstract!InOrder(Log')
        BY <3>2, <3>5, <4>3, SegsInOrder
      <4>5. acked' \subseteq Abstract!BatchesIn(Log')
        <5>1. AckedDurable'
          BY AckedHolds, PTL
        <5>2. (Abstract!BatchesIn(Log) = LogBatches)'
          BY LogHolds, PTL
        <5> QED BY <5>1, <5>2 DEF AckedDurable, Abstract!BatchesIn
      <4>6. m.epoch = base.epoch
        BY <3>8 DEF CommitOf
      <4>7. nacked \cap Abstract!BatchesIn(Log') = {}
        BY <1>r, <2>n
      <4>8. Abstract!Commit
        BY <1>2, <2>n, <3>6, <4>2, <4>4, <4>5, <4>6, <4>7 DEF Abstract!Commit
      <4> QED BY <4>8 DEF Abstract!Next
    <3> QED BY <3>2, <3>3, <3>7, <3>8
  <2> QED BY <2>3, <2>4
<1> QED BY <1>3, <1>4 DEF Publishes

\* The protocol implements one append-only log: its records are in LSN order
\* and none is there twice, a commit appears in it whole and after all earlier
\* ones, an acknowledgement is only ever of what is in it, and a claim moves
\* the epoch by one and nothing else.
THEOREM RefinementCorrect == ASSUME Scope PROVE Spec /\ []OneJudge => ImplementsCommitLog
<1>1. Init => SafeInv /\ Ordered
  BY SafeInit, OrderInit
<1>2. OneJudge /\ SafeInv /\ Ordered /\ [Next]_vars => (SafeInv /\ Ordered)'
  BY SafeStep, OrderStep
<1>3. Init => Abstract!Init
  BY DEF Init, Abstract!Init, Log, Loadable
<1>4. OneJudge /\ SafeInv /\ Ordered /\ [Next]_vars => [Abstract!Next]_(Abstract!vars)
  BY SafeStep, OrderStep, PublishesStep, RejectStep, Simulates
<1> QED BY <1>1, <1>2, <1>3, <1>4, PTL DEF Spec, ImplementsCommitLog, Abstract!Spec

\* In the whole scope no body holds a rejected batch: under PointersLand because the
\* resolver rejects nothing, under Solo by NackInv.  SoloCorrect is the case that matters.
LEMMA NackCorrect == ASSUME Scope PROVE Spec /\ []OneJudge => []NackStaysTrue
<1>1. Init => SafeInv /\ Ordered
  BY SafeInit, OrderInit
<1>2. OneJudge /\ SafeInv /\ Ordered /\ [Next]_vars => (SafeInv /\ Ordered)'
  BY SafeStep, OrderStep
<1>3. SafeInv /\ Ordered => NackStaysTrue
  BY NackHolds DEF Ordered
<1> QED BY <1>1, <1>2, <1>3, PTL DEF Spec

-----------------------------------------------------------------------------
(* Where no two repairs judge at once.                                      *)

\* A process gets into an open by Open or Reopen.
LEMMA Enters ==
  ASSUME TypeOK, [Next]_vars, NEW x \in Writers, pc'[x] \in ClaimPcs
  PROVE  pc[x] \in ClaimPcs \/ Open(x) \/ Reopen(x)
<1>0. pc \in [Writers -> Labels]
  BY DEF TypeOK
<1>1. CASE LatePut \/ UNCHANGED vars
  BY <1>1 DEF LatePut, vars
<1>2. ASSUME NEW w \in Writers, Open(w) \/ Reopen(w)
      PROVE  pc'[x] = pc[x] \/ w = x
  BY <1>0, <1>2 DEF Open, Reopen, StartOpen, Goto
<1>3. ASSUME NEW w \in Writers, OpenStep(w) \/ OpenFault(w)
      PROVE  pc'[x] = pc[x] \/ pc[x] \in ClaimPcs
  <2>1. pc[w] \in ClaimPcs
    BY <1>3 DEF OpenStep, OpenFault, LoadForOpen, BootBody, BootPtr, ClaimLoad, ClaimBody, ClaimPtr,
         ClaimLost, RepairHead, RepairGet, RepairWal, RepairFence, RepairPub, RepairDel, Recover, ClaimPcs
  <2>2. \E l : pc' = [pc EXCEPT ![w] = l]
    BY <1>3 DEF OpenStep, OpenFault, LoadForOpen, BootBody, BootPtr, ClaimLoad, ClaimBody, ClaimPtr,
         ClaimLost, RepairHead, RepairGet, RepairWal, RepairFence, RepairPub, RepairDel, Recover,
         FailOpen, Goto
  <2> QED BY <1>0, <2>1, <2>2
<1>4. ASSUME NEW w \in Writers, CommitStep(w)
      PROVE  pc'[x] = pc[x] \/ pc'[x] \in {"open"} \cup CommitPcs
  <2>1. CASE PutWal(w) \/ PutBody(w) \/ BodyExists(w) \/ JoinPuts(w) \/ Reseq(w) \/ CancelRetry(w)
    BY <1>0, <2>1 DEF PutWal, PutBody, BodyExists, JoinPuts, Reseq, CancelRetry, FailCommit, Goto,
         CommitPcs
  <2>2. CASE CasPointer(w) \/ PointerExists(w) \/ ResolveCas(w)
    BY <1>0, <2>2 DEF CasPointer, PointerExists, ResolveCas, SealCommit, FailCommit, Goto, CommitPcs
  <2>3. CASE DeleteOrphanBody(w) \/ DeleteOrphanWal(w)
    BY <1>0, <2>3 DEF DeleteOrphanBody, DeleteOrphanWal, FailCommit, Goto, CommitPcs
  <2> QED BY <1>4, <2>1, <2>2, <2>3 DEF CommitStep
<1>5. ASSUME NEW w \in Writers,
             Rollback(w) \/ StartCommit(w) \/ Crash(w) \/ \E b \in Batches : Stage(w, b)
      PROVE  pc'[x] = pc[x] \/ pc'[x] \in {"down", "open", "puts"}
  BY <1>0, <1>5 DEF Rollback, StartCommit, Crash, Stage, Goto
<1>6. ({"down", "open", "puts"} \cup CommitPcs) \cap ClaimPcs = {}
  BY DEF ClaimPcs, CommitPcs
<1> QED BY <1>1, <1>2, <1>3, <1>4, <1>5, <1>6 DEF Next

OneClaim == \A w, x \in Writers : pc[w] \in ClaimPcs /\ pc[x] \in ClaimPcs => w = x

\* Where opens do not overlap: a process is in an open alone.
LEMMA OneClaimStep ==
  ASSUME MaxClaimers <= 1, TypeOK, OneClaim, [Next]_vars
  PROVE  OneClaim'
<1>1. ASSUME NEW w \in Writers, Open(w) \/ Reopen(w)
      PROVE  /\ \A x \in Writers : pc[x] \notin ClaimPcs
             /\ \A x \in Writers \ {w} : pc'[x] = pc[x]
  <2>1. Cardinality(Claiming) < MaxClaimers
    BY <1>1 DEF Open, Reopen, StartOpen
  <2>2. ASSUME NEW x \in Writers, pc[x] \in ClaimPcs PROVE FALSE
    <3>1. Claiming = {x}
      BY <2>2 DEF Claiming, OneClaim
    <3>2. Cardinality({x}) = 1
      BY FS_Singleton
    <3>3. MaxClaimers \in Nat
      BY BoundsAssumption
    <3> QED BY <2>1, <3>1, <3>2, <3>3
  <2>3. \A x \in Writers \ {w} : pc'[x] = pc[x]
    BY <1>1 DEF Open, Reopen, StartOpen, Goto, TypeOK
  <2> QED BY <2>2, <2>3
<1>2. ASSUME NEW w \in Writers, NEW x \in Writers, pc'[w] \in ClaimPcs, pc'[x] \in ClaimPcs
      PROVE  w = x
  <2>1. /\ pc[w] \in ClaimPcs \/ Open(w) \/ Reopen(w)
        /\ pc[x] \in ClaimPcs \/ Open(x) \/ Reopen(x)
    BY <1>2, Enters
  <2>2. CASE Open(w) \/ Reopen(w)
    BY <1>1, <1>2, <2>2
  <2>3. CASE Open(x) \/ Reopen(x)
    BY <1>1, <1>2, <2>3
  <2>4. CASE pc[w] \in ClaimPcs /\ pc[x] \in ClaimPcs
    BY <2>4 DEF OneClaim
  <2> QED BY <2>1, <2>2, <2>3, <2>4
<1> QED BY <1>2 DEF OneClaim

\* Without data: an orphan adds no segment, and is published unjudged.
LEMMA NothingToJudge ==
  ASSUME SafeInv, Batches = {}
  PROVE  \A w \in Writers : pc[w] \notin Judging
<1> SUFFICES ASSUME NEW w \in Writers, pc[w] \in Judging PROVE FALSE
  OBVIOUS
<1> DEFINE c == claim[w]
           v == c.ver + 1
           seg == AddedSegment(c)
<1>1. pc[w] \in Judged
  BY DEF Judging, Judged
<1>2. /\ ClaimOK(w, pc[w], c) /\ v \in Versions /\ v # 0 /\ body[v] = c.orphan /\ body[v] # None
      /\ c.man \in Manifest /\ c.orphan \in Manifest
      /\ Added(c) # {} => /\ seg \in Descriptor /\ c.orphan.wal = Append(c.man.wal, seg)
                          /\ seg.recs # <<>>
  BY <1>1, JudgedWhat
<1>3. Added(c) # {}
  BY <1>2 DEF ClaimOK, Judging
<1> HIDE DEF c, v, seg
<1>4. Contents(c.orphan) = {}
  <2>1. Fits(v, c.orphan)
    BY <1>2 DEF SafeInv, Safe, Bodies
  <2>2. staged = {}
    BY DEF SafeInv, TypeOK
  <2> QED BY <2>1, <2>2 DEF Fits
<1>5. PICK i \in DOMAIN c.orphan.wal : c.orphan.wal[i] = seg
  <2>1. c.man.wal \in Seq(Descriptor)
    BY <1>2 DEF Manifest
  <2> QED BY <1>2, <1>3, <2>1, Appended
<1>6. seg.recs \in Seq(Record) /\ seg.recs # <<>>
  BY <1>2, <1>3 DEF Descriptor
<1>7. 1 \in DOMAIN seg.recs
  BY <1>6
<1>8. seg.recs[1].b \in Contents(c.orphan)
  BY <1>5, <1>7 DEF Contents, BatchesOf
<1> QED BY <1>4, <1>8

\* Two repairs never judge orphans at once when opens do not overlap, when there
\* is one process, or when there is nothing to commit (so racing claims alone are
\* safe): the theorems above hold there without a condition on the behaviour. Only
\* two repairs of a stalled commit can meet (run repair_race).
THEOREM ScopeCorrect ==
  ASSUME Scope,
         MaxClaimers <= 1 \/ (\A w, x \in Writers : w = x) \/ Batches = {}
  PROVE  Spec => []OneJudge
<1>1. CASE MaxClaimers <= 1
  <2>1. Init => OneClaim
    BY DEF Init, OneClaim, ClaimPcs
  <2>2. TypeOK /\ OneClaim /\ [Next]_vars => OneClaim'
    BY <1>1, OneClaimStep
  <2>3. OneClaim => OneJudge
    BY DEF OneClaim, OneJudge, Judging, ClaimPcs
  <2> QED BY <2>1, <2>2, <2>3, TypeCorrect, PTL DEF Spec
<1>2. CASE \A w, x \in Writers : w = x
  <2>1. OneJudge
    BY <1>2 DEF OneJudge
  <2> QED BY <2>1, PTL
<1>3. CASE Batches = {}
  <2>1. SafeInv => OneJudge
    BY <1>3, NothingToJudge DEF OneJudge
  <2>2. SafeInv /\ [Next]_vars => SafeInv'
    BY <2>1, SafeStep
  <2> QED BY <2>1, <2>2, SafeInit, PTL DEF Spec
<1> QED BY <1>1, <1>2, <1>3

\* One process that loses PUTs and responses, pointer PUTs included, dies anywhere
\* and opens again never deletes what is published and never goes back on a
\* rejection, and implements the log.
THEOREM SoloCorrect ==
  ASSUME Solo
  PROVE  Spec => []PublishedBodyPresent /\ []NackStaysTrue /\ ImplementsCommitLog
<1>1. Scope /\ \A w, x \in Writers : w = x
  BY DEF Scope, Solo
<1>2. Spec => []OneJudge
  BY <1>1, ScopeCorrect
<1> QED BY <1>1, <1>2, BodyPresentCorrect, NackCorrect, RefinementCorrect, PTL

=============================================================================
