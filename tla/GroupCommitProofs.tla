------------------------- MODULE GroupCommitProofs -------------------------
(***************************************************************************)
(* Theorems about GroupCommit for any set of writes and any number of      *)
(* faults, claims of peers and transactions: what a client is told is      *)
(* true, a yielding process never takes the namespace back, and a broken   *)
(* writer does not report healthy.                                         *)
(***************************************************************************)
EXTENDS GroupCommit, Extrema, TLAPS

Store == [writes: SUBSET (Writes \cup {TxWrite}), lsn: 0..MaxLsns, epoch: Nat,
          owner: {"us", "peer"}]
Cell == [writes: SUBSET (Writes \cup {TxWrite}), epoch: Nat]
Waiter == [w: Writes, lsn: 1..MaxLsns, dropped: Nat]

USE DEF Session

Shape ==
  /\ GrpTypeOK
  /\ store \in Store /\ published \in Cell
  /\ wrote \subseteq Writes /\ evicted \in BOOLEAN

\* The mutex is held across an await exactly while a phase is under way, and
\* what the batch holds in each phase.
Phases ==
  /\ mutex = "free" <=> phase = "none"
  /\ phase = "commit" => mutex \in Settlers
  /\ phase \in {"recover", "flush", "tx"} => pending = {}
  /\ phase = "seal" => \A row \in pending : row.w = TxWrite
  /\ phase \in {"commit", "seal"} => pending # {}

\* Epochs only rise; a peer that claimed has the highest.
Epochs ==
  /\ published.epoch = session.epoch /\ session.epoch <= store.epoch
  /\ store.owner = "peer" => session.epoch < store.epoch
  /\ probe.observed <= store.epoch
  /\ probe.local # 0 => probe.observed # 0

\* Every write stages once, so that what is staged or stored of it, and what
\* its waiter waits for, are one row.
Staged ==
  /\ \A w \in Writes : answer[w] = "idle" => w \notin wrote
  /\ store.writes \cup {row.w : row \in pending} \subseteq wrote \cup {TxWrite}
  /\ \A x \in waiters :
       /\ answer[x.w] # "idle"
       /\ x.dropped <= session.dropped
       /\ \A row \in pending : row.w = x.w => row.lsn = x.lsn /\ x.dropped = session.dropped

\* A waiter whose batch was not dropped has its row in the batch, or it is
\* durable and visible.
Covered ==
  \A x \in waiters : x.w \in wrote /\ x.dropped = session.dropped
     => \/ \E row \in pending : row.w = x.w /\ row.lsn = x.lsn
        \/ x.w \in store.writes /\ x.w \in published.writes

\* No registered waiter's row is durable, except while a failed commit that
\* landed is being recovered from; and a lost row is nowhere.
Unapplied ==
  ~evicted =>
    /\ phase # "recover" => \A x \in waiters : x.w \notin store.writes
    /\ \A w \in Writes : answer[w] = "lost"
          => w \notin store.writes /\ \A row \in pending : row.w # w

\* The reason is the failure's, or a probe's that the next probe confirms.
Sick ==
  \/ health.reason = "writer"
  \/ /\ health.reason = "probe"
     /\ published.epoch < store.epoch
     /\ probe.observed # 0 => /\ probe.observed > published.epoch
                              /\ probe.local # 0 => probe.local = published.epoch

Reported ==
  /\ health.yielded => policy = "yield" /\ session.epoch < store.epoch /\ ~Recovering
  /\ health.yielded \/ (session.poisoned /\ ~health.masked) => Sick

GrpInv == Shape /\ Phases /\ Epochs /\ Staged /\ Covered /\ Unapplied /\ Reported /\ AckedVisible

\* The highest LSN of a nonempty batch lies between the durable watermark and
\* the next LSN.
LEMMA StagedLast ==
  ASSUME GrpInv, pending # {}
  PROVE  /\ StagedLastLsn \in 1..MaxLsns
         /\ session.durable < StagedLastLsn /\ StagedLastLsn < session.next
         /\ \A row \in pending : row.lsn <= StagedLastLsn
<1> DEFINE L == {row.lsn : row \in pending}
<1>1. L \subseteq 0..MaxLsns /\ L # {} /\ L \subseteq 1..MaxLsns
  BY GroupAssumption DEF GrpInv, Shape, GrpTypeOK, Rows
<1>2. Max(L) \in L /\ \A y \in L : y <= Max(L)
  <2> HIDE DEF L
  <2> QED BY <1>1, BoundedMax, GroupAssumption
<1>3. PICK row \in pending : row.lsn = Max(L)
  BY <1>2
<1> QED BY <1>1, <1>2, <1>3 DEF StagedLastLsn, GrpInv, Shape, GrpTypeOK

\* Only clients that wait are told anything, and each what one of its waiters
\* was sent.
LEMMA TellWhat ==
  ASSUME NEW told, GrpInv, NEW w \in Writes
  PROVE  \/ Tell(told)[w] = answer[w]
         \/ /\ answer[w] = "waiting"
            /\ \E x \in DOMAIN told : x.w = w /\ Tell(told)[w] = told[x]
<1>1. CASE answer[w] = "waiting" /\ \E x \in DOMAIN told : x.w = w
  <2> DEFINE x == CHOOSE x \in DOMAIN told : x.w = w
  <2>1. x \in DOMAIN told /\ x.w = w
    BY <1>1
  <2>2. Tell(told)[w] = told[x]
    BY <1>1 DEF Tell
  <2> QED BY <1>1, <2>1, <2>2
<1>2. CASE ~(answer[w] = "waiting" /\ \E x \in DOMAIN told : x.w = w)
  BY <1>2 DEF Tell
<1> QED BY <1>1, <1>2

\* What settle does against session s.
LEMMA SettleWhat ==
  ASSUME GrpInv, NEW s, s.durable \in Nat, Settle(s)
  PROVE  /\ answer' \in [Writes -> Answers]
         /\ waiters' = {x \in waiters : x.dropped = s.dropped /\ s.durable < x.lsn}
         /\ \A w \in Writes : answer'[w] # answer[w] =>
              /\ answer[w] = "waiting"
              /\ \/ answer'[w] = "waiting"
                 \/ /\ answer'[w] = "ok"
                    /\ \E x \in waiters : x.w = w /\ x.dropped = s.dropped /\ x.lsn <= s.durable
                 \/ /\ answer'[w] = "lost"
                    /\ \E x \in waiters : x.w = w /\ x.dropped # s.dropped
<1> DEFINE told == [x \in waiters |-> SettledAs(x, s)]
<1>1. answer' = Tell(told) /\ DOMAIN told = waiters
  BY DEF Settle
<1>2. \A x \in waiters : /\ x.lsn \in Nat /\ told[x] = SettledAs(x, s)
                         /\ told[x] \in {"lost", "ok", "waiting"}
                         /\ told[x] = "lost" <=> x.dropped # s.dropped
                         /\ told[x] = "ok" <=> x.dropped = s.dropped /\ x.lsn <= s.durable
                         /\ told[x] = "waiting" <=> x.dropped = s.dropped /\ s.durable < x.lsn
  BY DEF SettledAs, GrpInv, Shape, GrpTypeOK
<1>3. waiters' = {x \in waiters : told[x] = "waiting"}
  BY DEF Settle
<1> HIDE DEF told
<1>4. \A w \in Writes : \/ answer'[w] = answer[w]
                        \/ /\ answer[w] = "waiting"
                           /\ \E x \in waiters : x.w = w /\ answer'[w] = told[x]
  BY <1>1, TellWhat
<1>5. answer' \in [Writes -> Answers]
  <2>1. answer' = [w \in Writes |-> answer'[w]]
    BY <1>1 DEF Tell
  <2>2. \A w \in Writes : answer'[w] \in Answers
    BY <1>2, <1>4 DEF GrpInv, Shape, GrpTypeOK, Answers
  <2> QED BY <2>1, <2>2
<1>6. waiters' = {x \in waiters : x.dropped = s.dropped /\ s.durable < x.lsn}
  BY <1>2, <1>3
<1> QED BY <1>2, <1>4, <1>5, <1>6

\* What waking everybody with an error does.
LEMMA WakeWhat ==
  ASSUME GrpInv, WakeAllErr
  PROVE  /\ answer' \in [Writes -> Answers] /\ waiters' = {}
         /\ \A w \in Writes : answer'[w] = answer[w]
                                \/ (answer[w] = "waiting" /\ answer'[w] = "error")
<1> DEFINE told == [x \in waiters |-> "error"]
<1>1. answer' = Tell(told) /\ DOMAIN told = waiters /\ \A x \in waiters : told[x] = "error"
  BY DEF WakeAllErr
<1> HIDE DEF told
<1>2. \A w \in Writes : answer'[w] = answer[w]
                          \/ (answer[w] = "waiting" /\ answer'[w] = "error")
  BY <1>1, TellWhat
<1>3. answer' = [w \in Writes |-> answer'[w]]
  BY <1>1 DEF Tell
<1>4. \A w \in Writes : answer'[w] \in Answers
  BY <1>2 DEF GrpInv, Shape, GrpTypeOK, Answers
<1> QED BY <1>2, <1>3, <1>4 DEF WakeAllErr

\* A failed statement only uses up an LSN, and may begin a recovery over the
\* rows of others.
LEMMA StageFailsStep ==
  ASSUME GrpInv, NEW w \in Writes, StageFails(w)
  PROVE  GrpInv'
<1> USE GroupAssumption DEF GrpInv
<1>0. /\ answer[w] = "idle" /\ mutex = "free" /\ session.next <= MaxLsns /\ phase = "none"
      /\ session' = [session EXCEPT !.next = @ + 1]
      /\ answer' = [answer EXCEPT ![w] = "error"]
      /\ UNCHANGED <<pending, waiters, notified, committer, store, published, probe, policy,
                     evicted, wrote>>
  BY DEF StageFails, Sent, Phases
<1>1. \/ UNCHANGED <<mutex, phase, health>>
      \/ /\ mutex' = "stmt" /\ phase' = "reopen" /\ ~StaysDown("other", session)
         /\ health' = [reason |-> "writer", yielded |-> health.yielded \/ FALSE, masked |-> FALSE]
  BY DEF StageFails, MarkDegraded
<1>2. /\ session' \in Session /\ session'.durable = session.durable
      /\ session'.next = session.next + 1 /\ session'.dropped = session.dropped
      /\ session'.epoch = session.epoch /\ session'.poisoned = session.poisoned
  BY <1>0 DEF Shape, GrpTypeOK
<1>3. answer' \in [Writes -> Answers] /\ \A v \in Writes : answer'[v] = answer[v] \/ answer'[v] = "error"
  BY <1>0 DEF Shape, GrpTypeOK, Answers
<1>4. /\ health' \in [reason: {"none", "probe", "writer"}, yielded: BOOLEAN, masked: BOOLEAN]
      /\ \/ UNCHANGED <<mutex, phase, health>>
         \/ /\ mutex' = "stmt" /\ phase' = "reopen" /\ health'.reason = "writer" /\ ~health'.yielded
  <2>1. CASE UNCHANGED <<mutex, phase, health>>
    BY <2>1 DEF Shape, GrpTypeOK
  <2>2. CASE /\ mutex' = "stmt" /\ phase' = "reopen" /\ ~StaysDown("other", session)
             /\ health' = [reason |-> "writer", yielded |-> health.yielded \/ FALSE, masked |-> FALSE]
    <3>1. ~health.yielded
      BY <2>2 DEF StaysDown, Reported
    <3> QED BY <2>2, <3>1
  <2> QED BY <1>1, <2>1, <2>2
<1>5. Shape'
  <2>1. /\ session'.durable < session'.next
        /\ \A row \in pending : session'.durable < row.lsn /\ row.lsn < session'.next
    BY <1>2 DEF Shape, GrpTypeOK, Rows
  <2>2. mutex' \in Holders
        /\ phase' \in {"none", "commit", "recover", "reopen", "flush", "tx", "seal", "ddl"}
    BY <1>0, <1>4 DEF Holders
  <2> QED BY <1>0, <1>2, <1>3, <1>4, <2>1, <2>2 DEF Shape, GrpTypeOK
<1>6. Phases' BY <1>0, <1>4 DEF Phases
<1>7. Epochs' BY <1>0, <1>2 DEF Epochs
<1>8. Staged' BY <1>0, <1>2, <1>3 DEF Staged, Shape, GrpTypeOK
<1>9. Covered' BY <1>0, <1>2 DEF Covered
<1>10. Unapplied' BY <1>0, <1>3, <1>4 DEF Unapplied
<1>11. AckedVisible' BY <1>0, <1>3 DEF AckedVisible, Shape
<1>12. Reported' BY <1>0, <1>2, <1>4 DEF Reported, Recovering, Sick
<1> QED BY <1>5, <1>6, <1>7, <1>8, <1>9, <1>10, <1>11, <1>12

\* A client that leaves at its deadline is told an error; its waiter stays.
LEMMA DeadlineStep ==
  ASSUME GrpInv, NEW w \in Writes, Deadline(w)
  PROVE  GrpInv'
<1> USE GroupAssumption DEF Deadline, GrpInv
<1>1. Shape' BY StagedLast DEF Shape, GrpTypeOK, Rows, Answers, Holders, Store, Cell, Phases
<1>2. Phases' BY DEF Shape, GrpTypeOK, Phases
<1>3. Epochs' BY DEF Shape, GrpTypeOK, Store, Cell, Epochs
<1>4. Staged' BY DEF Shape, GrpTypeOK, Rows, Store, Cell, Staged, Phases
<1>5. Covered' BY DEF Shape, GrpTypeOK, Rows, Store, Cell, Covered, Phases
<1>6. Unapplied' BY DEF Shape, GrpTypeOK, Rows, Store, Cell, Unapplied, Staged, Phases
<1>7. Reported' BY DEF Shape, GrpTypeOK, Store, Cell, Epochs, Reported, Recovering, Sick
<1>8. AckedVisible' BY DEF Shape, GrpTypeOK, Rows, Store, Cell, AckedVisible
<1> QED BY <1>1, <1>2, <1>3, <1>4, <1>5, <1>6, <1>7, <1>8

\* A manifest published beside the batch shows readers at most what is durable.
LEMMA InstallStep ==
  ASSUME GrpInv, phase \in {"flush", "ddl"}, Install
  PROVE  GrpInv'
<1> USE DEF GrpInv
<1>0. /\ mutex' = "free" /\ phase' = "none"
      /\ committer' \in {"wait", "window", "locked", "gone"}
      /\ UNCHANGED <<pending, session, waiters, answer, notified, store, health, probe, policy,
                     evicted, wrote>>
  BY DEF Install, LetGo, Shape, GrpTypeOK
<1>1. \/ published' = [writes |-> store.writes, epoch |-> session.epoch]
      \/ published' = published
  BY DEF Install, Publish
<1>2. /\ published' \in Cell /\ published'.epoch = session.epoch
      /\ published'.writes \in {published.writes, store.writes}
  BY <1>1 DEF Shape, GrpTypeOK, Cell, Store, Epochs
<1>3. Shape' BY <1>0, <1>2 DEF Shape, GrpTypeOK, Holders, Cell
<1>4. Phases' BY <1>0 DEF Phases
<1>5. Epochs' BY <1>0, <1>2 DEF Epochs
<1>6. Staged' /\ Covered' /\ Unapplied' /\ AckedVisible'
  BY <1>0, <1>2 DEF Staged, Covered, Unapplied, AckedVisible
<1>7. Reported' BY <1>0, <1>2 DEF Reported, Recovering, Sick, Epochs
<1> QED BY <1>3, <1>4, <1>5, <1>6, <1>7

\* A schema statement or an install only takes the mutex.
LEMMA DdlStartStep ==
  ASSUME GrpInv, NEW h \in Installers, DdlStart(h)
  PROVE  GrpInv'
<1> USE DEF GrpInv
<1>0. /\ phase = "none" /\ phase' = "ddl" /\ mutex' \in Holders \ {"free"}
      /\ UNCHANGED <<pending, session, waiters, answer, notified, committer, store, published,
                     health, probe, policy, evicted, wrote>>
  BY DEF DdlStart, Phases, Installers, Holders
<1>1. Shape' BY <1>0 DEF Shape, GrpTypeOK
<1>2. Phases' /\ Epochs' /\ Staged' /\ Covered' /\ Unapplied' /\ AckedVisible'
  BY <1>0 DEF Phases, Epochs, Staged, Covered, Unapplied, AckedVisible
<1>3. Reported' BY <1>0 DEF Reported, Recovering, Sick
<1> QED BY <1>1, <1>2, <1>3

\* A transaction's commit makes its rows the batch.
LEMMA TxCommitStep ==
  ASSUME GrpInv, TxCommit
  PROVE  GrpInv'
<1> USE GroupAssumption DEF TxCommit, GrpInv
<1>1. Shape' BY StagedLast DEF Shape, GrpTypeOK, Rows, Answers, Holders, Store, Cell, Phases
<1>0. pending' = {[w |-> TxWrite, lsn |-> session.next]} /\ phase' = "seal" /\ mutex' # "free"
  BY DEF Phases
<1>a. pending' # {} /\ \A row \in pending' : row.w = TxWrite
  <2> HIDE DEF TxCommit, GrpInv
  <2> QED BY <1>0
<1>2. Phases'
  <2> HIDE DEF TxCommit, GrpInv
  <2> QED BY <1>0, <1>a DEF Phases
<1>3. Epochs' BY DEF Shape, GrpTypeOK, Store, Cell, Epochs
<1>4. Staged' BY DEF Shape, GrpTypeOK, Rows, Store, Cell, Staged, Phases
<1>5. Covered' BY DEF Shape, GrpTypeOK, Rows, Store, Cell, Covered, Phases
<1>6. Unapplied' BY DEF Shape, GrpTypeOK, Rows, Store, Cell, Unapplied, Staged, Phases
<1>7. Reported' BY DEF Shape, GrpTypeOK, Store, Cell, Epochs, Reported, Recovering, Sick
<1>8. AckedVisible' BY DEF Shape, GrpTypeOK, Rows, Store, Cell, AckedVisible
<1> QED BY <1>1, <1>2, <1>3, <1>4, <1>5, <1>6, <1>7, <1>8

\* The probe loads the store's epoch.
LEMMA ProbeLoadStep ==
  ASSUME GrpInv, ProbeLoad
  PROVE  GrpInv'
<1> USE GroupAssumption DEF ProbeLoad, GrpInv
<1>1. Shape' BY StagedLast DEF Shape, GrpTypeOK, Rows, Answers, Holders, Store, Cell, Phases
<1>2. Phases' BY DEF Shape, GrpTypeOK, Phases
<1>3. Epochs' BY DEF Shape, GrpTypeOK, Store, Cell, Epochs
<1>4. Staged' BY DEF Shape, GrpTypeOK, Rows, Store, Cell, Staged, Phases
<1>5. Covered' BY DEF Shape, GrpTypeOK, Rows, Store, Cell, Covered, Phases
<1>6. Unapplied' BY DEF Shape, GrpTypeOK, Rows, Store, Cell, Unapplied, Staged, Phases
<1>7. Reported' BY DEF Shape, GrpTypeOK, Store, Cell, Epochs, Reported, Recovering, Sick
<1>8. AckedVisible' BY DEF Shape, GrpTypeOK, Rows, Store, Cell, AckedVisible
<1> QED BY <1>1, <1>2, <1>3, <1>4, <1>5, <1>6, <1>7, <1>8

\* The probe loads the epoch its readers see.
LEMMA ProbeLocalStep ==
  ASSUME GrpInv, ProbeLocal
  PROVE  GrpInv'
<1> USE GroupAssumption DEF ProbeLocal, GrpInv
<1>1. Shape' BY StagedLast DEF Shape, GrpTypeOK, Rows, Answers, Holders, Store, Cell, Phases
<1>2. Phases' BY DEF Shape, GrpTypeOK, Phases
<1>3. Epochs' BY DEF Shape, GrpTypeOK, Store, Cell, Epochs
<1>4. Staged' BY DEF Shape, GrpTypeOK, Rows, Store, Cell, Staged, Phases
<1>5. Covered' BY DEF Shape, GrpTypeOK, Rows, Store, Cell, Covered, Phases
<1>6. Unapplied' BY DEF Shape, GrpTypeOK, Rows, Store, Cell, Unapplied, Staged, Phases
<1>7. Reported' BY DEF Shape, GrpTypeOK, Store, Cell, Epochs, Reported, Recovering, Sick
<1>8. AckedVisible' BY DEF Shape, GrpTypeOK, Rows, Store, Cell, AckedVisible
<1> QED BY <1>1, <1>2, <1>3, <1>4, <1>5, <1>6, <1>7, <1>8

\* Eviction ends the probe.
LEMMA EvictStep ==
  ASSUME GrpInv, Evict
  PROVE  GrpInv'
<1> USE GroupAssumption DEF Evict, GrpInv
<1>1. Shape'
  <2>1. probe' \in [on: BOOLEAN, observed: Nat, local: Nat]
    BY DEF Shape, GrpTypeOK
  <2> QED BY <2>1 DEF Shape, GrpTypeOK
<1>2. Phases' BY DEF Shape, GrpTypeOK, Phases
<1>3. Epochs' BY DEF Shape, GrpTypeOK, Store, Cell, Epochs
<1>4. Staged' BY DEF Shape, GrpTypeOK, Rows, Store, Cell, Staged, Phases
<1>5. Covered' BY DEF Shape, GrpTypeOK, Rows, Store, Cell, Covered, Phases
<1>6. Unapplied' BY DEF Shape, GrpTypeOK, Rows, Store, Cell, Unapplied, Staged, Phases
<1>7. Reported' BY DEF Shape, GrpTypeOK, Store, Cell, Epochs, Reported, Recovering, Sick
<1>8. AckedVisible' BY DEF Shape, GrpTypeOK, Rows, Store, Cell, AckedVisible
<1> QED BY <1>1, <1>2, <1>3, <1>4, <1>5, <1>6, <1>7, <1>8

\* The store after it has taken the batch.
LEMMA SealedWhat ==
  ASSUME GrpInv, pending # {}
  PROVE  /\ Sealed \in Store
         /\ Sealed.writes = store.writes \cup {row.w : row \in pending}
         /\ Sealed.epoch = store.epoch /\ Sealed.owner = store.owner
         /\ Sealed.lsn = StagedLastLsn
<1>1. store \in Store /\ {row.w : row \in pending} \subseteq Writes \cup {TxWrite}
  BY DEF GrpInv, Shape, GrpTypeOK, Rows
<1>2. StagedLastLsn \in 0..MaxLsns
  BY StagedLast
<1>3. store.writes \cup {row.w : row \in pending} \subseteq Writes \cup {TxWrite}
  BY <1>1 DEF Store
<1> QED BY <1>1, <1>2, <1>3 DEF Sealed, Store

\* The store after a claim of this process.
LEMMA ClaimedWhat ==
  ASSUME GrpInv
  PROVE  /\ Claimed(store) \in Store /\ Claimed(store).writes = store.writes
         /\ Claimed(store).epoch = store.epoch + 1 /\ Claimed(store).owner = "us"
<1>1. store \in Store /\ store.epoch + 1 \in Nat
  BY DEF GrpInv, Shape, Store
<1> QED BY <1>1 DEF Claimed, Store

\* How a recovery ends for the clients and the mutex.
LEMMA RecoveredWhat ==
  ASSUME GrpInv, Recovering, Recovered
  PROVE  /\ mutex' = "free" /\ phase' = "none"
         /\ committer' \in {"wait", "window", "locked", "gone"}
         /\ answer' \in [Writes -> Answers] /\ waiters' \subseteq waiters
         /\ phase = "recover" => waiters' = {}
         /\ \A w \in Writes : answer'[w] = answer[w]
                                \/ (answer[w] = "waiting" /\ answer'[w] = "error")
<1>1. mutex' = "free" /\ phase' = "none" /\ committer' \in {"wait", "window", "locked", "gone"}
  BY DEF Recovered, LetGo, GrpInv, Shape, GrpTypeOK
<1>2. CASE phase = "recover"
  <2>1. WakeAllErr
    BY <1>2 DEF Recovered
  <2> QED BY <1>1, <2>1, WakeWhat
<1>3. CASE phase # "recover"
  <2>1. UNCHANGED <<answer, waiters>>
    BY <1>3 DEF Recovered
  <2> QED BY <1>1, <1>3, <2>1 DEF GrpInv, Shape, GrpTypeOK
<1> QED BY <1>2, <1>3

\* What is said of clients and rows while nothing is staged or stored survives
\* clients being told of errors and the batch being dropped and counted.
LEMMA ClientsStay ==
  ASSUME GrpInv, UNCHANGED <<wrote, evicted>>,
         session'.dropped \in Nat, session'.dropped >= session.dropped,
         \/ pending' = pending /\ (pending = {} \/ session'.dropped = session.dropped)
         \/ pending' = {} /\ session'.dropped > session.dropped,
         store'.writes = store.writes,
         published'.writes \in {published.writes, store.writes},
         waiters' \subseteq waiters, phase # "recover" \/ waiters' = {},
         \A w \in Writes : answer'[w] = answer[w]
                             \/ (answer[w] = "waiting" /\ answer'[w] = "error")
  PROVE  Staged' /\ Covered' /\ Unapplied' /\ AckedVisible'
<1> USE DEF GrpInv
<1>0. pending' \subseteq pending /\ \A x \in waiters : x.dropped \in Nat /\ x.dropped <= session.dropped
  BY DEF Staged, Shape, GrpTypeOK
<1>1. Staged'
  <2>1. store'.writes \cup {row.w : row \in pending'} \subseteq wrote' \cup {TxWrite}
    BY <1>0 DEF Staged
  <2>2. \A w \in Writes : answer'[w] = "idle" => w \notin wrote'
    BY DEF Staged
  <2>3. \A x \in waiters' :
          /\ answer'[x.w] # "idle" /\ x.dropped <= session'.dropped
          /\ \A row \in pending' : row.w = x.w => row.lsn = x.lsn /\ x.dropped = session'.dropped
    BY <1>0 DEF Staged, Shape, GrpTypeOK
  <2> QED BY <2>1, <2>2, <2>3 DEF Staged
<1>2. Covered'
  <2>1. CASE pending' = pending /\ session'.dropped = session.dropped
    BY <2>1 DEF Covered
  <2>2. CASE pending' = {} /\ session'.dropped > session.dropped
    BY <2>2, <1>0 DEF Covered, Shape, GrpTypeOK
  <2>3. CASE pending = {} /\ pending' = {}
    BY <2>3, <1>0 DEF Covered, Shape, GrpTypeOK
  <2> QED BY <2>1, <2>2, <2>3
<1>3. Unapplied'
  BY <1>0 DEF Unapplied
<1>4. AckedVisible'
  BY DEF AckedVisible, Shape
<1> QED BY <1>1, <1>2, <1>3, <1>4

\* A reopen that succeeds starts from the store, with an empty batch.
LEMMA ReopenOkStep ==
  ASSUME GrpInv, ReopenOk
  PROVE  GrpInv'
<1> USE DEF GrpInv
<1>0. /\ Recovering /\ Recovered /\ MayClaim /\ pending' = {}
      /\ store' = Claimed(store) /\ session' = Reopened(session, store)
      /\ published' = [writes |-> store.writes, epoch |-> store.epoch + 1]
      /\ health' = [health EXCEPT !.reason = "none", !.masked = FALSE]
      /\ UNCHANGED <<notified, probe, policy, evicted, wrote>>
  BY DEF ReopenOk, Publish
<1>1. /\ session \in Session
      /\ store \in Store /\ store.lsn \in 0..MaxLsns /\ store.epoch \in Nat
      /\ store.writes \subseteq Writes \cup {TxWrite}
      /\ health \in [reason: {"none", "probe", "writer"}, yielded: BOOLEAN, masked: BOOLEAN]
  BY DEF Shape, GrpTypeOK, Store
<1>2. /\ session' \in Session
      /\ session'.durable < session'.next /\ session'.dropped = session.dropped + 1
      /\ session'.epoch = store.epoch + 1 /\ session'.poisoned = FALSE
  BY <1>0, <1>1, GroupAssumption DEF Reopened
<1>3. /\ published' \in Cell /\ published'.epoch = store.epoch + 1
      /\ published'.writes = store.writes
  BY <1>0, <1>1 DEF Cell
<1>4. /\ health' \in [reason: {"none", "probe", "writer"}, yielded: BOOLEAN, masked: BOOLEAN]
      /\ health'.yielded = health.yielded
  BY <1>0, <1>1
<1>5. /\ store' \in Store /\ store'.writes = store.writes
      /\ store'.epoch = store.epoch + 1 /\ store'.owner = "us"
  BY <1>0, ClaimedWhat
<1>6. Shape'
  BY <1>0, <1>2, <1>3, <1>4, <1>5, RecoveredWhat DEF Shape, GrpTypeOK, Store, Cell, Holders
<1>7. Phases'
  BY <1>0, RecoveredWhat DEF Phases
<1>8. Epochs'
  BY <1>0, <1>1, <1>2, <1>3, <1>5 DEF Epochs, Shape, GrpTypeOK
<1>9. Staged' /\ Covered' /\ Unapplied' /\ AckedVisible'
  BY <1>0, <1>1, <1>2, <1>3, <1>5, RecoveredWhat, ClientsStay
<1>10. Reported'
  BY <1>0, <1>1, <1>2, <1>4, RecoveredWhat DEF Reported, Recovering
<1> QED BY <1>6, <1>7, <1>8, <1>9, <1>10

\* A reopen that yields leaves the namespace to the newer epoch.
LEMMA ReopenYieldsStep ==
  ASSUME GrpInv, ReopenYields
  PROVE  GrpInv'
<1> USE DEF GrpInv
<1>0. /\ Recovering /\ Recovered /\ ~MayClaim
      /\ health' = [reason |-> "writer", yielded |-> health.yielded \/ TRUE, masked |-> FALSE]
      /\ UNCHANGED <<pending, session, notified, store, published, probe, policy, evicted, wrote>>
  BY DEF ReopenYields, MarkDegraded
<1>1. health'.reason = "writer"
      /\ health' \in [reason: {"none", "probe", "writer"}, yielded: BOOLEAN, masked: BOOLEAN]
  BY <1>0
<1>2. policy = "yield" /\ session.epoch < store.epoch
  BY <1>0 DEF MayClaim, Shape, GrpTypeOK, Store
<1>6. Shape'
  BY <1>0, <1>1, RecoveredWhat DEF Shape, GrpTypeOK, Store, Cell, Holders
<1>7. Phases'
  BY <1>0, RecoveredWhat DEF Phases
<1>8. Epochs'
  BY <1>0 DEF Epochs
<1>9. Staged' /\ Covered' /\ Unapplied' /\ AckedVisible'
  <2>1. session.dropped \in Nat
    BY DEF Shape, GrpTypeOK
  <2> QED BY <1>0, <2>1, RecoveredWhat, ClientsStay
<1>10. Reported'
  BY <1>0, <1>1, <1>2, RecoveredWhat DEF Reported, Recovering, Sick
<1> QED BY <1>6, <1>7, <1>8, <1>9, <1>10

\* A reopen that fails may have claimed; the session stays as it was.
LEMMA ReopenFailsStep ==
  ASSUME GrpInv, ReopenFails
  PROVE  GrpInv'
<1> USE DEF GrpInv
<1>0. /\ Recovering /\ Recovered /\ store' \in {store, Claimed(store)}
      /\ UNCHANGED <<pending, session, notified, published, health, probe, policy, evicted, wrote>>
  BY DEF ReopenFails
<1>1. /\ store' \in Store /\ store'.writes = store.writes /\ store.epoch \in Nat
      /\ store'.epoch >= store.epoch
      /\ store'.owner = "peer" => store' = store
  BY <1>0, ClaimedWhat DEF Shape, Store
<1>6. Shape'
  BY <1>0, <1>1, RecoveredWhat DEF Shape, GrpTypeOK, Store, Cell, Holders
<1>7. Phases'
  BY <1>0, RecoveredWhat DEF Phases
<1>8. Epochs'
  BY <1>0, <1>1 DEF Epochs, Shape, GrpTypeOK, Store, Cell
<1>9. Staged' /\ Covered' /\ Unapplied' /\ AckedVisible'
  <2>1. session.dropped \in Nat
    BY DEF Shape, GrpTypeOK
  <2> QED BY <1>0, <1>1, <2>1, RecoveredWhat, ClientsStay
<1>10. Reported'
  BY <1>0, <1>1, RecoveredWhat DEF Reported, Recovering, Sick, Shape, GrpTypeOK, Store, Cell
<1> QED BY <1>6, <1>7, <1>8, <1>9, <1>10

\* The committer opens its window.
LEMMA WakeStep ==
  ASSUME GrpInv, Wake
  PROVE  GrpInv'
<1> USE DEF Wake, GrpInv
<1>1. Shape'
  <2>1. notified' \in BOOLEAN /\ committer' \in {"wait", "window", "locked", "gone"}
    OBVIOUS
  <2> QED BY <2>1 DEF Shape, GrpTypeOK
<1>2. Phases' /\ Epochs' /\ Staged' /\ Covered' /\ Unapplied' /\ AckedVisible'
  BY DEF Phases, Epochs, Staged, Covered, Unapplied, AckedVisible
<1>3. Reported'
  BY DEF Reported, Sick, Recovering
<1> QED BY <1>1, <1>2, <1>3

\* A rollback drops what the transaction staged, and counts it.
LEMMA TxRollbackStep ==
  ASSUME GrpInv, TxRollback
  PROVE  GrpInv'
<1> USE GroupAssumption DEF GrpInv
<1>0. /\ phase = "tx" /\ pending = {} /\ pending' = {} /\ mutex' = "free" /\ phase' = "none"
      /\ committer' \in {"wait", "window", "locked", "gone"}
      /\ UNCHANGED <<waiters, answer, notified, store, published, health, probe, policy,
                     evicted, wrote>>
  BY DEF TxRollback, LetGo, Phases, Shape, GrpTypeOK
<1>1. PICK rows \in 0..1 :
        /\ session.next + rows <= MaxLsns + 1
        /\ session' = [session EXCEPT !.next = @ + rows,
                                      !.dropped = IF rows > 0 \/ pending # {} THEN @ + 1 ELSE @]
  BY DEF TxRollback
<1>2. /\ session' \in Session
      /\ session'.durable < session'.next /\ session'.dropped >= session.dropped
      /\ session'.epoch = session.epoch /\ session'.poisoned = session.poisoned
  <2>1. session \in Session
        /\ session.durable < session.next
    BY DEF Shape, GrpTypeOK
  <2> DEFINE d == IF rows > 0 \/ pending # {} THEN session.dropped + 1 ELSE session.dropped
  <2>2. /\ session.next + rows \in 1..(MaxLsns + 1) /\ session.durable < session.next + rows
        /\ d \in Nat /\ d >= session.dropped
    BY <1>1, <2>1
  <2>3. session' = [session EXCEPT !.next = session.next + rows, !.dropped = d]
    BY <1>1, <2>1
  <2> HIDE DEF d
  <2> QED BY <2>1, <2>2, <2>3
<1>3. Shape'
  BY <1>0, <1>2 DEF Shape, GrpTypeOK, Holders
<1>4. Phases' /\ Epochs'
  BY <1>0, <1>2 DEF Phases, Epochs
<1>5. Staged' /\ Covered' /\ Unapplied' /\ AckedVisible'
  BY <1>0, <1>2, ClientsStay
<1>6. Reported'
  BY <1>0, <1>2 DEF Reported, Recovering, Sick
<1> QED BY <1>3, <1>4, <1>5, <1>6

\* A batch that is sealed is durable and published as a whole, in step with the
\* session's watermark.
LEMMA SealOkStep ==
  ASSUME GrpInv, SealOk
  PROVE  GrpInv'
<1> USE DEF GrpInv
<1>0. /\ phase = "seal" /\ pending # {} /\ pending' = {} /\ mutex' = "free" /\ phase' = "none"
      /\ committer' \in {"wait", "window", "locked", "gone"}
      /\ store' = Sealed /\ session' = [session EXCEPT !.durable = StagedLastLsn]
      /\ published' = [writes |-> Sealed.writes, epoch |-> session.epoch]
      /\ UNCHANGED <<waiters, answer, notified, health, probe, policy, evicted, wrote>>
      /\ \A row \in pending : row.w = TxWrite
  BY DEF SealOk, LetGo, Publish, Phases, Shape, GrpTypeOK
<1>1. /\ session' \in Session
      /\ session'.durable < session'.next /\ session'.dropped = session.dropped
      /\ session'.epoch = session.epoch /\ session'.poisoned = session.poisoned
  BY <1>0, StagedLast DEF Shape, GrpTypeOK
<1>2. /\ store' \in Store /\ store'.writes \subseteq store.writes \cup {TxWrite}
      /\ store.writes \subseteq store'.writes
      /\ store'.epoch = store.epoch /\ store'.owner = store.owner
  BY <1>0, SealedWhat
<1>3. published' \in Cell /\ published'.epoch = session.epoch /\ published'.writes = store'.writes
  BY <1>0, <1>2 DEF Cell, Store, Shape, GrpTypeOK
<1>4. Shape'
  BY <1>0, <1>1, <1>2, <1>3 DEF Shape, GrpTypeOK, Holders, Store, Cell
<1>5. Phases' /\ Epochs'
  BY <1>0, <1>1, <1>2, <1>3 DEF Phases, Epochs
<1>6. Staged'
  BY <1>0, <1>1, <1>2 DEF Staged
<1>7. Covered'
  <2>1. \A x \in waiters : x.w \in Writes /\ x.w # TxWrite
    BY GroupAssumption DEF Shape, GrpTypeOK
  <2> QED BY <1>0, <1>1, <1>2, <1>3, <2>1 DEF Covered
<1>8. Unapplied' /\ AckedVisible'
  <2>1. \A w \in Writes : w # TxWrite
    BY GroupAssumption
  <2>2. \A x \in waiters : x.w \in Writes
    BY DEF Shape, GrpTypeOK
  <2> QED BY <1>0, <1>2, <1>3, <2>1, <2>2 DEF Unapplied, AckedVisible, Shape
<1>9. Reported'
  BY <1>0, <1>1, <1>2, <1>3 DEF Reported, Recovering, Sick, Epochs
<1> QED BY <1>4, <1>5, <1>6, <1>7, <1>8, <1>9

\* A probe's report replaces a reason; parity clears only a probe's own, and of
\* a broken writer's the next probe confirms it.
LEMMA ProbeReportStep ==
  ASSUME GrpInv, ProbeReport
  PROVE  GrpInv'
<1> USE DEF GrpInv
<1>0. /\ probe.local # 0 /\ probe' = [probe EXCEPT !.observed = 0, !.local = 0]
      /\ health' = [health EXCEPT !.reason = Observed(@), !.masked = @ \/ Masks]
      /\ UNCHANGED <<pending, session, waiters, answer, notified, committer, mutex, phase, store,
                     published, policy, evicted, wrote>>
  BY DEF ProbeReport
<1>1. /\ health \in [reason: {"none", "probe", "writer"}, yielded: BOOLEAN, masked: BOOLEAN]
      /\ Observed(health.reason) \in {"none", "probe", "writer"} /\ Masks \in BOOLEAN
      /\ probe.observed \in Nat /\ probe.local \in Nat
      /\ published.epoch \in Nat /\ store.epoch \in Nat
  <2>1. /\ probe.observed \in Nat /\ probe.local \in Nat
        /\ published.epoch \in Nat /\ store.epoch \in Nat
        /\ health \in [reason: {"none", "probe", "writer"}, yielded: BOOLEAN, masked: BOOLEAN]
    BY DEF Shape, GrpTypeOK, Cell, Store
  <2>2. Observed(health.reason) \in {"none", "probe", "writer"}
    BY <2>1 DEF Observed
  <2>3. Masks \in BOOLEAN
    BY DEF Masks
  <2> QED BY <2>1, <2>2, <2>3
<1>2. /\ health' \in [reason: {"none", "probe", "writer"}, yielded: BOOLEAN, masked: BOOLEAN]
      /\ health'.reason = Observed(health.reason) /\ health'.yielded = health.yielded
      /\ health'.masked = (health.masked \/ Masks)
  BY <1>0, <1>1
<1>3. probe' \in [on: BOOLEAN, observed: Nat, local: Nat] /\ probe'.observed = 0 /\ probe'.local = 0
  <2>1. probe \in [on: BOOLEAN, observed: Nat, local: Nat]
    BY DEF Shape, GrpTypeOK
  <2> QED BY <1>0, <2>1
<1>4. Shape'
  BY <1>0, <1>2, <1>3 DEF Shape, GrpTypeOK
<1>5. Phases' /\ Epochs' /\ Staged' /\ Covered' /\ Unapplied' /\ AckedVisible'
  BY <1>0, <1>1, <1>3 DEF Phases, Epochs, Staged, Covered, Unapplied, AckedVisible
<1>6. ASSUME health.yielded \/ (session.poisoned /\ ~health'.masked) PROVE Sick'
  <2>1. Sick
    BY <1>2, <1>6 DEF Reported
  <2>2. CASE probe.observed > probe.local
    <3>1. health'.reason = "probe"
      BY <1>1, <1>2, <2>2 DEF Observed
    <3>2. published.epoch < store.epoch
      <4>1. CASE health.yielded
        BY <4>1 DEF Reported, Epochs
      <4>2. CASE health.reason = "probe"
        BY <2>1, <4>2 DEF Sick
      <4>3. CASE health.reason = "writer" /\ ~Masks
        <5>1. probe.local = published.epoch /\ probe.observed <= store.epoch
          BY <4>3, <2>2 DEF Masks, Epochs
        <5> QED BY <5>1, <2>2, <1>1
      <4> QED BY <4>1, <4>2, <4>3, <2>1, <1>2, <1>6 DEF Sick
    <3> QED BY <1>0, <1>3, <3>1, <3>2 DEF Sick
  <2>3. CASE ~(probe.observed > probe.local)
    <3>1. health.reason = "writer"
      BY <2>1, <2>3, <1>0, <1>1 DEF Sick, Epochs
    <3>2. health'.reason = "writer"
      BY <1>1, <1>2, <2>3, <3>1 DEF Observed
    <3> QED BY <3>2 DEF Sick
  <2> QED BY <2>2, <2>3
<1>7. Reported'
  BY <1>0, <1>2, <1>6 DEF Reported, Recovering
<1> QED BY <1>4, <1>5, <1>7

\* A peer has a higher epoch than the session.
LEMMA PeerOpensStep ==
  ASSUME GrpInv, PeerOpens
  PROVE  GrpInv'
<1> USE DEF GrpInv
<1>0. PICK rows \in 0..1 :
        /\ store.lsn + rows <= MaxLsns
        /\ store' = [store EXCEPT !.epoch = @ + 1, !.owner = "peer", !.lsn = @ + rows]
  BY DEF PeerOpens
<1>1. UNCHANGED <<pending, session, waiters, answer, notified, committer, mutex, phase,
                  published, health, probe, policy, evicted, wrote>>
  BY DEF PeerOpens
<1>2. /\ store' \in Store /\ store'.writes = store.writes
      /\ store'.epoch = store.epoch + 1 /\ store.epoch \in Nat
  <2>1. store \in Store
    BY DEF Shape
  <2>2. store.lsn + rows \in 0..MaxLsns /\ store.epoch + 1 \in Nat
    BY <1>0, <2>1, GroupAssumption DEF Store
  <2> QED BY <1>0, <2>1, <2>2 DEF Store
<1>3. Shape'
  BY <1>1, <1>2 DEF Shape, GrpTypeOK, Store
<1>4. Phases' /\ Staged' /\ Covered' /\ Unapplied' /\ AckedVisible'
  BY <1>1, <1>2 DEF Phases, Staged, Covered, Unapplied, AckedVisible
<1>5. Epochs'
  BY <1>1, <1>2 DEF Epochs, Shape, GrpTypeOK, Cell
<1>6. Reported'
  BY <1>1, <1>2 DEF Reported, Recovering, Sick, Epochs, Shape, GrpTypeOK, Cell
<1> QED BY <1>3, <1>4, <1>5, <1>6

\* What an aborted task had in flight may have landed; the batch stays, and
\* nobody is told.
LEMMA AbortStep ==
  ASSUME GrpInv, Abort
  PROVE  GrpInv'
<1> USE DEF GrpInv
<1>0. /\ evicted /\ committer' = "gone"
      /\ UNCHANGED <<pending, waiters, answer, notified, published, health, probe, policy,
                     evicted, wrote>>
  BY DEF Abort
<1>1. store' \in {store, Claimed(store)} \/ (store' = Sealed /\ pending # {})
  BY DEF Abort, Phases
<1>2. UNCHANGED <<mutex, phase>> \/ (mutex' = "free" /\ phase' = "none")
  BY DEF Abort
<1>3. session' \in {session, [session EXCEPT !.behind = TRUE]}
  BY DEF Abort
<1>4. /\ session' \in Session /\ session'.next = session.next
      /\ session'.durable = session.durable /\ session'.dropped = session.dropped
      /\ session'.epoch = session.epoch /\ session'.poisoned = session.poisoned
  BY <1>3 DEF Shape, GrpTypeOK
<1>5. /\ store' \in Store /\ store.writes \subseteq store'.writes
      /\ store'.writes \subseteq store.writes \cup {row.w : row \in pending}
      /\ store'.epoch \in Nat /\ store.epoch \in Nat /\ store'.epoch >= store.epoch
      /\ store'.owner = "peer" => store.owner = "peer"
  BY <1>1, SealedWhat, ClaimedWhat DEF Shape, Store
<1>6. Shape'
  BY <1>0, <1>2, <1>4, <1>5 DEF Shape, GrpTypeOK, Holders, Store
<1>7. Phases'
  BY <1>0, <1>2 DEF Phases
<1>8. Epochs'
  BY <1>0, <1>4, <1>5 DEF Epochs, Shape, GrpTypeOK, Cell
<1>9. Staged' /\ Covered' /\ Unapplied' /\ AckedVisible'
  BY <1>0, <1>4, <1>5 DEF Staged, Covered, Unapplied, AckedVisible
<1>10. Reported'
  BY <1>0, <1>2, <1>4, <1>5 DEF Reported, Recovering, Sick, Shape, GrpTypeOK, Cell
<1> QED BY <1>6, <1>7, <1>8, <1>9, <1>10

\* The committer stops and tells everybody so.
LEMMA CommitterStopsStep ==
  ASSUME GrpInv, CommitterStops
  PROVE  GrpInv'
<1> USE DEF GrpInv
<1>0. /\ evicted /\ committer' = "gone" /\ WakeAllErr
      /\ UNCHANGED <<pending, session, notified, mutex, phase, store, published, health, probe,
                     policy, evicted, wrote>>
  BY DEF CommitterStops
<1>1. /\ answer' \in [Writes -> Answers] /\ waiters' = {}
      /\ \A w \in Writes : answer'[w] = answer[w]
                             \/ (answer[w] = "waiting" /\ answer'[w] = "error")
  BY <1>0, WakeWhat
<1>2. Shape'
  BY <1>0, <1>1 DEF Shape, GrpTypeOK
<1>3. Phases' /\ Epochs' /\ Covered' /\ Unapplied'
  BY <1>0, <1>1 DEF Phases, Epochs, Covered, Unapplied
<1>4. Staged' /\ AckedVisible'
  BY <1>0, <1>1 DEF Staged, AckedVisible, Shape
<1>5. Reported'
  BY <1>0 DEF Reported, Recovering, Sick
<1> QED BY <1>2, <1>3, <1>4, <1>5

\* A write stages its row at the end of the batch and waits for it. One without
\* a row waits for the batch as it is, or for nothing.
LEMMA StageStep ==
  ASSUME GrpInv, NEW w \in Writes, NEW rows \in 0..1, Stage(w, rows)
  PROVE  GrpInv'
<1> USE DEF GrpInv
<1> DEFINE new == {[w |-> w, lsn |-> session.next] : k \in 1..rows}
           batch == pending \cup new
           last == Max({row.lsn : row \in batch})
           x0 == [w |-> w, lsn |-> last, dropped |-> session.dropped]
<1>0. /\ answer[w] = "idle" /\ mutex = "free"
      /\ rows = 1 => session.next <= MaxLsns
      /\ pending' = batch /\ session' = [session EXCEPT !.next = @ + rows]
      /\ notified' = TRUE
      /\ wrote' = IF rows = 1 THEN wrote \cup {w} ELSE wrote
      /\ UNCHANGED <<committer, mutex, phase, store, published, health, probe, policy, evicted>>
  BY DEF Stage, Sent, NotifyCommitter
<1>1. /\ session \in Session
      /\ session.durable < session.next /\ MaxLsns \in Nat /\ pending \subseteq Rows
      /\ \A row \in pending : session.durable < row.lsn /\ row.lsn < session.next
      /\ waiters \subseteq Waiter /\ phase = "none" /\ w # TxWrite /\ w \notin wrote
      /\ answer \in [Writes -> Answers]
  BY <1>0, GroupAssumption DEF Shape, GrpTypeOK, Phases, Staged, Waiter
<1>2. new \subseteq Rows /\ \A row \in new : row.w = w /\ row.lsn = session.next /\ rows = 1
  BY <1>0, <1>1 DEF Rows
<1>3. rows = 1 => [w |-> w, lsn |-> session.next] \in new
  OBVIOUS
<1>n. rows = 0 => new = {}
  OBVIOUS
<1> HIDE DEF new
<1>4. /\ session' \in Session
      /\ session'.next = session.next + rows /\ session'.durable = session.durable
      /\ session'.dropped = session.dropped /\ session'.epoch = session.epoch
      /\ session'.poisoned = session.poisoned
  <2>1. session.next + rows \in 1..(MaxLsns + 1)
    BY <1>0, <1>1
  <2> QED BY <1>0, <1>1, <2>1
<1>5. /\ \A row \in batch : session'.durable < row.lsn /\ row.lsn < session'.next
      /\ session'.durable < session'.next /\ batch \subseteq Rows
  BY <1>1, <1>2, <1>4 DEF Rows
<1>6. /\ batch # {} => last \in 1..MaxLsns
      /\ rows = 1 => last = session.next
  <2> SUFFICES ASSUME batch # {}
               PROVE  last \in 1..MaxLsns /\ (rows = 1 => last = session.next)
    BY <1>3
  <2> DEFINE L == {row.lsn : row \in batch}
  <2>1. L \subseteq 0..MaxLsns /\ L # {} /\ L \subseteq 1..MaxLsns
    BY <1>1, <1>5 DEF Rows
  <2>2. last \in L /\ \A y \in L : y <= last
    <3> HIDE DEF L, batch
    <3>1. last = Max(L) BY DEF L
    <3> QED BY <1>1, <2>1, <3>1, BoundedMax
  <2>3. \A y \in L : y <= session.next
    BY <1>1, <1>2 DEF Rows
  <2>4. rows = 1 => session.next \in L
    BY <1>3
  <2> HIDE DEF L, last
  <2> QED BY <1>1, <2>1, <2>2, <2>3, <2>4
<1> HIDE DEF last
<1>7. \/ /\ batch = {} /\ answer' = [answer EXCEPT ![w] = "ok"] /\ waiters' = waiters
      \/ /\ batch # {} /\ answer' = [answer EXCEPT ![w] = "waiting"]
         /\ waiters' = waiters \cup {x0}
  BY DEF Stage, new, last
<1>8. /\ waiters' \subseteq Waiter /\ answer' \in [Writes -> Answers]
      /\ waiters \subseteq waiters'
      /\ \A x \in waiters' : x \in waiters \/ (x.w = w /\ x.lsn = last /\ x.dropped = session.dropped)
      /\ \A v \in Writes : v # w => answer'[v] = answer[v]
      /\ answer'[w] \in {"ok", "waiting"}
      /\ rows = 1 => answer'[w] = "waiting"
  BY <1>1, <1>3, <1>6, <1>7 DEF Waiter, Answers
<1>9. \A x \in waiters : x.w # w /\ x.w \in Writes
  BY <1>0, <1>1 DEF Staged, Waiter
<1>u. \A row \in pending : row.w # w
  BY <1>1 DEF Staged
<1> HIDE DEF batch
<1>10. Shape'
  BY <1>0, <1>4, <1>5, <1>8 DEF Shape, GrpTypeOK, Waiter
<1>11. Phases' /\ Epochs'
  BY <1>0, <1>1, <1>4 DEF Phases, Epochs
<1>b. \A row \in batch : row \in pending \/ row \in new
  BY DEF batch
<1>12. Staged'
  <2>1. \A v \in Writes : answer'[v] = "idle" => v \notin wrote'
    BY <1>0, <1>8 DEF Staged
  <2>2. store'.writes \cup {row.w : row \in pending'} \subseteq wrote' \cup {TxWrite}
    BY <1>0, <1>2, <1>b DEF Staged
  <2>3. \A x \in waiters' :
          /\ answer'[x.w] # "idle" /\ x.dropped <= session'.dropped
          /\ \A row \in pending' : row.w = x.w => row.lsn = x.lsn /\ x.dropped = session'.dropped
    <3> SUFFICES ASSUME NEW x \in waiters'
                 PROVE  /\ answer'[x.w] # "idle" /\ x.dropped <= session'.dropped
                        /\ \A row \in batch : row.w = x.w =>
                              row.lsn = x.lsn /\ x.dropped = session'.dropped
      BY <1>0
    <3>1. CASE x \in waiters
      BY <3>1, <1>2, <1>4, <1>8, <1>9, <1>b DEF Staged
    <3>2. CASE x.w = w /\ x.lsn = last /\ x.dropped = session.dropped
      BY <3>2, <1>1, <1>2, <1>4, <1>6, <1>8, <1>b, <1>u
    <3> QED BY <3>1, <3>2, <1>8
  <2> QED BY <2>1, <2>2, <2>3 DEF Staged
<1>13. Covered'
  <2> SUFFICES ASSUME NEW x \in waiters', x.w \in wrote', x.dropped = session'.dropped
               PROVE  \/ \E row \in pending' : row.w = x.w /\ row.lsn = x.lsn
                      \/ x.w \in store'.writes /\ x.w \in published'.writes
    BY DEF Covered
  <2>1. CASE x \in waiters
    BY <2>1, <1>0, <1>4, <1>9 DEF Covered, batch
  <2>2. CASE x.w = w /\ x.lsn = last
    <3>1. rows = 1
      BY <2>2, <1>0, <1>1
    <3> QED BY <3>1, <2>2, <1>0, <1>3, <1>6 DEF batch
  <2> QED BY <2>1, <2>2, <1>8
<1>14. Unapplied'
  <2>1. w \notin store.writes
    BY <1>1 DEF Staged
  <2> QED BY <2>1, <1>0, <1>1, <1>2, <1>8, <1>b DEF Unapplied
<1>15. AckedVisible'
  BY <1>0, <1>1, <1>8 DEF AckedVisible, Shape
<1>16. Reported'
  BY <1>0, <1>4 DEF Reported, Recovering, Sick
<1> QED BY <1>10, <1>11, <1>12, <1>13, <1>14, <1>15, <1>16

\* A holder of the mutex settles the waiters against the session as it is: who
\* is told "ok" was covered by an earlier commit, who is told "lost" has nothing
\* in the batch.
LEMMA CommitGroupStep ==
  ASSUME GrpInv, NEW h \in Settlers, CommitGroup(h)
  PROVE  GrpInv'
<1> USE DEF GrpInv
<1>0. /\ mutex = "free" /\ h \in {"committer", "flush", "tx"} /\ Settle(session)
      /\ UNCHANGED <<pending, session, notified, store, published, health, probe, policy,
                     evicted, wrote>>
  BY DEF CommitGroup, Settlers
<1>1. \/ /\ pending = {} /\ phase' \in {"none", "flush", "tx"}
         /\ mutex' \in {"free", "flush", "tx"} /\ (mutex' = "free" <=> phase' = "none")
      \/ pending # {} /\ phase' = "commit" /\ mutex' = h
  BY <1>0 DEF CommitGroup, Release, Onward
<1>2. committer' \in {"wait", "window", "locked", "gone"}
  BY DEF CommitGroup, Release, Shape, GrpTypeOK
<1>3. /\ session.durable \in Nat /\ phase = "none" /\ waiters \subseteq Waiter
      /\ \A row \in pending : row.lsn \in Nat /\ session.durable < row.lsn
  BY <1>0 DEF Shape, GrpTypeOK, Phases, Waiter, Rows
<1>4. /\ answer' \in [Writes -> Answers]
      /\ waiters' = {x \in waiters : x.dropped = session.dropped /\ session.durable < x.lsn}
      /\ \A w \in Writes : answer'[w] # answer[w] =>
           /\ answer[w] = "waiting"
           /\ \/ answer'[w] = "waiting"
              \/ /\ answer'[w] = "ok"
                 /\ \E x \in waiters : x.w = w /\ x.dropped = session.dropped
                                               /\ x.lsn <= session.durable
              \/ /\ answer'[w] = "lost"
                 /\ \E x \in waiters : x.w = w /\ x.dropped # session.dropped
  BY <1>0, <1>3, SettleWhat
<1>5. waiters' \subseteq waiters /\ \A x \in waiters : x.w \in Writes /\ x.lsn \in Nat
  BY <1>3, <1>4 DEF Waiter
<1>6. Shape'
  BY <1>0, <1>1, <1>2, <1>4 DEF Shape, GrpTypeOK, Holders
<1>7. Phases'
  BY <1>0, <1>1 DEF Phases, Settlers
<1>8. Epochs'
  BY <1>0 DEF Epochs
<1>9. Staged'
  <2>1. \A w \in Writes : answer'[w] = "idle" <=> answer[w] = "idle"
    BY <1>4
  <2> QED BY <2>1, <1>0, <1>5 DEF Staged
<1>10. Covered'
  BY <1>0, <1>5 DEF Covered
<1>11. Unapplied'
  <2> SUFFICES ASSUME ~evicted
               PROVE  /\ \A x \in waiters' : x.w \notin store.writes
                      /\ \A w \in Writes : answer'[w] = "lost"
                            => w \notin store.writes /\ \A row \in pending : row.w # w
    BY <1>0 DEF Unapplied
  <2>1. \A x \in waiters : x.w \notin store.writes
    BY <1>3 DEF Unapplied
  <2>2. \A x \in waiters : x.dropped # session.dropped => \A row \in pending : row.w # x.w
    BY DEF Staged
  <2>3. \A w \in Writes : answer'[w] = "lost"
            => w \notin store.writes /\ \A row \in pending : row.w # w
    BY <1>4, <2>1, <2>2 DEF Unapplied
  <2> QED BY <1>5, <2>1, <2>3
<1>12. AckedVisible'
  <2> SUFFICES ASSUME NEW w \in wrote, answer'[w] = "ok"
               PROVE  w \in store.writes /\ w \in published.writes
    BY <1>0 DEF AckedVisible
  <2>1. w \in Writes
    BY DEF Shape
  <2>2. CASE answer[w] = "ok"
    BY <2>2 DEF AckedVisible
  <2>3. CASE answer[w] # "ok"
    <3>1. PICK x \in waiters : x.w = w /\ x.dropped = session.dropped /\ x.lsn <= session.durable
      BY <1>4, <2>1, <2>3
    <3>2. ~\E row \in pending : row.w = x.w /\ row.lsn = x.lsn
      BY <1>3, <1>5, <3>1
    <3> QED BY <3>1, <3>2 DEF Covered
  <2> QED BY <2>2, <2>3
<1>13. Reported'
  BY <1>0, <1>1 DEF Reported, Recovering, Sick
<1> QED BY <1>6, <1>7, <1>8, <1>9, <1>10, <1>11, <1>12, <1>13

\* A commit that succeeds stores and publishes the batch, then settles.
LEMMA CommitOkStep ==
  ASSUME GrpInv, CommitOk
  PROVE  GrpInv'
<1> USE DEF GrpInv
<1> DEFINE s == [session EXCEPT !.durable = StagedLastLsn]
<1>0. /\ phase = "commit" /\ pending # {} /\ pending' = {} /\ session' = s
      /\ store' = Sealed /\ published' = [writes |-> Sealed.writes, epoch |-> session.epoch]
      /\ Settle(s) /\ Release(mutex)
      /\ UNCHANGED <<notified, health, probe, policy, evicted, wrote>>
  BY DEF CommitOk, Phases, Publish
<1>1. /\ session \in Session
      /\ waiters \subseteq Waiter /\ pending \subseteq Rows /\ mutex \in Settlers
  BY <1>0 DEF Shape, GrpTypeOK, Phases, Waiter
<1>2. /\ StagedLastLsn \in 1..MaxLsns /\ StagedLastLsn < session.next
      /\ \A row \in pending : row.lsn <= StagedLastLsn
  BY <1>0, StagedLast
<1>3. /\ s \in Session
      /\ s.durable = StagedLastLsn /\ s.durable \in Nat /\ s.next = session.next
      /\ s.dropped = session.dropped /\ s.epoch = session.epoch /\ s.poisoned = session.poisoned
  BY <1>1, <1>2
<1> HIDE DEF s
<1>4. /\ answer' \in [Writes -> Answers]
      /\ waiters' = {x \in waiters : x.dropped = s.dropped /\ s.durable < x.lsn}
      /\ \A w \in Writes : answer'[w] # answer[w] =>
           /\ answer[w] = "waiting"
           /\ \/ answer'[w] = "waiting"
              \/ /\ answer'[w] = "ok"
                 /\ \E x \in waiters : x.w = w /\ x.dropped = s.dropped /\ x.lsn <= s.durable
              \/ /\ answer'[w] = "lost"
                 /\ \E x \in waiters : x.w = w /\ x.dropped # s.dropped
  BY <1>0, <1>3, SettleWhat
<1>5. /\ waiters' \subseteq waiters
      /\ \A x \in waiters : x.w \in Writes /\ x.lsn \in Nat
      /\ \A row \in pending : row.lsn \in Nat
  BY <1>1, <1>4 DEF Waiter, Rows
<1>6. /\ store' \in Store /\ store'.epoch = store.epoch /\ store'.owner = store.owner
      /\ store'.writes = store.writes \cup {row.w : row \in pending}
      /\ published' \in Cell /\ published'.writes = store'.writes
      /\ published'.epoch = session.epoch
  <2>1. /\ Sealed \in Store /\ Sealed.writes = store.writes \cup {row.w : row \in pending}
        /\ Sealed.epoch = store.epoch /\ Sealed.owner = store.owner
    BY <1>0, SealedWhat
  <2> QED BY <1>0, <1>1, <2>1 DEF Store, Cell
<1>7. /\ phase' \in {"none", "flush", "tx"} /\ mutex' \in {"free", "flush", "tx"}
      /\ mutex' = "free" <=> phase' = "none"
      /\ committer' \in {"wait", "window", "locked", "gone"}
  <2>1. mutex \in {"committer", "flush", "tx"}
    BY <1>1 DEF Settlers
  <2> QED BY <1>0, <2>1 DEF Release, Onward, Shape, GrpTypeOK
<1>8. Shape'
  BY <1>0, <1>2, <1>3, <1>4, <1>6, <1>7, <1>5, <1>1
     DEF Shape, GrpTypeOK, Holders, Waiter, Store, Cell
<1>9. Phases'
  BY <1>0, <1>7 DEF Phases
<1>10. Epochs'
  BY <1>0, <1>3, <1>6 DEF Epochs
<1>11. Staged'
  <2>1. \A w \in Writes : answer'[w] = "idle" <=> answer[w] = "idle"
    BY <1>4
  <2> QED BY <2>1, <1>0, <1>3, <1>5, <1>6 DEF Staged
<1>12. \A x \in waiters' : ~\E row \in pending : row.w = x.w
  BY <1>2, <1>3, <1>4, <1>5 DEF Staged
<1>13. Covered'
  BY <1>0, <1>3, <1>5, <1>6, <1>12 DEF Covered
<1>14. Unapplied'
  <2> SUFFICES ASSUME ~evicted
               PROVE  /\ \A x \in waiters' : x.w \notin store'.writes
                      /\ \A w \in Writes : answer'[w] = "lost" => w \notin store'.writes
    BY <1>0 DEF Unapplied
  <2>1. \A x \in waiters : x.w \notin store.writes
    BY <1>0 DEF Unapplied
  <2>2. \A x \in waiters : x.dropped # session.dropped => \A row \in pending : row.w # x.w
    BY DEF Staged
  <2>3. \A w \in Writes : answer'[w] = "lost"
            => w \notin store.writes /\ \A row \in pending : row.w # w
    BY <1>3, <1>4, <2>1, <2>2 DEF Unapplied
  <2> QED BY <1>5, <1>6, <1>12, <2>1, <2>3
<1>15. AckedVisible'
  <2> SUFFICES ASSUME NEW w \in wrote, answer'[w] = "ok"
               PROVE  w \in store'.writes
    BY <1>0, <1>6 DEF AckedVisible
  <2>1. w \in Writes
    BY DEF Shape
  <2>2. CASE answer[w] = "ok"
    BY <2>2, <1>6 DEF AckedVisible
  <2>3. CASE answer[w] # "ok"
    <3>1. PICK x \in waiters : x.w = w /\ x.dropped = session.dropped
      BY <1>3, <1>4, <2>1, <2>3
    <3> QED BY <1>6, <3>1 DEF Covered
  <2> QED BY <2>2, <2>3
<1>16. Reported'
  BY <1>0, <1>3, <1>6, <1>7 DEF Reported, Recovering, Sick, Epochs
<1> QED BY <1>8, <1>9, <1>10, <1>11, <1>13, <1>14, <1>15, <1>16

\* How a request can fail: only a commit or a seal poisons or lands, and only a
\* stale epoch is reported as a fence.
LEMMA FailuresWhat ==
  ASSUME GrpInv, NEW f \in Failures
  PROVE  /\ f.err \in {"other", "fenced", "cas"} /\ f.landed \in BOOLEAN
         /\ f.s \in Session /\ f.s.next = session.next /\ f.s.durable = session.durable
         /\ f.s.epoch = session.epoch /\ f.s.dropped = session.dropped
         /\ f.s.poisoned => session.poisoned \/ Seals
         /\ f.err = "fenced" => session.epoch < store.epoch
         /\ f.landed => Seals
<1> DEFINE sessions == {session} \cup IF Seals THEN {[session EXCEPT !.poisoned = TRUE]} ELSE {}
           passed == sessions \cup {[s EXCEPT !.behind = TRUE] : s \in sessions}
           overtaken == IF session.epoch # store.epoch THEN {"fenced", "cas"}
                        ELSE IF session.behind THEN {"cas"} ELSE {}
           other == [err |-> "other", s |-> session, landed |-> FALSE, cost |-> 0]
           Like(s) == /\ s \in Session /\ s.next = session.next /\ s.durable = session.durable
                      /\ s.epoch = session.epoch /\ s.dropped = session.dropped
                      /\ s.poisoned => session.poisoned \/ Seals
<1>1. session \in Session /\ session.epoch \in Nat /\ store.epoch \in Nat
      /\ session.epoch <= store.epoch
  BY DEF GrpInv, Shape, GrpTypeOK, Store, Epochs
<1>2. \A s \in sessions : Like(s)
  BY <1>1
<1>3. \A s \in passed : Like(s)
  <2>1. \A s \in sessions : Like([s EXCEPT !.behind = TRUE])
    <3> SUFFICES ASSUME NEW s \in sessions PROVE Like([s EXCEPT !.behind = TRUE])
      OBVIOUS
    <3>1. Like(s)
      BY <1>2
    <3> HIDE DEF sessions
    <3> QED BY <3>1
  <2> HIDE DEF Like, sessions
  <2> QED BY <1>2, <2>1
<1>4. \/ f = other
      \/ f \in [err: overtaken, s: sessions, landed: {FALSE}, cost: {0}]
      \/ /\ f \in [err: {"other"}, s: passed, landed: BOOLEAN, cost: {1}]
         /\ f.landed => Seals
  <2> HIDE DEF sessions, passed, overtaken, other
  <2>1. Failures = IF session.poisoned /\ phase # "ddl" THEN {other}
                   ELSE [err: overtaken, s: sessions, landed: {FALSE}, cost: {0}]
                        \cup (IF phase = "ddl" THEN {other} ELSE {})
                        \cup {g \in [err: {"other"}, s: passed, landed: BOOLEAN, cost: {1}] :
                                /\ trouble < MaxTrouble
                                /\ g.landed => Seals /\ Sound /\ g.s.behind}
    BY DEF Failures, sessions, passed, overtaken, other
  <2> QED BY <2>1
<1>5. CASE f = other
  BY <1>5, <1>1
<1>6. CASE f \in [err: overtaken, s: sessions, landed: {FALSE}, cost: {0}]
  <2>1. f.s \in sessions /\ f.err \in overtaken /\ f.landed = FALSE
    <3> HIDE DEF sessions, overtaken
    <3> QED BY <1>6
  <2>2. f.err \in {"fenced", "cas"} /\ (f.err = "fenced" => session.epoch < store.epoch)
    BY <2>1, <1>1
  <2>3. Like(f.s)
    <3> HIDE DEF sessions, Like
    <3> QED BY <2>1, <1>2
  <2> QED BY <2>1, <2>2, <2>3
<1>7. CASE /\ f \in [err: {"other"}, s: passed, landed: BOOLEAN, cost: {1}]
           /\ f.landed => Seals
  <2>1. f.s \in passed /\ f.err = "other" /\ f.landed \in BOOLEAN
    <3> HIDE DEF sessions, passed
    <3> QED BY <1>7
  <2>3. Like(f.s)
    <3> HIDE DEF passed, Like
    <3> QED BY <2>1, <1>3
  <2> QED BY <1>7, <2>1, <2>3
<1> QED BY <1>4, <1>5, <1>6, <1>7

\* What a failure makes of the session, of the store and of the report, and
\* whether a recovery follows.
LEMMA FailsWhat ==
  ASSUME GrpInv, NEW next \in {"recover", "reopen"}, Fails(next)
  PROVE  /\ UNCHANGED <<notified, published, probe, policy, evicted, wrote>>
         /\ session' \in Session
         /\ session'.next = session.next /\ session'.durable = session.durable
         /\ session'.epoch = session.epoch
         /\ \/ /\ Seals /\ pending # {} /\ pending' = {}
               /\ session'.dropped = session.dropped + 1
            \/ ~Seals /\ pending' = pending /\ session'.dropped = session.dropped
         /\ store' = store \/ (store' = Sealed /\ Seals)
         /\ health' \in [reason: {"none", "probe", "writer"}, yielded: BOOLEAN, masked: BOOLEAN]
         /\ \/ /\ LetGo
               /\ next = "recover" => WakeAllErr
               /\ next = "reopen" => UNCHANGED <<answer, waiters>>
               /\ \/ health' = health /\ (session'.poisoned => health.yielded \/ session.poisoned)
                  \/ /\ health'.reason = "writer"
                     /\ policy = "yield" /\ session.epoch < store.epoch
            \/ /\ phase' = next /\ UNCHANGED <<mutex, committer, answer, waiters>>
               /\ health'.reason = "writer" /\ ~health'.yielded
<1> USE DEF GrpInv
<1>1. PICK f \in Failures : LET s == IF Seals THEN Discarded(f.s) ELSE f.s IN
        /\ session' = s
        /\ pending' = IF Seals THEN {} ELSE pending
        /\ store' = IF f.landed THEN Sealed ELSE store
        /\ IF LeavesRetired \/ StaysDown(f.err, s)
           THEN /\ IF ~LeavesRetired /\ f.err = "fenced" /\ ~health.yielded
                   THEN MarkDegraded(TRUE) ELSE UNCHANGED health
                /\ LetGo
                /\ IF next = "recover" THEN WakeAllErr ELSE UNCHANGED <<answer, waiters>>
           ELSE /\ MarkDegraded(FALSE)
                /\ phase' = next
                /\ UNCHANGED <<mutex, committer, answer, waiters>>
        /\ UNCHANGED <<notified, published, probe, policy, evicted, wrote>>
  BY DEF Fails
<1>2. /\ session \in Session /\ session.dropped \in Nat /\ health.yielded \in BOOLEAN
      /\ health \in [reason: {"none", "probe", "writer"}, yielded: BOOLEAN, masked: BOOLEAN]
  BY DEF Shape, GrpTypeOK
<1>3. /\ f.err \in {"other", "fenced", "cas"} /\ f.landed \in BOOLEAN
      /\ f.s \in Session /\ f.s.next = session.next /\ f.s.durable = session.durable
      /\ f.s.epoch = session.epoch /\ f.s.dropped = session.dropped
      /\ f.s.poisoned => session.poisoned \/ Seals
      /\ f.err = "fenced" => session.epoch < store.epoch
      /\ f.landed => Seals
  BY FailuresWhat
<1>4. Seals => pending # {} /\ ~LeavesRetired
  BY DEF Seals, Phases, LeavesRetired
<1>5. /\ session' \in Session
      /\ session'.next = session.next /\ session'.durable = session.durable
      /\ session'.epoch = session.epoch /\ session'.poisoned = f.s.poisoned
      /\ \/ /\ Seals /\ pending # {} /\ pending' = {}
            /\ session'.dropped = session.dropped + 1
         \/ ~Seals /\ pending' = pending /\ session'.dropped = session.dropped
  <2>1. CASE Seals
    <3>1. session' = [f.s EXCEPT !.dropped = @ + 1] /\ pending' = {}
      BY <1>1, <1>4, <2>1 DEF Discarded
    <3> QED BY <1>2, <1>3, <1>4, <2>1, <3>1
  <2>2. CASE ~Seals
    BY <1>1, <1>3, <2>2
  <2> QED BY <2>1, <2>2
<1>6. UNCHANGED <<notified, published, probe, policy, evicted, wrote>>
      /\ (store' = store \/ (store' = Sealed /\ Seals))
  BY <1>1, <1>3
<1>8. CASE LeavesRetired \/ StaysDown(f.err, session')
  <2>1. /\ IF ~LeavesRetired /\ f.err = "fenced" /\ ~health.yielded
           THEN MarkDegraded(TRUE) ELSE UNCHANGED health
        /\ LetGo
        /\ IF next = "recover" THEN WakeAllErr ELSE UNCHANGED <<answer, waiters>>
    BY <1>1, <1>8
  <2>2. CASE ~LeavesRetired /\ f.err = "fenced" /\ ~health.yielded
    <3>1. health' = [reason |-> "writer", yielded |-> health.yielded \/ TRUE, masked |-> FALSE]
      BY <2>1, <2>2 DEF MarkDegraded
    <3>2. /\ health' \in [reason: {"none", "probe", "writer"}, yielded: BOOLEAN, masked: BOOLEAN]
          /\ health'.reason = "writer"
      BY <3>1
    <3>3. policy = "yield" /\ session.epoch < store.epoch
      BY <1>3, <1>8, <2>2 DEF StaysDown
    <3> QED BY <1>5, <1>6, <2>1, <3>2, <3>3
  <2>3. CASE ~(~LeavesRetired /\ f.err = "fenced" /\ ~health.yielded)
    <3>1. health' = health
      BY <2>1, <2>3
    <3>2. session'.poisoned => health.yielded \/ session.poisoned
      <4>1. CASE LeavesRetired
        BY <4>1, <1>3, <1>4, <1>5
      <4>2. CASE ~LeavesRetired
        BY <4>2, <1>8, <2>3 DEF StaysDown
      <4> QED BY <4>1, <4>2
    <3> QED BY <1>2, <1>5, <1>6, <2>1, <3>1, <3>2
  <2> QED BY <2>2, <2>3
<1>9. CASE ~(LeavesRetired \/ StaysDown(f.err, session'))
  <2>1. /\ health' = [reason |-> "writer", yielded |-> health.yielded \/ FALSE, masked |-> FALSE]
        /\ phase' = next /\ UNCHANGED <<mutex, committer, answer, waiters>>
    BY <1>1, <1>9 DEF MarkDegraded
  <2>2. ~health.yielded
    BY <1>9 DEF StaysDown, Reported
  <2>3. /\ health' \in [reason: {"none", "probe", "writer"}, yielded: BOOLEAN, masked: BOOLEAN]
        /\ health'.reason = "writer" /\ ~health'.yielded
    BY <1>2, <2>1, <2>2
  <2> QED BY <1>5, <1>6, <2>1, <2>3
<1> QED BY <1>8, <1>9

\* A failed commit or seal drops the batch: who waited for a row of it is
\* counted out by dropped_batches, whether or not the rows landed. A failed flush
\* or schema statement leaves the batch as it was.
LEMMA FailsStep ==
  ASSUME GrpInv, NEW next \in {"recover", "reopen"}, Fails(next),
         next = "recover" => phase = "commit",
         next = "reopen" => phase \in {"flush", "seal", "ddl"}
  PROVE  GrpInv'
<1> USE DEF GrpInv
<1> DEFINE Stays == /\ LetGo
                    /\ next = "recover" => WakeAllErr
                    /\ next = "reopen" => UNCHANGED <<answer, waiters>>
                    /\ \/ /\ health' = health
                          /\ session'.poisoned => health.yielded \/ session.poisoned
                       \/ /\ health'.reason = "writer"
                          /\ policy = "yield" /\ session.epoch < store.epoch
           Goes == /\ phase' = next /\ UNCHANGED <<mutex, committer, answer, waiters>>
                   /\ health'.reason = "writer" /\ ~health'.yielded
<1>0. /\ UNCHANGED <<notified, published, probe, policy, evicted, wrote>>
      /\ session' \in Session
      /\ session'.next = session.next /\ session'.durable = session.durable
      /\ session'.epoch = session.epoch
      /\ \/ /\ Seals /\ pending # {} /\ pending' = {}
            /\ session'.dropped = session.dropped + 1
         \/ ~Seals /\ pending' = pending /\ session'.dropped = session.dropped
      /\ store' = store \/ (store' = Sealed /\ Seals)
      /\ health' \in [reason: {"none", "probe", "writer"}, yielded: BOOLEAN, masked: BOOLEAN]
      /\ Stays \/ Goes
  BY FailsWhat
<1>1. /\ session.dropped \in Nat /\ waiters \subseteq Waiter /\ answer \in [Writes -> Answers]
      /\ \A x \in waiters : x.w \in Writes /\ x.dropped \in Nat /\ x.dropped <= session.dropped
      /\ mutex # "free" /\ mutex \in Holders
      /\ committer \in {"wait", "window", "locked", "gone"} /\ TxWrite \notin Writes
  BY GroupAssumption DEF Shape, GrpTypeOK, Waiter, Staged, Phases
<1>s. next = "recover" => Seals
  BY DEF Seals
<1>2. /\ store' \in Store /\ store'.epoch = store.epoch /\ store'.owner = store.owner
      /\ store.writes \subseteq store'.writes
      /\ store'.writes \subseteq store.writes \cup {row.w : row \in pending}
      /\ ~Seals => store' = store
  BY <1>0, SealedWhat DEF Shape
<1>3. /\ answer' \in [Writes -> Answers] /\ (waiters' = {} \/ waiters' = waiters)
      /\ next = "recover" /\ phase' # "recover" => waiters' = {}
      /\ \A w \in Writes : answer'[w] = answer[w]
                             \/ (answer[w] = "waiting" /\ answer'[w] = "error")
  <2>1. CASE Stays /\ next = "recover"
    BY <2>1, WakeWhat
  <2>2. CASE Stays /\ next = "reopen"
    BY <2>2, <1>1
  <2>3. CASE Goes
    BY <2>3, <1>1
  <2> QED BY <1>0, <2>1, <2>2, <2>3
<1>4. /\ (mutex' = "free" /\ phase' = "none") \/ (mutex' = mutex /\ phase' = next)
      /\ committer' \in {"wait", "window", "locked", "gone"}
  BY <1>0, <1>1 DEF LetGo
<1>5. Shape'
  BY <1>0, <1>2, <1>3, <1>4 DEF Shape, GrpTypeOK, Store, Holders
<1>6. Phases'
  BY <1>0, <1>1, <1>4, <1>s DEF Phases
<1>7. Epochs'
  BY <1>0, <1>2 DEF Epochs
<1>8. Staged'
  <2>1. session.dropped <= session'.dropped
    BY <1>0, <1>1
  <2>2. \A x \in waiters' : x \in waiters /\ x.dropped <= session'.dropped
    BY <1>0, <1>1, <1>3, <2>1
  <2>3. \A w \in Writes : answer'[w] = "idle" <=> answer[w] = "idle"
    BY <1>3
  <2>4. store'.writes \cup {row.w : row \in pending'} \subseteq wrote \cup {TxWrite}
    BY <1>0, <1>2 DEF Staged
  <2>5. \A x \in waiters' : \A row \in pending' :
          row.w = x.w => row.lsn = x.lsn /\ x.dropped = session'.dropped
    BY <1>0, <2>2 DEF Staged
  <2> QED BY <1>0, <1>1, <2>2, <2>3, <2>4, <2>5 DEF Staged
<1>9. Covered'
  <2>1. CASE ~Seals
    BY <2>1, <1>0, <1>2, <1>3 DEF Covered
  <2>2. CASE Seals
    BY <2>2, <1>0, <1>1, <1>3 DEF Covered
  <2> QED BY <2>1, <2>2
<1>10. Unapplied'
  <2> SUFFICES ASSUME ~evicted
               PROVE  /\ phase' # "recover" => \A x \in waiters' : x.w \notin store'.writes
                      /\ \A w \in Writes : answer'[w] = "lost"
                            => w \notin store'.writes /\ \A row \in pending' : row.w # w
    BY <1>0 DEF Unapplied
  <2>1. \A w \in Writes : answer'[w] = "lost" => answer[w] = "lost"
    BY <1>3
  <2>2. \A w \in Writes : answer'[w] = "lost"
            => w \notin store'.writes /\ \A row \in pending' : row.w # w
    BY <1>0, <1>2, <2>1 DEF Unapplied
  <2>3. next = "reopen" => \A x \in waiters : x.w \notin store'.writes
    <3>1. next = "reopen" /\ Seals => \A row \in pending : row.w = TxWrite
      BY DEF Phases, Seals
    <3>2. next = "reopen" => \A x \in waiters : x.w \notin store.writes
      BY DEF Unapplied
    <3> QED BY <3>1, <3>2, <1>1, <1>2
  <2> QED BY <1>3, <2>2, <2>3
<1>11. AckedVisible'
  BY <1>0, <1>2, <1>3 DEF AckedVisible, Shape
<1>12. Reported'
  <2>1. CASE Stays /\ health' = health /\ (session'.poisoned => health.yielded \/ session.poisoned)
    BY <2>1, <1>0, <1>2 DEF Reported, Sick, Recovering, LetGo
  <2>2. CASE Stays /\ health'.reason = "writer" /\ policy = "yield" /\ session.epoch < store.epoch
    BY <2>2, <1>0, <1>2 DEF Reported, Sick, Recovering, LetGo
  <2>3. CASE Goes
    BY <2>3 DEF Reported, Sick
  <2> QED BY <1>0, <2>1, <2>2, <2>3
<1> QED BY <1>5, <1>6, <1>7, <1>8, <1>9, <1>10, <1>11, <1>12

\* The inductive invariant holds at the start.
LEMMA GrpStarts == GrpInit => GrpInv
<1> SUFFICES ASSUME GrpInit PROVE GrpInv
  OBVIOUS
<1>1. Shape
  <2>1. store \in Store /\ published \in Cell
    BY GroupAssumption DEF GrpInit, Store, Cell
  <2>2. session \in Session
    BY GroupAssumption DEF GrpInit
  <2>3. health \in [reason: {"none", "probe", "writer"}, yielded: BOOLEAN, masked: BOOLEAN]
        /\ probe \in [on: BOOLEAN, observed: Nat, local: Nat]
    BY DEF GrpInit
  <2>4. session.durable < session.next
    BY DEF GrpInit
  <2>5. answer \in [Writes -> Answers]
    BY DEF GrpInit, Answers
  <2>6. store.writes = {} /\ published.writes = {}
    BY DEF GrpInit
  <2> QED BY <2>1, <2>2, <2>3, <2>4, <2>5, <2>6 DEF GrpInit, Shape, GrpTypeOK, Holders
<1>2. Phases /\ Epochs /\ Covered /\ Unapplied /\ Reported /\ AckedVisible
  BY DEF GrpInit, Phases, Epochs, Covered, Unapplied, Reported, AckedVisible, Recovering
<1>3. Staged
  BY DEF GrpInit, Staged
<1> QED BY <1>1, <1>2, <1>3 DEF GrpInv

\* Every step keeps the inductive invariant.
LEMMA GrpInductive == GrpInv /\ [GrpNext]_grpVars => GrpInv'
<1> SUFFICES ASSUME GrpInv, [GrpNext]_grpVars PROVE GrpInv'
  OBVIOUS
<1>1. CASE \E w \in Writes : \/ \E rows \in 0..1 : Stage(w, rows)
                             \/ StageFails(w) \/ Deadline(w)
  BY <1>1, StageStep, StageFailsStep, DeadlineStep
<1>2. CASE Wake \/ (\E h \in Settlers : CommitGroup(h)) \/ (\E h \in Installers : DdlStart(h))
  BY <1>2, WakeStep, CommitGroupStep, DdlStartStep
<1>3. CASE CommitStep
  BY <1>3, CommitOkStep, FailsStep DEF CommitStep, CommitFails
<1>4. CASE ReopenStep
  BY <1>4, ReopenOkStep, ReopenYieldsStep, ReopenFailsStep DEF ReopenStep
<1>5. CASE FlushStep
  BY <1>5, InstallStep, FailsStep DEF FlushStep, FlushOk, FlushFails
<1>6. CASE TxCommit \/ TxRollback
  BY <1>6, TxCommitStep, TxRollbackStep
<1>7. CASE SealStep
  BY <1>7, SealOkStep, FailsStep DEF SealStep, SealFails
<1>8. CASE ProbeStep
  BY <1>8, ProbeLoadStep, ProbeLocalStep, ProbeReportStep DEF ProbeStep
<1>9. CASE PeerOpens \/ Evict
  BY <1>9, PeerOpensStep, EvictStep
<1>10. CASE CommitterStops \/ Abort
  BY <1>10, CommitterStopsStep, AbortStep
<1>d. CASE DdlStep
  BY <1>d, InstallStep, FailsStep DEF DdlStep, DdlOk, DdlFails
<1>11. CASE UNCHANGED grpVars
  BY <1>11 DEF grpVars, GrpInv, Shape, GrpTypeOK, Phases, Epochs, Staged, Covered, Unapplied,
               Reported, Recovering, Sick, AckedVisible
<1> QED BY <1>1, <1>2, <1>3, <1>4, <1>5, <1>6, <1>7, <1>8, <1>9, <1>10, <1>11, <1>d DEF GrpNext

\* The inductive invariant holds in every behaviour.
LEMMA GrpInvariant == GrpSpec => []GrpInv
BY GrpStarts, GrpInductive, PTL DEF GrpSpec

\* The fields of the group, the session and the health keep their shape, and
\* staged rows lie between the durable watermark and the next LSN, across
\* discards and reopens on a store that moved. (ingest.rs, recovery.rs.)
THEOREM GrpTypeCorrect == GrpSpec => []GrpTypeOK
<1>1. GrpInv => GrpTypeOK
  BY DEF GrpInv, Shape
<1> QED BY <1>1, GrpInvariant, PTL

\* A grouped write is acknowledged only when its row is durable and published,
\* for every number of writes, failures, claims of peers and transactions.
THEOREM AckedVisibleCorrect == GrpSpec => []AckedVisible
<1>1. GrpInv => AckedVisible
  BY DEF GrpInv
<1> QED BY <1>1, GrpInvariant, PTL

\* GROUP_ROWS_DROPPED is sent only for rows that no commit took.
THEOREM LostCorrect == GrpSpec => []LostNeverApplied
<1>1. GrpInv => LostNeverApplied
  BY DEF GrpInv, Unapplied, LostNeverApplied
<1> QED BY <1>1, GrpInvariant, PTL

\* A writer that yielded, or is poisoned and was not masked by a stale probe,
\* does not report healthy.
THEOREM BrokenCorrect == GrpSpec => []BrokenIsDegraded
<1>1. GrpInv => BrokenIsDegraded
  BY DEF GrpInv, Reported, Sick, BrokenIsDegraded
<1> QED BY <1>1, GrpInvariant, PTL

\* Under FencePolicy::Yield a namespace that a peer has claimed stays the peer's:
\* the peer's epoch is above the session's, and reopen_unless_claimed refuses.
LEMMA ClaimStands ==
  ASSUME GrpInv, GrpNext, policy = "yield", store.owner = "peer"
  PROVE  store'.owner = "peer"
<1>1. session.epoch < store.epoch /\ session.epoch \in Nat /\ store.epoch \in Nat
  BY DEF GrpInv, Epochs, Shape, GrpTypeOK, Store
<1>2. ~MayClaim
  BY <1>1 DEF MayClaim
<1>3. pending # {} => Sealed.owner = "peer"
  BY SealedWhat
<1>4. phase \in {"commit", "seal"} => pending # {}
  BY DEF GrpInv, Phases
<1>5. CASE \E w \in Writes : \/ \E rows \in 0..1 : Stage(w, rows)
                             \/ StageFails(w) \/ Deadline(w)
  BY <1>5 DEF Stage, StageFails, Deadline
<1>6. CASE Wake \/ (\E h \in Settlers : CommitGroup(h)) \/ (\E h \in Installers : DdlStart(h))
  BY <1>6 DEF Wake, CommitGroup, DdlStart
<1>7. CASE CommitStep \/ FlushStep \/ SealStep \/ DdlStep
  <2>1. ASSUME NEW next \in {"recover", "reopen"}, Fails(next) PROVE store'.owner = "peer"
    <3>1. store' = store \/ (store' = Sealed /\ Seals)
      BY <2>1, FailsWhat
    <3> QED BY <1>3, <1>4, <3>1 DEF Seals
  <2>2. CASE CommitFails \/ FlushFails \/ SealFails \/ DdlFails
    BY <2>1, <2>2 DEF CommitFails, FlushFails, SealFails, DdlFails
  <2>3. CASE CommitOk \/ SealOk
    BY <1>3, <1>4, <2>3 DEF CommitOk, SealOk
  <2>4. CASE FlushOk \/ DdlOk
    BY <2>4 DEF FlushOk, DdlOk, Install
  <2> QED BY <1>7, <2>2, <2>3, <2>4 DEF CommitStep, FlushStep, SealStep, DdlStep
<1>8. CASE ReopenStep
  BY <1>2, <1>8 DEF ReopenStep, ReopenOk, ReopenYields, ReopenFails
<1>9. CASE TxCommit \/ TxRollback \/ ProbeStep
  BY <1>9 DEF TxCommit, TxRollback, ProbeStep, ProbeLoad, ProbeLocal, ProbeReport
<1>10. CASE PeerOpens
  <2>1. PICK rows \in 0..1 :
          store' = [store EXCEPT !.epoch = @ + 1, !.owner = "peer", !.lsn = @ + rows]
    BY <1>10 DEF PeerOpens
  <2> QED BY <2>1 DEF GrpInv, Shape, Store
<1>11. CASE Evict \/ CommitterStops \/ Abort
  BY <1>2, <1>3, <1>4, <1>11 DEF Evict, CommitterStops, Abort
<1> QED BY <1>5, <1>6, <1>7, <1>8, <1>9, <1>10, <1>11 DEF GrpNext

\* The action property of the runs: a step never turns the owner back to us.
THEOREM YieldCorrect == GrpSpec => YieldNeverFences
<1>1. GrpInv /\ [GrpNext]_grpVars
        => [policy = "yield" /\ store.owner = "peer" => store'.owner = "peer"]_grpVars
  BY ClaimStands
<1> QED BY <1>1, GrpInvariant, PTL DEF GrpSpec, YieldNeverFences
=============================================================================
