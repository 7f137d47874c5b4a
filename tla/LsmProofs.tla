----------------------------- MODULE LsmProofs -----------------------------
(***************************************************************************)
(* Theorems about Lsm for any keys, passes, level budgets and bounds: what  *)
(* the published snapshot returns, and what an open of the store's current  *)
(* manifest would return, is the last acknowledged write of every key,      *)
(* whatever flushes, failed flushes, compactions, tombstone GC, catalog     *)
(* changes, snapshot files and reopens come between.                        *)
(***************************************************************************)
EXTENDS Lsm, Extrema, FiniteSetTheorems, SequenceTheorems, TLAPS

ManifestSet == [ssts : SUBSET SstSet, wal : Seq(RowSet), schema : 0..MaxDdl]

\* The rows of the session that are in no SST of its manifest: the memtable,
\* or the frozen one while a flush is under way.
Held == mem \cup (IF frozen = None THEN {} ELSE frozen.rows)

Holding == {p \in Passes : prepared[p] # None}

\* Every SST somebody refers to.
Known ==
  manifest.ssts \cup cur.ssts \cup (IF frozen = None THEN {} ELSE {frozen})
    \cup UNION {prepared[p].removed \cup prepared[p].outs : p \in Holding}

\* No SST is empty, and its high-water mark covers its rows.
Sound(s) == s.rows # {} /\ \A r \in s.rows : r.lsn <= s.max_lsn

Shape ==
  /\ manifest \in ManifestSet /\ cur \in ManifestSet
  /\ snapfile \in SnapshotSet \cup {None}
  /\ mem \subseteq RowSet
  /\ frozen \in SstSet \cup {None}
  /\ stale \in BOOLEAN
  /\ next_lsn \in Nat \ {0}
  /\ prepared \in [Passes -> PassSet \cup {None}]
  /\ spent \in [write : Nat, ddl : Nat, fault : Nat]
  /\ cur.schema <= spent.ddl /\ manifest.schema <= spent.ddl /\ spent.ddl <= MaxDdl
  /\ truth \in [Keys -> Nat]
  /\ pub = [ssts |-> cur.ssts, mem |-> Held]
  /\ \E deep \in Nat : \A s \in Known : s.level <= deep

\* Ids are never used twice, and what a flush or a pass writes is new: neither
\* the session, nor the store, nor another pass refers to it.
Names ==
  /\ \A s, t \in Known : s.id = t.id => s = t
  /\ frozen # None => frozen \notin cur.ssts \cup manifest.ssts
  /\ \A p \in Holding :
       /\ prepared[p].outs \cap (cur.ssts \cup manifest.ssts) = {}
       /\ prepared[p].removed \cap (manifest.ssts \ cur.ssts) = {}
       /\ frozen # None => frozen \notin prepared[p].removed \cup prepared[p].outs
       /\ \A q \in Holding : /\ prepared[p].outs \cap prepared[q].removed = {}
                             /\ p # q => prepared[p].outs \cap prepared[q].outs = {}

\* The rows the session can meet: distinct writes have distinct LSNs, below the
\* next one, and what is not in an SST yet is newer than what is.
Ordered ==
  /\ \A s \in cur.ssts \cup manifest.ssts : Sound(s) /\ s.max_lsn < next_lsn
  /\ frozen # None => /\ Sound(frozen) /\ frozen.max_lsn < next_lsn
                      /\ mem = {} /\ frozen.schema = cur.schema
  /\ \A r \in Held : r.lsn < next_lsn
  /\ \A r, s \in Held : r.k = s.k => r = s
  /\ \A r, s \in Rows(cur.ssts) \cup Held : r.k = s.k /\ r.lsn = s.lsn => r = s
  /\ \A r \in Held, s \in Rows(cur.ssts) : r.k = s.k => s.lsn < r.lsn

\* The WAL holds what the memtable holds, and a snapshot file the rows of the
\* WAL it is bound to.
Journal ==
  /\ \A i \in DOMAIN cur.wal : cur.wal[i].lsn > 0 /\ cur.wal[i].lsn < next_lsn
  /\ Replay({}, cur.wal, 0) = Held
  /\ snapfile # None => snapfile.rows = Replay({}, snapfile.wal, 0)

\* The store's current manifest is the session's, or the one an unseen flush
\* or install left: it holds the same rows, fewer when a merge dropped some.
Stored ==
  /\ ~stale => manifest = cur
  /\ Rows(manifest.ssts \ cur.ssts) \subseteq Rows(cur.ssts \ manifest.ssts) \cup Held
  /\ \/ manifest.wal = <<>>
     \/ manifest.wal = cur.wal /\ Rows(manifest.ssts) \subseteq Rows(cur.ssts)

\* The merge of pc dropped every row of key k, the newest being a tombstone.
Buried(pc, k) ==
  /\ \A r \in Rows(pc.outs) : r.k # k
  /\ \E t \in Rows(pc.removed) :
       t.k = k /\ t.del /\ \A r \in Rows(pc.removed) : r.k = k => r.lsn <= t.lsn

\* What a pass has merged: no row is invented, and one that is left out is
\* shadowed by a row that is kept or by a tombstone with nothing below it.
Merged(pc) ==
  /\ Rows(pc.outs) \subseteq Rows(pc.removed)
  /\ \A r \in Rows(pc.removed) :
       \/ \E w \in Rows(pc.outs) : w.k = r.k /\ r.lsn <= w.lsn
       \/ Buried(pc, r.k)
  /\ \A o \in pc.outs : /\ Sound(o) /\ o.schema = pc.base_schema
                        /\ \E s \in pc.removed : o.max_lsn = s.max_lsn

\* As long as the inputs of a pass are all referenced, every other row of a key
\* it dropped is newer than what it dropped.
Above(pc) ==
  pc.removed \subseteq cur.ssts =>
    \A r \in Rows(cur.ssts \ pc.removed) \cup Held, t \in Rows(pc.removed) :
      r.k = t.k /\ Buried(pc, t.k) => t.lsn < r.lsn

Passed == \A p \in Holding : Merged(prepared[p]) /\ Above(prepared[p])

\* Neither the session nor the store has lost or resurrected a write.
Truths ==
  /\ View(Rows(cur.ssts) \cup Held) = truth
  /\ View(Rows(manifest.ssts) \cup Replay({}, manifest.wal, 0)) = truth

LsmInv == Shape /\ Names /\ Ordered /\ Journal /\ Stored /\ Passed /\ Truths

-----------------------------------------------------------------------------
(* Rows, winners, views.                                                    *)

\* The rows of a set of SSTs are the rows of its members.
LEMMA RowsWhat ==
  /\ \A S, r : r \in Rows(S) <=> \E s \in S : r \in s.rows
  /\ \A S, T : Rows(S \cup T) = Rows(S) \cup Rows(T)
  /\ \A S, T : S \subseteq T => Rows(S) \subseteq Rows(T)
  /\ \A s : Rows({s}) = s.rows
  /\ Rows({}) = {}
<1>1. \A S, r : r \in Rows(S) <=> \E s \in S : r \in s.rows
  BY DEF Rows
<1>2. ASSUME NEW S, NEW T PROVE Rows(S \cup T) = Rows(S) \cup Rows(T)
  BY <1>1
<1>3. ASSUME NEW S, NEW T, S \subseteq T PROVE Rows(S) \subseteq Rows(T)
  BY <1>1, <1>3
<1>4. ASSUME NEW s PROVE Rows({s}) = s.rows
  BY DEF Rows
<1>5. Rows({}) = {}
  BY <1>1
<1> QED BY <1>1, <1>2, <1>3, <1>4, <1>5

\* SSTs of the type hold rows of the type.
LEMMA RowsTyped ==
  ASSUME NEW S, S \subseteq SstSet
  PROVE  Rows(S) \subseteq RowSet
<1>1. \A s \in S : s.rows \subseteq RowSet
  BY DEF SstSet
<1> QED BY <1>1, RowsWhat

\* A view depends on the winning rows that are no tombstones alone.
LEMMA SameView ==
  ASSUME NEW R, NEW Q,
         \A w : ~w.del => (w \in Winners(R) <=> w \in Winners(Q))
  PROVE  View(R) = View(Q)
<1>1. ASSUME NEW k \in Keys
      PROVE  {w \in Winners(R) : w.k = k /\ ~w.del} = {w \in Winners(Q) : w.k = k /\ ~w.del}
  OBVIOUS
<1>2. ASSUME NEW k \in Keys
      PROVE  MaxOr0({r.lsn : r \in {w \in Winners(R) : w.k = k /\ ~w.del}})
               = MaxOr0({r.lsn : r \in {w \in Winners(Q) : w.k = k /\ ~w.del}})
  BY <1>1
<1> QED BY <1>2 DEF View

\* Max and MaxOr0 of a bounded set.
LEMMA MaxOr0What ==
  ASSUME NEW n \in Nat, NEW S, S \subseteq 0..n
  PROVE  /\ MaxOr0(S) \in 0..n
         /\ \A x \in S : x <= MaxOr0(S)
         /\ S # {} => MaxOr0(S) \in S
<1>1. CASE S = {}
  BY <1>1 DEF MaxOr0
<1>2. CASE S # {}
  <2>1. Max(S) \in S /\ \A y \in S : y <= Max(S)
    BY <1>2, BoundedMax
  <2> QED BY <1>2, <2>1 DEF MaxOr0
<1> QED BY <1>1, <1>2

\* The greatest element of a singleton.
LEMMA MaxOne == ASSUME NEW n \in Nat PROVE MaxOr0({n}) = n /\ MaxOr0({}) = 0
<1>1. {n} \subseteq 0..n /\ {n} # {}
  OBVIOUS
<1>2. MaxOr0({n}) \in {n}
  BY <1>1, MaxOr0What
<1> QED BY <1>2 DEF MaxOr0

\* A row newer than every other row of its key is what its key reads as.
LEMMA ViewPut ==
  ASSUME NEW R, R \subseteq RowSet, NEW row \in RowSet,
         \A r \in R : r.k = row.k => r.lsn < row.lsn,
         NEW Q, row \in Q, Q \subseteq R \cup {row},
         \A r \in R : r.k # row.k => r \in Q
  PROVE  View(Q) = [View(R) EXCEPT ![row.k] = IF row.del THEN 0 ELSE row.lsn]
<1> DEFINE V(X, k) == {w \in Winners(X) : w.k = k /\ ~w.del}
           val == IF row.del THEN 0 ELSE row.lsn
<1>1. /\ row.k \in Keys /\ row.lsn \in Nat /\ row.del \in BOOLEAN
      /\ \A r \in R : r.lsn \in Nat /\ r.k \in Keys
  BY DEF RowSet
<1>2. ASSUME NEW k \in Keys, k # row.k
      PROVE  V(Q, k) = V(R, k)
  BY <1>2, <1>1 DEF Winners
<1>3. V(Q, row.k) = IF row.del THEN {} ELSE {row}
  <2>1. \A r \in Q : r.k = row.k => r.lsn <= row.lsn
    BY <1>1
  <2>2. \A w \in Winners(Q) : w.k = row.k => w = row
    BY <1>1 DEF Winners
  <2>3. row \in Winners(Q)
    BY <2>1 DEF Winners
  <2> QED BY <2>2, <2>3
<1>4. View(Q) = [k \in Keys |-> MaxOr0({r.lsn : r \in V(Q, k)})]
      /\ View(R) = [k \in Keys |-> MaxOr0({r.lsn : r \in V(R, k)})]
  BY DEF View
<1>5. MaxOr0({r.lsn : r \in V(Q, row.k)}) = val
  <2>1. CASE row.del
    <3>1. {r.lsn : r \in V(Q, row.k)} = {}
      BY <1>3, <2>1
    <3> QED BY <1>1, <2>1, <3>1, MaxOne
  <2>2. CASE ~row.del
    <3>1. {r.lsn : r \in V(Q, row.k)} = {row.lsn}
      BY <1>3, <2>2
    <3> QED BY <1>1, <2>2, <3>1, MaxOne
  <2> QED BY <2>1, <2>2
<1>6. ASSUME NEW k \in Keys, k # row.k
      PROVE  MaxOr0({r.lsn : r \in V(Q, k)}) = MaxOr0({r.lsn : r \in V(R, k)})
  BY <1>2, <1>6
<1> HIDE DEF V, val
<1>7. /\ View(Q) = [k \in Keys |-> View(Q)[k]] /\ View(R) = [k \in Keys |-> View(R)[k]]
      /\ View(Q)[row.k] = val
      /\ \A k \in Keys : k # row.k => View(Q)[k] = View(R)[k]
  BY <1>1, <1>4, <1>5, <1>6
<1>8. View(Q) = [View(R) EXCEPT ![row.k] = val]
  BY <1>1, <1>7
<1> QED BY <1>8 DEF val

-----------------------------------------------------------------------------
(* Replay, recovery.                                                        *)

\* An empty WAL replays to nothing.
LEMMA ReplayEmpty == Replay({}, <<>>, 0) = {}
<1>1. DOMAIN <<>> = {}
  OBVIOUS
<1> QED BY <1>1 DEF Replay

\* A record appended to the WAL is applied to what the WAL replays to.
LEMMA ReplayAppend ==
  ASSUME NEW wal \in Seq(RowSet), NEW row \in RowSet, row.lsn > 0
  PROVE  Replay({}, Append(wal, row), 0) = Apply(Replay({}, wal, 0), row)
<1> DEFINE W == Append(wal, row)
           n == Len(wal) + 1
           live == {i \in DOMAIN wal : wal[i].lsn > 0}
           last == {i \in live : \A j \in live : wal[j].k = wal[i].k => j <= i}
           Live == {i \in DOMAIN W : W[i].lsn > 0}
           Last == {i \in Live : \A j \in Live : W[j].k = W[i].k => j <= i}
<1>1. /\ Len(wal) \in Nat /\ DOMAIN wal = 1..Len(wal) /\ DOMAIN W = 1..n
      /\ W[n] = row /\ \A i \in 1..Len(wal) : W[i] = wal[i]
  BY AppendProperties, LenProperties
<1>2. live \subseteq 1..Len(wal) /\ Live = live \cup {n}
  BY <1>1
<1>3. Last = {i \in last : wal[i].k # row.k} \cup {n}
  <2> HIDE DEF W
  <2>1. n \in Last
    BY <1>1, <1>2
  <2>2. ASSUME NEW i \in Last, i # n PROVE i \in last /\ wal[i].k # row.k
    <3>1. i \in live /\ i < n /\ W[i] = wal[i]
      BY <1>1, <1>2, <2>2
    <3>2. wal[i].k # row.k
      BY <1>1, <1>2, <2>2, <3>1
    <3>3. \A j \in live : wal[j].k = wal[i].k => j <= i
      BY <1>1, <1>2, <2>2, <3>1
    <3> QED BY <3>1, <3>2, <3>3
  <2>3. ASSUME NEW i \in last, wal[i].k # row.k PROVE i \in Last
    BY <1>1, <1>2, <2>3
  <2> QED BY <2>1, <2>2, <2>3
<1>4. Replay({}, wal, 0) = {wal[i] : i \in last}
  BY DEF Replay
<1>5. Replay({}, W, 0) = {W[i] : i \in Last}
  BY DEF Replay
<1>6. \A i \in last : W[i] = wal[i]
  BY <1>1
<1> HIDE DEF last, Last, W
<1>7. {W[i] : i \in Last} = {r \in {wal[i] : i \in last} : r.k # row.k} \cup {row}
  BY <1>1, <1>3, <1>6
<1> QED BY <1>4, <1>5, <1>7 DEF Apply, W

\* Nothing is replayed below the floor.
LEMMA ReplayCovered ==
  ASSUME NEW seed, NEW wal \in Seq(RowSet), NEW floor \in Nat,
         \A i \in DOMAIN wal : wal[i].lsn <= floor
  PROVE  Replay(seed, wal, floor) = seed
<1>1. \A i \in DOMAIN wal : wal[i].lsn \in Nat
  <2>1. \A i \in DOMAIN wal : wal[i] \in RowSet
    BY LenProperties
  <2> QED BY <2>1 DEF RowSet
<1>2. {i \in DOMAIN wal : wal[i].lsn > floor} = {}
  BY <1>1
<1> QED BY <1>2 DEF Replay

\* Replay yields rows of the WAL, one per key.
LEMMA ReplayWhat ==
  ASSUME NEW wal \in Seq(RowSet)
  PROVE  /\ Replay({}, wal, 0) \subseteq RowSet
         /\ \A r, s \in Replay({}, wal, 0) : r.k = s.k => r = s
         /\ \A r \in Replay({}, wal, 0) : \E i \in DOMAIN wal : r = wal[i]
<1> DEFINE live == {i \in DOMAIN wal : wal[i].lsn > 0}
           last == {i \in live : \A j \in live : wal[j].k = wal[i].k => j <= i}
<1>1. DOMAIN wal = 1..Len(wal) /\ \A i \in DOMAIN wal : wal[i] \in RowSet
  BY LenProperties
<1>2. Replay({}, wal, 0) = {wal[i] : i \in last}
  BY DEF Replay
<1>3. \A i, j \in last : wal[i].k = wal[j].k => i = j
  BY <1>1
<1>4. last \subseteq DOMAIN wal
  OBVIOUS
<1> HIDE DEF last
<1> QED BY <1>1, <1>2, <1>3, <1>4

\* The last LSN of a WAL whose LSNs are bounded.
LEMMA LastLsnWhat ==
  ASSUME NEW wal \in Seq(RowSet), NEW n \in Nat, \A i \in DOMAIN wal : wal[i].lsn <= n
  PROVE  LastLsn(wal) \in 0..n /\ \A i \in DOMAIN wal : wal[i].lsn <= LastLsn(wal)
<1>1. \A i \in DOMAIN wal : wal[i].lsn \in Nat
  <2>1. \A i \in DOMAIN wal : wal[i] \in RowSet
    BY LenProperties
  <2> QED BY <2>1 DEF RowSet
<1>2. {wal[i].lsn : i \in DOMAIN wal} \subseteq 0..n
  BY <1>1
<1> QED BY <1>2, MaxOr0What DEF LastLsn

\* The high-water mark of SSTs whose marks are bounded.
LEMMA HighWaterWhat ==
  ASSUME NEW S, S \subseteq SstSet, NEW n \in Nat, \A s \in S : s.max_lsn <= n
  PROVE  /\ HighWater(S) \in 0..n /\ \A s \in S : s.max_lsn <= HighWater(S)
         /\ S # {} => \E s \in S : HighWater(S) = s.max_lsn
<1>1. \A s \in S : s.max_lsn \in Nat
  BY DEF SstSet
<1>2. {s.max_lsn : s \in S} \subseteq 0..n
  BY <1>1
<1>3. S # {} => {s.max_lsn : s \in S} # {}
  OBVIOUS
<1> QED BY <1>2, <1>3, MaxOr0What DEF HighWater

-----------------------------------------------------------------------------
(* What the invariant says of a state.                                      *)

\* Types of what the state refers to.
LEMMA Typed ==
  ASSUME LsmInv
  PROVE  /\ manifest.ssts \subseteq SstSet /\ cur.ssts \subseteq SstSet
         /\ manifest.wal \in Seq(RowSet) /\ cur.wal \in Seq(RowSet)
         /\ cur.schema \in 0..MaxDdl /\ manifest.schema \in 0..MaxDdl
         /\ Held \subseteq RowSet /\ next_lsn \in Nat /\ next_lsn > 0
         /\ Rows(cur.ssts) \subseteq RowSet /\ Rows(manifest.ssts) \subseteq RowSet
         /\ \A p \in Holding :
              /\ prepared[p] \in PassSet /\ prepared[p].removed \subseteq SstSet
              /\ prepared[p].outs \subseteq SstSet /\ prepared[p].base_schema \in Nat
<1>1. Shape
  BY DEF LsmInv
<1>2. /\ manifest.ssts \subseteq SstSet /\ cur.ssts \subseteq SstSet
      /\ manifest.wal \in Seq(RowSet) /\ cur.wal \in Seq(RowSet)
      /\ cur.schema \in 0..MaxDdl /\ manifest.schema \in 0..MaxDdl
  BY <1>1 DEF Shape, ManifestSet
<1>3. Held \subseteq RowSet
  <2>1. frozen # None => frozen.rows \subseteq RowSet
    BY <1>1 DEF Shape, SstSet
  <2> QED BY <1>1, <2>1 DEF Shape, Held
<1>4. Rows(cur.ssts) \subseteq RowSet /\ Rows(manifest.ssts) \subseteq RowSet
  BY <1>2, RowsTyped
<1>5. ASSUME NEW p \in Holding
      PROVE  /\ prepared[p] \in PassSet /\ prepared[p].removed \subseteq SstSet
             /\ prepared[p].outs \subseteq SstSet /\ prepared[p].base_schema \in Nat
  <2>1. prepared[p] \in PassSet
    BY <1>1 DEF Shape, Holding
  <2> QED BY <2>1 DEF PassSet
<1>6. next_lsn \in Nat /\ next_lsn > 0
  BY <1>1 DEF Shape
<1> QED BY <1>2, <1>3, <1>4, <1>5, <1>6

\* What the store holds, the session holds too.
LEMMA StoreRows ==
  ASSUME LsmInv
  PROVE  /\ Rows(manifest.ssts) \cup Replay({}, manifest.wal, 0) \subseteq Rows(cur.ssts) \cup Held
         /\ Replay({}, manifest.wal, 0) \subseteq Held
         /\ \A p \in Holding : prepared[p].removed \subseteq manifest.ssts =>
              /\ prepared[p].removed \subseteq cur.ssts
              /\ Rows(manifest.ssts \ prepared[p].removed) \subseteq
                   Rows(cur.ssts \ prepared[p].removed) \cup Held
<1>1. Rows(manifest.ssts \ cur.ssts) \subseteq Rows(cur.ssts \ manifest.ssts) \cup Held
  BY DEF LsmInv, Stored
<1>2. Replay({}, manifest.wal, 0) \subseteq Held
  BY ReplayEmpty DEF LsmInv, Stored, Journal
<1>3. Rows(manifest.ssts) \subseteq Rows(cur.ssts) \cup Held
  <2> SUFFICES ASSUME NEW s \in manifest.ssts, NEW r \in s.rows
               PROVE  r \in Rows(cur.ssts) \cup Held
    BY RowsWhat
  <2>1. CASE s \in cur.ssts
    BY <2>1, RowsWhat
  <2>2. CASE s \notin cur.ssts
    <3>1. r \in Rows(manifest.ssts \ cur.ssts)
      BY <2>2, RowsWhat
    <3>2. Rows(cur.ssts \ manifest.ssts) \subseteq Rows(cur.ssts)
      BY RowsWhat
    <3> QED BY <1>1, <3>1, <3>2
  <2> QED BY <2>1, <2>2
<1>4. ASSUME NEW p \in Holding, prepared[p].removed \subseteq manifest.ssts
      PROVE  /\ prepared[p].removed \subseteq cur.ssts
             /\ Rows(manifest.ssts \ prepared[p].removed) \subseteq
                  Rows(cur.ssts \ prepared[p].removed) \cup Held
  <2>1. prepared[p].removed \cap (manifest.ssts \ cur.ssts) = {}
    BY DEF LsmInv, Names
  <2>2. prepared[p].removed \subseteq cur.ssts
    BY <1>4, <2>1
  <2>3. ASSUME NEW s \in manifest.ssts \ prepared[p].removed, NEW r \in s.rows
        PROVE  r \in Rows(cur.ssts \ prepared[p].removed) \cup Held
    <3>1. CASE s \in cur.ssts
      BY <3>1, RowsWhat
    <3>2. CASE s \notin cur.ssts
      <4>1. r \in Rows(manifest.ssts \ cur.ssts)
        BY <3>2, RowsWhat
      <4>2. Rows(cur.ssts \ manifest.ssts) \subseteq Rows(cur.ssts \ prepared[p].removed)
        <5>1. cur.ssts \ manifest.ssts \subseteq cur.ssts \ prepared[p].removed
          BY <1>4
        <5> QED BY <5>1, RowsWhat
      <4> QED BY <1>1, <4>1, <4>2
    <3> QED BY <3>1, <3>2
  <2> QED BY <2>2, <2>3, RowsWhat
<1> QED BY <1>2, <1>3, <1>4

\* The LSNs of both WALs are below the next one.
LEMMA WalBelow ==
  ASSUME LsmInv
  PROVE  \A i \in DOMAIN manifest.wal : /\ manifest.wal[i].lsn > 0
                                        /\ manifest.wal[i].lsn <= next_lsn - 1
<1>1. \A i \in DOMAIN cur.wal : cur.wal[i].lsn > 0 /\ cur.wal[i].lsn < next_lsn
  BY DEF LsmInv, Journal
<1>2. \A i \in DOMAIN cur.wal : cur.wal[i].lsn \in Nat
  <2>1. \A i \in DOMAIN cur.wal : cur.wal[i] \in RowSet
    BY Typed, LenProperties
  <2> QED BY <2>1 DEF RowSet
<1>3. manifest.wal = <<>> \/ manifest.wal = cur.wal
  BY DEF LsmInv, Stored
<1>4. next_lsn \in Nat
  BY Typed
<1>5. CASE manifest.wal = <<>>
  BY <1>5
<1>6. CASE manifest.wal = cur.wal
  BY <1>1, <1>2, <1>4, <1>6
<1> QED BY <1>3, <1>5, <1>6

\* With or without a snapshot file, recovery yields what the WAL replays to.
LEMMA RecoveredIs ==
  ASSUME LsmInv
  PROVE  Recovered(snapfile, manifest) = Replay({}, manifest.wal, 0)
<1>1. CASE snapfile # None /\ Covers(snapfile, manifest)
  <2>1. snapfile.wal = manifest.wal /\ snapfile.rows = Replay({}, snapfile.wal, 0)
    BY <1>1 DEF Covers, LsmInv, Journal
  <2>2. next_lsn - 1 \in Nat /\ manifest.wal \in Seq(RowSet)
    BY Typed
  <2>3. LastLsn(manifest.wal) \in Nat
        /\ \A i \in DOMAIN manifest.wal : manifest.wal[i].lsn <= LastLsn(manifest.wal)
    <3> DEFINE n == next_lsn - 1
    <3>1. n \in Nat /\ \A i \in DOMAIN manifest.wal : manifest.wal[i].lsn <= n
      BY <2>2, WalBelow
    <3> HIDE DEF n
    <3>2. LastLsn(manifest.wal) \in 0..n
          /\ \A i \in DOMAIN manifest.wal : manifest.wal[i].lsn <= LastLsn(manifest.wal)
      BY <2>2, <3>1, LastLsnWhat
    <3> QED BY <3>1, <3>2
  <2>4. Replay(snapfile.rows, manifest.wal, LastLsn(manifest.wal)) = snapfile.rows
    BY <2>2, <2>3, ReplayCovered
  <2> QED BY <1>1, <2>1, <2>4 DEF Recovered
<1>2. CASE ~(snapfile # None /\ Covers(snapfile, manifest))
  BY <1>2 DEF Recovered
<1> QED BY <1>1, <1>2

\* An open hands out LSNs above every row of the manifest it opens.
LEMMA NextLsnAbove ==
  ASSUME LsmInv
  PROVE  /\ NextLsn(manifest) \in Nat \ {0}
         /\ \A s \in manifest.ssts : s.max_lsn < NextLsn(manifest)
         /\ \A i \in DOMAIN manifest.wal : manifest.wal[i].lsn < NextLsn(manifest)
<1> DEFINE h == HighWater(manifest.ssts)
           l == LastLsn(manifest.wal)
           n == next_lsn - 1
<1>1. n \in Nat /\ manifest.wal \in Seq(RowSet) /\ manifest.ssts \subseteq SstSet
  BY Typed
<1>2. \A s \in manifest.ssts : s.max_lsn <= n /\ s.max_lsn \in Nat
  <2>1. \A s \in manifest.ssts : s.max_lsn \in Nat
    BY <1>1 DEF SstSet
  <2>2. \A s \in manifest.ssts : s.max_lsn < next_lsn
    BY DEF LsmInv, Ordered
  <2> QED BY <2>1, <2>2, Typed
<1>3. \A i \in DOMAIN manifest.wal : manifest.wal[i].lsn \in Nat
  <2>1. \A i \in DOMAIN manifest.wal : manifest.wal[i] \in RowSet
    BY <1>1, LenProperties
  <2> QED BY <2>1 DEF RowSet
<1> HIDE DEF n
<1>4. h \in 0..n /\ \A s \in manifest.ssts : s.max_lsn <= h
  BY <1>1, <1>2, HighWaterWhat
<1>5. l \in 0..n /\ \A i \in DOMAIN manifest.wal : manifest.wal[i].lsn <= l
  BY <1>1, WalBelow, LastLsnWhat DEF n
<1> HIDE DEF h, l
<1>6. Max({h, l}) \in {h, l} /\ \A y \in {h, l} : y <= Max({h, l})
  <2>1. {h, l} \subseteq 0..n /\ {h, l} # {}
    BY <1>4, <1>5
  <2> QED BY <1>1, <2>1, BoundedMax
<1>7. NextLsn(manifest) = 1 + Max({h, l})
  BY DEF NextLsn, h, l
<1> HIDE DEF NextLsn
<1>8. Max({h, l}) \in Nat /\ h <= Max({h, l}) /\ l <= Max({h, l}) /\ h \in Nat /\ l \in Nat
  BY <1>1, <1>4, <1>5, <1>6
<1> QED BY SMTT(30), <1>2, <1>3, <1>4, <1>5, <1>7, <1>8

\* The passes that stay are as they were.
SomePasses ==
  /\ prepared' \in [Passes -> PassSet \cup {None}]
  /\ \A p \in Passes : prepared'[p] = prepared[p] \/ prepared'[p] = None

\* So a pass that is held was held before.
LEMMA SomePassesWhat ==
  ASSUME SomePasses
  PROVE  Holding' \subseteq Holding /\ \A p \in Holding' : prepared'[p] = prepared[p]
BY DEF SomePasses, Holding

\* spent counts on.
Spends ==
  /\ spent' \in [write : Nat, ddl : Nat, fault : Nat]
  /\ spent'.ddl = spent.ddl

\* A reopen starts from the store's manifest and what recovery makes of it.
LEMMA ReopenStep ==
  ASSUME LsmInv, Reopen, UNCHANGED <<manifest, snapfile, truth>>, SomePasses, Spends
  PROVE  LsmInv'
<1> DEFINE M == Replay({}, manifest.wal, 0)
<1>1. /\ cur' = manifest /\ manifest' = manifest /\ mem' = M /\ frozen' = None /\ stale' = FALSE
      /\ next_lsn' = NextLsn(manifest) /\ pub' = [ssts |-> manifest.ssts, mem |-> M]
      /\ snapfile' = snapfile /\ truth' = truth
  BY RecoveredIs DEF Reopen
<1>2. Held' = M
  BY <1>1 DEF Held
<1>3. Holding' \subseteq Holding /\ \A p \in Holding' : prepared'[p] = prepared[p]
  BY SomePassesWhat
<1>4. manifest.wal \in Seq(RowSet) /\ M \subseteq RowSet
      /\ (\A r, s \in M : r.k = s.k => r = s) /\ \A r \in M : \E i \in DOMAIN manifest.wal : r = manifest.wal[i]
  BY Typed, ReplayWhat
<1>5. Rows(manifest.ssts) \cup M \subseteq Rows(cur.ssts) \cup Held /\ M \subseteq Held
  BY StoreRows
<1>6. Known' \subseteq Known
  <2>1. Known' = manifest.ssts \cup UNION {prepared'[p].removed \cup prepared'[p].outs : p \in Holding'}
    BY <1>1 DEF Known
  <2>2. UNION {prepared'[p].removed \cup prepared'[p].outs : p \in Holding'}
          \subseteq UNION {prepared[p].removed \cup prepared[p].outs : p \in Holding}
    BY <1>3
  <2> QED BY <2>1, <2>2 DEF Known
<1> HIDE DEF M
<1>7. Shape'
  <2>1. \E deep \in Nat : \A s \in Known' : s.level <= deep
    BY <1>6 DEF LsmInv, Shape
  <2>2. pub' = [ssts |-> cur'.ssts, mem |-> Held']
    BY <1>1, <1>2
  <2>3. next_lsn' \in Nat \ {0}
    BY <1>1, NextLsnAbove
  <2>4. cur'.schema <= spent'.ddl /\ manifest'.schema <= spent'.ddl /\ spent'.ddl <= MaxDdl
    BY <1>1 DEF LsmInv, Shape, Spends
  <2> QED BY <1>1, <1>4, <2>1, <2>2, <2>3, <2>4 DEF LsmInv, Shape, SomePasses, Spends
<1>8. Names'
  <2>1. \A s, t \in Known' : s.id = t.id => s = t
    BY <1>6 DEF LsmInv, Names
  <2>2. ASSUME NEW p \in Holding'
        PROVE  /\ prepared'[p].outs \cap (cur'.ssts \cup manifest'.ssts) = {}
               /\ prepared'[p].removed \cap (manifest'.ssts \ cur'.ssts) = {}
               /\ \A q \in Holding' : /\ prepared'[p].outs \cap prepared'[q].removed = {}
                                      /\ p # q => prepared'[p].outs \cap prepared'[q].outs = {}
    BY <1>1, <1>3 DEF LsmInv, Names
  <2> QED BY <1>1, <2>1, <2>2 DEF Names
<1>9. Ordered'
  <2>1. \A s \in manifest.ssts : Sound(s) /\ s.max_lsn < next_lsn'
    BY <1>1, NextLsnAbove DEF LsmInv, Ordered
  <2>2. \A r \in M : r.lsn < next_lsn'
    BY <1>1, <1>4, NextLsnAbove
  <2>3. \A r, s \in Rows(manifest.ssts) \cup M : r.k = s.k /\ r.lsn = s.lsn => r = s
    BY <1>5 DEF LsmInv, Ordered
  <2>4. \A r \in M, s \in Rows(manifest.ssts) : r.k = s.k => s.lsn < r.lsn
    <3>1. CASE manifest.wal = <<>>
      BY <3>1, ReplayEmpty DEF M
    <3>2. CASE manifest.wal = cur.wal /\ Rows(manifest.ssts) \subseteq Rows(cur.ssts)
      BY <1>5, <3>2 DEF LsmInv, Ordered
    <3> QED BY <3>1, <3>2 DEF LsmInv, Stored
  <2> QED BY <1>1, <1>2, <1>4, <2>1, <2>2, <2>3, <2>4 DEF Ordered, Sound
<1>10. Journal'
  BY <1>1, <1>2, WalBelow, NextLsnAbove DEF LsmInv, Journal, M
<1>11. Stored'
  <2>1. Rows({}) = {} /\ manifest.ssts \ manifest.ssts = {}
    BY RowsWhat
  <2> QED BY <1>1, <2>1 DEF Stored
<1>12. Passed'
  <2> SUFFICES ASSUME NEW p \in Holding'
               PROVE  /\ Merged(prepared'[p])
                      /\ prepared'[p].removed \subseteq cur'.ssts =>
                           \A r \in Rows(cur'.ssts \ prepared'[p].removed) \cup Held',
                              t \in Rows(prepared'[p].removed) :
                             r.k = t.k /\ Buried(prepared'[p], t.k) => t.lsn < r.lsn
    BY DEF Passed, Above
  <2>1. p \in Holding /\ prepared'[p] = prepared[p]
    BY <1>3
  <2>2. Merged(prepared[p]) /\ Above(prepared[p])
    BY <2>1 DEF LsmInv, Passed
  <2>3. prepared[p].removed \subseteq manifest.ssts =>
          /\ prepared[p].removed \subseteq cur.ssts
          /\ Rows(manifest.ssts \ prepared[p].removed) \cup M \subseteq
               Rows(cur.ssts \ prepared[p].removed) \cup Held
    BY <1>5, <2>1, StoreRows
  <2> QED BY <1>1, <1>2, <2>1, <2>2, <2>3 DEF Above
<1>13. Truths'
  BY <1>1, <1>2 DEF LsmInv, Truths, M
<1> QED BY <1>7, <1>8, <1>9, <1>10, <1>11, <1>12, <1>13 DEF LsmInv

-----------------------------------------------------------------------------
(* Steps that leave the rows alone.                                         *)

\* A pass that ends, or a snapshot file written or deleted, changes nothing
\* the session and the store hold.
LEMMA QuietStep ==
  ASSUME LsmInv, UNCHANGED <<manifest, sessVars, pub, truth>>, SomePasses, Spends,
         snapfile' = snapfile \/ snapfile' = None
           \/ (frozen = None /\ snapfile' = [wal |-> cur.wal, rows |-> mem])
  PROVE  LsmInv'
<1>1. /\ manifest' = manifest /\ cur' = cur /\ mem' = mem /\ frozen' = frozen /\ stale' = stale
      /\ next_lsn' = next_lsn /\ pub' = pub /\ truth' = truth /\ Held' = Held
  BY DEF sessVars, Held
<1>2. Holding' \subseteq Holding /\ \A p \in Holding' : prepared'[p] = prepared[p]
  BY SomePassesWhat
<1>3. Known' \subseteq Known
  <2>1. UNION {prepared'[p].removed \cup prepared'[p].outs : p \in Holding'}
          \subseteq UNION {prepared[p].removed \cup prepared[p].outs : p \in Holding}
    BY <1>2
  <2> QED BY <1>1, <2>1 DEF Known
<1>4. snapfile' \in SnapshotSet \cup {None}
      /\ (snapfile' # None => snapfile'.rows = Replay({}, snapfile'.wal, 0))
  <2>1. CASE snapfile' = snapfile \/ snapfile' = None
    BY <2>1 DEF LsmInv, Shape, Journal
  <2>2. CASE frozen = None /\ snapfile' = [wal |-> cur.wal, rows |-> mem]
    <3>1. Held = mem /\ mem \subseteq RowSet /\ cur.wal \in Seq(RowSet)
      BY <2>2, Typed DEF Held
    <3>2. Replay({}, cur.wal, 0) = Held
      BY DEF LsmInv, Journal
    <3> QED BY <2>2, <3>1, <3>2 DEF SnapshotSet
  <2> QED BY <2>1, <2>2
<1>5. Shape'
  <2>1. \E deep \in Nat : \A s \in Known' : s.level <= deep
    BY <1>3 DEF LsmInv, Shape
  <2> QED BY <1>1, <1>4, <2>1 DEF LsmInv, Shape, SomePasses, Spends
<1>6. Names'
  BY <1>1, <1>2, <1>3 DEF LsmInv, Names
<1>7. Ordered' /\ Stored'
  BY <1>1 DEF LsmInv, Ordered, Sound, Stored
<1>8. Journal' /\ Truths'
  BY <1>1, <1>4 DEF LsmInv, Journal, Truths
<1>9. Passed'
  <2> SUFFICES ASSUME NEW p \in Holding'
               PROVE  Merged(prepared'[p]) /\ Above(prepared[p])
    BY <1>1, <1>2 DEF Passed, Above
  <2> QED BY <1>2 DEF LsmInv, Passed
<1> QED BY <1>5, <1>6, <1>7, <1>8, <1>9 DEF LsmInv

\* spent['fault'] or spent['write'] counts one more.
LEMMA SpendWhat ==
  ASSUME LsmInv, NEW what \in {"write", "ddl", "fault"}, NEW max, Spend(what, max)
  PROVE  /\ spent' \in [write : Nat, ddl : Nat, fault : Nat]
         /\ spent'.ddl = IF what = "ddl" THEN spent.ddl + 1 ELSE spent.ddl
<1>1. spent \in [write : Nat, ddl : Nat, fault : Nat]
      /\ spent' = [spent EXCEPT ![what] = @ + 1]
  BY DEF LsmInv, Shape, Spend
<1>2. CASE what = "write"
  BY <1>1, <1>2
<1>3. CASE what = "ddl"
  BY <1>1, <1>3
<1>4. CASE what = "fault"
  BY <1>1, <1>4
<1> QED BY <1>2, <1>3, <1>4

\* A DDL statement commits a catalog and no rows.
LEMMA DdlStep ==
  ASSUME LsmInv, Ddl
  PROVE  LsmInv'
<1>1. /\ frozen = None /\ ~stale /\ Spend("ddl", MaxDdl)
      /\ Commit([cur EXCEPT !.schema = @ + 1], mem)
      /\ UNCHANGED <<snapfile, mem, frozen, stale, next_lsn, prepared, truth>>
  BY DEF Ddl, Unlocked
<1>2. manifest = cur
  BY <1>1 DEF LsmInv, Stored
<1>3. spent' \in [write : Nat, ddl : Nat, fault : Nat] /\ spent'.ddl = spent.ddl + 1
      /\ spent.ddl < MaxDdl /\ spent.ddl \in Nat /\ MaxDdl \in Nat
  <2>1. spent.ddl < MaxDdl /\ spent.ddl \in Nat /\ MaxDdl \in Nat
    BY <1>1, LsmAssumption DEF Spend, LsmInv, Shape
  <2> QED BY <1>1, <2>1, SpendWhat
<1>4. /\ cur' \in ManifestSet /\ cur'.ssts = cur.ssts /\ cur'.wal = cur.wal
      /\ cur'.schema <= spent'.ddl /\ manifest' = cur'
  <2> DEFINE m == [cur EXCEPT !.schema = @ + 1]
  <2>1. cur' = m /\ manifest' = m
    BY <1>1 DEF Commit
  <2>2. cur \in ManifestSet /\ cur.schema \in 0..MaxDdl /\ cur.schema <= spent.ddl
    BY Typed DEF LsmInv, Shape
  <2>3. cur.schema + 1 \in 0..MaxDdl
    BY <1>3, <2>2
  <2>4. m \in ManifestSet /\ m.ssts = cur.ssts /\ m.wal = cur.wal /\ m.schema = cur.schema + 1
    BY <2>2, <2>3 DEF ManifestSet
  <2> HIDE DEF m
  <2> QED BY <1>3, <2>1, <2>2, <2>4
<1>5. Held' = Held /\ Held = mem /\ Known' = Known /\ Holding' = Holding /\ pub' = [ssts |-> cur'.ssts, mem |-> mem]
  BY <1>1, <1>2, <1>4 DEF Held, Known, Holding, Commit
<1>6. Shape'
  BY <1>1, <1>3, <1>4, <1>5 DEF LsmInv, Shape
<1>7. Names'
  BY <1>1, <1>2, <1>4, <1>5 DEF LsmInv, Names
<1>8. Ordered'
  BY <1>1, <1>2, <1>4, <1>5 DEF LsmInv, Ordered, Sound
<1>9. Journal' /\ Truths'
  BY <1>1, <1>2, <1>4, <1>5 DEF LsmInv, Journal, Truths
<1>10. Stored'
  <2>1. Rows({}) = {} /\ cur'.ssts \ cur'.ssts = {}
    BY RowsWhat
  <2> QED BY <1>4, <2>1 DEF Stored
<1>11. Passed'
  BY <1>1, <1>4, <1>5 DEF LsmInv, Passed, Above
<1> QED BY <1>6, <1>7, <1>8, <1>9, <1>10, <1>11 DEF LsmInv

-----------------------------------------------------------------------------
(* Writes and flushes.                                                      *)

\* A commit appends to the WAL what it applies to the memtable.
LEMMA CommitBatchStep ==
  ASSUME LsmInv, NEW k \in Keys, NEW del \in BOOLEAN, CommitBatch(k, del)
  PROVE  LsmInv'
<1> DEFINE row == [k |-> k, lsn |-> next_lsn, del |-> del]
           man == [cur EXCEPT !.wal = Append(@, row)]
<1>1. /\ frozen = None /\ ~stale /\ Spend("write", MaxWrites)
      /\ mem' = Apply(mem, row) /\ Commit(man, mem')
      /\ snapfile' \in {snapfile, [wal |-> man.wal, rows |-> mem']}
      /\ truth' = [truth EXCEPT ![k] = IF del THEN 0 ELSE next_lsn]
      /\ next_lsn' = next_lsn + 1
      /\ UNCHANGED <<frozen, stale, prepared>>
  BY DEF CommitBatch, Unlocked
<1>2. /\ row \in RowSet /\ row.k = k /\ row.lsn = next_lsn /\ row.del = del
      /\ next_lsn \in Nat /\ next_lsn > 0
  BY Typed DEF RowSet
<1>3. /\ man \in ManifestSet /\ man.ssts = cur.ssts /\ man.wal = Append(cur.wal, row)
      /\ man.schema = cur.schema
  <2>1. cur \in ManifestSet /\ cur.wal \in Seq(RowSet)
    BY Typed DEF LsmInv, Shape
  <2>2. Append(cur.wal, row) \in Seq(RowSet)
    BY <1>2, <2>1, AppendProperties
  <2> HIDE DEF row
  <2> QED BY <2>1, <2>2 DEF ManifestSet
<1> HIDE DEF row, man
<1>4. /\ manifest' = man /\ cur' = man /\ pub' = [ssts |-> man.ssts, mem |-> mem']
      /\ manifest = cur
  BY <1>1 DEF Commit, LsmInv, Stored
<1>5. Held = mem /\ Held' = mem' /\ Holding' = Holding /\ Known' = Known
  BY <1>1, <1>3, <1>4 DEF Held, Holding, Known
<1>6. mem' = {r \in mem : r.k # k} \cup {row} /\ mem \subseteq RowSet /\ mem' \subseteq RowSet
  BY <1>1, <1>2, <1>5, Typed DEF Apply
<1>7. /\ Replay({}, man.wal, 0) = mem'
      /\ man.wal \in Seq(RowSet)
      /\ \A i \in DOMAIN man.wal : man.wal[i].lsn > 0 /\ man.wal[i].lsn < next_lsn'
  <2>1. cur.wal \in Seq(RowSet) /\ Replay({}, cur.wal, 0) = mem
    BY <1>5, Typed DEF LsmInv, Journal
  <2>2. Replay({}, man.wal, 0) = Apply(mem, row)
    BY <1>2, <1>3, <2>1, ReplayAppend
  <2>3. \A i \in DOMAIN cur.wal : cur.wal[i].lsn > 0 /\ cur.wal[i].lsn < next_lsn
    BY DEF LsmInv, Journal
  <2>4. /\ DOMAIN man.wal = 1..(Len(cur.wal) + 1) /\ DOMAIN cur.wal = 1..Len(cur.wal)
        /\ \A i \in 1..Len(cur.wal) : man.wal[i] = cur.wal[i]
        /\ man.wal[Len(cur.wal) + 1] = row /\ Len(cur.wal) \in Nat /\ man.wal \in Seq(RowSet)
    BY <1>2, <1>3, <2>1, AppendProperties, LenProperties
  <2>5. \A i \in DOMAIN cur.wal : cur.wal[i].lsn \in Nat
    <3>1. \A i \in DOMAIN cur.wal : cur.wal[i] \in RowSet
      BY <2>1, <2>4, LenProperties
    <3> QED BY <3>1 DEF RowSet
  <2>6. \A i \in DOMAIN man.wal : i \in DOMAIN cur.wal \/ i = Len(cur.wal) + 1
    BY <2>4
  <2>7. ASSUME NEW i \in DOMAIN man.wal
        PROVE  man.wal[i].lsn > 0 /\ man.wal[i].lsn < next_lsn + 1
    <3>1. CASE i \in DOMAIN cur.wal
      BY SMTT(30), <1>2, <2>3, <2>4, <2>5, <3>1
    <3>2. CASE i = Len(cur.wal) + 1
      BY <1>2, <2>4, <3>2
    <3> QED BY <2>6, <3>1, <3>2
  <2> QED BY <1>1, <2>2, <2>4, <2>7
<1>8. /\ \A s \in cur.ssts : Sound(s) /\ s.max_lsn < next_lsn /\ s.max_lsn \in Nat
      /\ \A r \in mem : r.lsn < next_lsn /\ r.lsn \in Nat
      /\ \A r \in Rows(cur.ssts) : r.lsn < next_lsn /\ r.lsn \in Nat
  <2>1. \A s \in cur.ssts : Sound(s) /\ s.max_lsn < next_lsn /\ s.max_lsn \in Nat
    BY Typed DEF LsmInv, Ordered, SstSet
  <2>2. \A r \in mem : r.lsn < next_lsn /\ r.lsn \in Nat
    BY <1>5, <1>6 DEF LsmInv, Ordered, RowSet
  <2>3. \A r \in Rows(cur.ssts) : r.lsn \in Nat
    BY Typed DEF RowSet
  <2>4. \A r \in Rows(cur.ssts) : r.lsn < next_lsn
    BY <1>2, <2>1, <2>3, RowsWhat DEF Sound
  <2> QED BY <2>1, <2>2, <2>3, <2>4
<1>9. snapfile' \in SnapshotSet \cup {None}
      /\ (snapfile' # None => snapfile'.rows = Replay({}, snapfile'.wal, 0))
  <2>1. CASE snapfile' = snapfile
    BY <2>1 DEF LsmInv, Shape, Journal
  <2>2. CASE snapfile' = [wal |-> man.wal, rows |-> mem']
    BY <1>6, <1>7, <2>2 DEF SnapshotSet
  <2> QED BY <1>1, <2>1, <2>2
<1>10. Shape'
  <2>1. spent' \in [write : Nat, ddl : Nat, fault : Nat] /\ spent'.ddl = spent.ddl
    BY <1>1, SpendWhat
  <2>2. truth' \in [Keys -> Nat]
    BY <1>1, <1>2 DEF LsmInv, Shape
  <2>3. next_lsn' \in Nat \ {0} /\ frozen' \in SstSet \cup {None} /\ stale' \in BOOLEAN
    BY <1>1, <1>2 DEF LsmInv, Shape
  <2>4. prepared' \in [Passes -> PassSet \cup {None}]
        /\ \E deep \in Nat : \A s \in Known' : s.level <= deep
    BY <1>1, <1>5 DEF LsmInv, Shape
  <2>5. cur'.schema <= spent'.ddl /\ manifest'.schema <= spent'.ddl /\ spent'.ddl <= MaxDdl
    BY <1>3, <1>4, <2>1 DEF LsmInv, Shape
  <2>6. pub' = [ssts |-> cur'.ssts, mem |-> Held']
    BY <1>4, <1>5
  <2> QED BY <1>3, <1>4, <1>6, <1>9, <2>1, <2>2, <2>3, <2>4, <2>5, <2>6 DEF Shape
<1>11. Names'
  BY <1>1, <1>3, <1>4, <1>5 DEF LsmInv, Names
<1>12. Ordered'
  <2>1. \A s \in cur.ssts : Sound(s) /\ s.max_lsn < next_lsn'
    BY <1>1, <1>2, <1>8
  <2>2. \A r \in mem' : r.lsn < next_lsn'
    BY <1>1, <1>2, <1>6, <1>8
  <2>3. \A r, s \in mem' : r.k = s.k => r = s
    BY <1>2, <1>5, <1>6 DEF LsmInv, Ordered
  <2>4. \A r, s \in Rows(cur.ssts) \cup mem' : r.k = s.k /\ r.lsn = s.lsn => r = s
    <3>1. \A r \in Rows(cur.ssts) \cup mem : r.lsn # row.lsn
      BY <1>2, <1>8
    <3> QED BY <1>5, <1>6, <3>1 DEF LsmInv, Ordered
  <2>5. \A r \in mem', s \in Rows(cur.ssts) : r.k = s.k => s.lsn < r.lsn
    BY <1>2, <1>5, <1>6, <1>8 DEF LsmInv, Ordered
  <2> QED BY <1>1, <1>3, <1>4, <1>5, <2>1, <2>2, <2>3, <2>4, <2>5 DEF Ordered, Sound
<1>13. Journal'
  BY <1>4, <1>5, <1>7, <1>9 DEF Journal
<1>14. Stored'
  <2>1. Rows({}) = {} /\ man.ssts \ man.ssts = {}
    BY RowsWhat
  <2> QED BY <1>4, <2>1 DEF Stored
<1>15. Passed'
  <2> SUFFICES ASSUME NEW p \in Holding, prepared[p].removed \subseteq cur.ssts,
                      NEW r \in Rows(cur.ssts \ prepared[p].removed) \cup mem',
                      NEW t \in Rows(prepared[p].removed),
                      r.k = t.k, Buried(prepared[p], t.k)
               PROVE  t.lsn < r.lsn
    BY <1>1, <1>3, <1>4, <1>5 DEF LsmInv, Passed, Above
  <2>1. CASE r = row
    <3>1. t \in Rows(cur.ssts)
      BY RowsWhat
    <3> QED BY <1>2, <1>8, <2>1, <3>1
  <2>2. CASE r # row
    <3>1. r \in Rows(cur.ssts \ prepared[p].removed) \cup Held
      BY <1>5, <1>6, <2>2
    <3> QED BY <3>1 DEF LsmInv, Passed, Above
  <2> QED BY <2>1, <2>2
<1>16. Truths'
  <2> DEFINE R == Rows(cur.ssts) \cup mem
             Q == Rows(cur.ssts) \cup mem'
  <2>1. /\ R \subseteq RowSet /\ row \in RowSet /\ row \in Q /\ Q \subseteq R \cup {row}
        /\ \A r \in R : r.k = row.k => r.lsn < row.lsn
        /\ \A r \in R : r.k # row.k => r \in Q
    BY <1>2, <1>6, <1>8, Typed
  <2>2. View(R) = truth
    BY <1>5 DEF LsmInv, Truths
  <2> HIDE DEF R, Q
  <2>3. View(Q) = [View(R) EXCEPT ![row.k] = IF row.del THEN 0 ELSE row.lsn]
    BY <2>1, ViewPut
  <2>4. View(Q) = truth'
    BY <1>1, <1>2, <2>2, <2>3
  <2> QED BY <1>3, <1>4, <1>5, <1>7, <2>4 DEF Truths, Q
<1> QED BY <1>10, <1>11, <1>12, <1>13, <1>14, <1>15, <1>16 DEF LsmInv

\* A fresh id is nobody's.
LEMMA FreshWhat ==
  ASSUME LsmInv, Unused # {}
  PROVE  /\ FreshId \in 0..MaxSsts /\ \A s \in Known : s.id # FreshId
         /\ Unused \ {FreshId} # {} =>
              SecondId \in 0..MaxSsts /\ SecondId # FreshId /\ \A s \in Known : s.id # SecondId
<1>1. Unused \subseteq Nat /\ Unused \subseteq 0..MaxSsts
  BY LsmAssumption DEF Unused
<1>2. FreshId \in Unused
  BY <1>1, LeastNat DEF FreshId
<1>3. Unused \ {FreshId} # {} => SecondId \in Unused \ {FreshId}
  <2> DEFINE U == Unused \ {FreshId}
  <2>1. U \subseteq Nat
    BY <1>1
  <2>2. U # {} => Min(U) \in U
    <3> HIDE DEF U
    <3> QED BY <2>1, LeastNat
  <2> QED BY <2>2 DEF SecondId
<1>4. \A i \in Unused, s \in Known : s.id # i
  <2> SUFFICES ASSUME NEW i \in Unused, NEW s \in Known PROVE s.id # i
    OBVIOUS
  <2>1. pub.ssts = cur.ssts
    BY DEF LsmInv, Shape
  <2>2. CASE s \in manifest.ssts \cup cur.ssts
    BY <2>2 DEF Unused, Ids
  <2>3. CASE frozen # None /\ s = frozen
    <3>1. s.id \in (IF frozen = None THEN {} ELSE {frozen.id})
      BY <2>3
    <3> QED BY <3>1 DEF Unused
  <2>4. ASSUME NEW p \in Holding, s \in prepared[p].removed \cup prepared[p].outs
        PROVE  s.id # i
    <3>1. s.id \in Ids(prepared[p].removed \cup prepared[p].outs)
      BY <2>4 DEF Ids
    <3>2. s.id \in UNION {Ids(prepared[q].removed \cup prepared[q].outs) :
                            q \in {q \in Passes : prepared[q] # None}}
      BY <3>1 DEF Holding
    <3> QED BY <3>2 DEF Unused
  <2> QED BY <2>2, <2>3, <2>4 DEF Known
<1> QED BY <1>1, <1>2, <1>3, <1>4

\* A flush freezes the memtable under a fresh id.
LEMMA FlushStartStep ==
  ASSUME LsmInv, FlushStart
  PROVE  LsmInv'
<1> DEFINE f == [id |-> FreshId, level |-> 0, scope |-> 0, rows |-> mem,
                 max_lsn |-> Max({r.lsn : r \in mem}), schema |-> cur.schema]
<1>1. /\ frozen = None /\ mem # {} /\ Unused # {} /\ frozen' = f /\ mem' = {}
      /\ UNCHANGED <<manifest, snapfile, cur, stale, next_lsn, pub, prepared, truth, spent>>
  BY DEF FlushStart, Unlocked
<1>2. Held = mem /\ mem \subseteq RowSet /\ cur.schema \in Nat /\ next_lsn \in Nat /\ next_lsn > 0
  BY <1>1, Typed, LsmAssumption DEF Held
<1>3. /\ Max({r.lsn : r \in mem}) \in Nat /\ Max({r.lsn : r \in mem}) < next_lsn
      /\ \A q \in mem : q.lsn <= Max({r.lsn : r \in mem})
  <2> DEFINE S == {r.lsn : r \in mem}
             n == next_lsn - 1
  <2>1. \A r \in mem : r.lsn \in Nat /\ r.lsn < next_lsn
    BY <1>2 DEF RowSet, LsmInv, Ordered
  <2>2. n \in Nat /\ S \subseteq 0..n /\ S # {}
    BY <1>1, <1>2, <2>1
  <2>3. Max(S) \in S /\ \A y \in S : y <= Max(S)
    <3> HIDE DEF S, n
    <3> QED BY <2>2, BoundedMax
  <2> QED BY <2>1, <2>3
<1>4. FreshId \in 0..MaxSsts /\ \A s \in Known : s.id # FreshId
  BY <1>1, FreshWhat
<1>5. /\ f \in SstSet /\ f.rows = mem /\ f.level = 0 /\ f.schema = cur.schema /\ f.id = FreshId
      /\ f.max_lsn = Max({r.lsn : r \in mem})
  BY <1>2, <1>3, <1>4 DEF SstSet
<1> HIDE DEF f
<1>6. f # None /\ Sound(f) /\ f \notin Known /\ f.max_lsn < next_lsn
  BY <1>1, <1>3, <1>4, <1>5, LsmAssumption DEF Sound
<1>7. Held' = Held /\ Holding' = Holding /\ Known' = Known \cup {f}
  <2>1. Held' = mem /\ Holding' = Holding
    BY <1>1, <1>5, <1>6 DEF Held, Holding
  <2>2. Known = manifest.ssts \cup cur.ssts
                  \cup UNION {prepared[p].removed \cup prepared[p].outs : p \in Holding}
    BY <1>1 DEF Known
  <2>3. Known' = manifest.ssts \cup cur.ssts \cup {f}
                  \cup UNION {prepared[p].removed \cup prepared[p].outs : p \in Holding}
    BY <1>1, <1>6, <2>1 DEF Known
  <2> QED BY <1>2, <2>1, <2>2, <2>3
<1>8. Shape'
  <2>1. \E deep \in Nat : \A s \in Known' : s.level <= deep
    BY <1>5, <1>7 DEF LsmInv, Shape
  <2> QED BY <1>1, <1>5, <1>7, <2>1 DEF LsmInv, Shape
<1>9. Names'
  <2>1. \A s, t \in Known' : s.id = t.id => s = t
    BY <1>4, <1>5, <1>7 DEF LsmInv, Names
  <2>2. f \notin cur.ssts \cup manifest.ssts
        /\ \A p \in Holding : f \notin prepared[p].removed \cup prepared[p].outs
    BY <1>6 DEF Known
  <2> QED BY <1>1, <1>7, <2>1, <2>2 DEF LsmInv, Names
<1>10. Ordered'
  BY <1>1, <1>5, <1>6, <1>7 DEF LsmInv, Ordered, Sound
<1>11. Journal' /\ Stored' /\ Truths'
  BY <1>1, <1>7 DEF LsmInv, Journal, Stored, Truths
<1>12. Passed'
  BY <1>1, <1>7 DEF LsmInv, Passed, Above
<1> QED BY <1>8, <1>9, <1>10, <1>11, <1>12 DEF LsmInv

\* What Flushed is: the frozen rows move into the SSTs, the WAL is cleared.
LEMMA FlushedWhat ==
  ASSUME LsmInv, frozen # None
  PROVE  /\ Flushed \in ManifestSet /\ Flushed.ssts = cur.ssts \cup {frozen}
         /\ Flushed.wal = <<>> /\ Flushed.schema = cur.schema
         /\ Rows(Flushed.ssts) = Rows(cur.ssts) \cup Held
         /\ Held = frozen.rows /\ mem = {} /\ frozen \in SstSet
<1>1. /\ cur \in ManifestSet /\ cur.ssts \subseteq SstSet /\ frozen \in SstSet /\ mem = {}
      /\ Held = frozen.rows
  BY Typed DEF LsmInv, Shape, Ordered, Held
<1>2. <<>> \in Seq(RowSet)
  BY EmptySeq
<1>3. /\ Flushed \in ManifestSet /\ Flushed.ssts = cur.ssts \cup {frozen}
      /\ Flushed.wal = <<>> /\ Flushed.schema = cur.schema
  BY <1>1, <1>2 DEF Flushed, ManifestSet
<1>4. Rows(cur.ssts \cup {frozen}) = Rows(cur.ssts) \cup frozen.rows
  BY RowsWhat
<1> QED BY <1>1, <1>3, <1>4

\* The flush commits: the rows are in an SST and no longer in the WAL.
LEMMA FlushCommitStep ==
  ASSUME LsmInv, FlushCommit
  PROVE  LsmInv'
<1>1. /\ frozen # None /\ ~stale /\ frozen' = None
      /\ manifest' = Flushed /\ cur' = Flushed /\ pub' = [ssts |-> Flushed.ssts, mem |-> {}]
      /\ UNCHANGED <<snapfile, mem, stale, next_lsn, prepared, truth, spent>>
  BY DEF FlushCommit, Commit
<1>2. /\ manifest = cur /\ Flushed \in ManifestSet /\ Flushed.ssts = cur.ssts \cup {frozen}
      /\ Flushed.wal = <<>> /\ Flushed.schema = cur.schema
      /\ Rows(Flushed.ssts) = Rows(cur.ssts) \cup Held
      /\ Held = frozen.rows /\ mem = {} /\ frozen \in SstSet
  BY <1>1, FlushedWhat DEF LsmInv, Stored
<1>3. Held' = {} /\ Holding' = Holding
  BY <1>1, <1>2 DEF Held, Holding
<1>4. Known' \subseteq Known
  <2>1. Known' = Flushed.ssts
                   \cup UNION {prepared[p].removed \cup prepared[p].outs : p \in Holding}
    BY <1>1, <1>3 DEF Known
  <2> QED BY <1>1, <1>2, <2>1 DEF Known
<1>5. Shape'
  <2>1. \E deep \in Nat : \A s \in Known' : s.level <= deep
    BY <1>4 DEF LsmInv, Shape
  <2>2. pub' = [ssts |-> cur'.ssts, mem |-> Held']
    BY <1>1, <1>3
  <2> QED BY <1>1, <1>2, <2>1, <2>2 DEF LsmInv, Shape
<1>6. Names'
  <2>1. \A s, t \in Known' : s.id = t.id => s = t
    BY <1>4 DEF LsmInv, Names
  <2>2. ASSUME NEW p \in Holding
        PROVE  /\ prepared[p].outs \cap (Flushed.ssts \cup Flushed.ssts) = {}
               /\ prepared[p].removed \cap (Flushed.ssts \ Flushed.ssts) = {}
               /\ \A q \in Holding : /\ prepared[p].outs \cap prepared[q].removed = {}
                                     /\ p # q => prepared[p].outs \cap prepared[q].outs = {}
    BY <1>1, <1>2 DEF LsmInv, Names
  <2> QED BY <1>1, <1>3, <2>1, <2>2 DEF Names
<1>7. Ordered'
  <2>1. \A s \in Flushed.ssts : Sound(s) /\ s.max_lsn < next_lsn
    BY <1>1, <1>2 DEF LsmInv, Ordered
  <2>2. \A r, s \in Rows(Flushed.ssts) : r.k = s.k /\ r.lsn = s.lsn => r = s
    BY <1>2 DEF LsmInv, Ordered
  <2> QED BY <1>1, <1>3, <2>1, <2>2 DEF Ordered, Sound
<1>8. Journal'
  <2>1. DOMAIN <<>> = {}
    OBVIOUS
  <2> QED BY <1>1, <1>2, <1>3, <2>1, ReplayEmpty DEF LsmInv, Journal
<1>9. Stored'
  <2>1. Rows({}) = {} /\ Flushed.ssts \ Flushed.ssts = {}
    BY RowsWhat
  <2> QED BY <1>1, <2>1 DEF Stored
<1>10. Passed'
  <2> SUFFICES ASSUME NEW p \in Holding, prepared[p].removed \subseteq Flushed.ssts,
                      NEW r \in Rows(Flushed.ssts \ prepared[p].removed),
                      NEW t \in Rows(prepared[p].removed),
                      r.k = t.k, Buried(prepared[p], t.k)
               PROVE  t.lsn < r.lsn
    BY <1>1, <1>3 DEF LsmInv, Passed, Above
  <2>1. frozen \notin prepared[p].removed
    BY <1>1 DEF LsmInv, Names
  <2>2. prepared[p].removed \subseteq cur.ssts
    BY <1>2, <2>1
  <2>3. Flushed.ssts \ prepared[p].removed = (cur.ssts \ prepared[p].removed) \cup {frozen}
    BY <1>2, <2>1
  <2>4. r \in Rows(cur.ssts \ prepared[p].removed) \cup Held
    BY <1>2, <2>3, RowsWhat
  <2> QED BY <2>2, <2>4 DEF LsmInv, Passed, Above
<1>11. Truths'
  <2>1. Rows(Flushed.ssts) \cup {} = Rows(cur.ssts) \cup Held
    BY <1>2
  <2> QED BY <1>1, <1>2, <1>3, <2>1, ReplayEmpty DEF LsmInv, Truths
<1> QED BY <1>5, <1>6, <1>7, <1>8, <1>9, <1>10, <1>11 DEF LsmInv

\* The guard puts the frozen rows back, whether or not the commit landed.
LEMMA FlushFailsStep ==
  ASSUME LsmInv, NEW landed \in BOOLEAN, FlushFails(landed)
  PROVE  LsmInv'
<1>1. /\ frozen # None /\ Spend("fault", MaxFaults) /\ (landed => ~stale)
      /\ manifest' = IF landed THEN Flushed ELSE manifest
      /\ stale' = (stale \/ landed) /\ mem' = Restore(mem, frozen.rows) /\ frozen' = None
      /\ UNCHANGED <<snapfile, cur, next_lsn, pub, prepared, truth>>
  BY DEF FlushFails
<1>2. /\ Flushed \in ManifestSet /\ Flushed.ssts = cur.ssts \cup {frozen}
      /\ Flushed.wal = <<>> /\ Flushed.schema = cur.schema
      /\ Rows(Flushed.ssts) = Rows(cur.ssts) \cup Held
      /\ Held = frozen.rows /\ mem = {} /\ frozen \in SstSet
  BY <1>1, FlushedWhat
<1>3. mem' = Held /\ Held' = Held /\ Holding' = Holding
  <2>1. \A r \in Held : r.lsn \in Nat
    BY Typed DEF RowSet
  <2>2. Winners(Held) = Held
    BY <2>1 DEF Winners, LsmInv, Ordered
  <2>3. mem' = Held
    BY <1>1, <1>2, <2>2 DEF Restore
  <2> QED BY <1>1, <2>3 DEF Held, Holding
<1>4. CASE landed
  <2>1. manifest' = Flushed /\ stale' = TRUE /\ manifest = cur
    BY <1>1, <1>4 DEF LsmInv, Stored
  <2>2. Known' \subseteq Known
    <3>1. Known' = Flushed.ssts \cup cur.ssts
                     \cup UNION {prepared[p].removed \cup prepared[p].outs : p \in Holding}
      BY <1>1, <1>3, <2>1 DEF Known
    <3> QED BY <1>1, <1>2, <3>1 DEF Known
  <2>3. Shape'
    <3>1. \E deep \in Nat : \A s \in Known' : s.level <= deep
      BY <2>2 DEF LsmInv, Shape
    <3>2. spent' \in [write : Nat, ddl : Nat, fault : Nat] /\ spent'.ddl = spent.ddl
      BY <1>1, SpendWhat
    <3>3. mem' \subseteq RowSet
      BY <1>3, Typed
    <3> QED BY <1>1, <1>2, <1>3, <2>1, <3>1, <3>2, <3>3 DEF LsmInv, Shape
  <2>4. frozen \notin cur.ssts /\ Flushed.ssts \ cur.ssts = {frozen}
    BY <1>1, <1>2 DEF LsmInv, Names
  <2>5. Names'
    <3>1. \A s, t \in Known' : s.id = t.id => s = t
      BY <2>2 DEF LsmInv, Names
    <3>2. ASSUME NEW p \in Holding
          PROVE  /\ prepared[p].outs \cap (cur.ssts \cup Flushed.ssts) = {}
                 /\ prepared[p].removed \cap (Flushed.ssts \ cur.ssts) = {}
                 /\ \A q \in Holding : /\ prepared[p].outs \cap prepared[q].removed = {}
                                       /\ p # q => prepared[p].outs \cap prepared[q].outs = {}
      BY <1>1, <1>2, <2>4 DEF LsmInv, Names
    <3> QED BY <1>1, <1>3, <2>1, <3>1, <3>2 DEF Names
  <2>6. Ordered'
    <3>1. \A s \in cur.ssts \cup Flushed.ssts : Sound(s) /\ s.max_lsn < next_lsn
      BY <1>1, <1>2 DEF LsmInv, Ordered
    <3> QED BY <1>1, <1>3, <2>1, <3>1 DEF LsmInv, Ordered, Sound
  <2>7. Journal'
    BY <1>1, <1>3 DEF LsmInv, Journal
  <2>8. Stored'
    <3>1. Rows({frozen}) = Held
      BY <1>2, RowsWhat
    <3> QED BY <1>1, <1>2, <1>3, <2>1, <2>4, <3>1 DEF Stored
  <2>9. Passed'
    BY <1>1, <1>3 DEF LsmInv, Passed, Above
  <2>10. Truths'
    <3>1. Rows(Flushed.ssts) \cup {} = Rows(cur.ssts) \cup Held
      BY <1>2
    <3> QED BY <1>1, <1>2, <1>3, <2>1, <3>1, ReplayEmpty DEF LsmInv, Truths
  <2> QED BY <2>3, <2>5, <2>6, <2>7, <2>8, <2>9, <2>10 DEF LsmInv
<1>5. CASE ~landed
  <2>1. manifest' = manifest /\ stale' = stale
    BY <1>1, <1>5 DEF LsmInv, Shape
  <2>2. Known' \subseteq Known
    <3>1. Known' = manifest.ssts \cup cur.ssts
                     \cup UNION {prepared[p].removed \cup prepared[p].outs : p \in Holding}
      BY <1>1, <1>3, <2>1 DEF Known
    <3> QED BY <1>1, <3>1 DEF Known
  <2>3. Shape'
    <3>1. \E deep \in Nat : \A s \in Known' : s.level <= deep
      BY <2>2 DEF LsmInv, Shape
    <3>2. spent' \in [write : Nat, ddl : Nat, fault : Nat] /\ spent'.ddl = spent.ddl
      BY <1>1, SpendWhat
    <3>3. mem' \subseteq RowSet
      BY <1>3, Typed
    <3> QED BY <1>1, <1>3, <2>1, <3>1, <3>2, <3>3 DEF LsmInv, Shape
  <2>4. Names'
    BY <1>1, <1>3, <2>1, <2>2 DEF LsmInv, Names
  <2>5. Ordered'
    BY <1>1, <1>3, <2>1 DEF LsmInv, Ordered, Sound
  <2>6. Journal' /\ Stored' /\ Truths'
    BY <1>1, <1>3, <2>1 DEF LsmInv, Journal, Stored, Truths
  <2>7. Passed'
    BY <1>1, <1>3 DEF LsmInv, Passed, Above
  <2> QED BY <2>3, <2>4, <2>5, <2>6, <2>7 DEF LsmInv
<1> QED BY <1>4, <1>5

-----------------------------------------------------------------------------
(* Installs.                                                                *)

\* Replacing the inputs of a merge by its outputs changes no read, as long as
\* the rows beside them are newer than what the merge buried.
LEMMA CompactView ==
  ASSUME NEW pc, NEW O, O \subseteq RowSet, Rows(pc.removed) \subseteq RowSet, Merged(pc),
         \A r, s \in O \cup Rows(pc.removed) : r.k = s.k /\ r.lsn = s.lsn => r = s,
         \A r \in O, t \in Rows(pc.removed) :
           r.k = t.k /\ Buried(pc, t.k) => t.lsn < r.lsn
  PROVE  View(O \cup Rows(pc.outs)) = View(O \cup Rows(pc.removed))
<1> DEFINE D == Rows(pc.removed)
           E == Rows(pc.outs)
<1>1. E \subseteq D /\ \A r \in O \cup D : r.lsn \in Nat
  BY DEF Merged, RowSet
<1>2. \A r \in D : (\E w \in E : w.k = r.k /\ r.lsn <= w.lsn) \/ Buried(pc, r.k)
  BY DEF Merged
<1>3. ASSUME NEW w, ~w.del, w \in Winners(O \cup D)
      PROVE  w \in Winners(O \cup E)
  <2>1. w \in O \cup D /\ \A s \in O \cup D : s.k = w.k => s.lsn <= w.lsn
    BY <1>3 DEF Winners
  <2>2. ASSUME w \in D PROVE w \in E
    <3>1. ASSUME NEW v \in E, v.k = w.k, w.lsn <= v.lsn PROVE w \in E
      BY <1>1, <2>1, <3>1
    <3>2. ASSUME Buried(pc, w.k) PROVE FALSE
      <4>1. PICK t \in D : t.k = w.k /\ t.del /\ \A r \in D : r.k = w.k => r.lsn <= t.lsn
        BY <3>2 DEF Buried
      <4>2. t.lsn = w.lsn
        BY <1>1, <2>1, <2>2, <4>1
      <4> QED BY <1>3, <2>1, <4>1, <4>2
    <3> QED BY <1>2, <2>2, <3>1, <3>2
  <2> QED BY <1>1, <2>1, <2>2 DEF Winners
<1>4. ASSUME NEW w, w \in Winners(O \cup E)
      PROVE  w \in Winners(O \cup D)
  <2>1. w \in O \cup E /\ \A s \in O \cup E : s.k = w.k => s.lsn <= w.lsn
    BY <1>4 DEF Winners
  <2>2. ASSUME NEW s \in D, s.k = w.k PROVE s.lsn <= w.lsn
    <3>1. ASSUME NEW v \in E, v.k = s.k, s.lsn <= v.lsn PROVE s.lsn <= w.lsn
      <4>1. v.lsn <= w.lsn
        BY <2>1, <2>2, <3>1
      <4> QED BY <1>1, <2>1, <3>1, <4>1
    <3>2. ASSUME Buried(pc, s.k) PROVE s.lsn <= w.lsn
      <4>1. w \notin E
        BY <2>2, <3>2 DEF Buried
      <4>2. w \in O
        BY <2>1, <4>1
      <4>3. s.lsn < w.lsn
        BY <2>2, <3>2, <4>2
      <4> QED BY <1>1, <4>2, <4>3
    <3> QED BY <1>2, <3>1, <3>2
  <2> QED BY <1>1, <2>1, <2>2 DEF Winners
<1> HIDE DEF D, E
<1>5. View(O \cup E) = View(O \cup D)
  BY <1>3, <1>4, SameView
<1> QED BY <1>5 DEF D, E

\* What an install commits: fewer rows, the same reads.
LEMMA CompactedWhat ==
  ASSUME LsmInv, NEW p \in Holding, Installable(prepared[p])
  PROVE  /\ Compacted(prepared[p]) \in ManifestSet
         /\ Compacted(prepared[p]).ssts = (cur.ssts \ prepared[p].removed) \cup prepared[p].outs
         /\ Compacted(prepared[p]).wal = cur.wal /\ Compacted(prepared[p]).schema = cur.schema
         /\ prepared[p].removed \subseteq cur.ssts
         /\ prepared[p].outs \cap cur.ssts = {}
         /\ Rows(prepared[p].outs) \subseteq Rows(prepared[p].removed)
         /\ Rows(Compacted(prepared[p]).ssts) \subseteq Rows(cur.ssts)
         /\ View(Rows(Compacted(prepared[p]).ssts) \cup Held) = truth
         /\ \A s \in Compacted(prepared[p]).ssts : Sound(s) /\ s.max_lsn < next_lsn
         /\ \A s \in prepared[p].outs : s.schema = cur.schema
<1> DEFINE pc == prepared[p]
<1>1. /\ cur \in ManifestSet /\ cur.ssts \subseteq SstSet /\ pc.outs \subseteq SstSet
      /\ pc.removed \subseteq cur.ssts /\ cur.schema = pc.base_schema
      /\ Merged(pc) /\ Above(pc) /\ pc.outs \cap cur.ssts = {}
  BY Typed DEF LsmInv, Shape, Passed, Names, Installable
<1> HIDE DEF pc
<1>2. /\ Compacted(pc) \in ManifestSet
      /\ Compacted(pc).ssts = (cur.ssts \ pc.removed) \cup pc.outs
      /\ Compacted(pc).wal = cur.wal /\ Compacted(pc).schema = cur.schema
  <2> DEFINE S == (cur.ssts \ pc.removed) \cup pc.outs
  <2>1. S \subseteq SstSet
    BY <1>1
  <2>2. Compacted(pc) = [cur EXCEPT !.ssts = S]
    BY DEF Compacted
  <2> HIDE DEF S
  <2> QED BY <1>1, <2>1, <2>2 DEF ManifestSet, S
<1> DEFINE K == Rows(cur.ssts \ pc.removed)
<1>3. /\ Rows(pc.outs) \subseteq Rows(pc.removed) /\ Rows(pc.removed) \subseteq Rows(cur.ssts)
      /\ K \subseteq Rows(cur.ssts)
      /\ Rows(Compacted(pc).ssts) = K \cup Rows(pc.outs)
      /\ Rows(cur.ssts) = K \cup Rows(pc.removed)
  <2>1. cur.ssts = (cur.ssts \ pc.removed) \cup pc.removed
    BY <1>1
  <2>2. Rows(cur.ssts) = K \cup Rows(pc.removed)
    BY <2>1, RowsWhat
  <2>3. Rows(Compacted(pc).ssts) = K \cup Rows(pc.outs)
    BY <1>2, RowsWhat
  <2> QED BY <1>1, <2>2, <2>3 DEF Merged
<1> HIDE DEF K
<1>4. Rows(Compacted(pc).ssts) \subseteq Rows(cur.ssts)
  BY <1>3
<1>5. View(Rows(Compacted(pc).ssts) \cup Held) = truth
  <2> DEFINE O == K \cup Held
  <2>1. /\ O \subseteq RowSet /\ Rows(pc.removed) \subseteq RowSet
    BY <1>3, Typed
  <2>2. \A r, s \in O \cup Rows(pc.removed) : r.k = s.k /\ r.lsn = s.lsn => r = s
    BY <1>3 DEF LsmInv, Ordered
  <2>3. \A r \in O, t \in Rows(pc.removed) : r.k = t.k /\ Buried(pc, t.k) => t.lsn < r.lsn
    BY <1>1 DEF Above, K
  <2>4. /\ Rows(Compacted(pc).ssts) \cup Held = O \cup Rows(pc.outs)
        /\ Rows(cur.ssts) \cup Held = O \cup Rows(pc.removed)
    BY <1>3
  <2> HIDE DEF O
  <2>5. View(O \cup Rows(pc.outs)) = View(O \cup Rows(pc.removed))
    BY <1>1, <2>1, <2>2, <2>3, CompactView
  <2> QED BY <2>4, <2>5 DEF LsmInv, Truths
<1>6. \A s \in Compacted(pc).ssts : Sound(s) /\ s.max_lsn < next_lsn
  <2>1. \A s \in cur.ssts : Sound(s) /\ s.max_lsn < next_lsn
    BY DEF LsmInv, Ordered
  <2>2. \A o \in pc.outs : Sound(o) /\ \E s \in cur.ssts : o.max_lsn = s.max_lsn
    BY <1>1 DEF Merged
  <2> QED BY <1>2, <2>1, <2>2
<1>7. \A s \in pc.outs : s.schema = cur.schema
  BY <1>1 DEF Merged
<1> QED BY <1>1, <1>2, <1>3, <1>4, <1>5, <1>6, <1>7 DEF pc

\* Ending a pass frees its slot.
LEMMA EndPass ==
  ASSUME LsmInv, NEW p \in Passes, prepared' = [prepared EXCEPT ![p] = None]
  PROVE  /\ SomePasses /\ Holding' = Holding \ {p}
         /\ \A q \in Holding \ {p} : prepared'[q] = prepared[q]
<1>1. prepared \in [Passes -> PassSet \cup {None}]
  BY DEF LsmInv, Shape
<1>2. /\ prepared' \in [Passes -> PassSet \cup {None}] /\ prepared'[p] = None
      /\ \A q \in Passes : q # p => prepared'[q] = prepared[q]
  BY <1>1
<1> QED BY <1>2 DEF SomePasses, Holding

\* The install commits over whatever base the session has by now.
LEMMA InstallCommitStep ==
  ASSUME LsmInv, NEW p \in Passes, Unlocked, prepared[p] # None, Installable(prepared[p]), ~stale,
         Commit(Compacted(prepared[p]), mem), UNCHANGED <<mem, frozen, stale, next_lsn>>,
         prepared' = [prepared EXCEPT ![p] = None], UNCHANGED <<snapfile, truth, spent>>
  PROVE  LsmInv'
<1> PICK pc : pc = prepared[p]
  OBVIOUS
<1> PICK C : C = Compacted(pc)
  OBVIOUS
<1>1. p \in Holding /\ frozen = None /\ manifest = cur
  BY DEF Holding, Unlocked, LsmInv, Stored
<1>2. /\ C \in ManifestSet /\ C.ssts = (cur.ssts \ pc.removed) \cup pc.outs
      /\ C.wal = cur.wal /\ C.schema = cur.schema
      /\ pc.removed \subseteq cur.ssts /\ pc.outs \cap cur.ssts = {}
      /\ Rows(pc.outs) \subseteq Rows(pc.removed) /\ Rows(C.ssts) \subseteq Rows(cur.ssts)
      /\ View(Rows(C.ssts) \cup Held) = truth
      /\ \A s \in C.ssts : Sound(s) /\ s.max_lsn < next_lsn
  BY <1>1, CompactedWhat
<1>3. /\ manifest' = C /\ cur' = C /\ pub' = [ssts |-> C.ssts, mem |-> mem]
      /\ mem' = mem /\ frozen' = None /\ frozen = None /\ stale' = stale /\ next_lsn' = next_lsn
      /\ snapfile' = snapfile /\ truth' = truth /\ spent' = spent
  BY <1>1 DEF Commit
<1>4. Held' = Held /\ Held = mem
  BY <1>3 DEF Held
<1>5. /\ SomePasses /\ Holding' = Holding \ {p}
      /\ \A q \in Holding \ {p} : prepared'[q] = prepared[q]
  BY EndPass
<1>6. Known' \subseteq Known
  <2>1. UNION {prepared'[q].removed \cup prepared'[q].outs : q \in Holding'}
          \subseteq UNION {prepared[q].removed \cup prepared[q].outs : q \in Holding}
    BY <1>5
  <2>2. pc.outs \subseteq UNION {prepared[q].removed \cup prepared[q].outs : q \in Holding}
    BY <1>1
  <2>3. Known' = C.ssts \cup UNION {prepared'[q].removed \cup prepared'[q].outs : q \in Holding'}
    BY <1>3 DEF Known
  <2>4. Known = cur.ssts \cup UNION {prepared[q].removed \cup prepared[q].outs : q \in Holding}
    BY <1>1 DEF Known
  <2> QED BY <1>2, <2>1, <2>2, <2>3, <2>4
<1>7. Shape'
  <2>1. \E deep \in Nat : \A s \in Known' : s.level <= deep
    BY <1>6 DEF LsmInv, Shape
  <2>2. pub' = [ssts |-> cur'.ssts, mem |-> Held']
    BY <1>3, <1>4
  <2>3. cur'.schema <= spent'.ddl /\ manifest'.schema <= spent'.ddl /\ spent'.ddl <= MaxDdl
    BY <1>2, <1>3 DEF LsmInv, Shape
  <2> QED BY <1>2, <1>3, <1>5, <2>1, <2>2, <2>3 DEF LsmInv, Shape, SomePasses
<1>8. Names'
  <2>1. \A s, t \in Known' : s.id = t.id => s = t
    BY <1>6 DEF LsmInv, Names
  <2>2. ASSUME NEW q \in Holding \ {p}
        PROVE  /\ prepared[q].outs \cap (C.ssts \cup C.ssts) = {}
               /\ prepared[q].removed \cap (C.ssts \ C.ssts) = {}
               /\ \A o \in Holding \ {p} :
                    /\ prepared[q].outs \cap prepared[o].removed = {}
                    /\ q # o => prepared[q].outs \cap prepared[o].outs = {}
    <3>1. prepared[q].outs \cap cur.ssts = {} /\ prepared[q].outs \cap pc.outs = {}
      BY <1>1 DEF LsmInv, Names
    <3>2. prepared[q].outs \cap C.ssts = {}
      BY <1>2, <3>1
    <3> QED BY <3>2 DEF LsmInv, Names
  <2>3. \A q \in Holding' : q \in Holding \ {p} /\ prepared'[q] = prepared[q]
    BY <1>5
  <2> QED BY <1>3, <2>1, <2>2, <2>3 DEF Names
<1>9. Ordered'
  <2>1. \A r, s \in Rows(C.ssts) \cup Held : r.k = s.k /\ r.lsn = s.lsn => r = s
    BY <1>2 DEF LsmInv, Ordered
  <2>2. \A r \in Held, s \in Rows(C.ssts) : r.k = s.k => s.lsn < r.lsn
    BY <1>2 DEF LsmInv, Ordered
  <2>3. (\A r \in Held : r.lsn < next_lsn) /\ \A r, s \in Held : r.k = s.k => r = s
    BY DEF LsmInv, Ordered
  <2>4. \A s \in C.ssts : /\ s.rows # {} /\ (\A r \in s.rows : r.lsn <= s.max_lsn)
                         /\ s.max_lsn < next_lsn
    BY <1>2 DEF Sound
  <2> QED BY <1>3, <1>4, <2>1, <2>2, <2>3, <2>4 DEF Ordered, Sound
<1>10. Journal' /\ Truths'
  <2>1. View(Rows(C.ssts) \cup Replay({}, C.wal, 0)) = truth
    BY <1>2 DEF LsmInv, Journal
  <2> QED BY <1>2, <1>3, <1>4, <2>1 DEF LsmInv, Journal, Truths
<1>11. Stored'
  <2>1. Rows({}) = {} /\ C.ssts \ C.ssts = {}
    BY RowsWhat
  <2> QED BY <1>3, <2>1 DEF Stored
<1>12. Passed'
  <2> SUFFICES ASSUME NEW q \in Holding \ {p}, prepared[q].removed \subseteq C.ssts,
                      NEW r \in Rows(C.ssts \ prepared[q].removed) \cup Held,
                      NEW t \in Rows(prepared[q].removed),
                      r.k = t.k, Buried(prepared[q], t.k)
               PROVE  t.lsn < r.lsn
    BY <1>3, <1>4, <1>5 DEF LsmInv, Passed, Above
  <2>1. pc.outs \cap prepared[q].removed = {} /\ Above(prepared[q])
    BY <1>1 DEF LsmInv, Names, Passed
  <2>2. prepared[q].removed \subseteq cur.ssts \ pc.removed
    BY <1>2, <2>1
  <2>3. r \in Rows(cur.ssts \ prepared[q].removed) \cup Held
    <3>1. ASSUME NEW s \in C.ssts \ prepared[q].removed, r \in s.rows
          PROVE  r \in Rows(cur.ssts \ prepared[q].removed)
      <4>1. CASE s \in cur.ssts
        BY <3>1, <4>1, RowsWhat
      <4>2. CASE s \in pc.outs
        <5>1. r \in Rows(pc.removed)
          BY <1>2, <3>1, <4>2, RowsWhat
        <5>2. pc.removed \subseteq cur.ssts \ prepared[q].removed
          BY <1>2, <2>2
        <5> QED BY <5>1, <5>2, RowsWhat
      <4> QED BY <1>2, <4>1, <4>2
    <3> QED BY <3>1, RowsWhat
  <2> QED BY <2>1, <2>2, <2>3 DEF Above
<1> QED BY <1>7, <1>8, <1>9, <1>10, <1>11, <1>12 DEF LsmInv

\* The install of a task that dies lands in the store alone.
LEMMA InstallLostStep ==
  ASSUME LsmInv, NEW p \in Passes, InstallLost(p)
  PROVE  LsmInv'
<1> PICK pc : pc = prepared[p]
  OBVIOUS
<1> PICK C : C = Compacted(pc)
  OBVIOUS
<1>1. /\ p \in Holding /\ frozen = None /\ manifest = cur /\ Installable(pc)
      /\ Spend("fault", MaxFaults) /\ manifest' = C /\ stale' = TRUE
      /\ prepared' = [prepared EXCEPT ![p] = None]
      /\ cur' = cur /\ pub' = pub /\ mem' = mem /\ frozen' = None /\ next_lsn' = next_lsn
      /\ snapfile' = snapfile /\ truth' = truth
  BY DEF InstallLost, Holding, Unlocked, LsmInv, Stored
<1>2. /\ C \in ManifestSet /\ C.ssts = (cur.ssts \ pc.removed) \cup pc.outs
      /\ C.wal = cur.wal /\ C.schema = cur.schema
      /\ pc.removed \subseteq cur.ssts /\ pc.outs \cap cur.ssts = {}
      /\ Rows(pc.outs) \subseteq Rows(pc.removed) /\ Rows(C.ssts) \subseteq Rows(cur.ssts)
      /\ View(Rows(C.ssts) \cup Held) = truth
      /\ \A s \in C.ssts : Sound(s) /\ s.max_lsn < next_lsn
  BY <1>1, CompactedWhat
<1>3. Held' = Held /\ Held = mem
  BY <1>1 DEF Held
<1>4. /\ SomePasses /\ Holding' = Holding \ {p}
      /\ \A q \in Holding \ {p} : prepared'[q] = prepared[q]
  BY <1>1, EndPass
<1>5. Known' \subseteq Known
  <2>1. UNION {prepared'[q].removed \cup prepared'[q].outs : q \in Holding'}
          \subseteq UNION {prepared[q].removed \cup prepared[q].outs : q \in Holding}
    BY <1>4
  <2>2. pc.outs \subseteq UNION {prepared[q].removed \cup prepared[q].outs : q \in Holding}
    BY <1>1
  <2>3. Known' = C.ssts \cup cur.ssts
                   \cup UNION {prepared'[q].removed \cup prepared'[q].outs : q \in Holding'}
    BY <1>1 DEF Known
  <2>4. Known = cur.ssts \cup UNION {prepared[q].removed \cup prepared[q].outs : q \in Holding}
    BY <1>1 DEF Known
  <2> QED BY <1>2, <2>1, <2>2, <2>3, <2>4
<1>6. Shape'
  <2>1. \E deep \in Nat : \A s \in Known' : s.level <= deep
    BY <1>5 DEF LsmInv, Shape
  <2>2. pub' = [ssts |-> cur'.ssts, mem |-> Held']
    BY <1>1, <1>3 DEF LsmInv, Shape
  <2>3. spent' \in [write : Nat, ddl : Nat, fault : Nat] /\ spent'.ddl = spent.ddl
    BY <1>1, SpendWhat
  <2>4. cur'.schema <= spent'.ddl /\ manifest'.schema <= spent'.ddl /\ spent'.ddl <= MaxDdl
    BY <1>1, <1>2, <2>3 DEF LsmInv, Shape
  <2> QED BY <1>1, <1>2, <1>4, <2>1, <2>2, <2>3, <2>4 DEF LsmInv, Shape, SomePasses
<1>7. C.ssts \ cur.ssts = pc.outs /\ cur.ssts \ C.ssts = pc.removed
  BY <1>2
<1>8. Names'
  <2>1. \A s, t \in Known' : s.id = t.id => s = t
    BY <1>5 DEF LsmInv, Names
  <2>2. ASSUME NEW q \in Holding \ {p}
        PROVE  /\ prepared[q].outs \cap (cur.ssts \cup C.ssts) = {}
               /\ prepared[q].removed \cap (C.ssts \ cur.ssts) = {}
               /\ \A o \in Holding \ {p} :
                    /\ prepared[q].outs \cap prepared[o].removed = {}
                    /\ q # o => prepared[q].outs \cap prepared[o].outs = {}
    <3>1. /\ prepared[q].outs \cap cur.ssts = {} /\ prepared[q].outs \cap pc.outs = {}
          /\ pc.outs \cap prepared[q].removed = {}
      BY <1>1 DEF LsmInv, Names
    <3>2. /\ prepared[q].outs \cap (cur.ssts \cup C.ssts) = {}
          /\ prepared[q].removed \cap (C.ssts \ cur.ssts) = {}
      BY <1>2, <1>7, <3>1
    <3> QED BY <3>2 DEF LsmInv, Names
  <2>3. \A q \in Holding' : q \in Holding \ {p} /\ prepared'[q] = prepared[q]
    BY <1>4
  <2> QED BY <1>1, <2>1, <2>2, <2>3 DEF Names
<1>9. Ordered'
  <2>1. \A s \in cur.ssts \cup C.ssts : Sound(s) /\ s.max_lsn < next_lsn
    BY <1>2 DEF LsmInv, Ordered
  <2> QED BY <1>1, <1>3, <2>1 DEF LsmInv, Ordered, Sound
<1>10. Journal' /\ Truths'
  <2>1. View(Rows(C.ssts) \cup Replay({}, C.wal, 0)) = truth
    BY <1>2 DEF LsmInv, Journal
  <2> QED BY <1>1, <1>3, <2>1 DEF LsmInv, Journal, Truths
<1>11. Stored'
  <2>1. Rows(C.ssts \ cur.ssts) \subseteq Rows(cur.ssts \ C.ssts)
    BY <1>2, <1>7
  <2> QED BY <1>1, <1>2, <1>3, <2>1 DEF Stored
<1>12. Passed'
  <2> SUFFICES ASSUME NEW q \in Holding \ {p}
               PROVE  Merged(prepared[q]) /\ Above(prepared[q])
    BY <1>1, <1>3, <1>4 DEF Passed, Above
  <2> QED BY DEF LsmInv, Passed
<1> QED BY <1>6, <1>8, <1>9, <1>10, <1>11, <1>12 DEF LsmInv

\* Whatever becomes of an install: committed, reopened, or refused.
LEMMA InstallStep ==
  ASSUME LsmInv, NEW p \in Passes, Install(p)
  PROVE  LsmInv'
<1>1. /\ Unlocked /\ prepared[p] # None /\ prepared' = [prepared EXCEPT ![p] = None]
      /\ UNCHANGED <<snapfile, truth, spent>>
  BY DEF Install
<1>2. SomePasses /\ Spends
  BY <1>1, EndPass DEF Spends, LsmInv, Shape
<1>3. CASE /\ Installable(prepared[p]) /\ ~stale /\ Commit(Compacted(prepared[p]), mem)
           /\ UNCHANGED <<mem, frozen, stale, next_lsn>>
  BY <1>1, <1>3, InstallCommitStep
<1>4. CASE Reopen /\ UNCHANGED manifest
  BY <1>1, <1>2, <1>4, ReopenStep
<1>5. CASE UNCHANGED <<manifest, sessVars, pub>>
  BY <1>1, <1>2, <1>5, QuietStep
<1> QED BY <1>3, <1>4, <1>5 DEF Install

\* A pass that is given up leaves orphans, and nothing else.
LEMMA AbandonPassStep ==
  ASSUME LsmInv, NEW p \in Passes, AbandonPass(p)
  PROVE  LsmInv'
<1>1. /\ prepared' = [prepared EXCEPT ![p] = None] /\ Spend("fault", MaxFaults)
      /\ UNCHANGED <<manifest, snapfile, sessVars, pub, truth>>
  BY DEF AbandonPass
<1>2. SomePasses /\ Spends
  BY <1>1, EndPass, SpendWhat DEF Spends
<1> QED BY <1>1, <1>2, QuietStep

\* A snapshot file is written for the session's WAL and memtable, or reclaimed.
LEMMA SnapshotStep ==
  ASSUME LsmInv, WriteSnapshot \/ ReclaimSnapshot
  PROVE  LsmInv'
<1>1. /\ UNCHANGED <<manifest, sessVars, pub, truth>> /\ prepared' = prepared /\ spent' = spent
      /\ snapfile' = None \/ (frozen = None /\ snapfile' = [wal |-> cur.wal, rows |-> mem])
  BY DEF WriteSnapshot, ReclaimSnapshot, Unlocked
<1>2. SomePasses /\ Spends
  BY <1>1 DEF SomePasses, Spends, LsmInv, Shape
<1> QED BY <1>1, <1>2, QuietStep

\* Reopens after a lost CAS, and after a crash.
LEMMA ReopensStep ==
  ASSUME LsmInv, RecoverWriter \/ FlushConflict \/ Crash
  PROVE  LsmInv'
<1>1. Reopen /\ UNCHANGED <<manifest, snapfile, truth>>
  BY DEF RecoverWriter, FlushConflict, Crash
<1>2. SomePasses
  BY DEF RecoverWriter, FlushConflict, Crash, SomePasses, LsmInv, Shape
<1>3. Spends
  <2>1. CASE Crash
    BY <2>1, SpendWhat DEF Crash, Spends
  <2>2. CASE RecoverWriter \/ FlushConflict
    BY <2>2 DEF RecoverWriter, FlushConflict, Spends, LsmInv, Shape
  <2> QED BY <2>1, <2>2
<1> QED BY <1>1, <1>2, <1>3, ReopenStep

-----------------------------------------------------------------------------
(* Preparing a pass.                                                        *)

\* SSTs with at most one scope between them are all of the same scope.
LEMMA OneScope ==
  ASSUME NEW S, S \subseteq SstSet, Cardinality({s.scope : s \in S}) <= 1,
         NEW s \in S, NEW t \in S
  PROVE  s.scope = t.scope
<1> DEFINE C == {u.scope : u \in S}
<1>1. C \subseteq {0, 1}
  BY DEF SstSet
<1>2. s.scope \in C /\ t.scope \in C
  OBVIOUS
<1>3. IsFiniteSet(C)
  <2> DEFINE Z == {0}
  <2>1. IsFiniteSet(Z)
    BY FS_Singleton
  <2> HIDE DEF Z
  <2>2. IsFiniteSet(Z \cup {1})
    BY <2>1, FS_AddElement
  <2>3. C \in SUBSET (Z \cup {1})
    BY <1>1 DEF Z
  <2> HIDE DEF C
  <2> QED BY <2>2, <2>3, FS_Subset
<1> HIDE DEF C
<1>4. Cardinality(C) \in Nat /\ Cardinality(C) # 0
  BY <1>2, <1>3, FS_CardinalityType, FS_EmptySet
<1>5. Cardinality(C) = 1
  BY <1>4 DEF C
<1>6. \E x : C = {x}
  BY <1>3, <1>5, FS_Singleton
<1> QED BY <1>2, <1>6

\* The deepest level of a bucket whose levels are bounded.
LEMMA DeepestWhat ==
  ASSUME NEW B, B \subseteq SstSet, NEW deep \in Nat, \A s \in B : s.level <= deep
  PROVE  Deepest(B) \in 0..deep /\ \A s \in B : s.level <= Deepest(B)
<1>1. \A s \in B : s.level \in Nat
  BY DEF SstSet
<1>2. {s.level : s \in B} \subseteq 0..deep
  BY <1>1
<1> QED BY <1>2, MaxOr0What DEF Deepest

\* The cascade stops at the first level in budget or at the deepest.
LEMMA StopWhat ==
  ASSUME NEW B, Deepest(B) \in Nat
  PROVE  /\ StopLevel(B) \in 1..(Deepest(B) + 1)
         /\ ~Overflows(B, StopLevel(B)) \/ StopLevel(B) >= Deepest(B)
<1> DEFINE S == {l \in 1..(Deepest(B) + 1) : ~Overflows(B, l) \/ l >= Deepest(B)}
<1>1. S \subseteq Nat
  OBVIOUS
<1>2. Deepest(B) + 1 \in S
  OBVIOUS
<1>3. Min(S) \in S
  <2>1. S # {}
    BY <1>2
  <2> HIDE DEF S
  <2> QED BY <1>1, <2>1, LeastNat
<1>4. StopLevel(B) = Min(S)
  BY DEF StopLevel
<1> QED BY <1>3, <1>4

\* A plan takes SSTs of its bucket, all of them when nothing deeper is left.
LEMMA BucketPlanWhat ==
  ASSUME NEW B, B \subseteq SstSet, NEW deep \in Nat, \A s \in B : s.level <= deep,
         BucketPlan(B) # None
  PROVE  /\ BucketPlan(B).inputs \subseteq B
         /\ BucketPlan(B).level \in Nat /\ BucketPlan(B).level <= deep + 2
         /\ BucketPlan(B).deepest => BucketPlan(B).inputs = B
<1> DEFINE D == Deepest(B)
           stop == StopLevel(B)
           spill == Overflows(B, stop) /\ D >= 1
           target == IF spill THEN stop + 1 ELSE stop
<1>1. D \in 0..deep /\ \A s \in B : s.level <= D
  BY DeepestWhat
<1>2. stop \in 1..(D + 1) /\ (~Overflows(B, stop) \/ stop >= D)
  BY <1>1, StopWhat
<1>3. BucketPlan(B) = [inputs |-> UpTo(B, stop), level |-> target, deepest |-> target >= D]
  BY DEF BucketPlan
<1>4. /\ BucketPlan(B).inputs = UpTo(B, stop) /\ BucketPlan(B).level = target
      /\ BucketPlan(B).deepest = (target >= D)
  BY <1>3
<1> HIDE DEF D, stop
<1>5. target \in Nat /\ target <= deep + 2
  BY <1>1, <1>2
<1>6. target >= D => stop >= D
  BY <1>1, <1>2
<1>7. \A s \in B : s.level \in Nat
  BY DEF SstSet
<1>8. UpTo(B, stop) \subseteq B /\ (stop >= D => UpTo(B, stop) = B)
  BY <1>1, <1>2, <1>7 DEF UpTo
<1> HIDE DEF target
<1> QED BY <1>4, <1>5, <1>6, <1>8

\* The same of a plan that rewrites a bucket for its sidecars.
LEMMA PlanWhat ==
  ASSUME NEW B, B \subseteq SstSet, NEW deep \in Nat, \A s \in B : s.level <= deep,
         NEW schema, NodePlan(B, schema) # None
  PROVE  /\ NodePlan(B, schema).inputs \subseteq B
         /\ NodePlan(B, schema).level \in Nat /\ NodePlan(B, schema).level <= deep + 2
         /\ NodePlan(B, schema).deepest => NodePlan(B, schema).inputs = B
<1>1. CASE BucketPlan(B) = None /\ (\E s \in B : s.schema < schema)
  <2> DEFINE D == Deepest(B)
  <2>1. NodePlan(B, schema) = [inputs |-> B, level |-> Max({1, D}), deepest |-> TRUE]
    BY <1>1 DEF NodePlan
  <2>2. D \in 0..deep
    BY DeepestWhat
  <2> HIDE DEF D
  <2>3. Max({1, D}) \in {1, D}
    <3>1. {1, D} \subseteq 0..(deep + 1) /\ {1, D} # {} /\ deep + 1 \in Nat
      BY <2>2
    <3> QED BY <3>1, BoundedMax
  <2>4. Max({1, D}) \in Nat /\ Max({1, D}) <= deep + 2
    BY <2>2, <2>3
  <2> QED BY <2>1, <2>4
<1>2. CASE ~(BucketPlan(B) = None /\ (\E s \in B : s.schema < schema))
  <2>1. NodePlan(B, schema) = BucketPlan(B)
    BY <1>2 DEF NodePlan
  <2> QED BY <2>1, BucketPlanWhat
<1> QED BY <1>1, <1>2

\* Among rows of bounded LSN every key has a winner.
LEMMA WinnerExists ==
  ASSUME NEW R, R \subseteq RowSet, NEW n \in Nat, \A r \in R : r.lsn <= n, NEW r \in R
  PROVE  \E w \in Winners(R) : w.k = r.k /\ r.lsn <= w.lsn
<1> DEFINE S == {s.lsn : s \in {q \in R : q.k = r.k}}
<1>1. \A s \in R : s.lsn \in Nat
  BY DEF RowSet
<1>2. S \subseteq 0..n /\ r.lsn \in S
  BY <1>1
<1>3. Max(S) \in S /\ \A y \in S : y <= Max(S)
  <2>1. S # {}
    BY <1>2
  <2> HIDE DEF S
  <2> QED BY <1>2, <2>1, BoundedMax
<1>4. PICK w \in R : w.k = r.k /\ w.lsn = Max(S)
  BY <1>3
<1>5. \A s \in R : s.k = r.k => s.lsn \in S
  OBVIOUS
<1> HIDE DEF S
<1>6. w \in Winners(R)
  BY <1>3, <1>4, <1>5 DEF Winners
<1> QED BY <1>2, <1>3, <1>4, <1>6

\* The inputs of the plan a pass makes for a scope, and whether it may drop
\* tombstones there.
Inputs(c) == NodePlan(Bucket(cur.ssts, c), cur.schema).inputs
Drops(c) == GcSafe(cur, NodePlan(Bucket(cur.ssts, c), cur.schema))

\* What a pass writes for one scope.
LEMMA OutputWhat ==
  ASSUME LsmInv, NEW c \in Planned(cur), NEW id \in 0..MaxSsts,
         NEW deep \in Nat, \A s \in cur.ssts : s.level <= deep
  PROVE  /\ Inputs(c) \subseteq Bucket(cur.ssts, c)
         /\ Rows(Output(cur, c, id)) = Merge(Rows(Inputs(c)), Drops(c))
         /\ Drops(c) => \A s \in cur.ssts : s.scope = c => s \in Inputs(c)
         /\ \A o, u \in Output(cur, c, id) : o = u
         /\ \A o \in Output(cur, c, id) :
              /\ o \in SstSet /\ o.id = id /\ o.level <= deep + 2
              /\ Sound(o) /\ o.schema = cur.schema
              /\ \E s \in Inputs(c) : o.max_lsn = s.max_lsn
<1> DEFINE B == Bucket(cur.ssts, c)
           plan == NodePlan(B, cur.schema)
           rows == Merge(Rows(plan.inputs), GcSafe(cur, plan))
           o == [id |-> id, level |-> plan.level, scope |-> c, rows |-> rows,
                 max_lsn |-> HighWater(plan.inputs), schema |-> cur.schema]
<1>1. /\ B \subseteq cur.ssts /\ B \subseteq SstSet /\ \A s \in B : s.level <= deep
      /\ \A s \in cur.ssts : s.scope = c => s \in B
  BY Typed DEF Bucket
<1>2. plan # None /\ c \in {0, 1}
  BY DEF Planned
<1>3. /\ plan.inputs \subseteq B /\ plan.level \in Nat /\ plan.level <= deep + 2
      /\ plan.deepest => plan.inputs = B
  <2> HIDE DEF B
  <2> QED BY <1>1, <1>2, PlanWhat
<1>4. Inputs(c) = plan.inputs /\ Drops(c) = GcSafe(cur, plan)
  BY DEF Inputs, Drops
<1>5. Output(cur, c, id) = IF rows = {} THEN {} ELSE {o}
  BY DEF Output
<1>6. GcSafe(cur, plan) => plan.deepest
  BY DEF GcSafe
<1> HIDE DEF plan
<1>7. rows \subseteq Rows(plan.inputs) /\ Rows(plan.inputs) \subseteq Rows(cur.ssts)
  <2>1. Rows(plan.inputs) \subseteq Rows(cur.ssts)
    BY <1>1, <1>3, RowsWhat
  <2> QED BY <2>1 DEF Merge, Winners
<1>8. /\ HighWater(plan.inputs) \in Nat
      /\ \A s \in plan.inputs : s.max_lsn <= HighWater(plan.inputs) /\ s.max_lsn \in Nat
      /\ plan.inputs # {} => \E s \in plan.inputs : HighWater(plan.inputs) = s.max_lsn
  <2> DEFINE n == next_lsn - 1
  <2>1. next_lsn \in Nat /\ next_lsn > 0 /\ \A s \in cur.ssts : s.max_lsn < next_lsn
    BY Typed DEF LsmInv, Ordered
  <2>2. plan.inputs \subseteq SstSet /\ \A s \in plan.inputs : s.max_lsn \in Nat
    BY <1>1, <1>3 DEF SstSet
  <2>3. n \in Nat /\ \A s \in plan.inputs : s.max_lsn <= n
    BY <1>1, <1>3, <2>1, <2>2
  <2> HIDE DEF n
  <2> QED BY <2>2, <2>3, HighWaterWhat
<1>9. cur.schema \in Nat /\ rows \subseteq RowSet
  BY <1>7, Typed, LsmAssumption
<1>10. Rows(plan.inputs) # {} => plan.inputs # {}
  BY RowsWhat
<1>11. \A r \in rows : r.lsn <= HighWater(plan.inputs)
  <2> SUFFICES ASSUME NEW s \in plan.inputs, NEW r \in s.rows, r \in RowSet
               PROVE  r.lsn <= HighWater(plan.inputs)
    BY <1>7, <1>9, RowsWhat
  <2>1. r.lsn <= s.max_lsn /\ r.lsn \in Nat
    BY <1>1, <1>3 DEF LsmInv, Ordered, Sound, RowSet
  <2> QED BY <1>8, <2>1
<1> HIDE DEF rows
<1>12. /\ o \in SstSet /\ o.id = id /\ o.level = plan.level /\ o.rows = rows
       /\ o.max_lsn = HighWater(plan.inputs) /\ o.schema = cur.schema
  BY <1>2, <1>3, <1>8, <1>9 DEF SstSet
<1> HIDE DEF o
<1>13. Rows(Output(cur, c, id)) = rows
  <2>1. Rows({}) = {} /\ Rows({o}) = o.rows
    BY RowsWhat
  <2>2. CASE rows = {}
    BY <1>5, <2>1, <2>2
  <2>3. CASE rows # {}
    BY <1>5, <1>12, <2>1, <2>3
  <2> QED BY <2>2, <2>3
<1>14. rows # {} => /\ Sound(o) /\ \E s \in plan.inputs : o.max_lsn = s.max_lsn
  BY <1>7, <1>8, <1>10, <1>11, <1>12 DEF Sound
<1>15. Rows(Output(cur, c, id)) = Merge(Rows(Inputs(c)), Drops(c))
  BY <1>4, <1>13 DEF rows
<1> QED BY <1>1, <1>3, <1>4, <1>5, <1>6, <1>12, <1>14, <1>15

\* A pass that drops tombstones has taken every SST of the session.
LEMMA DropsWhat ==
  ASSUME LsmInv, NEW c \in Planned(cur), Drops(c), NEW s \in Inputs(c)
  PROVE  Inputs(c) = cur.ssts /\ \A t \in cur.ssts : t.scope = c
<1>1. PICK deep \in Nat : \A t \in cur.ssts : t.level <= deep
  BY DEF LsmInv, Shape, Known
<1>2. 0 \in 0..MaxSsts
  BY LsmAssumption
<1>3. /\ Inputs(c) \subseteq Bucket(cur.ssts, c)
      /\ \A t \in cur.ssts : t.scope = c => t \in Inputs(c)
  BY <1>1, <1>2, OutputWhat
<1>4. s \in cur.ssts /\ s.scope = c /\ Inputs(c) \subseteq cur.ssts
  BY <1>3 DEF Bucket
<1>5. \A t \in cur.ssts : t.scope = s.scope
  <2>1. Cardinality({t.scope : t \in cur.ssts}) <= 1
    BY DEF Drops, GcSafe
  <2> QED BY <1>4, <2>1, Typed, OneScope
<1> QED BY <1>3, <1>4, <1>5

\* The ids of the SSTs a pass writes, and the SST for each scope.
NewId(c) == IF c = 0 THEN FreshId ELSE SecondId
Out(c) == Output(cur, c, NewId(c))

\* What the merge of one scope leaves out is shadowed or buried.
LEMMA MergedScope ==
  ASSUME LsmInv, NEW pc, NEW c \in Planned(cur), NEW r \in Rows(Inputs(c)),
         Rows(pc.removed) = UNION {Rows(Inputs(d)) : d \in Planned(cur)},
         Rows(pc.outs) = UNION {Merge(Rows(Inputs(d)), Drops(d)) : d \in Planned(cur)},
         \A d \in Planned(cur) : Inputs(d) \subseteq Bucket(cur.ssts, d)
  PROVE  \/ \E w \in Rows(pc.outs) : w.k = r.k /\ r.lsn <= w.lsn
         \/ Buried(pc, r.k) /\ Drops(c)
<1>1. Inputs(c) \subseteq cur.ssts
  BY DEF Bucket
<1>2. Rows(Inputs(c)) \subseteq Rows(cur.ssts) /\ Rows(cur.ssts) \subseteq RowSet
  BY <1>1, Typed, RowsWhat
<1>3. PICK w \in Winners(Rows(Inputs(c))) : w.k = r.k /\ r.lsn <= w.lsn
  <2> DEFINE n == next_lsn - 1
  <2>1. n \in Nat /\ next_lsn \in Nat
    BY Typed
  <2>2. \A q \in Rows(Inputs(c)) : q.lsn <= n
    <3> SUFFICES ASSUME NEW s \in cur.ssts, NEW q \in s.rows, q \in RowSet PROVE q.lsn <= n
      BY <1>1, <1>2, RowsWhat
    <3>1. q.lsn <= s.max_lsn /\ s.max_lsn < next_lsn
      BY DEF LsmInv, Ordered, Sound
    <3>2. q.lsn \in Nat /\ s.max_lsn \in Nat
      BY Typed DEF RowSet, SstSet
    <3> QED BY <2>1, <3>1, <3>2
  <2> HIDE DEF n
  <2> QED BY <1>2, <2>1, <2>2, WinnerExists
<1>4. w \in Rows(Inputs(c)) /\ \A s \in Rows(Inputs(c)) : s.k = w.k => s.lsn <= w.lsn
  BY DEF Winners
<1>5. CASE ~(Drops(c) /\ w.del)
  <2>1. w \in Merge(Rows(Inputs(c)), Drops(c))
    BY <1>5 DEF Merge
  <2>2. w \in Rows(pc.outs)
    BY <2>1
  <2> QED BY <1>3, <2>2
<1>6. CASE Drops(c) /\ w.del
  <2>1. \E s : s \in Inputs(c)
    BY RowsWhat
  <2>2. Inputs(c) = cur.ssts /\ \A t \in cur.ssts : t.scope = c
    BY <1>6, <2>1, DropsWhat
  <2>3. ASSUME NEW d \in Planned(cur), d # c PROVE Rows(Inputs(d)) = {}
    <3>1. Inputs(d) = {}
      BY <2>2, <2>3 DEF Bucket
    <3> QED BY <3>1, RowsWhat
  <2>4. Rows(pc.removed) = Rows(Inputs(c))
    BY <2>3
  <2>5. ASSUME NEW v \in Rows(pc.outs), v.k = r.k PROVE FALSE
    <3>1. PICK d \in Planned(cur) : v \in Merge(Rows(Inputs(d)), Drops(d))
      OBVIOUS
    <3>2. v \in Winners(Rows(Inputs(d))) /\ ~(Drops(d) /\ v.del)
      BY <3>1 DEF Merge
    <3>3. d = c
      BY <2>3, <3>2 DEF Winners
    <3>4. v \in Rows(Inputs(c)) /\ w.lsn <= v.lsn /\ v.lsn <= w.lsn
      BY <1>3, <1>4, <2>5, <3>2, <3>3 DEF Winners
    <3>5. v.lsn \in Nat /\ w.lsn \in Nat
      BY <1>2, <1>4, <3>4 DEF RowSet
    <3>6. v.lsn = w.lsn
      BY <3>4, <3>5
    <3>7. v = w
      BY <1>2, <1>3, <1>4, <2>5, <3>4, <3>6 DEF LsmInv, Ordered
    <3> QED BY <1>6, <3>2, <3>3, <3>7
  <2>6. Buried(pc, r.k)
    BY <1>3, <1>4, <1>6, <2>4, <2>5 DEF Buried
  <2> QED BY <1>6, <2>6
<1> QED BY <1>5, <1>6

\* What prepare_leveled hands over.
LEMMA PrepareWhat ==
  ASSUME LsmInv, Unused # {}, Unused \ {FreshId} # {},
         NEW deep \in Nat, \A s \in Known : s.level <= deep,
         NEW pc, pc = Prepare(cur)
  PROVE  /\ pc \in PassSet /\ pc.removed \subseteq cur.ssts /\ pc.base_schema = cur.schema
         /\ Merged(pc) /\ Above(pc)
         /\ \A o \in pc.outs : o.level <= deep + 2
         /\ \A o \in pc.outs, s \in Known : o.id # s.id
         /\ \A o, u \in pc.outs : o.id = u.id => o = u
<1> DEFINE P == Planned(cur)
<1>1. /\ pc.removed = UNION {Inputs(c) : c \in P} /\ pc.outs = UNION {Out(c) : c \in P}
      /\ pc.base_schema = cur.schema /\ pc = [removed |-> pc.removed, outs |-> pc.outs, base_schema |-> cur.schema]
  BY DEF Prepare, Inputs, Out, NewId
<1>2. /\ FreshId \in 0..MaxSsts /\ \A s \in Known : s.id # FreshId
      /\ SecondId \in 0..MaxSsts /\ SecondId # FreshId /\ \A s \in Known : s.id # SecondId
  BY FreshWhat
<1>3. P \subseteq {0, 1} /\ (\A c \in P : NewId(c) \in 0..MaxSsts /\ \A s \in Known : s.id # NewId(c))
      /\ \A c, d \in P : NewId(c) = NewId(d) => c = d
  BY <1>2 DEF Planned, NewId
<1>4. cur.ssts \subseteq Known /\ \A s \in cur.ssts : s.level <= deep
  BY DEF Known
<1>5. ASSUME NEW c \in P
      PROVE  /\ Inputs(c) \subseteq Bucket(cur.ssts, c) /\ Inputs(c) \subseteq cur.ssts
             /\ Rows(Out(c)) = Merge(Rows(Inputs(c)), Drops(c))
             /\ Rows(Out(c)) \subseteq Rows(Inputs(c))
             /\ \A o, u \in Out(c) : o = u
             /\ \A o \in Out(c) : /\ o \in SstSet /\ o.id = NewId(c) /\ o.level <= deep + 2
                                  /\ Sound(o) /\ o.schema = cur.schema
                                  /\ \E s \in Inputs(c) : o.max_lsn = s.max_lsn
  <2>1. NewId(c) \in 0..MaxSsts
    BY <1>3
  <2>2. Inputs(c) \subseteq Bucket(cur.ssts, c) /\ Rows(Out(c)) = Merge(Rows(Inputs(c)), Drops(c))
    BY <1>4, <2>1, OutputWhat DEF Out
  <2>3. Inputs(c) \subseteq cur.ssts /\ Rows(Out(c)) \subseteq Rows(Inputs(c))
    BY <2>2 DEF Bucket, Merge, Winners
  <2>4. /\ \A o, u \in Out(c) : o = u
        /\ \A o \in Out(c) : /\ o \in SstSet /\ o.id = NewId(c) /\ o.level <= deep + 2
                             /\ Sound(o) /\ o.schema = cur.schema
                             /\ \E s \in Inputs(c) : o.max_lsn = s.max_lsn
    BY <1>4, <2>1, OutputWhat DEF Out
  <2> QED BY <2>2, <2>3, <2>4
<1> HIDE DEF P
<1>6. pc.removed \subseteq cur.ssts /\ pc.outs \subseteq SstSet
  BY <1>1, <1>5
<1>7. pc \in PassSet
  <2>1. pc.removed \subseteq SstSet /\ cur.schema \in Nat
    BY <1>6, Typed, LsmAssumption
  <2> QED BY <1>1, <1>6, <2>1 DEF PassSet
<1>8. /\ Rows(pc.removed) = UNION {Rows(Inputs(c)) : c \in P}
      /\ Rows(pc.outs) = UNION {Rows(Out(c)) : c \in P}
  BY <1>1, RowsWhat
<1>9. Rows(pc.outs) = UNION {Merge(Rows(Inputs(c)), Drops(c)) : c \in P}
  <2>1. {Rows(Out(c)) : c \in P} = {Merge(Rows(Inputs(c)), Drops(c)) : c \in P}
    BY <1>5
  <2> QED BY <1>8, <2>1
<1>10. ASSUME NEW c \in P, NEW r \in Rows(Inputs(c))
       PROVE  \/ \E w \in Rows(pc.outs) : w.k = r.k /\ r.lsn <= w.lsn
              \/ Buried(pc, r.k) /\ Drops(c)
  BY <1>5, <1>8, <1>9, MergedScope DEF P
<1>11. Merged(pc)
  <2>1. Rows(pc.outs) \subseteq Rows(pc.removed)
    BY <1>5, <1>8
  <2>2. \A r \in Rows(pc.removed) : (\E w \in Rows(pc.outs) : w.k = r.k /\ r.lsn <= w.lsn)
                                      \/ Buried(pc, r.k)
    BY <1>8, <1>10
  <2>3. \A o \in pc.outs : /\ Sound(o) /\ o.schema = pc.base_schema
                           /\ \E s \in pc.removed : o.max_lsn = s.max_lsn
    BY <1>1, <1>5
  <2> QED BY <2>1, <2>2, <2>3 DEF Merged
<1>12. Above(pc)
  <2> SUFFICES ASSUME NEW r \in Rows(cur.ssts \ pc.removed) \cup Held, NEW t \in Rows(pc.removed),
                      r.k = t.k, Buried(pc, t.k)
               PROVE  t.lsn < r.lsn
    BY DEF Above
  <2>1. PICK c \in P : t \in Rows(Inputs(c))
    BY <1>8
  <2>2. Drops(c)
    <3>1. ~ \E w \in Rows(pc.outs) : w.k = t.k /\ t.lsn <= w.lsn
      BY DEF Buried
    <3> QED BY <1>10, <2>1, <3>1
  <2>3. Inputs(c) = cur.ssts
    <3>1. \E s : s \in Inputs(c)
      BY <2>1, RowsWhat
    <3> QED BY <2>2, <3>1, DropsWhat DEF P
  <2>4. cur.ssts \ pc.removed = {} /\ t \in Rows(cur.ssts)
    BY <1>1, <2>1, <2>3
  <2>5. r \in Held
    BY <2>4, RowsWhat
  <2> QED BY <2>4, <2>5 DEF LsmInv, Ordered
<1>13. \A o \in pc.outs : o.level <= deep + 2 /\ \A s \in Known : o.id # s.id
  BY <1>1, <1>3, <1>5
<1>14. \A o, u \in pc.outs : o.id = u.id => o = u
  BY <1>1, <1>3, <1>5
<1> QED BY <1>1, <1>6, <1>7, <1>11, <1>12, <1>13, <1>14

\* A pass is prepared from the session's manifest under fresh ids.
LEMMA PreparePassStep ==
  ASSUME LsmInv, NEW p \in Passes, PreparePass(p)
  PROVE  LsmInv'
<1> PICK pc : pc = Prepare(cur)
  OBVIOUS
<1>1. /\ frozen = None /\ prepared[p] = None /\ Unused # {} /\ Unused \ {FreshId} # {}
      /\ prepared' = [prepared EXCEPT ![p] = pc]
      /\ manifest' = manifest /\ snapfile' = snapfile /\ cur' = cur /\ mem' = mem
      /\ frozen' = frozen /\ stale' = stale /\ next_lsn' = next_lsn
      /\ pub' = pub /\ truth' = truth /\ spent' = spent
  BY DEF PreparePass, Unlocked, sessVars
<1>2. PICK deep \in Nat : \A s \in Known : s.level <= deep
  BY DEF LsmInv, Shape
<1>3. /\ pc \in PassSet /\ pc.removed \subseteq cur.ssts
      /\ Merged(pc) /\ Above(pc)
      /\ \A o \in pc.outs : o.level <= deep + 2
      /\ \A o \in pc.outs, s \in Known : o.id # s.id
      /\ \A o, u \in pc.outs : o.id = u.id => o = u
  BY <1>1, <1>2, PrepareWhat
<1>4. prepared \in [Passes -> PassSet \cup {None}]
  BY DEF LsmInv, Shape
<1>5. /\ prepared' \in [Passes -> PassSet \cup {None}] /\ prepared'[p] = pc /\ pc # None
      /\ \A q \in Passes : q # p => prepared'[q] = prepared[q]
  BY <1>1, <1>3, <1>4, LsmAssumption
<1>6. Holding' = Holding \cup {p} /\ p \notin Holding /\ \A q \in Holding : prepared'[q] = prepared[q]
  BY <1>1, <1>5 DEF Holding
<1>7. Held' = Held
  BY <1>1 DEF Held
<1> DEFINE U == UNION {prepared[q].removed \cup prepared[q].outs : q \in Holding}
<1>8. Known' = Known \cup pc.outs /\ Known = manifest.ssts \cup cur.ssts \cup U
  <2>1. UNION {prepared'[q].removed \cup prepared'[q].outs : q \in Holding'}
          = U \cup pc.removed \cup pc.outs
    BY <1>5, <1>6
  <2>2. Known' = manifest.ssts \cup cur.ssts
          \cup UNION {prepared'[q].removed \cup prepared'[q].outs : q \in Holding'}
    BY <1>1 DEF Known
  <2>3. Known = manifest.ssts \cup cur.ssts \cup U
    BY <1>1 DEF Known
  <2> HIDE DEF U
  <2> QED BY <1>3, <2>1, <2>2, <2>3
<1>9. Shape'
  <2>1. deep + 2 \in Nat /\ \A s \in Known' : s.level <= deep + 2
    <3>1. \A s \in Known : s.level \in Nat
      <4>1. manifest.ssts \cup cur.ssts \subseteq SstSet /\ U \subseteq SstSet
        BY Typed
      <4> QED BY <1>8, <4>1 DEF SstSet
    <3> QED BY <1>2, <1>3, <1>8, <3>1
  <2>2. \E d \in Nat : \A s \in Known' : s.level <= d
    BY <2>1
  <2> QED BY <1>1, <1>5, <1>7, <2>2 DEF LsmInv, Shape
<1>10. Names'
  <2>1. \A s, t \in Known' : s.id = t.id => s = t
    BY <1>3, <1>8 DEF LsmInv, Names
  <2>2. pc.outs \cap Known = {}
    BY <1>3
  <2>3. \A q \in Holding : prepared[q].removed \subseteq Known /\ prepared[q].outs \subseteq Known
    BY <1>8
  <2>4. ASSUME NEW q \in Holding
        PROVE  /\ prepared[q].outs \cap (cur.ssts \cup manifest.ssts) = {}
               /\ prepared[q].removed \cap (manifest.ssts \ cur.ssts) = {}
               /\ \A o \in Holding : /\ prepared[q].outs \cap prepared[o].removed = {}
                                     /\ q # o => prepared[q].outs \cap prepared[o].outs = {}
               /\ prepared[q].outs \cap pc.removed = {} /\ pc.outs \cap prepared[q].removed = {}
               /\ pc.outs \cap prepared[q].outs = {}
    BY <1>3, <2>2, <2>3 DEF LsmInv, Names
  <2>5. /\ pc.outs \cap (cur.ssts \cup manifest.ssts) = {}
        /\ pc.removed \cap (manifest.ssts \ cur.ssts) = {} /\ pc.outs \cap pc.removed = {}
    BY <1>3, <1>8, <2>2
  <2>6. ASSUME NEW q \in Holding'
        PROVE  /\ prepared'[q].outs \cap (cur.ssts \cup manifest.ssts) = {}
               /\ prepared'[q].removed \cap (manifest.ssts \ cur.ssts) = {}
               /\ \A o \in Holding' :
                    /\ prepared'[q].outs \cap prepared'[o].removed = {}
                    /\ q # o => prepared'[q].outs \cap prepared'[o].outs = {}
    BY <1>5, <1>6, <2>4, <2>5
  <2> QED BY <1>1, <2>1, <2>6 DEF Names
<1>11. Ordered' /\ Stored'
  BY <1>1, <1>7 DEF LsmInv, Ordered, Sound, Stored
<1>12. Journal' /\ Truths'
  BY <1>1, <1>7 DEF LsmInv, Journal, Truths
<1>13. Passed'
  <2> SUFFICES ASSUME NEW q \in Holding' PROVE Merged(prepared'[q]) /\ Above(prepared'[q])
    BY <1>1, <1>7 DEF Passed, Above
  <2>1. CASE q = p
    BY <1>3, <1>5, <2>1
  <2>2. CASE q # p
    <3>1. q \in Holding /\ prepared'[q] = prepared[q]
      BY <1>6, <2>2
    <3>2. Merged(prepared[q]) /\ Above(prepared[q])
      BY <3>1 DEF LsmInv, Passed
    <3> QED BY <3>1, <3>2
  <2> QED BY <2>1, <2>2
<1> QED BY <1>9, <1>10, <1>11, <1>12, <1>13 DEF LsmInv

-----------------------------------------------------------------------------
(* The invariant holds.                                                     *)

\* What a namespace may hold before: nothing, or one old SST of one row.
LEMMA OriginWhat ==
  ASSUME NEW o \in Origins, NEW S \in OriginSsts(o)
  PROVE  /\ S \subseteq SstSet /\ \A s \in S : Sound(s) /\ s.max_lsn = 1 /\ s.level <= 2
         /\ \A s, t \in S : s = t
         /\ \A r, q \in Rows(S) : r = q
         /\ \A r \in Rows(S) : r.lsn = 1
<1>1. S = {} \/ \E k \in Keys : S = {Old(k, 2, 0)} \/ S = {Old(k, 1, 1)}
  <2>1. o = "fresh" \/ o = "deep" \/ o = "legacy"
    BY LsmAssumption DEF OriginKinds
  <2>2. CASE o = "fresh"
    BY <2>2 DEF OriginSsts
  <2>3. CASE o = "deep"
    BY <2>3 DEF OriginSsts
  <2>4. CASE o = "legacy"
    BY <2>4 DEF OriginSsts
  <2> QED BY <2>1, <2>2, <2>3, <2>4
<1>2. CASE S = {}
  BY <1>2, RowsWhat
<1>3. ASSUME NEW k \in Keys, NEW l \in {1, 2}, NEW c \in {0, 1}, S = {Old(k, l, c)}
      PROVE  /\ S \subseteq SstSet /\ \A s \in S : Sound(s) /\ s.max_lsn = 1 /\ s.level <= 2
             /\ \A s, t \in S : s = t
             /\ \A r, q \in Rows(S) : r = q
             /\ \A r \in Rows(S) : r.lsn = 1
  <2> DEFINE row == [k |-> k, lsn |-> 1, del |-> FALSE]
             s0 == Old(k, l, c)
  <2>1. row \in RowSet /\ row.lsn = 1
    BY DEF RowSet
  <2> HIDE DEF row
  <2>2. s0 \in SstSet /\ s0.rows = {row} /\ s0.max_lsn = 1 /\ s0.level = l
    BY <2>1, LsmAssumption DEF SstSet, Old, row
  <2> HIDE DEF s0
  <2>3. S = {s0}
    BY <1>3 DEF s0
  <2>4. Rows(S) = {row}
    BY <2>2, <2>3, RowsWhat
  <2> QED BY <2>1, <2>2, <2>3, <2>4 DEF Sound
<1> QED BY <1>1, <1>2, <1>3

\* The invariant holds of what a namespace starts from.
LEMMA LsmStarts == Init => LsmInv
<1> SUFFICES ASSUME Init PROVE LsmInv
  OBVIOUS
<1>0. PICK o \in Origins : \E S \in OriginSsts(o) : manifest = [ssts |-> S, wal |-> <<>>, schema |-> 0]
  BY DEF Init
<1>1. PICK S \in OriginSsts(o) : manifest = [ssts |-> S, wal |-> <<>>, schema |-> 0]
  BY <1>0
<1>2. /\ S \subseteq SstSet /\ \A s \in S : Sound(s) /\ s.max_lsn = 1 /\ s.level <= 2
      /\ \A s, t \in S : s = t
      /\ \A r, q \in Rows(S) : r = q
      /\ \A r \in Rows(S) : r.lsn = 1
  BY OriginWhat
<1>3. /\ snapfile = None /\ cur = manifest /\ mem = {} /\ frozen = None /\ stale = FALSE
      /\ next_lsn = NextLsn(manifest) /\ pub = [ssts |-> manifest.ssts, mem |-> {}]
      /\ prepared = [p \in Passes |-> None] /\ truth = View(Rows(manifest.ssts))
      /\ spent = [write |-> 0, ddl |-> 0, fault |-> 0]
  BY DEF Init
<1>4. manifest.ssts = S /\ manifest.wal = <<>> /\ manifest.schema = 0
  BY <1>1
<1>5. <<>> \in Seq(RowSet) /\ DOMAIN <<>> = {}
  BY EmptySeq
<1>6. manifest \in ManifestSet
  BY <1>1, <1>2, <1>5, LsmAssumption DEF ManifestSet
<1>7. Held = {} /\ Holding = {} /\ Known = S
  BY <1>3, <1>4 DEF Held, Holding, Known
<1>8. NextLsn(manifest) \in Nat \ {0} /\ \A s \in S : s.max_lsn < NextLsn(manifest)
  <2> DEFINE h == HighWater(S)
             l == LastLsn(<<>>)
  <2>1. h \in 0..1 /\ \A s \in S : s.max_lsn <= h
    BY <1>2, HighWaterWhat
  <2>2. l \in 0..1
    BY <1>5, LastLsnWhat
  <2>3. NextLsn(manifest) = 1 + Max({h, l})
    BY <1>4 DEF NextLsn
  <2> HIDE DEF h, l
  <2>4. Max({h, l}) \in {h, l} /\ \A y \in {h, l} : y <= Max({h, l})
    <3>1. {h, l} \subseteq 0..1 /\ {h, l} # {} /\ 1 \in Nat
      BY <2>1, <2>2
    <3> QED BY <3>1, BoundedMax
  <2>5. Max({h, l}) \in Nat /\ h <= Max({h, l}) /\ h \in Nat
    BY <2>1, <2>2, <2>4
  <2>6. \A s \in S : s.max_lsn \in Nat
    BY <1>2
  <2> HIDE DEF NextLsn
  <2> QED BY <2>1, <2>3, <2>5, <2>6
<1>9. truth \in [Keys -> Nat]
  <2> SUFFICES ASSUME NEW k \in Keys
               PROVE  MaxOr0({r.lsn : r \in {w \in Winners(Rows(S)) : w.k = k /\ ~w.del}}) \in Nat
    BY <1>3, <1>4 DEF View
  <2> DEFINE N == {r.lsn : r \in {w \in Winners(Rows(S)) : w.k = k /\ ~w.del}}
  <2>1. N \subseteq 0..1
    BY <1>2 DEF Winners
  <2> HIDE DEF N
  <2>2. MaxOr0(N) \in 0..1
    BY <2>1, MaxOr0What
  <2> QED BY <2>2 DEF N
<1>10. Shape
  <2>1. \E deep \in Nat : \A s \in Known : s.level <= deep
    BY <1>2, <1>7
  <2>2. spent \in [write : Nat, ddl : Nat, fault : Nat] /\ spent.ddl = 0
    BY <1>3
  <2>3. prepared \in [Passes -> PassSet \cup {None}] /\ pub = [ssts |-> cur.ssts, mem |-> Held]
    BY <1>3, <1>7
  <2>4. cur.schema <= spent.ddl /\ manifest.schema <= spent.ddl /\ spent.ddl <= MaxDdl
    BY <1>3, <1>4, <2>2, LsmAssumption
  <2>5. next_lsn \in Nat \ {0} /\ mem \subseteq RowSet /\ stale \in BOOLEAN
    BY <1>3, <1>8
  <2> QED BY <1>3, <1>6, <1>9, <2>1, <2>2, <2>3, <2>4, <2>5 DEF Shape
<1>11. Names
  BY <1>2, <1>3, <1>4, <1>7 DEF Names
<1>12. Ordered
  BY <1>2, <1>3, <1>4, <1>7, <1>8 DEF Ordered, Sound
<1>13. Journal
  BY <1>3, <1>4, <1>5, <1>7, ReplayEmpty DEF Journal
<1>14. Stored
  <2>1. Rows({}) = {} /\ S \ S = {}
    BY RowsWhat
  <2> QED BY <1>3, <1>4, <2>1 DEF Stored
<1>15. Passed
  BY <1>7 DEF Passed
<1>16. Truths
  <2>1. Rows(S) \cup {} = Rows(S)
    OBVIOUS
  <2> QED BY <1>3, <1>4, <1>7, <2>1, ReplayEmpty DEF Truths
<1> QED BY <1>10, <1>11, <1>12, <1>13, <1>14, <1>15, <1>16 DEF LsmInv

\* Every step keeps the invariant.
LEMMA LsmInductive == LsmInv /\ [Next]_vars => LsmInv'
<1> SUFFICES ASSUME LsmInv, [Next]_vars PROVE LsmInv'
  OBVIOUS
<1>1. ASSUME NEW k \in Keys, NEW del \in BOOLEAN, CommitBatch(k, del) PROVE LsmInv'
  BY <1>1, CommitBatchStep
<1>2. CASE WriteSnapshot \/ ReclaimSnapshot
  BY <1>2, SnapshotStep
<1>3. CASE Ddl
  BY <1>3, DdlStep
<1>4. CASE RecoverWriter \/ FlushConflict \/ Crash
  BY <1>4, ReopensStep
<1>5. CASE FlushStart
  BY <1>5, FlushStartStep
<1>6. CASE FlushCommit
  BY <1>6, FlushCommitStep
<1>7. ASSUME NEW landed \in BOOLEAN, FlushFails(landed) PROVE LsmInv'
  BY <1>7, FlushFailsStep
<1>8. ASSUME NEW p \in Passes, PreparePass(p) PROVE LsmInv'
  BY <1>8, PreparePassStep
<1>9. ASSUME NEW p \in Passes, AbandonPass(p) PROVE LsmInv'
  BY <1>9, AbandonPassStep
<1>10. ASSUME NEW p \in Passes, Install(p) PROVE LsmInv'
  BY <1>10, InstallStep
<1>11. ASSUME NEW p \in Passes, InstallLost(p) PROVE LsmInv'
  BY <1>11, InstallLostStep
<1>12. CASE UNCHANGED vars
  <2>1. /\ UNCHANGED <<manifest, sessVars, pub, truth>> /\ snapfile' = snapfile
        /\ prepared' = prepared /\ spent' = spent
    BY <1>12 DEF vars
  <2>2. SomePasses /\ Spends
    BY <2>1 DEF SomePasses, Spends, LsmInv, Shape
  <2> QED BY <2>1, <2>2, QuietStep
<1> QED
  BY <1>1, <1>2, <1>3, <1>4, <1>5, <1>6, <1>7, <1>8, <1>9, <1>10, <1>11, <1>12 DEF Next

\* The invariant holds in every reachable state.
LEMMA LsmInvariant == Spec => []LsmInv
BY LsmStarts, LsmInductive, PTL DEF Spec

-----------------------------------------------------------------------------
(* What follows.                                                            *)

\* Types. No SST is empty, no two SSTs of a manifest share an id, a memtable
\* holds one row per key, and it is empty while a flush is under way.
THEOREM LsmTypeCorrect == Spec => []LsmTypeOK
<1>1. LsmInv => LsmTypeOK
  <2> SUFFICES ASSUME LsmInv PROVE LsmTypeOK
    OBVIOUS
  <2>1. ASSUME NEW m, m \in ManifestSet, m.ssts \subseteq cur.ssts \cup manifest.ssts
        PROVE  IsManifest(m)
    <3>1. \A s \in m.ssts : s.id \in 0..MaxSsts /\ s.rows \subseteq RowSet
      BY <2>1 DEF ManifestSet, SstSet
    <3>2. \A s \in m.ssts : s.rows # {}
      BY <2>1 DEF LsmInv, Ordered, Sound
    <3>3. \A s, t \in m.ssts : s.id = t.id => s = t
      BY <2>1 DEF LsmInv, Names, Known
    <3>4. m.wal \in Seq(RowSet) /\ m.schema \in 0..MaxDdl
      BY <2>1 DEF ManifestSet
    <3>5. \A i \in DOMAIN m.wal : m.wal[i] \in RowSet
      BY <3>4, LenProperties
    <3> QED BY <3>1, <3>2, <3>3, <3>4, <3>5 DEF IsManifest
  <2>2. IsManifest(manifest) /\ IsManifest(cur)
    BY <2>1 DEF LsmInv, Shape
  <2>3. mem \subseteq Held /\ mem \subseteq RowSet /\ stale \in BOOLEAN
    BY DEF Held, LsmInv, Shape
  <2>4. (\A r, s \in mem : r.k = s.k => r = s) /\ (frozen # None => mem = {})
    BY <2>3 DEF LsmInv, Ordered
  <2> QED BY <2>2, <2>3, <2>4 DEF LsmTypeOK
<1> QED BY <1>1, LsmInvariant, PTL

\* Reads through the published snapshot return the last acknowledged write of
\* every key: SnapshotCell never publishes a lost, resurrected or shadowed row.
THEOREM ReadsTruthCorrect == Spec => []ReadsTruth
<1>1. LsmInv => ReadsTruth
  BY DEF LsmInv, Shape, Truths, ReadsTruth
<1> QED BY <1>1, LsmInvariant, PTL

\* A crash at any moment loses no acknowledged write: what open recovers from
\* the current manifest, its WAL or the snapshot file reads the same.
THEOREM StoreTruthCorrect == Spec => []StoreTruth
<1>1. LsmInv => StoreTruth
  BY RecoveredIs DEF LsmInv, Truths, StoreTruth
<1> QED BY <1>1, LsmInvariant, PTL

\* No LSN is handed out that a row the session can meet already has, although
\* an open may go back behind LSNs that were handed out before it.
THEOREM LsnsCorrect == Spec => []LsnsAboveRows
<1>1. LsmInv => LsnsAboveRows
  <2> SUFFICES ASSUME LsmInv, NEW r \in Rows(cur.ssts) \cup mem PROVE r.lsn < next_lsn
    BY DEF LsnsAboveRows
  <2>1. CASE r \in mem
    BY <2>1 DEF LsmInv, Ordered, Held
  <2>2. ASSUME NEW s \in cur.ssts, r \in s.rows PROVE r.lsn < next_lsn
    <3>1. r.lsn <= s.max_lsn /\ s.max_lsn < next_lsn
      BY <2>2 DEF LsmInv, Ordered, Sound
    <3>2. r.lsn \in Nat /\ s.max_lsn \in Nat /\ next_lsn \in Nat
      <4>1. r \in RowSet /\ s \in SstSet
        BY <2>2, Typed, RowsWhat
      <4> QED BY <4>1, Typed DEF RowSet, SstSet
    <3> QED BY <3>1, <3>2
  <2> QED BY <2>1, <2>2, RowsWhat
<1> QED BY <1>1, LsmInvariant, PTL

\* A commit adds only SSTs built for the catalog it commits: install_prepared
\* refuses a merge prepared before a DDL statement.
THEOREM CatalogCorrect == Spec => AddsCurrentCatalog
<1> DEFINE Adds == \A s \in manifest'.ssts \ manifest.ssts : s.schema = manifest'.schema
<1>1. ASSUME LsmInv, [Next]_vars PROVE Adds
  <2>1. CASE manifest'.ssts = manifest.ssts
    BY <2>1
  <2>2. ASSUME NEW k \in Keys, NEW del \in BOOLEAN, CommitBatch(k, del) PROVE Adds
    <3>1. manifest = cur /\ cur \in ManifestSet
      BY <2>2, <1>1 DEF CommitBatch, LsmInv, Stored, Shape
    <3>2. manifest'.ssts = cur.ssts
      BY <2>2, <3>1 DEF CommitBatch, Commit, ManifestSet
    <3> QED BY <3>1, <3>2
  <2>3. CASE Ddl
    <3>1. manifest = cur /\ cur \in ManifestSet
      BY <2>3, <1>1 DEF Ddl, LsmInv, Stored, Shape
    <3>2. manifest'.ssts = cur.ssts
      BY <2>3, <3>1 DEF Ddl, Commit, ManifestSet
    <3> QED BY <3>1, <3>2
  <2>4. ASSUME FlushCommit \/ \E landed \in BOOLEAN : FlushFails(landed), manifest' # manifest
        PROVE  Adds
    <3>1. frozen # None /\ ~stale /\ manifest' = Flushed
      BY <2>4 DEF FlushCommit, FlushFails, Commit
    <3>2. manifest = cur /\ frozen.schema = cur.schema
      BY <1>1, <3>1 DEF LsmInv, Stored, Ordered
    <3>3. Flushed.ssts = cur.ssts \cup {frozen} /\ Flushed.schema = cur.schema
      BY <1>1, <3>1, FlushedWhat
    <3> QED BY <3>1, <3>2, <3>3
  <2>5. ASSUME NEW p \in Passes, Install(p) \/ InstallLost(p), manifest' # manifest
        PROVE  Adds
    <3>1. /\ p \in Holding /\ ~stale /\ Installable(prepared[p])
          /\ manifest' = Compacted(prepared[p])
      BY <2>5 DEF Install, InstallLost, Commit, Holding, Reopen
    <3>2. manifest = cur
      BY <1>1, <3>1 DEF LsmInv, Stored
    <3>3. /\ Compacted(prepared[p]).ssts = (cur.ssts \ prepared[p].removed) \cup prepared[p].outs
          /\ Compacted(prepared[p]).schema = cur.schema
          /\ \A s \in prepared[p].outs : s.schema = cur.schema
      BY <1>1, <3>1, CompactedWhat
    <3> QED BY <3>1, <3>2, <3>3
  <2>6. CASE UNCHANGED manifest
    BY <2>6
  <2>7. CASE \/ WriteSnapshot \/ ReclaimSnapshot \/ RecoverWriter \/ FlushStart \/ FlushConflict
             \/ Crash \/ \E p \in Passes : PreparePass(p) \/ AbandonPass(p)
    <3>1. UNCHANGED manifest
      BY <2>7 DEF WriteSnapshot, ReclaimSnapshot, RecoverWriter, FlushStart, FlushConflict,
                  Crash, PreparePass, AbandonPass
    <3> QED BY <2>6, <3>1
  <2>8. CASE UNCHANGED vars
    BY <2>6, <2>8 DEF vars
  <2> HIDE DEF Adds
  <2> QED BY <1>1, <2>2, <2>3, <2>4, <2>5, <2>6, <2>7, <2>8 DEF Next
<1>2. LsmInv /\ [Next]_vars => [Adds]_vars
  BY <1>1
<1> QED BY <1>2, LsmInvariant, PTL DEF Spec, AddsCurrentCatalog
=============================================================================
