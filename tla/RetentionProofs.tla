-------------------------- MODULE RetentionProofs --------------------------
(***************************************************************************)
(* Theorems about Retention for any number of pins, versions and readers   *)
(* and for any lengths of the sweep's min_age, the leases and the window:  *)
(* no sweep takes an object or a manifest body from the current version,   *)
(* a local reader, a sound lease or the restore point window.              *)
(***************************************************************************)
EXTENDS Retention, Extrema, SequenceTheorems, TLAPS

Version == [refs: SUBSET Nat, age: Nat, older: SUBSET Nat]
Holder == [at: {"idle", "loaded", "leased", "held"}, ver: Nat,
           scope: {"floor", "point"}, sound: BOOLEAN]
Lease == [ver: Nat, scope: Scopes, left: Int]
Sweep == [cur: Nat, honoured: [Leases -> Seen \cup {None}], deleting: BOOLEAN,
          strict: Nat, horizon: Nat, objs: SUBSET Nat, bodies: SUBSET Nat]

Shape ==
  /\ man \in Seq(Version) /\ Len(man) > 0
  /\ age \in Seq(Nat)
  /\ bodies \subseteq 1..cur /\ live \subseteq 1..cur
  /\ objs \subseteq DOMAIN age /\ pending \subseteq objs
  /\ holder \in [Pins -> Holder]
  /\ lease \in [Leases -> Lease \cup {None}]
  /\ sw \in Sweep \cup {None}

\* Holders believe in versions that were committed, and a lease in the store
\* says what its holder believes.
Ties ==
  /\ \A p \in Pins :
       /\ holder[p].at # "idle" => holder[p].ver \in 1..cur
       /\ lease[p] # None => /\ holder[p].at \in {"leased", "held"}
                             /\ lease[p].ver = holder[p].ver
                             /\ lease[p].scope = holder[p].scope
  /\ lease[Window] # None => /\ lease[Window].scope = "window"
                             /\ lease[Window].ver \in 1..cur

\* What was old when a version was committed is in no later version unless it
\* is in that one: commits add young objects only.
History ==
  \A f \in 1..cur :
    /\ \A x \in man[f].older : x \in DOMAIN age /\ age[x] > MinAge
    /\ \A v \in f..cur : Closure(v) \cap man[f].older \subseteq Closure(f)

\* Everyone who needs a version can read it. A lease counts until the janitor
\* deletes it, expired or not.
Whole ==
  /\ Restorable(cur)
  /\ \A v \in live : Restorable(v)
  /\ \A p \in Pins : holder[p].sound /\ lease[p] # None => Restorable(holder[p].ver)
  /\ lease[Window] # None => \A v \in lease[Window].ver..cur : Restorable(v)

\* What a sweep goes by stays true of everything that has happened since it
\* began.
Basis ==
  sw # None =>
    /\ sw.cur \in 1..cur /\ sw.horizon \in 1..sw.cur /\ sw.cur \in bodies
    /\ \A v \in live : v >= sw.horizon
    /\ \A v \in sw.bodies : v <= sw.cur
    /\ \A o \in sw.objs : o \in DOMAIN age /\ age[o] >= MinAge
    /\ \A v \in sw.cur..cur : Closure(v) \cap sw.objs \subseteq Closure(sw.cur)
    /\ \A p \in Leases : sw.honoured[p] # None /\ sw.honoured[p].scope = "floor"
                            => sw.honoured[p].ver >= sw.horizon
    /\ lease[Window] # None => /\ sw.honoured[Window] # None
                               /\ sw.honoured[Window].ver = lease[Window].ver
                               /\ sw.honoured[Window].scope = "window"

\* The sweep means to delete nothing of version v.
Clear(v) == v \notin sw.bodies /\ Closure(v) \cap sw.objs = {}

Spared ==
  Deleting =>
    /\ \A v \in sw.bodies : v < sw.horizon
    /\ \A v \in bodies : v >= sw.horizon => Clear(v)
    /\ \A p \in Pins : holder[p].sound /\ lease[p] # None => Clear(holder[p].ver)
    /\ lease[Window] # None => \A v \in lease[Window].ver..cur : Clear(v)

RetInv == Shape /\ Ties /\ History /\ Whole /\ Basis /\ Spared

\* A function on 1..n is a sequence of length n.
LEMMA FunctionSeq ==
  ASSUME NEW S, NEW n \in Nat, NEW f \in [1..n -> S]
  PROVE  f \in Seq(S) /\ Len(f) = n
<1>1. f \in Seq(S)
  BY SeqDef
<1>2. DOMAIN f = 1..Len(f) /\ Len(f) \in Nat /\ DOMAIN f = 1..n
  BY <1>1, LenProperties
<1> QED BY <1>1, <1>2

\* Steps that only age things, add objects or let leases run out.
LEMMA OthersStay ==
  ASSUME RetInv, Shape', Len(man') = Len(man), objs \subseteq objs',
         UNCHANGED <<bodies, live, holder, sw>>,
         \A v \in 1..Len(man) : man'[v].refs = man[v].refs /\ man'[v].older = man[v].older,
         \A o \in DOMAIN age : /\ o \in DOMAIN age'
                               /\ age[o] >= MinAge => age'[o] >= MinAge
                               /\ age[o] > MinAge => age'[o] > MinAge,
         \A p \in Leases : lease'[p] # None => /\ lease[p] # None
                                               /\ lease'[p].ver = lease[p].ver
                                               /\ lease'[p].scope = lease[p].scope
  PROVE  RetInv'
<1> USE DEF RetInv, cur, Closure
<1>0. Window \in Leases /\ Pins \subseteq Leases /\ Len(man) \in Nat
  BY DEF Leases, Shape
<1>2. Ties' BY <1>0 DEF Shape, Ties
<1>3. History'
  <2> SUFFICES ASSUME NEW f \in 1..Len(man)
               PROVE  /\ \A x \in man'[f].older : x \in DOMAIN age' /\ age'[x] > MinAge
                      /\ \A v \in f..Len(man) : man'[v].refs \cap man'[f].older \subseteq man'[f].refs
    BY DEF History
  <2>1. \A x \in man[f].older : x \in DOMAIN age /\ age[x] > MinAge
    BY DEF History
  <2>2. \A v \in f..Len(man) : v \in 1..Len(man) /\ man[v].refs \cap man[f].older \subseteq man[f].refs
    BY <1>0 DEF History
  <2>3. \A v \in f..Len(man) : man'[v].refs = man[v].refs
    BY <2>2
  <2>4. man'[f].refs = man[f].refs /\ man'[f].older = man[f].older
    OBVIOUS
  <2> QED BY <2>1, <2>2, <2>3, <2>4
<1>4. Whole'
  <2>1. \A v \in 1..Len(man) : Restorable(v) => Restorable(v)'
    BY DEF Restorable
  <2> QED BY <1>0, <2>1 DEF Shape, Ties, Holder, Whole, Restorable
<1>5. Basis'
  <2> SUFFICES ASSUME sw # None PROVE Basis'
    BY DEF Basis
  <2>1. \A v \in sw.cur..Len(man) : man'[v].refs = man[v].refs
    BY <1>0 DEF Basis
  <2>2. \A v \in sw.cur..Len(man) : man'[v].refs \cap sw.objs \subseteq man'[sw.cur].refs
    BY <2>1, <1>0 DEF Basis
  <2>3. \A o \in sw.objs : o \in DOMAIN age' /\ age'[o] >= MinAge
    BY DEF Basis
  <2> QED BY <1>0, <2>2, <2>3 DEF Basis
<1>6. Spared'
  <2>1. Deleting' = Deleting
    BY DEF Deleting
  <2>2. \A v \in 1..Len(man) : Clear(v) => Clear(v)'
    BY DEF Clear
  <2> SUFFICES ASSUME Deleting PROVE Spared'
    BY <2>1 DEF Spared
  <2>3. \A v \in bodies : v >= sw.horizon => Clear(v)'
    BY <2>2 DEF Shape, Spared
  <2>4. \A p \in Pins : holder[p].sound /\ lease'[p] # None => Clear(holder[p].ver)'
    BY <1>0, <2>2 DEF Ties, Spared
  <2>5. lease'[Window] # None => \A v \in lease'[Window].ver..Len(man) : Clear(v)'
    BY <1>0, <2>2 DEF Ties, Spared
  <2> QED BY <2>1, <2>3, <2>4, <2>5 DEF Spared
<1> QED BY <1>2, <1>3, <1>4, <1>5, <1>6

\* Time passes.
LEMMA TickStep ==
  ASSUME RetInv, Tick
  PROVE  RetInv'
<1> USE RetentionAssumption DEF RetInv, Tick, AtMost
<1> DEFINE top == Max({MinAge, Period})
           m == [v \in DOMAIN man |-> [man[v] EXCEPT !.age = AtMost(@ + 1, top)]]
           a == [o \in DOMAIN age |-> AtMost(age[o] + 1, MinAge + 1)]
<1>1. top \in Nat
  <2>1. MinAge + Period \in Nat /\ {MinAge, Period} \subseteq 0..(MinAge + Period)
    OBVIOUS
  <2>2. top \in {MinAge, Period}
    BY <2>1, BoundedMax
  <2> QED BY <2>2
<1>2. man' \in Seq(Version) /\ Len(man') = Len(man)
  <2>1. Len(man) \in Nat /\ DOMAIN man = 1..Len(man) /\ man \in [1..Len(man) -> Version]
    BY LenProperties DEF Shape
  <2> HIDE DEF top
  <2>2. m \in [1..Len(man) -> Version]
    <3> SUFFICES ASSUME NEW v \in 1..Len(man)
                 PROVE  [man[v] EXCEPT !.age = AtMost(@ + 1, top)] \in Version
      BY <2>1
    <3>1. man[v] \in Version
      BY <2>1
    <3>2. AtMost(man[v].age + 1, top) \in Nat
      BY <3>1, <1>1 DEF Version
    <3> HIDE DEF AtMost
    <3> QED BY <3>1, <3>2 DEF Version
  <2>3. man' = m BY DEF top
  <2>4. m \in Seq(Version) /\ Len(m) = Len(man)
    <3> HIDE DEF m
    <3> QED BY <2>1, <2>2, FunctionSeq
  <2> QED BY <2>3, <2>4
<1>3. age' \in Seq(Nat) /\ DOMAIN age' = DOMAIN age
  <2>1. Len(age) \in Nat /\ DOMAIN age = 1..Len(age) /\ age \in [1..Len(age) -> Nat]
    BY LenProperties DEF Shape
  <2>2. a \in [1..Len(age) -> Nat]
    BY <2>1
  <2>3. age' = a OBVIOUS
  <2>4. a \in Seq(Nat)
    <3> HIDE DEF a
    <3> QED BY <2>1, <2>2, FunctionSeq
  <2> QED BY <2>3, <2>4
<1>4. \A p \in Leases : /\ lease'[p] \in Lease \cup {None}
                        /\ lease'[p] # None => /\ lease[p] # None
                                               /\ lease'[p].ver = lease[p].ver
                                               /\ lease'[p].scope = lease[p].scope
  <2> SUFFICES ASSUME NEW p \in Leases
               PROVE  /\ lease'[p] \in Lease \cup {None}
                      /\ lease'[p] # None => /\ lease[p] # None
                                             /\ lease'[p].ver = lease[p].ver
                                             /\ lease'[p].scope = lease[p].scope
    OBVIOUS
  <2>1. lease[p] \in Lease \cup {None}
    BY DEF Shape
  <2>2. CASE lease[p] = None \/ lease[p].left < 0
    BY <2>1, <2>2
  <2>3. CASE lease[p] # None /\ ~(lease[p].left < 0)
    <3>1. lease'[p] = [lease[p] EXCEPT !.left = @ - 1]
      BY <2>3
    <3> QED BY <2>1, <2>3, <3>1 DEF Lease
  <2> QED BY <2>2, <2>3
<1>5. \A v \in 1..Len(man) : man'[v].refs = man[v].refs /\ man'[v].older = man[v].older
  <2>1. DOMAIN man = 1..Len(man) /\ man \in [1..Len(man) -> Version]
    BY LenProperties DEF Shape
  <2> HIDE DEF top
  <2>2. man' = m BY DEF top
  <2> QED BY <2>1, <2>2 DEF Version
<1>6. \A o \in DOMAIN age : /\ o \in DOMAIN age'
                            /\ age[o] >= MinAge => age'[o] >= MinAge
                            /\ age[o] > MinAge => age'[o] > MinAge
  BY DEF Shape
<1>7. Shape'
  <2>1. lease' \in [Leases -> Lease \cup {None}]
    BY <1>4
  <2> QED BY <1>2, <1>3, <2>1 DEF Shape, cur
<1> QED BY <1>2, <1>3, <1>4, <1>5, <1>6, <1>7, OthersStay

\* An upload is a new object.
LEMMA UploadStep ==
  ASSUME RetInv, Upload
  PROVE  RetInv'
<1> USE RetentionAssumption DEF RetInv, Upload
<1>1. /\ age' \in Seq(Nat) /\ DOMAIN age \subseteq DOMAIN age'
      /\ Len(age') \in DOMAIN age' /\ \A o \in DOMAIN age : age'[o] = age[o]
  BY SMTT(30) DEF Shape
<1>2. Shape'
  BY <1>1 DEF Shape, cur
<1> QED BY <1>1, <1>2, OthersStay

\* A commit: what it adds is too young for the sweep, and for the list of what
\* was old at any earlier version.
LEMMA CommitStep ==
  ASSUME RetInv, NEW o \in pending, Commit(o)
  PROVE  RetInv'
<1> USE DEF RetInv, cur, Closure
<1>0. PICK kept \in {Closure(cur), {}} :
        man' = Append(man, [refs |-> kept \cup {o}, age |-> 0,
                            older |-> {x \in DOMAIN age : age[x] > MinAge}])
  BY DEF Commit
<1> DEFINE n == [refs |-> kept \cup {o}, age |-> 0,
                 older |-> {x \in DOMAIN age : age[x] > MinAge}]
           new == Len(man) + 1
<1>a. /\ Len(man) \in Nat /\ Len(man) >= 1 /\ man \in [1..Len(man) -> Version]
      /\ age \in [1..Len(age) -> Nat] /\ Len(age) \in Nat /\ DOMAIN age = 1..Len(age)
      /\ o \in DOMAIN age /\ o \in objs /\ age[o] < MinAge /\ MinAge \in Nat
  BY SMTT(30), LenProperties, RetentionAssumption DEF Shape, Commit
<1>b. /\ bodies' = bodies \cup {new} /\ pending' = pending \ {o}
      /\ UNCHANGED <<objs, age, live, lease, holder, sw>>
  BY DEF Commit
<1>c. n \in Version
  <2>1. kept \subseteq Nat
    BY <1>a DEF Version
  <2>2. kept \cup {o} \subseteq Nat
    <3>1. o \in Nat
      BY <1>a
    <3> QED BY <2>1, <3>1
  <2>3. {x \in DOMAIN age : age[x] > MinAge} \subseteq Nat
    BY <1>a
  <2> QED BY <2>2, <2>3 DEF Version
<1>d. /\ man' \in Seq(Version) /\ Len(man') = new
      /\ \A v \in 1..Len(man) : man'[v] = man[v]
      /\ man'[new] = n
  <2> HIDE DEF n
  <2> QED BY <1>0, <1>a, <1>c DEF n, Shape
<1>e. /\ n.refs \subseteq man[Len(man)].refs \cup {o}
      /\ \A x \in n.older : x \in DOMAIN age /\ age[x] > MinAge
  OBVIOUS
<1> HIDE DEF n
<1>1. Shape'
  <2>1. bodies' \subseteq 1..new /\ live' \subseteq 1..new
    <3>1. 1..Len(man) \subseteq 1..new /\ new \in 1..new
      BY <1>a
    <3>2. bodies \subseteq 1..Len(man) /\ live \subseteq 1..Len(man)
      BY DEF Shape
    <3> HIDE DEF new
    <3> QED BY <1>b, <3>1, <3>2
  <2> QED BY <1>a, <1>b, <1>d, <2>1 DEF Shape
<1>2. Ties'
  <2>1. 1..Len(man) \subseteq 1..Len(man')
    BY <1>a, <1>d
  <2>2. UNCHANGED <<lease, holder>> /\ Ties
    BY <1>b
  <2> QED BY <2>1, <2>2 DEF Ties
<1>3. History'
  <2> SUFFICES ASSUME NEW f \in 1..new
               PROVE  /\ \A x \in man'[f].older : x \in DOMAIN age /\ age[x] > MinAge
                      /\ \A v \in f..new : man'[v].refs \cap man'[f].older \subseteq man'[f].refs
    BY <1>b, <1>d DEF History
  <2>1. CASE f = new
    BY <2>1, <1>a, <1>d, <1>e
  <2>2. CASE f \in 1..Len(man)
    <3>1. \A x \in man[f].older : x \in DOMAIN age /\ age[x] > MinAge
      BY <2>2 DEF History
    <3>2. \A v \in f..Len(man) : /\ man[v].refs \cap man[f].older \subseteq man[f].refs
                                 /\ man'[v] = man[v]
      BY <2>2, <1>a, <1>d DEF History
    <3>3. o \notin man[f].older
      BY <3>1, <1>a
    <3>4. man[Len(man)].refs \cap man[f].older \subseteq man[f].refs
      BY <3>2, <2>2, <1>a
    <3>5. n.refs \cap man[f].older \subseteq man[f].refs
      BY <3>3, <3>4, <1>e
    <3>6. man'[f] = man[f]
      BY <2>2, <1>d
    <3> QED BY <3>1, <3>2, <3>5, <3>6, <2>2, <1>a, <1>d
  <2> QED BY <2>1, <2>2, <1>a
<1>r. \A v \in 1..Len(man) : Restorable(v) => Restorable(v)'
  BY <1>b, <1>d DEF Restorable
<1>4. Whole'
  <2>1. \A v \in {new} : Restorable(v)'
    BY <1>a, <1>b, <1>d, <1>e DEF Whole, Restorable
  <2>2. \A v \in live : Restorable(v)'
    BY <1>r DEF Whole, Shape
  <2>3. \A p \in Pins : holder[p].sound /\ lease[p] # None => Restorable(holder[p].ver)'
    BY <1>b, <1>r DEF Whole, Ties
  <2>4. lease[Window] # None => \A v \in lease[Window].ver..new : Restorable(v)'
    BY <1>r, <1>a, <2>1 DEF Whole, Ties
  <2>5. Restorable(cur)'
    BY <2>1, <1>d
  <2> QED BY <2>2, <2>3, <2>4, <2>5, <1>b, <1>d DEF Whole
<1>5. Basis'
  <2> SUFFICES ASSUME sw # None PROVE Basis'
    BY <1>b DEF Basis
  <2>1. sw.cur \in 1..Len(man) /\ o \notin sw.objs
    BY <1>a DEF Basis
  <2>2. \A v \in sw.cur..Len(man) : /\ man'[v] = man[v]
                                    /\ man[v].refs \cap sw.objs \subseteq man[sw.cur].refs
    BY <1>a, <1>d, <2>1 DEF Basis
  <2>3. n.refs \cap sw.objs \subseteq man[sw.cur].refs
    BY <1>a, <1>e, <2>1, <2>2
  <2>4. \A v \in sw.cur..new : man'[v].refs \cap sw.objs \subseteq man'[sw.cur].refs
    BY SMTT(30), <1>a, <1>d, <2>1, <2>2, <2>3
  <2> QED BY <1>a, <1>b, <1>d, <2>1, <2>4 DEF Basis
<1>6. Spared'
  <2> SUFFICES ASSUME Deleting PROVE Spared'
    BY <1>b DEF Spared, Deleting
  <2>0. sw # None /\ Deleting'
    BY <1>b DEF Deleting
  <2>1. \A v \in 1..Len(man) : Clear(v) => Clear(v)'
    BY <1>b, <1>d DEF Clear
  <2>2. Clear(Len(man))
    BY <1>a, <2>0 DEF Spared, Whole, Restorable, Basis
  <2>3. \A v \in {new} : Clear(v)'
    <3>1. o \notin sw.objs /\ new \notin sw.bodies
      BY <1>a, <2>0 DEF Basis
    <3> QED BY <2>2, <3>1, <1>b, <1>d, <1>e DEF Clear
  <2>4. \A v \in bodies' : v >= sw.horizon => Clear(v)'
    BY <2>1, <2>3, <1>b DEF Spared, Shape
  <2>5. \A p \in Pins : holder[p].sound /\ lease[p] # None => Clear(holder[p].ver)'
    BY <1>b, <2>1 DEF Ties, Spared
  <2>6. lease[Window] # None => \A v \in lease[Window].ver..new : Clear(v)'
    BY <2>1, <2>3, <1>a DEF Ties, Spared
  <2> QED BY <1>b, <1>d, <2>0, <2>4, <2>5, <2>6 DEF Spared
<1> QED BY <1>1, <1>2, <1>3, <1>4, <1>5, <1>6

\* A snapshot handed out is of the current version; a dropped one needs nothing.
LEMMA LiveStep ==
  ASSUME RetInv, LoadSnapshot \/ \E v \in live : DropSnapshot(v)
  PROVE  RetInv'
<1> USE DEF RetInv, cur, Closure
<1>1. live' \subseteq live \cup {Len(man)} /\ UNCHANGED <<storeVars, lease, holder, sw>>
  BY DEF LoadSnapshot, DropSnapshot
<1>2. UNCHANGED <<man, bodies, objs, age, pending>>
  BY <1>1 DEF storeVars
<1>3. Len(man) \in Nat /\ Len(man) >= 1
  BY DEF Shape
<1>4. Shape'
  <2>1. live' \subseteq 1..Len(man)
    <3>1. Len(man) \in 1..Len(man)
      BY <1>3
    <3> QED BY <1>1, <3>1 DEF Shape
  <2> QED BY <1>1, <1>2, <2>1 DEF Shape
<1>5. Ties' /\ History' /\ Spared'
  BY <1>1, <1>2 DEF Ties, History, Spared, Deleting, Clear
<1>6. Whole'
  BY <1>1, <1>2 DEF Whole, Restorable
<1>7. Basis'
  <2> SUFFICES ASSUME sw # None PROVE Basis'
    BY <1>1 DEF Basis
  <2>1. \A v \in live' : v >= sw.horizon
    BY <1>1, <1>3 DEF Basis
  <2> QED BY <1>1, <1>2, <2>1 DEF Basis
<1> QED BY <1>4, <1>5, <1>6, <1>7

\* One pin's holder and lease change to h and l. If that leaves a lease with a
\* sound holder, its version is whole and the sweep spares it.
LEMMA HolderMoves ==
  ASSUME RetInv, NEW p \in Pins, NEW h \in Holder, NEW l \in Lease \cup {None},
         UNCHANGED <<storeVars, live, sw>>,
         holder' = [holder EXCEPT ![p] = h], lease' = [lease EXCEPT ![p] = l],
         h.at # "idle" => h.ver \in 1..cur,
         l # None => h.at \in {"leased", "held"} /\ l.ver = h.ver /\ l.scope = h.scope,
         h.sound /\ l # None => Restorable(h.ver) /\ (Deleting => Clear(h.ver))
  PROVE  RetInv'
<1> USE DEF RetInv, cur, Closure
<1>0. /\ UNCHANGED <<man, bodies, objs, age, pending, live, sw>>
      /\ Window \in Leases /\ Pins \subseteq Leases /\ p # Window
  BY RetentionAssumption DEF storeVars, Leases
<1>1. /\ holder' \in [Pins -> Holder] /\ lease' \in [Leases -> Lease \cup {None}]
      /\ holder'[p] = h /\ lease'[p] = l /\ lease'[Window] = lease[Window]
      /\ \A q \in Pins \ {p} : holder'[q] = holder[q] /\ lease'[q] = lease[q]
  BY <1>0 DEF Shape
<1>2. Shape'
  BY <1>0, <1>1 DEF Shape
<1>3. Ties'
  BY <1>0, <1>1 DEF Ties
<1>4. History' /\ Basis'
  BY <1>0, <1>1 DEF History, Basis
<1>5. /\ \A v : Restorable(v)' = Restorable(v)
      /\ \A v : Clear(v)' = Clear(v)
      /\ Deleting' = Deleting
  BY <1>0 DEF Restorable, Clear, Deleting
<1>6. Whole'
  <2>1. \A q \in Pins : holder'[q].sound /\ lease'[q] # None => Restorable(holder'[q].ver)
    BY <1>1 DEF Whole
  <2>2. \A q \in Pins : holder'[q].sound /\ lease'[q] # None => Restorable(holder[q].ver)'
    BY <2>1, <1>0 DEF Restorable
  <2> QED BY <1>0, <1>1, <1>5, <2>2 DEF Whole, Restorable
<1>7. Spared'
  <2> SUFFICES ASSUME Deleting PROVE Spared'
    BY <1>5 DEF Spared
  <2>1. \A q \in Pins : holder'[q].sound /\ lease'[q] # None => Clear(holder'[q].ver)
    BY <1>1 DEF Spared
  <2>2. \A q \in Pins : holder'[q].sound /\ lease'[q] # None => Clear(holder[q].ver)'
    BY <2>1, <1>0 DEF Clear
  <2> QED BY <1>0, <1>1, <1>5, <2>2 DEF Spared
<1> QED BY <1>2, <1>3, <1>4, <1>6, <1>7

\* A holder that has loaded a version has no lease yet.
LEMMA LoadStep ==
  ASSUME RetInv, NEW p \in Pins, LoadVersion(p) \/ LoadBackup(p)
  PROVE  RetInv'
<1> USE DEF RetInv
<1>1. PICK v \in Nat, scope \in {"floor", "point"} : v \in 1..cur /\ Load(p, v, scope)
  <2>1. cur \in Nat /\ cur \in 1..cur /\ 1..cur \subseteq Nat
    BY DEF Shape, cur
  <2>2. CASE LoadVersion(p)
    BY <2>1, <2>2 DEF LoadVersion
  <2>3. CASE LoadBackup(p)
    BY <2>1, <2>3 DEF LoadBackup, Shape
  <2> QED BY <2>2, <2>3
<1> DEFINE h == [NoHold EXCEPT !.at = "loaded", !.ver = v, !.scope = scope]
<1>2. h \in Holder /\ h.at = "loaded" /\ h.ver = v /\ ~h.sound
  BY <1>1 DEF NoHold, Holder
<1>3. lease[p] = None /\ lease[p] \in Lease \cup {None} /\ lease' = [lease EXCEPT ![p] = lease[p]]
  BY <1>1 DEF Load, Ties, Shape, Leases
<1>4. holder' = [holder EXCEPT ![p] = h] /\ UNCHANGED <<storeVars, live, sw>>
  BY <1>1 DEF Load
<1> HIDE DEF h
<1> QED BY <1>1, <1>2, <1>3, <1>4, HolderMoves

\* The lease a holder writes says what the holder believes.
LEMMA WrittenType ==
  ASSUME RetInv, NEW p \in Pins
  PROVE  /\ Written(p) \in Lease
         /\ Written(p).ver = holder[p].ver /\ Written(p).scope = holder[p].scope
BY RetentionAssumption DEF RetInv, Shape, Written, Holder, Lease, Scopes

\* A lease written while a sweep deletes is not sound.
LEMMA AcquireStep ==
  ASSUME RetInv, NEW p \in Pins, Acquire(p)
  PROVE  RetInv'
<1> USE DEF RetInv
<1> DEFINE s == Restorable(holder[p].ver) /\ ~Deleting
           h == [holder[p] EXCEPT !.at = "leased", !.sound = s]
<1>1. holder[p] \in Holder /\ holder[p].at = "loaded" /\ s \in BOOLEAN
  BY DEF Shape, Acquire
<1>2. h \in Holder /\ h.at = "leased" /\ h.ver = holder[p].ver
      /\ h.scope = holder[p].scope /\ h.sound = s
  <2> HIDE DEF s
  <2> QED BY <1>1 DEF Holder
<1>3. holder' = [holder EXCEPT ![p] = h] /\ lease' = [lease EXCEPT ![p] = Written(p)]
      /\ UNCHANGED <<storeVars, live, sw>>
  BY DEF Acquire
<1>4. h.ver \in 1..cur
  BY <1>1, <1>2 DEF Ties
<1>5. h.sound => Restorable(h.ver) /\ (Deleting => Clear(h.ver))
  BY <1>2
<1> HIDE DEF h
<1> QED BY <1>2, <1>3, <1>4, <1>5, WrittenType, HolderMoves

\* A released lease protects nothing.
LEMMA ReleasedStep ==
  ASSUME RetInv, NEW p \in Pins, Released(p), UNCHANGED <<storeVars, live, sw>>
  PROVE  RetInv'
<1>1. NoHold \in Holder /\ NoHold.at = "idle" /\ ~NoHold.sound
  BY DEF NoHold, Holder
<1>2. holder' = [holder EXCEPT ![p] = NoHold] /\ lease' = [lease EXCEPT ![p] = None]
  BY DEF Released
<1>3. None \in Lease \cup {None}
  OBVIOUS
<1> QED BY <1>1, <1>2, <1>3, HolderMoves

\* The check of the body changes nothing that a lease protects.
LEMMA VerifyStep ==
  ASSUME RetInv, NEW p \in Pins, Verify(p)
  PROVE  RetInv'
<1> USE DEF RetInv
<1>1. UNCHANGED <<storeVars, live, sw>>
  BY DEF Verify
<1>2. CASE Released(p)
  BY <1>1, <1>2, ReleasedStep
<1>3. CASE holder' = [holder EXCEPT ![p].at = "held"] /\ UNCHANGED lease
  <2> DEFINE h == [holder[p] EXCEPT !.at = "held"]
  <2>1. holder[p] \in Holder /\ holder[p].at = "leased" /\ lease[p] \in Lease \cup {None}
    BY DEF Shape, Verify, Leases
  <2>2. h \in Holder /\ h.at = "held" /\ h.ver = holder[p].ver
        /\ h.scope = holder[p].scope /\ h.sound = holder[p].sound
    BY <2>1 DEF Holder
  <2>3. holder' = [holder EXCEPT ![p] = h] /\ lease' = [lease EXCEPT ![p] = lease[p]]
    BY <1>3 DEF Shape
  <2>4. h.ver \in 1..cur
    BY <2>1, <2>2 DEF Ties
  <2>5. lease[p] # None => lease[p].ver = h.ver /\ lease[p].scope = h.scope
    BY <2>2 DEF Ties
  <2>6. h.sound /\ lease[p] # None => Restorable(h.ver) /\ (Deleting => Clear(h.ver))
    BY <2>2 DEF Whole, Spared
  <2> HIDE DEF h
  <2> QED BY <1>1, <2>1, <2>2, <2>3, <2>4, <2>5, <2>6, HolderMoves
<1> QED BY <1>2, <1>3 DEF Verify

\* A lease renewed too late is not sound; one renewed in time protected its
\* version all along.
LEMMA RenewStep ==
  ASSUME RetInv, NEW p \in Pins, Renew(p)
  PROVE  RetInv'
<1> USE DEF RetInv
<1> DEFINE s == holder[p].sound /\ InForce(p)
           h == [holder[p] EXCEPT !.sound = s]
<1>1. holder[p] \in Holder /\ holder[p].at = "held" /\ s \in BOOLEAN
  BY DEF Shape, Renew
<1>2. h \in Holder /\ h.at = "held" /\ h.ver = holder[p].ver
      /\ h.scope = holder[p].scope /\ h.sound = s
  <2> HIDE DEF s
  <2> QED BY <1>1 DEF Holder
<1>3. holder' = [holder EXCEPT ![p] = h] /\ lease' = [lease EXCEPT ![p] = Written(p)]
      /\ UNCHANGED <<storeVars, live, sw>>
  BY DEF Renew
<1>4. h.ver \in 1..cur
  BY <1>1, <1>2 DEF Ties
<1>5. h.sound => Restorable(h.ver) /\ (Deleting => Clear(h.ver))
  BY <1>2 DEF InForce, Whole, Spared
<1> HIDE DEF h
<1> QED BY <1>2, <1>3, <1>4, <1>5, WrittenType, HolderMoves

\* Deleting the lease is all a release does.
LEMMA ReleaseStep ==
  ASSUME RetInv, NEW p \in Pins, Release(p)
  PROVE  RetInv'
BY ReleasedStep DEF Release

\* The window's floor moves up, or starts again at the current version.
LEMMA RefreshWindowStep ==
  ASSUME RetInv, RefreshWindow
  PROVE  RetInv'
<1> USE DEF RetInv, cur, Closure
<1>0. /\ UNCHANGED <<man, bodies, objs, age, pending, live, holder, sw>> /\ sw = None
      /\ Window \in Leases /\ Pins \subseteq Leases /\ Window \notin Pins
      /\ Len(man) \in Nat /\ Len(man) >= 1
  BY RetentionAssumption DEF RefreshWindow, storeVars, Leases, Shape
<1>1. /\ NewFloor \in 1..Len(man)
      /\ \A v \in NewFloor..Len(man) : Restorable(v)
  <2>1. CASE InForce(Window) /\ lease[Window].ver \in bodies
    <3> DEFINE S == {lease[Window].ver} \cup Outside
    <3>1. lease[Window] # None /\ lease[Window].ver \in 1..Len(man)
      BY <2>1 DEF InForce, Ties
    <3>2. S \subseteq 0..Len(man) /\ S # {} /\ lease[Window].ver \in S
      BY <3>1, <1>0 DEF Outside
    <3>3. Max(S) \in S /\ \A y \in S : y <= Max(S)
      <4> HIDE DEF S
      <4> QED BY <1>0, <3>2, BoundedMax
    <3>4. NewFloor = Max(S)
      BY <2>1 DEF NewFloor
    <3> HIDE DEF S
    <3> QED BY <3>1, <3>2, <3>3, <3>4, <1>0 DEF Whole
  <2>2. CASE ~(InForce(Window) /\ lease[Window].ver \in bodies)
    <3>1. NewFloor = Len(man)
      BY <2>2 DEF NewFloor
    <3> QED BY <3>1, <1>0 DEF Whole
  <2> QED BY <2>1, <2>2
<1> DEFINE l == [ver |-> NewFloor, scope |-> "window", left |-> Period + Margin]
<1>2. l \in Lease /\ l.ver = NewFloor /\ l.scope = "window"
  BY <1>0, <1>1, RetentionAssumption DEF Lease, Scopes, Window
<1>3. /\ lease' \in [Leases -> Lease \cup {None}] /\ lease'[Window] = l
      /\ \A p \in Pins : lease'[p] = lease[p]
  <2>1. lease' = [lease EXCEPT ![Window] = l]
    BY DEF RefreshWindow
  <2> HIDE DEF l
  <2> QED BY <1>0, <1>2, <2>1 DEF Shape
<1> HIDE DEF l
<1>4. Shape'
  BY <1>0, <1>3 DEF Shape
<1>5. Ties'
  BY <1>0, <1>1, <1>2, <1>3 DEF Ties
<1>6. History' /\ Basis' /\ Spared'
  BY <1>0 DEF History, Basis, Spared, Deleting
<1>7. Whole'
  BY <1>0, <1>1, <1>2, <1>3 DEF Whole, Restorable
<1> QED BY <1>4, <1>5, <1>6, <1>7

\* A sweep begins with a horizon at or below every version a local reader or a
\* floor lease holds, and looks at old objects only.
LEMMA SweepStartStep ==
  ASSUME RetInv, SweepStart
  PROVE  RetInv'
<1> USE DEF RetInv, cur, Closure
<1>0. /\ UNCHANGED <<man, bodies, objs, age, pending, live, holder>>
      /\ Window \in Leases /\ Pins \subseteq Leases
      /\ Len(man) \in Nat /\ Len(man) >= 1 /\ MinAge \in Nat
  BY RetentionAssumption DEF SweepStart, storeVars, Leases, Shape
<1> DEFINE seen(p) == [ver |-> lease[p].ver, scope |-> lease[p].scope]
           hon == [p \in Leases |-> IF InForce(p) THEN seen(p) ELSE None]
           floors == {RetentionHorizon} \cup Pinned(hon, "floor")
           s == [cur |-> Len(man), honoured |-> hon, deleting |-> FALSE,
                 strict |-> RetentionHorizon, horizon |-> Min(floors), objs |-> {o \in objs : Old(age[o])},
                 bodies |-> {v \in bodies : Old(man[v].age)}]
<1>1. sw' = s /\ lease' = [p \in Leases |-> IF InForce(p) THEN lease[p] ELSE None]
  BY DEF SweepStart
<1>2. \A p \in Leases : /\ InForce(p) => lease[p] \in Lease /\ lease[p].ver \in 1..Len(man)
                        /\ hon[p] \in Seen \cup {None}
                        /\ hon[p] # None => InForce(p) /\ hon[p] = seen(p)
                        /\ InForce(p) => hon[p] # None
  <2> SUFFICES ASSUME NEW p \in Leases
               PROVE  /\ InForce(p) => lease[p] \in Lease /\ lease[p].ver \in 1..Len(man)
                      /\ hon[p] \in Seen \cup {None}
                      /\ hon[p] # None => InForce(p) /\ hon[p] = seen(p)
                      /\ InForce(p) => hon[p] # None
    OBVIOUS
  <2>1. hon[p] = IF InForce(p) THEN seen(p) ELSE None
    OBVIOUS
  <2>2. InForce(p) => lease[p] \in Lease /\ lease[p].ver \in 1..Len(man)
    BY DEF InForce, Shape, Ties, Leases
  <2>3. InForce(p) => seen(p) \in Seen /\ seen(p) # None
    BY <2>2, RetentionAssumption DEF Lease, Seen
  <2> HIDE DEF hon
  <2> QED BY <2>1, <2>2, <2>3
<1>3. RetentionHorizon \in 1..Len(man) /\ \A v \in live : RetentionHorizon <= v
  <2> DEFINE L == live \cup {Len(man)}
  <2>1. L \subseteq 1..Len(man) /\ L \subseteq Nat /\ L # {}
    <3>1. Len(man) \in 1..Len(man) /\ 1..Len(man) \subseteq Nat
      BY <1>0
    <3> QED BY <3>1 DEF Shape
  <2>2. Min(L) \in L /\ \A y \in L : Min(L) <= y
    <3> HIDE DEF L
    <3> QED BY <2>1, LeastNat
  <2> QED BY <2>1, <2>2 DEF RetentionHorizon
<1>4. /\ floors \subseteq 1..Len(man) /\ floors \subseteq Nat /\ floors # {}
      /\ \A p \in Leases : hon[p] # None /\ hon[p].scope = "floor" => hon[p].ver \in floors
  <2> HIDE DEF hon
  <2>1. Pinned(hon, "floor") \subseteq 1..Len(man)
    <3> SUFFICES ASSUME NEW q \in Leases, hon[q] # None PROVE hon[q].ver \in 1..Len(man)
      BY DEF Pinned
    <3>1. InForce(q) /\ hon[q] = seen(q)
      BY <1>2
    <3>2. lease[q].ver \in 1..Len(man)
      BY <1>2, <3>1
    <3> QED BY <3>1, <3>2
  <2>2. \A p \in Leases : hon[p] # None /\ hon[p].scope = "floor" => hon[p].ver \in floors
    BY DEF Pinned
  <2> QED BY <1>0, <1>3, <2>1, <2>2
<1>5. /\ Min(floors) \in 1..Len(man) /\ Min(floors) <= RetentionHorizon
      /\ \A y \in floors : Min(floors) <= y
  <2>1. RetentionHorizon \in floors
    OBVIOUS
  <2> HIDE DEF floors
  <2> QED BY <1>4, <2>1, LeastNat
<1>6. /\ s \in Sweep /\ s.cur = Len(man) /\ s.honoured = hon /\ s.deleting = FALSE
      /\ s.horizon = Min(floors)
      /\ s.objs = {o \in objs : age[o] >= MinAge} /\ s.bodies \subseteq bodies
  <2>1. hon \in [Leases -> Seen \cup {None}]
    <3>1. hon = [p \in Leases |-> hon[p]]
      OBVIOUS
    <3> HIDE DEF hon
    <3> QED BY <1>2, <3>1
  <2>2. {o \in objs : Old(age[o])} \subseteq Nat /\ {v \in bodies : Old(man[v].age)} \subseteq Nat
    <3>1. objs \subseteq Nat
      <4>1. objs \subseteq DOMAIN age /\ age \in Seq(Nat)
        BY <1>0 DEF Shape
      <4>2. DOMAIN age \subseteq Nat
        BY <4>1
      <4> QED BY <4>1, <4>2, Zenon
    <3>2. bodies \subseteq Nat
      <4>1. bodies \subseteq 1..cur /\ cur \in Nat
        BY <1>0 DEF Shape, cur
      <4> QED BY <4>1
    <3> QED BY <3>1, <3>2, Zenon
  <2>3. Min(floors) \in Nat /\ RetentionHorizon \in Nat
    BY <1>3, <1>5, <1>0
  <2> HIDE DEF hon, floors
  <2> QED BY <1>0, <2>1, <2>2, <2>3 DEF Sweep, Old
<1>7. \A p \in Leases : /\ lease'[p] # None => InForce(p) /\ lease'[p] = lease[p]
                        /\ lease'[p] \in Lease \cup {None}
                        /\ lease'[p] # None => lease[p] # None
  BY <1>1, <1>2 DEF InForce
<1> HIDE DEF s
<1>8. Shape'
  <2>1. lease' \in [Leases -> Lease \cup {None}]
    BY <1>1, <1>7
  <2> QED BY <1>0, <1>1, <1>6, <2>1 DEF Shape
<1>9. Ties'
  BY <1>0, <1>7 DEF Ties
<1>10. History'
  BY <1>0 DEF History
<1>11. Whole'
  BY <1>0, <1>7 DEF Whole, Restorable
<1>12. Basis'
  <2> HIDE DEF hon, floors
  <2>1. sw'.cur \in 1..Len(man) /\ sw'.horizon \in 1..sw'.cur /\ sw'.cur \in bodies
    BY <1>0, <1>1, <1>5, <1>6 DEF Whole, Restorable
  <2>2. \A v \in live : v >= sw'.horizon
    <3> SUFFICES ASSUME NEW v \in live PROVE v >= Min(floors)
      BY <1>1, <1>6
    <3>1. v \in Nat /\ RetentionHorizon <= v /\ RetentionHorizon \in Nat /\ Min(floors) \in Nat
      BY <1>0, <1>3, <1>5 DEF Shape
    <3> QED BY <3>1, <1>5
  <2>3. \A v \in sw'.bodies : v <= sw'.cur
    BY <1>0, <1>1, <1>6 DEF Shape
  <2>4. \A o \in sw'.objs : o \in DOMAIN age /\ age[o] >= MinAge
    BY <1>1, <1>6 DEF Shape
  <2>5. \A v \in sw'.cur..Len(man) : man[v].refs \cap sw'.objs \subseteq man[sw'.cur].refs
    BY <1>0, <1>1, <1>6
  <2>6. \A p \in Leases : sw'.honoured[p] # None /\ sw'.honoured[p].scope = "floor"
                            => sw'.honoured[p].ver >= sw'.horizon
    <3> SUFFICES ASSUME NEW p \in Leases, hon[p] # None, hon[p].scope = "floor"
                 PROVE  hon[p].ver >= Min(floors)
      BY <1>1, <1>6
    <3>1. hon[p].ver \in floors
      BY <1>4
    <3>2. hon[p].ver \in Nat /\ Min(floors) \in Nat
      <4>1. hon[p].ver \in 1..Len(man)
        BY <3>1, <1>4
      <4>2. Min(floors) \in 1..Len(man)
        BY <1>5
      <4>3. 1..Len(man) \subseteq Nat
        BY <1>0
      <4> QED BY <4>1, <4>2, <4>3
    <3> QED BY <3>1, <3>2, <1>5
  <2>7. lease'[Window] # None => /\ sw'.honoured[Window] # None
                                 /\ sw'.honoured[Window].ver = lease'[Window].ver
                                 /\ sw'.honoured[Window].scope = "window"
    <3> SUFFICES ASSUME lease'[Window] # None
                 PROVE  /\ hon[Window] # None /\ hon[Window].ver = lease'[Window].ver
                        /\ hon[Window].scope = "window"
      BY <1>1, <1>6
    <3>1. InForce(Window) /\ lease'[Window] = lease[Window] /\ lease[Window].scope = "window"
      BY <1>0, <1>7 DEF Ties
    <3>2. hon[Window] # None /\ hon[Window] = seen(Window)
      BY <1>0, <1>2, <3>1
    <3> QED BY <3>1, <3>2
  <2> QED BY <1>0, <2>1, <2>2, <2>3, <2>4, <2>5, <2>6, <2>7 DEF Basis
<1>13. Spared'
  BY <1>1, <1>6 DEF Spared, Deleting
<1> QED BY <1>8, <1>9, <1>10, <1>11, <1>12, <1>13

\* Past its pre-delete check the sweep spares the versions from the horizon up,
\* those of leases that were covered, and all of the window.
LEMMA SweepRecheckStep ==
  ASSUME RetInv, SweepRecheck
  PROVE  RetInv'
<1> USE DEF RetInv, cur, Closure
<1>0. /\ UNCHANGED <<man, bodies, objs, age, pending, live, lease, holder>>
      /\ sw # None /\ sw \in Sweep
      /\ Window \in Leases /\ Pins \subseteq Leases
      /\ Len(man) \in Nat /\ Len(man) >= 1
  BY DEF SweepRecheck, storeVars, Leases, Shape
<1>a. Ties' /\ History' /\ Whole'
  BY <1>0 DEF Ties, History, Whole, Restorable
<1>1. CASE BodyMissing \/ PinsChangedBelowHorizon
  <2>1. sw' = None
    BY <1>1 DEF SweepRecheck
  <2>2. Shape' /\ Basis' /\ Spared'
    BY <1>0, <2>1 DEF Shape, Basis, Spared, Deleting
  <2> QED BY <1>a, <2>2
<1>2. CASE ~(BodyMissing \/ PinsChangedBelowHorizon)
  <2> DEFINE keptObjs == {o \in sw.objs : o \notin Referenced /\ ~KeptByWindow(o)}
             keptBodies == {v \in sw.bodies : ~BodyKept(v)}
  <2>0. sw' = [sw EXCEPT !.deleting = TRUE, !.objs = keptObjs, !.bodies = keptBodies]
    BY <1>2 DEF SweepRecheck
  <2>1. /\ sw' \in Sweep /\ sw'.cur = sw.cur /\ sw'.horizon = sw.horizon
        /\ sw'.honoured = sw.honoured
        /\ sw'.objs = keptObjs /\ sw'.bodies = keptBodies
    <3>1. keptObjs \subseteq sw.objs /\ keptBodies \subseteq sw.bodies
      OBVIOUS
    <3> HIDE DEF keptObjs, keptBodies
    <3> QED BY <1>0, <2>0, <3>1 DEF Sweep
  <2>b. /\ sw.cur \in 1..Len(man) /\ sw.horizon \in 1..sw.cur /\ sw.cur \in bodies
        /\ sw.horizon \in Nat /\ sw.cur \in Nat
        /\ \A v \in sw.cur..Len(man) : man[v].refs \cap sw.objs \subseteq man[sw.cur].refs
    BY <1>0 DEF Basis
  <2>2. Shape'
    BY <1>0, <2>1 DEF Shape
  <2>3. Basis'
    BY <1>0, <2>1 DEF Basis
  <2> DEFINE clear(v) == v \notin keptBodies /\ man[v].refs \cap keptObjs = {}
  <2>4. \A v \in bodies : v \in sw.horizon..sw.cur \/ v \in ExtraVersions
                             => man[v].refs \cap keptObjs = {}
    BY DEF Referenced
  <2>5. /\ \A p \in Leases : sw.honoured[p] # None => sw.honoured[p].ver \in Nat
        /\ \A scope : Pinned(sw.honoured, scope) \subseteq Nat
    BY <1>0 DEF Sweep, Seen, Pinned
  <2>6. \A v \in keptBodies : v < sw.horizon
    <3> DEFINE F == {sw.horizon} \cup Pinned(sw.honoured, "window")
    <3>1. F \subseteq Nat /\ F # {} /\ sw.horizon \in F
      BY <2>b, <2>5
    <3>2. Min(F) \in Nat /\ Min(F) <= sw.horizon
      <4> HIDE DEF F
      <4> QED BY <3>1, LeastNat
    <3>3. \A v \in keptBodies : v \in Nat /\ ~(v >= Min(F))
      BY <1>0 DEF BodyKept, Sweep
    <3> HIDE DEF F, keptBodies
    <3> QED BY <2>b, <3>2, <3>3
  <2>7. \A v \in bodies : v >= sw.horizon => clear(v)
    <3> SUFFICES ASSUME NEW v \in bodies, v >= sw.horizon PROVE clear(v)
      OBVIOUS
    <3>0. v \in Nat /\ v <= Len(man)
      BY <1>0 DEF Shape
    <3>1. v \notin keptBodies
      BY <2>6, <2>b, <3>0
    <3>2. CASE v <= sw.cur
      BY <3>0, <3>1, <3>2, <2>4, <2>b
    <3>3. CASE v > sw.cur
      <4>1. man[v].refs \cap sw.objs \subseteq man[sw.cur].refs
        BY <3>0, <3>3, <2>b
      <4>2. man[sw.cur].refs \cap keptObjs = {}
        BY <2>4, <2>b
      <4> QED BY <4>1, <4>2, <3>1
    <3> QED BY <3>0, <3>2, <3>3, <2>b
  <2>8. \A p \in Pins : holder[p].sound /\ lease[p] # None => clear(holder[p].ver)
    <3> SUFFICES ASSUME NEW p \in Pins, holder[p].sound, lease[p] # None
                 PROVE  clear(holder[p].ver)
      OBVIOUS
    <3> DEFINE v == holder[p].ver
    <3>1. /\ lease[p].ver = v /\ lease[p].scope = holder[p].scope /\ v \in 1..Len(man)
          /\ lease[p].scope \in {"floor", "point"} /\ v \in bodies /\ v \in Nat
      BY <1>0 DEF Ties, Shape, Holder, Whole, Restorable
    <3>2. CASE v >= sw.horizon
      BY <2>7, <3>1, <3>2
    <3>3. CASE v < sw.horizon
      <4>1. Covers(sw.honoured[p], lease[p])
        BY <1>0, <1>2, <3>1, <3>3 DEF PinsChangedBelowHorizon
      <4>2. sw.honoured[p] # None /\ sw.honoured[p] \in Seen
        BY <4>1, <1>0 DEF Covers, Sweep
      <4>3. sw.honoured[p].scope # "floor"
        <5> SUFFICES ASSUME sw.honoured[p].scope = "floor" PROVE FALSE
          OBVIOUS
        <5>1. sw.honoured[p].ver <= v
          BY <4>1, <3>1 DEF Covers
        <5>2. sw.honoured[p].ver >= sw.horizon /\ sw.honoured[p].ver \in Nat
          BY <1>0, <4>2 DEF Basis, Seen
        <5> QED BY <5>1, <5>2, <3>1, <3>3, <2>b
      <4>4. sw.honoured[p].scope \in {"point", "window"}
        BY <4>2, <4>3 DEF Seen, Scopes, Window
      <4>5. sw.honoured[p].scope = "point" /\ sw.honoured[p].ver = v
        BY <4>1, <4>4, <3>1 DEF Covers
      <4>6. v \in Pinned(sw.honoured, "point")
        BY <1>0, <4>2, <4>5 DEF Pinned
      <4>7. v \in ExtraVersions /\ BodyKept(v)
        BY <4>6, <3>3 DEF ExtraVersions, BodyKept
      <4> QED BY <4>7, <2>4, <3>1
    <3> QED BY <3>1, <3>2, <3>3, <2>b
  <2>9. lease[Window] # None => \A v \in lease[Window].ver..Len(man) : clear(v)
    <3> SUFFICES ASSUME lease[Window] # None, NEW v \in lease[Window].ver..Len(man)
                 PROVE  clear(v)
      OBVIOUS
    <3> DEFINE f == lease[Window].ver
    <3>1. /\ f \in 1..Len(man) /\ f \in Nat /\ v \in 1..Len(man) /\ v \in Nat
          /\ f \in bodies /\ v \in bodies
      BY <1>0 DEF Ties, Whole, Restorable
    <3>2. f \in Pinned(sw.honoured, "window")
      BY <1>0 DEF Basis, Pinned
    <3>3. v \notin keptBodies
      <4> DEFINE F == {sw.horizon} \cup Pinned(sw.honoured, "window")
      <4>1. F \subseteq Nat /\ F # {} /\ f \in F
        BY <2>b, <2>5, <3>2
      <4>2. Min(F) \in Nat /\ Min(F) <= f
        <5> HIDE DEF F
        <5> QED BY <4>1, LeastNat
      <4>3. v >= Min(F)
        BY <4>2, <3>1
      <4> QED BY <4>3 DEF BodyKept
    <3>4. CASE v >= sw.horizon
      BY <3>1, <3>4, <2>7
    <3>5. CASE v < sw.horizon
      <4>1. f < sw.horizon
        BY <3>1, <3>5, <2>b
      <4>2. man[f].refs \cap keptObjs = {}
        BY <4>1, <3>1, <3>2, <2>4 DEF ExtraVersions
      <4>3. man[v].refs \cap man[f].older \subseteq man[f].refs
        BY <3>1 DEF History
      <4>4. keptObjs \subseteq man[f].older
        BY <3>2 DEF KeptByWindow
      <4> QED BY <4>2, <4>3, <4>4, <3>3
    <3> QED BY <3>1, <3>4, <3>5, <2>b
  <2>10. Spared'
    <3>1. \A v : Clear(v)' = clear(v)
      BY <1>0, <2>1 DEF Clear
    <3>2. \A p \in Pins : holder[p].sound /\ lease[p] # None => Clear(holder[p].ver)'
      BY <1>0, <2>1, <2>8 DEF Clear
    <3> HIDE DEF keptObjs, keptBodies, clear
    <3> QED BY <1>0, <2>1, <2>6, <2>7, <2>9, <3>1, <3>2 DEF Spared
  <2> QED BY <1>a, <2>2, <2>3, <2>10
<1> QED BY <1>1, <1>2

\* A deletion takes an object of none of those versions.
LEMMA DeleteObjectStep ==
  ASSUME RetInv, DeleteObject
  PROVE  RetInv'
<1> USE DEF RetInv, cur, Closure
<1>0. PICK o \in sw.objs :
        objs' = objs \ {o} /\ pending' = pending \ {o} /\ sw' = [sw EXCEPT !.objs = @ \ {o}]
  BY DEF DeleteObject
<1>1. /\ UNCHANGED <<man, bodies, age, live, lease, holder>> /\ Deleting
      /\ sw # None /\ sw \in Sweep /\ Len(man) \in Nat /\ Len(man) >= 1
  BY DEF DeleteObject, Deleting, Shape
<1>2. /\ sw' \in Sweep /\ sw'.cur = sw.cur /\ sw'.honoured = sw.honoured
      /\ sw'.deleting = sw.deleting /\ sw'.horizon = sw.horizon
      /\ sw'.objs = sw.objs \ {o} /\ sw'.bodies = sw.bodies
  BY <1>0, <1>1 DEF Sweep
<1>3. Shape' /\ Ties' /\ History'
  BY <1>0, <1>1, <1>2 DEF Shape, Ties, History
<1>4. /\ \A v : Clear(v) => Clear(v)'
      /\ \A v : Clear(v) /\ Restorable(v) => Restorable(v)'
  BY <1>0, <1>1, <1>2 DEF Clear, Restorable
<1>5. Whole'
  <2>1. \A v \in bodies : v >= sw.horizon => Clear(v)
    BY <1>1 DEF Spared
  <2>2. Restorable(cur)'
    BY <1>1, <1>4, <2>1 DEF Whole, Basis, Restorable
  <2>3. \A v \in live : Restorable(v)'
    BY <1>1, <1>4, <2>1 DEF Whole, Basis, Restorable
  <2>4. \A p \in Pins : holder[p].sound /\ lease[p] # None => Restorable(holder[p].ver)'
    BY <1>1, <1>4 DEF Whole, Spared
  <2>5. lease[Window] # None => \A v \in lease[Window].ver..Len(man) : Restorable(v)'
    BY <1>1, <1>4 DEF Whole, Spared
  <2> QED BY <1>1, <2>2, <2>3, <2>4, <2>5 DEF Whole
<1>6. Basis'
  BY <1>1, <1>2 DEF Basis
<1>7. Spared'
  <2>1. \A p \in Pins : holder[p].sound /\ lease[p] # None => Clear(holder[p].ver)'
    BY <1>1, <1>4 DEF Spared
  <2> QED BY <1>1, <1>2, <1>4, <2>1 DEF Spared
<1> QED BY <1>3, <1>5, <1>6, <1>7

\* Nor does it take a body of theirs.
LEMMA DeleteBodyStep ==
  ASSUME RetInv, DeleteBody
  PROVE  RetInv'
<1> USE DEF RetInv, cur, Closure
<1>0. PICK b \in sw.bodies : bodies' = bodies \ {b} /\ sw' = [sw EXCEPT !.bodies = @ \ {b}]
  BY DEF DeleteBody
<1>1. /\ UNCHANGED <<man, objs, pending, age, live, lease, holder>> /\ Deleting
      /\ sw # None /\ sw \in Sweep /\ Len(man) \in Nat /\ Len(man) >= 1
  BY DEF DeleteBody, Deleting, Shape
<1>2. /\ sw' \in Sweep /\ sw'.cur = sw.cur /\ sw'.honoured = sw.honoured
      /\ sw'.deleting = sw.deleting /\ sw'.horizon = sw.horizon
      /\ sw'.bodies = sw.bodies \ {b} /\ sw'.objs = sw.objs
  BY <1>0, <1>1 DEF Sweep
<1>3. Shape' /\ Ties' /\ History'
  BY <1>0, <1>1, <1>2 DEF Shape, Ties, History
<1>4. /\ \A v : Clear(v) => Clear(v)'
      /\ \A v : Clear(v) /\ Restorable(v) => Restorable(v)'
  BY <1>0, <1>1, <1>2 DEF Clear, Restorable
<1>5. Whole'
  <2>1. \A v \in bodies : v >= sw.horizon => Clear(v)
    BY <1>1 DEF Spared
  <2>2. Restorable(cur)'
    BY <1>1, <1>4, <2>1 DEF Whole, Basis, Restorable
  <2>3. \A v \in live : Restorable(v)'
    BY <1>1, <1>4, <2>1 DEF Whole, Basis, Restorable
  <2>4. \A p \in Pins : holder[p].sound /\ lease[p] # None => Restorable(holder[p].ver)'
    BY <1>1, <1>4 DEF Whole, Spared
  <2>5. lease[Window] # None => \A v \in lease[Window].ver..Len(man) : Restorable(v)'
    BY <1>1, <1>4 DEF Whole, Spared
  <2> QED BY <1>1, <2>2, <2>3, <2>4, <2>5 DEF Whole
<1>6. Basis'
  <2>1. sw.cur \in bodies'
    BY <1>0, <1>1 DEF Basis, Spared
  <2> QED BY <1>1, <1>2, <2>1 DEF Basis
<1>7. Spared'
  <2>1. \A p \in Pins : holder[p].sound /\ lease[p] # None => Clear(holder[p].ver)'
    BY <1>1, <1>4 DEF Spared
  <2> QED BY <1>0, <1>1, <1>2, <1>4, <2>1 DEF Spared
<1> QED BY <1>3, <1>5, <1>6, <1>7

\* A sweep that ends, and a crash that ends it, leave the store as it is.
LEMMA SweepOverStep ==
  ASSUME RetInv, SweepEnd \/ Crash
  PROVE  RetInv'
<1>1. /\ UNCHANGED <<man, bodies, objs, age, lease, holder>> /\ sw' = None
      /\ live' \subseteq live /\ pending' \subseteq pending
  BY DEF SweepEnd, Crash, storeVars
<1>2. Shape'
  BY <1>1 DEF RetInv, Shape, cur
<1>3. Ties' /\ History' /\ Whole'
  BY <1>1 DEF RetInv, Ties, History, Whole, Restorable, Closure, cur
<1>4. Basis' /\ Spared'
  BY <1>1 DEF Basis, Spared, Deleting
<1> QED BY <1>2, <1>3, <1>4 DEF RetInv

\* RetInv is inductive.
LEMMA RetInductive ==
  ASSUME RetInv, [Next]_vars
  PROVE  RetInv'
<1>1. CASE Next
  BY <1>1, TickStep, UploadStep, CommitStep, LiveStep, LoadStep, AcquireStep, VerifyStep,
     RenewStep, ReleaseStep, RefreshWindowStep, SweepStartStep, SweepRecheckStep,
     DeleteObjectStep, DeleteBodyStep, SweepOverStep DEF Next
<1>2. CASE UNCHANGED vars
  BY <1>2 DEF vars, storeVars, RetInv, Shape, Ties, History, Whole, Basis, Spared, Clear,
              Deleting, Restorable, Closure, cur
<1> QED BY <1>1, <1>2

\* It holds at first: one version, whole, and nobody who holds it.
LEMMA RetInit ==
  ASSUME Init
  PROVE  RetInv
<1> DEFINE n == [refs |-> {1}, age |-> 0, older |-> {}]
<1>1. n \in Version
  BY DEF Version
<1>2. /\ man = <<n>> /\ age = <<0>> /\ bodies = {1} /\ objs = {1} /\ pending = {}
      /\ live = {} /\ sw = None
      /\ lease = [p \in Leases |-> None] /\ holder = [p \in Pins |-> NoHold]
  BY DEF Init
<1>3. man \in Seq(Version) /\ Len(man) = 1 /\ man[1] = n /\ age \in Seq(Nat) /\ DOMAIN age = {1}
  <2> HIDE DEF n
  <2> QED BY <1>1, <1>2
<1>4. n.refs = {1} /\ n.older = {}
  OBVIOUS
<1> HIDE DEF n
<1>5. NoHold \in Holder /\ NoHold.at = "idle" /\ ~NoHold.sound
  BY DEF NoHold, Holder
<1>6. /\ holder \in [Pins -> Holder] /\ \A p \in Pins : holder[p] = NoHold
      /\ lease \in [Leases -> Lease \cup {None}] /\ \A p \in Leases : lease[p] = None
  BY <1>2, <1>5
<1>7. Window \in Leases /\ Pins \subseteq Leases
  BY DEF Leases
<1>8. Shape
  BY <1>2, <1>3, <1>6 DEF Shape, cur
<1>9. Ties
  BY <1>5, <1>6, <1>7 DEF Ties
<1>10. History
  BY <1>3, <1>4 DEF History, Closure, cur
<1>11. Whole
  BY <1>2, <1>3, <1>4, <1>6, <1>7 DEF Whole, Restorable, Closure, cur
<1>12. Basis /\ Spared
  BY <1>2 DEF Basis, Spared, Deleting
<1> QED BY <1>8, <1>9, <1>10, <1>11, <1>12 DEF RetInv

\* Hence it always holds.
LEMMA RetInvariant == Spec => []RetInv
BY RetInit, RetInductive, PTL DEF Spec

\* Nothing the current version references is ever deleted, although every
\* commit's objects lie in the store unreferenced for a while.
\* (janitor.rs, the min_age guard on SSTs and WAL segments.)
THEOREM CurrentCorrect == Spec => []CurrentRestorable
<1>1. RetInv => CurrentRestorable
  BY DEF RetInv, Whole, CurrentRestorable
<1> QED BY <1>1, RetInvariant, PTL

\* A version that a reader of the janitor's own process holds keeps its body
\* and its objects. (read.rs SnapshotCell::load, retention_horizon.)
THEOREM LocalReadersCorrect == Spec => []LocalReadersServed
<1>1. RetInv => LocalReadersServed
  BY DEF RetInv, Whole, LocalReadersServed
<1> QED BY <1>1, RetInvariant, PTL

\* A lease that found its version whole before the pre-delete check of a sweep
\* keeps it whole while it is renewed in time.
\* (pin.rs, janitor.rs pins_changed_below_horizon.)
THEOREM LeasesCorrect == Spec => []LeaseProtects
<1>1. RetInv => LeaseProtects
  BY DEF RetInv, Whole, LeaseProtects, InForce
<1> QED BY <1>1, RetInvariant, PTL

\* Every version from the floor of a window in force up can be restored.
\* (restore_point.rs, janitor.rs window_keep_since.)
THEOREM WindowCorrect == Spec => []WindowRestorable
<1>1. RetInv => WindowRestorable
  BY DEF RetInv, Whole, WindowRestorable, InForce
<1> QED BY <1>1, RetInvariant, PTL
=============================================================================
