--------------------------- MODULE RegistryProofs ---------------------------
(***************************************************************************)
(* Theorems about NamespaceRegistry for any number of namespaces, requests *)
(* and slots and any capacity: at most one incarnation of a namespace      *)
(* accepts writes, a restore is alone, an evicted incarnation is drained   *)
(* before its successor claims, and HTTP writes and maintenance tasks      *)
(* never reopen an incarnation that has been superseded.                   *)
(***************************************************************************)
EXTENDS NamespaceRegistry, Extrema, FiniteSetTheorems, TLAPS

Draining == {"drain", "join", "lockq", "forget"}
Holding == {"have", "locked", "recover", "prepared", "reading"}

\* r is in get_or_try_init's closure, on its way to the claim.
Opens(r) == req[r].pc = "claim" \/ (req[r].pc \in Draining /\ req[r].then = "claim")

Shape ==
  /\ slots \in [SlotIds -> SlotStates]
  /\ map \in [Namespaces -> SlotIds \cup {None}]
  /\ draining \in [Namespaces -> SlotIds \cup {None}]
  /\ restoring \subseteq Namespaces
  /\ epoch \in [Namespaces -> Nat]
  /\ req \in [Requests -> ReqStates]
  /\ events \in 0..MaxEvents

\* What a request holds, by where it is.
Held ==
  \A r \in Requests :
    /\ req[r].pc \in {"idle", "insert"} <=> req[r].slot = None
    /\ req[r].pc # "idle" => req[r].ns # None
    /\ req[r].slot # None => slots[req[r].slot].ns = req[r].ns
    /\ req[r].pc \in Holding => slots[req[r].slot].open
    /\ req[r].pc = "prepared" => req[r].kind = "compact"
    /\ req[r].pc \in Draining =>
         /\ req[r].drain # None /\ slots[req[r].drain].retired
         /\ req[r].then \in {"init", "claim"}
    /\ req[r].pc \in {"join", "lockq"} => ~slots[req[r].drain].handles
    /\ req[r].pc = "forget" => slots[req[r].drain].quiesced
    /\ Opens(r) => slots[req[r].slot].opener = r

\* Who opens, quiesces or locks a slot is a request that does just that.
Owners ==
  \A i \in SlotIds, r \in Requests :
    /\ slots[i].opener = r => req[r].slot = i /\ Opens(r)
    /\ slots[i].quiescer = r => req[r].drain = i /\ req[r].pc \in {"join", "lockq"}
    /\ slots[i].lock = r => req[r].slot = i /\ req[r].pc \in {"locked", "recover"}

\* The life of a slot: unused, inserted, open, retired, quiesced. Once it is
\* quiesced, neither its tasks nor an HTTP write has its mutex.
Life ==
  \A i \in SlotIds :
    /\ slots[i].open => slots[i].ns # None /\ slots[i].opener = None
    /\ ~slots[i].open => ~slots[i].retired /\ slots[i].lock = None /\ slots[i].task = "none"
    /\ slots[i].open /\ ~slots[i].handles => slots[i].task \in {"aborted", "gone"}
    /\ slots[i].lock = "task" => slots[i].task \in {"locked", "recover", "aborted"}
    /\ slots[i].quiesced => /\ slots[i].retired /\ ~slots[i].handles
                            /\ slots[i].lock # "task" /\ ~HttpHolds(i)

\* Slots are used in order, the mapped one of a namespace is its last, and a
\* slot somebody is about to open is mapped.
Order ==
  /\ \A i, j \in SlotIds : i < j /\ slots[j].ns # None => slots[i].ns # None
  /\ \A n \in Namespaces : map[n] # None =>
       /\ slots[map[n]].ns = n /\ ~slots[map[n]].retired
       /\ \A j \in SlotIds : slots[j].ns = n => j <= map[n]
  /\ \A i \in SlotIds : slots[i].open /\ ~slots[i].retired => map[slots[i].ns] = i
  /\ \A r \in Requests : req[r].slot # None /\ ~slots[req[r].slot].open
                           => map[req[r].ns] = req[r].slot

\* An incarnation that is evicted stays in draining until it is quiesced, and
\* nobody claims before that.
Drained ==
  /\ \A n \in Namespaces : draining[n] # None =>
       slots[draining[n]].ns = n /\ slots[draining[n]].retired
  /\ \A i \in SlotIds : slots[i].retired /\ ~slots[i].quiesced => draining[slots[i].ns] = i
  /\ \A r \in Requests : Opens(r) =>
       /\ req[r].pc = "claim" => draining[req[r].ns] = None
       /\ req[r].pc # "claim" => draining[req[r].ns] \in {None, req[r].drain}
                                   /\ slots[req[r].drain].ns = req[r].ns
  /\ \A i, j \in SlotIds : i < j /\ slots[i].open /\ slots[j].open /\ slots[i].ns = slots[j].ns
                             => slots[i].quiesced

Alone == \A n \in restoring : map[n] = None /\ draining[n] = None

Bounded == IsFiniteSet(Mapped) /\ Cardinality(Mapped) <= Cap

RegInv == Shape /\ Held /\ Owners /\ Life /\ Order /\ Drained /\ Alone /\ Bounded

\* Where a request is says what it holds.
LEMMA RequestWhat ==
  ASSUME RegInv, NEW r \in Requests
  PROVE  /\ req[r] \in ReqStates /\ req[r].pc \in Pcs /\ req[r].kind \in AllKinds
         /\ req[r].pc \notin {"idle", "insert"} =>
              /\ req[r].slot \in SlotIds /\ req[r].slot # None
              /\ slots[req[r].slot] \in SlotStates
              /\ slots[req[r].slot].ns = req[r].ns
         /\ req[r].pc # "idle" => req[r].ns \in Namespaces
         /\ req[r].pc \in Draining =>
              req[r].drain \in SlotIds /\ slots[req[r].drain] \in SlotStates
<1>1. /\ req[r] \in ReqStates /\ slots \in [SlotIds -> SlotStates]
      /\ None \notin SlotIds /\ None \notin Namespaces
  BY RegistryAssumption DEF RegInv, Shape
<1>2. /\ req[r].pc \in Pcs /\ req[r].slot \in SlotIds \cup {None} /\ req[r].kind \in AllKinds
      /\ req[r].drain \in SlotIds \cup {None} /\ req[r].ns \in Namespaces \cup {None}
  BY <1>1 DEF ReqStates
<1> QED BY <1>1, <1>2 DEF RegInv, Held

\* A slot's fields keep their types.
LEMMA SlotWhat ==
  ASSUME RegInv, NEW i \in SlotIds
  PROVE  /\ slots[i] \in SlotStates
         /\ slots[i].ns \in Namespaces \cup {None} /\ slots[i].opener \in Requests \cup {None}
         /\ slots[i].lock \in Requests \cup {"task", None} /\ slots[i].epoch \in Nat
         /\ slots[i].open \in BOOLEAN /\ slots[i].retired \in BOOLEAN
         /\ slots[i].quiesced \in BOOLEAN /\ slots[i].handles \in BOOLEAN
         /\ slots[i].quiescer \in Requests \cup {None}
         /\ slots[i].task \in {"none", "idle", "locked", "recover", "aborted", "gone"}
BY DEF RegInv, Shape, SlotStates

\* Moving a request on changes its pc alone.
LEMMA GotoWhat ==
  ASSUME RegInv, NEW r \in Requests, NEW pc \in Pcs, Goto(r, pc)
  PROVE  /\ req' \in [Requests -> ReqStates]
         /\ \A p \in Requests : p # r => req'[p] = req[p]
         /\ req'[r].pc = pc /\ req'[r].slot = req[r].slot /\ req'[r].ns = req[r].ns
         /\ req'[r].kind = req[r].kind /\ req'[r].drain = req[r].drain
         /\ req'[r].then = req[r].then
<1>1. req \in [Requests -> ReqStates] /\ req' = [req EXCEPT ![r].pc = pc]
  BY DEF RegInv, Shape, Goto
<1> QED BY <1>1 DEF ReqStates

\* A request that is done is as before it arrived.
LEMMA FinishWhat ==
  ASSUME RegInv, NEW r \in Requests, Finish(r)
  PROVE  /\ req' \in [Requests -> ReqStates]
         /\ \A p \in Requests : p # r => req'[p] = req[p]
         /\ req'[r].pc = "idle" /\ req'[r].slot = None
<1>1. req \in [Requests -> ReqStates] /\ req' = [req EXCEPT ![r] = Idle]
  BY DEF RegInv, Shape, Finish
<1>2. Idle \in ReqStates
  BY DEF Idle, ReqStates, Pcs, AllKinds
<1> QED BY <1>1, <1>2 DEF Idle

\* Nobody inserts, opens or evicts a slot.
SlotsStay ==
  \A i \in SlotIds :
    /\ slots'[i].ns = slots[i].ns /\ slots'[i].open = slots[i].open
    /\ slots'[i].retired = slots[i].retired /\ slots'[i].opener = slots[i].opener
    /\ slots[i].quiesced => slots'[i].quiesced
    /\ slots'[i].handles => slots[i].handles

\* A request goes on with what it has, ends, or finds a mapped slot.
GoesOn(p) ==
  /\ req'[p].slot = req[p].slot /\ req'[p].ns = req[p].ns /\ req'[p].kind = req[p].kind
  /\ req'[p].drain = req[p].drain /\ req'[p].then = req[p].then
  /\ req[p].pc \notin {"idle", "insert"} /\ req'[p].pc \notin {"idle", "insert"}
  /\ req'[p].pc \in Draining <=> req[p].pc \in Draining
  /\ req'[p].pc = "claim" <=> req[p].pc = "claim"

Arrives(p) ==
  /\ req[p].slot = None /\ req'[p].ns \in Namespaces
  /\ \/ req'[p].pc = "insert" /\ req'[p].slot = None
     \/ req'[p].pc = "init" /\ req'[p].slot = map[req'[p].ns] /\ req'[p].slot # None

Moves(p) ==
  \/ req'[p] = req[p]
  \/ req'[p].pc = "idle" /\ req'[p].slot = None /\ ~Opens(p)
  \/ GoesOn(p)
  \/ Arrives(p)

\* What a step that only locks, quiesces or moves requests on has to respect.
LEMMA LocalStep ==
  ASSUME RegInv, Shape', Life', SlotsStay, UNCHANGED <<map, draining, restoring>>,
         \A p \in Requests :
           /\ Moves(p)
           /\ req'[p].pc \in Holding => slots[req'[p].slot].open
           /\ req'[p].pc = "prepared" => req'[p].kind = "compact"
           /\ req'[p].pc \in {"join", "lockq"} => ~slots'[req'[p].drain].handles
           /\ req'[p].pc = "forget" => slots'[req'[p].drain].quiesced,
         \A i \in SlotIds, p \in Requests :
           /\ slots'[i].quiescer = p => req'[p].drain = i /\ req'[p].pc \in {"join", "lockq"}
           /\ slots'[i].lock = p => req'[p].slot = i /\ req'[p].pc \in {"locked", "recover"}
  PROVE  RegInv'
<1> USE DEF RegInv
<1>a. \A p \in Requests : /\ req[p].slot \in SlotIds \cup {None}
                          /\ req'[p].slot \in SlotIds \cup {None}
                          /\ req[p].drain \in SlotIds \cup {None}
                          /\ req[p].ns \in Namespaces \cup {None}
  BY DEF Shape, ReqStates
<1>b. None \notin SlotIds /\ None \notin Namespaces /\ None \notin Requests
  BY RegistryAssumption
<1>c. /\ \A n \in Namespaces : map[n] \in SlotIds \cup {None} /\ draining[n] \in SlotIds \cup {None}
      /\ \A i \in SlotIds : slots[i].ns \in Namespaces \cup {None}
  BY DEF Shape, SlotStates
<1>m. \A n \in Namespaces : map[n] # None => map[n] \in SlotIds /\ slots[map[n]].ns = n
  BY <1>c DEF Order
<1>d. \A p \in Requests : Opens(p)' =>
        /\ Opens(p) /\ req[p].slot \in SlotIds /\ req'[p].slot = req[p].slot
        /\ req'[p].ns = req[p].ns /\ req'[p].drain = req[p].drain
        /\ req'[p].pc = "claim" <=> req[p].pc = "claim"
  <2> SUFFICES ASSUME NEW p \in Requests, Opens(p)'
               PROVE /\ Opens(p) /\ req[p].slot \in SlotIds /\ req'[p].slot = req[p].slot
                     /\ req'[p].ns = req[p].ns /\ req'[p].drain = req[p].drain
                     /\ req'[p].pc = "claim" <=> req[p].pc = "claim"
    OBVIOUS
  <2>1. req'[p].pc \in {"claim", "drain", "join", "lockq", "forget"}
    BY DEF Opens, Draining
  <2>2. req'[p] = req[p] \/ GoesOn(p)
    BY <2>1 DEF Moves, Arrives
  <2>3. Opens(p) /\ req'[p].slot = req[p].slot /\ req'[p].ns = req[p].ns
        /\ req'[p].drain = req[p].drain /\ (req'[p].pc = "claim" <=> req[p].pc = "claim")
    BY <2>2 DEF Opens, GoesOn
  <2>4. req[p].pc \notin {"idle", "insert"}
    BY <2>3 DEF Opens, Draining
  <2> QED BY <1>a, <2>3, <2>4 DEF Held
<1>1. Held'
  <2> SUFFICES ASSUME NEW p \in Requests
               PROVE  /\ req'[p].pc \in {"idle", "insert"} <=> req'[p].slot = None
                      /\ req'[p].pc # "idle" => req'[p].ns # None
                      /\ req'[p].slot # None => slots'[req'[p].slot].ns = req'[p].ns
                      /\ req'[p].pc \in Draining =>
                           /\ req'[p].drain # None /\ slots'[req'[p].drain].retired
                           /\ req'[p].then \in {"init", "claim"}
                      /\ Opens(p)' => slots'[req'[p].slot].opener = p
    BY <1>a DEF Held, Holding, SlotsStay
  <2>1. Opens(p)' => slots'[req'[p].slot].opener = p
    BY <1>d DEF Held, SlotsStay
  <2>2. CASE req'[p] = req[p] \/ GoesOn(p)
    BY <2>1, <2>2, <1>a, <1>b DEF GoesOn, Held, SlotsStay
  <2>3. CASE req'[p].pc = "idle" /\ req'[p].slot = None
    BY <2>1, <2>3 DEF Draining
  <2>4. CASE Arrives(p)
    BY <2>1, <2>4, <1>a, <1>b, <1>c, <1>m DEF Arrives, Draining, SlotsStay
  <2> QED BY <2>2, <2>3, <2>4 DEF Moves
<1>2. Owners'
  <2>1. \A i \in SlotIds, p \in Requests : slots'[i].opener = p => req'[p].slot = i /\ Opens(p)'
    <3> SUFFICES ASSUME NEW i \in SlotIds, NEW p \in Requests, slots'[i].opener = p
                 PROVE  req'[p].slot = i /\ Opens(p)'
      OBVIOUS
    <3>1. req[p].slot = i /\ Opens(p)
      BY DEF Owners, SlotsStay
    <3>2. req'[p] = req[p] \/ GoesOn(p)
      BY <3>1, <1>b DEF Moves, Arrives
    <3> QED BY <3>1, <3>2 DEF GoesOn, Opens
  <2> QED BY <2>1 DEF Owners
<1>3. Order'
  <2>1. \A p \in Requests : req'[p].slot # None /\ ~slots'[req'[p].slot].open
                              => map'[req'[p].ns] = req'[p].slot
    BY <1>a, <1>b, <1>c DEF Order, SlotsStay, Moves, GoesOn, Arrives
  <2>2. \A n \in Namespaces : map'[n] # None =>
          /\ slots'[map'[n]].ns = n /\ ~slots'[map'[n]].retired
          /\ \A j \in SlotIds : slots'[j].ns = n => j <= map'[n]
    BY <1>c DEF Order, SlotsStay
  <2> QED BY <2>1, <2>2 DEF Order, SlotsStay
<1>4. Drained'
  <2>1. \A n \in Namespaces : draining'[n] # None =>
          slots'[draining'[n]].ns = n /\ slots'[draining'[n]].retired
    BY <1>c DEF Drained, SlotsStay
  <2>2. \A p \in Requests : Opens(p)' =>
          /\ req'[p].pc = "claim" => draining'[req'[p].ns] = None
          /\ req'[p].pc # "claim" => draining'[req'[p].ns] \in {None, req'[p].drain}
                                       /\ slots'[req'[p].drain].ns = req'[p].ns
    <3> SUFFICES ASSUME NEW p \in Requests, Opens(p)'
                 PROVE /\ req[p].pc = "claim" => draining[req[p].ns] = None
                       /\ req[p].pc # "claim" => draining[req[p].ns] \in {None, req[p].drain}
                                       /\ slots'[req[p].drain].ns = req[p].ns
      BY <1>d
    <3>1. req[p].pc # "claim" => req[p].drain \in SlotIds
      BY <1>a, <1>d DEF Opens, Held
    <3> QED BY <1>d, <3>1 DEF Drained, SlotsStay
  <2>3. \A i \in SlotIds : slots'[i].retired /\ ~slots'[i].quiesced => draining'[slots'[i].ns] = i
    BY DEF Drained, SlotsStay
  <2>4. \A i, j \in SlotIds : i < j /\ slots'[i].open /\ slots'[j].open
                                /\ slots'[i].ns = slots'[j].ns => slots'[i].quiesced
    BY DEF Drained, SlotsStay
  <2> QED BY <2>1, <2>2, <2>3, <2>4 DEF Drained
<1>5. Alone' /\ Bounded'
  BY DEF Alone, Bounded, Mapped
<1> QED BY <1>1, <1>2, <1>3, <1>4, <1>5

\* A step that touches one request and no slot.
LEMMA RequestOnly ==
  ASSUME RegInv, NEW r \in Requests, req' \in [Requests -> ReqStates],
         UNCHANGED <<slots, map, draining, restoring, epoch, events>>,
         \A p \in Requests : p # r => req'[p] = req[p],
         Moves(r), req[r].pc \notin {"locked", "recover"} \/ GoesOn(r),
         req[r].pc \in {"locked", "recover"} => req'[r].pc \in {"locked", "recover"},
         req[r].pc \in {"join", "lockq"} => req'[r].pc = "lockq" /\ GoesOn(r),
         req'[r].pc \in {"join", "lockq"} => req[r].pc \in {"join", "lockq"},
         req'[r].pc \in Holding => slots[req'[r].slot].open,
         req'[r].pc = "prepared" => req'[r].kind = "compact",
         req'[r].pc = "forget" => slots[req'[r].drain].quiesced
  PROVE  RegInv'
<1> USE DEF RegInv
<1>1. Shape'
  BY DEF Shape
<1>2. Life'
  <2>1. \A i \in SlotIds : HttpHolds(i)' => HttpHolds(i)
    BY DEF HttpHolds, Owners, GoesOn
  <2> QED BY <2>1 DEF Life
<1>3. SlotsStay
  BY DEF SlotsStay
<1>4. \A p \in Requests :
        /\ Moves(p)
        /\ req'[p].pc \in Holding => slots[req'[p].slot].open
        /\ req'[p].pc = "prepared" => req'[p].kind = "compact"
        /\ req'[p].pc \in {"join", "lockq"} => ~slots'[req'[p].drain].handles
        /\ req'[p].pc = "forget" => slots'[req'[p].drain].quiesced
  BY DEF Moves, Held, GoesOn
<1>5. \A i \in SlotIds, p \in Requests :
        /\ slots'[i].quiescer = p => req'[p].drain = i /\ req'[p].pc \in {"join", "lockq"}
        /\ slots'[i].lock = p => req'[p].slot = i /\ req'[p].pc \in {"locked", "recover"}
  BY DEF Owners, GoesOn
<1> QED BY <1>1, <1>2, <1>3, <1>4, <1>5, LocalStep

\* Refused: a restore is copying.
LEMMA InsertRefusedStep ==
  ASSUME RegInv, NEW r \in Requests, InsertRefused(r)
  PROVE  RegInv'
<1>1. /\ Finish(r) /\ UNCHANGED <<slots, map, draining, restoring, epoch, events>>
      /\ req[r].pc \notin Draining \cup {"claim", "locked", "recover"}
  BY DEF InsertRefused, Insertable, Draining
<1>2. Moves(r) /\ req'[r].pc = "idle"
  BY <1>1, FinishWhat DEF Moves, Opens, Draining
<1> QED BY <1>1, <1>2, FinishWhat, RequestOnly DEF Holding, Draining

\* Refused: nothing idle to evict.
LEMMA InsertAtCapacityStep ==
  ASSUME RegInv, NEW r \in Requests, InsertAtCapacity(r)
  PROVE  RegInv'
<1>1. /\ Finish(r) /\ UNCHANGED <<slots, map, draining, restoring, epoch, events>>
      /\ req[r].pc \notin Draining \cup {"claim", "locked", "recover"}
  BY DEF InsertAtCapacity, Insertable, Draining
<1>2. Moves(r) /\ req'[r].pc = "idle"
  BY <1>1, FinishWhat DEF Moves, Opens, Draining
<1> QED BY <1>1, <1>2, FinishWhat, RequestOnly DEF Holding, Draining

\* Refused: the writer is busy.
LEMMA LockTimeoutStep ==
  ASSUME RegInv, NEW r \in Requests, LockTimeout(r)
  PROVE  RegInv'
<1>1. /\ Finish(r) /\ UNCHANGED <<slots, map, draining, restoring, epoch, events>>
      /\ req[r].pc \notin Draining \cup {"claim", "locked", "recover"}
  BY DEF LockTimeout, Insertable, Draining
<1>2. Moves(r) /\ req'[r].pc = "idle"
  BY <1>1, FinishWhat DEF Moves, Opens, Draining
<1> QED BY <1>1, <1>2, FinishWhat, RequestOnly DEF Holding, Draining

\* A reader lets go.
LEMMA UnpinStep ==
  ASSUME RegInv, NEW r \in Requests, Unpin(r)
  PROVE  RegInv'
<1>1. /\ Finish(r) /\ UNCHANGED <<slots, map, draining, restoring, epoch, events>>
      /\ req[r].pc \notin Draining \cup {"claim", "locked", "recover"}
  BY DEF Unpin, Insertable, Draining
<1>2. Moves(r) /\ req'[r].pc = "idle"
  BY <1>1, FinishWhat DEF Moves, Opens, Draining
<1> QED BY <1>1, <1>2, FinishWhat, RequestOnly DEF Holding, Draining

\* The aborted tasks have ended.
LEMMA JoinTasksStep ==
  ASSUME RegInv, NEW r \in Requests, JoinTasks(r)
  PROVE  RegInv'
<1>1. /\ Goto(r, "lockq") /\ UNCHANGED <<slots, map, draining, restoring, epoch, events>>
      /\ req[r].pc = "join"
  BY DEF JoinTasks
<1>2. "lockq" \in Pcs
  BY DEF Pcs
<1>3. GoesOn(r) /\ Moves(r) /\ req'[r].pc = "lockq"
  BY <1>1, <1>2, GotoWhat DEF GoesOn, Moves, Draining
<1>4. req'[r].pc \in Holding => slots[req'[r].slot].open
  BY <1>1, <1>3 DEF RegInv, Held, Holding, GoesOn
<1> QED BY <1>1, <1>2, <1>3, <1>4, GotoWhat, RequestOnly

\* A reader pins a snapshot.
LEMMA PinStep ==
  ASSUME RegInv, NEW r \in Requests, Pin(r)
  PROVE  RegInv'
<1>1. /\ Goto(r, "reading") /\ UNCHANGED <<slots, map, draining, restoring, epoch, events>>
      /\ req[r].pc = "have"
  BY DEF Pin
<1>2. "reading" \in Pcs
  BY DEF Pcs
<1>3. GoesOn(r) /\ Moves(r) /\ req'[r].pc = "reading"
  BY <1>1, <1>2, GotoWhat DEF GoesOn, Moves, Draining
<1>4. req'[r].pc \in Holding => slots[req'[r].slot].open
  BY <1>1, <1>3 DEF RegInv, Held, Holding, GoesOn
<1> QED BY <1>1, <1>2, <1>3, <1>4, GotoWhat, RequestOnly

\* A request arrives, or finds its slot inserted by another one.
LEMMA LookupStep ==
  ASSUME RegInv, NEW r \in Requests, NEW k \in Kinds, NEW n \in Namespaces, Lookup(r, k, n)
  PROVE  RegInv'
<1> DEFINE q == [Idle EXCEPT !.pc = IF map[n] = None THEN "insert" ELSE "init",
                             !.kind = k, !.ns = n, !.slot = map[n]]
<1>1. /\ req[r].pc = "idle" /\ req' = [req EXCEPT ![r] = q]
      /\ UNCHANGED <<slots, map, draining, restoring, epoch, events>>
  BY DEF Lookup
<1>2. map[n] \in SlotIds \cup {None} /\ req \in [Requests -> ReqStates] /\ k \in AllKinds
  BY RegistryAssumption DEF RegInv, Shape
<1>3. /\ q.pc = (IF map[n] = None THEN "insert" ELSE "init")
      /\ q.ns = n /\ q.slot = map[n]
  BY DEF Idle
<1>4. q \in ReqStates
  BY <1>2 DEF Idle, ReqStates, Pcs
<1> HIDE DEF q
<1>5. /\ req' \in [Requests -> ReqStates] /\ req'[r] = q
      /\ \A p \in Requests : p # r => req'[p] = req[p]
  BY <1>1, <1>2, <1>4
<1>6. req[r].slot = None
  BY <1>1 DEF RegInv, Held
<1>7. Moves(r)
  BY <1>3, <1>5, <1>6 DEF Moves, Arrives
<1> QED BY <1>1, <1>3, <1>5, <1>7, RequestOnly DEF Holding

\* insert_slot finds the slot of another request.
LEMMA InsertFoundStep ==
  ASSUME RegInv, NEW r \in Requests, InsertFound(r)
  PROVE  RegInv'
<1>1. /\ req[r].pc = "insert" /\ map[req[r].ns] # None
      /\ req' = [req EXCEPT ![r].pc = "init", ![r].slot = map[req[r].ns]]
      /\ UNCHANGED <<slots, map, draining, restoring, epoch, events>>
  BY DEF InsertFound
<1>2. /\ req \in [Requests -> ReqStates] /\ req[r].ns \in Namespaces
      /\ map[req[r].ns] \in SlotIds \cup {None} /\ req[r].slot = None
  BY <1>1, RequestWhat DEF RegInv, Shape, Held
<1>3. /\ req' \in [Requests -> ReqStates]
      /\ req'[r].pc = "init" /\ req'[r].slot = map[req[r].ns] /\ req'[r].ns = req[r].ns
      /\ \A p \in Requests : p # r => req'[p] = req[p]
  BY <1>1, <1>2 DEF ReqStates, Pcs
<1>4. Moves(r)
  BY <1>1, <1>2, <1>3 DEF Moves, Arrives
<1> QED BY <1>1, <1>3, <1>4, RequestOnly DEF Holding

\* drain_compaction takes its basis, or leaves a retired incarnation.
LEMMA CompactBasisStep ==
  ASSUME RegInv, NEW r \in Requests, CompactBasis(r)
  PROVE  RegInv'
<1>1. /\ req[r].pc = "have" /\ UNCHANGED <<slots, map, draining, restoring, epoch, events>>
      /\ req[r].kind = "compact" /\ (Finish(r) \/ Goto(r, "prepared"))
  BY DEF CompactBasis
<1>2. CASE Finish(r)
  <2>1. Moves(r) /\ req'[r].pc = "idle"
    BY <1>1, <1>2, FinishWhat DEF Moves, Opens, Draining
  <2> QED BY <1>1, <1>2, <2>1, FinishWhat, RequestOnly DEF Holding
<1>3. CASE Goto(r, "prepared")
  <2>1. "prepared" \in Pcs
    BY DEF Pcs
  <2>2. GoesOn(r) /\ Moves(r) /\ req'[r].pc = "prepared"
    BY <1>1, <1>3, <2>1, GotoWhat DEF GoesOn, Moves, Draining
  <2>3. slots[req'[r].slot].open /\ req'[r].kind = "compact"
    BY <1>1, <2>2 DEF RegInv, Held, Holding, GoesOn
  <2> QED BY <1>1, <1>3, <2>1, <2>2, <2>3, GotoWhat, RequestOnly
<1> QED BY <1>1, <1>2, <1>3

\* Only slot i changes, and of it not the fields that insertion, opening and
\* eviction set.
Edited(i) ==
  /\ slots' \in [SlotIds -> SlotStates] /\ \A j \in SlotIds : j # i => slots'[j] = slots[j]
  /\ slots'[i].ns = slots[i].ns /\ slots'[i].open = slots[i].open
  /\ slots'[i].opener = slots[i].opener /\ slots'[i].retired = slots[i].retired
  /\ slots[i].quiesced => slots'[i].quiesced
  /\ slots'[i].handles => slots[i].handles

\* What Life asks of an open slot, of the next state.
StaysSane(i) ==
  /\ ~slots'[i].handles => slots'[i].task \in {"aborted", "gone"}
  /\ slots'[i].lock = "task" => slots'[i].task \in {"locked", "recover", "aborted"}
  /\ slots'[i].quiesced => /\ slots[i].retired /\ ~slots'[i].handles
                           /\ slots'[i].lock # "task"
                           /\ \A p \in Requests : slots'[i].lock = p => req'[p].kind # "http"

\* Only request r moves; it alone may become an owner of slot i, and it holds
\* on to no other slot's mutex or quiesce.
Turn(r, i) ==
  /\ req' \in [Requests -> ReqStates] /\ \A p \in Requests : p # r => req'[p] = req[p]
  /\ \A p \in Requests : p # r => /\ slots'[i].lock = p => slots[i].lock = p
                                  /\ slots'[i].quiescer = p => slots[i].quiescer = p
  /\ GoesOn(r) \/ (req'[r].pc = "idle" /\ req'[r].slot = None /\ ~Opens(r))
  /\ req[r].pc \in {"locked", "recover"} => req[r].slot = i
  /\ req[r].pc \in {"join", "lockq"} => req[r].drain = i
  /\ slots'[i].lock = r => req'[r].slot = i /\ req'[r].pc \in {"locked", "recover"}
  /\ slots'[i].quiescer = r => req'[r].drain = i /\ req'[r].pc \in {"join", "lockq"}
  /\ req'[r].pc \in Holding => slots[req'[r].slot].open
  /\ req'[r].pc = "prepared" => req'[r].kind = "compact"
  /\ req'[r].pc \in {"join", "lockq"} => ~slots'[req'[r].drain].handles
  /\ req'[r].pc = "forget" => slots'[req'[r].drain].quiesced

\* The step of a request that has an open slot's mutex or quiesces it.
LEMMA OneSlot ==
  ASSUME RegInv, NEW r \in Requests, NEW i \in SlotIds, slots[i].open,
         Edited(i), StaysSane(i), Turn(r, i), UNCHANGED <<map, draining, restoring>>,
         epoch' \in [Namespaces -> Nat], events' \in 0..MaxEvents
  PROVE  RegInv'
<1> USE DEF RegInv, Edited, StaysSane, Turn
<1>1. Shape'
  BY DEF Shape
<1>3. \A j \in SlotIds : j # i => slots[j].lock # r /\ slots[j].quiescer # r
  BY DEF Owners
<1>4. Life'
  <2>1. \A j \in SlotIds : j # i => (HttpHolds(j)' => HttpHolds(j))
    BY <1>3 DEF HttpHolds
  <2>2. \A j \in SlotIds : j # i =>
    /\ slots'[j].open => slots'[j].ns # None /\ slots'[j].opener = None
    /\ ~slots'[j].open => ~slots'[j].retired /\ slots'[j].lock = None /\ slots'[j].task = "none"
    /\ slots'[j].open /\ ~slots'[j].handles => slots'[j].task \in {"aborted", "gone"}
    /\ slots'[j].lock = "task" => slots'[j].task \in {"locked", "recover", "aborted"}
    /\ slots'[j].quiesced => /\ slots'[j].retired /\ ~slots'[j].handles
                             /\ slots'[j].lock # "task" /\ ~HttpHolds(j)'
    BY <2>1 DEF Life
  <2>3. /\ slots'[i].open => slots'[i].ns # None /\ slots'[i].opener = None
        /\ ~slots'[i].open => ~slots'[i].retired /\ slots'[i].lock = None /\ slots'[i].task = "none"
        /\ slots'[i].quiesced => ~HttpHolds(i)'
    BY DEF Life, HttpHolds
  <2> QED BY <2>2, <2>3 DEF Life
<1>5. SlotsStay
  BY DEF SlotsStay
<1>6. \A p \in Requests :
        /\ Moves(p)
        /\ req'[p].pc \in Holding => slots[req'[p].slot].open
        /\ req'[p].pc = "prepared" => req'[p].kind = "compact"
        /\ req'[p].pc \in {"join", "lockq"} => ~slots'[req'[p].drain].handles
        /\ req'[p].pc = "forget" => slots'[req'[p].drain].quiesced
  <2> SUFFICES ASSUME NEW p \in Requests, p # r
               PROVE  /\ Moves(p)
                      /\ req[p].pc \in Holding => slots[req[p].slot].open
                      /\ req[p].pc = "prepared" => req[p].kind = "compact"
                      /\ req[p].pc \in {"join", "lockq"} => ~slots'[req[p].drain].handles
                      /\ req[p].pc = "forget" => slots'[req[p].drain].quiesced
    BY DEF Moves
  <2>1. req[p].pc \in Draining => req[p].drain \in SlotIds
    BY RequestWhat
  <2> QED BY <2>1 DEF Moves, Held, Draining
<1>7. \A j \in SlotIds, p \in Requests :
        /\ slots'[j].quiescer = p => req'[p].drain = j /\ req'[p].pc \in {"join", "lockq"}
        /\ slots'[j].lock = p => req'[p].slot = j /\ req'[p].pc \in {"locked", "recover"}
  BY <1>3 DEF Owners
<1> QED BY <1>1, <1>4, <1>5, <1>6, <1>7, LocalStep

\* A maintenance task takes the mutex or gives it back.
LEMMA TaskOnly ==
  ASSUME RegInv, NEW i \in SlotIds, slots[i].open,
         slots' \in [SlotIds -> SlotStates], UNCHANGED <<map, draining, restoring, req, events>>,
         epoch' \in [Namespaces -> Nat],
         \A j \in SlotIds : j # i => slots'[j] = slots[j],
         slots'[i].ns = slots[i].ns, slots'[i].open = slots[i].open,
         slots'[i].opener = slots[i].opener, slots'[i].retired = slots[i].retired,
         slots'[i].quiesced = slots[i].quiesced, slots'[i].handles = slots[i].handles,
         slots'[i].quiescer = slots[i].quiescer,
         ~slots[i].handles => slots'[i].task \in {"aborted", "gone"},
         slots'[i].lock \in {slots[i].lock, "task", None},
         slots'[i].lock = "task" => slots'[i].task \in {"locked", "recover", "aborted"},
         slots[i].quiesced => slots'[i].lock # "task"
  PROVE  RegInv'
<1> USE DEF RegInv
<1>0. None \notin Requests /\ "task" \notin Requests
  BY RegistryAssumption
<1>1. Shape'
  BY DEF Shape
<1>2. Life'
  <2>1. \A j \in SlotIds : HttpHolds(j)' => HttpHolds(j)
    BY <1>0 DEF HttpHolds
  <2> SUFFICES ASSUME NEW j \in SlotIds
               PROVE
    /\ slots'[j].open => slots'[j].ns # None /\ slots'[j].opener = None
    /\ ~slots'[j].open => ~slots'[j].retired /\ slots'[j].lock = None /\ slots'[j].task = "none"
    /\ slots'[j].open /\ ~slots'[j].handles => slots'[j].task \in {"aborted", "gone"}
    /\ slots'[j].lock = "task" => slots'[j].task \in {"locked", "recover", "aborted"}
    /\ slots'[j].quiesced => /\ slots'[j].retired /\ ~slots'[j].handles
                             /\ slots'[j].lock # "task" /\ ~HttpHolds(j)'
    BY DEF Life
  <2>2. CASE j # i
    BY <2>1, <2>2 DEF Life
  <2>3. CASE j = i
    BY <2>1, <2>3 DEF Life
  <2> QED BY <2>2, <2>3
<1>3. SlotsStay
  BY DEF SlotsStay
<1>4. \A p \in Requests :
        /\ Moves(p)
        /\ req'[p].pc \in Holding => slots[req'[p].slot].open
        /\ req'[p].pc = "prepared" => req'[p].kind = "compact"
        /\ req'[p].pc \in {"join", "lockq"} => ~slots'[req'[p].drain].handles
        /\ req'[p].pc = "forget" => slots'[req'[p].drain].quiesced
  <2>1. \A p \in Requests : req[p].pc \in Draining => req[p].drain \in SlotIds
    BY RequestWhat
  <2> QED BY <2>1 DEF Moves, Held, Draining
<1>5. \A j \in SlotIds, p \in Requests :
        /\ slots'[j].quiescer = p => req'[p].drain = j /\ req'[p].pc \in {"join", "lockq"}
        /\ slots'[j].lock = p => req'[p].slot = j /\ req'[p].pc \in {"locked", "recover"}
  BY <1>0 DEF Owners
<1> QED BY <1>1, <1>2, <1>3, <1>4, <1>5, LocalStep

\* A task locks, or the flush loop leaves a retired incarnation.
LEMMA TaskLockStep ==
  ASSUME RegInv, NEW i \in SlotIds, TaskLock(i)
  PROVE  RegInv'
<1> USE DEF RegInv
<1>1. /\ slots[i].task = "idle" /\ slots[i].lock = None
      /\ UNCHANGED <<map, draining, restoring, epoch, req, events>>
      /\ \/ slots' = [slots EXCEPT ![i].task = "locked", ![i].lock = "task"]
         \/ slots' = [slots EXCEPT ![i].task = "gone"]
  BY DEF TaskLock
<1>2. slots[i].open /\ slots[i].handles /\ ~slots[i].quiesced
  BY <1>1 DEF Life
<1>3. /\ slots' \in [SlotIds -> SlotStates] /\ \A j \in SlotIds : j # i => slots'[j] = slots[j]
      /\ slots'[i].ns = slots[i].ns /\ slots'[i].open = slots[i].open
      /\ slots'[i].opener = slots[i].opener /\ slots'[i].retired = slots[i].retired
      /\ slots'[i].quiesced = slots[i].quiesced /\ slots'[i].handles = slots[i].handles
      /\ slots'[i].quiescer = slots[i].quiescer
      /\ \/ slots'[i].task = "locked" /\ slots'[i].lock = "task"
         \/ slots'[i].task = "gone" /\ slots'[i].lock = slots[i].lock
  BY <1>1, SlotWhat DEF Shape, SlotStates
<1>4. epoch' \in [Namespaces -> Nat] /\ None # "task"
  BY <1>1, RegistryAssumption DEF Shape
<1> QED BY <1>1, <1>2, <1>3, <1>4, TaskOnly

\* Its section ends, or needs a recovery.
LEMMA TaskDoneStep ==
  ASSUME RegInv, NEW i \in SlotIds, TaskDone(i)
  PROVE  RegInv'
<1> USE DEF RegInv
<1>1. /\ slots[i].task = "locked"
      /\ UNCHANGED <<map, draining, restoring, epoch, req, events>>
      /\ \/ slots' = [slots EXCEPT ![i].task = "idle", ![i].lock = None]
         \/ slots' = [slots EXCEPT ![i].task = "recover"]
  BY DEF TaskDone
<1>2. slots[i].open /\ slots[i].handles /\ ~slots[i].quiesced
  BY <1>1 DEF Life
<1>3. /\ slots' \in [SlotIds -> SlotStates] /\ \A j \in SlotIds : j # i => slots'[j] = slots[j]
      /\ slots'[i].ns = slots[i].ns /\ slots'[i].open = slots[i].open
      /\ slots'[i].opener = slots[i].opener /\ slots'[i].retired = slots[i].retired
      /\ slots'[i].quiesced = slots[i].quiesced /\ slots'[i].handles = slots[i].handles
      /\ slots'[i].quiescer = slots[i].quiescer
      /\ \/ slots'[i].task = "idle" /\ slots'[i].lock = None
         \/ slots'[i].task = "recover" /\ slots'[i].lock = slots[i].lock
  BY <1>1, SlotWhat DEF Shape, SlotStates
<1>4. epoch' \in [Namespaces -> Nat] /\ None # "task"
  BY <1>1, RegistryAssumption DEF Shape
<1> QED BY <1>1, <1>2, <1>3, <1>4, TaskOnly

\* It reopens the session under the mutex.
LEMMA TaskRecoverStep ==
  ASSUME RegInv, NEW i \in SlotIds, TaskRecover(i)
  PROVE  RegInv'
<1> USE DEF RegInv
<1> DEFINE n == slots[i].ns
<1>1. /\ slots[i].task = "recover" /\ epoch' = [epoch EXCEPT ![n] = @ + 1]
      /\ UNCHANGED <<map, draining, restoring, req, events>>
      /\ slots' = [slots EXCEPT ![i].task = "idle", ![i].lock = None, ![i].epoch = epoch[n] + 1]
  BY DEF TaskRecover
<1>2. slots[i].open /\ slots[i].handles /\ ~slots[i].quiesced /\ n \in Namespaces
  BY <1>1, SlotWhat DEF Life
<1> HIDE DEF n
<1>3. epoch' \in [Namespaces -> Nat] /\ None # "task" /\ epoch[n] + 1 \in Nat
  BY <1>1, <1>2, RegistryAssumption DEF Shape
<1>4. /\ slots' \in [SlotIds -> SlotStates] /\ \A j \in SlotIds : j # i => slots'[j] = slots[j]
      /\ slots'[i].ns = slots[i].ns /\ slots'[i].open = slots[i].open
      /\ slots'[i].opener = slots[i].opener /\ slots'[i].retired = slots[i].retired
      /\ slots'[i].quiesced = slots[i].quiesced /\ slots'[i].handles = slots[i].handles
      /\ slots'[i].quiescer = slots[i].quiescer
      /\ slots'[i].task = "idle" /\ slots'[i].lock = None
  <2> DEFINE s == [slots[i] EXCEPT !.task = "idle", !.lock = None, !.epoch = epoch[n] + 1]
  <2>1. slots' = [slots EXCEPT ![i] = s] /\ slots \in [SlotIds -> SlotStates]
    BY <1>1 DEF Shape
  <2>2. /\ s \in SlotStates /\ s.ns = slots[i].ns /\ s.open = slots[i].open
        /\ s.opener = slots[i].opener /\ s.retired = slots[i].retired
        /\ s.quiesced = slots[i].quiesced /\ s.handles = slots[i].handles
        /\ s.quiescer = slots[i].quiescer /\ s.task = "idle" /\ s.lock = None
    BY <1>3, SlotWhat DEF SlotStates
  <2> HIDE DEF s
  <2> QED BY <2>1, <2>2
<1> QED BY <1>1, <1>2, <1>3, <1>4, TaskOnly

\* An aborted task ends and its guard is dropped.
LEMMA AbortLandsStep ==
  ASSUME RegInv, NEW i \in SlotIds, AbortLands(i)
  PROVE  RegInv'
<1> USE DEF RegInv
<1>1. /\ slots[i].task = "aborted" /\ UNCHANGED <<map, draining, restoring, epoch, req, events>>
      /\ slots' = [slots EXCEPT ![i].task = "gone", ![i].lock = IF @ = "task" THEN None ELSE @]
  BY DEF AbortLands
<1>2. slots[i].open
  BY <1>1 DEF Life
<1>3. /\ slots' \in [SlotIds -> SlotStates] /\ \A j \in SlotIds : j # i => slots'[j] = slots[j]
      /\ slots'[i].ns = slots[i].ns /\ slots'[i].open = slots[i].open
      /\ slots'[i].opener = slots[i].opener /\ slots'[i].retired = slots[i].retired
      /\ slots'[i].quiesced = slots[i].quiesced /\ slots'[i].handles = slots[i].handles
      /\ slots'[i].quiescer = slots[i].quiescer /\ slots'[i].task = "gone"
      /\ slots'[i].lock = IF slots[i].lock = "task" THEN None ELSE slots[i].lock
  <2> DEFINE lock == IF slots[i].lock = "task" THEN None ELSE slots[i].lock
             s == [slots[i] EXCEPT !.task = "gone", !.lock = lock]
  <2>1. slots' = [slots EXCEPT ![i] = s] /\ slots \in [SlotIds -> SlotStates]
    BY <1>1 DEF Shape
  <2>2. lock \in Requests \cup {"task", None}
    BY SlotWhat
  <2> HIDE DEF lock
  <2>3. /\ s \in SlotStates /\ s.ns = slots[i].ns /\ s.open = slots[i].open
        /\ s.opener = slots[i].opener /\ s.retired = slots[i].retired
        /\ s.quiesced = slots[i].quiesced /\ s.handles = slots[i].handles
        /\ s.quiescer = slots[i].quiescer /\ s.task = "gone" /\ s.lock = lock
    BY <2>2, SlotWhat DEF SlotStates
  <2> HIDE DEF s
  <2> QED BY <2>1, <2>3 DEF lock
<1>4. epoch' \in [Namespaces -> Nat] /\ None # "task"
  BY <1>1, RegistryAssumption DEF Shape
<1> QED BY <1>1, <1>2, <1>3, <1>4, TaskOnly

\* Writing one field of a slot leaves the others as they are.
LEMMA LockWritten ==
  ASSUME NEW i \in SlotIds, NEW l \in Requests \cup {"task", None}, RegInv,
         slots' = [slots EXCEPT ![i].lock = l]
  PROVE  /\ slots' \in [SlotIds -> SlotStates] /\ \A j \in SlotIds : j # i => slots'[j] = slots[j]
         /\ slots'[i].ns = slots[i].ns /\ slots'[i].open = slots[i].open
         /\ slots'[i].opener = slots[i].opener /\ slots'[i].retired = slots[i].retired
         /\ slots'[i].quiesced = slots[i].quiesced /\ slots'[i].handles = slots[i].handles
         /\ slots'[i].quiescer = slots[i].quiescer /\ slots'[i].task = slots[i].task
         /\ slots'[i].lock = l
<1>1. slots \in [SlotIds -> SlotStates]
  BY DEF RegInv, Shape
<1> QED BY <1>1 DEF SlotStates

\* A request takes the writer mutex of the slot it holds; an HTTP one only
\* while the incarnation is not retired.
LEMMA LockTaken ==
  ASSUME RegInv, NEW r \in Requests, req[r].pc \in {"have", "prepared"}, Goto(r, "locked"),
         slots[req[r].slot].lock = None,
         req[r].kind = "http" => ~slots[req[r].slot].retired,
         slots' = [slots EXCEPT ![req[r].slot].lock = r],
         UNCHANGED <<map, draining, restoring, epoch, events>>
  PROVE  RegInv'
<1> USE DEF RegInv
<1>1. PICK i \in SlotIds : i = req[r].slot
  BY RequestWhat
<1>2. /\ None \notin Requests /\ "task" \notin Requests /\ slots[i].open /\ "locked" \in Pcs
  BY <1>1, RegistryAssumption DEF Held, Holding, Pcs
<1>3. /\ req' \in [Requests -> ReqStates] /\ \A p \in Requests : p # r => req'[p] = req[p]
      /\ req'[r].pc = "locked" /\ req'[r].slot = i /\ req'[r].kind = req[r].kind /\ GoesOn(r)
  BY <1>1, <1>2, GotoWhat DEF GoesOn, Draining
<1>4. /\ slots' \in [SlotIds -> SlotStates] /\ \A j \in SlotIds : j # i => slots'[j] = slots[j]
      /\ slots'[i].ns = slots[i].ns /\ slots'[i].open = slots[i].open
      /\ slots'[i].opener = slots[i].opener /\ slots'[i].retired = slots[i].retired
      /\ slots'[i].quiesced = slots[i].quiesced /\ slots'[i].handles = slots[i].handles
      /\ slots'[i].quiescer = slots[i].quiescer /\ slots'[i].task = slots[i].task
      /\ slots'[i].lock = r
  <2>1. slots' = [slots EXCEPT ![i].lock = r]
    BY <1>1
  <2> QED BY <2>1, LockWritten
<1>5. slots[i].quiesced => slots[i].retired /\ ~slots[i].handles
  BY DEF Life
<1>6. ~slots[i].handles => slots[i].task \in {"aborted", "gone"}
  BY <1>2 DEF Life
<1>7. epoch' \in [Namespaces -> Nat] /\ events' \in 0..MaxEvents
  BY DEF Shape
<1>8. slots'[i].quiescer # r
  BY <1>4 DEF Owners
<1>9. Edited(i)
  BY <1>4 DEF Edited
<1>10. StaysSane(i)
  BY <1>1, <1>2, <1>3, <1>4, <1>5, <1>6 DEF StaysSane
<1>11. Turn(r, i)
  BY <1>1, <1>2, <1>3, <1>4, <1>8 DEF Turn
<1> QED BY <1>2, <1>7, <1>9, <1>10, <1>11, OneSlot

\* A request gives the mutex back and ends.
LEMMA LockDropped ==
  ASSUME RegInv, NEW r \in Requests, req[r].pc \in {"locked", "recover"}, Finish(r),
         NEW i \in SlotIds, i = req[r].slot,
         slots' \in [SlotIds -> SlotStates], \A j \in SlotIds : j # i => slots'[j] = slots[j],
         slots'[i].ns = slots[i].ns, slots'[i].open = slots[i].open,
         slots'[i].opener = slots[i].opener, slots'[i].retired = slots[i].retired,
         slots'[i].quiesced = slots[i].quiesced, slots'[i].handles = slots[i].handles,
         slots'[i].quiescer = slots[i].quiescer, slots'[i].task = slots[i].task,
         slots'[i].lock = None,
         UNCHANGED <<map, draining, restoring>>,
         epoch' \in [Namespaces -> Nat], events' \in 0..MaxEvents
  PROVE  RegInv'
<1> USE DEF RegInv
<1>1. None \notin Requests /\ "task" # None /\ slots[i].open
  BY RegistryAssumption DEF Held, Holding
<1>2. /\ req' \in [Requests -> ReqStates] /\ \A p \in Requests : p # r => req'[p] = req[p]
      /\ req'[r].pc = "idle" /\ req'[r].slot = None /\ ~Opens(r)
  BY FinishWhat DEF Opens, Draining
<1>3. /\ slots[i].quiesced => slots[i].retired /\ ~slots[i].handles
      /\ ~slots[i].handles => slots[i].task \in {"aborted", "gone"}
      /\ slots[i].quiescer # r
  BY <1>1 DEF Life, Owners
<1>4. Edited(i)
  BY DEF Edited
<1>5. StaysSane(i)
  BY <1>1, <1>3 DEF StaysSane
<1>6. Turn(r, i)
  BY <1>1, <1>2, <1>3 DEF Turn, Holding
<1> QED BY <1>1, <1>4, <1>5, <1>6, OneSlot

\* The handlers that lock: HTTP, Bolt, admin compaction.
LEMMA HttpLockStep ==
  ASSUME RegInv, NEW r \in Requests, HttpLock(r)
  PROVE  RegInv'
<1>1. /\ req[r].kind = "http" /\ req[r].pc = "have" /\ slots[req[r].slot].lock = None
      /\ UNCHANGED <<map, draining, restoring, epoch, events>>
  BY DEF HttpLock
<1>2. CASE slots[req[r].slot].retired
  <2>1. Finish(r) /\ slots' = slots
    BY <1>2 DEF HttpLock
  <2>2. Moves(r) /\ req'[r].pc = "idle"
    BY <1>1, <2>1, FinishWhat DEF Moves, Opens, Draining
  <2> QED BY <1>1, <2>1, <2>2, FinishWhat, RequestOnly DEF Holding
<1>3. CASE ~slots[req[r].slot].retired
  <2>1. Goto(r, "locked") /\ slots' = [slots EXCEPT ![req[r].slot].lock = r]
    BY <1>3 DEF HttpLock
  <2> QED BY <1>1, <1>3, <2>1, LockTaken
<1> QED BY <1>2, <1>3

\* A Bolt write takes the mutex whatever the retired flag says.
LEMMA BoltLockStep ==
  ASSUME RegInv, NEW r \in Requests, BoltLock(r)
  PROVE  RegInv'
<1>1. /\ req[r].kind = "bolt" /\ req[r].pc = "have" /\ slots[req[r].slot].lock = None
      /\ UNCHANGED <<map, draining, restoring, epoch, events>>
      /\ Goto(r, "locked") /\ slots' = [slots EXCEPT ![req[r].slot].lock = r]
  BY DEF BoltLock
<1> QED BY <1>1, LockTaken

\* A compaction that was prepared off-lock takes the mutex to install.
LEMMA CompactLockStep ==
  ASSUME RegInv, NEW r \in Requests, CompactLock(r)
  PROVE  RegInv'
<1>1. /\ req[r].pc = "prepared" /\ slots[req[r].slot].lock = None
      /\ UNCHANGED <<map, draining, restoring, epoch, events>>
      /\ Goto(r, "locked") /\ slots' = [slots EXCEPT ![req[r].slot].lock = r]
  BY DEF CompactLock
<1>2. req[r].kind = "compact"
  BY <1>1 DEF RegInv, Held
<1> QED BY <1>1, <1>2, LockTaken

\* A section that ends, or goes on to recover.
LEMMA WriteDoneStep ==
  ASSUME RegInv, NEW r \in Requests, WriteDone(r)
  PROVE  RegInv'
<1> USE DEF RegInv
<1> DEFINE i == req[r].slot
<1>1. /\ req[r].pc = "locked" /\ UNCHANGED <<map, draining, restoring, epoch, events>>
      /\ \/ Finish(r) /\ slots' = [slots EXCEPT ![i].lock = None]
         \/ Goto(r, "recover") /\ UNCHANGED slots
  BY DEF WriteDone
<1>2. i \in SlotIds /\ slots[i].open
  BY <1>1, RequestWhat DEF Held, Holding
<1>3. CASE Goto(r, "recover") /\ UNCHANGED slots
  <2>1. "recover" \in Pcs
    BY DEF Pcs
  <2>2. GoesOn(r) /\ Moves(r) /\ req'[r].pc = "recover" /\ req'[r].slot = i
    BY <1>1, <1>3, <2>1, GotoWhat DEF GoesOn, Moves, Draining
  <2> QED BY <1>1, <1>2, <1>3, <2>1, <2>2, GotoWhat, RequestOnly
<1>4. CASE Finish(r) /\ slots' = [slots EXCEPT ![i].lock = None]
  <2> HIDE DEF i
  <2>1. /\ slots' \in [SlotIds -> SlotStates] /\ \A j \in SlotIds : j # i => slots'[j] = slots[j]
        /\ slots'[i].ns = slots[i].ns /\ slots'[i].open = slots[i].open
        /\ slots'[i].opener = slots[i].opener /\ slots'[i].retired = slots[i].retired
        /\ slots'[i].quiesced = slots[i].quiesced /\ slots'[i].handles = slots[i].handles
        /\ slots'[i].quiescer = slots[i].quiescer /\ slots'[i].task = slots[i].task
        /\ slots'[i].lock = None
    BY <1>2, <1>4, LockWritten
  <2>2. epoch' \in [Namespaces -> Nat] /\ events' \in 0..MaxEvents /\ i = req[r].slot
    BY <1>1 DEF Shape, i
  <2> QED BY SMTT(30), <1>1, <1>2, <1>4, <2>1, <2>2, LockDropped
<1> QED BY <1>1, <1>3, <1>4

\* A recovery that claims the next epoch, or fails.
LEMMA RecoverStep ==
  ASSUME RegInv, NEW r \in Requests, Recover(r)
  PROVE  RegInv'
<1> USE DEF RegInv
<1> DEFINE i == req[r].slot
           n == slots[i].ns
           s == [slots[i] EXCEPT !.epoch = epoch[n] + 1, !.lock = None]
<1>1. /\ req[r].pc = "recover" /\ UNCHANGED <<map, draining, restoring, events>> /\ Finish(r)
      /\ epoch' = [epoch EXCEPT ![n] = @ + 1] /\ slots' = [slots EXCEPT ![i] = s]
  BY DEF Recover
<1>2. i \in SlotIds /\ slots[i].open /\ n \in Namespaces
  BY <1>1, RequestWhat DEF Held, Holding
<1>3. epoch' \in [Namespaces -> Nat] /\ epoch[n] + 1 \in Nat /\ events' \in 0..MaxEvents
  <2> HIDE DEF n
  <2> QED BY <1>1, <1>2 DEF Shape
<1> HIDE DEF n
<1>4. /\ s \in SlotStates
      /\ s.ns = slots[i].ns /\ s.open = slots[i].open
      /\ s.opener = slots[i].opener /\ s.retired = slots[i].retired
      /\ s.quiesced = slots[i].quiesced /\ s.handles = slots[i].handles
      /\ s.quiescer = slots[i].quiescer /\ s.task = slots[i].task /\ s.lock = None
  <2> HIDE DEF i
  <2> QED BY <1>2, <1>3, SlotWhat DEF SlotStates
<1>5. i = req[r].slot
  OBVIOUS
<1> HIDE DEF s, i
<1>6. /\ slots' \in [SlotIds -> SlotStates] /\ \A j \in SlotIds : j # i => slots'[j] = slots[j]
      /\ slots'[i] = s
  BY <1>1, <1>2, <1>4 DEF Shape
<1> QED BY ZenonT(60), <1>1, <1>2, <1>3, <1>4, <1>5, <1>6, LockDropped

\* A reopen that fails gives the mutex back.
LEMMA RecoverFailsStep ==
  ASSUME RegInv, NEW r \in Requests, RecoverFails(r)
  PROVE  RegInv'
<1> USE DEF RegInv
<1> DEFINE i == req[r].slot
<1>1. /\ req[r].pc = "recover" /\ UNCHANGED <<map, draining, restoring, epoch>> /\ Finish(r)
      /\ events < MaxEvents /\ events' = events + 1 /\ slots' = [slots EXCEPT ![i].lock = None]
  BY DEF RecoverFails
<1>2. i \in SlotIds
  BY <1>1, RequestWhat
<1>3. epoch' \in [Namespaces -> Nat] /\ events' \in 0..MaxEvents
  BY <1>1, RegistryAssumption DEF Shape
<1>4. i = req[r].slot
  OBVIOUS
<1> HIDE DEF i
<1>5. /\ slots' \in [SlotIds -> SlotStates] /\ \A j \in SlotIds : j # i => slots'[j] = slots[j]
      /\ slots'[i].ns = slots[i].ns /\ slots'[i].open = slots[i].open
      /\ slots'[i].opener = slots[i].opener /\ slots'[i].retired = slots[i].retired
      /\ slots'[i].quiesced = slots[i].quiesced /\ slots'[i].handles = slots[i].handles
      /\ slots'[i].quiescer = slots[i].quiescer /\ slots'[i].task = slots[i].task
      /\ slots'[i].lock = None
  BY <1>1, <1>2, LockWritten
<1> QED BY <1>1, <1>2, <1>3, <1>4, <1>5, LockDropped

\* quiesce is done already, or aborts the tasks whose handles are still there.
LEMMA QuiesceStep ==
  ASSUME RegInv, NEW r \in Requests, Quiesce(r)
  PROVE  RegInv'
<1> USE DEF RegInv
<1>1. req[r].pc = "drain" /\ UNCHANGED <<map, draining, restoring, epoch, events>>
  BY DEF Quiesce
<1>d. PICK d \in SlotIds : d = req[r].drain
  BY <1>1, RequestWhat DEF Draining
<1> DEFINE task == IF slots[d].handles /\ slots[d].task # "gone" THEN "aborted" ELSE slots[d].task
           s == [slots[d] EXCEPT !.quiescer = r, !.handles = FALSE, !.task = task]
           to == IF slots[d].handles THEN "join" ELSE "lockq"
<1>2. \/ slots[d].quiesced /\ Goto(r, "forget") /\ UNCHANGED slots
      \/ ~slots[d].quiesced /\ Goto(r, to) /\ slots' = [slots EXCEPT ![d] = s]
  BY <1>d DEF Quiesce
<1>3. slots[d].open /\ slots[d].retired
  <2>1. slots[d].retired
    BY <1>1, <1>d DEF Held, Draining
  <2> QED BY <2>1 DEF Life
<1>4. CASE slots[d].quiesced /\ Goto(r, "forget") /\ UNCHANGED slots
  <2>1. "forget" \in Pcs
    BY DEF Pcs
  <2>2. GoesOn(r) /\ Moves(r) /\ req'[r].pc = "forget" /\ req'[r].drain = d
    BY <1>1, <1>d, <1>4, <2>1, GotoWhat DEF GoesOn, Moves, Draining
  <2> QED BY <1>1, <1>4, <2>1, <2>2, GotoWhat, RequestOnly DEF Holding
<1>5. CASE ~slots[d].quiesced /\ Goto(r, to) /\ slots' = [slots EXCEPT ![d] = s]
  <2>1. to \in Pcs /\ to \in {"join", "lockq"}
    BY DEF Pcs
  <2>2. /\ req' \in [Requests -> ReqStates] /\ \A p \in Requests : p # r => req'[p] = req[p]
        /\ GoesOn(r) /\ req'[r].pc \in {"join", "lockq"} /\ req'[r].drain = d
    <3> HIDE DEF to
    <3> QED BY <1>1, <1>d, <1>5, <2>1, GotoWhat DEF GoesOn, Draining
  <2>3. task \in {"none", "idle", "locked", "recover", "aborted", "gone"}
    BY SlotWhat
  <2>4. task \in {"aborted", "gone"} /\ (slots[d].lock = "task" => task = "aborted")
    BY <1>3 DEF Life
  <2> HIDE DEF task
  <2>5. /\ s \in SlotStates /\ s.ns = slots[d].ns /\ s.open = slots[d].open
        /\ s.opener = slots[d].opener /\ s.retired = slots[d].retired
        /\ s.quiesced = slots[d].quiesced /\ s.handles = FALSE
        /\ s.quiescer = r /\ s.task = task /\ s.lock = slots[d].lock
    BY <2>3, SlotWhat DEF SlotStates
  <2> HIDE DEF s
  <2>6. /\ slots' \in [SlotIds -> SlotStates] /\ \A j \in SlotIds : j # d => slots'[j] = slots[j]
        /\ slots'[d] = s
    BY <1>5, <2>5 DEF Shape
  <2>7. epoch' \in [Namespaces -> Nat] /\ events' \in 0..MaxEvents
    BY <1>1 DEF Shape
  <2>8. slots[d].lock # r
    BY <1>1 DEF Owners
  <2>9. Edited(d)
    BY <2>5, <2>6 DEF Edited
  <2>10. StaysSane(d)
    BY <1>3, <1>5, <2>4, <2>5, <2>6 DEF StaysSane
  <2>11. Turn(r, d)
    BY <1>1, <1>d, <2>2, <2>5, <2>6, <2>8 DEF Turn, Holding
  <2> QED BY <1>1, <1>3, <2>7, <2>9, <2>10, <2>11, OneSlot
<1> QED BY <1>2, <1>4, <1>5

\* The mutex was free once: the incarnation is quiesced.
LEMMA QuiesceLockStep ==
  ASSUME RegInv, NEW r \in Requests, QuiesceLock(r)
  PROVE  RegInv'
<1> USE DEF RegInv
<1>1. /\ req[r].pc = "lockq" /\ UNCHANGED <<map, draining, restoring, epoch, events>>
      /\ slots[req[r].drain].lock = None /\ Goto(r, "forget")
      /\ slots' = [slots EXCEPT ![req[r].drain].quiesced = TRUE, ![req[r].drain].quiescer = None]
  BY DEF QuiesceLock
<1>d. PICK d \in SlotIds : d = req[r].drain
  BY <1>1, RequestWhat DEF Draining
<1>2. slots[d].open /\ slots[d].retired /\ ~slots[d].handles /\ slots[d].lock = None
  <2>1. slots[d].retired /\ ~slots[d].handles /\ slots[d].lock = None
    BY <1>1, <1>d DEF Held, Draining
  <2> QED BY <2>1 DEF Life
<1>3. "forget" \in Pcs /\ None \notin Requests /\ None # "task"
  BY RegistryAssumption DEF Pcs
<1>4. /\ req' \in [Requests -> ReqStates] /\ \A p \in Requests : p # r => req'[p] = req[p]
      /\ GoesOn(r) /\ req'[r].pc = "forget" /\ req'[r].drain = d
  BY <1>1, <1>d, <1>3, GotoWhat DEF GoesOn, Draining
<1>5. /\ slots' \in [SlotIds -> SlotStates] /\ \A j \in SlotIds : j # d => slots'[j] = slots[j]
      /\ slots'[d].ns = slots[d].ns /\ slots'[d].open = slots[d].open
      /\ slots'[d].opener = slots[d].opener /\ slots'[d].retired = slots[d].retired
      /\ slots'[d].quiesced = TRUE /\ slots'[d].handles = slots[d].handles
      /\ slots'[d].quiescer = None /\ slots'[d].task = slots[d].task
      /\ slots'[d].lock = slots[d].lock
  <2>1. slots' = [slots EXCEPT ![d].quiesced = TRUE, ![d].quiescer = None]
    BY <1>1, <1>d
  <2> QED BY ZenonT(60), <2>1, SlotWhat DEF Shape, SlotStates
<1>6. /\ epoch' \in [Namespaces -> Nat] /\ events' \in 0..MaxEvents
      /\ slots[d].task \in {"aborted", "gone"}
  BY <1>1, <1>2 DEF Shape, Life
<1>7. Edited(d)
  BY <1>5 DEF Edited
<1>8. StaysSane(d)
  BY <1>2, <1>3, <1>5, <1>6 DEF StaysSane
<1>9. Turn(r, d)
  <2>1. req[r].pc = "lockq" /\ req[r].drain = d
    BY <1>1, <1>d
  <2>2. slots'[d].lock = None /\ slots'[d].quiescer = None /\ slots'[d].quiesced
    BY <1>2, <1>5
  <2> QED BY <1>3, <1>4, <2>1, <2>2 DEF Turn, Holding
<1> QED BY <1>1, <1>2, <1>6, <1>7, <1>8, <1>9, OneSlot

\* Another process's claim changes nothing the registry keeps.
LEMMA PeerClaimStep ==
  ASSUME RegInv, NEW n \in Namespaces, PeerClaim(n)
  PROVE  RegInv'
<1> USE DEF RegInv
<1>1. /\ UNCHANGED <<slots, map, draining, restoring, req>> /\ events < MaxEvents
      /\ events' = events + 1 /\ epoch' = [epoch EXCEPT ![n] = @ + 1]
  BY DEF PeerClaim
<1>2. events' \in 0..MaxEvents /\ epoch' \in [Namespaces -> Nat]
  BY <1>1, RegistryAssumption DEF Shape
<1>3. Shape'
  BY <1>1, <1>2 DEF Shape
<1>4. Held' /\ Owners' /\ Life'
  BY <1>1 DEF Held, Owners, Life, Opens, HttpHolds
<1>5. Order' /\ Drained' /\ Alone' /\ Bounded'
  BY <1>1 DEF Order, Drained, Alone, Bounded, Opens, Mapped
<1> QED BY <1>3, <1>4, <1>5

\* The guard of a restore is dropped.
LEMMA EndRestoreStep ==
  ASSUME RegInv, NEW n \in Namespaces, EndRestore(n)
  PROVE  RegInv'
<1> USE DEF RegInv
<1>1. UNCHANGED <<slots, map, draining, req, epoch, events>> /\ restoring' = restoring \ {n}
  BY DEF EndRestore
<1>2. Shape' /\ Held' /\ Owners' /\ Life'
  BY <1>1 DEF Shape, Held, Owners, Life, Opens, HttpHolds
<1>3. Order' /\ Drained' /\ Alone' /\ Bounded'
  BY <1>1 DEF Order, Drained, Alone, Bounded, Opens, Mapped
<1> QED BY <1>2, <1>3

\* A restore begins where nothing is open, opening or draining.
LEMMA BeginRestoreStep ==
  ASSUME RegInv, NEW n \in Namespaces, BeginRestore(n)
  PROVE  RegInv'
<1> USE DEF RegInv
<1>1. /\ UNCHANGED <<slots, draining, req, epoch>> /\ map' = [map EXCEPT ![n] = None]
      /\ map[n] = None \/ Abandoned(map[n])
      /\ events < MaxEvents /\ events' = events + 1
      /\ restoring' = IF draining[n] = None THEN restoring \cup {n} ELSE restoring
  BY DEF BeginRestore
<1>2. /\ map \in [Namespaces -> SlotIds \cup {None}] /\ None \notin SlotIds
      /\ events' \in 0..MaxEvents
  BY <1>1, RegistryAssumption DEF Shape
<1>3. /\ map' \in [Namespaces -> SlotIds \cup {None}] /\ map'[n] = None
      /\ \A m \in Namespaces : m # n => map'[m] = map[m]
  BY <1>1, <1>2
<1>4. Shape'
  BY <1>1, <1>2, <1>3 DEF Shape
<1>5. Held' /\ Owners' /\ Life'
  BY <1>1 DEF Held, Owners, Life, Opens, HttpHolds
<1>6. Order'
  <2>1. \A i \in SlotIds : slots[i].open /\ ~slots[i].retired => map'[slots[i].ns] = i
    <3> SUFFICES ASSUME NEW i \in SlotIds, slots[i].open, ~slots[i].retired
                 PROVE  map'[slots[i].ns] = i
      OBVIOUS
    <3>1. map[slots[i].ns] = i /\ slots[i].ns \in Namespaces
      BY SlotWhat DEF Order, Life
    <3>2. slots[i].ns # n
      BY <1>1, <1>2, <3>1 DEF Abandoned
    <3> QED BY <1>3, <3>1, <3>2
  <2>2. \A r \in Requests : req[r].slot # None /\ ~slots[req[r].slot].open
                              => map'[req[r].ns] = req[r].slot
    <3> SUFFICES ASSUME NEW r \in Requests, req[r].slot # None, ~slots[req[r].slot].open
                 PROVE  map'[req[r].ns] = req[r].slot
      OBVIOUS
    <3>1. map[req[r].ns] = req[r].slot /\ req[r].ns \in Namespaces
      BY RequestWhat DEF Order, Held
    <3>2. req[r].ns # n
      BY <1>1, <1>2, <3>1 DEF Abandoned
    <3> QED BY <1>3, <3>1, <3>2
  <2>3. \A m \in Namespaces : map'[m] # None =>
          /\ slots[map'[m]].ns = m /\ ~slots[map'[m]].retired
          /\ \A j \in SlotIds : slots[j].ns = m => j <= map'[m]
    BY <1>3 DEF Order
  <2> QED BY <1>1, <2>1, <2>2, <2>3 DEF Order
<1>7. Drained'
  BY <1>1 DEF Drained, Opens
<1>8. Alone'
  BY <1>1, <1>3 DEF Alone, Shape
<1>9. Bounded'
  <2>1. Mapped' = Mapped \ {n}
    BY <1>3 DEF Mapped
  <2>2. IsFiniteSet(Mapped) /\ Cardinality(Mapped) <= Cap
    BY DEF Bounded
  <2>3. IsFiniteSet(Mapped \ {n}) /\ Cardinality(Mapped \ {n}) <= Cardinality(Mapped)
    BY <2>2, FS_Subset
  <2>4. Cardinality(Mapped) \in Nat /\ Cardinality(Mapped \ {n}) \in Nat
    BY <2>2, <2>3, FS_CardinalityType
  <2> QED BY <2>1, <2>2, <2>3, <2>4, RegistryAssumption DEF Bounded
<1> QED BY <1>4, <1>5, <1>6, <1>7, <1>8, <1>9

\* Nothing changes at slot i but the initialiser or the quiescer, if it is r.
Left(r, i) ==
  /\ slots'[i].ns = slots[i].ns /\ slots'[i].open = slots[i].open
  /\ slots'[i].retired = slots[i].retired /\ slots'[i].quiesced = slots[i].quiesced
  /\ slots'[i].handles = slots[i].handles /\ slots'[i].lock = slots[i].lock
  /\ slots'[i].task = slots[i].task
  /\ slots'[i].opener = IF slots[i].opener = r THEN None ELSE slots[i].opener
  /\ slots'[i].quiescer = slots[i].quiescer \/ slots'[i].quiescer = None
  /\ slots'[i].quiescer # r

\* A request inside get_or_open ends, and what it had begun is handed back.
LEMMA LeaverStep ==
  ASSUME RegInv, NEW r \in Requests, Finish(r), slots' \in [SlotIds -> SlotStates],
         req[r].pc \notin {"locked", "recover"}, UNCHANGED <<map, draining, restoring>>,
         epoch' \in [Namespaces -> Nat], events' \in 0..MaxEvents,
         \A i \in SlotIds : Left(r, i)
  PROVE  RegInv'
<1> USE DEF RegInv, Left
<1>1. /\ req' \in [Requests -> ReqStates] /\ \A p \in Requests : p # r => req'[p] = req[p]
      /\ req'[r].pc = "idle" /\ req'[r].slot = None
  BY FinishWhat
<1>2. None \notin SlotIds /\ None \notin Requests
  BY RegistryAssumption
<1>3. /\ \A n \in Namespaces : map[n] \in SlotIds \cup {None} /\ draining[n] \in SlotIds \cup {None}
      /\ \A p \in Requests : req[p].slot \in SlotIds \cup {None} /\ req[p].drain \in SlotIds \cup {None}
  BY DEF Shape, ReqStates
<1>4. \A p \in Requests : Opens(p)' => p # r /\ Opens(p) /\ req'[p] = req[p]
  <2> SUFFICES ASSUME NEW p \in Requests, Opens(p)' PROVE p # r /\ Opens(p) /\ req'[p] = req[p]
    OBVIOUS
  <2>1. p # r
    BY <1>1 DEF Opens, Draining
  <2> QED BY <1>1, <2>1 DEF Opens
<1>5. Shape'
  BY <1>1 DEF Shape
<1>6. Held'
  <2> SUFFICES ASSUME NEW p \in Requests
               PROVE  /\ req'[p].pc \in {"idle", "insert"} <=> req'[p].slot = None
                      /\ req'[p].pc # "idle" => req'[p].ns # None
                      /\ req'[p].slot # None => slots'[req'[p].slot].ns = req'[p].ns
                      /\ req'[p].pc \in Holding => slots'[req'[p].slot].open
                      /\ req'[p].pc = "prepared" => req'[p].kind = "compact"
                      /\ req'[p].pc \in Draining =>
                           /\ req'[p].drain # None /\ slots'[req'[p].drain].retired
                           /\ req'[p].then \in {"init", "claim"}
                      /\ req'[p].pc \in {"join", "lockq"} => ~slots'[req'[p].drain].handles
                      /\ req'[p].pc = "forget" => slots'[req'[p].drain].quiesced
                      /\ Opens(p)' => slots'[req'[p].slot].opener = p
    BY DEF Held
  <2>1. CASE p = r
    BY <1>1, <1>4, <2>1 DEF Draining, Holding
  <2>2. CASE p # r
    <3>1. req'[p] = req[p]
      BY <1>1, <2>2
    <3>2. Opens(p)' => slots'[req'[p].slot].opener = p
      <4> SUFFICES ASSUME Opens(p)' PROVE slots'[req[p].slot].opener = p
        BY <3>1
      <4>1. Opens(p) /\ req[p].pc \notin {"idle", "insert"}
        BY <1>4 DEF Opens, Draining
      <4>2. slots[req[p].slot].opener = p /\ req[p].slot \in SlotIds
        BY <4>1, RequestWhat DEF Held
      <4> QED BY <4>2, <2>2
    <3>3. /\ req[p].pc \in Draining => req[p].drain \in SlotIds
          /\ req[p].pc \in Holding => req[p].slot \in SlotIds
      BY RequestWhat DEF Holding
    <3>4. /\ req[p].pc \in {"join", "lockq"} => ~slots'[req[p].drain].handles
          /\ req[p].pc = "forget" => slots'[req[p].drain].quiesced
          /\ req[p].pc \in Draining => slots'[req[p].drain].retired
      BY <3>3 DEF Held, Draining
    <3>5. /\ req[p].slot # None => slots'[req[p].slot].ns = req[p].ns
          /\ req[p].pc \in Holding => slots'[req[p].slot].open
      BY <1>3, <3>3 DEF Held
    <3> QED BY <3>1, <3>2, <3>4, <3>5 DEF Held
  <2> QED BY <2>1, <2>2
<1>7. Owners'
  <2> SUFFICES ASSUME NEW i \in SlotIds, NEW p \in Requests
               PROVE /\ slots'[i].opener = p => req'[p].slot = i /\ Opens(p)'
                     /\ slots'[i].quiescer = p => req'[p].drain = i /\ req'[p].pc \in {"join", "lockq"}
                     /\ slots'[i].lock = p => req'[p].slot = i /\ req'[p].pc \in {"locked", "recover"}
    BY DEF Owners
  <2>1. p # r => (Opens(p)' <=> Opens(p))
    BY <1>1 DEF Opens
  <2>2. slots'[i].opener = p => p # r /\ slots[i].opener = p
    BY <1>2
  <2>3. slots'[i].lock = p => p # r /\ slots[i].lock = p
    BY DEF Owners
  <2>4. slots'[i].quiescer = p => p # r /\ slots[i].quiescer = p
    BY <1>2
  <2> QED BY <1>1, <2>1, <2>2, <2>3, <2>4 DEF Owners
<1>8. Life'
  <2>1. \A i \in SlotIds : HttpHolds(i)' => HttpHolds(i)
    BY <1>1 DEF HttpHolds, Owners
  <2> QED BY <1>2, <2>1 DEF Life
<1>9. Order'
  <2>1. \A p \in Requests : req'[p].slot # None /\ ~slots'[req'[p].slot].open
                              => map'[req'[p].ns] = req'[p].slot
    BY <1>1, <1>3 DEF Order
  <2>2. \A n \in Namespaces : map'[n] # None =>
          /\ slots'[map'[n]].ns = n /\ ~slots'[map'[n]].retired
          /\ \A j \in SlotIds : slots'[j].ns = n => j <= map'[n]
    BY <1>3 DEF Order
  <2> QED BY <2>1, <2>2 DEF Order
<1>10. Drained'
  <2>1. \A n \in Namespaces : draining'[n] # None =>
          slots'[draining'[n]].ns = n /\ slots'[draining'[n]].retired
    BY <1>3 DEF Drained
  <2>2. \A p \in Requests : Opens(p)' =>
          /\ req'[p].pc = "claim" => draining'[req'[p].ns] = None
          /\ req'[p].pc # "claim" => draining'[req'[p].ns] \in {None, req'[p].drain}
                                       /\ slots'[req'[p].drain].ns = req'[p].ns
    <3> SUFFICES ASSUME NEW p \in Requests, Opens(p)'
                 PROVE /\ req[p].pc = "claim" => draining[req[p].ns] = None
                       /\ req[p].pc # "claim" => draining[req[p].ns] \in {None, req[p].drain}
                                       /\ slots'[req[p].drain].ns = req[p].ns
      BY <1>4
    <3>1. Opens(p) /\ (req[p].pc # "claim" => req[p].drain \in SlotIds)
      BY <1>4, RequestWhat DEF Opens
    <3> QED BY <3>1 DEF Drained
  <2>3. \A i \in SlotIds : slots'[i].retired /\ ~slots'[i].quiesced => draining'[slots'[i].ns] = i
    BY DEF Drained
  <2>4. \A i, j \in SlotIds : i < j /\ slots'[i].open /\ slots'[j].open
                                /\ slots'[i].ns = slots'[j].ns => slots'[i].quiesced
    BY DEF Drained
  <2> QED BY <2>1, <2>2, <2>3, <2>4 DEF Drained
<1>11. Alone' /\ Bounded'
  BY DEF Alone, Bounded, Mapped
<1> QED BY <1>5, <1>6, <1>7, <1>8, <1>9, <1>10, <1>11

\* A failed open hands the cell back.
LEMMA ClaimFailsStep ==
  ASSUME RegInv, NEW r \in Requests, ClaimFails(r)
  PROVE  RegInv'
<1> USE DEF RegInv
<1>1. /\ req[r].pc = "claim" /\ events < MaxEvents /\ events' = events + 1 /\ Finish(r)
      /\ UNCHANGED <<map, draining, restoring>>
      /\ slots' = [slots EXCEPT ![req[r].slot].opener = None]
  BY DEF ClaimFails
<1>2. PICK i \in SlotIds : i = req[r].slot
  BY <1>1, RequestWhat
<1>3. epoch' \in [Namespaces -> Nat] /\ events' \in 0..MaxEvents
  <2>1. PICK landed \in 0..1 : epoch' = [epoch EXCEPT ![req[r].ns] = @ + landed]
    BY DEF ClaimFails
  <2>2. req[r].ns \in Namespaces
    BY <1>1, RequestWhat
  <2> QED BY <1>1, <2>1, <2>2, RegistryAssumption DEF Shape
<1>4. /\ slots' \in [SlotIds -> SlotStates] /\ \A j \in SlotIds : j # i => slots'[j] = slots[j]
      /\ slots'[i].ns = slots[i].ns /\ slots'[i].open = slots[i].open
      /\ slots'[i].retired = slots[i].retired /\ slots'[i].quiesced = slots[i].quiesced
      /\ slots'[i].handles = slots[i].handles /\ slots'[i].lock = slots[i].lock
      /\ slots'[i].task = slots[i].task /\ slots'[i].quiescer = slots[i].quiescer
      /\ slots'[i].opener = None
  <2>1. slots' = [slots EXCEPT ![i].opener = None]
    BY <1>1, <1>2
  <2> QED BY <2>1, SlotWhat DEF Shape, SlotStates
<1>5. slots[i].opener = r /\ \A j \in SlotIds : (slots[j].opener = r => j = i) /\ slots[j].quiescer # r
  BY <1>1, <1>2 DEF Held, Owners, Opens
<1>6. None \notin Requests /\ \A j \in SlotIds : Left(r, j)
  <2>1. None \notin Requests
    BY RegistryAssumption
  <2>2. \A j \in SlotIds : j # i => Left(r, j)
    BY <1>4, <1>5 DEF Left
  <2>3. Left(r, i)
    BY <1>4, <1>5 DEF Left
  <2> QED BY <2>1, <2>2, <2>3
<1> QED BY <1>1, <1>3, <1>4, <1>6, LeaverStep

\* A client goes away inside get_or_open.
LEMMA DisconnectStep ==
  ASSUME RegInv, NEW r \in Requests, Disconnect(r)
  PROVE  RegInv'
<1> USE DEF RegInv
<1>1. /\ req[r].pc \in {"insert", "drain", "join", "lockq", "forget", "init", "claim"}
      /\ Finish(r) /\ UNCHANGED <<map, draining, restoring, epoch, events>>
      /\ slots' = [i \in SlotIds |->
                    [slots[i] EXCEPT !.opener = IF @ = r THEN None ELSE @,
                                     !.quiescer = IF @ = r THEN None ELSE @]]
  BY DEF Disconnect
<1>2. epoch' \in [Namespaces -> Nat] /\ events' \in 0..MaxEvents /\ None \notin Requests
  BY <1>1, RegistryAssumption DEF Shape
<1>3. \A i \in SlotIds :
           /\ slots'[i] \in SlotStates
           /\ slots'[i].ns = slots[i].ns /\ slots'[i].open = slots[i].open
           /\ slots'[i].retired = slots[i].retired /\ slots'[i].quiesced = slots[i].quiesced
           /\ slots'[i].handles = slots[i].handles /\ slots'[i].lock = slots[i].lock
           /\ slots'[i].task = slots[i].task
           /\ slots'[i].opener = IF slots[i].opener = r THEN None ELSE slots[i].opener
           /\ slots'[i].quiescer = IF slots[i].quiescer = r THEN None ELSE slots[i].quiescer
  <2> SUFFICES ASSUME NEW i \in SlotIds
      PROVE
           /\ slots'[i] \in SlotStates
           /\ slots'[i].ns = slots[i].ns /\ slots'[i].open = slots[i].open
           /\ slots'[i].retired = slots[i].retired /\ slots'[i].quiesced = slots[i].quiesced
           /\ slots'[i].handles = slots[i].handles /\ slots'[i].lock = slots[i].lock
           /\ slots'[i].task = slots[i].task
           /\ slots'[i].opener = IF slots[i].opener = r THEN None ELSE slots[i].opener
           /\ slots'[i].quiescer = IF slots[i].quiescer = r THEN None ELSE slots[i].quiescer
    OBVIOUS
  <2> DEFINE o == IF slots[i].opener = r THEN None ELSE slots[i].opener
             q == IF slots[i].quiescer = r THEN None ELSE slots[i].quiescer
             s == [slots[i] EXCEPT !.opener = o, !.quiescer = q]
  <2>1. o \in Requests \cup {None} /\ q \in Requests \cup {None}
    BY SlotWhat
  <2>2. slots'[i] = s
    BY <1>1
  <2> HIDE DEF o, q
  <2>3. /\ s \in SlotStates /\ s.ns = slots[i].ns /\ s.open = slots[i].open
        /\ s.retired = slots[i].retired /\ s.quiesced = slots[i].quiesced
        /\ s.handles = slots[i].handles /\ s.lock = slots[i].lock
        /\ s.task = slots[i].task /\ s.opener = o /\ s.quiescer = q
    BY <2>1, SlotWhat DEF SlotStates
  <2> HIDE DEF s
  <2> QED BY <2>2, <2>3 DEF o, q
<1>4. slots' \in [SlotIds -> SlotStates]
  <2>1. slots' = [i \in SlotIds |-> slots'[i]]
    BY <1>1
  <2> QED BY <1>3, <2>1
<1>5. \A i \in SlotIds : Left(r, i)
  BY <1>2, <1>3 DEF Left
<1> QED BY <1>1, <1>2, <1>4, <1>5, LeaverStep

\* The request r changes nothing but where it is, its slot, what it drains and
\* what for.
Routed(r, pc, slot, drain, then) ==
  /\ req' \in [Requests -> ReqStates] /\ \A p \in Requests : p # r => req'[p] = req[p]
  /\ req'[r].pc = pc /\ req'[r].slot = slot /\ req'[r].drain = drain /\ req'[r].then = then
  /\ req'[r].kind = req[r].kind /\ req'[r].ns = req[r].ns

\* The request of Forget leaves its drain behind.
LEMMA ForgetRoutes ==
  ASSUME Shape, NEW r \in Requests, NEW pc \in Pcs,
         req' = [req EXCEPT ![r].pc = pc, ![r].drain = None]
  PROVE  Routed(r, pc, req[r].slot, None, req[r].then)
<1> DEFINE q == [req[r] EXCEPT !.pc = pc, !.drain = None]
<1>1. req[r] \in ReqStates /\ req \in [Requests -> ReqStates]
  BY DEF Shape
<1>2. /\ q \in ReqStates /\ q.pc = pc /\ q.drain = None /\ q.slot = req[r].slot
      /\ q.then = req[r].then /\ q.kind = req[r].kind /\ q.ns = req[r].ns
  BY <1>1 DEF ReqStates
<1>3. req' = [req EXCEPT ![r] = q]
  OBVIOUS
<1> HIDE DEF q
<1>4. /\ req' \in [Requests -> ReqStates] /\ req'[r] = q
      /\ \A p \in Requests : p # r => req'[p] = req[p]
  BY ONLY <1>1, <1>2, <1>3, r \in Requests
<1> QED BY ONLY <1>2, <1>4 DEF Routed

\* The initialiser of a cell goes to drain or to claim.
LEMMA InitRoutes ==
  ASSUME Shape, NEW r \in Requests, NEW pc \in Pcs, NEW d \in SlotIds \cup {None},
         req' = [req EXCEPT ![r].pc = pc, ![r].drain = d, ![r].then = "claim"]
  PROVE  Routed(r, pc, req[r].slot, d, "claim")
<1> DEFINE q == [req[r] EXCEPT !.pc = pc, !.drain = d, !.then = "claim"]
<1>1. req[r] \in ReqStates /\ req \in [Requests -> ReqStates]
  BY DEF Shape
<1>2. /\ q \in ReqStates /\ q.pc = pc /\ q.drain = d /\ q.slot = req[r].slot
      /\ q.then = "claim" /\ q.kind = req[r].kind /\ q.ns = req[r].ns
  BY <1>1 DEF ReqStates
<1>3. req' = [req EXCEPT ![r] = q]
  OBVIOUS
<1> HIDE DEF q
<1>4. /\ req' \in [Requests -> ReqStates] /\ req'[r] = q
      /\ \A p \in Requests : p # r => req'[p] = req[p]
  BY ONLY <1>1, <1>2, <1>3, r \in Requests
<1> QED BY ONLY <1>2, <1>4 DEF Routed

\* insert_slot without a victim to drain.
LEMMA InsertRoutes ==
  ASSUME Shape, NEW r \in Requests, NEW f \in SlotIds,
         req' = [req EXCEPT ![r].pc = "init", ![r].slot = f]
  PROVE  Routed(r, "init", f, req[r].drain, req[r].then)
<1> DEFINE q == [req[r] EXCEPT !.pc = "init", !.slot = f]
<1>1. req[r] \in ReqStates /\ req \in [Requests -> ReqStates]
  BY DEF Shape
<1>2. /\ q \in ReqStates /\ q.pc = "init" /\ q.drain = req[r].drain /\ q.slot = f
      /\ q.then = req[r].then /\ q.kind = req[r].kind /\ q.ns = req[r].ns
  BY <1>1 DEF ReqStates, Pcs
<1>3. req' = [req EXCEPT ![r] = q]
  OBVIOUS
<1> HIDE DEF q
<1>4. /\ req' \in [Requests -> ReqStates] /\ req'[r] = q
      /\ \A p \in Requests : p # r => req'[p] = req[p]
  BY ONLY <1>1, <1>2, <1>3, r \in Requests
<1> QED BY ONLY <1>2, <1>4 DEF Routed

\* insert_slot with a victim to drain.
LEMMA EvictRoutes ==
  ASSUME Shape, NEW r \in Requests, NEW f \in SlotIds, NEW d \in SlotIds,
         req' = [req EXCEPT ![r].pc = "drain", ![r].slot = f, ![r].drain = d, ![r].then = "init"]
  PROVE  Routed(r, "drain", f, d, "init")
<1> DEFINE q == [req[r] EXCEPT !.pc = "drain", !.slot = f, !.drain = d, !.then = "init"]
<1>1. req[r] \in ReqStates /\ req \in [Requests -> ReqStates]
  BY DEF Shape
<1>2. /\ q \in ReqStates /\ q.pc = "drain" /\ q.drain = d /\ q.slot = f
      /\ q.then = "init" /\ q.kind = req[r].kind /\ q.ns = req[r].ns
  BY <1>1 DEF ReqStates, Pcs
<1>3. req' = [req EXCEPT ![r] = q]
  OBVIOUS
<1> HIDE DEF q
<1>4. /\ req' \in [Requests -> ReqStates] /\ req'[r] = q
      /\ \A p \in Requests : p # r => req'[p] = req[p]
  BY ONLY <1>1, <1>2, <1>3, r \in Requests
<1> QED BY ONLY <1>2, <1>4 DEF Routed

\* The drained incarnation leaves the draining map, and its request goes on.
LEMMA ForgetStep ==
  ASSUME RegInv, NEW r \in Requests, Forget(r)
  PROVE  RegInv'
<1> USE DEF RegInv
<1>1. /\ req[r].pc = "forget" /\ UNCHANGED <<slots, map, restoring, epoch, events>>
      /\ draining' = [draining EXCEPT ![slots[req[r].drain].ns] =
                                        IF @ = req[r].drain THEN None ELSE @]
      /\ req' = [req EXCEPT ![r].pc = req[r].then, ![r].drain = None]
  BY DEF Forget
<1>2. PICK d \in SlotIds : d = req[r].drain
  BY <1>1, RequestWhat DEF Draining
<1>3. PICK n \in Namespaces : n = slots[d].ns
  <2>1. slots[d].retired
    BY <1>1, <1>2 DEF Held, Draining
  <2>2. slots[d].ns # None
    BY <2>1 DEF Life
  <2> QED BY <2>2, SlotWhat
<1>4. /\ slots[d].quiesced /\ req[r].then \in {"init", "claim"} /\ None \notin SlotIds
      /\ req[r].slot \in SlotIds
  BY <1>1, <1>2, RequestWhat, RegistryAssumption DEF Held, Draining
<1>5. /\ draining' \in [Namespaces -> SlotIds \cup {None}]
      /\ \A m \in Namespaces : m # n => draining'[m] = draining[m]
      /\ draining'[n] = IF draining[n] = d THEN None ELSE draining[n]
  <2>1. draining' = [draining EXCEPT ![n] = IF @ = d THEN None ELSE @]
    BY <1>1, <1>2, <1>3
  <2> QED BY <2>1 DEF Shape
<1>6. /\ req' \in [Requests -> ReqStates] /\ \A p \in Requests : p # r => req'[p] = req[p]
      /\ req'[r].pc = req[r].then /\ req'[r].slot = req[r].slot /\ req'[r].ns = req[r].ns
      /\ req'[r].kind = req[r].kind
  <2>1. req[r].then \in Pcs
    BY <1>4 DEF Pcs
  <2> QED BY <1>1, <2>1, ForgetRoutes DEF Routed
<1>7. \A p \in Requests : Opens(p)' <=> Opens(p)
  <2>1. \A p \in Requests : p # r => (Opens(p)' <=> Opens(p))
    BY <1>6 DEF Opens
  <2>2. Opens(r)' <=> Opens(r)
    BY <1>1, <1>4, <1>6 DEF Opens, Draining
  <2> QED BY <2>1, <2>2
<1>8. Shape'
  BY <1>1, <1>5, <1>6 DEF Shape
<1>9. Held'
  <2> SUFFICES ASSUME NEW p \in Requests
               PROVE  /\ req'[p].pc \in {"idle", "insert"} <=> req'[p].slot = None
                      /\ req'[p].pc # "idle" => req'[p].ns # None
                      /\ req'[p].slot # None => slots[req'[p].slot].ns = req'[p].ns
                      /\ req'[p].pc \in Holding => slots[req'[p].slot].open
                      /\ req'[p].pc = "prepared" => req'[p].kind = "compact"
                      /\ req'[p].pc \in Draining =>
                           /\ req'[p].drain # None /\ slots[req'[p].drain].retired
                           /\ req'[p].then \in {"init", "claim"}
                      /\ req'[p].pc \in {"join", "lockq"} => ~slots[req'[p].drain].handles
                      /\ req'[p].pc = "forget" => slots[req'[p].drain].quiesced
                      /\ Opens(p)' => slots[req'[p].slot].opener = p
    BY ZenonT(60), <1>1 DEF Held
  <2>1. Opens(p)' => slots[req'[p].slot].opener = p
    BY <1>6, <1>7 DEF Held
  <2>2. CASE p # r
    BY <1>6, <2>1, <2>2 DEF Held
  <2>3. CASE p = r
    <3>1. req'[r].pc \in {"init", "claim"} /\ req[r].slot # None /\ req[r].ns # None
      BY <1>1, <1>4, <1>6 DEF Held
    <3> QED BY <1>6, <2>1, <2>3, <3>1 DEF Held, Draining, Holding
  <2> QED BY <2>2, <2>3
<1>10. Owners'
  <2>1. \A i \in SlotIds : slots[i].quiescer # r /\ slots[i].lock # r
    BY <1>1 DEF Owners
  <2> QED BY <1>1, <1>6, <1>7, <2>1 DEF Owners
<1>11. Life'
  <2>1. \A i \in SlotIds : HttpHolds(i)' => HttpHolds(i)
    BY <1>1, <1>6 DEF HttpHolds
  <2> QED BY <1>1, <2>1 DEF Life
<1>12. Order'
  BY <1>1, <1>6 DEF Order
<1>13. Drained'
  <2>1. \A m \in Namespaces : draining'[m] # None =>
          slots[draining'[m]].ns = m /\ slots[draining'[m]].retired
    BY <1>5 DEF Drained
  <2>2. \A i \in SlotIds : slots[i].retired /\ ~slots[i].quiesced => draining'[slots[i].ns] = i
    <3> SUFFICES ASSUME NEW i \in SlotIds, slots[i].retired, ~slots[i].quiesced
                 PROVE  draining'[slots[i].ns] = i
      OBVIOUS
    <3>1. slots[i].ns \in Namespaces /\ draining[slots[i].ns] = i /\ i # d
      BY <1>4, SlotWhat DEF Life, Drained
    <3> QED BY <1>5, <3>1
  <2>3. \A p \in Requests : Opens(p) =>
          /\ req'[p].pc = "claim" => draining'[req'[p].ns] = None
          /\ req'[p].pc # "claim" => draining'[req'[p].ns] \in {None, req'[p].drain}
                                       /\ slots[req'[p].drain].ns = req'[p].ns
    <3> SUFFICES ASSUME NEW p \in Requests, Opens(p)
                 PROVE /\ req'[p].pc = "claim" => draining'[req'[p].ns] = None
                       /\ req'[p].pc # "claim" => draining'[req'[p].ns] \in {None, req'[p].drain}
                                       /\ slots[req'[p].drain].ns = req'[p].ns
      OBVIOUS
    <3>1. req[p].ns \in Namespaces
      BY RequestWhat DEF Opens, Draining
    <3>2. draining'[req[p].ns] \in {None, draining[req[p].ns]}
      BY <1>5, <3>1
    <3>3. CASE p # r
      BY <1>6, <3>2, <3>3 DEF Drained
    <3>4. CASE p = r
      <4>1. req[r].then = "claim" /\ req[r].pc # "claim"
        BY <1>1, <3>4 DEF Opens
      <4>2. draining[req[r].ns] \in {None, d} /\ req[r].ns = n
        BY <1>2, <1>3, <3>4, <4>1 DEF Drained
      <4> QED BY <1>5, <1>6, <3>4, <4>1, <4>2
    <3> QED BY <3>3, <3>4
  <2>4. \A i, j \in SlotIds : i < j /\ slots[i].open /\ slots[j].open /\ slots[i].ns = slots[j].ns
                             => slots[i].quiesced
    BY DEF Drained
  <2> QED BY ZenonT(60), <1>1, <1>7, <2>1, <2>2, <2>3, <2>4 DEF Drained
<1>14. Alone'
  BY <1>1, <1>5 DEF Alone, Shape
<1>15. Bounded'
  BY <1>1 DEF Bounded, Mapped
<1> QED BY <1>8, <1>9, <1>10, <1>11, <1>12, <1>13, <1>14, <1>15

\* get_or_try_init: the cell is open, or r becomes its initialiser and first
\* drains the incarnation it finds in the draining map.
LEMMA InitSlotStep ==
  ASSUME RegInv, NEW r \in Requests, InitSlot(r)
  PROVE  RegInv'
<1> USE DEF RegInv
<1>1. req[r].pc = "init" /\ UNCHANGED <<map, draining, restoring, epoch, events>>
  BY DEF InitSlot
<1>2. PICK i \in SlotIds : i = req[r].slot
  BY <1>1, RequestWhat
<1>3. PICK n \in Namespaces : n = req[r].ns
  BY <1>1, RequestWhat
<1>4. CASE slots[i].open /\ Goto(r, "have") /\ UNCHANGED slots
  <2>1. "have" \in Pcs
    BY DEF Pcs
  <2>2. GoesOn(r) /\ Moves(r) /\ req'[r].pc = "have" /\ req'[r].slot = i
    BY <1>1, <1>2, <1>4, <2>1, GotoWhat DEF GoesOn, Moves, Draining
  <2> QED BY <1>1, <1>4, <2>1, <2>2, GotoWhat, RequestOnly
<1>5. CASE /\ ~slots[i].open /\ slots[i].opener = None
           /\ slots' = [slots EXCEPT ![i].opener = r]
           /\ req' = [req EXCEPT ![r].pc = IF draining[n] = None THEN "claim" ELSE "drain",
                                 ![r].drain = draining[n], ![r].then = "claim"]
  <2>0. /\ None \notin Requests /\ None \notin SlotIds /\ draining[n] \in SlotIds \cup {None}
        /\ \A m \in Namespaces : map[m] \in SlotIds \cup {None} /\ draining[m] \in SlotIds \cup {None}
        /\ \A p \in Requests : req[p].slot \in SlotIds \cup {None}
                                 /\ req[p].drain \in SlotIds \cup {None}
    BY RegistryAssumption DEF Shape, ReqStates
  <2>1. /\ slots' \in [SlotIds -> SlotStates] /\ \A j \in SlotIds : j # i => slots'[j] = slots[j]
        /\ slots'[i].ns = slots[i].ns /\ slots'[i].open = slots[i].open
        /\ slots'[i].retired = slots[i].retired /\ slots'[i].quiesced = slots[i].quiesced
        /\ slots'[i].handles = slots[i].handles /\ slots'[i].lock = slots[i].lock
        /\ slots'[i].task = slots[i].task /\ slots'[i].quiescer = slots[i].quiescer
        /\ slots'[i].opener = r
    BY <1>5, SlotWhat DEF Shape, SlotStates
  <2>2. /\ req' \in [Requests -> ReqStates] /\ \A p \in Requests : p # r => req'[p] = req[p]
        /\ req'[r].pc = (IF draining[n] = None THEN "claim" ELSE "drain")
        /\ req'[r].drain = draining[n] /\ req'[r].then = "claim"
        /\ req'[r].slot = i /\ req'[r].ns = n /\ req'[r].kind = req[r].kind
    <3> DEFINE pc == IF draining[n] = None THEN "claim" ELSE "drain"
    <3>1. pc \in Pcs
      BY DEF Pcs
    <3>2. req' = [req EXCEPT ![r].pc = pc, ![r].drain = draining[n], ![r].then = "claim"]
      BY <1>5
    <3> HIDE DEF pc
    <3>3. Routed(r, pc, req[r].slot, draining[n], "claim")
      BY <2>0, <3>1, <3>2, InitRoutes
    <3> QED BY <1>2, <1>3, <3>3 DEF Routed, pc
  <2>3. \A j \in SlotIds :
          /\ slots'[j].ns = slots[j].ns /\ slots'[j].open = slots[j].open
          /\ slots'[j].retired = slots[j].retired /\ slots'[j].quiesced = slots[j].quiesced
          /\ slots'[j].handles = slots[j].handles /\ slots'[j].lock = slots[j].lock
          /\ slots'[j].task = slots[j].task /\ slots'[j].quiescer = slots[j].quiescer
    BY <2>1
  <2>4. /\ ~Opens(r) /\ Opens(r)' /\ \A p \in Requests : p # r => (Opens(p)' <=> Opens(p))
    BY <1>1, <2>2 DEF Opens, Draining
  <2>5. Shape'
    BY <1>1, <2>1, <2>2 DEF Shape
  <2>6. Held'
    <3> SUFFICES ASSUME NEW p \in Requests
                 PROVE  /\ req'[p].pc \in {"idle", "insert"} <=> req'[p].slot = None
                        /\ req'[p].pc # "idle" => req'[p].ns # None
                        /\ req'[p].slot # None => slots'[req'[p].slot].ns = req'[p].ns
                        /\ req'[p].pc \in Holding => slots'[req'[p].slot].open
                        /\ req'[p].pc = "prepared" => req'[p].kind = "compact"
                        /\ req'[p].pc \in Draining =>
                             /\ req'[p].drain # None /\ slots'[req'[p].drain].retired
                             /\ req'[p].then \in {"init", "claim"}
                        /\ req'[p].pc \in {"join", "lockq"} => ~slots'[req'[p].drain].handles
                        /\ req'[p].pc = "forget" => slots'[req'[p].drain].quiesced
                        /\ Opens(p)' => slots'[req'[p].slot].opener = p
      BY DEF Held
    <3>1. CASE p = r
      <4>1. draining[n] # None => slots[draining[n]].retired /\ draining[n] \in SlotIds
        BY <2>0 DEF Drained
      <4>2. i # None /\ n # None /\ slots[i].ns = n
        BY <1>2, <1>3, <2>0, RegistryAssumption DEF Held
      <4> QED BY <2>1, <2>2, <2>3, <3>1, <4>1, <4>2 DEF Draining, Holding
    <3>2. CASE p # r
      <4>1. Opens(p) => slots'[req[p].slot].opener = p
        <5> SUFFICES ASSUME Opens(p) PROVE slots'[req[p].slot].opener = p
          OBVIOUS
        <5>1. slots[req[p].slot].opener = p /\ req[p].slot \in SlotIds
          BY RequestWhat DEF Held, Opens, Draining
        <5>2. req[p].slot # i
          BY <1>5, <5>1, <2>0
        <5> QED BY <2>1, <5>1, <5>2
      <4>2. /\ req[p].pc \in Draining => req[p].drain \in SlotIds
            /\ req[p].pc \in Holding => req[p].slot \in SlotIds
        BY RequestWhat DEF Holding
      <4>3. /\ req[p].pc \in {"join", "lockq"} => ~slots'[req[p].drain].handles
            /\ req[p].pc = "forget" => slots'[req[p].drain].quiesced
            /\ req[p].pc \in Draining => slots'[req[p].drain].retired
        BY <2>3, <4>2 DEF Held, Draining
      <4>4. /\ req[p].slot # None => slots'[req[p].slot].ns = req[p].ns
            /\ req[p].pc \in Holding => slots'[req[p].slot].open
        BY <2>0, <2>3, <4>2 DEF Held
      <4> QED BY <2>2, <2>4, <3>2, <4>1, <4>3, <4>4 DEF Held
    <3> QED BY <3>1, <3>2
  <2>7. Owners'
    <3> SUFFICES ASSUME NEW j \in SlotIds, NEW p \in Requests
                 PROVE /\ slots'[j].opener = p => req'[p].slot = j /\ Opens(p)'
                       /\ slots'[j].quiescer = p => req'[p].drain = j /\ req'[p].pc \in {"join", "lockq"}
                       /\ slots'[j].lock = p => req'[p].slot = j /\ req'[p].pc \in {"locked", "recover"}
      BY DEF Owners
    <3>1. slots[j].quiescer # r /\ slots[j].lock # r /\ slots[j].opener # r
      BY <1>1, <2>4 DEF Owners
    <3> QED BY <2>1, <2>2, <2>3, <2>4, <3>1 DEF Owners
  <2>8. Life'
    <3>1. \A j \in SlotIds : HttpHolds(j)' => HttpHolds(j)
      BY <2>2, <2>3 DEF HttpHolds
    <3> QED BY <1>5, <2>1, <2>3, <3>1 DEF Life
  <2>9. Order'
    <3>1. \A p \in Requests : req'[p].slot # None /\ ~slots'[req'[p].slot].open
                              => map'[req'[p].ns] = req'[p].slot
      BY <1>1, <1>2, <1>3, <2>0, <2>2, <2>3 DEF Order
    <3>2. \A m \in Namespaces : map[m] # None =>
            /\ slots'[map[m]].ns = m /\ ~slots'[map[m]].retired
            /\ \A j \in SlotIds : slots'[j].ns = m => j <= map[m]
      BY <2>0, <2>3 DEF Order
    <3> QED BY <1>1, <2>3, <3>1, <3>2 DEF Order
  <2>10. Drained'
    <3>1. \A m \in Namespaces : draining[m] # None =>
            slots'[draining[m]].ns = m /\ slots'[draining[m]].retired
      BY <2>0, <2>3 DEF Drained
    <3>2. \A p \in Requests : Opens(p)' =>
          /\ req'[p].pc = "claim" => draining[req'[p].ns] = None
          /\ req'[p].pc # "claim" => draining[req'[p].ns] \in {None, req'[p].drain}
                                       /\ slots'[req'[p].drain].ns = req'[p].ns
      <4> SUFFICES ASSUME NEW p \in Requests, Opens(p)'
                   PROVE
                 /\ req'[p].pc = "claim" => draining[req'[p].ns] = None
                 /\ req'[p].pc # "claim" => draining[req'[p].ns] \in {None, req'[p].drain}
                                              /\ slots'[req'[p].drain].ns = req'[p].ns
        OBVIOUS
      <4>1. CASE p = r
        BY <2>2, <3>1, <4>1
      <4>2. CASE p # r
        <5>1. Opens(p) /\ req'[p] = req[p] /\ (req[p].pc # "claim" => req[p].drain \in SlotIds)
          BY <2>2, <2>4, <4>2, RequestWhat DEF Opens
        <5> QED BY <2>3, <5>1 DEF Drained
      <4> QED BY <4>1, <4>2
    <3>3. \A j \in SlotIds : slots'[j].retired /\ ~slots'[j].quiesced => draining[slots'[j].ns] = j
      BY <2>3 DEF Drained
    <3>4. \A j, k \in SlotIds : j < k /\ slots'[j].open /\ slots'[k].open
                                /\ slots'[j].ns = slots'[k].ns => slots'[j].quiesced
      BY <2>3 DEF Drained
    <3> QED BY <1>1, <3>1, <3>2, <3>3, <3>4 DEF Drained
  <2>11. Alone' /\ Bounded'
    BY <1>1 DEF Alone, Bounded, Mapped
  <2> QED BY <2>5, <2>6, <2>7, <2>8, <2>9, <2>10, <2>11
<1> QED BY <1>2, <1>3, <1>4, <1>5 DEF InitSlot

\* The claim opens the mapped slot: every earlier incarnation is quiesced.
LEMMA ClaimStep ==
  ASSUME RegInv, NEW r \in Requests, Claim(r)
  PROVE  RegInv'
<1> USE DEF RegInv
<1>1. req[r].pc = "claim" /\ UNCHANGED <<map, draining, restoring, events>> /\ Goto(r, "have")
  BY DEF Claim
<1>2. PICK i \in SlotIds : i = req[r].slot
  BY <1>1, RequestWhat
<1>3. PICK n \in Namespaces : n = req[r].ns
  BY <1>1, RequestWhat
<1>4. /\ slots[i].opener = r /\ None \notin Requests /\ None \notin SlotIds /\ None \notin Namespaces
      /\ r # None /\ i # None /\ n # None /\ slots[i].ns = n /\ draining[n] = None /\ Opens(r)
  BY <1>1, <1>2, <1>3, RegistryAssumption, RequestWhat DEF Held, Drained, Opens
<1>5. ~slots[i].open /\ ~slots[i].retired /\ ~slots[i].quiesced /\ slots[i].lock = None
  BY <1>4 DEF Life
<1>6. map[n] = i
  BY <1>2, <1>3, <1>4, <1>5 DEF Order
<1>7. /\ slots' \in [SlotIds -> SlotStates] /\ \A j \in SlotIds : j # i => slots'[j] = slots[j]
      /\ slots'[i].ns = slots[i].ns /\ slots'[i].open /\ slots'[i].opener = None
      /\ slots'[i].retired = slots[i].retired /\ slots'[i].quiesced = slots[i].quiesced
      /\ slots'[i].handles /\ slots'[i].lock = slots[i].lock /\ slots'[i].task = "idle"
      /\ slots'[i].quiescer = slots[i].quiescer
  <2> DEFINE s == [slots[i] EXCEPT !.open = TRUE, !.opener = None, !.epoch = epoch[n] + 1,
                                   !.handles = TRUE, !.task = "idle"]
  <2>1. slots' = [slots EXCEPT ![i] = s]
    BY <1>2, <1>3 DEF Claim
  <2>2. epoch[n] + 1 \in Nat /\ slots[i] \in SlotStates
    BY DEF Shape
  <2>3. /\ s \in SlotStates /\ s.ns = slots[i].ns /\ s.open /\ s.opener = None
        /\ s.retired = slots[i].retired /\ s.quiesced = slots[i].quiesced
        /\ s.handles /\ s.lock = slots[i].lock /\ s.task = "idle"
        /\ s.quiescer = slots[i].quiescer
    BY <2>2 DEF SlotStates
  <2> HIDE DEF s
  <2> QED BY <2>1, <2>3 DEF Shape
<1>8. /\ req' \in [Requests -> ReqStates] /\ \A p \in Requests : p # r => req'[p] = req[p]
      /\ req'[r].pc = "have" /\ req'[r].slot = i /\ req'[r].ns = n
      /\ req'[r].kind = req[r].kind
  <2>1. "have" \in Pcs
    BY DEF Pcs
  <2> QED BY <1>1, <1>2, <1>3, <2>1, GotoWhat
<1>9. ~Opens(r)' /\ \A p \in Requests : p # r => (Opens(p)' <=> Opens(p))
  BY <1>8 DEF Opens, Draining
<1>10. \A j \in SlotIds :
          /\ slots'[j].ns = slots[j].ns /\ slots'[j].retired = slots[j].retired
          /\ slots'[j].quiesced = slots[j].quiesced /\ slots'[j].lock = slots[j].lock
          /\ slots'[j].quiescer = slots[j].quiescer /\ (slots[j].open => slots'[j].open)
  BY <1>5, <1>7
<1>11. /\ \A m \in Namespaces : map[m] \in SlotIds \cup {None} /\ draining[m] \in SlotIds \cup {None}
       /\ \A p \in Requests : req[p].slot \in SlotIds \cup {None}
                                /\ req[p].drain \in SlotIds \cup {None}
  BY DEF Shape, ReqStates
<1>12. Shape'
  <2>1. epoch' = [epoch EXCEPT ![n] = epoch[n] + 1]
    BY <1>3 DEF Claim
  <2>2. epoch' \in [Namespaces -> Nat]
    BY <2>1 DEF Shape
  <2> QED BY <1>1, <1>7, <1>8, <2>2 DEF Shape
<1>13. Held'
  <2> SUFFICES ASSUME NEW p \in Requests
               PROVE  /\ req'[p].pc \in {"idle", "insert"} <=> req'[p].slot = None
                      /\ req'[p].pc # "idle" => req'[p].ns # None
                      /\ req'[p].slot # None => slots'[req'[p].slot].ns = req'[p].ns
                      /\ req'[p].pc \in Holding => slots'[req'[p].slot].open
                      /\ req'[p].pc = "prepared" => req'[p].kind = "compact"
                      /\ req'[p].pc \in Draining =>
                           /\ req'[p].drain # None /\ slots'[req'[p].drain].retired
                           /\ req'[p].then \in {"init", "claim"}
                      /\ req'[p].pc \in {"join", "lockq"} => ~slots'[req'[p].drain].handles
                      /\ req'[p].pc = "forget" => slots'[req'[p].drain].quiesced
                      /\ Opens(p)' => slots'[req'[p].slot].opener = p
    BY DEF Held
  <2>1. CASE p = r
    BY <1>4, <1>7, <1>8, <1>9, <2>1 DEF Draining, Holding
  <2>2. CASE p # r
    <3>1. Opens(p) => slots'[req[p].slot].opener = p
      <4> SUFFICES ASSUME Opens(p) PROVE slots'[req[p].slot].opener = p
        OBVIOUS
      <4>1. slots[req[p].slot].opener = p /\ req[p].slot \in SlotIds
        BY RequestWhat DEF Held, Opens, Draining
      <4>2. req[p].slot # i
        BY <1>4, <4>1, <2>2
      <4> QED BY <1>7, <4>1, <4>2
    <3>2. /\ req[p].pc \in Draining => req[p].drain \in SlotIds
          /\ req[p].pc \in Holding => req[p].slot \in SlotIds
      BY RequestWhat DEF Holding
    <3>3. /\ req[p].pc = "forget" => slots'[req[p].drain].quiesced
          /\ req[p].pc \in Draining => slots'[req[p].drain].retired
      BY <1>10, <3>2 DEF Held, Draining
    <3>4. req[p].pc \in {"join", "lockq"} => ~slots'[req[p].drain].handles
      <4> SUFFICES ASSUME req[p].pc \in {"join", "lockq"} PROVE ~slots'[req[p].drain].handles
        OBVIOUS
      <4>1. req[p].pc \in Draining
        BY DEF Draining
      <4>2. slots[req[p].drain].retired /\ ~slots[req[p].drain].handles
        BY <4>1 DEF Held
      <4>3. req[p].drain # i /\ req[p].drain \in SlotIds
        BY <1>5, <3>2, <4>1, <4>2
      <4> QED BY <1>7, <4>2, <4>3
    <3>5. /\ req[p].slot # None => slots'[req[p].slot].ns = req[p].ns
          /\ req[p].pc \in Holding => slots'[req[p].slot].open
      BY <1>10, <1>11, <3>2 DEF Held
    <3> QED BY <1>8, <1>9, <2>2, <3>1, <3>3, <3>4, <3>5 DEF Held
  <2> QED BY <2>1, <2>2
<1>14. Owners'
  <2> SUFFICES ASSUME NEW j \in SlotIds, NEW p \in Requests
               PROVE /\ slots'[j].opener = p => req'[p].slot = j /\ Opens(p)'
                     /\ slots'[j].quiescer = p => req'[p].drain = j /\ req'[p].pc \in {"join", "lockq"}
                     /\ slots'[j].lock = p => req'[p].slot = j /\ req'[p].pc \in {"locked", "recover"}
    BY DEF Owners
  <2>1. slots[j].quiescer # r /\ slots[j].lock # r
    BY <1>1 DEF Owners
  <2>2. slots'[j].opener = p => p # r /\ slots[j].opener = p
    BY <1>2, <1>4, <1>7 DEF Owners
  <2> QED BY <1>8, <1>9, <1>10, <2>1, <2>2 DEF Owners
<1>15. Life'
  <2>1. \A j \in SlotIds : HttpHolds(j)' => HttpHolds(j)
    BY <1>8, <1>10 DEF HttpHolds
  <2>2. \A j \in SlotIds : j # i =>
    /\ slots'[j].open => slots'[j].ns # None /\ slots'[j].opener = None
    /\ ~slots'[j].open => ~slots'[j].retired /\ slots'[j].lock = None /\ slots'[j].task = "none"
    /\ slots'[j].open /\ ~slots'[j].handles => slots'[j].task \in {"aborted", "gone"}
    /\ slots'[j].lock = "task" => slots'[j].task \in {"locked", "recover", "aborted"}
    /\ slots'[j].quiesced => /\ slots'[j].retired /\ ~slots'[j].handles
                             /\ slots'[j].lock # "task" /\ ~HttpHolds(j)'
    BY <1>7, <2>1 DEF Life
  <2>3. slots'[i].lock # "task" /\ ~slots'[i].quiesced /\ slots'[i].ns # None
    BY <1>4, <1>5, <1>7, RegistryAssumption
  <2> QED BY <1>7, <2>2, <2>3 DEF Life
<1>16. Order'
  <2>1. \A p \in Requests : req'[p].slot # None /\ ~slots'[req'[p].slot].open
                            => map[req'[p].ns] = req'[p].slot
    <3> SUFFICES ASSUME NEW p \in Requests, req'[p].slot # None, ~slots'[req'[p].slot].open
                 PROVE  map[req'[p].ns] = req'[p].slot
      OBVIOUS
    <3>1. p # r /\ req'[p] = req[p]
      BY <1>7, <1>8
    <3>2. req[p].slot \in SlotIds /\ ~slots[req[p].slot].open
      BY <1>10, <1>11, <3>1
    <3> QED BY <3>1, <3>2 DEF Order
  <2>2. \A m \in Namespaces : map[m] # None =>
          /\ slots'[map[m]].ns = m /\ ~slots'[map[m]].retired
          /\ \A j \in SlotIds : slots'[j].ns = m => j <= map[m]
    BY <1>10, <1>11 DEF Order
  <2>3. \A j \in SlotIds : slots'[j].open /\ ~slots'[j].retired => map[slots'[j].ns] = j
    BY <1>4, <1>6, <1>7 DEF Order
  <2>4. \A j, k \in SlotIds : j < k /\ slots'[k].ns # None => slots'[j].ns # None
    BY <1>10 DEF Order
  <2> QED BY <1>1, <2>1, <2>2, <2>3, <2>4 DEF Order
<1>17. Drained'
  <2>1. \A m \in Namespaces : draining[m] # None =>
          slots'[draining[m]].ns = m /\ slots'[draining[m]].retired
    BY <1>10, <1>11 DEF Drained
  <2>2. \A p \in Requests : Opens(p)' =>
        /\ req'[p].pc = "claim" => draining[req'[p].ns] = None
        /\ req'[p].pc # "claim" => draining[req'[p].ns] \in {None, req'[p].drain}
                                     /\ slots'[req'[p].drain].ns = req'[p].ns
    <3> SUFFICES ASSUME NEW p \in Requests, Opens(p)'
                 PROVE
               /\ req'[p].pc = "claim" => draining[req'[p].ns] = None
               /\ req'[p].pc # "claim" => draining[req'[p].ns] \in {None, req'[p].drain}
                                            /\ slots'[req'[p].drain].ns = req'[p].ns
      OBVIOUS
    <3>1. Opens(p) /\ req'[p] = req[p] /\ (req[p].pc # "claim" => req[p].drain \in SlotIds)
      BY <1>8, <1>9, RequestWhat DEF Opens
    <3> QED BY <1>10, <3>1 DEF Drained
  <2>3. \A j \in SlotIds : slots'[j].retired /\ ~slots'[j].quiesced => draining[slots'[j].ns] = j
    BY <1>10 DEF Drained
  <2>4. \A j, k \in SlotIds : j < k /\ slots'[j].open /\ slots'[k].open
                              /\ slots'[j].ns = slots'[k].ns => slots'[j].quiesced
    <3> SUFFICES ASSUME NEW j \in SlotIds, NEW k \in SlotIds, j < k, slots'[j].open,
                        slots'[k].open, slots'[j].ns = slots'[k].ns
                 PROVE  slots[j].quiesced
      BY <1>10
    <3>1. CASE j # i /\ k # i
      BY <1>7, <3>1 DEF Drained
    <3>2. CASE k = i
      <4>0. j # i
        BY <3>2 DEF SlotIds
      <4>1. j # i /\ slots[j].open /\ slots[j].ns = n
        BY <1>4, <1>7, <3>2, <4>0
      <4>2. slots[j].retired
        BY <1>6, <4>1 DEF Order
      <4> QED BY <1>4, <4>1, <4>2 DEF Drained
    <3>3. CASE j = i
      <4>1. slots[k].ns = n
        BY <1>4, <1>10, <3>3
      <4>2. k <= i
        BY <1>4, <1>6, <4>1 DEF Order
      <4> QED BY <3>3, <4>2 DEF SlotIds
    <3> QED BY <3>1, <3>2, <3>3
  <2> QED BY <1>1, <2>1, <2>2, <2>3, <2>4 DEF Drained
<1>18. Alone' /\ Bounded'
  BY <1>1 DEF Alone, Bounded, Mapped
<1> QED BY <1>12, <1>13, <1>14, <1>15, <1>16, <1>17, <1>18

\* The slot insert_slot takes comes after every used one.
LEMMA FreshWhat ==
  ASSUME RegInv, Unused # {}
  PROVE  /\ Fresh \in SlotIds /\ slots[Fresh].ns = None
         /\ \A j \in SlotIds : j < Fresh <=> slots[j].ns # None
<1>1. Unused \subseteq SlotIds /\ \A j \in SlotIds : j \in Unused <=> slots[j].ns = None
  BY DEF Unused
<1>2. Unused \subseteq Nat
  BY <1>1 DEF SlotIds
<1>3. Fresh \in Unused /\ \A j \in Unused : Fresh <= j
  BY <1>2, LeastNat DEF Fresh
<1>4. \A j \in SlotIds : j < Fresh => slots[j].ns # None
  BY <1>1, <1>2, <1>3
<1>5. \A j \in SlotIds : slots[j].ns # None => j < Fresh
  <2> SUFFICES ASSUME NEW j \in SlotIds, slots[j].ns # None PROVE j < Fresh
    OBVIOUS
  <2>1. ~(Fresh < j)
    BY <1>1, <1>3 DEF RegInv, Order
  <2>2. Fresh # j
    BY <1>1, <1>3
  <2> QED BY <1>1, <1>2, <1>3, <2>1, <2>2 DEF SlotIds
<1> QED BY <1>1, <1>3, <1>4, <1>5

\* r inserts slot f for its namespace, and the incarnations in E are evicted:
\* retired, into the draining map and out of the map, where an abandoned slot
\* may be dropped too.
Inserts(r, f, E) ==
  /\ slots' \in [SlotIds -> SlotStates]
  /\ \A j \in SlotIds :
       /\ slots'[j].ns = (IF j = f THEN req[r].ns ELSE slots[j].ns)
       /\ slots'[j].retired <=> (slots[j].retired \/ j \in E)
       /\ slots'[j].open = slots[j].open /\ slots'[j].opener = slots[j].opener
       /\ slots'[j].quiesced = slots[j].quiesced /\ slots'[j].quiescer = slots[j].quiescer
       /\ slots'[j].handles = slots[j].handles /\ slots'[j].lock = slots[j].lock
       /\ slots'[j].task = slots[j].task
  /\ map' \in [Namespaces -> SlotIds \cup {None}] /\ map'[req[r].ns] = f
  /\ \A m \in Namespaces : m # req[r].ns =>
       \/ map'[m] = map[m]
       \/ map'[m] = None /\ map[m] # None /\ (Abandoned(map[m]) \/ map[m] \in E)
  /\ draining' \in [Namespaces -> SlotIds \cup {None}]
  /\ \A m \in Namespaces :
       \/ draining'[m] = draining[m]
       \/ draining'[m] \in E /\ slots[draining'[m]].ns = m
  /\ \A j \in E : /\ j \in SlotIds /\ slots[j].open /\ ~slots[j].retired
                  /\ draining'[slots[j].ns] = j /\ map'[slots[j].ns] = None
  /\ UNCHANGED <<restoring, epoch, events>>

\* Whatever insert_slot evicts, the invariant is kept.
LEMMA InsertStep ==
  ASSUME RegInv, NEW r \in Requests, NEW E, NEW d \in SlotIds \cup {None}, NEW t, NEW pc,
         Insertable(r), Inserts(r, Fresh, E), Routed(r, pc, Fresh, d, t), Bounded',
         pc = "init" \/ (pc = "drain" /\ d \in E /\ t = "init")
  PROVE  RegInv'
<1> USE DEF RegInv
<1>1. PICK f \in SlotIds : f = Fresh
  BY FreshWhat DEF Insertable
<1>2. PICK n \in Namespaces : n = req[r].ns
  BY RequestWhat DEF Insertable
<1>3. /\ req[r].pc = "insert" /\ map[n] = None /\ n \notin restoring /\ n # None /\ f # None
      /\ None \notin SlotIds /\ None \notin Namespaces
      /\ slots[f].ns = None /\ \A j \in SlotIds : j < f <=> slots[j].ns # None
  BY <1>1, <1>2, FreshWhat, RegistryAssumption DEF Insertable
<1>4. /\ req' \in [Requests -> ReqStates] /\ \A p \in Requests : p # r => req'[p] = req[p]
      /\ req'[r].pc = pc /\ req'[r].slot = f /\ req'[r].drain = d /\ req'[r].then = t
      /\ req'[r].kind = req[r].kind /\ req'[r].ns = n
  BY <1>1, <1>2 DEF Routed
<1>5. /\ slots' \in [SlotIds -> SlotStates]
      /\ \A j \in SlotIds :
           /\ slots'[j].ns = (IF j = f THEN n ELSE slots[j].ns)
           /\ slots'[j].retired <=> (slots[j].retired \/ j \in E)
           /\ slots'[j].open = slots[j].open /\ slots'[j].opener = slots[j].opener
           /\ slots'[j].quiesced = slots[j].quiesced /\ slots'[j].quiescer = slots[j].quiescer
           /\ slots'[j].handles = slots[j].handles /\ slots'[j].lock = slots[j].lock
           /\ slots'[j].task = slots[j].task
  BY <1>1, <1>2 DEF Inserts
<1>6. /\ map' \in [Namespaces -> SlotIds \cup {None}] /\ map'[n] = f
      /\ \A m \in Namespaces : m # n =>
           \/ map'[m] = map[m]
           \/ map'[m] = None /\ map[m] # None /\ (Abandoned(map[m]) \/ map[m] \in E)
  BY <1>1, <1>2 DEF Inserts
<1>7. /\ draining' \in [Namespaces -> SlotIds \cup {None}]
      /\ \A m \in Namespaces :
           \/ draining'[m] = draining[m]
           \/ draining'[m] \in E /\ slots[draining'[m]].ns = m
      /\ UNCHANGED <<restoring, epoch, events>>
  BY DEF Inserts
<1>8. \A j \in E : /\ j \in SlotIds /\ slots[j].open /\ ~slots[j].retired
                   /\ slots[j].ns \in Namespaces /\ map[slots[j].ns] = j
                   /\ draining'[slots[j].ns] = j /\ map'[slots[j].ns] = None
  <2> SUFFICES ASSUME NEW j \in E
               PROVE /\ j \in SlotIds /\ slots[j].open /\ ~slots[j].retired
                     /\ slots[j].ns \in Namespaces /\ map[slots[j].ns] = j
                     /\ draining'[slots[j].ns] = j /\ map'[slots[j].ns] = None
    OBVIOUS
  <2>1. /\ j \in SlotIds /\ slots[j].open /\ ~slots[j].retired
        /\ draining'[slots[j].ns] = j /\ map'[slots[j].ns] = None
    BY DEF Inserts
  <2> QED BY <2>1, SlotWhat DEF Life, Order
<1>9. ~slots[f].open /\ ~slots[f].retired /\ f \notin E /\ \A j \in SlotIds : slots[j].open => j # f
  BY <1>3, <1>8 DEF Life
<1>10. /\ \A m \in Namespaces : map[m] \in SlotIds \cup {None} /\ draining[m] \in SlotIds \cup {None}
       /\ \A p \in Requests : req[p].slot \in SlotIds \cup {None}
                                /\ req[p].drain \in SlotIds \cup {None}
  BY DEF Shape, ReqStates
<1>11. /\ ~Opens(r) /\ ~Opens(r)' /\ \A p \in Requests : p # r => (Opens(p)' <=> Opens(p))
  BY <1>3, <1>4 DEF Opens, Draining
<1>12. Shape'
  BY <1>4, <1>5, <1>6, <1>7 DEF Shape
<1>13. \A p \in Requests : req[p].slot # None =>
         req[p].slot \in SlotIds /\ req[p].slot # f /\ req[p].ns \in Namespaces
  BY <1>3, <1>10, RequestWhat DEF Held
<1>14. \A p \in Requests : req[p].pc \in Draining =>
         /\ req[p].drain \in SlotIds /\ req[p].drain # f /\ slots[req[p].drain].retired
  BY <1>9, RequestWhat DEF Held
<1>15. Held'
  <2> SUFFICES ASSUME NEW p \in Requests
               PROVE  /\ req'[p].pc \in {"idle", "insert"} <=> req'[p].slot = None
                      /\ req'[p].pc # "idle" => req'[p].ns # None
                      /\ req'[p].slot # None => slots'[req'[p].slot].ns = req'[p].ns
                      /\ req'[p].pc \in Holding => slots'[req'[p].slot].open
                      /\ req'[p].pc = "prepared" => req'[p].kind = "compact"
                      /\ req'[p].pc \in Draining =>
                           /\ req'[p].drain # None /\ slots'[req'[p].drain].retired
                           /\ req'[p].then \in {"init", "claim"}
                      /\ req'[p].pc \in {"join", "lockq"} => ~slots'[req'[p].drain].handles
                      /\ req'[p].pc = "forget" => slots'[req'[p].drain].quiesced
                      /\ Opens(p)' => slots'[req'[p].slot].opener = p
    BY DEF Held
  <2>1. CASE p = r
    <3>1. CASE pc = "init"
      BY <1>3, <1>4, <1>5, <1>11, <2>1, <3>1 DEF Draining, Holding
    <3>2. CASE pc = "drain" /\ d \in E /\ t = "init"
      <4>1. d \in SlotIds /\ d # None /\ slots'[d].retired
        BY <1>3, <1>5, <1>8, <3>2
      <4> QED BY <1>3, <1>4, <1>5, <1>11, <2>1, <3>2, <4>1 DEF Holding
    <3> QED BY <3>1, <3>2
  <2>2. CASE p # r
    <3>1. Opens(p) => slots'[req[p].slot].opener = p
      <4> SUFFICES ASSUME Opens(p) PROVE slots'[req[p].slot].opener = p
        OBVIOUS
      <4>1. slots[req[p].slot].opener = p /\ req[p].slot \in SlotIds
        BY RequestWhat DEF Held, Opens, Draining
      <4> QED BY <1>5, <4>1
    <3>2. /\ req[p].pc = "forget" => slots'[req[p].drain].quiesced
          /\ req[p].pc \in Draining => slots'[req[p].drain].retired
          /\ req[p].pc \in {"join", "lockq"} => ~slots'[req[p].drain].handles
      BY <1>5, <1>14 DEF Held, Draining
    <3>3. /\ req[p].slot # None => slots'[req[p].slot].ns = req[p].ns
          /\ req[p].pc \in Holding => slots'[req[p].slot].open
      <4>1. req[p].pc \in Holding => req[p].slot # None
        BY DEF Held, Holding
      <4> QED BY <1>5, <1>13, <4>1 DEF Held
    <3> QED BY <1>4, <1>11, <2>2, <3>1, <3>2, <3>3 DEF Held
  <2> QED BY <2>1, <2>2
<1>16. Owners'
  <2> SUFFICES ASSUME NEW j \in SlotIds, NEW p \in Requests
               PROVE /\ slots'[j].opener = p => req'[p].slot = j /\ Opens(p)'
                     /\ slots'[j].quiescer = p => req'[p].drain = j /\ req'[p].pc \in {"join", "lockq"}
                     /\ slots'[j].lock = p => req'[p].slot = j /\ req'[p].pc \in {"locked", "recover"}
    BY DEF Owners
  <2>1. slots[j].quiescer # r /\ slots[j].lock # r /\ slots[j].opener # r
    BY <1>3, <1>11 DEF Owners
  <2> QED BY <1>4, <1>5, <1>11, <2>1 DEF Owners
<1>17. Life'
  <2>1. \A j \in SlotIds : HttpHolds(j)' => HttpHolds(j)
    BY <1>4, <1>5 DEF HttpHolds
  <2> SUFFICES ASSUME NEW j \in SlotIds
               PROVE
    /\ slots'[j].open => slots'[j].ns # None /\ slots'[j].opener = None
    /\ ~slots'[j].open => ~slots'[j].retired /\ slots'[j].lock = None /\ slots'[j].task = "none"
    /\ slots'[j].open /\ ~slots'[j].handles => slots'[j].task \in {"aborted", "gone"}
    /\ slots'[j].lock = "task" => slots'[j].task \in {"locked", "recover", "aborted"}
    /\ slots'[j].quiesced => /\ slots'[j].retired /\ ~slots'[j].handles
                             /\ slots'[j].lock # "task" /\ ~HttpHolds(j)'
    BY DEF Life
  <2>2. j \in E => slots[j].open
    BY <1>8
  <2> QED BY <1>3, <1>5, <1>9, <2>1, <2>2 DEF Life
<1>18. Order'
  <2>1. \A j, k \in SlotIds : j < k /\ slots'[k].ns # None => slots'[j].ns # None
    <3> SUFFICES ASSUME NEW j \in SlotIds, NEW k \in SlotIds, j < k, slots'[k].ns # None
                 PROVE  slots'[j].ns # None
      OBVIOUS
    <3>1. CASE k = f
      BY <1>3, <1>5, <3>1
    <3>2. CASE k # f
      BY <1>3, <1>5, <3>2 DEF Order
    <3> QED BY <3>1, <3>2
  <2>2. \A m \in Namespaces : map'[m] # None =>
          /\ slots'[map'[m]].ns = m /\ ~slots'[map'[m]].retired
          /\ \A j \in SlotIds : slots'[j].ns = m => j <= map'[m]
    <3> SUFFICES ASSUME NEW m \in Namespaces, map'[m] # None
                 PROVE  /\ slots'[map'[m]].ns = m /\ ~slots'[map'[m]].retired
                        /\ \A j \in SlotIds : slots'[j].ns = m => j <= map'[m]
      OBVIOUS
    <3>1. CASE m = n
      <4>1. \A j \in SlotIds : slots'[j].ns = n => j <= f
        BY <1>3, <1>5 DEF SlotIds
      <4> QED BY <1>5, <1>6, <1>9, <3>1, <4>1
    <3>2. CASE m # n
      <4>1. map'[m] = map[m] /\ map[m] \in SlotIds
        BY <1>6, <1>10, <3>2
      <4>2. slots[map[m]].ns = m /\ ~slots[map[m]].retired
            /\ \A j \in SlotIds : slots[j].ns = m => j <= map[m]
        BY <4>1 DEF Order
      <4>3. map[m] \notin E
        BY <1>8, <4>1, <4>2
      <4>4. map[m] # f /\ m # None
        BY <1>3, <4>2
      <4> QED BY <1>5, <3>2, <4>1, <4>2, <4>3, <4>4
    <3> QED BY <3>1, <3>2
  <2>3. \A j \in SlotIds : slots'[j].open /\ ~slots'[j].retired => map'[slots'[j].ns] = j
    <3> SUFFICES ASSUME NEW j \in SlotIds, slots'[j].open, ~slots'[j].retired
                 PROVE  map'[slots'[j].ns] = j
      OBVIOUS
    <3>1. slots[j].open /\ ~slots[j].retired /\ j \notin E /\ j # f /\ slots'[j].ns = slots[j].ns
      BY <1>5, <1>9
    <3>2. map[slots[j].ns] = j /\ slots[j].ns \in Namespaces
      BY <3>1, SlotWhat DEF Order, Life
    <3>3. slots[j].ns # n
      BY <1>3, <3>2
    <3> QED BY <1>6, <3>1, <3>2, <3>3 DEF Abandoned
  <2>4. \A p \in Requests : req'[p].slot # None /\ ~slots'[req'[p].slot].open
                            => map'[req'[p].ns] = req'[p].slot
    <3> SUFFICES ASSUME NEW p \in Requests, req'[p].slot # None, ~slots'[req'[p].slot].open
                 PROVE  map'[req'[p].ns] = req'[p].slot
      OBVIOUS
    <3>1. CASE p = r
      BY <1>4, <1>6, <3>1
    <3>2. CASE p # r
      <4>1. req'[p] = req[p] /\ req[p].slot \in SlotIds /\ req[p].ns \in Namespaces
        BY <1>4, <1>13, <3>2
      <4>2. ~slots[req[p].slot].open /\ map[req[p].ns] = req[p].slot
        BY <1>5, <4>1 DEF Order
      <4>3. req[p].ns # n
        BY <1>3, <4>1, <4>2
      <4>4. ~Abandoned(map[req[p].ns]) /\ map[req[p].ns] \notin E
        BY <1>8, <4>2 DEF Abandoned
      <4> QED BY <1>6, <4>1, <4>2, <4>3, <4>4
    <3> QED BY <3>1, <3>2
  <2> QED BY <2>1, <2>2, <2>3, <2>4 DEF Order
<1>19. Drained'
  <2>1. \A m \in Namespaces : draining'[m] # None =>
          slots'[draining'[m]].ns = m /\ slots'[draining'[m]].retired
    <3> SUFFICES ASSUME NEW m \in Namespaces, draining'[m] # None
                 PROVE  slots'[draining'[m]].ns = m /\ slots'[draining'[m]].retired
      OBVIOUS
    <3>1. CASE draining'[m] \in E /\ slots[draining'[m]].ns = m
      BY <1>5, <1>8, <1>9, <3>1
    <3>2. CASE draining'[m] = draining[m]
      <4>1. draining[m] \in SlotIds /\ slots[draining[m]].ns = m /\ slots[draining[m]].retired
        BY <1>10, <3>2 DEF Drained
      <4> QED BY <1>5, <1>9, <3>2, <4>1
    <3> QED BY <1>7, <3>1, <3>2
  <2>2. \A j \in SlotIds : slots'[j].retired /\ ~slots'[j].quiesced => draining'[slots'[j].ns] = j
    <3> SUFFICES ASSUME NEW j \in SlotIds, slots'[j].retired, ~slots'[j].quiesced
                 PROVE  draining'[slots'[j].ns] = j
      OBVIOUS
    <3>1. j # f /\ slots'[j].ns = slots[j].ns /\ ~slots[j].quiesced
      BY <1>5, <1>9
    <3>2. CASE j \in E
      BY <1>8, <3>1, <3>2
    <3>3. CASE j \notin E
      <4>1. slots[j].retired /\ slots[j].open
        BY <1>5, <3>3 DEF Life
      <4>2. draining[slots[j].ns] = j /\ slots[j].ns \in Namespaces
        BY <3>1, <4>1, SlotWhat DEF Drained, Life
      <4>3. ~\E k \in E : slots[k].ns = slots[j].ns
        <5> SUFFICES ASSUME NEW k \in E, slots[k].ns = slots[j].ns PROVE FALSE
          OBVIOUS
        <5>1. k \in SlotIds /\ slots[k].open /\ ~slots[k].retired /\ map[slots[j].ns] = k
          BY <1>8
        <5>2. j <= k /\ j # k
          BY <1>3, <4>1, <4>2, <5>1 DEF Order
        <5>3. j < k
          BY <5>1, <5>2 DEF SlotIds
        <5> QED BY <3>1, <4>1, <5>1, <5>3 DEF Drained
      <4> QED BY <1>7, <3>1, <4>2, <4>3
    <3> QED BY <3>2, <3>3
  <2>3. \A p \in Requests : Opens(p)' =>
        /\ req'[p].pc = "claim" => draining'[req'[p].ns] = None
        /\ req'[p].pc # "claim" => draining'[req'[p].ns] \in {None, req'[p].drain}
                                     /\ slots'[req'[p].drain].ns = req'[p].ns
    <3> SUFFICES ASSUME NEW p \in Requests, Opens(p)'
                 PROVE
               /\ req'[p].pc = "claim" => draining'[req'[p].ns] = None
               /\ req'[p].pc # "claim" => draining'[req'[p].ns] \in {None, req'[p].drain}
                                            /\ slots'[req'[p].drain].ns = req'[p].ns
      OBVIOUS
    <3>1. Opens(p) /\ req'[p] = req[p] /\ (req[p].pc # "claim" => req[p].pc \in Draining)
      BY <1>4, <1>11 DEF Opens
    <3>2. slots[req[p].slot].opener = p /\ req[p].slot \in SlotIds /\ req[p].ns \in Namespaces
          /\ p # None
      BY <3>1, RequestWhat, RegistryAssumption DEF Held, Opens, Draining
    <3>3. ~slots[req[p].slot].open
      BY <3>2 DEF Life
    <3>4. map[req[p].ns] = req[p].slot
      BY <1>3, <3>2, <3>3 DEF Order
    <3>5. ~\E k \in E : slots[k].ns = req[p].ns
      BY <1>8, <3>3, <3>4
    <3>6. draining'[req[p].ns] = draining[req[p].ns]
      BY <1>7, <3>2, <3>5
    <3>7. req[p].pc # "claim" => slots'[req[p].drain].ns = slots[req[p].drain].ns
      BY <1>5, <1>14, <3>1
    <3> QED BY <3>1, <3>6, <3>7 DEF Drained
  <2>4. \A j, k \in SlotIds : j < k /\ slots'[j].open /\ slots'[k].open
                              /\ slots'[j].ns = slots'[k].ns => slots'[j].quiesced
    BY <1>5, <1>9 DEF Drained
  <2> QED BY <2>1, <2>2, <2>3, <2>4 DEF Drained
<1>20. Alone'
  <2> SUFFICES ASSUME NEW m \in restoring PROVE map'[m] = None /\ draining'[m] = None
    BY <1>7 DEF Alone
  <2>1. m \in Namespaces /\ m # n /\ map[m] = None /\ draining[m] = None
    BY <1>3 DEF Alone, Shape
  <2>2. ~\E k \in E : slots[k].ns = m
    BY <1>3, <1>8, <2>1
  <2> QED BY <1>6, <1>7, <2>1, <2>2
<1> QED BY <1>12, <1>15, <1>16, <1>17, <1>18, <1>19, <1>20

\* The slots after insert_slot has taken f and marked the victim in E retired.
LEMMA InsertedSlots ==
  ASSUME Shape, NEW f \in SlotIds, NEW n \in Namespaces,
         slots' = [slots EXCEPT ![f].ns = n]
  PROVE  /\ slots' \in [SlotIds -> SlotStates]
         /\ \A j \in SlotIds :
              /\ slots'[j].ns = (IF j = f THEN n ELSE slots[j].ns)
              /\ slots'[j].retired = slots[j].retired
              /\ slots'[j].open = slots[j].open /\ slots'[j].opener = slots[j].opener
              /\ slots'[j].quiesced = slots[j].quiesced /\ slots'[j].quiescer = slots[j].quiescer
              /\ slots'[j].handles = slots[j].handles /\ slots'[j].lock = slots[j].lock
              /\ slots'[j].task = slots[j].task
<1> DEFINE s == [slots[f] EXCEPT !.ns = n]
<1>1. slots \in [SlotIds -> SlotStates] /\ slots[f] \in SlotStates
  BY DEF Shape
<1>2. /\ s \in SlotStates /\ s.ns = n /\ s.open = slots[f].open /\ s.opener = slots[f].opener
      /\ s.retired = slots[f].retired /\ s.quiesced = slots[f].quiesced
      /\ s.quiescer = slots[f].quiescer /\ s.handles = slots[f].handles
      /\ s.lock = slots[f].lock /\ s.task = slots[f].task
  BY <1>1 DEF SlotStates
<1>3. slots' = [slots EXCEPT ![f] = s]
  OBVIOUS
<1> HIDE DEF s
<1>4. /\ slots' \in [SlotIds -> SlotStates] /\ slots'[f] = s
      /\ \A j \in SlotIds : j # f => slots'[j] = slots[j]
  BY ONLY <1>1, <1>2, <1>3, f \in SlotIds
<1> QED BY ONLY <1>2, <1>4

\* The same with a second slot, the victim, whose retired flag is set.
LEMMA EvictedSlots ==
  ASSUME Shape, NEW f \in SlotIds, NEW n \in Namespaces, NEW i \in SlotIds, i # f,
         slots' = [slots EXCEPT ![f].ns = n, ![i].retired = slots[i].open]
  PROVE  /\ slots' \in [SlotIds -> SlotStates]
         /\ \A j \in SlotIds :
              /\ slots'[j].ns = (IF j = f THEN n ELSE slots[j].ns)
              /\ slots'[j].retired = (IF j = i THEN slots[i].open ELSE slots[j].retired)
              /\ slots'[j].open = slots[j].open /\ slots'[j].opener = slots[j].opener
              /\ slots'[j].quiesced = slots[j].quiesced /\ slots'[j].quiescer = slots[j].quiescer
              /\ slots'[j].handles = slots[j].handles /\ slots'[j].lock = slots[j].lock
              /\ slots'[j].task = slots[j].task
<1> DEFINE s == [slots[f] EXCEPT !.ns = n]
           v == [slots[i] EXCEPT !.retired = slots[i].open]
<1>1. slots \in [SlotIds -> SlotStates] /\ slots[f] \in SlotStates /\ slots[i] \in SlotStates
  BY DEF Shape
<1>2. /\ s \in SlotStates /\ s.ns = n /\ s.open = slots[f].open /\ s.opener = slots[f].opener
      /\ s.retired = slots[f].retired /\ s.quiesced = slots[f].quiesced
      /\ s.quiescer = slots[f].quiescer /\ s.handles = slots[f].handles
      /\ s.lock = slots[f].lock /\ s.task = slots[f].task
  BY <1>1 DEF SlotStates
<1>3. /\ v \in SlotStates /\ v.ns = slots[i].ns /\ v.open = slots[i].open
      /\ v.opener = slots[i].opener /\ v.retired = slots[i].open /\ v.quiesced = slots[i].quiesced
      /\ v.quiescer = slots[i].quiescer /\ v.handles = slots[i].handles
      /\ v.lock = slots[i].lock /\ v.task = slots[i].task
  BY <1>1 DEF SlotStates
<1>4. slots' = [slots EXCEPT ![f] = s, ![i] = v]
  BY <1>1
<1> HIDE DEF s, v
<1>5. /\ slots' \in [SlotIds -> SlotStates] /\ slots'[f] = s /\ slots'[i] = v
      /\ \A j \in SlotIds : j # f /\ j # i => slots'[j] = slots[j]
  BY ONLY <1>1, <1>2, <1>3, <1>4, f \in SlotIds, i \in SlotIds, i # f
<1> QED BY ONLY <1>2, <1>3, <1>5, i # f

\* insert_slot below the cap.
LEMMA InsertFitsStep ==
  ASSUME RegInv, NEW r \in Requests, InsertFits(r)
  PROVE  RegInv'
<1>1. /\ Insertable(r) /\ Cardinality(Mapped) < Cap
      /\ UNCHANGED <<draining, restoring, epoch, events>>
  BY DEF InsertFits
<1>2. PICK f \in SlotIds : f = Fresh
  BY <1>1, FreshWhat DEF Insertable
<1>3. PICK n \in Namespaces : n = req[r].ns
  BY <1>1, RequestWhat DEF Insertable
<1>4. Shape /\ map[n] = None /\ f # None /\ map \in [Namespaces -> SlotIds \cup {None}]
      /\ draining \in [Namespaces -> SlotIds \cup {None}]
  BY <1>1, <1>3, RegistryAssumption DEF RegInv, Shape, Insertable
<1>5. /\ slots' = [slots EXCEPT ![f].ns = n] /\ map' = [map EXCEPT ![n] = f]
      /\ req' = [req EXCEPT ![r].pc = "init", ![r].slot = f]
  BY <1>2, <1>3 DEF InsertFits
<1>6. /\ map' \in [Namespaces -> SlotIds \cup {None}] /\ map'[n] = f
      /\ \A m \in Namespaces : m # n => map'[m] = map[m]
  BY <1>4, <1>5
<1>7. Inserts(r, f, {})
  <2>1. slots' \in [SlotIds -> SlotStates]
        /\ \A j \in SlotIds :
              /\ slots'[j].ns = (IF j = f THEN n ELSE slots[j].ns)
              /\ slots'[j].retired = slots[j].retired
              /\ slots'[j].open = slots[j].open /\ slots'[j].opener = slots[j].opener
              /\ slots'[j].quiesced = slots[j].quiesced /\ slots'[j].quiescer = slots[j].quiescer
              /\ slots'[j].handles = slots[j].handles /\ slots'[j].lock = slots[j].lock
              /\ slots'[j].task = slots[j].task
    BY <1>4, <1>5, InsertedSlots
  <2> QED BY <1>1, <1>3, <1>4, <1>6, <2>1 DEF Inserts
<1>8. Routed(r, "init", f, req[r].drain, req[r].then)
  BY <1>4, <1>5, InsertRoutes
<1>9. Bounded'
  <2>1. Mapped' = Mapped \cup {n} /\ n \notin Mapped
    BY <1>4, <1>6 DEF Mapped
  <2>2. IsFiniteSet(Mapped)
    BY DEF RegInv, Bounded
  <2>3. IsFiniteSet(Mapped \cup {n}) /\ Cardinality(Mapped \cup {n}) = Cardinality(Mapped) + 1
    BY <2>1, <2>2, FS_AddElement
  <2>4. Cardinality(Mapped) \in Nat
    BY <2>2, FS_CardinalityType
  <2> QED BY <1>1, <2>1, <2>3, <2>4, RegistryAssumption DEF Bounded
<1>10. req[r].drain \in SlotIds \cup {None}
  BY DEF RegInv, Shape, ReqStates
<1> QED BY <1>1, <1>2, <1>7, <1>8, <1>9, <1>10, InsertStep

\* insert_slot at the cap: a victim is evicted for the new slot.
LEMMA InsertEvictingStep ==
  ASSUME RegInv, NEW r \in Requests, NEW v \in Namespaces, InsertEvicting(r, v)
  PROVE  RegInv'
<1>1. /\ Insertable(r) /\ v \in IdleOldest /\ UNCHANGED <<restoring, epoch, events>>
  BY DEF InsertEvicting
<1>2. PICK f \in SlotIds : f = Fresh
  BY <1>1, FreshWhat DEF Insertable
<1>3. PICK n \in Namespaces : n = req[r].ns
  BY <1>1, RequestWhat DEF Insertable
<1>4. /\ Shape /\ map[n] = None /\ f # None /\ map \in [Namespaces -> SlotIds \cup {None}]
      /\ draining \in [Namespaces -> SlotIds \cup {None}] /\ slots[f].ns = None
      /\ None \notin Namespaces /\ None \notin SlotIds
  BY <1>1, <1>2, <1>3, FreshWhat, RegistryAssumption DEF RegInv, Shape, Insertable
<1>5. v \in Mapped /\ (Abandoned(map[v]) \/ slots[map[v]].open)
  BY <1>1 DEF IdleOldest
<1>6. PICK i \in SlotIds : i = map[v]
  BY <1>4, <1>5 DEF Mapped
<1>7. v # n /\ v # None /\ slots[i].ns = v /\ ~slots[i].retired /\ i # f /\ i # None
  BY <1>4, <1>5, <1>6 DEF Mapped, RegInv, Order
<1>8. /\ slots' = [slots EXCEPT ![f].ns = n, ![i].retired = slots[i].open]
      /\ map' = [map EXCEPT ![v] = None, ![n] = f]
  BY <1>2, <1>3, <1>6 DEF InsertEvicting
<1>9. slots' \in [SlotIds -> SlotStates]
      /\ \A j \in SlotIds :
           /\ slots'[j].ns = (IF j = f THEN n ELSE slots[j].ns)
           /\ slots'[j].retired = (IF j = i THEN slots[i].open ELSE slots[j].retired)
           /\ slots'[j].open = slots[j].open /\ slots'[j].opener = slots[j].opener
           /\ slots'[j].quiesced = slots[j].quiesced /\ slots'[j].quiescer = slots[j].quiescer
           /\ slots'[j].handles = slots[j].handles /\ slots'[j].lock = slots[j].lock
           /\ slots'[j].task = slots[j].task
  BY <1>4, <1>7, <1>8, EvictedSlots
<1>10. /\ map' \in [Namespaces -> SlotIds \cup {None}] /\ map'[n] = f /\ map'[v] = None
       /\ \A m \in Namespaces : m # n /\ m # v => map'[m] = map[m]
  BY <1>4, <1>7, <1>8
<1>11. Bounded'
  <2>1. Mapped' = (Mapped \ {v}) \cup {n} /\ n \notin Mapped \ {v}
    BY <1>4, <1>7, <1>10 DEF Mapped
  <2>2. IsFiniteSet(Mapped) /\ Cardinality(Mapped) <= Cap
    BY DEF RegInv, Bounded
  <2>3. IsFiniteSet(Mapped \ {v}) /\ Cardinality(Mapped \ {v}) = Cardinality(Mapped) - 1
    BY <1>5, <2>2, FS_RemoveElement
  <2>4. /\ IsFiniteSet((Mapped \ {v}) \cup {n})
        /\ Cardinality((Mapped \ {v}) \cup {n}) = Cardinality(Mapped \ {v}) + 1
    BY <2>1, <2>3, FS_AddElement
  <2>5. Cardinality(Mapped) \in Nat /\ Cardinality(Mapped \ {v}) \in Nat
    BY <2>2, <2>3, FS_CardinalityType
  <2> QED BY <2>1, <2>2, <2>3, <2>4, <2>5 DEF Bounded
<1>12. CASE slots[i].open
  <2>1. /\ draining' = [draining EXCEPT ![v] = i]
        /\ req' = [req EXCEPT ![r].pc = "drain", ![r].slot = f, ![r].drain = i, ![r].then = "init"]
    BY <1>2, <1>6, <1>12 DEF InsertEvicting
  <2>2. /\ draining' \in [Namespaces -> SlotIds \cup {None}] /\ draining'[v] = i
        /\ \A m \in Namespaces : m # v => draining'[m] = draining[m]
    BY <1>4, <2>1
  <2>3. Routed(r, "drain", f, i, "init")
    BY <1>4, <2>1, EvictRoutes
  <2>4. Inserts(r, f, {i})
    <3>1. \A j \in SlotIds : slots'[j].retired <=> (slots[j].retired \/ j \in {i})
      BY <1>7, <1>9, <1>12
    <3>2. \A m \in Namespaces : m # n =>
            map'[m] = map[m] \/ (map'[m] = None /\ map[m] # None /\ map[m] \in {i})
      BY <1>6, <1>7, <1>10
    <3>3. \A m \in Namespaces :
            draining'[m] = draining[m] \/ (draining'[m] \in {i} /\ slots[draining'[m]].ns = m)
      BY <1>7, <2>2
    <3>4. \A j \in {i} : /\ j \in SlotIds /\ slots[j].open /\ ~slots[j].retired
                          /\ draining'[slots[j].ns] = j /\ map'[slots[j].ns] = None
      BY <1>7, <1>10, <1>12, <2>2
    <3> QED BY <1>1, <1>3, <1>9, <1>10, <2>2, <3>1, <3>2, <3>3, <3>4 DEF Inserts
  <2> QED BY <1>1, <1>2, <1>11, <2>3, <2>4, InsertStep
<1>13. CASE ~slots[i].open
  <2>1. /\ UNCHANGED draining
        /\ req' = [req EXCEPT ![r].pc = "init", ![r].slot = f]
    BY <1>2, <1>6, <1>13 DEF InsertEvicting
  <2>2. Routed(r, "init", f, req[r].drain, req[r].then)
    BY <1>4, <2>1, InsertRoutes
  <2>3. \A m \in Namespaces : m # n =>
          map'[m] = map[m] \/ (map'[m] = None /\ map[m] # None /\ Abandoned(map[m]))
    BY <1>5, <1>6, <1>7, <1>10, <1>13
  <2>4. \A j \in SlotIds : slots'[j].retired <=> slots[j].retired
    BY <1>7, <1>9, <1>13
  <2>5. Inserts(r, f, {})
    BY <1>1, <1>3, <1>4, <1>9, <1>10, <2>1, <2>3, <2>4 DEF Inserts
  <2>6. req[r].drain \in SlotIds \cup {None}
    BY DEF RegInv, Shape, ReqStates
  <2> QED BY <1>1, <1>2, <1>11, <2>2, <2>5, <2>6, InsertStep
<1> QED BY <1>12, <1>13

-----------------------------------------------------------------------------

\* The empty registry satisfies the invariant.
LEMMA RegStarts == ASSUME RegInit PROVE RegInv
<1> USE DEF RegInit
<1>1. /\ None \notin SlotIds /\ None \notin Requests /\ "task" # None
      /\ Cap \in Nat /\ MaxEvents \in Nat /\ "task" \notin Requests
  BY RegistryAssumption
<1>2. UnusedSlot \in SlotStates /\ Idle \in ReqStates
  BY DEF UnusedSlot, SlotStates, Idle, ReqStates, Pcs, AllKinds
<1>3. Shape
  BY <1>1, <1>2 DEF Shape
<1>4. \A r \in Requests : /\ req[r].pc = "idle" /\ req[r].slot = None /\ req[r].kind = "http"
  BY DEF Idle
<1>5. \A i \in SlotIds :
        /\ slots[i].ns = None /\ slots[i].open = FALSE /\ slots[i].opener = None
        /\ slots[i].retired = FALSE /\ slots[i].quiesced = FALSE /\ slots[i].quiescer = None
        /\ slots[i].lock = None /\ slots[i].task = "none"
  BY DEF UnusedSlot
<1>6. \A r \in Requests : ~Opens(r)
  BY <1>4 DEF Opens, Draining
<1>7. Held
  BY <1>4, <1>6 DEF Held, Draining, Holding
<1>8. Owners
  BY <1>1, <1>5 DEF Owners
<1>9. Life
  BY <1>1, <1>5 DEF Life
<1>10. Order /\ Drained /\ Alone
  BY <1>4, <1>5, <1>6 DEF Order, Drained, Alone
<1>11. Bounded
  <2>1. Mapped = {}
    BY DEF Mapped
  <2> QED BY <1>1, <2>1, FS_EmptySet DEF Bounded
<1> QED BY <1>3, <1>7, <1>8, <1>9, <1>10, <1>11 DEF RegInv

\* A request's own steps keep the invariant.
LEMMA RequestStepInductive ==
  ASSUME RegInv, NEW r \in Requests, RequestStep(r)
  PROVE  RegInv'
<1>1. CASE \/ InsertFound(r) \/ InsertRefused(r) \/ InsertFits(r) \/ InsertAtCapacity(r)
           \/ \E v \in Namespaces : InsertEvicting(r, v)
  BY <1>1, InsertFoundStep, InsertRefusedStep, InsertFitsStep, InsertAtCapacityStep,
     InsertEvictingStep
<1>2. CASE \/ InitSlot(r) \/ Claim(r) \/ Quiesce(r) \/ JoinTasks(r) \/ QuiesceLock(r) \/ Forget(r)
  BY <1>2, InitSlotStep, ClaimStep, QuiesceStep, JoinTasksStep, QuiesceLockStep, ForgetStep
<1>3. CASE \/ HttpLock(r) \/ BoltLock(r) \/ CompactBasis(r) \/ CompactLock(r) \/ LockTimeout(r)
  BY <1>3, HttpLockStep, BoltLockStep, CompactBasisStep, CompactLockStep, LockTimeoutStep
<1>4. CASE WriteDone(r) \/ Recover(r) \/ Pin(r) \/ Unpin(r)
  BY <1>4, WriteDoneStep, RecoverStep, PinStep, UnpinStep
<1> QED BY <1>1, <1>2, <1>3, <1>4 DEF RequestStep

\* Every step keeps the invariant.
LEMMA RegInductive ==
  ASSUME RegInv, [RegNext]_regVars
  PROVE  RegInv'
<1>1. CASE UNCHANGED regVars
  <2>1. /\ UNCHANGED <<slots, map, draining, restoring, epoch, req, events>>
    BY <1>1 DEF regVars
  <2>2. Shape' /\ Held' /\ Owners' /\ Life'
    BY <2>1 DEF RegInv, Shape, Held, Owners, Life, Opens, HttpHolds
  <2>3. Order' /\ Drained' /\ Alone' /\ Bounded'
    BY <2>1 DEF RegInv, Order, Drained, Alone, Bounded, Opens, Mapped
  <2> QED BY <2>2, <2>3 DEF RegInv
<1>2. ASSUME NEW r \in Requests, NEW k \in Kinds, NEW n \in Namespaces, Lookup(r, k, n)
      PROVE  RegInv'
  BY <1>2, LookupStep
<1>3. ASSUME NEW r \in Requests,
             RequestStep(r) \/ ClaimFails(r) \/ RecoverFails(r) \/ Disconnect(r)
      PROVE  RegInv'
  BY <1>3, RequestStepInductive, ClaimFailsStep, RecoverFailsStep, DisconnectStep
<1>4. ASSUME NEW i \in SlotIds, TaskStep(i) PROVE RegInv'
  BY <1>4, TaskLockStep, TaskDoneStep, TaskRecoverStep, AbortLandsStep DEF TaskStep
<1>5. ASSUME NEW n \in Namespaces, BeginRestore(n) \/ EndRestore(n) \/ PeerClaim(n)
      PROVE  RegInv'
  BY <1>5, BeginRestoreStep, EndRestoreStep, PeerClaimStep
<1> QED BY <1>1, <1>2, <1>3, <1>4, <1>5 DEF RegNext

\* RegInv holds of every reachable state of the registry.
LEMMA RegInvariant == RegSpec => []RegInv
<1>1. RegInit => RegInv
  BY RegStarts
<1>2. RegInv /\ [RegNext]_regVars => RegInv'
  BY RegInductive
<1> QED BY <1>1, <1>2, PTL DEF RegSpec

-----------------------------------------------------------------------------
(* Theorems.                                                               *)

\* Every slot, request and map entry keeps its shape, and the initialiser, the
\* quiescer and the lock holder of a slot are requests that do just that.
THEOREM RegTypeCorrect == RegSpec => []RegTypeOK
<1>1. RegInv => RegTypeOK
  <2> SUFFICES ASSUME RegInv PROVE RegTypeOK
    OBVIOUS
  <2>1. Shape /\ Owners
    BY DEF RegInv
  <2>2. \A i \in SlotIds, r \in Requests : slots[i].opener = r => req[r].pc # "init"
    BY <2>1 DEF Owners, Opens, Draining
  <2> QED BY <2>1, <2>2 DEF RegTypeOK, Shape, Owners
<1> QED BY <1>1, RegInvariant, PTL

\* Two open slots of a namespace: the earlier one was evicted and quiesced,
\* its tasks are over and no HTTP write has its mutex.
THEOREM OneIncarnationCorrect == RegSpec => []OneIncarnation
<1>1. RegInv => OneIncarnation
  <2> SUFFICES ASSUME RegInv, NEW i \in SlotIds, NEW j \in SlotIds, i < j,
                      slots[i].open, slots[j].open, slots[i].ns = slots[j].ns
               PROVE  /\ slots[i].retired /\ slots[i].quiesced
                      /\ slots[i].task \in {"gone", "aborted"}
                      /\ ~HttpHolds(i)
    BY DEF OneIncarnation
  <2>1. slots[i].quiesced
    BY DEF RegInv, Drained
  <2> QED BY <2>1 DEF RegInv, Life
<1> QED BY <1>1, RegInvariant, PTL

\* While a restore copies into a namespace, nothing of this process is open,
\* opening or draining there.
THEOREM RestoreAloneCorrect == RegSpec => []RestoreAlone
<1>1. RegInv => RestoreAlone
  <2> SUFFICES ASSUME RegInv, NEW n \in restoring
               PROVE  /\ map[n] = None /\ draining[n] = None
                      /\ \A i \in SlotIds : slots[i].ns = n =>
                           /\ slots[i].open => slots[i].quiesced
                           /\ slots[i].opener = None
                      /\ \A r \in Requests : req[r].ns = n /\ req[r].pc \in {"init", "claim"}
                           => slots[req[r].slot].open
    BY DEF RestoreAlone
  <2>1. map[n] = None /\ draining[n] = None /\ n \in Namespaces /\ None \notin SlotIds
    BY RegistryAssumption DEF RegInv, Alone, Shape
  <2>2. \A r \in Requests : req[r].ns = n /\ req[r].pc \notin {"idle", "insert"}
          => slots[req[r].slot].open
    <3> SUFFICES ASSUME NEW r \in Requests, req[r].ns = n, req[r].pc \notin {"idle", "insert"},
                        ~slots[req[r].slot].open
                 PROVE  FALSE
      OBVIOUS
    <3>1. req[r].slot \in SlotIds /\ req[r].slot # None
      BY RequestWhat
    <3> QED BY <2>1, <3>1 DEF RegInv, Order
  <2>3. ASSUME NEW i \in SlotIds, slots[i].ns = n, slots[i].open
        PROVE  slots[i].quiesced
    BY <2>1, <2>3 DEF RegInv, Order, Drained
  <2>4. ASSUME NEW i \in SlotIds, slots[i].ns = n, slots[i].opener # None
        PROVE  FALSE
    <3>1. PICK r \in Requests : slots[i].opener = r
      BY <2>4, SlotWhat
    <3>2. req[r].slot = i /\ Opens(r)
      BY <3>1 DEF RegInv, Owners
    <3>3. req[r].pc \notin {"idle", "insert"} /\ req[r].ns = n
      BY <2>4, <3>2, RequestWhat DEF Opens, Draining
    <3>4. slots[i].open
      BY <2>2, <3>2, <3>3
    <3> QED BY <2>4, <3>4 DEF RegInv, Life
  <2> QED BY <2>1, <2>2, <2>3, <2>4
<1> QED BY <1>1, RegInvariant, PTL

\* The map never holds more than max_namespaces, and an evicted incarnation is
\* in the draining map until it is quiesced.
THEOREM EvictedCorrect == RegSpec => []EvictedAreDraining
<1>1. RegInv => EvictedAreDraining
  BY DEF RegInv, Bounded, Drained, EvictedAreDraining
<1> QED BY <1>1, RegInvariant, PTL

\* No HTTP write and no maintenance task reopens the session of an incarnation
\* whose successor has opened.
THEOREM YieldsCorrect == RegSpec => HttpAndTasksYield
<1>1. RegInv /\ [RegNext]_regVars =>
        [\A i \in SlotIds : ClaimsThrough(i) /\ (HttpHolds(i) \/ slots[i].lock = "task")
                              => ~Superseded(i)]_regVars
  <2> SUFFICES ASSUME RegInv, NEW i \in SlotIds, slots[i].open,
                      HttpHolds(i) \/ slots[i].lock = "task", Superseded(i)
               PROVE  FALSE
    BY DEF ClaimsThrough
  <2>1. slots[i].quiesced
    BY DEF RegInv, Drained, Superseded, SlotIds
  <2> QED BY <2>1 DEF RegInv, Life
<1> QED BY <1>1, RegInvariant, PTL DEF RegSpec, HttpAndTasksYield
=============================================================================
