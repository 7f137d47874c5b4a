------------------------ MODULE PointerResolveProofs ------------------------
(***************************************************************************)
(* Theorems about PointerResolve where the store and the loads are Timely: *)
(* what a load returns, for any number of writers, readers, sweeps and     *)
(* faults, and when no live namespace is started over and no version       *)
(* published below the newest: where one writer, however often it crashes, *)
(* has a namespace born with the pointer family, and until the first sweep *)
(* begins, for everyone.                                                   *)
(***************************************************************************)
EXTENDS PointerResolve, Extrema, FiniteSetTheorems, TLAPS

Labels == Resolving \cup {"idle", "list", "stale", "session", "advise"}
Loads == [why : {"none", "open", "claim", "read"}, family : BOOLEAN, lo : Versions,
          n : Versions \cup {None}, seen : -1..MaxVersion, began : -1..MaxVersion]

\* Where a load has a cursor, and a writer a base.
Located == {"advisory_head", "probe", "pointer", "body", "loaded", "claim"}
Based == {"claim", "session", "advise"}
Held(c, l, b) ==
  /\ c \in Located => l.n \in Versions
  /\ c \in Based => b \in Versions
  /\ c = "claim" => b = l.n

\* What a namespace from before the family may come with.
Old == {v \in Versions : \E k \in Legacy : v <= k}

\* The shape of every variable.
ResTypeOK ==
  /\ ptrs \subseteq Versions /\ bodies \subseteq Versions /\ ancient \subseteq Old
  /\ advisory \in Versions \cup {None}
  /\ views \subseteq -1..MaxVersion /\ views # {}
  /\ pc \in [Procs -> Labels] /\ load \in [Procs -> Loads]
  /\ base \in [Procs -> Versions \cup {None}]
  /\ top \in -1..MaxVersion /\ rebooted \in BOOLEAN /\ regressed \in BOOLEAN
  /\ \A p \in Procs : Held(pc[p], load[p], base[p])

\* No namespace was started over and no version published below another.
Sound == ~rebooted /\ ~regressed

\* The newest version is there, and everything else is older.
Newest ==
  /\ ptrs \cup bodies \subseteq 0..top /\ views \subseteq -1..top
  /\ top >= 0 => top \in bodies
  /\ ptrs # {} => top \in ptrs
  /\ (\E u \in views : u >= 0) => top \in ptrs
  /\ advisory # None => advisory \in 0..top
  /\ top >= 0 /\ advisory = None => top \in ptrs
  /\ horizon # None => horizon \in 0..top
  /\ \A p \in Procs : base[p] # None => base[p] \in 0..top

\* What a LIST that answered u knows: no version above u has been reclaimed
\* unless it is from before the family, and the family has none missing from
\* u, or from its first pointer, on.
Known(u) ==
  /\ u <= top
  /\ (u + 1)..top \subseteq bodies \cup Old
  /\ \A x \in ptrs \cup {u} : 0 <= x /\ u <= x => (x + 1)..top \subseteq ptrs
  /\ u < 0 /\ top >= 0 /\ advisory = None => 0 \in ptrs

\* A load l at label c: what is left of its LIST's answer protects its cursor.
LoadOK(c, l) ==
  /\ l.began <= top
  /\ c \in Resolving => Known(l.seen)
  /\ c \in {"p0", "advisory", "advisory_head", "legacy"} => l.seen = -1 /\ ~l.family
  /\ c \in Located => l.n <= top /\ l.seen <= l.n
  /\ c \in {"probe", "pointer"} => l.family /\ top \in ptrs
  /\ c = "probe" => (l.n + 1)..top \subseteq ptrs
  /\ c \in {"pointer", "body", "loaded"} /\ l.family => l.n >= l.began
  /\ c \in {"body", "loaded"} /\ ~l.family => l.seen = -1
  /\ c = "list" => l.seen = -1 /\ ~l.family

Resolved ==
  /\ Newest
  /\ \A u \in views : Known(u)
  /\ \A p \in Procs : LoadOK(pc[p], load[p])
ResolveInv == ResTypeOK /\ (Sound => Resolved)

\* Nothing is published while the only writer loads, and its session stands on the
\* newest version; it takes a namespace for new only if it is, or if p0 says not.
Alone(p) ==
  /\ pc[p] \in Resolving \cup {"list"} => load[p].began = top
  /\ pc[p] \in {"session", "advise"} => base[p] = top
  /\ pc[p] = "not_found" /\ load[p].why = "open"
       => top < 0 \/ (load[p].seen = -1 /\ 0 \in ptrs)
SingleInv == Sound /\ \A p \in Writers : Alone(p)

-----------------------------------------------------------------------------
(* Shapes.                                                                 *)

\* A nonempty set of LIST answers has an oldest one, and Min picks it.
LEMMA OldestView ==
  ASSUME NEW m \in Nat, NEW S, S \subseteq -1..m, S # {}
  PROVE  Min(S) \in S /\ \A y \in S : Min(S) <= y
<1> DEFINE T == {x + 1 : x \in S}
<1>1. T \subseteq Nat /\ T # {}
  <2>1. \A x \in S : x + 1 \in Nat
    OBVIOUS
  <2>2. PICK x : x \in S
    OBVIOUS
  <2> QED BY <2>1, <2>2
<1>2. Min(T) \in T /\ \A y \in T : Min(T) <= y
  <2> HIDE DEF T
  <2> QED BY <1>1, LeastNat
<1>3. PICK x \in S : Min(T) = x + 1
  BY <1>2
<1>4. \A y \in S : x <= y
  <2> SUFFICES ASSUME NEW y \in S PROVE x <= y
    OBVIOUS
  <2>1. y + 1 \in T
    OBVIOUS
  <2>2. x + 1 <= y + 1
    BY <1>2, <1>3, <2>1
  <2>3. x \in -1..m /\ y \in -1..m
    OBVIOUS
  <2> HIDE DEF T
  <2> QED BY <2>2, <2>3
<1> QED BY <1>4 DEF Min

\* What a step of process p leaves alone of the others.
Moves(p) ==
  /\ pc' \in [Procs -> Labels] /\ load' \in [Procs -> Loads]
  /\ base' \in [Procs -> Versions \cup {None}]
  /\ Held(pc'[p], load'[p], base'[p])
  /\ \A q \in Procs \ {p} : pc'[q] = pc[q] /\ load'[q] = load[q] /\ base'[q] = base[q]

\* The loads a request may leave behind.
LEMMA LoadTypes ==
  ASSUME ResTypeOK, NEW l \in Loads
  PROVE  /\ NoLoad \in Loads
         /\ \A r \in {"open", "claim", "read"} : [NoLoad EXCEPT !.why = r, !.began = top] \in Loads
         /\ \A v \in Versions : Found(l, v) \in Loads /\ Found(l, v).n = v
         /\ \A v \in Versions : /\ Found([l EXCEPT !.seen = v], v) \in Loads
                                /\ Found([l EXCEPT !.seen = v], v).n = v
         /\ \A v \in Versions \cup {None} : [l EXCEPT !.n = v] \in Loads /\ [l EXCEPT !.n = v].n = v
<1>1. top \in -1..MaxVersion /\ MaxVersion \in Nat /\ 0 \in Versions /\ -1 \in -1..MaxVersion
      /\ Versions \subseteq -1..MaxVersion
  BY ConstantsAssumption DEF ResTypeOK, Versions
<1> HIDE DEF Versions
<1>2. NoLoad \in Loads
  BY <1>1 DEF NoLoad, Loads
<1>3. \A r \in {"open", "claim", "read"} : [NoLoad EXCEPT !.why = r, !.began = top] \in Loads
  BY <1>1 DEF NoLoad, Loads
<1>4. \A v \in Versions : Found(l, v) \in Loads /\ Found(l, v).n = v
  BY DEF Found, Loads
<1>5. ASSUME NEW v \in Versions
      PROVE  Found([l EXCEPT !.seen = v], v) \in Loads /\ Found([l EXCEPT !.seen = v], v).n = v
  <2>1. v \in -1..MaxVersion
    BY <1>1
  <2>2. PICK k : k = [l EXCEPT !.seen = v]
    OBVIOUS
  <2>3. k \in Loads
    BY <2>1, <2>2 DEF Loads
  <2> QED BY <2>2, <2>3 DEF Found, Loads
<1>6. \A v \in Versions \cup {None} : [l EXCEPT !.n = v] \in Loads /\ [l EXCEPT !.n = v].n = v
  BY DEF Loads
<1> QED BY <1>2, <1>3, <1>4, <1>5, <1>6

\* The requests of a load change neither the store nor a base.
LEMMA LoadStepType ==
  ASSUME ResTypeOK, NEW p \in Procs, StartLoad(p) \/ LoadStep(p)
  PROVE  Moves(p) /\ UNCHANGED <<store, sweeper, history>>
<1>1. /\ pc \in [Procs -> Labels] /\ load \in [Procs -> Loads]
      /\ base \in [Procs -> Versions \cup {None}] /\ Held(pc[p], load[p], base[p])
      /\ ptrs \subseteq Versions /\ advisory \in Versions \cup {None}
      /\ \A v \in views : v >= 0 => v \in Versions
      /\ 0 \in Versions
  <2>1. /\ pc \in [Procs -> Labels] /\ load \in [Procs -> Loads]
        /\ base \in [Procs -> Versions \cup {None}] /\ Held(pc[p], load[p], base[p])
        /\ ptrs \subseteq Versions /\ advisory \in Versions \cup {None}
        /\ views \subseteq -1..MaxVersion
    BY DEF ResTypeOK
  <2>2. (\A v \in views : v >= 0 => v \in Versions) /\ 0 \in Versions
    <3>1. views \subseteq -1..MaxVersion /\ MaxVersion \in Nat
      BY <2>1, ConstantsAssumption
    <3>2. \A v \in views : v \in Int /\ v <= MaxVersion
      BY <3>1
    <3> QED BY <3>1, <3>2 DEF Versions
  <2> QED BY <2>1, <2>2
<1>2. PICK l \in Loads : l = load[p]
  BY <1>1
<1>3. \A c \in Labels, k \in Loads, b \in Versions \cup {None} :
        /\ pc' = [pc EXCEPT ![p] = c] /\ Held(c, k, b)
        /\ load' = [load EXCEPT ![p] = k] \/ (load' = load /\ k = l)
        /\ base' = [base EXCEPT ![p] = b] \/ (base' = base /\ b = base[p])
        => Moves(p)
  BY <1>1, <1>2 DEF Moves
<1>4. /\ NoLoad \in Loads
      /\ \A r \in {"open", "claim", "read"} : [NoLoad EXCEPT !.why = r, !.began = top] \in Loads
      /\ \A v \in Versions : Found(l, v) \in Loads /\ Found(l, v).n = v
      /\ \A v \in Versions : /\ Found([l EXCEPT !.seen = v], v) \in Loads
                             /\ Found([l EXCEPT !.seen = v], v).n = v
      /\ \A v \in Versions \cup {None} : [l EXCEPT !.n = v] \in Loads /\ [l EXCEPT !.n = v].n = v
  BY LoadTypes
<1>5. base[p] \in Versions \cup {None}
  BY <1>1
<1>6. StartLoad(p) \/ LoadStep(p) => UNCHANGED <<store, sweeper, history>>
  BY DEF StartLoad, LoadStep, List, HeadP0, GetAdvisory, HeadAdvisory, GetLegacy, Probe, GetPointer,
     GetBody, RequestFails, LoadFails, LoadSucceeds, Request
<1>7. CASE StartLoad(p)
  <2>1. PICK r \in {"open", "claim", "read"} : Load(p, r)
    BY <1>7 DEF StartLoad
  <2>2. base' = base
    BY <1>7 DEF StartLoad
  <2>3. Held("list", [NoLoad EXCEPT !.why = r, !.began = top], base[p])
    BY DEF Held, Located, Based
  <2> QED BY <1>3, <1>4, <1>5, <1>6, <1>7, <2>1, <2>2, <2>3 DEF Load, Goto, Labels
<1>8. CASE List(p)
  <2>1. PICK v \in views :
          \/ /\ v >= 0 /\ Goto(p, "probe")
             /\ load' = [load EXCEPT ![p] = Found([@ EXCEPT !.seen = v], v)]
          \/ v < 0 /\ Goto(p, "p0") /\ UNCHANGED load
    BY <1>8 DEF List
  <2>2. base' = base
    BY <1>8 DEF List, Request
  <2>3. CASE v >= 0 /\ Goto(p, "probe")
             /\ load' = [load EXCEPT ![p] = Found([@ EXCEPT !.seen = v], v)]
    <3>1. v \in Versions
      BY <1>1, <2>3
    <3>2. PICK k \in Loads : k = Found([l EXCEPT !.seen = v], v) /\ k.n = v
      BY <1>4, <3>1
    <3>3. load' = [load EXCEPT ![p] = k]
      BY <1>2, <2>3, <3>2
    <3>4. Held("probe", k, base[p])
      BY <3>1, <3>2 DEF Held, Located, Based
    <3> QED BY <1>3, <1>5, <1>6, <1>8, <2>2, <2>3, <3>3, <3>4 DEF Goto, Labels, Resolving, LoadStep
  <2>4. CASE v < 0 /\ Goto(p, "p0") /\ UNCHANGED load
    <3>1. Held("p0", l, base[p])
      BY DEF Held, Located, Based
    <3> QED BY <1>3, <1>5, <1>6, <1>8, <2>2, <2>4, <3>1 DEF Goto, Labels, Resolving, LoadStep
  <2> QED BY <2>1, <2>3, <2>4
<1>9. CASE HeadP0(p) \/ HeadAdvisory(p)
  <2>1. \/ \E v \in Versions : StartProbe(p, v)
        \/ \E c \in {"advisory", "legacy"} : Goto(p, c) /\ UNCHANGED load
    BY <1>1, <1>9 DEF HeadP0, HeadAdvisory
  <2>2. base' = base
    BY <1>9 DEF HeadP0, HeadAdvisory, Request
  <2>3. ASSUME NEW v \in Versions, StartProbe(p, v) PROVE Moves(p)
    <3>1. PICK k \in Loads : k = Found(l, v) /\ k.n = v
      BY <1>4
    <3>2. load' = [load EXCEPT ![p] = k] /\ pc' = [pc EXCEPT ![p] = "probe"]
      BY <1>2, <2>3, <3>1 DEF StartProbe, Goto
    <3>3. Held("probe", k, base[p])
      BY <3>1 DEF Held, Located, Based
    <3> QED BY <1>3, <1>5, <2>2, <3>2, <3>3 DEF Labels, Resolving
  <2>4. ASSUME NEW c \in {"advisory", "legacy"}, Goto(p, c), UNCHANGED load PROVE Moves(p)
    <3>1. Held(c, l, base[p])
      BY DEF Held, Located, Based
    <3> QED BY <1>3, <1>5, <2>2, <2>4, <3>1 DEF Goto, Labels, Resolving
  <2> QED BY <1>6, <1>9, <2>1, <2>3, <2>4 DEF LoadStep
<1>10. CASE GetAdvisory(p) \/ GetLegacy(p)
  <2>1. PICK k \in Loads : k = [l EXCEPT !.n = advisory] /\ k.n = advisory
    BY <1>1, <1>4
  <2>2. /\ load' = [load EXCEPT ![p] = k] /\ base' = base
        /\ \E c \in {"legacy", "not_found", "advisory_head", "body"} :
             /\ pc' = [pc EXCEPT ![p] = c]
             /\ c \in {"advisory_head", "body"} => advisory # None
    BY <1>2, <1>10, <2>1 DEF GetAdvisory, GetLegacy, Cursor, Request, Goto
  <2>3. \A c \in {"legacy", "not_found", "advisory_head", "body"} :
          (c \in {"advisory_head", "body"} => advisory # None) => Held(c, k, base[p])
    BY <1>1, <2>1 DEF Held, Located, Based
  <2>4. {"legacy", "not_found", "advisory_head", "body"} \subseteq Labels
    BY DEF Labels, Resolving
  <2> QED BY <1>3, <1>5, <1>6, <1>10, <2>2, <2>3, <2>4 DEF LoadStep
<1>11. CASE Probe(p)
  <2>1. pc[p] = "probe" /\ l.n \in Versions /\ base' = base
    BY <1>1, <1>2, <1>11 DEF Probe, Held, Located, Request
  <2>2. ASSUME l.n + 1 \in ptrs, Cursor(p, l.n + 1), UNCHANGED pc PROVE Moves(p)
    <3>1. PICK k \in Loads : k = [l EXCEPT !.n = l.n + 1] /\ k.n = l.n + 1
      BY <1>1, <1>4, <2>2
    <3>2. load' = [load EXCEPT ![p] = k] /\ pc' = [pc EXCEPT ![p] = "probe"]
      BY <1>1, <1>2, <2>1, <2>2, <3>1 DEF Cursor
    <3>3. Held("probe", k, base[p])
      BY <1>1, <2>2, <3>1 DEF Held, Located, Based
    <3>4. "probe" \in Labels /\ base' = base
      BY <2>1 DEF Labels, Resolving
    <3> QED BY <1>3, <1>5, <3>1, <3>2, <3>3, <3>4, Zenon
  <2>3. ASSUME NEW c \in {"pointer", "stale"}, Goto(p, c), UNCHANGED load PROVE Moves(p)
    <3>1. Held(c, l, base[p])
      BY <2>1 DEF Held, Located, Based
    <3> QED BY <1>3, <1>5, <2>1, <2>3, <3>1 DEF Goto, Labels, Resolving
  <2>4. \/ l.n + 1 \in ptrs /\ Cursor(p, l.n + 1) /\ UNCHANGED pc
        \/ \E c \in {"pointer", "stale"} : Goto(p, c) /\ UNCHANGED load
    BY <1>2, <1>11 DEF Probe
  <2> QED BY <1>6, <1>11, <2>2, <2>3, <2>4 DEF LoadStep
<1>12. CASE GetPointer(p) \/ GetBody(p)
  <2>1. /\ load' = load /\ base' = base /\ l.n \in Versions
        /\ \E c \in {"body", "not_found", "loaded"} : pc' = [pc EXCEPT ![p] = c]
    BY <1>1, <1>2, <1>12 DEF GetPointer, GetBody, Request, Goto, Held, Located
  <2>2. \A c \in {"body", "not_found", "loaded"} : Held(c, l, base[p])
    BY <2>1 DEF Held, Located, Based
  <2>3. {"body", "not_found", "loaded"} \subseteq Labels
    BY DEF Labels, Resolving
  <2> QED BY <1>3, <1>5, <1>6, <1>12, <2>1, <2>2, <2>3 DEF LoadStep
<1>13. CASE RequestFails(p) \/ LoadFails(p)
  <2>1. /\ base' = base
        /\ \/ load' = load /\ \E c \in {"advisory", "legacy"} : pc' = [pc EXCEPT ![p] = c]
           \/ load' = [load EXCEPT ![p] = NoLoad] /\ pc' = [pc EXCEPT ![p] = "idle"]
    BY <1>13 DEF RequestFails, LoadFails, EndLoad, Request, Goto
  <2>2. (\A c \in {"advisory", "legacy"} : Held(c, l, base[p])) /\ Held("idle", NoLoad, base[p])
    BY DEF Held, Located, Based
  <2>3. {"advisory", "legacy", "idle"} \subseteq Labels
    BY DEF Labels, Resolving
  <2> QED BY <1>3, <1>4, <1>5, <1>6, <1>13, <2>1, <2>2, <2>3 DEF LoadStep
<1>14. CASE LoadSucceeds(p)
  <2>1. l.n \in Versions
    BY <1>1, <1>2, <1>14 DEF LoadSucceeds, Held, Located
  <2>2. ASSUME Load(p, "claim"), UNCHANGED base PROVE Moves(p)
    <3>1. PICK k \in Loads : k = [NoLoad EXCEPT !.why = "claim", !.began = top]
      BY <1>4
    <3>2. Held("list", k, base[p]) /\ "list" \in Labels
      BY DEF Held, Located, Based, Labels
    <3>3. pc' = [pc EXCEPT ![p] = "list"] /\ load' = [load EXCEPT ![p] = k] /\ base' = base
      BY <2>2, <3>1 DEF Load, Goto
    <3> QED BY <1>3, <1>5, <3>2, <3>3, Zenon
  <2>3. ASSUME Goto(p, "claim"), UNCHANGED load, base' = [base EXCEPT ![p] = l.n] PROVE Moves(p)
    <3>1. Held("claim", l, l.n) /\ "claim" \in Labels
      BY <2>1 DEF Held, Located, Based, Labels, Resolving
    <3>2. pc' = [pc EXCEPT ![p] = "claim"] /\ load' = load /\ l.n \in Versions \cup {None}
      BY <2>1, <2>3 DEF Goto
    <3> QED BY <1>3, <2>3, <3>1, <3>2, Zenon
  <2>4. ASSUME EndLoad(p), Goto(p, "idle"), UNCHANGED base PROVE Moves(p)
    <3>1. Held("idle", NoLoad, base[p]) /\ "idle" \in Labels
      BY DEF Held, Located, Based, Labels
    <3>2. pc' = [pc EXCEPT ![p] = "idle"] /\ load' = [load EXCEPT ![p] = NoLoad] /\ base' = base
      BY <2>4 DEF EndLoad, Goto
    <3> QED BY <1>3, <1>4, <1>5, <3>1, <3>2, Zenon
  <2> QED BY <1>2, <1>6, <1>14, <2>2, <2>3, <2>4 DEF LoadStep, LoadSucceeds
<1> QED BY <1>7, <1>8, <1>9, <1>10, <1>11, <1>12, <1>13, <1>14 DEF LoadStep

\* What publishing version v leaves in views and top.
LEMMA Published ==
  ASSUME ResTypeOK, NEW v \in Versions, PublishVersion(v)
  PROVE  /\ ptrs' = ptrs \cup {v} /\ bodies' = bodies \cup {v}
         /\ ptrs' \subseteq Versions /\ bodies' \subseteq Versions
         /\ Max(ptrs') \in ptrs' /\ \A x \in ptrs' : x <= Max(ptrs')
         /\ views' = views \cup {Max(ptrs')} /\ views' \subseteq -1..MaxVersion /\ views' # {}
         /\ top' \in -1..MaxVersion /\ top' >= v /\ top' = IF v > top THEN v ELSE top
<1>1. /\ ptrs' = ptrs \cup {v} /\ bodies' = bodies \cup {v} /\ views' = views \cup {Max(ptrs')}
      /\ top' = IF v > top THEN v ELSE top
  BY DEF PublishVersion, Higher
<1>2. /\ ptrs' \subseteq 0..MaxVersion /\ ptrs' # {} /\ bodies' \subseteq 0..MaxVersion
      /\ views \subseteq -1..MaxVersion /\ top \in -1..MaxVersion /\ v \in 0..MaxVersion
      /\ MaxVersion \in Nat
  BY <1>1, ConstantsAssumption DEF ResTypeOK, Versions
<1>3. Max(ptrs') \in ptrs' /\ \A x \in ptrs' : x <= Max(ptrs')
  BY <1>2, BoundedMax
<1>4. Max(ptrs') \in 0..MaxVersion
  BY <1>2, <1>3
<1>5. views' \subseteq -1..MaxVersion /\ views' # {}
  <2>1. Max(ptrs') \in -1..MaxVersion
    BY <1>2, <1>4
  <2> QED BY <1>1, <1>2, <2>1
<1>6. top' \in -1..MaxVersion /\ top' >= v
  BY <1>1, <1>2
<1> QED BY <1>1, <1>2, <1>3, <1>5, <1>6 DEF Versions

\* A writer's own steps.
LEMMA WriterStepType ==
  ASSUME ResTypeOK, NEW p \in Procs, Close(p) \/ Bootstrap(p) \/ Publish(p) \/ PutAdvisory(p)
  PROVE  Moves(p) /\ ResTypeOK'
<1>1. /\ pc \in [Procs -> Labels] /\ load \in [Procs -> Loads]
      /\ base \in [Procs -> Versions \cup {None}] /\ Held(pc[p], load[p], base[p])
  BY DEF ResTypeOK
<1>2. /\ ptrs \subseteq Versions /\ bodies \subseteq Versions /\ advisory \in Versions \cup {None}
      /\ views \subseteq -1..MaxVersion /\ views # {} /\ top \in -1..MaxVersion
      /\ rebooted \in BOOLEAN /\ regressed \in BOOLEAN /\ 0 \in Versions /\ ancient \subseteq Old
  BY ConstantsAssumption DEF ResTypeOK, Versions
<1>3. NoLoad \in Loads /\ load[p] \in Loads
  BY <1>1, LoadTypes
<1>4. \A c \in Labels, k \in Loads, b \in Versions \cup {None} :
        /\ pc' = [pc EXCEPT ![p] = c] /\ Held(c, k, b)
        /\ load' = [load EXCEPT ![p] = k] \/ (load' = load /\ k = load[p])
        /\ base' = [base EXCEPT ![p] = b] \/ (base' = base /\ b = base[p])
        => Moves(p)
  BY <1>1, <1>3 DEF Moves
<1>5. \A b \in Versions \cup {None} : Held("idle", NoLoad, b)
  BY DEF Held, Located, Based
<1>6. \A b \in Versions, l \in Loads : Held("advise", l, b) /\ Held("session", l, b)
  BY DEF Held, Located, Based
<1>7. {"idle", "advise", "session"} \subseteq Labels
  BY DEF Labels
<1>8. base[p] \in Versions \cup {None}
  BY <1>1
<1>9. ASSUME Moves(p),
             ptrs' \subseteq Versions, bodies' \subseteq Versions, advisory' \in Versions \cup {None},
             views' \subseteq -1..MaxVersion, views' # {}, top' \in -1..MaxVersion,
             rebooted' \in BOOLEAN, regressed' \in BOOLEAN
      PROVE  ResTypeOK'
  <2>1. \A q \in Procs : Held(pc'[q], load'[q], base'[q])
    BY <1>9 DEF Moves, ResTypeOK
  <2>2. ancient' \subseteq Old
    BY <1>2 DEF Close, Bootstrap, Publish, PutAdvisory, store
  <2> QED BY <1>9, <2>1, <2>2 DEF Moves, ResTypeOK, Held
<1>10. CASE Close(p)
  <2>1. /\ pc' = [pc EXCEPT ![p] = "idle"] /\ load' = [load EXCEPT ![p] = NoLoad]
        /\ base' = [base EXCEPT ![p] = None] /\ UNCHANGED <<store, history>>
    BY <1>10 DEF Close, Goto, EndLoad
  <2>2. Moves(p)
    BY <1>3, <1>4, <1>5, <1>7, <2>1
  <2> QED BY <1>2, <1>9, <2>1, <2>2 DEF store, history
<1>11. CASE Bootstrap(p)
  <2>1. load' = [load EXCEPT ![p] = NoLoad] /\ advisory' = advisory /\ regressed' = regressed
    BY <1>11 DEF Bootstrap, EndLoad
  <2>2. CASE 0 \in ptrs
    <3>1. /\ pc' = [pc EXCEPT ![p] = "idle"] /\ bodies' = bodies \cup {0}
          /\ UNCHANGED <<ptrs, views, top, rebooted, base>>
      BY <1>11, <2>2 DEF Bootstrap, Goto
    <3>2. Moves(p)
      BY <1>3, <1>4, <1>5, <1>7, <1>8, <2>1, <3>1
    <3> QED BY <1>2, <1>9, <2>1, <3>1, <3>2
  <2>3. CASE 0 \notin ptrs
    <3>1. /\ PublishVersion(0) /\ rebooted' = (rebooted \/ top >= 0)
          /\ pc' = [pc EXCEPT ![p] = "advise"] /\ base' = [base EXCEPT ![p] = 0]
      BY <1>11, <2>3 DEF Bootstrap, Goto
    <3>2. Moves(p)
      BY <1>2, <1>3, <1>4, <1>6, <1>7, <2>1, <3>1
    <3>3. /\ ptrs' \subseteq Versions /\ bodies' \subseteq Versions
          /\ views' \subseteq -1..MaxVersion /\ views' # {} /\ top' \in -1..MaxVersion
      BY <1>2, <3>1, Published
    <3>4. rebooted' \in BOOLEAN
      BY <3>1
    <3> QED BY <1>2, <1>9, <2>1, <3>2, <3>3, <3>4
  <2> QED BY <2>2, <2>3
<1>12. CASE Publish(p)
  <2>1. PICK v : v = base[p] + 1
    OBVIOUS
  <2>2. /\ load' = [load EXCEPT ![p] = NoLoad] /\ advisory' = advisory /\ rebooted' = rebooted
        /\ v <= MaxVersion /\ pc[p] \in Based
    BY <1>12, <2>1 DEF Publish, EndLoad, Based
  <2>3. v \in Versions
    <3>1. base[p] \in Versions
      BY <1>1, <2>2 DEF Held
    <3> QED BY <2>1, <2>2, <3>1, ConstantsAssumption DEF Versions
  <2>4. CASE v \in bodies \cup ptrs
    <3>1. /\ pc' = [pc EXCEPT ![p] = "idle"] /\ base' = [base EXCEPT ![p] = None]
          /\ bodies' = bodies \cup {v} /\ UNCHANGED <<ptrs, views, top, regressed>>
      BY <1>12, <2>1, <2>4 DEF Publish, Goto
    <3>2. Moves(p)
      BY <1>3, <1>4, <1>5, <1>7, <2>2, <3>1
    <3> QED BY <1>2, <1>9, <2>2, <2>3, <3>1, <3>2
  <2>5. CASE v \notin bodies \cup ptrs
    <3>1. /\ PublishVersion(v) /\ regressed' = (regressed \/ v <= top)
          /\ pc' = [pc EXCEPT ![p] = "advise"] /\ base' = [base EXCEPT ![p] = v]
      BY <1>12, <2>1, <2>5 DEF Publish, Goto
    <3>2. Moves(p)
      BY <1>3, <1>4, <1>6, <1>7, <2>2, <2>3, <3>1
    <3>3. /\ ptrs' \subseteq Versions /\ bodies' \subseteq Versions
          /\ views' \subseteq -1..MaxVersion /\ views' # {} /\ top' \in -1..MaxVersion
      BY <2>3, <3>1, Published
    <3>4. regressed' \in BOOLEAN
      BY <3>1
    <3> QED BY <1>2, <1>9, <2>2, <3>2, <3>3, <3>4
  <2> QED BY <2>4, <2>5
<1>13. CASE PutAdvisory(p)
  <2>1. base[p] \in Versions
    BY <1>1, <1>13 DEF PutAdvisory, Held, Based
  <2>2. /\ pc' = [pc EXCEPT ![p] = "session"] /\ load' = load /\ base' = base
        /\ advisory' = base[p] /\ UNCHANGED <<ptrs, bodies, views, history>>
    BY <1>13 DEF PutAdvisory, Goto
  <2>3. Moves(p)
    BY <1>3, <1>4, <1>6, <1>7, <1>8, <2>1, <2>2
  <2> QED BY <1>2, <1>9, <2>1, <2>2, <2>3 DEF history
<1> QED BY <1>10, <1>11, <1>12, <1>13

\* The janitor's steps and the LIST's.
LEMMA StoreStepType ==
  ASSUME ResTypeOK, SweepStart \/ ReclaimPointer \/ ReclaimBody \/ SweepEnd \/ ListCatchesUp
  PROVE  ResTypeOK' /\ views' \subseteq views
<1>1. CASE SweepStart \/ ReclaimPointer \/ ReclaimBody \/ SweepEnd
  <2>1. /\ UNCHANGED <<advisory, views, pc, load, base, top, rebooted, regressed>>
        /\ ptrs' \subseteq ptrs /\ bodies' \subseteq bodies /\ ancient' \subseteq ancient
    BY <1>1 DEF SweepStart, ReclaimPointer, ReclaimBody, SweepEnd, store, history
  <2> QED BY <2>1 DEF ResTypeOK, Held
<1>2. CASE ListCatchesUp
  <2>1. /\ UNCHANGED <<ptrs, bodies, ancient, advisory, pc, load, base, top, rebooted, regressed>>
        /\ views' = views \ {Min(views)} /\ Cardinality(views) > 1
    BY <1>2 DEF ListCatchesUp, history
  <2>2. views' # {}
    <3> SUFFICES ASSUME views' = {} PROVE FALSE
      OBVIOUS
    <3>1. views = {Min(views)}
      BY <2>1 DEF ResTypeOK
    <3>2. Cardinality({Min(views)}) = 1
      BY FS_Singleton
    <3> QED BY <2>1, <3>1, <3>2
  <2> QED BY <2>1, <2>2 DEF ResTypeOK, Held
<1> QED BY <1>1, <1>2

\* Every step keeps the shape of the state.
LEMMA ResTypeStep ==
  ASSUME ResTypeOK, [Next]_vars
  PROVE  ResTypeOK'
<1>1. ASSUME NEW p \in Procs, StartLoad(p) \/ LoadStep(p) PROVE ResTypeOK'
  <2>1. Moves(p) /\ UNCHANGED <<store, history>>
    BY <1>1, LoadStepType
  <2>2. \A q \in Procs : Held(pc'[q], load'[q], base'[q])
    BY <2>1 DEF Moves, ResTypeOK
  <2> QED BY <2>1, <2>2 DEF Moves, ResTypeOK, Held, store, history
<1>2. ASSUME NEW p \in Writers, Close(p) \/ Bootstrap(p) \/ Publish(p) \/ PutAdvisory(p)
      PROVE  ResTypeOK'
  BY <1>2, WriterStepType DEF Procs
<1>3. CASE SweepStart \/ ReclaimPointer \/ ReclaimBody \/ SweepEnd \/ ListCatchesUp
  BY <1>3, StoreStepType
<1>4. CASE UNCHANGED vars
  BY <1>4 DEF vars, store, history, ResTypeOK, Held
<1> QED BY <1>1, <1>2, <1>3, <1>4 DEF Next

-----------------------------------------------------------------------------
(* What a load knows stays true.                                           *)

\* Nothing but the next version is added.
Extends ==
  /\ top' \in {top, top + 1} /\ ptrs \subseteq ptrs' /\ bodies \subseteq bodies'
  /\ top' # top => top' \in ptrs' /\ top' \in bodies'
  /\ \A x \in ptrs' : x \in ptrs \/ x = top'
  /\ advisory' = None => advisory = None

\* Version v is reclaimed, as a pointer or as a body.
Reclaims(v) ==
  /\ top' = top /\ advisory' = advisory
  /\ ptrs' \subseteq ptrs /\ ptrs \ {v} \subseteq ptrs'
  /\ bodies' \subseteq bodies /\ bodies \ {v} \subseteq bodies'

\* A publication takes nothing away from what a LIST's answer says.
LEMMA KnownExtends ==
  ASSUME top \in Int, top >= -1, ptrs \subseteq Int, Extends, NEW u \in Int, Known(u)
  PROVE  Known(u)'
<1>1. top' \in Int /\ top' >= top
  BY DEF Extends
<1>2. u <= top'
  BY <1>1 DEF Known
<1>3. (u + 1)..top' \subseteq bodies' \cup Old
  <2> SUFFICES ASSUME NEW y \in (u + 1)..top' PROVE y \in bodies' \cup Old
    OBVIOUS
  <2>1. (y = top' /\ top' # top) \/ y \in (u + 1)..top
    BY <1>1 DEF Extends
  <2> QED BY <2>1 DEF Extends, Known
<1>4. ASSUME NEW x \in ptrs' \cup {u}, 0 <= x, u <= x, NEW y \in (x + 1)..top'
      PROVE  y \in ptrs'
  <2>1. x \in ptrs \cup {u} \/ x = top'
    BY DEF Extends
  <2>2. x \in Int
    BY <1>1, <2>1
  <2>3. CASE x = top'
    <3>1. \A t \in Int : \A z \in (t + 1)..t : FALSE
      OBVIOUS
    <3>2. y \in (top' + 1)..top'
      BY <2>3
    <3> QED BY <1>1, <3>1, <3>2, Zenon
  <2>4. CASE x \in ptrs \cup {u}
    <3>1. (y = top' /\ top' # top) \/ y \in (x + 1)..top
      BY <1>1, <2>2 DEF Extends
    <3>2. (x + 1)..top \subseteq ptrs
      BY <1>4, <2>4 DEF Known
    <3> QED BY <3>1, <3>2 DEF Extends
  <2> QED BY <2>1, <2>3, <2>4
<1>5. u < 0 /\ top' >= 0 /\ advisory' = None => 0 \in ptrs'
  <2>1. CASE top >= 0
    BY <2>1 DEF Known, Extends
  <2>2. CASE top < 0
    BY <1>1, <2>2 DEF Extends
  <2> QED BY <2>1, <2>2
<1> QED BY <1>2, <1>3, <1>4, <1>5 DEF Known

\* Nor does a reclamation at or below it.
LEMMA KnownReclaims ==
  ASSUME top \in Int, NEW u \in Int, NEW v \in Nat, v <= u, Reclaims(v), ptrs \subseteq Int, Known(u)
  PROVE  Known(u)'
<1>1. (u + 1)..top' \subseteq bodies' \cup Old
  BY DEF Known, Reclaims
<1>2. ASSUME NEW x \in ptrs' \cup {u}, 0 <= x, u <= x, NEW y \in (x + 1)..top'
      PROVE  y \in ptrs'
  <2>1. x \in ptrs \cup {u} /\ x \in Int /\ top' = top
    BY DEF Reclaims
  <2>2. (x + 1)..top \subseteq ptrs
    BY <1>2, <2>1 DEF Known
  <2>3. y # v
    BY <1>2, <2>1
  <2> QED BY <2>1, <2>2, <2>3 DEF Reclaims
<1>3. u <= top' /\ (u < 0 /\ top' >= 0 /\ advisory' = None => 0 \in ptrs')
  BY DEF Known, Reclaims
<1> QED BY <1>1, <1>2, <1>3 DEF Known

\* A load elsewhere survives a publication.
LEMMA LoadExtends ==
  ASSUME ResTypeOK, Extends, NEW c, NEW l \in Loads, c \in Located => l.n \in Versions, LoadOK(c, l)
  PROVE  LoadOK(c, l)'
<1>1. /\ top \in Int /\ top >= -1 /\ ptrs \subseteq Int /\ l.seen \in Int /\ l.began \in Int
      /\ c \in Located => l.n \in Int
  BY DEF ResTypeOK, Versions, Loads
<1>2. top' \in Int /\ top' >= top
  BY <1>1 DEF Extends
<1>3. c \in Resolving => Known(l.seen)'
  <2>1. PICK u \in Int : u = l.seen
    BY <1>1
  <2> QED BY <1>1, <2>1, KnownExtends DEF LoadOK
<1>4. l.began <= top' /\ (c \in Located => l.n <= top' /\ l.seen <= l.n)
  BY <1>1, <1>2 DEF LoadOK
<1>5. c \in {"probe", "pointer"} => l.family /\ top' \in ptrs'
  BY DEF LoadOK, Extends
<1>6. ASSUME c = "probe", NEW y \in (l.n + 1)..top' PROVE y \in ptrs'
  <2>1. l.n \in Int /\ (l.n + 1)..top \subseteq ptrs
    BY <1>1, <1>6 DEF Located, LoadOK
  <2>2. (y = top' /\ top' # top) \/ y \in (l.n + 1)..top
    BY <1>1, <1>2, <2>1 DEF Extends
  <2> QED BY <2>1, <2>2 DEF Extends
<1> QED BY <1>3, <1>4, <1>5, <1>6 DEF LoadOK

\* And a reclamation at or below what its LIST answered, short of the newest.
LEMMA LoadReclaims ==
  ASSUME ResTypeOK, NEW v \in Nat, v < top, Reclaims(v), NEW c, NEW l \in Loads,
         c \in Located => l.n \in Versions, c \in Resolving => v <= l.seen, LoadOK(c, l)
  PROVE  LoadOK(c, l)'
<1>1. /\ top \in Int /\ ptrs \subseteq Int /\ l.seen \in Int /\ top' = top
      /\ c \in Located => l.n \in Int
  BY DEF ResTypeOK, Versions, Loads, Reclaims
<1>2. c \in Resolving => Known(l.seen)'
  <2>1. PICK u \in Int : u = l.seen
    BY <1>1
  <2> QED BY <1>1, <2>1, KnownReclaims DEF LoadOK
<1>3. c \in {"probe", "pointer"} => l.family /\ top' \in ptrs'
  BY <1>1 DEF LoadOK, Reclaims
<1>4. ASSUME c = "probe", NEW y \in (l.n + 1)..top' PROVE y \in ptrs'
  <2>1. l.n \in Int /\ (l.n + 1)..top \subseteq ptrs /\ v <= l.seen /\ l.seen <= l.n
    BY <1>1, <1>4 DEF Located, LoadOK, Resolving
  <2>2. y # v
    BY <1>1, <2>1
  <2> QED BY <1>1, <2>1, <2>2 DEF Reclaims
<1> QED BY <1>1, <1>2, <1>3, <1>4 DEF LoadOK

\* A step of p that leaves the store and the horizon alone.
LEMMA Quiet ==
  ASSUME ResTypeOK, Resolved, NEW p \in Procs, Moves(p), UNCHANGED <<store, horizon, top>>,
         base'[p] = None \/ base'[p] \in 0..top,
         NEW c, c = pc'[p], NEW l, l = load'[p], LoadOK(c, l)
  PROVE  Resolved'
<1>1. UNCHANGED <<ptrs, bodies, advisory, views, horizon, top>>
  BY DEF store
<1>2. ASSUME NEW u, Known(u) PROVE Known(u)'
  BY <1>1, <1>2 DEF Known
<1>3. ASSUME NEW d, NEW k, LoadOK(d, k) PROVE LoadOK(d, k)'
  BY <1>1, <1>2, <1>3 DEF LoadOK
<1>4. \A u \in views' : Known(u)'
  BY <1>1, <1>2 DEF Resolved
<1>5. ASSUME NEW q \in Procs PROVE LoadOK(pc[q], load[q])'
  <2>1. PICK d, k : d = pc'[q] /\ k = load'[q]
    OBVIOUS
  <2>2. LoadOK(d, k)
    BY <2>1 DEF Moves, Resolved
  <2>3. LoadOK(d, k)'
    BY <1>3, <2>2
  <2> QED BY <2>1, <2>3
<1>6. Newest'
  <2>1. \A q \in Procs : base'[q] # None => base'[q] \in 0..top
    BY DEF Moves, Resolved, Newest
  <2> QED BY <1>1, <2>1 DEF Newest, Resolved
<1> QED BY <1>4, <1>5, <1>6 DEF Resolved

-----------------------------------------------------------------------------
(* Every step keeps Resolved, as long as nothing is started over.          *)

\* A fresh load, and one that is over, ask for nothing.
LEMMA LoadBegins ==
  ASSUME ResTypeOK
  PROVE  /\ LoadOK("idle", NoLoad) /\ LoadOK("session", NoLoad) /\ LoadOK("advise", NoLoad)
         /\ \A r : LoadOK("list", [NoLoad EXCEPT !.why = r, !.began = top])
<1>1. top \in Int /\ -1 <= top
  BY DEF ResTypeOK
<1>2. /\ NoLoad.began = -1 /\ NoLoad.seen = -1 /\ NoLoad.family = FALSE
      /\ \A r : LET l == [NoLoad EXCEPT !.why = r, !.began = top] IN
                l.began = top /\ l.seen = -1 /\ l.family = FALSE
  BY DEF NoLoad
<1> QED BY <1>1, <1>2 DEF LoadOK, Resolving, Located

\* The requests of a load.
LEMMA LoadStepResolved ==
  ASSUME ResTypeOK, Resolved, NEW p \in Procs, StartLoad(p) \/ LoadStep(p)
  PROVE  Resolved'
<1>1. Moves(p) /\ UNCHANGED <<store, sweeper, history>>
  BY LoadStepType
<1>2. UNCHANGED <<store, horizon, top>> /\ UNCHANGED <<ptrs, bodies, advisory, views>>
  BY <1>1 DEF sweeper, history, store
<1>3. /\ pc \in [Procs -> Labels] /\ load \in [Procs -> Loads]
      /\ base \in [Procs -> Versions \cup {None}] /\ Held(pc[p], load[p], base[p])
      /\ top \in Int /\ ptrs \subseteq Int /\ views \subseteq Int
  BY DEF ResTypeOK, Versions
<1>4. PICK l \in Loads : l = load[p]
  BY <1>3
<1>5. LoadOK(pc[p], l) /\ l.seen \in Int /\ l.began \in Int /\ l.lo \in Int
  BY <1>4 DEF Resolved, Loads, Versions
<1>6. ASSUME base'[p] = base[p], NEW c, c = pc'[p], NEW k, k = load'[p], LoadOK(c, k)
      PROVE  Resolved'
  <2>1. base'[p] = None \/ base'[p] \in 0..top
    BY <1>6 DEF Resolved, Newest
  <2> QED BY <1>1, <1>2, <1>6, <2>1, Quiet
<1>7. \A v \in Versions : /\ Found(l, v).family = TRUE /\ Found(l, v).n = v
                          /\ Found(l, v).seen = l.seen /\ Found(l, v).began = l.began
  BY DEF Found, Loads
<1>8. CASE StartLoad(p)
  <2>1. PICK r : Load(p, r) /\ base' = base
    BY <1>8 DEF StartLoad
  <2>2. pc'[p] = "list" /\ load'[p] = [NoLoad EXCEPT !.why = r, !.began = top]
    BY <1>3, <2>1 DEF Load, Goto
  <2> QED BY <1>6, <2>1, <2>2, LoadBegins
<1>9. CASE List(p)
  <2>1. PICK v \in views :
          \/ /\ v >= 0 /\ Goto(p, "probe")
             /\ load' = [load EXCEPT ![p] = Found([@ EXCEPT !.seen = v], v)]
          \/ v < 0 /\ Goto(p, "p0") /\ UNCHANGED load
    BY <1>9 DEF List
  <2>2. base' = base /\ pc[p] = "list" /\ Known(v) /\ v \in Int /\ v \in -1..top /\ v \in -1..MaxVersion
    BY <1>3, <1>9 DEF List, Request, Resolved, Newest, ResTypeOK
  <2>3. CASE v >= 0 /\ Goto(p, "probe")
             /\ load' = [load EXCEPT ![p] = Found([@ EXCEPT !.seen = v], v)]
    <3>1. PICK k : k = Found([l EXCEPT !.seen = v], v)
      OBVIOUS
    <3>2. pc'[p] = "probe" /\ load'[p] = k
      BY <1>3, <1>4, <2>3, <3>1 DEF Goto
    <3>3. k.n = v /\ k.seen = v /\ k.family = TRUE /\ k.began = l.began
      BY <3>1 DEF Found, Loads
    <3>4. (v + 1)..top \subseteq ptrs /\ top \in ptrs
      BY <2>2, <2>3 DEF Known, Resolved, Newest
    <3>5. LoadOK("probe", k)
      BY <1>5, <2>2, <3>3, <3>4 DEF LoadOK, Located
    <3> QED BY <1>6, <2>2, <3>2, <3>5
  <2>4. CASE v < 0 /\ Goto(p, "p0") /\ UNCHANGED load
    <3>1. pc'[p] = "p0" /\ load'[p] = l
      BY <1>3, <1>4, <2>4 DEF Goto
    <3>2. v = -1 /\ l.seen = -1 /\ l.family = FALSE
      BY <1>4, <1>5, <2>2, <2>4 DEF LoadOK, Loads
    <3>3. LoadOK("p0", l)
      BY <1>5, <2>2, <3>2 DEF LoadOK, Located
    <3> QED BY <1>6, <2>2, <3>1, <3>3
  <2> QED BY <2>1, <2>3, <2>4
<1>10. CASE HeadP0(p) \/ HeadAdvisory(p)
  <2>1. /\ base' = base /\ pc[p] \in {"p0", "advisory_head"}
        /\ \/ \E v \in Versions : v \in ptrs /\ StartProbe(p, v)
           \/ \E c \in {"advisory", "legacy"} : Goto(p, c) /\ UNCHANGED load
    BY <1>10 DEF HeadP0, HeadAdvisory, Request, ResTypeOK
  <2>2. l.seen = -1 /\ l.family = FALSE /\ Known(l.seen)
    BY <1>4, <1>5, <2>1 DEF LoadOK, Resolving, Loads
  <2>3. ASSUME NEW v \in Versions, v \in ptrs, StartProbe(p, v) PROVE Resolved'
    <3>1. PICK k : k = Found(l, v)
      OBVIOUS
    <3>2. pc'[p] = "probe" /\ load'[p] = k
      BY <1>3, <1>4, <2>3, <3>1 DEF StartProbe, Goto
    <3>3. k.n = v /\ k.seen = -1 /\ k.family = TRUE /\ k.began = l.began
      BY <1>7, <2>2, <3>1
    <3>4. v \in 0..top /\ top \in ptrs
      BY <2>3 DEF Resolved, Newest
    <3>5. (v + 1)..top \subseteq ptrs
      BY <1>3, <2>2, <2>3, <3>4 DEF Known
    <3>6. LoadOK("probe", k)
      BY <1>5, <2>2, <3>3, <3>4, <3>5 DEF LoadOK, Located
    <3> QED BY <1>6, <2>1, <3>2, <3>6
  <2>4. ASSUME NEW c \in {"advisory", "legacy"}, Goto(p, c), UNCHANGED load PROVE Resolved'
    <3>1. pc'[p] = c /\ load'[p] = l
      BY <1>3, <1>4, <2>4 DEF Goto
    <3>2. LoadOK(c, l)
      BY <1>5, <2>2 DEF LoadOK, Located
    <3> QED BY <1>6, <2>1, <3>1, <3>2
  <2> QED BY <2>1, <2>3, <2>4
<1>11. CASE GetAdvisory(p) \/ GetLegacy(p)
  <2>1. PICK k : k = [l EXCEPT !.n = advisory]
    OBVIOUS
  <2>2. /\ load'[p] = k /\ base' = base /\ pc[p] \in {"advisory", "legacy"}
        /\ pc'[p] \in {"legacy", "not_found", "advisory_head", "body"}
        /\ pc'[p] \in {"advisory_head", "body"} => advisory # None
    BY <1>3, <1>4, <1>11, <2>1 DEF GetAdvisory, GetLegacy, Cursor, Request, Goto
  <2>3. l.seen = -1 /\ l.family = FALSE /\ Known(l.seen)
    BY <1>4, <1>5, <2>2 DEF LoadOK, Resolving, Loads
  <2>4. k.n = advisory /\ k.seen = -1 /\ k.family = FALSE /\ k.began = l.began
    BY <2>1, <2>3 DEF Loads
  <2>5. advisory # None => advisory \in 0..top
    BY DEF Resolved, Newest
  <2>6. PICK c : c = pc'[p]
    OBVIOUS
  <2>7. LoadOK(c, k)
    BY <1>3, <1>5, <2>2, <2>3, <2>4, <2>5, <2>6 DEF LoadOK, Located
  <2> QED BY <1>6, <2>2, <2>6, <2>7
<1>12. CASE Probe(p)
  <2>1. pc[p] = "probe" /\ l.n \in Int /\ base' = base /\ l.n \in Versions
    BY <1>3, <1>4, <1>12 DEF Probe, Held, Located, Request, Versions
  <2>2. /\ l.n <= top /\ l.seen <= l.n /\ l.family /\ top \in ptrs /\ (l.n + 1)..top \subseteq ptrs
        /\ Known(l.seen)
    BY <1>5, <2>1 DEF LoadOK, Located, Resolving
  <2>3. CASE l.n + 1 \in ptrs /\ Cursor(p, l.n + 1) /\ UNCHANGED pc
    <3>1. PICK k : k = [l EXCEPT !.n = l.n + 1]
      OBVIOUS
    <3>2. pc'[p] = "probe" /\ load'[p] = k
      BY <1>3, <1>4, <2>1, <2>3, <3>1 DEF Cursor
    <3>3. k.n = l.n + 1 /\ k.seen = l.seen /\ k.family = l.family /\ k.began = l.began
      BY <3>1 DEF Loads
    <3>4. l.n + 1 <= top
      BY <2>3 DEF Resolved, Newest
    <3>5. LoadOK("probe", k)
      BY <1>3, <1>5, <2>1, <2>2, <3>3, <3>4 DEF LoadOK, Located
    <3> QED BY <1>6, <2>1, <3>2, <3>5
  <2>4. CASE l.n + 1 \notin ptrs /\ Goto(p, "pointer") /\ UNCHANGED load
    <3>1. pc'[p] = "pointer" /\ load'[p] = l
      BY <1>3, <1>4, <2>4 DEF Goto
    <3>2. l.n >= top
      BY <1>3, <2>1, <2>2, <2>4
    <3>3. l.n >= l.began
      BY <1>3, <1>5, <2>1, <3>2 DEF LoadOK
    <3>4. LoadOK("pointer", l)
      BY <1>5, <2>2, <3>3 DEF LoadOK
    <3> QED BY <1>6, <2>1, <3>1, <3>4
  <2>5. CASE Goto(p, "stale") /\ UNCHANGED load
    <3>1. pc'[p] = "stale" /\ load'[p] = l
      BY <1>3, <1>4, <2>5 DEF Goto
    <3>2. LoadOK("stale", l)
      BY <1>5 DEF LoadOK, Located, Resolving
    <3> QED BY <1>6, <2>1, <3>1, <3>2
  <2> QED BY <1>4, <1>12, <2>3, <2>4, <2>5 DEF Probe
<1>13. CASE GetPointer(p) \/ GetBody(p)
  <2>1. /\ load'[p] = l /\ base' = base /\ pc[p] \in {"pointer", "body"}
        /\ pc'[p] \in {"body", "not_found", "loaded"}
    BY <1>3, <1>4, <1>13 DEF GetPointer, GetBody, Request, Goto
  <2>2. PICK c : c = pc'[p]
    OBVIOUS
  <2>3. LoadOK(c, l)
    BY <1>5, <2>1, <2>2 DEF LoadOK, Located, Resolving
  <2> QED BY <1>6, <2>1, <2>2, <2>3
<1>14. CASE RequestFails(p) \/ LoadFails(p)
  <2>1. base' = base
    BY <1>14 DEF RequestFails, LoadFails, Request
  <2>2. CASE EndLoad(p) /\ Goto(p, "idle")
    BY <1>3, <1>6, <2>1, <2>2, LoadBegins DEF EndLoad, Goto
  <2>3. CASE pc[p] \in {"p0", "advisory", "advisory_head"} /\ UNCHANGED load
             /\ \E c \in {"advisory", "legacy"} : Goto(p, c)
    <3>1. pc'[p] \in {"advisory", "legacy"} /\ load'[p] = l
      BY <1>3, <1>4, <2>3 DEF Goto
    <3>2. PICK c : c = pc'[p]
      OBVIOUS
    <3>3. LoadOK(c, l)
      BY <1>5, <2>3, <3>1, <3>2 DEF LoadOK, Located, Resolving
    <3> QED BY <1>6, <2>1, <3>1, <3>2, <3>3
  <2> QED BY <1>14, <2>2, <2>3 DEF RequestFails, LoadFails
<1>15. CASE LoadSucceeds(p)
  <2>1. pc[p] = "loaded" /\ l.n \in Versions
    BY <1>3, <1>4, <1>15 DEF LoadSucceeds, Held, Located
  <2>2. CASE Load(p, "claim") /\ UNCHANGED base
    BY <1>3, <1>6, <2>2, LoadBegins DEF Load, Goto
  <2>3. CASE Goto(p, "claim") /\ UNCHANGED load /\ base' = [base EXCEPT ![p] = l.n]
    <3>1. pc'[p] = "claim" /\ load'[p] = l /\ base'[p] = l.n
      BY <1>3, <1>4, <2>3 DEF Goto
    <3>2. LoadOK("claim", l)
      BY <1>5, <2>1 DEF LoadOK, Located, Resolving
    <3>3. base'[p] \in 0..top
      BY <1>3, <1>5, <2>1, <3>1 DEF LoadOK, Located, Versions
    <3> QED BY <1>1, <1>2, <3>1, <3>2, <3>3, Quiet
  <2>4. CASE EndLoad(p) /\ Goto(p, "idle") /\ UNCHANGED base
    BY <1>3, <1>6, <2>4, LoadBegins DEF EndLoad, Goto
  <2> QED BY <1>4, <1>15, <2>2, <2>3, <2>4 DEF LoadSucceeds
<1> QED BY <1>8, <1>9, <1>10, <1>11, <1>12, <1>13, <1>14, <1>15 DEF LoadStep
\* A step of p that publishes at most the next version.
LEMMA Grows ==
  ASSUME ResTypeOK, ResTypeOK', Resolved, NEW p \in Procs, Moves(p), Extends,
         bodies' \subseteq 0..top', \A u \in views' : u \in views \/ (u = top' /\ top' \in ptrs'),
         advisory' = None \/ advisory' \in 0..top', horizon' = horizon,
         base'[p] = None \/ base'[p] \in 0..top',
         NEW c \in {"idle", "advise", "session"}, c = pc'[p], NEW l \in Loads, l = load'[p],
         LoadOK(c, l)
  PROVE  Resolved'
<1>1. /\ top \in Int /\ top >= -1 /\ ptrs \subseteq Int /\ views \subseteq Int
      /\ top' \in Int /\ top' >= -1 /\ load \in [Procs -> Loads]
      /\ \A q \in Procs : pc[q] \in Located => load[q].n \in Versions
  BY DEF ResTypeOK, Versions, Held
<1>2. top' >= top
  BY <1>1 DEF Extends
<1>3. \A u \in views' : Known(u)'
  <2> SUFFICES ASSUME NEW u \in views' PROVE Known(u)'
    OBVIOUS
  <2>1. CASE u \in views
    <3>1. u \in Int /\ Known(u)
      BY <1>1, <2>1 DEF Resolved
    <3> QED BY <1>1, <3>1, KnownExtends
  <2>2. CASE u = top' /\ top' \in ptrs'
    <3>1. \A t \in Int : (t + 1)..t = {}
      OBVIOUS
    <3>2. \A x \in ptrs' : x <= top' /\ x \in Int
      <4>1. ptrs \subseteq 0..top
        BY DEF Resolved, Newest
      <4> QED BY <1>1, <1>2, <4>1 DEF Extends
    <3>3. top' >= 0
      <4>1. ptrs' \subseteq Versions
        BY DEF ResTypeOK
      <4> QED BY <2>2, <4>1 DEF Versions
    <3>4. \A x \in ptrs' \cup {u} : u <= x => x = top'
      <4>1. \A x \in ptrs' : top' <= x => x = top'
        BY <1>1, <3>2
      <4> QED BY <2>2, <4>1
    <3>5. \A x \in ptrs' \cup {u} : 0 <= x /\ u <= x => (x + 1)..top' \subseteq ptrs'
      <4> SUFFICES ASSUME NEW x \in ptrs' \cup {u}, u <= x PROVE (x + 1)..top' \subseteq ptrs'
        OBVIOUS
      <4>1. x = top'
        BY <3>4
      <4>2. (x + 1)..top' = {}
        BY <1>1, <3>1, <4>1
      <4> QED BY <4>2
    <3>6. (u + 1)..top' \subseteq bodies' \cup Old
      <4>1. (u + 1)..top' = {}
        BY <1>1, <2>2, <3>1
      <4> QED BY <4>1
    <3>7. u <= top' /\ ~(u < 0)
      BY <1>1, <2>2, <3>3
    <3> QED BY <3>5, <3>6, <3>7 DEF Known
  <2> QED BY <2>1, <2>2
<1>4. ASSUME NEW q \in Procs PROVE LoadOK(pc[q], load[q])'
  <2>1. PICK d, k : d = pc'[q] /\ k = load'[q]
    OBVIOUS
  <2>2. LoadOK(d, k) /\ k \in Loads /\ (d \in Located => k.n \in Versions)
    <3>1. CASE q = p
      BY <2>1, <3>1 DEF Located
    <3>2. CASE q # p
      <4>1. d = pc[q] /\ k = load[q]
        BY <2>1, <3>2 DEF Moves
      <4> QED BY <1>1, <4>1 DEF Resolved
    <3> QED BY <3>1, <3>2
  <2>3. LoadOK(d, k)'
    BY <2>2, LoadExtends
  <2> QED BY <2>1, <2>3
<1>5. Newest'
  <2>1. ptrs' \subseteq 0..top'
    <3>1. ptrs \subseteq 0..top /\ ptrs' \subseteq Versions
      BY DEF Resolved, Newest, ResTypeOK
    <3> QED BY <1>1, <1>2, <3>1 DEF Extends, Versions
  <2>2. views' \subseteq -1..top'
    <3>1. views \subseteq -1..top
      BY DEF Resolved, Newest
    <3>2. \A u \in -1..top : u \in -1..top'
      BY <1>1, <1>2
    <3>3. top' \in -1..top'
      BY <1>1
    <3> QED BY <3>1, <3>2, <3>3
  <2>3. top' >= 0 => top' \in bodies'
    BY DEF Extends, Resolved, Newest
  <2>4. ptrs' # {} => top' \in ptrs'
    BY DEF Extends, Resolved, Newest
  <2>5. (\E u \in views' : u >= 0) => top' \in ptrs'
    BY DEF Extends, Resolved, Newest
  <2>6. top' >= 0 /\ advisory' = None => top' \in ptrs'
    BY DEF Extends, Resolved, Newest
  <2>7. horizon' # None => horizon' \in 0..top'
    BY <1>1, <1>2 DEF Resolved, Newest
  <2>8. ASSUME NEW q \in Procs, base'[q] # None PROVE base'[q] \in 0..top'
    <3>1. CASE q = p
      BY <2>8, <3>1
    <3>2. CASE q # p
      <4>1. base'[q] \in 0..top
        BY <2>8, <3>2 DEF Moves, Resolved, Newest
      <4> QED BY <1>1, <1>2, <4>1
    <3> QED BY <3>1, <3>2
  <2> QED BY <2>1, <2>2, <2>3, <2>4, <2>5, <2>6, <2>7, <2>8 DEF Newest
<1> QED BY <1>3, <1>4, <1>5 DEF Resolved

\* Publishing the next version.
LEMMA PublishesNext ==
  ASSUME ResTypeOK, Resolved, NEW v \in Versions, v = top + 1, PublishVersion(v), advisory' = advisory
  PROVE  /\ Extends /\ top' = v /\ bodies' \subseteq 0..top'
         /\ \A u \in views' : u \in views \/ (u = top' /\ top' \in ptrs')
<1>1. /\ ptrs' = ptrs \cup {v} /\ bodies' = bodies \cup {v} /\ views' = views \cup {Max(ptrs')}
      /\ Max(ptrs') \in ptrs' /\ \A x \in ptrs' : x <= Max(ptrs')
      /\ top' = IF v > top THEN v ELSE top
  BY Published
<1>2. top \in Int /\ v \in Int /\ v >= 0 /\ ptrs \subseteq 0..top /\ bodies \subseteq 0..top
  BY DEF ResTypeOK, Versions, Resolved, Newest
<1>3. top' = v
  BY <1>1, <1>2
<1>4. Max(ptrs') = v
  <2>1. v <= Max(ptrs') /\ Max(ptrs') \in ptrs \cup {v}
    BY <1>1
  <2>2. \A x \in ptrs : ~ (v <= x)
    BY <1>2
  <2> QED BY <2>1, <2>2, Zenon
<1>5. bodies' \subseteq 0..top'
  BY <1>1, <1>2, <1>3
<1>6. Extends
  BY <1>1, <1>2, <1>3 DEF Extends
<1> QED BY <1>1, <1>3, <1>4, <1>5, <1>6

\* A writer's steps.
LEMMA WriterStepResolved ==
  ASSUME ResTypeOK, Resolved, NEW p \in Procs, Sound',
         Close(p) \/ Bootstrap(p) \/ Publish(p) \/ PutAdvisory(p)
  PROVE  Resolved'
<1>1. Moves(p) /\ ResTypeOK'
  BY WriterStepType
<1>2. /\ pc \in [Procs -> Labels] /\ load \in [Procs -> Loads]
      /\ base \in [Procs -> Versions \cup {None}] /\ Held(pc[p], load[p], base[p])
      /\ top \in Int /\ -1 <= top /\ 0 \in Versions
  BY ConstantsAssumption DEF ResTypeOK, Versions
<1>3. NoLoad \in Loads /\ load[p] \in Loads
  BY <1>2, LoadTypes
<1>4. LoadOK("idle", NoLoad) /\ LoadOK("advise", NoLoad)
  BY LoadBegins
<1>5. CASE Close(p)
  <2>1. pc'[p] = "idle" /\ load'[p] = NoLoad /\ base'[p] = None
        /\ UNCHANGED <<store, horizon, top>>
    BY <1>2, <1>5 DEF Close, Goto, EndLoad, sweeper, history
  <2> QED BY <1>1, <1>4, <2>1, Quiet
<1>6. ASSUME top' = top, UNCHANGED <<ptrs, views, horizon>>, advisory' = advisory,
             NEW v \in 0..top, bodies' = bodies \cup {v},
             pc'[p] = "idle", load'[p] = NoLoad, base'[p] = None \/ base'[p] \in 0..top
      PROVE  Resolved'
  <2>1. Extends
    BY <1>6 DEF Extends
  <2>2. bodies' \subseteq 0..top' /\ (advisory' = None \/ advisory' \in 0..top')
    BY <1>6 DEF Resolved, Newest
  <2>3. PICK c \in {"idle", "advise", "session"}, l \in Loads : c = "idle" /\ l = NoLoad
    BY <1>3
  <2>4. LoadOK(c, l) /\ c = pc'[p] /\ l = load'[p]
    BY <1>4, <1>6, <2>3
  <2>5. horizon' = horizon /\ (base'[p] = None \/ base'[p] \in 0..top')
        /\ \A u \in views' : u \in views \/ (u = top' /\ top' \in ptrs')
    BY <1>6
  <2> QED BY <1>1, <2>1, <2>2, <2>4, <2>5, Grows
<1>7. ASSUME NEW v \in Versions, v = top + 1, PublishVersion(v), advisory' = advisory, horizon' = horizon,
             pc'[p] = "advise", load'[p] = NoLoad, base'[p] = v
      PROVE  Resolved'
  <2>1. /\ Extends /\ top' = v /\ bodies' \subseteq 0..top'
        /\ \A u \in views' : u \in views \/ (u = top' /\ top' \in ptrs')
    BY <1>7, PublishesNext
  <2>2. advisory' = None \/ advisory' \in 0..top'
    BY <1>2, <1>7, <2>1 DEF Resolved, Newest
  <2>3. PICK c \in {"idle", "advise", "session"}, l \in Loads : c = "advise" /\ l = NoLoad
    BY <1>3
  <2>4. LoadOK(c, l) /\ c = pc'[p] /\ l = load'[p]
    BY <1>4, <1>7, <2>3
  <2>5. base'[p] \in 0..top'
    BY <1>2, <1>7, <2>1 DEF Versions
  <2> QED BY <1>1, <1>7, <2>1, <2>2, <2>4, <2>5, Grows
<1>8. CASE Bootstrap(p)
  <2>1. load'[p] = NoLoad /\ advisory' = advisory /\ horizon' = horizon
    BY <1>2, <1>8 DEF Bootstrap, EndLoad, sweeper
  <2>2. CASE 0 \in ptrs
    <3>1. /\ pc'[p] = "idle" /\ bodies' = bodies \cup {0}
          /\ UNCHANGED <<ptrs, views, top, rebooted, base>>
      BY <1>2, <1>8, <2>2 DEF Bootstrap, Goto
    <3>2. 0 \in 0..top /\ (base'[p] = None \/ base'[p] \in 0..top)
      BY <2>2, <3>1 DEF Resolved, Newest
    <3> QED BY <1>6, <2>1, <3>1, <3>2
  <2>3. CASE 0 \notin ptrs
    <3>1. /\ PublishVersion(0) /\ rebooted' = (rebooted \/ top >= 0)
          /\ pc'[p] = "advise" /\ base'[p] = 0
      BY <1>2, <1>8, <2>3 DEF Bootstrap, Goto
    <3>2. 0 = top + 1
      <4>1. ~ (top >= 0)
        BY <3>1 DEF Sound
      <4> QED BY <1>2, <4>1
    <3> QED BY <1>2, <1>7, <2>1, <3>1, <3>2
  <2> QED BY <2>2, <2>3
<1>9. CASE Publish(p)
  <2>1. PICK v : v = base[p] + 1
    OBVIOUS
  <2>2. /\ load'[p] = NoLoad /\ advisory' = advisory /\ horizon' = horizon
        /\ v <= MaxVersion /\ pc[p] \in Based
    BY <1>2, <1>9, <2>1 DEF Publish, EndLoad, Based, sweeper
  <2>3. base[p] \in 0..top /\ base[p] \in Versions
    BY <1>2, <2>2, ConstantsAssumption DEF Held, Resolved, Newest, Versions
  <2>4. v \in Versions /\ v <= top + 1
    <3>1. MaxVersion \in Nat /\ base[p] \in Nat /\ base[p] <= top
      BY <2>3, ConstantsAssumption
    <3> QED BY <1>2, <2>1, <2>2, <3>1 DEF Versions
  <2>5. CASE v \in bodies \cup ptrs
    <3>1. /\ pc'[p] = "idle" /\ base'[p] = None
          /\ bodies' = bodies \cup {v} /\ UNCHANGED <<ptrs, views, top, regressed>>
      BY <1>2, <1>9, <2>1, <2>5 DEF Publish, Goto
    <3>2. v \in 0..top
      BY <2>5 DEF Resolved, Newest
    <3> QED BY <1>6, <2>2, <3>1, <3>2
  <2>6. CASE v \notin bodies \cup ptrs
    <3>1. /\ PublishVersion(v) /\ regressed' = (regressed \/ v <= top)
          /\ pc'[p] = "advise" /\ base'[p] = v
      BY <1>2, <1>9, <2>1, <2>6 DEF Publish, Goto
    <3>2. v = top + 1
      <4>1. ~ (v <= top)
        BY <3>1 DEF Sound
      <4> QED BY <1>2, <2>4, <4>1 DEF Versions
    <3> QED BY <1>7, <2>2, <2>4, <3>1, <3>2
  <2> QED BY <2>5, <2>6
<1>10. CASE PutAdvisory(p)
  <2>1. base[p] \in 0..top /\ base[p] \in Versions /\ pc[p] = "advise" /\ base[p] # None
    BY <1>2, <1>10, ConstantsAssumption DEF PutAdvisory, Held, Based, Resolved, Newest, Versions
  <2>2. /\ pc'[p] = "session" /\ load' = load /\ base' = base
        /\ advisory' = base[p] /\ UNCHANGED <<ptrs, bodies, views, top, horizon>>
    BY <1>2, <1>10 DEF PutAdvisory, Goto, history, sweeper
  <2>3. Extends
    BY <2>1, <2>2 DEF Extends
  <2>4. PICK c \in {"idle", "advise", "session"}, l \in Loads : c = "session" /\ l = load[p]
    BY <1>3
  <2>5. LoadOK("advise", l)
    BY <2>1, <2>4 DEF Resolved
  <2>6. LoadOK(c, l) /\ c = pc'[p] /\ l = load'[p]
    BY <2>2, <2>4, <2>5 DEF LoadOK, Located, Resolving
  <2>7. bodies' \subseteq 0..top' /\ advisory' \in 0..top' /\ horizon' = horizon /\ base'[p] \in 0..top'
        /\ \A u \in views' : u \in views \/ (u = top' /\ top' \in ptrs')
    BY <2>1, <2>2 DEF Resolved, Newest
  <2> QED BY <1>1, <2>3, <2>6, <2>7, Grows
<1> QED BY <1>5, <1>8, <1>9, <1>10
\* What the janitor takes to be older than min_age no LIST, and no load, precedes.
LEMMA AgedWhat ==
  ASSUME Timely, ResTypeOK, NEW v \in Versions, Aged(v)
  PROVE  /\ \A u \in views : v <= u
         /\ \A p \in Procs : pc[p] \in Resolving => v <= load[p].seen
<1>1. Min(views) >= v /\ \A p \in Procs : pc[p] \in Resolving => load[p].seen >= v
  BY DEF Aged
<1>2. Min(views) \in views /\ \A u \in views : Min(views) <= u
  BY OldestView, ConstantsAssumption DEF ResTypeOK
<1>3. v \in Int /\ views \subseteq Int
  BY DEF ResTypeOK, Versions
<1>4. \A p \in Procs : load[p].seen \in Int
  BY DEF ResTypeOK, Loads
<1>5. ASSUME NEW u \in views PROVE v <= u
  <2>1. PICK m : m = Min(views)
    OBVIOUS
  <2>2. m \in Int /\ u \in Int /\ m <= u /\ m >= v
    BY <1>1, <1>2, <1>3, <2>1
  <2> QED BY <1>3, <2>2
<1> QED BY <1>1, <1>3, <1>4, <1>5

\* The janitor reclaims a version that nobody needs.
LEMMA ReclaimResolved ==
  ASSUME Timely, ResTypeOK, Resolved, NEW v \in Versions, v < horizon, horizon # None, Aged(v),
         Reclaims(v), UNCHANGED <<views, pc, load, base, horizon>>
  PROVE  Resolved'
<1>1. /\ top \in Int /\ ptrs \subseteq Int /\ views \subseteq Int /\ v \in Nat
      /\ load \in [Procs -> Loads] /\ top' = top
      /\ \A q \in Procs : pc[q] \in Located => load[q].n \in Versions
  BY DEF ResTypeOK, Versions, Held, Reclaims
<1>2. v < top
  <2>1. horizon \in 0..top
    BY DEF Resolved, Newest
  <2> QED BY <1>1, <2>1
<1>3. /\ \A u \in views : v <= u
      /\ \A p \in Procs : pc[p] \in Resolving => v <= load[p].seen
  BY AgedWhat
<1>4. ASSUME NEW u \in views PROVE Known(u)'
  <2>1. u \in Int /\ v <= u /\ Known(u)
    BY <1>1, <1>3 DEF Resolved
  <2> QED BY <1>1, <2>1, KnownReclaims
<1>5. ASSUME NEW q \in Procs PROVE LoadOK(pc[q], load[q])'
  <2>1. PICK d, k : d = pc[q] /\ k = load[q]
    OBVIOUS
  <2>2. LoadOK(d, k) /\ k \in Loads /\ (d \in Located => k.n \in Versions)
        /\ (d \in Resolving => v <= k.seen)
    BY <1>1, <1>3, <2>1 DEF Resolved
  <2>3. LoadOK(d, k)'
    BY <1>1, <1>2, <2>2, LoadReclaims
  <2> QED BY <2>1, <2>3
<1>6. Newest'
  <2>1. top # v
    BY <1>1, <1>2
  <2>2. /\ ptrs' \cup bodies' \subseteq 0..top' /\ (top' >= 0 => top' \in bodies')
        /\ (ptrs' # {} => top' \in ptrs')
        /\ ((\E u \in views' : u >= 0) => top' \in ptrs')
        /\ (top' >= 0 /\ advisory' = None => top' \in ptrs')
    BY <2>1 DEF Reclaims, Resolved, Newest
  <2>3. /\ views' \subseteq -1..top' /\ (advisory' # None => advisory' \in 0..top')
        /\ (horizon' # None => horizon' \in 0..top')
        /\ \A p \in Procs : base'[p] # None => base'[p] \in 0..top'
    BY DEF Reclaims, Resolved, Newest
  <2> QED BY <2>2, <2>3 DEF Newest
<1> QED BY <1>4, <1>5, <1>6 DEF Resolved

\* A body from before the family is reclaimed, however young the family is.
LEMMA OldReclaimed ==
  ASSUME ResTypeOK, Resolved, NEW v \in Old, v < horizon, horizon # None,
         bodies' = bodies \ {v}, UNCHANGED <<ptrs, advisory, top, views, pc, load, base, horizon>>
  PROVE  Resolved'
<1>1. ASSUME NEW u, Known(u) PROVE Known(u)'
  BY <1>1 DEF Known
<1>2. \A u \in views' : Known(u)'
  BY <1>1 DEF Resolved
<1>3. ASSUME NEW q \in Procs PROVE LoadOK(pc[q], load[q])'
  <2>1. PICK d, k : d = pc[q] /\ k = load[q]
    OBVIOUS
  <2>2. LoadOK(d, k)
    BY <2>1 DEF Resolved
  <2>3. LoadOK(d, k)'
    BY <1>1, <2>2 DEF LoadOK
  <2> QED BY <2>1, <2>3
<1>4. Newest'
  <2>1. horizon \in 0..top /\ top \in Int
    BY DEF Resolved, Newest, ResTypeOK
  <2>2. top # v
    BY <2>1 DEF Old, Versions
  <2> QED BY <2>2 DEF Resolved, Newest
<1> QED BY <1>2, <1>3, <1>4 DEF Resolved

\* The janitor's steps and the LIST's.
LEMMA StoreStepResolved ==
  ASSUME Timely \/ horizon = None, ResTypeOK, Resolved,
         SweepStart \/ ReclaimPointer \/ ReclaimBody \/ SweepEnd \/ ListCatchesUp
  PROVE  Resolved'
<1>1. /\ top \in Int /\ ptrs \subseteq Versions /\ bodies \subseteq Versions
      /\ MaxVersion \in Nat /\ None \notin Versions
  BY ConstantsAssumption DEF ResTypeOK, Versions
<1>2. CASE SweepStart
  <2>1. PICK h \in 1..CurrentVersion : horizon' = h
    BY <1>2 DEF SweepStart
  <2>2. CurrentVersion \in 0..top
    <3>1. CASE ptrs = {}
      <4>1. advisory # None
        BY <1>2, <3>1 DEF SweepStart, Resolved, Newest
      <4> QED BY <3>1, <4>1 DEF CurrentVersion, Resolved, Newest
    <3>2. CASE ptrs # {}
      <4>1. Max(ptrs) \in ptrs
        BY <1>1, <3>2, BoundedMax DEF Versions
      <4> QED BY <3>2, <4>1 DEF CurrentVersion, Resolved, Newest
    <3> QED BY <3>1, <3>2
  <2>3. h \in 0..top
    <3>1. PICK m \in 0..top : m = CurrentVersion
      BY <2>2
    <3>2. h \in 1..m
      BY <3>1
    <3> QED BY <1>1, <3>1, <3>2
  <2>4. UNCHANGED <<ptrs, bodies, advisory, views, pc, load, base, top>>
    BY <1>2 DEF SweepStart, store, history
  <2> QED BY <2>1, <2>3, <2>4 DEF Resolved, Newest, Known, LoadOK
<1>3. CASE ReclaimPointer
  <2>1. PICK v \in ptrs : v < horizon /\ Aged(v) /\ ptrs' = ptrs \ {v}
    BY <1>3 DEF ReclaimPointer
  <2>2. horizon # None /\ UNCHANGED <<views, pc, load, base, horizon>>
        /\ UNCHANGED <<bodies, advisory, top>>
    BY <1>3 DEF ReclaimPointer, history, sweeper
  <2>3. Reclaims(v)
    BY <2>1, <2>2 DEF Reclaims
  <2>4. Timely
    BY <2>2
  <2> QED BY <1>1, <2>1, <2>2, <2>3, <2>4, ReclaimResolved
<1>4. CASE ReclaimBody
  <2>1. PICK v \in bodies : v < horizon /\ (v \in ancient \/ Aged(v)) /\ bodies' = bodies \ {v}
    BY <1>4 DEF ReclaimBody
  <2>2. horizon # None /\ UNCHANGED <<views, pc, load, base, horizon>>
        /\ UNCHANGED <<ptrs, advisory, top>>
    BY <1>4 DEF ReclaimBody, history, sweeper
  <2>3. CASE Aged(v)
    <3>1. Reclaims(v)
      BY <2>1, <2>2 DEF Reclaims
    <3>2. Timely
      BY <2>2
    <3> QED BY <1>1, <2>1, <2>2, <2>3, <3>1, <3>2, ReclaimResolved
  <2>4. CASE v \in ancient
    <3>1. v \in Old
      BY <2>4 DEF ResTypeOK
    <3> QED BY <2>1, <2>2, <3>1, OldReclaimed
  <2> QED BY <2>1, <2>3, <2>4
<1>5. CASE SweepEnd
  <2>1. horizon' = None /\ UNCHANGED <<ptrs, bodies, advisory, views, pc, load, base, top>>
    BY <1>5 DEF SweepEnd, store, history
  <2> QED BY <2>1 DEF Resolved, Newest, Known, LoadOK
<1>6. CASE ListCatchesUp
  <2>1. views' \subseteq views /\ UNCHANGED <<ptrs, bodies, advisory, horizon, pc, load, base, top>>
    BY <1>6 DEF ListCatchesUp, sweeper, history
  <2>2. (\A u \in views : Known(u)') /\ \A q \in Procs : LoadOK(pc[q], load[q])'
    BY <2>1 DEF Resolved, Known, LoadOK
  <2>3. Newest'
    BY <2>1 DEF Resolved, Newest
  <2> QED BY <2>1, <2>2, <2>3 DEF Resolved
<1> QED BY <1>2, <1>3, <1>4, <1>5, <1>6

\* The two flags only rise.
LEMMA FlagsRise ==
  ASSUME ResTypeOK, [Next]_vars
  PROVE  (rebooted => rebooted') /\ (regressed => regressed')
<1>1. ASSUME NEW p \in Procs, StartLoad(p) \/ LoadStep(p)
      PROVE  UNCHANGED <<rebooted, regressed>>
  BY <1>1, LoadStepType DEF history
<1>2. ASSUME NEW p \in Writers, Close(p) \/ Bootstrap(p) \/ Publish(p) \/ PutAdvisory(p)
      PROVE  (rebooted => rebooted') /\ (regressed => regressed')
  <2>1. CASE Close(p) \/ PutAdvisory(p)
    BY <2>1 DEF Close, PutAdvisory, history
  <2>2. CASE Bootstrap(p)
    <3>1. regressed' = regressed /\ (rebooted' = rebooted \/ rebooted' = (rebooted \/ top >= 0))
      BY <2>2 DEF Bootstrap
    <3>2. rebooted \in BOOLEAN
      BY DEF ResTypeOK
    <3>3. rebooted => rebooted'
      BY <3>1, <3>2
    <3> QED BY <3>1, <3>3
  <2>3. CASE Publish(p)
    <3>1. rebooted' = rebooted
          /\ (regressed' = regressed \/ regressed' = (regressed \/ base[p] + 1 <= top))
      BY <2>3 DEF Publish
    <3>2. regressed \in BOOLEAN
      BY DEF ResTypeOK
    <3>3. regressed => regressed'
      BY <3>1, <3>2
    <3> QED BY <3>1, <3>3
  <2> QED BY <1>2, <2>1, <2>2, <2>3
<1>3. CASE SweepStart \/ ReclaimPointer \/ ReclaimBody \/ SweepEnd \/ ListCatchesUp
  BY <1>3 DEF SweepStart, ReclaimPointer, ReclaimBody, SweepEnd, ListCatchesUp, history
<1>4. CASE UNCHANGED vars
  BY <1>4 DEF vars, history
<1> QED BY <1>1, <1>2, <1>3, <1>4 DEF Next

\* Initially nothing is hidden and nothing is missing.
LEMMA ResolveInit ==
  ASSUME Init
  PROVE  ResolveInv
<1>1. MaxVersion \in Nat /\ Legacy \subseteq 0..MaxVersion /\ None \notin 0..MaxVersion
  BY ConstantsAssumption
<1>2. PICK k \in -1..MaxVersion :
        /\ top = k /\ bodies = 0..k /\ ancient = 0..k
        /\ \/ k = -1 /\ advisory = None
           \/ k \in 0..MaxVersion /\ advisory = k /\ k \in Legacy
  <2>1. CASE bodies = {} /\ advisory = None /\ top = -1
    <3>1. -1 \in -1..MaxVersion /\ 0..-1 = {}
      BY <1>1
    <3>2. ancient = bodies
      BY DEF Init
    <3> QED BY <2>1, <3>1, <3>2
  <2>2. ASSUME NEW k \in Legacy, bodies = 0..k, advisory = k, top = k
        PROVE  k \in 0..MaxVersion /\ k \in -1..MaxVersion
    BY <1>1
  <2> QED BY <2>1, <2>2 DEF Init
<1>3. /\ ptrs = {} /\ views = {-1} /\ horizon = None
      /\ pc = [p \in Procs |-> "idle"] /\ load = [p \in Procs |-> NoLoad]
      /\ base = [p \in Procs |-> None] /\ rebooted = FALSE /\ regressed = FALSE
  BY DEF Init
<1>4. NoLoad \in Loads
  <2>1. 0 \in Versions /\ -1 \in -1..MaxVersion
    BY <1>1 DEF Versions
  <2> QED BY <2>1 DEF NoLoad, Loads
<1>5. ResTypeOK
  <2>1. bodies \subseteq Versions /\ advisory \in Versions \cup {None} /\ top \in -1..MaxVersion
    BY <1>1, <1>2 DEF Versions
  <2>2. views \subseteq -1..MaxVersion /\ views # {} /\ ptrs \subseteq Versions
    BY <1>1, <1>3
  <2>3. pc \in [Procs -> Labels] /\ load \in [Procs -> Loads] /\ base \in [Procs -> Versions \cup {None}]
    BY <1>3, <1>4 DEF Labels
  <2>4. \A p \in Procs : Held(pc[p], load[p], base[p])
    BY <1>3 DEF Held, Located, Based
  <2>5. ancient \subseteq Old
    BY <1>1, <1>2 DEF Old, Versions
  <2> QED BY <1>3, <2>1, <2>2, <2>3, <2>4, <2>5 DEF ResTypeOK
<1>6. Newest
  <2>1. -1 \in -1..top
    BY <1>1, <1>2
  <2>2. top >= 0 => top \in bodies
    BY <1>1, <1>2
  <2>3. (advisory # None => advisory \in 0..top) /\ (top >= 0 => advisory # None)
    BY <1>1, <1>2
  <2> QED BY <1>2, <1>3, <2>1, <2>2, <2>3 DEF Newest
<1>7. Known(-1)
  <2>1. -1 <= top /\ (-1 + 1)..top \subseteq bodies \cup Old
    BY <1>1, <1>2
  <2>2. \A x \in ptrs \cup {-1} : ~ (0 <= x)
    BY <1>3
  <2>3. top >= 0 => advisory # None
    BY <1>1, <1>2
  <2> QED BY <2>1, <2>2, <2>3 DEF Known
<1>8. \A p \in Procs : LoadOK(pc[p], load[p])
  BY <1>3, <1>5, LoadBegins
<1> QED BY <1>3, <1>5, <1>6, <1>7, <1>8 DEF ResolveInv, Resolved

\* Every step keeps ResolveInv.
LEMMA ResolveStep ==
  ASSUME Timely \/ horizon = None, ResolveInv, [Next]_vars
  PROVE  ResolveInv'
<1>1. ResTypeOK /\ ResTypeOK'
  BY ResTypeStep DEF ResolveInv
<1>2. SUFFICES ASSUME Sound' PROVE Resolved'
  BY <1>1 DEF ResolveInv
<1>3. Resolved
  BY <1>1, <1>2, FlagsRise DEF Sound, ResolveInv
<1>4. ASSUME NEW p \in Procs, StartLoad(p) \/ LoadStep(p) PROVE Resolved'
  BY <1>1, <1>3, <1>4, LoadStepResolved
<1>5. ASSUME NEW p \in Writers, Close(p) \/ Bootstrap(p) \/ Publish(p) \/ PutAdvisory(p)
      PROVE  Resolved'
  BY <1>1, <1>2, <1>3, <1>5, WriterStepResolved DEF Procs
<1>6. CASE SweepStart \/ ReclaimPointer \/ ReclaimBody \/ SweepEnd \/ ListCatchesUp
  BY <1>1, <1>3, <1>6, StoreStepResolved
<1>7. CASE UNCHANGED vars
  <2>1. UNCHANGED <<ptrs, bodies, advisory, views, horizon, pc, load, base, top>>
    BY <1>7 DEF vars, store, sweeper, history
  <2> QED BY <1>3, <2>1 DEF Resolved, Newest, Known, LoadOK
<1> QED BY <1>4, <1>5, <1>6, <1>7 DEF Next

\* Any number of writers, readers, sweeps and faults: as long as no namespace
\* was started over and no version published below another, the newest version
\* is there and every load's LIST still protects its cursor.
THEOREM ResolveInvariant ==
  ASSUME Timely
  PROVE  Spec => []ResolveInv
<1>1. Init => ResolveInv
  BY ResolveInit
<1>2. ResolveInv /\ [Next]_vars => ResolveInv'
  BY ResolveStep
<1> QED BY <1>1, <1>2, PTL DEF Spec
-----------------------------------------------------------------------------
(* One writer.                                                             *)

\* The load of the only writer: its requests.
LEMMA AloneLoads ==
  ASSUME Old = {}, ResTypeOK, Resolved, NEW p \in Procs, Alone(p), StartLoad(p) \/ LoadStep(p)
  PROVE  Alone(p)'
<1>1. UNCHANGED <<ptrs, bodies, advisory, top>>
  BY LoadStepType DEF store, history
<1>2. /\ pc \in [Procs -> Labels] /\ load \in [Procs -> Loads]
      /\ Held(pc[p], load[p], base[p]) /\ top \in Int /\ ptrs \subseteq Int /\ bodies \subseteq Int
  BY DEF ResTypeOK, Versions
<1>3. PICK l \in Loads : l = load[p]
  BY <1>2
<1>4. LoadOK(pc[p], l) /\ l.seen \in Int /\ l.began \in Int
  BY <1>3 DEF Resolved, Loads
<1>5. ASSUME NEW c \in Labels, c = pc'[p], c \notin {"session", "advise"}, NEW k, k = load'[p],
             c \in Resolving \cup {"list"} => k.began = top,
             c = "not_found" /\ k.why = "open" => top < 0 \/ (k.seen = -1 /\ 0 \in ptrs)
      PROVE  Alone(p)'
  BY <1>1, <1>5 DEF Alone
<1>6. ASSUME NEW r, Load(p, r) PROVE Alone(p)'
  <2>1. PICK k : k = [NoLoad EXCEPT !.why = r, !.began = top]
    OBVIOUS
  <2>2. pc'[p] = "list" /\ load'[p] = k
    BY <1>2, <1>6, <2>1 DEF Load, Goto
  <2>3. k.began = top
    BY <2>1 DEF NoLoad
  <2> QED BY <1>5, <2>2, <2>3 DEF Labels
<1>7. ASSUME EndLoad(p), Goto(p, "idle") PROVE Alone(p)'
  <2>1. pc'[p] = "idle"
    BY <1>2, <1>7 DEF Goto
  <2> QED BY <1>5, <2>1 DEF Labels, Resolving
<1>8. ASSUME pc[p] \in Resolving \cup {"list"}, NEW c \in Labels, c = pc'[p],
             c \notin {"session", "advise", "not_found"}, NEW k, k = load'[p], k.began = l.began
      PROVE  Alone(p)'
  <2>1. l.began = top
    BY <1>3, <1>8 DEF Alone
  <2> QED BY <1>5, <1>8, <2>1
<1>9. CASE StartLoad(p)
  BY <1>6, <1>9 DEF StartLoad
<1>10. CASE List(p)
  <2>1. PICK v \in views :
          \/ /\ v >= 0 /\ Goto(p, "probe")
             /\ load' = [load EXCEPT ![p] = Found([@ EXCEPT !.seen = v], v)]
          \/ v < 0 /\ Goto(p, "p0") /\ UNCHANGED load
    BY <1>10 DEF List
  <2>2. pc[p] = "list" /\ pc'[p] \in {"probe", "p0"}
    BY <1>2, <1>10, <2>1 DEF List, Goto
  <2>3. load'[p] = Found([l EXCEPT !.seen = v], v) \/ load'[p] = l
    BY <1>2, <1>3, <2>1
  <2>4. Found([l EXCEPT !.seen = v], v).began = l.began
    BY DEF Found, Loads
  <2>5. PICK k, c : k = load'[p] /\ c = pc'[p]
    OBVIOUS
  <2>6. k.began = l.began /\ c \in Labels /\ c \notin {"session", "advise", "not_found"}
    BY <2>2, <2>3, <2>4, <2>5 DEF Labels, Resolving
  <2> QED BY <1>8, <2>2, <2>5, <2>6
<1>11. CASE HeadP0(p) \/ HeadAdvisory(p) \/ GetAdvisory(p)
  <2>1. /\ pc[p] \in {"p0", "advisory_head", "advisory"}
        /\ pc'[p] \in {"probe", "advisory", "legacy", "advisory_head"}
        /\ \/ \E v : load'[p] = Found(l, v) \/ load'[p] = [l EXCEPT !.n = v]
           \/ load'[p] = l
    BY <1>2, <1>3, <1>11 DEF HeadP0, HeadAdvisory, GetAdvisory, StartProbe, Cursor, Goto
  <2>2. \A v : Found(l, v).began = l.began /\ [l EXCEPT !.n = v].began = l.began
    BY DEF Found, Loads
  <2>3. PICK k, c : k = load'[p] /\ c = pc'[p]
    OBVIOUS
  <2>4. k.began = l.began /\ c \in Labels /\ c \notin {"session", "advise", "not_found"}
        /\ pc[p] \in Resolving
    BY <2>1, <2>2, <2>3 DEF Labels, Resolving
  <2> QED BY <1>8, <2>3, <2>4
<1>12. CASE GetLegacy(p)
  <2>1. PICK k : k = [l EXCEPT !.n = advisory]
    OBVIOUS
  <2>2. /\ pc[p] = "legacy" /\ load'[p] = k
        /\ pc'[p] \in {"body", "not_found"} /\ (pc'[p] = "not_found" => advisory = None)
    BY <1>2, <1>3, <1>12, <2>1 DEF GetLegacy, Cursor, Goto
  <2>3. k.began = l.began /\ k.seen = l.seen
    BY <2>1 DEF Loads
  <2>4. l.seen = -1 /\ Known(l.seen) /\ l.began = top
    BY <1>3, <1>4, <2>2 DEF LoadOK, Resolving, Alone
  <2>5. advisory = None => top < 0 \/ 0 \in ptrs
    BY <1>2, <2>4 DEF Known
  <2>6. PICK c : c = pc'[p]
    OBVIOUS
  <2>7. c \in Labels /\ c \notin {"session", "advise"} /\ (c = "not_found" => advisory = None)
    BY <2>2, <2>6 DEF Labels, Resolving
  <2> QED BY <1>5, <2>2, <2>3, <2>4, <2>5, <2>6, <2>7
<1>13. CASE Probe(p)
  <2>1. /\ pc[p] = "probe" /\ pc'[p] \in {"probe", "pointer", "stale"}
        /\ (load'[p] = [l EXCEPT !.n = l.n + 1] \/ load'[p] = l)
    BY <1>2, <1>3, <1>13 DEF Probe, Cursor, Goto
  <2>2. [l EXCEPT !.n = l.n + 1].began = l.began
    BY DEF Loads
  <2>3. PICK k, c : k = load'[p] /\ c = pc'[p]
    OBVIOUS
  <2>4. k.began = l.began /\ c \in Labels /\ c \notin {"session", "advise", "not_found"}
        /\ pc[p] \in Resolving
    BY <2>1, <2>2, <2>3 DEF Labels, Resolving
  <2> QED BY <1>8, <2>3, <2>4
<1>14. CASE GetPointer(p) \/ GetBody(p)
  <2>1. /\ pc[p] \in {"pointer", "body"} /\ pc'[p] \in {"body", "loaded", "not_found"}
        /\ load'[p] = l /\ l.n \in Int /\ 0 <= l.n
        /\ pc'[p] = "not_found" /\ pc[p] = "pointer" => l.n \notin ptrs
        /\ pc'[p] = "not_found" /\ pc[p] = "body" => l.n \notin bodies
    BY <1>2, <1>3, <1>14 DEF GetPointer, GetBody, Goto, Held, Located, Versions
  <2>2. l.began = top /\ l.n <= top /\ Known(l.seen)
    BY <1>3, <1>4, <2>1 DEF Alone, LoadOK, Resolving, Located
  <2>3. pc[p] = "pointer" => l.n \in ptrs
    <3> SUFFICES ASSUME pc[p] = "pointer" PROVE l.n \in ptrs
      OBVIOUS
    <3>1. l.n >= l.began /\ top \in ptrs
      BY <1>4 DEF LoadOK
    <3>2. l.n = top
      BY <1>2, <2>1, <2>2, <3>1
    <3> QED BY <3>1, <3>2
  <2>4. pc[p] = "body" => l.n \in bodies
    <3> SUFFICES ASSUME pc[p] = "body" PROVE l.n \in bodies
      OBVIOUS
    <3>1. CASE l.family
      <4>1. l.n >= l.began
        BY <1>4, <3>1 DEF LoadOK
      <4>2. l.n = top /\ top >= 0
        BY <1>2, <2>1, <2>2, <4>1
      <4> QED BY <4>2 DEF Resolved, Newest
    <3>2. CASE ~l.family
      <4>1. l.seen = -1
        BY <1>4, <3>2 DEF LoadOK
      <4>2. (-1 + 1)..top \subseteq bodies
        BY <2>2, <4>1 DEF Known
      <4> QED BY <1>2, <2>1, <2>2, <4>2
    <3> QED BY <3>1, <3>2
  <2>5. PICK c : c = pc'[p]
    OBVIOUS
  <2>6. c \in Labels /\ c \notin {"session", "advise", "not_found"} /\ pc[p] \in Resolving
    BY <2>1, <2>3, <2>4, <2>5 DEF Labels, Resolving
  <2> QED BY <1>8, <2>1, <2>5, <2>6
<1>15. CASE RequestFails(p) \/ LoadFails(p)
  <2>1. CASE EndLoad(p) /\ Goto(p, "idle")
    BY <1>7, <2>1
  <2>2. CASE pc[p] \in {"p0", "advisory", "advisory_head"} /\ UNCHANGED load
             /\ \E c \in {"advisory", "legacy"} : Goto(p, c)
    <3>1. pc'[p] \in {"advisory", "legacy"} /\ load'[p] = l
      BY <1>2, <1>3, <2>2 DEF Goto
    <3>2. PICK c : c = pc'[p]
      OBVIOUS
    <3>3. c \in Labels /\ c \notin {"session", "advise", "not_found"} /\ pc[p] \in Resolving
      BY <2>2, <3>1, <3>2 DEF Labels, Resolving
    <3> QED BY <1>8, <3>1, <3>2, <3>3
  <2> QED BY <1>15, <2>1, <2>2 DEF RequestFails, LoadFails
<1>16. CASE LoadSucceeds(p)
  <2>1. CASE Load(p, "claim")
    BY <1>6, <2>1
  <2>2. CASE Goto(p, "claim") /\ UNCHANGED load
    <3>1. pc'[p] = "claim" /\ load'[p] = l /\ pc[p] = "loaded"
      BY <1>2, <1>3, <1>16, <2>2 DEF Goto, LoadSucceeds
    <3>2. "claim" \in Labels /\ "claim" \notin {"session", "advise", "not_found"} /\ pc[p] \in Resolving
      BY <3>1 DEF Labels, Resolving
    <3> QED BY <1>8, <3>1, <3>2
  <2>3. CASE EndLoad(p) /\ Goto(p, "idle")
    BY <1>7, <2>3
  <2> QED BY <1>16, <2>1, <2>2, <2>3 DEF LoadSucceeds
<1> QED BY <1>9, <1>10, <1>11, <1>12, <1>13, <1>14, <1>15, <1>16 DEF LoadStep

\* Its own steps: a namespace it bootstraps is new, and what it publishes extends
\* the newest version.
LEMMA AloneWrites ==
  ASSUME Old = {}, ResTypeOK, Resolved, Sound, NEW p \in Procs, Alone(p),
         Close(p) \/ Bootstrap(p) \/ Publish(p) \/ PutAdvisory(p)
  PROVE  Sound' /\ Alone(p)'
<1>1. /\ pc \in [Procs -> Labels] /\ load \in [Procs -> Loads]
      /\ base \in [Procs -> Versions \cup {None}] /\ Held(pc[p], load[p], base[p])
      /\ top \in Int /\ -1 <= top /\ 0 \in Versions
  BY ConstantsAssumption DEF ResTypeOK, Versions
<1>2. ASSUME pc'[p] = "idle" PROVE Alone(p)'
  BY <1>2 DEF Alone, Resolving
<1>3. ASSUME NEW c \in {"advise", "session"}, pc'[p] = c, base'[p] = top' PROVE Alone(p)'
  BY <1>3 DEF Alone, Resolving
<1>4. CASE Close(p)
  BY <1>1, <1>2, <1>4 DEF Close, Goto, history, Sound
<1>5. CASE Bootstrap(p)
  <2>1. regressed' = regressed /\ (top < 0 \/ 0 \in ptrs)
    BY <1>5 DEF Bootstrap, Alone
  <2>2. CASE 0 \in ptrs
    <3>1. pc'[p] = "idle" /\ rebooted' = rebooted
      BY <1>1, <1>5, <2>2 DEF Bootstrap, Goto
    <3> QED BY <1>2, <2>1, <3>1 DEF Sound
  <2>3. CASE 0 \notin ptrs
    <3>1. /\ PublishVersion(0) /\ rebooted' = (rebooted \/ top >= 0)
          /\ pc'[p] = "advise" /\ base'[p] = 0
      BY <1>1, <1>5, <2>3 DEF Bootstrap, Goto
    <3>2. top = -1
      BY <1>1, <2>1, <2>3
    <3>3. top' = 0
      BY <3>1, <3>2 DEF PublishVersion, Higher
    <3>4. ~rebooted'
      <4>1. ~ (top >= 0)
        BY <3>2
      <4> QED BY <3>1, <4>1 DEF Sound
    <3> QED BY <1>3, <2>1, <3>1, <3>3, <3>4 DEF Sound
  <2> QED BY <2>2, <2>3
<1>6. CASE Publish(p)
  <2>1. PICK v : v = base[p] + 1
    OBVIOUS
  <2>2. rebooted' = rebooted /\ v <= MaxVersion /\ pc[p] \in {"claim", "session"}
    BY <1>6, <2>1 DEF Publish
  <2>3. base[p] \in Int /\ base[p] \in 0..top
    BY <1>1, <2>2, ConstantsAssumption DEF Held, Based, Resolved, Newest, Versions
  <2>4. CASE v \in bodies \cup ptrs
    <3>1. pc'[p] = "idle" /\ regressed' = regressed
      BY <1>1, <1>6, <2>1, <2>4 DEF Publish, Goto
    <3> QED BY <1>2, <2>2, <3>1 DEF Sound
  <2>5. CASE v \notin bodies \cup ptrs
    <3>1. /\ PublishVersion(v) /\ regressed' = (regressed \/ v <= top)
          /\ pc'[p] = "advise" /\ base'[p] = v
      BY <1>1, <1>6, <2>1, <2>5 DEF Publish, Goto
    <3>2. base[p] = top
      <4>1. CASE pc[p] = "session"
        BY <4>1 DEF Alone
      <4>2. CASE pc[p] = "claim"
        <5>1. PICK l \in Loads : l = load[p]
          BY <1>1
        <5>2. base[p] = l.n /\ l.seen \in Int
          BY <1>1, <4>2, <5>1 DEF Held, Loads
        <5>3. LoadOK("claim", l)
          BY <4>2, <5>1 DEF Resolved
        <5>4. l.seen <= l.n /\ Known(l.seen)
          BY <5>3 DEF LoadOK, Resolving, Located
        <5>5. (l.seen + 1)..top \subseteq bodies
          BY <5>4 DEF Known
        <5>6. v \notin (l.seen + 1)..top
          BY <2>5, <5>5
        <5> QED BY <1>1, <2>1, <2>3, <5>2, <5>4, <5>6
      <4> QED BY <2>2, <4>1, <4>2
    <3>3. v > top /\ v \in Int
      BY <1>1, <2>1, <3>2
    <3>4. top' = v
      BY <3>1, <3>3 DEF PublishVersion, Higher
    <3>5. ~regressed'
      <4>1. ~ (v <= top)
        BY <1>1, <3>3
      <4> QED BY <3>1, <4>1 DEF Sound
    <3> QED BY <1>3, <2>2, <3>1, <3>4, <3>5 DEF Sound
  <2> QED BY <2>4, <2>5
<1>7. CASE PutAdvisory(p)
  <2>1. pc'[p] = "session" /\ base' = base /\ top' = top /\ pc[p] = "advise"
        /\ rebooted' = rebooted /\ regressed' = regressed
    BY <1>1, <1>7 DEF PutAdvisory, Goto, history
  <2>2. base'[p] = top'
    BY <2>1 DEF Alone
  <2> QED BY <1>3, <2>1, <2>2 DEF Sound
<1> QED BY <1>4, <1>5, <1>6, <1>7

\* Every step keeps SingleInv.
LEMMA SingleStep ==
  ASSUME Timely, Legacy = {}, \A x, y \in Writers : x = y, ResolveInv, SingleInv, [Next]_vars
  PROVE  SingleInv'
<1>1. ResTypeOK /\ Resolved /\ Sound /\ Old = {}
  BY DEF ResolveInv, SingleInv, Old
<1>2. ASSUME NEW q \in Procs, StartLoad(q) \/ LoadStep(q) PROVE SingleInv'
  <2>1. Moves(q) /\ UNCHANGED <<ptrs, top, rebooted, regressed>>
    BY <1>1, <1>2, LoadStepType DEF store, history
  <2>2. ASSUME NEW p \in Writers PROVE Alone(p)'
    <3>1. p \in Procs /\ Alone(p)
      BY DEF Procs, SingleInv
    <3>2. CASE q = p
      BY <1>1, <1>2, <3>1, <3>2, AloneLoads
    <3>3. CASE q # p
      <4>1. pc'[p] = pc[p] /\ load'[p] = load[p] /\ base'[p] = base[p]
        BY <2>1, <3>1, <3>3 DEF Moves
      <4> QED BY <2>1, <3>1, <4>1 DEF Alone
    <3> QED BY <3>2, <3>3
  <2> QED BY <1>1, <2>1, <2>2 DEF SingleInv, Sound
<1>3. ASSUME NEW q \in Writers, Close(q) \/ Bootstrap(q) \/ Publish(q) \/ PutAdvisory(q)
      PROVE  SingleInv'
  <2>1. Sound' /\ Alone(q)'
    BY <1>1, <1>3, AloneWrites DEF Procs, SingleInv
  <2>2. \A p \in Writers : p = q
    OBVIOUS
  <2> QED BY <2>1, <2>2 DEF SingleInv
<1>4. CASE SweepStart \/ ReclaimBody \/ SweepEnd \/ ListCatchesUp
  <2>1. UNCHANGED <<ptrs, pc, load, base, top, rebooted, regressed>>
    BY <1>4 DEF SweepStart, ReclaimBody, SweepEnd, ListCatchesUp, store, history
  <2> QED BY <2>1 DEF SingleInv, Sound, Alone
<1>5. CASE ReclaimPointer
  <2>1. UNCHANGED <<pc, load, base, top, rebooted, regressed>>
    BY <1>5 DEF ReclaimPointer, history
  <2>2. PICK v \in ptrs : Aged(v) /\ ptrs' = ptrs \ {v}
    BY <1>5 DEF ReclaimPointer
  <2>3. v \in Versions /\ v >= 0
    BY <1>1 DEF ResTypeOK, Versions
  <2>4. \A p \in Procs : pc[p] \in Resolving => v <= load[p].seen
    BY <1>1, <2>2, <2>3, AgedWhat
  <2>5. ASSUME NEW p \in Writers PROVE Alone(p)'
    <3>1. p \in Procs /\ Alone(p)
      BY DEF Procs, SingleInv
    <3>2. pc[p] = "not_found" => load[p].seen # -1
      BY <2>3, <2>4, <3>1 DEF Resolving, Versions
    <3> QED BY <2>1, <3>1, <3>2 DEF Alone
  <2> QED BY <2>1, <2>5 DEF SingleInv, Sound
<1>6. CASE UNCHANGED vars
  <2>1. UNCHANGED <<ptrs, pc, load, base, top, rebooted, regressed>>
    BY <1>6 DEF vars, store, history
  <2> QED BY <2>1 DEF SingleInv, Sound, Alone
<1> QED BY <1>2, <1>3, <1>4, <1>5, <1>6 DEF Next

\* One writer, however often it crashes, beside any number of readers, a janitor
\* and a LIST that lags, of a namespace born with the family.
THEOREM SingleInvariant ==
  ASSUME Timely, Legacy = {}, \A x, y \in Writers : x = y
  PROVE  Spec => [](ResolveInv /\ SingleInv)
<1>1. Init => SingleInv
  BY DEF Init, SingleInv, Sound, Alone, Resolving, Procs
<1>2. ResolveInv /\ SingleInv /\ [Next]_vars => SingleInv'
  BY SingleStep
<1> QED BY <1>1, <1>2, ResolveInvariant, PTL DEF Spec

\* One writer and any number of sweeps: no open takes a live namespace for a new one
\* (open_claiming), and neither a claim nor a commit is published at or below a
\* version published before.
THEOREM SingleNeverGoesBack ==
  ASSUME Timely, Legacy = {}, \A x, y \in Writers : x = y
  PROVE  Spec => [](~rebooted /\ ~regressed)
<1>1. SingleInv => ~rebooted /\ ~regressed
  BY DEF SingleInv, Sound
<1> QED BY <1>1, SingleInvariant, PTL

-----------------------------------------------------------------------------
(* Before the first sweep.                                                 *)

\* Every body is there, what a LIST answers and where a load through the family
\* stands is a pointer that exists, and a load that finds nothing found a new
\* namespace, or p0 says it did not.
Kept ==
  /\ Sound /\ horizon = None /\ sweeps = 0 /\ 0..top \subseteq bodies
  /\ \A u \in views : u >= 0 => u \in ptrs
  /\ \A p \in Procs :
       /\ pc[p] \in {"probe", "pointer"} => load[p].n \in ptrs
       /\ pc[p] = "not_found" => top < 0 \/ 0 \in ptrs

\* A step of p that takes no pointer away.
LEMMA KeptGrows ==
  ASSUME top \in Int, Kept, NEW p \in Procs, Moves(p), Sound', UNCHANGED <<horizon, sweeps>>,
         0..top' \subseteq bodies', ptrs \subseteq ptrs', top' < 0 \/ top >= 0 \/ 0 \in ptrs',
         \A u \in views' : u \in views \/ u \in ptrs',
         pc'[p] \in {"probe", "pointer"} => load'[p].n \in ptrs',
         pc'[p] = "not_found" => top' < 0 \/ 0 \in ptrs'
  PROVE  Kept'
<1>1. ASSUME NEW q \in Procs
      PROVE  /\ pc'[q] \in {"probe", "pointer"} => load'[q].n \in ptrs'
             /\ pc'[q] = "not_found" => top' < 0 \/ 0 \in ptrs'
  <2>1. CASE q = p
    BY <2>1
  <2>2. CASE q # p
    <3>1. pc'[q] = pc[q] /\ load'[q] = load[q]
      BY <2>2 DEF Moves
    <3>2. pc[q] \in {"probe", "pointer"} => load[q].n \in ptrs
      BY DEF Kept
    <3>3. pc[q] = "not_found" => top < 0 \/ 0 \in ptrs
      BY DEF Kept
    <3> QED BY <3>1, <3>2, <3>3
  <2> QED BY <2>1, <2>2
<1>2. \A u \in views' : u >= 0 => u \in ptrs'
  BY DEF Kept
<1>3. horizon' = None /\ sweeps' = 0
  BY DEF Kept
<1> QED BY <1>1, <1>2, <1>3 DEF Kept

\* The requests of a load.
LEMMA KeptLoads ==
  ASSUME ResTypeOK, Resolved, Kept, NEW p \in Procs, StartLoad(p) \/ LoadStep(p)
  PROVE  Kept'
<1>1. Moves(p) /\ UNCHANGED <<store, sweeper, history>>
  BY LoadStepType
<1>2. /\ pc \in [Procs -> Labels] /\ load \in [Procs -> Loads]
      /\ Held(pc[p], load[p], base[p]) /\ top \in Int /\ 0 \in Versions
  BY ConstantsAssumption DEF ResTypeOK, Versions
<1>3. PICK l \in Loads : l = load[p]
  BY <1>2
<1>4. LoadOK(pc[p], l) /\ l.seen \in Int
  BY <1>3 DEF Resolved, Loads
<1>5. ASSUME pc'[p] \in {"probe", "pointer"} => load'[p].n \in ptrs,
             pc'[p] = "not_found" => top < 0 \/ 0 \in ptrs
      PROVE  Kept'
  <2>1. UNCHANGED <<ptrs, bodies, views, horizon, sweeps, top, rebooted, regressed>>
    BY <1>1 DEF store, sweeper, history
  <2>2. Sound' /\ 0..top' \subseteq bodies'
    BY <2>1 DEF Kept, Sound
  <2>3. top' < 0 \/ top >= 0
    BY <1>2, <2>1
  <2> QED BY <1>1, <1>2, <1>5, <2>1, <2>2, <2>3, KeptGrows
<1>6. ASSUME pc'[p] \notin {"probe", "pointer", "not_found"} PROVE Kept'
  BY <1>5, <1>6
<1>7. CASE StartLoad(p)
  <2>1. pc'[p] = "list"
    BY <1>2, <1>7 DEF StartLoad, Load, Goto
  <2> QED BY <1>6, <2>1
<1>8. CASE List(p)
  <2>1. PICK v \in views :
          \/ /\ v >= 0 /\ Goto(p, "probe")
             /\ load' = [load EXCEPT ![p] = Found([@ EXCEPT !.seen = v], v)]
          \/ v < 0 /\ Goto(p, "p0") /\ UNCHANGED load
    BY <1>8 DEF List
  <2>2. CASE v >= 0 /\ Goto(p, "probe")
             /\ load' = [load EXCEPT ![p] = Found([@ EXCEPT !.seen = v], v)]
    <3>1. load'[p] = Found([l EXCEPT !.seen = v], v) /\ pc'[p] = "probe"
      BY <1>2, <1>3, <2>2 DEF Goto
    <3>2. Found([l EXCEPT !.seen = v], v).n = v
      BY DEF Found, Loads
    <3>3. v \in ptrs
      BY <2>2 DEF Kept
    <3> QED BY <1>5, <3>1, <3>2, <3>3
  <2>3. CASE v < 0 /\ Goto(p, "p0") /\ UNCHANGED load
    <3>1. pc'[p] = "p0"
      BY <1>2, <2>3 DEF Goto
    <3> QED BY <1>6, <3>1
  <2> QED BY <2>1, <2>2, <2>3
<1>9. CASE HeadP0(p) \/ HeadAdvisory(p)
  <2>1. \/ \E v \in ptrs : StartProbe(p, v)
        \/ \E c \in {"advisory", "legacy"} : Goto(p, c)
    BY <1>9 DEF HeadP0, HeadAdvisory
  <2>2. ASSUME NEW v \in ptrs, StartProbe(p, v) PROVE Kept'
    <3>1. load'[p] = Found(l, v) /\ pc'[p] = "probe"
      BY <1>2, <1>3, <2>2 DEF StartProbe, Goto
    <3>2. Found(l, v).n = v
      BY DEF Found, Loads
    <3> QED BY <1>5, <3>1, <3>2
  <2>3. ASSUME NEW c \in {"advisory", "legacy"}, Goto(p, c) PROVE Kept'
    <3>1. pc'[p] = c
      BY <1>2, <2>3 DEF Goto
    <3> QED BY <1>6, <3>1
  <2> QED BY <2>1, <2>2, <2>3
<1>10. CASE GetAdvisory(p)
  <2>1. pc'[p] \in {"legacy", "advisory_head"}
    BY <1>2, <1>10 DEF GetAdvisory, Goto
  <2> QED BY <1>6, <2>1
<1>11. CASE GetLegacy(p)
  <2>1. pc[p] = "legacy" /\ pc'[p] \in {"body", "not_found"} /\ (pc'[p] = "not_found" => advisory = None)
    BY <1>2, <1>11 DEF GetLegacy, Goto
  <2>2. l.seen = -1 /\ Known(l.seen)
    BY <1>4, <2>1 DEF LoadOK, Resolving
  <2>3. advisory = None => top < 0 \/ 0 \in ptrs
    BY <1>2, <2>2 DEF Known
  <2> QED BY <1>5, <2>1, <2>3
<1>12. CASE Probe(p)
  <2>1. pc[p] = "probe" /\ l.n \in ptrs
    BY <1>3, <1>12 DEF Probe, Kept
  <2>2. CASE l.n + 1 \in ptrs /\ Cursor(p, l.n + 1) /\ UNCHANGED pc
    <3>1. load'[p] = [l EXCEPT !.n = l.n + 1] /\ pc'[p] = "probe"
      BY <1>2, <1>3, <2>1, <2>2 DEF Cursor
    <3>2. [l EXCEPT !.n = l.n + 1].n = l.n + 1
      BY DEF Loads
    <3> QED BY <1>5, <2>2, <3>1, <3>2
  <2>3. CASE UNCHANGED load /\ \E c \in {"pointer", "stale"} : Goto(p, c)
    <3>1. load'[p] = l /\ pc'[p] \in {"pointer", "stale"}
      BY <1>2, <1>3, <2>3 DEF Goto
    <3> QED BY <1>5, <2>1, <3>1
  <2> QED BY <1>3, <1>12, <2>2, <2>3 DEF Probe
<1>13. CASE GetPointer(p)
  <2>1. l.n \in ptrs
    BY <1>3, <1>13 DEF GetPointer, Kept
  <2>2. pc'[p] = "body"
    BY <1>2, <1>3, <1>13, <2>1 DEF GetPointer, Goto
  <2> QED BY <1>6, <2>2
<1>14. CASE GetBody(p)
  <2>1. pc[p] = "body" /\ l.n \in Versions
    BY <1>2, <1>3, <1>14 DEF GetBody, Held, Located
  <2>2. l.n <= top
    BY <1>4, <2>1 DEF LoadOK, Located
  <2>3. l.n \in bodies
    <3>1. l.n \in 0..top
      BY <1>2, <2>1, <2>2 DEF Versions
    <3> QED BY <3>1 DEF Kept
  <2>4. pc'[p] = "loaded"
    BY <1>2, <1>3, <1>14, <2>3 DEF GetBody, Goto
  <2> QED BY <1>6, <2>4
<1>15. CASE RequestFails(p) \/ LoadFails(p) \/ LoadSucceeds(p)
  <2>1. pc'[p] \in {"advisory", "legacy", "idle", "list", "claim"}
    BY <1>2, <1>15 DEF RequestFails, LoadFails, LoadSucceeds, Load, Goto
  <2> QED BY <1>6, <2>1
<1> QED BY <1>7, <1>8, <1>9, <1>10, <1>11, <1>12, <1>13, <1>14, <1>15 DEF LoadStep

\* A writer's steps: no version but the next is free, and p0 stands.
LEMMA KeptWrites ==
  ASSUME ResTypeOK, Resolved, Kept, NEW p \in Procs,
         Close(p) \/ Bootstrap(p) \/ Publish(p) \/ PutAdvisory(p)
  PROVE  Kept'
<1>1. Moves(p)
  BY WriterStepType
<1>2. /\ pc \in [Procs -> Labels] /\ base \in [Procs -> Versions \cup {None}]
      /\ Held(pc[p], load[p], base[p]) /\ top \in Int /\ -1 <= top /\ 0 \in Versions
  BY ConstantsAssumption DEF ResTypeOK, Versions
<1>3. UNCHANGED <<horizon, sweeps>>
  BY DEF Close, Bootstrap, Publish, PutAdvisory, sweeper
<1>4. ASSUME pc'[p] \in {"idle", "advise", "session"}, UNCHANGED <<ptrs, views, top, rebooted, regressed>>,
             bodies \subseteq bodies'
      PROVE  Kept'
  <2>1. Sound' /\ 0..top' \subseteq bodies'
    BY <1>4 DEF Kept, Sound
  <2>2. top' < 0 \/ top >= 0
    BY <1>2, <1>4
  <2> QED BY <1>1, <1>2, <1>3, <1>4, <2>1, <2>2, KeptGrows
<1>5. ASSUME NEW v \in Versions, PublishVersion(v), v = top + 1, v = 0 \/ top >= 0, Sound',
             pc'[p] = "advise"
      PROVE  Kept'
  <2>1. /\ ptrs' = ptrs \cup {v} /\ bodies' = bodies \cup {v}
        /\ Max(ptrs') \in ptrs' /\ views' = views \cup {Max(ptrs')}
        /\ top' = IF v > top THEN v ELSE top
    BY <1>5, Published
  <2>2. top' = v
    BY <1>2, <1>5, <2>1 DEF Versions
  <2>3. 0..top' \subseteq bodies'
    <3>1. 0..top \subseteq bodies
      BY DEF Kept
    <3> QED BY <1>2, <1>5, <2>1, <2>2, <3>1
  <2>4. \A u \in views' : u \in views \/ u \in ptrs'
    BY <2>1
  <2>5. top' < 0 \/ top >= 0 \/ 0 \in ptrs'
    BY <1>5, <2>1
  <2>6. ptrs \subseteq ptrs'
    BY <2>1
  <2> QED BY <1>1, <1>2, <1>3, <1>5, <2>3, <2>4, <2>5, <2>6, KeptGrows
<1>6. CASE Close(p) \/ PutAdvisory(p)
  <2>1. UNCHANGED <<ptrs, bodies, views, top, rebooted, regressed>>
    BY <1>6 DEF Close, PutAdvisory, store, history
  <2>2. pc'[p] \in {"idle", "session"}
    BY <1>2, <1>6 DEF Close, PutAdvisory, Goto
  <2> QED BY <1>4, <2>1, <2>2
<1>7. CASE Bootstrap(p)
  <2>1. pc[p] = "not_found" /\ regressed' = regressed /\ (top < 0 \/ 0 \in ptrs)
    BY <1>7 DEF Bootstrap, Kept
  <2>2. CASE 0 \in ptrs
    <3>1. pc'[p] = "idle" /\ bodies \subseteq bodies' /\ UNCHANGED <<ptrs, views, top, rebooted>>
      BY <1>2, <1>7, <2>2 DEF Bootstrap, Goto
    <3> QED BY <1>4, <2>1, <3>1
  <2>3. CASE 0 \notin ptrs
    <3>1. PublishVersion(0) /\ rebooted' = (rebooted \/ top >= 0) /\ pc'[p] = "advise"
      BY <1>2, <1>7, <2>3 DEF Bootstrap, Goto
    <3>2. 0 = top + 1 /\ ~ (top >= 0)
      BY <1>2, <2>1, <2>3
    <3>3. Sound'
      BY <2>1, <3>1, <3>2 DEF Kept, Sound
    <3> QED BY <1>2, <1>5, <3>1, <3>2, <3>3
  <2> QED BY <2>2, <2>3
<1>8. CASE Publish(p)
  <2>1. PICK v : v = base[p] + 1
    OBVIOUS
  <2>2. rebooted' = rebooted /\ v <= MaxVersion /\ pc[p] \in Based
    BY <1>8, <2>1 DEF Publish, Based
  <2>3. base[p] \in Versions /\ base[p] \in 0..top
    BY <1>2, <2>2, ConstantsAssumption DEF Held, Resolved, Newest, Versions
  <2>4. v \in Versions /\ v <= top + 1 /\ top >= 0
    <3>1. MaxVersion \in Nat /\ base[p] \in Nat /\ base[p] <= top
      BY <2>3, ConstantsAssumption
    <3> QED BY <1>2, <2>1, <2>2, <3>1 DEF Versions
  <2>5. CASE v \in bodies \cup ptrs
    <3>1. pc'[p] = "idle" /\ bodies \subseteq bodies' /\ UNCHANGED <<ptrs, views, top, regressed>>
      BY <1>2, <1>8, <2>1, <2>5 DEF Publish, Goto
    <3> QED BY <1>4, <2>2, <3>1
  <2>6. CASE v \notin bodies \cup ptrs
    <3>1. PublishVersion(v) /\ regressed' = (regressed \/ v <= top) /\ pc'[p] = "advise"
      BY <1>2, <1>8, <2>1, <2>6 DEF Publish, Goto
    <3>2. v = top + 1 /\ ~ (v <= top)
      <4>1. v \notin 0..top
        BY <2>6 DEF Kept
      <4> QED BY <1>2, <2>4, <4>1 DEF Versions
    <3>3. Sound'
      BY <2>2, <3>1, <3>2 DEF Kept, Sound
    <3> QED BY <1>5, <2>4, <3>1, <3>2, <3>3
  <2> QED BY <2>5, <2>6
<1> QED BY <1>6, <1>7, <1>8

\* Every step but the start of a sweep keeps Kept.
LEMMA KeptStep ==
  ASSUME sweeps' = 0, ResolveInv, Kept, [Next]_vars
  PROVE  Kept'
<1>1. ResTypeOK /\ Resolved
  BY DEF ResolveInv, Kept
<1>2. ASSUME NEW p \in Procs, StartLoad(p) \/ LoadStep(p) PROVE Kept'
  BY <1>1, <1>2, KeptLoads
<1>3. ASSUME NEW p \in Writers, Close(p) \/ Bootstrap(p) \/ Publish(p) \/ PutAdvisory(p)
      PROVE  Kept'
  BY <1>1, <1>3, KeptWrites DEF Procs
<1>4. CASE SweepStart \/ ReclaimPointer \/ ReclaimBody \/ SweepEnd
  <2>1. horizon = None /\ ~ (sweeps' = sweeps + 1)
    BY DEF Kept
  <2> QED BY <1>4, <2>1 DEF SweepStart, ReclaimPointer, ReclaimBody, SweepEnd
<1>5. CASE ListCatchesUp
  <2>1. /\ views' \subseteq views
        /\ UNCHANGED <<ptrs, bodies, pc, load, top, rebooted, regressed, horizon, sweeps>>
    BY <1>5 DEF ListCatchesUp, sweeper, history
  <2> QED BY <2>1 DEF Kept, Sound
<1>6. CASE UNCHANGED vars
  <2>1. UNCHANGED <<ptrs, bodies, views, pc, load, top, rebooted, regressed, horizon, sweeps>>
    BY <1>6 DEF vars, store, sweeper, history
  <2> QED BY <2>1 DEF Kept, Sound
<1> QED BY <1>2, <1>3, <1>4, <1>5, <1>6 DEF Next

\* NeverGoesBack, for every value of the constants: any number of writers and
\* readers that die at any request, fresh and legacy namespaces, however far the
\* LIST lags (max_pointer_version's fallbacks, bootstrap's and commit's creates).
THEOREM BeforeSweepsCorrect == Spec => []NeverGoesBack
<1> DEFINE Before == sweeps \in Nat /\ (sweeps = 0 => ResolveInv /\ Kept)
<1>1. Init => Before
  <2> SUFFICES ASSUME Init PROVE Before
    OBVIOUS
  <2>1. 0..-1 = {}
    OBVIOUS
  <2>2. 0..top \subseteq bodies
    BY <2>1 DEF Init
  <2>3. Sound /\ horizon = None /\ sweeps = 0 /\ views = {-1} /\ pc = [p \in Procs |-> "idle"]
    BY DEF Init, Sound
  <2> QED BY <2>2, <2>3, ResolveInit DEF Kept
<1>2. Before /\ [Next]_vars => Before'
  <2> SUFFICES ASSUME Before, [Next]_vars PROVE Before'
    OBVIOUS
  <2>1. sweeps' \in {sweeps, sweeps + 1}
    BY DEF Next, LoadStep, StartLoad, List, HeadP0, GetAdvisory, HeadAdvisory, GetLegacy, Probe, GetPointer,
       GetBody, RequestFails, LoadFails, LoadSucceeds, Request, Close, Bootstrap, Publish, PutAdvisory,
       SweepStart, ReclaimPointer, ReclaimBody, SweepEnd, ListCatchesUp, sweeper, vars
  <2>2. ASSUME sweeps' = 0 PROVE ResolveInv' /\ Kept'
    <3>1. ResolveInv /\ Kept /\ horizon = None
      BY <2>1, <2>2 DEF Kept
    <3> QED BY <2>2, <3>1, ResolveStep, KeptStep
  <2> QED BY <2>1, <2>2
<1>3. Before => NeverGoesBack
  BY DEF Kept, Sound, NeverGoesBack
<1> QED BY <1>1, <1>2, <1>3, PTL DEF Spec

-----------------------------------------------------------------------------
\* FreshLoad, for any number of writers, fresh and legacy namespaces: what any
\* process loads through the pointer family is at least as new as what was
\* published when it began, whatever LIST answered and whatever the janitor
\* reclaimed, until the namespace has gone back (probe_pointer_forward).
THEOREM FreshCorrect ==
  ASSUME Timely
  PROVE  Spec => []FreshLoad
<1>1. ResolveInv => FreshLoad
  BY DEF ResolveInv, Sound, Resolved, LoadOK, FreshLoad
<1> QED BY <1>1, ResolveInvariant, PTL
=============================================================================
