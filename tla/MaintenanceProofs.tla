------------------------- MODULE MaintenanceProofs -------------------------
(***************************************************************************)
(* Theorems about Maintenance for any number of objects and faults: what   *)
(* admission and the gate say of the tasks, and that no sweep deletes an   *)
(* object that is still needed.                                            *)
(***************************************************************************)
EXTENDS Maintenance, Extrema, TLAPS

Labels == {"idle", "gate", "basis", "prepare", "install", "over"}

Shape ==
  /\ manifest \subseteq Ids /\ pub \subseteq Ids /\ objects \subseteq Ids
  /\ aged \subseteq objects /\ doomed \subseteq aged
  /\ flushing \in Ids \cup {None}
  /\ pass \in [Passes -> [at: Labels, removed: SUBSET Ids, out: Ids \cup {None}]]
  /\ worker_active \in BOOLEAN /\ pending \in BOOLEAN /\ due \in BOOLEAN
  /\ sweeping \in BOOLEAN /\ queued \in BOOLEAN
  /\ loop \in {"idle", "wait_idle", "sweep"}

\* A worker exists exactly while worker_active is set; the passes beyond the
\* gate are its readers; the sweep has it alone.
Admission ==
  /\ worker_active <=> pass["worker"].at # "idle"
  /\ pending => worker_active
Gate ==
  /\ readers = {p \in Passes : pass[p].at \notin {"idle", "gate"}}
  /\ ~(sweeping /\ readers # {})
  /\ ~(sweeping /\ queued)
  /\ (queued \/ sweeping) <=> loop = "sweep"

\* What the sweep under way still means to delete is needed by nobody. A pass
\* needs something only while it holds the gate, so never during a sweep; a
\* flush has its own upload, which is too young.
Spared ==
  /\ ~sweeping => doomed = {}
  /\ doomed \cap (manifest \cup pub) = {}
  /\ flushing \notin aged
  /\ flushing # None => flushing \in objects
  /\ \A p \in Passes : pass[p].at \notin {"prepare", "install"}
                          => pass[p].removed = {} /\ pass[p].out = None

MaintInv == Shape /\ Admission /\ Gate /\ Spared /\ LiveObjectsPresent

\* An id nothing mentions is the id of no object, while there is one.
LEMMA FreshIdIsNew ==
  ASSUME Unused # {}
  PROVE  FreshId \in Ids /\ FreshId \notin objects /\ FreshId # None
<1>1. Unused \subseteq Nat /\ Unused \subseteq Ids /\ Unused \cap objects = {}
  BY MaintAssumption DEF Unused, Ids
<1>2. FreshId \in Unused
  BY <1>1, LeastNat DEF FreshId
<1> QED BY <1>1, <1>2, MaintAssumption DEF Ids

\* An upload is a new object, too young for any sweep.
LEMMA FlushUploadStep ==
  ASSUME MaintInv, FlushUpload
  PROVE  MaintInv'
<1> USE DEF FlushUpload, schedVars, dataVars, Some, Passes, MaintInv
<1>0. FreshId \in Ids /\ FreshId \notin objects /\ FreshId # None
  BY FreshIdIsNew
<1>1. Shape' BY <1>0 DEF Shape, Labels, Ids
<1>2. Admission' BY DEF Shape, Labels, Admission
<1>3. Gate' BY DEF Shape, Labels, Gate
<1>4. Spared' BY <1>0 DEF Shape, Labels, Gate, Spared
<1>5. LiveObjectsPresent' BY DEF Shape, Labels, Gate, Spared, LiveObjectsPresent
<1> QED BY <1>1, <1>2, <1>3, <1>4, <1>5

\* A commit references its own upload, which the sweep spares.
LEMMA FlushCommitStep ==
  ASSUME MaintInv, FlushCommit
  PROVE  MaintInv'
<1> USE DEF FlushCommit, schedVars, dataVars, Some, Passes, MaintInv
<1>1. Shape' BY DEF Shape, Labels, Ids
<1>2. Admission' BY DEF Shape, Labels, Admission
<1>3. Gate' BY DEF Shape, Labels, Gate
<1>4. Spared' BY ZenonT(60), MaintAssumption DEF Shape, Labels, Gate, Spared, Ids
<1>5. LiveObjectsPresent' BY DEF Shape, Labels, Gate, Spared, LiveObjectsPresent
<1> QED BY <1>1, <1>2, <1>3, <1>4, <1>5

\* A commit that landed unseen does as well.
LEMMA FlushDiesStep ==
  ASSUME MaintInv, FlushDies
  PROVE  MaintInv'
<1> USE DEF FlushDies, Fault, schedVars, dataVars, Some, Passes, MaintInv
<1>0. manifest' = manifest \/ manifest' = manifest \cup {flushing}
  OBVIOUS
<1>a. doomed \cap manifest' = {}
  BY <1>0 DEF Shape, Spared
<1>1. Shape' BY DEF Shape, Labels, Ids
<1>2. Admission' BY DEF Shape, Labels, Admission
<1>3. Gate' BY DEF Shape, Labels, Gate
<1>4. Spared' BY <1>a, MaintAssumption DEF Shape, Gate, Spared, Ids
<1>5. LiveObjectsPresent' BY DEF Shape, Labels, Gate, Spared, LiveObjectsPresent
<1> QED BY <1>1, <1>2, <1>3, <1>4, <1>5

\* A worker is spawned only when there is none.
LEMMA RequestStep ==
  ASSUME MaintInv, Request
  PROVE  MaintInv'
<1> USE DEF Request, Admit, schedVars, dataVars, Some, Passes, MaintInv
<1>0. PICK starts \in BOOLEAN :
        /\ Admit(starts)
        /\ pass' = IF starts THEN [pass EXCEPT !["worker"].at = "gate"] ELSE pass
  BY DEF Request
<1>a. starts => pass["worker"].at = "idle"
  BY <1>0 DEF Admit, Admission, MaintInv
<1>1. Shape' BY <1>0 DEF Shape, Labels, Ids
<1>2. Admission' BY <1>0 DEF Shape, Labels, Admission
<1>3. Gate' BY <1>0, <1>a DEF Shape, Labels, Gate
<1>4. Spared' BY <1>0, <1>a DEF Shape, Labels, Gate, Spared
<1>5. LiveObjectsPresent' BY <1>0, <1>a DEF Shape, Labels, Gate, Spared, LiveObjectsPresent
<1> QED BY <1>1, <1>2, <1>3, <1>4, <1>5

\* A drain that waits at the gate holds nothing.
LEMMA StartDrainStep ==
  ASSUME MaintInv, StartDrain
  PROVE  MaintInv'
<1> USE DEF StartDrain, Goto, schedVars, dataVars, Some, Passes, MaintInv
<1>1. Shape' BY DEF Shape, Labels, Ids
<1>2. Admission' BY DEF Shape, Labels, Admission
<1>3. Gate' BY DEF Shape, Labels, Gate
<1>4. Spared' BY DEF Shape, Labels, Gate, Spared
<1>5. LiveObjectsPresent' BY DEF Shape, Labels, Gate, Spared, LiveObjectsPresent
<1> QED BY <1>1, <1>2, <1>3, <1>4, <1>5

\* A worker leaves the gate with the follow-up taken, or becomes idle.
LEMMA WorkerNextStep ==
  ASSUME MaintInv, WorkerNext
  PROVE  MaintInv'
<1> USE DEF WorkerNext, NextTriggerOrStop, Goto, schedVars, dataVars, Some, Passes, MaintInv
<1>0. pass' \in {[pass EXCEPT !["worker"].at = "gate"], [pass EXCEPT !["worker"].at = "idle"]}
  OBVIOUS
<1>a. worker_active' = pending /\ pending' = FALSE /\ UNCHANGED <<sweeping, queued, due>>
  OBVIOUS
<1>b. worker_active' \in BOOLEAN /\ pending' \in BOOLEAN
  BY <1>a DEF Shape
<1>c. pass' \in [Passes -> [at: Labels, removed: SUBSET Ids, out: Ids \cup {None}]]
  BY <1>0 DEF Shape, Labels
<1>1. Shape' BY <1>a, <1>b, <1>c DEF Shape
<1>2. Admission' BY DEF Shape, Labels, Admission
<1>3. Gate' BY DEF Shape, Labels, Gate
<1>4. Spared' BY DEF Shape, Labels, Gate, Spared
<1>5. LiveObjectsPresent' BY DEF Shape, Labels, Gate, Spared, LiveObjectsPresent
<1> QED BY <1>1, <1>2, <1>3, <1>4, <1>5

\* A drain leaves the gate.
LEMMA DrainNextStep ==
  ASSUME MaintInv, DrainNext
  PROVE  MaintInv'
<1> USE DEF DrainNext, ReleaseGuard, Goto, schedVars, dataVars, Some, Passes, MaintInv
<1>1. Shape' BY DEF Shape, Labels, Ids
<1>2. Admission' BY DEF Shape, Labels, Admission
<1>3. Gate' BY DEF Shape, Labels, Gate
<1>4. Spared' BY DEF Shape, Labels, Gate, Spared
<1>5. LiveObjectsPresent' BY DEF Shape, Labels, Gate, Spared, LiveObjectsPresent
<1> QED BY <1>1, <1>2, <1>3, <1>4, <1>5

\* A pass enters while no sweep holds the gate or waits for it.
LEMMA EnterGateStep ==
  ASSUME MaintInv, NEW p \in Passes, EnterGate(p)
  PROVE  MaintInv'
<1> USE DEF EnterGate, CompactionGuard, Goto, schedVars, dataVars, Some, Passes, MaintInv
<1>1. Shape' BY DEF Shape, Labels, Ids
<1>2. Admission' BY DEF Shape, Labels, Admission
<1>3. Gate' BY DEF Shape, Labels, Gate
<1>4. Spared' BY DEF Shape, Labels, Gate, Spared
<1>5. LiveObjectsPresent' BY DEF Shape, Labels, Gate, Spared, LiveObjectsPresent
<1> QED BY <1>1, <1>2, <1>3, <1>4, <1>5

\* The inputs of a pass are the published SSTs, which are in the store.
LEMMA TakeBasisStep ==
  ASSUME MaintInv, NEW p \in Passes, TakeBasis(p)
  PROVE  MaintInv'
<1> USE DEF TakeBasis, Goto, schedVars, dataVars, Some, Passes, MaintInv
<1>0. due' \in BOOLEAN /\ UNCHANGED <<worker_active, pending, readers, sweeping, queued>>
  BY DEF BasisCaptured, Shape
<1>a. CASE Goto(p, "over")
  <2>1. Shape' BY <1>0, <1>a DEF Shape, Labels, Ids
  <2>2. Admission' BY <1>0, <1>a DEF Shape, Labels, Admission
  <2>3. Gate' BY <1>0, <1>a DEF Shape, Labels, Gate
  <2>4. Spared' BY <1>0, <1>a DEF Shape, Labels, Gate, Spared
  <2>5. LiveObjectsPresent' BY <1>0, <1>a DEF Shape, Labels, Gate, Spared, LiveObjectsPresent
  <2> QED BY <2>1, <2>2, <2>3, <2>4, <2>5
<1>b. CASE pass' = [pass EXCEPT ![p] = [@ EXCEPT !.at = "prepare", !.removed = pub]]
  <2>1. Shape' BY ZenonT(60), <1>0, <1>b DEF Shape, Labels, Ids
  <2>2. Admission' BY <1>0, <1>b DEF Shape, Labels, Admission
  <2>3. Gate' BY <1>0, <1>b DEF Shape, Labels, Gate
  <2>4. Spared' BY <1>0, <1>b DEF Shape, Labels, Gate, Spared
  <2>5. LiveObjectsPresent' BY <1>0, <1>b DEF Shape, Labels, Gate, Spared, LiveObjectsPresent
  <2> QED BY <2>1, <2>2, <2>3, <2>4, <2>5
<1> QED BY <1>a, <1>b

\* The output is a new object.
LEMMA PrepareStep ==
  ASSUME MaintInv, NEW p \in Passes, Prepare(p)
  PROVE  MaintInv'
<1> USE DEF Prepare, schedVars, dataVars, Some, Passes, MaintInv
<1>0. FreshId \in Ids /\ FreshId \notin objects /\ FreshId # None
  BY FreshIdIsNew
<1>1. Shape' BY <1>0 DEF Shape, Labels, Ids
<1>2. Admission' BY DEF Shape, Labels, Admission
<1>3. Gate' BY DEF Shape, Labels, Gate
<1>4. Spared' BY DEF Shape, Labels, Gate, Spared
<1>5. LiveObjectsPresent' BY DEF Shape, Labels, Gate, Spared, LiveObjectsPresent
<1> QED BY <1>1, <1>2, <1>3, <1>4, <1>5

\* An install replaces inputs that are all there by the output.
LEMMA InstallStep ==
  ASSUME MaintInv, NEW p \in Passes, Install(p)
  PROVE  MaintInv'
<1> USE DEF Install, Compacted, NoPass, schedVars, dataVars, Some, Passes, MaintInv
<1>1. Shape' BY DEF Shape, Labels, Ids
<1>2. Admission' BY DEF Shape, Labels, Admission
<1>3. Gate' BY DEF Shape, Labels, Gate
<1>4. Spared' BY DEF Shape, Labels, Gate, Spared
<1>5. LiveObjectsPresent' BY DEF Shape, Labels, Gate, Spared, LiveObjectsPresent
<1> QED BY <1>1, <1>2, <1>3, <1>4, <1>5

\* A failed pass needs nothing; its output is unreferenced or its install has landed.
LEMMA PassFailsStep ==
  ASSUME MaintInv, NEW p \in Passes, PassFails(p)
  PROVE  MaintInv'
<1> USE DEF Fault, NoPass, schedVars, dataVars, Some, Passes, MaintInv
<1>0. /\ pass' = [pass EXCEPT ![p] = [NoPass EXCEPT !.at = "over"]]
      /\ pass[p].at \in {"prepare", "install"}
      /\ UNCHANGED <<schedVars, aged, flushing, loop, doomed>>
  BY DEF PassFails
<1>a. CASE pass[p].at = "prepare"
  <2>0. UNCHANGED <<manifest, pub>> /\ (objects' = objects \/ objects' = objects \cup {FreshId})
          /\ Unused # {}
    BY <1>a DEF PassFails
  <2>1. objects' = objects \/ (FreshId \in Ids /\ objects' = objects \cup {FreshId})
    BY <2>0, FreshIdIsNew
  <2>2. Shape' BY <1>0, <2>0, <2>1 DEF Shape, Labels, Ids
  <2>3. Admission' BY <1>0 DEF Shape, Labels, Admission
  <2>4. Gate' BY <1>0, <1>a DEF Shape, Labels, Gate
  <2>5. Spared' BY <1>0, <2>0 DEF Shape, Labels, Gate, Spared
  <2>6. LiveObjectsPresent' BY <1>0, <2>0 DEF Shape, Labels, Gate, Spared, LiveObjectsPresent
  <2> QED BY <2>2, <2>3, <2>4, <2>5, <2>6
<1>b. CASE pass[p].at = "install"
  <2>0. /\ manifest' = manifest
             \/ manifest' = (manifest \ pass[p].removed) \cup Some(pass[p].out)
        /\ pub' = pub \/ pub' = manifest'
        /\ objects' = objects
    BY <1>b DEF PassFails, Landed, Compacted
  <2>1. Shape' BY <1>0, <2>0 DEF Shape, Labels, Ids
  <2>2. Admission' BY <1>0 DEF Shape, Labels, Admission
  <2>3. Gate' BY <1>0, <1>b DEF Shape, Labels, Gate
  <2>4. Spared' BY <1>0, <1>b, <2>0 DEF Shape, Labels, Gate, Spared
  <2>5. LiveObjectsPresent' BY <1>0, <1>b, <2>0 DEF Shape, Labels, Gate, Spared, LiveObjectsPresent
  <2> QED BY <2>1, <2>2, <2>3, <2>4, <2>5
<1> QED BY <1>0, <1>a, <1>b

\* A dead pass needs nothing; its install may have landed.
LEMMA PassDiesStep ==
  ASSUME MaintInv, NEW p \in Passes, PassDies(p)
  PROVE  MaintInv'
<1> USE DEF PassDies, Landed, Fault, WorkerDropped, ReleaseGuard, Compacted, NoPass, schedVars, dataVars, Some, Passes, MaintInv
<1>0. /\ Fault /\ pass' = [pass EXCEPT ![p] = NoPass]
      /\ UNCHANGED <<pub, objects, aged, flushing, loop, doomed, sweeping, queued>>
  OBVIOUS
<1>a. worker_active' \in BOOLEAN /\ pending' \in BOOLEAN /\ due' \in BOOLEAN
  BY DEF Shape
<1>b. manifest' \subseteq Ids
  BY DEF Shape, Ids
<1>1. Shape' BY <1>0, <1>a, <1>b DEF Shape, Labels
<1>2. Admission' BY DEF Shape, Labels, Admission
<1>3. Gate' BY DEF Shape, Labels, Gate
<1>4. Spared' BY DEF Shape, Labels, Gate, Spared
<1>5. LiveObjectsPresent' BY DEF Shape, Labels, Gate, Spared, LiveObjectsPresent
<1> QED BY <1>1, <1>2, <1>3, <1>4, <1>5

\* A reopened session publishes what the store has.
LEMMA RecoverWriterStep ==
  ASSUME MaintInv, RecoverWriter
  PROVE  MaintInv'
<1> USE DEF RecoverWriter, schedVars, dataVars, Some, Passes, MaintInv
<1>1. Shape' BY DEF Shape, Labels, Ids
<1>2. Admission' BY DEF Shape, Labels, Admission
<1>3. Gate' BY DEF Shape, Labels, Gate
<1>4. Spared' BY DEF Shape, Labels, Gate, Spared
<1>5. LiveObjectsPresent' BY DEF Shape, Labels, Gate, Spared, LiveObjectsPresent
<1> QED BY <1>1, <1>2, <1>3, <1>4, <1>5

\* A tick is a request.
LEMMA TickStep ==
  ASSUME MaintInv, Tick
  PROVE  MaintInv'
<1> USE DEF Tick, Admit, schedVars, dataVars, Some, Passes, MaintInv
<1>0. PICK starts \in BOOLEAN :
        /\ Admit(starts)
        /\ pass' = IF starts THEN [pass EXCEPT !["worker"].at = "gate"] ELSE pass
  BY DEF Tick
<1>a. starts => pass["worker"].at = "idle"
  BY <1>0 DEF Admit, Admission, MaintInv
<1>1. Shape' BY <1>0 DEF Shape, Labels, Ids
<1>2. Admission' BY <1>0 DEF Shape, Labels, Admission
<1>3. Gate' BY <1>0, <1>a DEF Shape, Labels, Gate
<1>4. Spared' BY <1>0, <1>a DEF Shape, Labels, Gate, Spared
<1>5. LiveObjectsPresent' BY <1>0, <1>a DEF Shape, Labels, Gate, Spared, LiveObjectsPresent
<1> QED BY <1>1, <1>2, <1>3, <1>4, <1>5

\* The sweep waits.
LEMMA QueueSweepStep ==
  ASSUME MaintInv, QueueSweep
  PROVE  MaintInv'
<1> USE DEF QueueSweep, WaitIdleOver, schedVars, dataVars, Some, Passes, MaintInv
<1>1. Shape' BY DEF Shape, Labels, Ids
<1>2. Admission' BY DEF Shape, Labels, Admission
<1>3. Gate' BY DEF Shape, Labels, Gate
<1>4. Spared' BY DEF Shape, Labels, Gate, Spared
<1>5. LiveObjectsPresent' BY DEF Shape, Labels, Gate, Spared, LiveObjectsPresent
<1> QED BY <1>1, <1>2, <1>3, <1>4, <1>5

\* What a sweep decides to delete is in no manifest, and no pass is under way.
LEMMA StartSweepStep ==
  ASSUME MaintInv, StartSweep
  PROVE  MaintInv'
<1> USE DEF StartSweep, SweepGuard, schedVars, dataVars, Some, Passes, MaintInv
<1>1. Shape' BY DEF Shape, Labels, Ids
<1>2. Admission' BY DEF Shape, Labels, Admission
<1>3. Gate' BY DEF Shape, Labels, Gate
<1>4. Spared' BY DEF Shape, Labels, Gate, Spared
<1>5. LiveObjectsPresent' BY DEF Shape, Labels, Gate, Spared, LiveObjectsPresent
<1> QED BY <1>1, <1>2, <1>3, <1>4, <1>5

\* A deletion takes one of those objects.
LEMMA SweepDeleteStep ==
  ASSUME MaintInv, SweepDelete
  PROVE  MaintInv'
<1> USE DEF SweepDelete, schedVars, dataVars, Some, Passes, MaintInv
<1>1. Shape' BY DEF Shape, Labels, Ids
<1>2. Admission' BY DEF Shape, Labels, Admission
<1>3. Gate' BY DEF Shape, Labels, Gate
<1>4. Spared' BY DEF Shape, Labels, Gate, Spared
<1>5. LiveObjectsPresent' BY DEF Shape, Labels, Gate, Spared, LiveObjectsPresent
<1> QED BY <1>1, <1>2, <1>3, <1>4, <1>5

\* The gate is free again.
LEMMA EndSweepStep ==
  ASSUME MaintInv, EndSweep
  PROVE  MaintInv'
<1> USE DEF EndSweep, SweepOver, Fault, schedVars, dataVars, Some, Passes, MaintInv
<1>1. Shape' BY DEF Shape, Labels, Ids
<1>2. Admission' BY DEF Shape, Labels, Admission
<1>3. Gate' BY DEF Shape, Labels, Gate
<1>4. Spared' BY DEF Shape, Labels, Gate, Spared
<1>5. LiveObjectsPresent' BY DEF Shape, Labels, Gate, Spared, LiveObjectsPresent
<1> QED BY <1>1, <1>2, <1>3, <1>4, <1>5

\* Everything ages but the upload under way.
LEMMA MinAgePassesStep ==
  ASSUME MaintInv, MinAgePasses
  PROVE  MaintInv'
<1> USE DEF MinAgePasses, schedVars, dataVars, Some, Passes, MaintInv
<1>1. Shape' BY DEF Shape, Spared, Labels, Ids
<1>2. Admission' BY DEF Shape, Labels, Admission
<1>3. Gate' BY DEF Shape, Labels, Gate
<1>4. Spared' BY MaintAssumption DEF Shape, Labels, Gate, Spared, Ids
<1>5. LiveObjectsPresent' BY DEF Shape, Labels, Gate, Spared, LiveObjectsPresent
<1> QED BY <1>1, <1>2, <1>3, <1>4, <1>5

\* After a crash nothing is under way.
LEMMA CrashStep ==
  ASSUME MaintInv, Crash
  PROVE  MaintInv'
<1> USE DEF Crash, Fault, NoPass, schedVars, dataVars, Some, Passes, MaintInv
<1>1. Shape' BY DEF Shape, Labels, Ids
<1>2. Admission' BY DEF Shape, Labels, Admission
<1>3. Gate' BY DEF Shape, Labels, Gate
<1>4. Spared' BY MaintAssumption DEF Shape, Labels, Gate, Spared, Ids
<1>5. LiveObjectsPresent' BY DEF Shape, Labels, Gate, Spared, LiveObjectsPresent
<1> QED BY <1>1, <1>2, <1>3, <1>4, <1>5

\* MaintInv is inductive.
LEMMA MaintInductive ==
  ASSUME MaintInv, [Next]_vars
  PROVE  MaintInv'
<1>1. CASE Next
  BY <1>1, FlushUploadStep, FlushCommitStep, FlushDiesStep, RequestStep,
       StartDrainStep, WorkerNextStep, DrainNextStep, EnterGateStep,
       TakeBasisStep, PrepareStep, InstallStep, PassFailsStep, PassDiesStep,
       RecoverWriterStep, TickStep, QueueSweepStep, StartSweepStep,
       SweepDeleteStep, EndSweepStep, MinAgePassesStep, CrashStep DEF Next
<1>2. CASE UNCHANGED vars
  BY <1>2 DEF vars, dataVars, schedVars, MaintInv, Shape, Admission, Gate, Spared,
              LiveObjectsPresent
<1> QED BY <1>1, <1>2

\* What MaintInv rests on holds in every state of every behaviour.
LEMMA MaintInvariant == MaintSpec => []MaintInv
<1>1. ASSUME Init PROVE MaintInv
  <2> DEFINE R == [at: Labels, removed: SUBSET Ids, out: Ids \cup {None}]
  <2>1. NoPass \in R
    <3>1. "idle" \in Labels /\ {} \in SUBSET Ids /\ None \in Ids \cup {None}
      BY DEF Labels
    <3> QED BY <3>1 DEF NoPass
  <2>a. pass \in [Passes -> R]
    <3> HIDE DEF R
    <3> QED BY <1>1, <2>1 DEF Init
  <2>b. /\ worker_active \in BOOLEAN /\ pending \in BOOLEAN /\ due \in BOOLEAN
        /\ sweeping \in BOOLEAN /\ queued \in BOOLEAN
    BY <1>1 DEF Init, SchedInit
  <2>2. Shape
    BY <1>1, <2>a, <2>b DEF Init, Shape
  <2>3. \A p \in Passes : pass[p] = NoPass
    BY <1>1 DEF Init
  <2>4. Admission /\ Gate
    BY <1>1, <2>3 DEF Init, SchedInit, NoPass, Admission, Gate, Passes
  <2>5. Spared /\ LiveObjectsPresent
    BY <1>1, <2>3 DEF Init, SchedInit, NoPass, Spared, LiveObjectsPresent, Some
  <2> QED BY <2>2, <2>4, <2>5 DEF MaintInv
<1> QED BY <1>1, MaintInductive, PTL DEF MaintSpec

\* worker_active is set exactly while a worker exists, the gate is held by the
\* passes beyond it and never by a pass and a sweep together, whatever dies and
\* when. (maintenance.rs WorkerLease, maintenance_gate.)
THEOREM MaintTypeCorrect == MaintSpec => []MaintTypeOK
<1>1. MaintInv => MaintTypeOK
  BY DEF MaintInv, Shape, Admission, Gate, MaintTypeOK
<1> QED BY <1>1, MaintInvariant, PTL

\* No sweep deletes an SST that a manifest or a pass still needs, however many
\* flushes and passes have replaced the manifest it decided on.
\* (maintenance.rs maintenance_gate; janitor.rs sweep_orphans.)
THEOREM LiveObjectsCorrect == MaintSpec => []LiveObjectsPresent
<1>1. MaintInv => LiveObjectsPresent
  BY DEF MaintInv
<1> QED BY <1>1, MaintInvariant, PTL
=============================================================================
