---------------------- MODULE ArtifactAcceptance_proofs ----------------------
(***************************************************************************)
(* Proofs about ArtifactAcceptance, for every set of objects, versions and *)
(* inspectors and every value of the bounds.                               *)
(***************************************************************************)
EXTENDS ArtifactAcceptance, TLAPS

\* An inspector without an inspection has the declared shape.
LEMMA IdleTyped == Idle \in InspectorState
  BY AcceptanceConstants DEF Idle, InspectorState, Time

\* Field by field, what the type invariant says of one inspector ...
LEMMA InspectorTyped ==
  ASSUME TypeOK, NEW i \in Inspector
  PROVE  /\ inspector[i].pc \in {"idle", "inspecting", "completing", "superseding",
                                 "locking", "finishing"}
         /\ inspector[i].object \in Object \cup {None}
         /\ inspector[i].generation \in 0 .. MaxGeneration
         /\ inspector[i].verdict \in Verdict \cup {"none"}
         /\ inspector[i].at \in Time
         /\ inspector[i].targets \in SUBSET Object
  BY DEF TypeOK, InspectorState

\* ... and of one object.
LEMMA ObjectTyped ==
  ASSUME TypeOK, NEW o \in Object
  PROVE  /\ object[o].status \in {"absent", "scanning", "accepted", "rejected", "superseded"}
         /\ object[o].generation \in 0 .. MaxGeneration
         /\ object[o].scan \in 0 .. MaxGeneration
         /\ object[o].until \in 0 .. MaxTime + MaxAge
  BY DEF TypeOK, ObjectRow

\* An inspection that has begun has an object and a generation, and one that
\* has looked at the bytes has a verdict.
Begun ==
  \A i \in Inspector : inspector[i].pc # "idle" =>
    /\ inspector[i].object \in Object
    /\ inspector[i].generation \in Generation
    /\ inspector[i].pc # "inspecting" => inspector[i].verdict \in Verdict

\* Every step keeps the shapes and what an inspection has once it has begun.
LEMMA TypingStep ==
  ASSUME TypeOK, Begun, [Next]_vars
  PROVE  TypeOK' /\ Begun'
<1> USE AcceptanceConstants
<1>1. ASSUME NEW i \in Inspector, NEW o \in Object, BeginInspection(i, o)
      PROVE  TypeOK' /\ Begun'
  <2>1. object[o].generation + 1 \in Generation
    BY <1>1, ObjectTyped DEF BeginInspection, Generation
  <2>2. object' \in [Object -> ObjectRow]
    <3>1. Unaccepted("scanning", object[o].generation + 1) \in ObjectRow
      BY <2>1 DEF Unaccepted, ObjectRow, Generation
    <3> QED
      BY <1>1, <3>1 DEF BeginInspection, TypeOK
  <2>3. inspector' \in [Inspector -> InspectorState]
    <3>1. Began(o, object[o].generation + 1) \in InspectorState
      BY <2>1 DEF Began, InspectorState, Generation, Time
    <3> QED
      BY <1>1, <3>1 DEF BeginInspection, TypeOK
  <2>4. Begun'
    BY <1>1, <2>1 DEF BeginInspection, Begun, TypeOK, Began
  <2> QED
    BY <1>1, <2>2, <2>3, <2>4 DEF BeginInspection, TypeOK
<1>2. ASSUME NEW i \in Inspector, NEW verdict \in Verdict, Inspect(i, verdict)
      PROVE  TypeOK' /\ Begun'
  <2>1. now \in Time
    BY DEF TypeOK
  <2>2. inspector' = [inspector EXCEPT ![i] = [inspector[i] EXCEPT
                        !.pc = "completing", !.verdict = verdict, !.at = now]]
    BY <1>2 DEF Inspect, TypeOK, InspectorState
  <2>3. [inspector[i] EXCEPT !.pc = "completing", !.verdict = verdict, !.at = now]
           \in InspectorState
    BY <2>1 DEF TypeOK, InspectorState
  <2>4. Begun'
    BY <1>2, <2>2 DEF Inspect, Begun, TypeOK, InspectorState
  <2> QED
    BY <1>2, <2>2, <2>3, <2>4 DEF Inspect, TypeOK
<1>3. ASSUME NEW i \in Inspector, LockObject(i) PROVE TypeOK' /\ Begun'
  BY <1>3 DEF LockObject, TypeOK, Begun, InspectorState
<1>4. ASSUME NEW i \in Inspector, RejectStale(i) PROVE TypeOK' /\ Begun'
  BY <1>4, IdleTyped DEF RejectStale, TypeOK, Begun, Idle
<1>5. ASSUME NEW i \in Inspector, SnapshotAccepted(i) PROVE TypeOK' /\ Begun'
  <2> DEFINE rivals == {o \in Object \ {inspector[i].object} :
                          VersionOf[o] = VersionOf[inspector[i].object] /\ Accepted(o)}
             moved == [inspector[i] EXCEPT !.pc = "locking", !.targets = rivals]
  <2>1. rivals \in SUBSET Object
    OBVIOUS
  <2>2. inspector' = [inspector EXCEPT ![i] = moved]
    BY <1>5 DEF SnapshotAccepted, TypeOK, InspectorState
  <2> HIDE DEF rivals
  <2>3. moved \in InspectorState
    BY <2>1 DEF TypeOK, InspectorState
  <2>4. Begun'
    BY <1>5, <2>2 DEF SnapshotAccepted, Begun, TypeOK, InspectorState
  <2> QED
    BY <1>5, <2>2, <2>3, <2>4, ZenonT(60) DEF SnapshotAccepted, TypeOK
<1>6. ASSUME NEW i \in Inspector, LockTargets(i) PROVE TypeOK' /\ Begun'
  <2>1. {o \in inspector[i].targets : Accepted(o)} \in SUBSET Object
    BY InspectorTyped
  <2> DEFINE locked == [inspector[i] EXCEPT !.pc = "finishing",
                          !.targets = {o \in inspector[i].targets : Accepted(o)}]
  <2>2. locked \in InspectorState
    BY <2>1 DEF TypeOK, InspectorState
  <2>3. inspector' = [inspector EXCEPT ![i] = locked]
    BY <1>6 DEF LockTargets, TypeOK, InspectorState
  <2>4. Begun'
    BY <1>6, <2>3, ZenonT(60) DEF LockTargets, Begun, TypeOK, InspectorState
  <2> QED
    BY <1>6, <2>2, <2>3, <2>4 DEF LockTargets, TypeOK
<1>7. ASSUME NEW i \in Inspector, CommitAccepted(i) PROVE TypeOK' /\ Begun'
  <2>1. inspector[i].object \in Object /\ inspector[i].generation \in Generation
    BY <1>7 DEF CommitAccepted, Begun
  <2>2. inspector[i].at \in Time /\ inspector[i].verdict \in Verdict
    BY <1>7, InspectorTyped DEF CommitAccepted, Verdict
  <2>3. inspector[i].at + MaxAge \in 0 .. MaxTime + MaxAge
    BY <2>2 DEF Time
  <2>4. ASSUME NEW o \in Object PROVE object'[o] \in ObjectRow
    <3>1. CASE o = inspector[i].object
      <4>1. AcceptedRow(i) \in ObjectRow
        BY <2>1, <2>3, ObjectTyped DEF AcceptedRow, ObjectRow, Generation
      <4> QED
        BY <1>7, <3>1, <4>1 DEF CommitAccepted
    <3>2. CASE o # inspector[i].object /\ o \in inspector[i].targets
      BY <1>7, <3>2, ObjectTyped DEF CommitAccepted, Unaccepted, ObjectRow
    <3>3. CASE o # inspector[i].object /\ o \notin inspector[i].targets
      BY <1>7, <3>3 DEF CommitAccepted, TypeOK
    <3> QED
      BY <3>1, <3>2, <3>3
  <2>5. object' \in [Object -> ObjectRow]
    BY <1>7, <2>4 DEF CommitAccepted
  <2>6. NewScan(i) \in Scan
    BY <2>1, <2>2 DEF NewScan, Scan
  <2> QED
    BY <1>7, <2>5, <2>6, IdleTyped DEF CommitAccepted, TypeOK, Begun, Idle
<1>8. ASSUME NEW i \in Inspector, CommitRejected(i) PROVE TypeOK' /\ Begun'
  <2>1. inspector[i].object \in Object /\ inspector[i].generation \in Generation
    BY <1>8 DEF CommitRejected, Begun
  <2>2. inspector[i].at \in Time /\ inspector[i].verdict \in Verdict
    BY <1>8, InspectorTyped DEF CommitRejected, Begun
  <2>3. object' \in [Object -> ObjectRow]
    BY <1>8, <2>1 DEF CommitRejected, TypeOK, ObjectRow
  <2>4. NewScan(i) \in Scan
    BY <2>1, <2>2 DEF NewScan, Scan
  <2> QED
    BY <1>8, <2>3, <2>4, IdleTyped DEF CommitRejected, TypeOK, Begun, Idle
<1>9. ASSUME NEW i \in Inspector, AbortCompletion(i) PROVE TypeOK' /\ Begun'
  BY <1>9, IdleTyped DEF AbortCompletion, TypeOK, Begun, Idle
<1>10. ASSUME NEW i \in Inspector, Crash(i) PROVE TypeOK' /\ Begun'
  BY <1>10, IdleTyped DEF Crash, TypeOK, Begun, Idle
<1>11. CASE Tick
  BY <1>11 DEF Tick, TypeOK, Time, Begun
<1>12. CASE UNCHANGED vars
  BY <1>12 DEF vars, TypeOK, Begun
<1> QED
  BY <1>1, <1>2, <1>3, <1>4, <1>5, <1>6, <1>7, <1>8, <1>9, <1>10, <1>11, <1>12
  DEF Next, Step

\* Every state of rag.artifact_objects, rag.artifact_scans and of the running
\* inspections has the declared shape.
THEOREM Typing == Spec => [](TypeOK /\ Begun)
<1> USE AcceptanceConstants
<1>1. Init => TypeOK /\ Begun
  BY IdleTyped DEF Init, TypeOK, Unaccepted, ObjectRow, Time, Begun, Idle
<1>2. TypeOK /\ Begun /\ [Next]_vars => TypeOK' /\ Begun'
  BY TypingStep
<1> QED
  BY <1>1, <1>2, PTL DEF Spec
-----------------------------------------------------------------------------
(***************************************************************************)
(* Row locks: what a completing transaction may rely on.                   *)
(***************************************************************************)

\* The objects to be superseded are rivals of the inspected one, and they are
\* known only from the statement's snapshot on.
TargetsAreRivals ==
  \A i \in Inspector :
    /\ inspector[i].pc \in {"idle", "inspecting", "completing", "superseding"} =>
         inspector[i].targets = {}
    /\ \A o \in inspector[i].targets :
         /\ o # inspector[i].object
         /\ VersionOf[o] = VersionOf[inspector[i].object]

LockInv == TypeOK /\ Begun /\ TargetsAreRivals /\ CompletionUndisturbed

\* Only its own completion takes an object out of the hands of inspector i.
LEMMA OthersDoNotHold ==
  ASSUME LockInv, NEW i \in Inspector, NEW k \in Inspector \ {i}, NEW o \in Object, Holds(i, o)
  PROVE  ~Holds(k, o)
<1>1. InCompletion(i)
  BY DEF Holds, InCompletion
<1> QED
  BY <1>1 DEF LockInv, CompletionUndisturbed, LockedByOther

\* A step of i that leaves the rows of other completions alone disturbs none of
\* them, provided i comes out of it with its own part of the invariant and no
\* row that another completion holds.
LEMMA StepOfOne ==
  ASSUME LockInv, TypeOK', Begun', NEW i \in Inspector,
         \A k \in Inspector \ {i}, o \in Object : Holds(k, o) => object'[o] = object[o],
         \A k \in Inspector \ {i} : inspector'[k] = inspector[k],
         (inspector[i].pc \in {"idle", "inspecting", "completing", "superseding"} =>
            inspector[i].targets = {})',
         (\A o \in inspector[i].targets :
            /\ o # inspector[i].object
            /\ VersionOf[o] = VersionOf[inspector[i].object])',
         InCompletion(i)' => StillScanning(i)',
         (inspector[i].pc = "finishing" => \A o \in inspector[i].targets : Accepted(o))',
         \A o \in Object : Holds(i, o)' => ~LockedByOther(i, o)
  PROVE  LockInv'
<1>1. TargetsAreRivals'
  BY DEF TargetsAreRivals, LockInv
<1>2. \A k \in Inspector \ {i}, o \in Object : Holds(k, o)' <=> Holds(k, o)
  BY DEF Holds, InCompletion
<1>3. CompletionUndisturbed'
  <2> SUFFICES ASSUME NEW k \in Inspector, InCompletion(k)'
               PROVE  /\ StillScanning(k)'
                      /\ (inspector[k].object \notin inspector[k].targets)'
                      /\ (inspector[k].pc = "finishing" =>
                            \A o \in inspector[k].targets : Accepted(o))'
                      /\ \A o \in Object : Holds(k, o)' => ~LockedByOther(k, o)'
    BY DEF CompletionUndisturbed
  <2>1. CASE k = i
    <3>1. \A o \in Object : Holds(i, o)' => ~LockedByOther(i, o)'
      BY <1>2 DEF LockedByOther
    <3> QED
      BY <2>1, <3>1
  <2>2. CASE k # i
    <3>1. InCompletion(k) /\ inspector'[k] = inspector[k]
      BY <2>2 DEF InCompletion
    <3>2. /\ StillScanning(k)'
          /\ (inspector[k].object \notin inspector[k].targets)'
          /\ (inspector[k].pc = "finishing" =>
                \A o \in inspector[k].targets : Accepted(o))'
      <4>1. Holds(k, inspector[k].object) /\ inspector[k].object \in Object
        BY <3>1 DEF Holds, InCompletion, LockInv, Begun
      <4>2. inspector[k].pc = "finishing" => \A o \in inspector[k].targets : Holds(k, o)
        BY DEF Holds
      <4>3. inspector[k].targets \in SUBSET Object
        BY InspectorTyped DEF LockInv
      <4>4. object'[inspector[k].object] = object[inspector[k].object]
        BY <2>2, <4>1
      <4>5. inspector[k].pc = "finishing" =>
              \A o \in inspector[k].targets : object'[o] = object[o]
        BY <2>2, <4>2, <4>3
      <4> QED
        BY <3>1, <4>4, <4>5 DEF LockInv, CompletionUndisturbed, StillScanning, Accepted
    <3>3. ASSUME NEW o \in Object, Holds(k, o)', NEW l \in Inspector \ {k}, Holds(l, o)'
          PROVE  FALSE
      <4>1. Holds(k, o)
        BY <1>2, <2>2, <3>3
      <4>2. CASE l = i
        BY <2>2, <3>3, <4>1, <4>2 DEF LockedByOther
      <4>3. CASE l # i
        BY <1>2, <2>2, <3>1, <3>3, <4>1, <4>3 DEF LockInv, CompletionUndisturbed, LockedByOther
      <4> QED
        BY <4>2, <4>3
    <3> QED
      BY <3>2, <3>3 DEF LockedByOther
  <2> QED
    BY <2>1, <2>2
<1> QED
  BY <1>1, <1>3 DEF LockInv

\* Every step keeps what completing transactions rely on.
LEMMA LockingStep ==
  ASSUME LockInv, [Next]_vars
  PROVE  LockInv'
<1> USE AcceptanceConstants
<1>0. TypeOK' /\ Begun'
  BY TypingStep DEF LockInv
<1>1. ASSUME NEW i \in Inspector, NEW o \in Object, BeginInspection(i, o)
      PROVE  LockInv'
  <2>1. inspector' = [inspector EXCEPT ![i] = Began(o, object[o].generation + 1)]
    BY <1>1 DEF BeginInspection
  <2>2. inspector'[i].pc = "inspecting" /\ inspector'[i].targets = {}
    BY <2>1 DEF LockInv, TypeOK, Began
  <2>3. \A k \in Inspector \ {i}, p \in Object : Holds(k, p) => object'[p] = object[p]
    BY <1>1 DEF BeginInspection, LockedByOther, LockInv, TypeOK
  <2>4. \A k \in Inspector \ {i} : inspector'[k] = inspector[k]
    BY <2>1 DEF LockInv, TypeOK
  <2>5. ~InCompletion(i)' /\ \A p \in Object : ~Holds(i, p)'
    BY <2>2 DEF InCompletion, Holds
  <2> QED
    BY <1>0, <2>2, <2>3, <2>4, <2>5, StepOfOne
<1>2. ASSUME NEW i \in Inspector, NEW verdict \in Verdict, Inspect(i, verdict)
      PROVE  LockInv'
  <2>1. inspector'[i].pc = "completing" /\ inspector'[i].targets = inspector[i].targets
    BY <1>2 DEF Inspect, LockInv, TypeOK, InspectorState
  <2>2. inspector[i].targets = {}
    BY <1>2 DEF Inspect, LockInv, TargetsAreRivals
  <2>3. \A k \in Inspector \ {i} : inspector'[k] = inspector[k]
    BY <1>2 DEF Inspect, LockInv, TypeOK
  <2>4. ~InCompletion(i)' /\ \A p \in Object : ~Holds(i, p)'
    BY <2>1 DEF InCompletion, Holds
  <2> QED
    BY <1>0, <1>2, <2>1, <2>2, <2>3, <2>4, StepOfOne DEF Inspect
<1>3. ASSUME NEW i \in Inspector, LockObject(i) PROVE LockInv'
  <2>1. /\ inspector'[i] = [inspector[i] EXCEPT !.pc =
                   IF inspector[i].verdict = "clean" THEN "superseding" ELSE "finishing"]
        /\ \A k \in Inspector \ {i} : inspector'[k] = inspector[k]
    BY <1>3 DEF LockObject, LockInv, TypeOK
  <2>2. /\ inspector'[i].pc \in {"superseding", "finishing"}
        /\ inspector'[i].object = inspector[i].object
        /\ inspector'[i].generation = inspector[i].generation
        /\ inspector'[i].targets = inspector[i].targets
    BY <2>1 DEF LockInv, TypeOK, InspectorState
  <2>3. inspector[i].targets = {}
    BY <1>3 DEF LockObject, LockInv, TargetsAreRivals
  <2>4. StillScanning(i)'
    BY <1>3, <2>2 DEF LockObject, StillScanning
  <2>5. \A o \in Object : Holds(i, o)' => ~LockedByOther(i, o)
    BY <1>3, <2>2, <2>3 DEF LockObject, Holds, InCompletion
  <2> QED
    BY <1>0, <1>3, <2>1, <2>2, <2>3, <2>4, <2>5, StepOfOne DEF LockObject
<1>4. ASSUME NEW i \in Inspector, SnapshotAccepted(i) PROVE LockInv'
  <2> DEFINE rivals == {o \in Object \ {inspector[i].object} :
                          VersionOf[o] = VersionOf[inspector[i].object] /\ Accepted(o)}
  <2>1. /\ inspector'[i] = [inspector[i] EXCEPT !.pc = "locking", !.targets = rivals]
        /\ \A k \in Inspector \ {i} : inspector'[k] = inspector[k]
    BY <1>4 DEF SnapshotAccepted, LockInv, TypeOK, InspectorState
  <2>2. /\ inspector'[i].pc = "locking"
        /\ inspector'[i].object = inspector[i].object
        /\ inspector'[i].generation = inspector[i].generation
        /\ inspector'[i].targets = rivals
    BY <2>1 DEF LockInv, TypeOK, InspectorState
  <2>3. InCompletion(i)
    BY <1>4 DEF SnapshotAccepted, InCompletion
  <2>4. StillScanning(i)'
    BY <1>4, <2>2, <2>3 DEF SnapshotAccepted, StillScanning, LockInv, CompletionUndisturbed
  <2>5. \A o \in Object : Holds(i, o)' => ~LockedByOther(i, o)
    BY <2>2, <2>3 DEF Holds, InCompletion, LockInv, CompletionUndisturbed
  <2> QED
    BY <1>0, <1>4, <2>1, <2>2, <2>4, <2>5, StepOfOne DEF SnapshotAccepted
<1>5. ASSUME NEW i \in Inspector, LockTargets(i) PROVE LockInv'
  <2> DEFINE locked == {o \in inspector[i].targets : Accepted(o)}
  <2>1. /\ inspector'[i] = [inspector[i] EXCEPT !.pc = "finishing", !.targets = locked]
        /\ \A k \in Inspector \ {i} : inspector'[k] = inspector[k]
    BY <1>5 DEF LockTargets, LockInv, TypeOK, InspectorState
  <2>2. /\ inspector'[i].pc = "finishing"
        /\ inspector'[i].object = inspector[i].object
        /\ inspector'[i].generation = inspector[i].generation
        /\ inspector'[i].targets = locked
    BY <2>1 DEF LockInv, TypeOK, InspectorState
  <2>3. InCompletion(i)
    BY <1>5 DEF LockTargets, InCompletion
  <2>4. StillScanning(i)'
    BY <1>5, <2>2, <2>3 DEF LockTargets, StillScanning, LockInv, CompletionUndisturbed
  <2>5. \A o \in Object : Holds(i, o)' => ~LockedByOther(i, o)
    BY <1>5, <2>2, <2>3 DEF LockTargets, Holds, InCompletion, LockInv, CompletionUndisturbed
  <2>6. (inspector[i].pc = "finishing" => \A o \in inspector[i].targets : Accepted(o))'
    BY <1>5, <2>2 DEF LockTargets, Accepted
  <2>7. \A o \in locked : o # inspector[i].object /\ VersionOf[o] = VersionOf[inspector[i].object]
    BY DEF LockInv, TargetsAreRivals
  <2> QED
    BY <1>0, <1>5, <2>1, <2>2, <2>4, <2>5, <2>6, <2>7, StepOfOne, ZenonT(60) DEF LockTargets
\* The steps after which i is idle again.
<1>6. ASSUME NEW i \in Inspector, inspector' = [inspector EXCEPT ![i] = Idle],
             \A k \in Inspector \ {i}, o \in Object : Holds(k, o) => object'[o] = object[o]
      PROVE  LockInv'
  <2>1. inspector'[i].pc = "idle" /\ inspector'[i].targets = {}
    BY <1>6 DEF LockInv, TypeOK, Idle
  <2>2. \A k \in Inspector \ {i} : inspector'[k] = inspector[k]
    BY <1>6 DEF LockInv, TypeOK
  <2>3. ~InCompletion(i)' /\ \A p \in Object : ~Holds(i, p)'
    BY <2>1 DEF InCompletion, Holds
  <2> QED
    BY <1>0, <1>6, <2>1, <2>2, <2>3, StepOfOne
<1>7. ASSUME NEW i \in Inspector, RejectStale(i) PROVE LockInv'
  BY <1>6, <1>7 DEF RejectStale
<1>8. ASSUME NEW i \in Inspector, CommitAccepted(i) PROVE LockInv'
  <2>1. Holds(i, inspector[i].object) /\ \A o \in inspector[i].targets : Holds(i, o)
    BY <1>8 DEF CommitAccepted, Holds, InCompletion
  <2>2. \A k \in Inspector \ {i}, o \in Object : Holds(k, o) => object'[o] = object[o]
    BY <1>8, <2>1, OthersDoNotHold DEF CommitAccepted
  <2> QED
    BY <1>6, <1>8, <2>2 DEF CommitAccepted
<1>9. ASSUME NEW i \in Inspector, CommitRejected(i) PROVE LockInv'
  <2>1. Holds(i, inspector[i].object)
    BY <1>9 DEF CommitRejected, Holds, InCompletion
  <2>2. \A k \in Inspector \ {i}, o \in Object : Holds(k, o) => object'[o] = object[o]
    BY <1>9, <2>1, OthersDoNotHold DEF CommitRejected, LockInv, TypeOK
  <2> QED
    BY <1>6, <1>9, <2>2 DEF CommitRejected
<1>10. ASSUME NEW i \in Inspector, AbortCompletion(i) PROVE LockInv'
  BY <1>6, <1>10 DEF AbortCompletion
<1>11. ASSUME NEW i \in Inspector, Crash(i) PROVE LockInv'
  BY <1>6, <1>11 DEF Crash
<1>12. CASE UNCHANGED <<object, inspector>>
  BY <1>0, <1>12 DEF LockInv, TargetsAreRivals, CompletionUndisturbed, StillScanning,
                     Accepted, LockedByOther, Holds, InCompletion
<1> QED
  BY <1>1, <1>2, <1>3, <1>4, <1>5, <1>7, <1>8, <1>9, <1>10, <1>11, <1>12
  DEF Next, Step, Tick, vars

\* No transaction interferes with a completion between its row locks and its
\* end (LOCK_OBJECT_FOR_COMPLETION_SQL, SUPERSEDE_OTHER_OBJECTS_SQL).
THEOREM Locking == Spec => []CompletionUndisturbed
<1>1. Init => LockInv
  <2>1. Init => TypeOK /\ Begun
    BY AcceptanceConstants, IdleTyped
       DEF Init, TypeOK, Unaccepted, ObjectRow, Time, Begun, Idle
  <2> QED
    BY <2>1 DEF Init, LockInv, TargetsAreRivals, CompletionUndisturbed, InCompletion, Idle
<1>2. LockInv /\ [Next]_vars => LockInv'
  BY LockingStep
<1>3. LockInv => CompletionUndisturbed
  BY DEF LockInv
<1> QED
  BY <1>1, <1>2, <1>3, PTL DEF Spec
-----------------------------------------------------------------------------
(***************************************************************************)
(* Evidence: what scans and acceptances say of each other.                 *)
(***************************************************************************)

\* A scan belongs to an inspection that has begun.
ScansNotAhead == \A s \in scans : s.generation <= object[s.object].generation

EvidenceInv ==
  /\ ScansNotAhead
  /\ DecidedIffScanned
  /\ OneScanPerGeneration
  /\ AcceptedOnCurrentCleanScan
  /\ OneAcceptedPerVersion

\* What a completion that commits finds: its object is still scanning in its
\* generation, which has no scan yet.
LEMMA CompletionFinds ==
  ASSUME LockInv, EvidenceInv, NEW i \in Inspector, inspector[i].pc = "finishing"
  PROVE  /\ inspector[i].object \in Object
         /\ object[inspector[i].object].status = "scanning"
         /\ object[inspector[i].object].generation = inspector[i].generation
         /\ CurrentScan(inspector[i].object) = {}
         /\ \A o \in inspector[i].targets :
              /\ o \in Object /\ o # inspector[i].object
              /\ VersionOf[o] = VersionOf[inspector[i].object]
              /\ Accepted(o)
<1>1. InCompletion(i)
  BY DEF InCompletion
<1>2. StillScanning(i) /\ inspector[i].object \in Object
  BY <1>1 DEF LockInv, CompletionUndisturbed, Begun
<1>3. CurrentScan(inspector[i].object) = {}
  BY <1>2 DEF StillScanning, EvidenceInv, DecidedIffScanned
<1>4. inspector[i].targets \in SUBSET Object
  BY InspectorTyped DEF LockInv
<1> QED
  BY <1>1, <1>2, <1>3, <1>4 DEF StillScanning, LockInv, CompletionUndisturbed, TargetsAreRivals

\* The scan that a completion adds is the only one of its object and generation.
LEMMA ScanAdded ==
  ASSUME LockInv, EvidenceInv, NEW i \in Inspector, inspector[i].pc = "finishing",
         scans' = scans \cup {NewScan(i)},
         \A o \in Object : object'[o].generation = object[o].generation
  PROVE  /\ ScansNotAhead'
         /\ OneScanPerGeneration'
         /\ \A o \in Object : o = inspector[i].object => NewScan(i) \in CurrentScan(o)'
         /\ \A o \in Object \ {inspector[i].object} : CurrentScan(o)' = CurrentScan(o)
<1> USE AcceptanceConstants
<1>1. /\ inspector[i].object \in Object
      /\ object[inspector[i].object].generation = inspector[i].generation
      /\ CurrentScan(inspector[i].object) = {}
  BY CompletionFinds
<1>2. \A s \in scans : s.object \in Object
  BY DEF LockInv, TypeOK, Scan
<1>3. /\ NewScan(i).object = inspector[i].object
      /\ NewScan(i).generation = inspector[i].generation
  BY DEF NewScan
<1>4. object[inspector[i].object].generation \in Nat
  BY <1>1, ObjectTyped DEF LockInv
<1>5. ScansNotAhead'
  <2> SUFFICES ASSUME NEW s \in scans'
               PROVE  s.generation <= object'[s.object].generation
    BY DEF ScansNotAhead
  <2>1. CASE s \in scans
    BY <1>2, <2>1 DEF EvidenceInv, ScansNotAhead
  <2>2. CASE s = NewScan(i)
    BY <1>1, <1>3, <1>4, <2>2
  <2> QED
    BY <2>1, <2>2
<1>6. \A s \in scans : ~(s.object = inspector[i].object /\ s.generation = inspector[i].generation)
  BY <1>1 DEF CurrentScan
<1>7. OneScanPerGeneration'
  BY <1>3, <1>6 DEF EvidenceInv, OneScanPerGeneration
<1>8. \A o \in Object \ {inspector[i].object} : CurrentScan(o)' = CurrentScan(o)
  BY <1>3 DEF CurrentScan
<1>9. ASSUME NEW o \in Object, o = inspector[i].object
      PROVE  NewScan(i) \in CurrentScan(o)'
  <2>1. NewScan(i) \in scans'
    OBVIOUS
  <2>2. NewScan(i).object = o /\ NewScan(i).generation = object'[o].generation
    BY <1>1, <1>3, <1>9
  <2> QED
    BY <2>1, <2>2 DEF CurrentScan
<1> QED
  BY <1>5, <1>7, <1>8, <1>9

\* What a row that is not accepted says of its status and generation.
LEMMA UnacceptedFields ==
  \A status, generation : /\ Unaccepted(status, generation).status = status
                          /\ Unaccepted(status, generation).generation = generation
BY DEF Unaccepted

\* Every step keeps acceptances, scans and decisions together.
LEMMA EvidenceStep ==
  ASSUME LockInv, EvidenceInv, [Next]_vars
  PROVE  EvidenceInv'
<1> USE AcceptanceConstants
<1>1. ASSUME NEW i \in Inspector, NEW o \in Object, BeginInspection(i, o)
      PROVE  EvidenceInv'
  <2>1. object' = [object EXCEPT ![o] = Unaccepted("scanning", object[o].generation + 1)]
    BY <1>1 DEF BeginInspection
  <2>2. scans' = scans /\ \A s \in scans : s.object \in Object /\ s.generation \in Nat
    BY <1>1 DEF BeginInspection, LockInv, TypeOK, Scan, Generation
  <2>3. object[o].generation \in Nat
    BY ObjectTyped DEF LockInv
  <2>4. /\ object'[o].status = "scanning"
        /\ object'[o].generation = object[o].generation + 1
        /\ \A p \in Object \ {o} : object'[p] = object[p]
    BY <2>1 DEF LockInv, TypeOK, Unaccepted
  <2>5. ScansNotAhead'
    <3> SUFFICES ASSUME NEW s \in scans
                 PROVE  s.generation <= object'[s.object].generation
      BY <2>2 DEF ScansNotAhead
    <3>1. s.generation <= object[s.object].generation
      BY DEF EvidenceInv, ScansNotAhead
    <3>2. CASE s.object = o
      BY <2>2, <2>3, <2>4, <3>1, <3>2
    <3>3. CASE s.object # o
      BY <2>2, <2>4, <3>1, <3>3
    <3> QED
      BY <3>2, <3>3
  <2>6. CurrentScan(o)' = {}
    <3> SUFFICES ASSUME NEW s \in scans, s.object = o, s.generation = object[o].generation + 1
                 PROVE  FALSE
      BY <2>2, <2>4 DEF CurrentScan
    <3> QED
      BY <2>2, <2>3 DEF EvidenceInv, ScansNotAhead
  <2>7. \A p \in Object \ {o} : CurrentScan(p)' = CurrentScan(p)
    BY <2>2, <2>4 DEF CurrentScan
  <2>8. DecidedIffScanned'
    <3> SUFFICES ASSUME NEW p \in Object
                 PROVE  object'[p].status \in {"absent", "scanning"} <=> CurrentScan(p)' = {}
      BY DEF DecidedIffScanned
    <3>1. CASE p = o
      BY <2>4, <2>6, <3>1
    <3>2. CASE p # o
      BY <2>4, <2>7, <3>2 DEF EvidenceInv, DecidedIffScanned
    <3> QED
      BY <3>1, <3>2
  <2>9. AcceptedOnCurrentCleanScan'
    BY <2>4, <2>7 DEF EvidenceInv, AcceptedOnCurrentCleanScan, Accepted
  <2>10. OneAcceptedPerVersion'
    BY <2>4 DEF EvidenceInv, OneAcceptedPerVersion, Accepted
  <2>11. OneScanPerGeneration'
    BY <2>2 DEF EvidenceInv, OneScanPerGeneration
  <2> QED
    BY <2>5, <2>8, <2>9, <2>10, <2>11 DEF EvidenceInv
<1>2. ASSUME NEW i \in Inspector, CommitAccepted(i)
      PROVE  EvidenceInv'
  <2> DEFINE own == inspector[i].object
             targets == inspector[i].targets
  <2>1. inspector[i].pc = "finishing" /\ inspector[i].verdict = "clean"
    BY <1>2 DEF CommitAccepted
  <2>2. /\ own \in Object
        /\ object[own].generation = inspector[i].generation
        /\ \A o \in targets : o \in Object /\ o # own /\ Accepted(o)
    BY <2>1, CompletionFinds
  <2>3. /\ object'[own] = AcceptedRow(i)
        /\ \A o \in targets : object'[o] = Unaccepted("superseded", object[o].generation)
        /\ \A o \in Object \ {own} : o \notin targets => object'[o] = object[o]
    BY <1>2, <2>2 DEF CommitAccepted
  <2>4. ASSUME NEW o \in Object
        PROVE  object'[o].generation = object[o].generation
    <3>1. CASE o = own
      BY <2>3, <3>1 DEF AcceptedRow
    <3>2. CASE o \in targets
      <4>1. object'[o] = Unaccepted("superseded", object[o].generation)
        BY <2>3, <3>2
      <4> QED
        BY <4>1, UnacceptedFields
    <3>3. CASE o # own /\ o \notin targets
      BY <2>3, <3>3
    <3> QED
      BY <3>1, <3>2, <3>3
  <2>5. scans' = scans \cup {NewScan(i)}
    BY <1>2 DEF CommitAccepted
  <2>6. /\ ScansNotAhead'
        /\ OneScanPerGeneration'
        /\ \A o \in Object : o = own => NewScan(i) \in CurrentScan(o)'
        /\ \A o \in Object \ {own} : CurrentScan(o)' = CurrentScan(o)
    BY <2>1, <2>4, <2>5, ScanAdded
  <2>7. /\ object'[own].status = "accepted"
        /\ object'[own].scan = inspector[i].generation
        /\ object'[own].until = inspector[i].at + MaxAge
    BY <2>3 DEF AcceptedRow
  <2>8. ASSUME NEW o \in targets
        PROVE  object'[o].status = "superseded"
    <3>1. object'[o] = Unaccepted("superseded", object[o].generation)
      BY <2>3
    <3> QED
      BY <3>1, UnacceptedFields
  <2>9. DecidedIffScanned'
    <3> SUFFICES ASSUME NEW o \in Object
                 PROVE  object'[o].status \in {"absent", "scanning"} <=> CurrentScan(o)' = {}
      BY DEF DecidedIffScanned
    <3>1. CASE o = own
      BY <2>6, <2>7, <3>1
    <3>2. CASE o # own /\ o \in targets
      BY <2>2, <2>6, <2>8, <3>2 DEF EvidenceInv, DecidedIffScanned, Accepted
    <3>3. CASE o # own /\ o \notin targets
      BY <2>3, <2>6, <3>3 DEF EvidenceInv, DecidedIffScanned
    <3> QED
      BY <3>1, <3>2, <3>3
  <2>10. \A o \in Object :
           Accepted(o)' => o = own \/ (o \notin targets /\ object'[o] = object[o])
    BY <2>3, <2>8 DEF Accepted
  <2>11. AcceptedOnCurrentCleanScan'
    <3> SUFFICES ASSUME NEW o \in Object, Accepted(o)'
                 PROVE  \E s \in CurrentScan(o)' :
                          /\ s.verdict = "clean"
                          /\ object'[o].scan = s.generation
                          /\ object'[o].until = s.at + MaxAge
      BY DEF AcceptedOnCurrentCleanScan
    <3>1. CASE o = own
      BY <2>1, <2>6, <2>7, <3>1 DEF NewScan
    <3>2. CASE o # own
      <4>1. object'[o] = object[o] /\ Accepted(o) /\ CurrentScan(o)' = CurrentScan(o)
        BY <2>6, <2>10, <3>2 DEF Accepted
      <4> QED
        BY <4>1 DEF EvidenceInv, AcceptedOnCurrentCleanScan
    <3> QED
      BY <3>1, <3>2
  <2>12. OneAcceptedPerVersion'
    <3>1. \A o \in Object \ {own} :
            Accepted(o)' => o \notin targets /\ Accepted(o) /\ VersionOf[o] # VersionOf[own]
      BY <1>2, <2>10 DEF CommitAccepted, NoOtherAccepted, Accepted
    <3> QED
      BY <3>1 DEF EvidenceInv, OneAcceptedPerVersion
  <2> QED
    BY <2>6, <2>9, <2>11, <2>12 DEF EvidenceInv
<1>3. ASSUME NEW i \in Inspector, CommitRejected(i)
      PROVE  EvidenceInv'
  <2> DEFINE own == inspector[i].object
  <2>1. inspector[i].pc = "finishing"
    BY <1>3 DEF CommitRejected
  <2>2. own \in Object
    BY <2>1, CompletionFinds
  <2>3. object' = [object EXCEPT ![own] = [object[own] EXCEPT !.status = "rejected"]]
    BY <1>3 DEF CommitRejected
  <2>4. /\ object'[own] = [object[own] EXCEPT !.status = "rejected"]
        /\ \A o \in Object \ {own} : object'[o] = object[o]
    BY <2>2, <2>3 DEF LockInv, TypeOK
  <2>5. object'[own].status = "rejected" /\ object'[own].generation = object[own].generation
    BY <2>2, <2>4 DEF LockInv, TypeOK, ObjectRow
  <2>6. scans' = scans \cup {NewScan(i)}
    BY <1>3 DEF CommitRejected
  <2>7. /\ ScansNotAhead'
        /\ OneScanPerGeneration'
        /\ \A o \in Object : o = own => NewScan(i) \in CurrentScan(o)'
        /\ \A o \in Object \ {own} : CurrentScan(o)' = CurrentScan(o)
    BY <2>1, <2>4, <2>5, <2>6, ScanAdded
  <2>8. DecidedIffScanned'
    <3> SUFFICES ASSUME NEW o \in Object
                 PROVE  object'[o].status \in {"absent", "scanning"} <=> CurrentScan(o)' = {}
      BY DEF DecidedIffScanned
    <3>1. CASE o = own
      BY <2>5, <2>7, <3>1
    <3>2. CASE o # own
      BY <2>4, <2>7, <3>2 DEF EvidenceInv, DecidedIffScanned
    <3> QED
      BY <3>1, <3>2
  <2>9. ASSUME NEW o \in Object, Accepted(o)'
        PROVE  o # own /\ object'[o] = object[o] /\ Accepted(o)
    BY <2>4, <2>5, <2>9 DEF Accepted
  <2>10. AcceptedOnCurrentCleanScan'
    <3> SUFFICES ASSUME NEW o \in Object, Accepted(o)'
                 PROVE  \E s \in CurrentScan(o)' :
                          /\ s.verdict = "clean"
                          /\ object'[o].scan = s.generation
                          /\ object'[o].until = s.at + MaxAge
      BY DEF AcceptedOnCurrentCleanScan
    <3>1. object'[o] = object[o] /\ Accepted(o) /\ CurrentScan(o)' = CurrentScan(o)
      BY <2>7, <2>9
    <3> QED
      BY <3>1 DEF EvidenceInv, AcceptedOnCurrentCleanScan
  <2>11. OneAcceptedPerVersion'
    BY <2>9 DEF EvidenceInv, OneAcceptedPerVersion
  <2> QED
    BY <2>7, <2>8, <2>10, <2>11 DEF EvidenceInv
<1>4. CASE UNCHANGED <<object, scans>>
  BY <1>4 DEF EvidenceInv, ScansNotAhead, DecidedIffScanned, OneScanPerGeneration,
              AcceptedOnCurrentCleanScan, OneAcceptedPerVersion, CurrentScan, Accepted
<1> QED
  BY <1>1, <1>2, <1>3, <1>4
  DEF Next, Step, Inspect, LockObject, RejectStale, SnapshotAccepted, LockTargets,
      AbortCompletion, Crash, Tick, vars

\* Locks and evidence hold in every reachable state.
LEMMA SafetyInvariant == Spec => [](LockInv /\ EvidenceInv)
<1>1. Init => LockInv /\ EvidenceInv
  <2>1. Init => TypeOK /\ Begun
    BY AcceptanceConstants, IdleTyped
       DEF Init, TypeOK, Unaccepted, ObjectRow, Time, Begun, Idle
  <2>2. Init => LockInv
    BY <2>1 DEF Init, LockInv, TargetsAreRivals, CompletionUndisturbed, InCompletion, Idle
  <2>3. Init => EvidenceInv
    BY DEF Init, Unaccepted, EvidenceInv, ScansNotAhead, DecidedIffScanned, Accepted,
           OneScanPerGeneration, AcceptedOnCurrentCleanScan, OneAcceptedPerVersion, CurrentScan
  <2> QED
    BY <2>2, <2>3
<1>2. LockInv /\ EvidenceInv /\ [Next]_vars => LockInv' /\ EvidenceInv'
  BY LockingStep, EvidenceStep
<1> QED
  BY <1>1, <1>2, PTL DEF Spec

\* No two objects of a document version are ever accepted together
\* (completeInspection, artifact_objects_active_document_version_idx).
THEOREM OneAcceptance == Spec => []OneAcceptedPerVersion
<1>1. LockInv /\ EvidenceInv => OneAcceptedPerVersion
  BY DEF EvidenceInv
<1> QED
  BY <1>1, SafetyInvariant, PTL

\* An acceptance rests on a clean scan of the object's current generation,
\* which is the only one, and which exists only once that inspection has been
\* decided (completeInspection, the trigger of migration 011).
THEOREM Evidence ==
  Spec => [](AcceptedOnCurrentCleanScan /\ DecidedIffScanned /\ OneScanPerGeneration)
<1>1. LockInv /\ EvidenceInv =>
        AcceptedOnCurrentCleanScan /\ DecidedIffScanned /\ OneScanPerGeneration
  BY DEF EvidenceInv
<1> QED
  BY <1>1, SafetyInvariant, PTL
-----------------------------------------------------------------------------
(***************************************************************************)
(* What a step may not do to a decided object.                             *)
(***************************************************************************)

\* The three actions that write rag.artifact_objects.
LEMMA Writers ==
  ASSUME [Next]_vars
  PROVE  \/ \E i \in Inspector, o \in Object : BeginInspection(i, o)
         \/ \E i \in Inspector : CommitAccepted(i) \/ CommitRejected(i)
         \/ object' = object
  BY DEF Next, Step, Inspect, LockObject, RejectStale, SnapshotAccepted, LockTargets,
         AbortCompletion, Crash, Tick, vars

\* A verdict is never overwritten by a later one of the same generation
\* (beginInspection raises the generation, completeInspection compares it).
THEOREM FinalDecision == Spec => DecisionIsFinal
<1>1. ASSUME LockInv, EvidenceInv, [Next]_vars, NEW o \in Object,
             object'[o].generation = object[o].generation
      PROVE  \/ object[o].status = "scanning"
             \/ object'[o].status = object[o].status
             \/ object[o].status = "accepted" /\ object'[o].status = "superseded"
  <2>1. ASSUME NEW i \in Inspector, NEW p \in Object, BeginInspection(i, p)
        PROVE  object'[o] = object[o]
    <3>1. object[p].generation \in Nat
      BY <1>1, ObjectTyped, AcceptanceConstants DEF LockInv
    <3>2. object'[p].generation = object[p].generation + 1
      BY <1>1, <2>1 DEF BeginInspection, LockInv, TypeOK, Unaccepted
    <3>3. o # p
      BY <1>1, <3>1, <3>2
    <3> QED
      BY <1>1, <2>1, <3>3 DEF BeginInspection, LockInv, TypeOK
  <2>2. ASSUME NEW i \in Inspector, CommitAccepted(i)
        PROVE  \/ object[o].status = "scanning"
               \/ object'[o] = object[o]
               \/ object[o].status = "accepted" /\ object'[o].status = "superseded"
    <3>1. inspector[i].pc = "finishing"
      BY <2>2 DEF CommitAccepted
    <3>2. CASE o = inspector[i].object
      BY <1>1, <3>1, <3>2, CompletionFinds
    <3>3. CASE o \in inspector[i].targets
      <4>1. Accepted(o) /\ o # inspector[i].object
        BY <1>1, <3>1, <3>3, CompletionFinds
      <4> QED
        BY <2>2, <3>3, <4>1 DEF CommitAccepted, Unaccepted, Accepted
    <3>4. CASE o # inspector[i].object /\ o \notin inspector[i].targets
      BY <2>2, <3>4 DEF CommitAccepted
    <3> QED
      BY <3>2, <3>3, <3>4
  <2>3. ASSUME NEW i \in Inspector, CommitRejected(i)
        PROVE  object[o].status = "scanning" \/ object'[o] = object[o]
    <3>1. inspector[i].pc = "finishing"
      BY <2>3 DEF CommitRejected
    <3>2. CASE o = inspector[i].object
      BY <1>1, <3>1, <3>2, CompletionFinds
    <3>3. CASE o # inspector[i].object
      BY <1>1, <2>3, <3>3 DEF CommitRejected, LockInv, TypeOK
    <3> QED
      BY <3>2, <3>3
  <2> QED
    BY <1>1, <2>1, <2>2, <2>3, Writers
<1>2. LockInv /\ EvidenceInv /\ [Next]_vars =>
        [\A o \in Object :
           object[o].generation > 0 /\ object'[o].generation = object[o].generation =>
             \/ object[o].status = "scanning"
             \/ object'[o].status = object[o].status
             \/ object[o].status = "accepted" /\ object'[o].status = "superseded"]_vars
  BY <1>1
<1> QED
  BY <1>2, SafetyInvariant, PTL DEF Spec, DecisionIsFinal

\* Supersession never leaves a version without the acceptance that replaces
\* it (SUPERSEDE_OTHER_OBJECTS_SQL in the transaction of the acceptance).
THEOREM Succession == Spec => SupersededOnlyByAccepted
<1>1. ASSUME LockInv, EvidenceInv, [Next]_vars, NEW o \in Object,
             Accepted(o), object'[o].status = "superseded"
      PROVE  \E p \in Object : /\ VersionOf[p] = VersionOf[o]
                               /\ ~Accepted(p)
                               /\ Accepted(p)'
  <2>1. PICK i \in Inspector : CommitAccepted(i)
    <3>1. ASSUME NEW i \in Inspector, NEW p \in Object, BeginInspection(i, p)
          PROVE  FALSE
      BY <1>1, <3>1 DEF BeginInspection, LockInv, TypeOK, Unaccepted, Accepted
    <3>2. ASSUME NEW i \in Inspector, CommitRejected(i)
          PROVE  FALSE
      BY <1>1, <3>2 DEF CommitRejected, LockInv, TypeOK, ObjectRow, Accepted
    <3> QED
      BY <1>1, <3>1, <3>2, Writers DEF Accepted
  <2> DEFINE own == inspector[i].object
  <2>2. /\ own \in Object
        /\ object[own].status = "scanning"
        /\ \A p \in inspector[i].targets : VersionOf[p] = VersionOf[own]
    BY <1>1, <2>1, CompletionFinds DEF CommitAccepted
  <2>3. object'[own].status = "accepted"
    <3>1. object'[own] = AcceptedRow(i)
      BY <2>1, <2>2 DEF CommitAccepted
    <3> QED
      BY <3>1 DEF AcceptedRow
  <2>4. o \in inspector[i].targets
    BY <1>1, <2>1 DEF CommitAccepted, AcceptedRow, Accepted
  <2>5. ~Accepted(own) /\ \A p : p = own => Accepted(p)'
    BY <2>2, <2>3 DEF Accepted
  <2> QED
    BY <2>2, <2>4, <2>5
<1>2. LockInv /\ EvidenceInv /\ [Next]_vars =>
        [\A o \in Object :
           Accepted(o) /\ object'[o].status = "superseded" =>
             \E p \in Object : /\ VersionOf[p] = VersionOf[o]
                               /\ ~Accepted(p)
                               /\ Accepted(p)']_vars
  BY <1>1
<1> QED
  BY <1>2, SafetyInvariant, PTL DEF Spec, SupersededOnlyByAccepted
-----------------------------------------------------------------------------
(***************************************************************************)
(* The implementation of AcceptedArtifact.                                 *)
(***************************************************************************)

\* The refinement mapping, as in the instance Contract.
CurrentOf == [v \in Version |-> AcceptanceOf(v)]
LapsedOf == {v \in Version : \E o \in Object : VersionOf[o] = v /\ Accepted(o) /\ ~Current(o)}
SpentOf == {<<s.object, s.generation>> : s \in {t \in scans : t.verdict = "clean"}}

\* The abstract acceptance of a version is that of its accepted object.
AcceptancesAre ==
  \A v \in Version :
    /\ \A o \in Object :
         VersionOf[o] = v /\ Accepted(o) => AcceptanceOf(v) = <<o, object[o].scan>>
    /\ (\A o \in Object : VersionOf[o] = v => ~Accepted(o)) => AcceptanceOf(v) = <<None, 0>>

\* That is so because a version has one at most.
LEMMA AcceptanceIs == OneAcceptedPerVersion => AcceptancesAre
<1> SUFFICES ASSUME OneAcceptedPerVersion, NEW v \in Version
             PROVE  /\ \A o \in Object :
                         VersionOf[o] = v /\ Accepted(o) =>
                           AcceptanceOf(v) = <<o, object[o].scan>>
                    /\ (\A o \in Object : VersionOf[o] = v => ~Accepted(o)) =>
                         AcceptanceOf(v) = <<None, 0>>
  BY DEF AcceptancesAre
<1> DEFINE chosen == CHOOSE o \in Object : VersionOf[o] = v /\ Accepted(o)
<1>1. AcceptanceOf(v) = IF \E o \in Object : VersionOf[o] = v /\ Accepted(o)
                        THEN <<chosen, object[chosen].scan>>
                        ELSE <<None, 0>>
  BY DEF AcceptanceOf
<1>2. ASSUME NEW o \in Object, VersionOf[o] = v, Accepted(o)
      PROVE  chosen = o
  <2>1. chosen \in Object /\ VersionOf[chosen] = v /\ Accepted(chosen)
    BY <1>2
  <2> QED
    BY <1>2, <2>1 DEF OneAcceptedPerVersion
<1> HIDE DEF chosen
<1> QED
  BY <1>1, <1>2

\* A step that keeps the accepted objects of a version keeps its acceptance.
LEMMA AcceptanceStays ==
  ASSUME OneAcceptedPerVersion, OneAcceptedPerVersion', NEW v \in Version,
         \A o \in Object : VersionOf[o] = v =>
           /\ Accepted(o)' <=> Accepted(o)
           /\ Accepted(o) => object'[o].scan = object[o].scan
  PROVE  AcceptanceOf(v)' = AcceptanceOf(v)
<1>0. OneAcceptedPerVersion' => AcceptancesAre'
  BY AcceptanceIs, PTL
<1>1. AcceptancesAre /\ AcceptancesAre'
  BY <1>0, AcceptanceIs
<1>2. CASE \E o \in Object : VersionOf[o] = v /\ Accepted(o)
  <2>1. PICK o \in Object : VersionOf[o] = v /\ Accepted(o)
    BY <1>2
  <2>2. AcceptanceOf(v) = <<o, object[o].scan>>
    BY <1>1, <2>1 DEF AcceptancesAre
  <2>3. AcceptanceOf(v)' = <<o, object'[o].scan>>
    BY <1>1, <2>1 DEF AcceptancesAre
  <2> QED
    BY <2>1, <2>2, <2>3
<1>3. CASE \A o \in Object : VersionOf[o] = v => ~Accepted(o)
  <2>1. AcceptanceOf(v) = <<None, 0>>
    BY <1>1, <1>3 DEF AcceptancesAre
  <2>2. AcceptanceOf(v)' = <<None, 0>>
    BY <1>1, <1>3 DEF AcceptancesAre
  <2> QED
    BY <2>1, <2>2
<1> QED
  BY <1>2, <1>3

\* The mapped variables in one step: nothing, a withdrawal, an acceptance by a
\* scan that was not used before, or the end of some windows.
AcceptanceMoves ==
  \/ UNCHANGED <<CurrentOf, LapsedOf, SpentOf>>
  \/ \E v \in Version :
       /\ CurrentOf[v] # <<None, 0>>
       /\ CurrentOf' = [CurrentOf EXCEPT ![v] = <<None, 0>>]
       /\ LapsedOf' = LapsedOf \ {v}
       /\ UNCHANGED SpentOf
  \/ \E v \in Version, s \in (Object \X Generation) \ SpentOf :
       /\ CurrentOf' = [CurrentOf EXCEPT ![v] = s]
       /\ LapsedOf' = LapsedOf \ {v}
       /\ SpentOf' = SpentOf \cup {s}
  \/ \E vs \in (SUBSET Version) \ {{}} :
       /\ \A v \in vs : CurrentOf[v] # <<None, 0>> /\ v \notin LapsedOf
       /\ LapsedOf' = LapsedOf \cup vs
       /\ UNCHANGED <<CurrentOf, SpentOf>>

\* A new inspection withdraws the acceptance its object had (beginInspection).
LEMMA BeginMaps ==
  ASSUME LockInv, EvidenceInv, EvidenceInv',
         NEW i \in Inspector, NEW o \in Object, BeginInspection(i, o)
  PROVE  AcceptanceMoves
<1>1. /\ object'[o].status = "scanning"
      /\ \A p \in Object \ {o} : object'[p] = object[p]
      /\ scans' = scans /\ now' = now
  BY <1>1 DEF BeginInspection, LockInv, TypeOK, Unaccepted
<1>2. OneAcceptedPerVersion /\ OneAcceptedPerVersion'
  BY DEF EvidenceInv
<1>3. SpentOf' = SpentOf
  BY <1>1 DEF SpentOf
<1>4. ~Accepted(o)' /\ \A p \in Object \ {o} : (Accepted(p)' <=> Accepted(p)) /\ (Current(p)' <=> Current(p))
  BY <1>1 DEF Accepted, Current
<1> DEFINE v == VersionOf[o]
<1>5. v \in Version
  BY AcceptanceConstants
<1>6. \A w \in Version \ {v} : AcceptanceOf(w)' = AcceptanceOf(w)
  BY <1>1, <1>2, <1>4, AcceptanceStays
<1>7. CASE ~Accepted(o)
  <2>1. AcceptanceOf(v)' = AcceptanceOf(v)
    BY <1>1, <1>2, <1>4, <1>5, <1>7, AcceptanceStays
  <2>2. CurrentOf' = CurrentOf
    BY <1>6, <2>1 DEF CurrentOf
  <2>3. LapsedOf' = LapsedOf
    BY <1>4, <1>7 DEF LapsedOf
  <2> QED
    BY <1>3, <2>2, <2>3 DEF AcceptanceMoves
<1>8. CASE Accepted(o)
  <2>1. AcceptanceOf(v) = <<o, object[o].scan>>
    BY <1>2, <1>5, <1>8, AcceptanceIs DEF AcceptancesAre
  <2>2. \A p \in Object : VersionOf[p] = v => ~Accepted(p)'
    BY <1>2, <1>4, <1>8 DEF OneAcceptedPerVersion
  <2>3. AcceptanceOf(v)' = <<None, 0>>
    <3>1. OneAcceptedPerVersion' => AcceptancesAre'
      BY AcceptanceIs, PTL
    <3> QED
      BY <1>2, <1>5, <2>2, <3>1 DEF AcceptancesAre
  <2>4. CurrentOf[v] # <<None, 0>>
    BY <1>5, <2>1, AcceptanceConstants DEF CurrentOf
  <2>5. CurrentOf' = [CurrentOf EXCEPT ![v] = <<None, 0>>]
    BY <1>6, <2>3 DEF CurrentOf
  <2>6. LapsedOf' = LapsedOf \ {v}
    <3>1. \A p \in Object : VersionOf[p] # v => (Accepted(p)' <=> Accepted(p)) /\ (Current(p)' <=> Current(p))
      BY <1>4
    <3> QED
      BY <2>2, <3>1 DEF LapsedOf
  <2> QED
    BY <1>3, <1>5, <2>4, <2>5, <2>6 DEF AcceptanceMoves
<1> QED
  BY <1>7, <1>8

\* A clean verdict replaces the acceptance of the version, by a scan that
\* justified none before (completeInspection).
LEMMA AcceptMaps ==
  ASSUME LockInv, EvidenceInv, EvidenceInv', NEW i \in Inspector, CommitAccepted(i)
  PROVE  AcceptanceMoves
<1>1. inspector[i].pc = "finishing" /\ inspector[i].verdict = "clean"
  BY DEF CommitAccepted
<1>0. PICK own \in Object : own = inspector[i].object
  BY <1>1, CompletionFinds
<1>2. /\ object[own].status = "scanning"
      /\ object[own].generation = inspector[i].generation
      /\ \A o \in inspector[i].targets :
           o \in Object /\ o # own /\ VersionOf[o] = VersionOf[own]
  BY <1>0, <1>1, CompletionFinds
<1> DEFINE v == VersionOf[own]
           s == <<own, inspector[i].generation>>
<1>3. inspector[i].generation \in Generation
  BY <1>1 DEF LockInv, Begun
<1>4. v \in Version /\ s \in Object \X Generation
  BY <1>3, AcceptanceConstants
<1>5. OneAcceptedPerVersion /\ OneAcceptedPerVersion'
  BY DEF EvidenceInv
<1>6. s \notin SpentOf
  <2>1. CurrentScan(own) = {}
    BY <1>2 DEF EvidenceInv, DecidedIffScanned
  <2> QED
    BY <1>2, <2>1 DEF SpentOf, CurrentScan
<1>7. SpentOf' = SpentOf \cup {s}
  <2>1. scans' = scans \cup {NewScan(i)}
    BY DEF CommitAccepted
  <2>2. /\ NewScan(i).verdict = "clean"
        /\ <<NewScan(i).object, NewScan(i).generation>> = s
    BY <1>0, <1>1 DEF NewScan
  <2> HIDE DEF s
  <2> QED
    BY <2>1, <2>2 DEF SpentOf
<1>8. /\ object'[own].status = "accepted"
      /\ object'[own].scan = inspector[i].generation
      /\ object'[own].until = inspector[i].at + MaxAge
  BY <1>0, <1>2 DEF CommitAccepted, AcceptedRow
<1>9. now' = now /\ inspector[i].at + MaxAge > now
  BY DEF CommitAccepted, WindowOpen
<1>10. Accepted(own)' /\ Current(own)'
  BY <1>8, <1>9 DEF Accepted, Current
<1>11. \A o \in Object : VersionOf[o] # v => object'[o] = object[o]
  BY <1>0, <1>2 DEF CommitAccepted
<1>12. \A w \in Version \ {v} : AcceptanceOf(w)' = AcceptanceOf(w)
  <2>1. \A o \in Object : VersionOf[o] # v => (Accepted(o)' <=> Accepted(o)) /\ object'[o].scan = object[o].scan
    BY <1>11 DEF Accepted
  <2> HIDE DEF v
  <2> QED
    BY <1>5, <2>1, AcceptanceStays
<1>13. AcceptanceOf(v)' = s
  <2>1. OneAcceptedPerVersion' => AcceptancesAre'
    BY AcceptanceIs, PTL
  <2>2. AcceptanceOf(v)' = <<own, object'[own].scan>>
    BY <1>4, <1>5, <1>10, <2>1 DEF AcceptancesAre
  <2> QED
    BY <1>8, <2>2
<1>14. CurrentOf' = [CurrentOf EXCEPT ![v] = s]
  <2> HIDE DEF v, s
  <2>1. \A w \in Version : AcceptanceOf(w)' = IF w = v THEN s ELSE AcceptanceOf(w)
    BY <1>12, <1>13
  <2> QED
    BY <2>1 DEF CurrentOf
<1>15. LapsedOf' = LapsedOf \ {v}
  <2>1. \A o \in Object : VersionOf[o] # v => (Accepted(o)' <=> Accepted(o)) /\ (Current(o)' <=> Current(o))
    BY <1>9, <1>11 DEF Accepted, Current
  <2>2. \A o \in Object : VersionOf[o] = v /\ Accepted(o)' => Current(o)'
    BY <1>2, <1>5, <1>10 DEF OneAcceptedPerVersion
  <2> HIDE DEF v
  <2> QED
    BY <2>1, <2>2 DEF LapsedOf
<1> HIDE DEF v, s
<1> QED
  BY <1>4, <1>6, <1>7, <1>14, <1>15 DEF AcceptanceMoves

\* Any other verdict leaves the acceptances as they are.
LEMMA RejectMaps ==
  ASSUME LockInv, EvidenceInv, EvidenceInv', NEW i \in Inspector, CommitRejected(i)
  PROVE  AcceptanceMoves
<1> DEFINE own == inspector[i].object
<1>1. own \in Object /\ object[own].status = "scanning"
  BY CompletionFinds DEF CommitRejected
<1>2. /\ object'[own].status = "rejected"
      /\ \A o \in Object \ {own} : object'[o] = object[o]
      /\ now' = now
  BY <1>1 DEF CommitRejected, LockInv, TypeOK, ObjectRow
<1>3. \A o \in Object : /\ Accepted(o)' <=> Accepted(o)
                        /\ Accepted(o) => object'[o] = object[o]
  BY <1>1, <1>2 DEF Accepted
<1>4. OneAcceptedPerVersion /\ OneAcceptedPerVersion'
  BY DEF EvidenceInv
<1>5. CurrentOf' = CurrentOf
  BY <1>3, <1>4, AcceptanceStays DEF CurrentOf
<1>6. LapsedOf' = LapsedOf
  BY <1>2, <1>3 DEF LapsedOf, Current
<1>7. SpentOf' = SpentOf
  <2>1. scans' = scans \cup {NewScan(i)} /\ NewScan(i).verdict # "clean"
    BY DEF CommitRejected, NewScan
  <2> QED
    BY <2>1 DEF SpentOf
<1> QED
  BY <1>5, <1>6, <1>7 DEF AcceptanceMoves

\* The clock ends the windows it passes.
LEMMA TickMaps ==
  ASSUME LockInv, EvidenceInv, EvidenceInv', Tick
  PROVE  AcceptanceMoves
<1> DEFINE vs == LapsedOf' \ LapsedOf
<1>1. object' = object /\ scans' = scans /\ now' = now + 1
  BY DEF Tick
<1>2. OneAcceptedPerVersion /\ OneAcceptedPerVersion'
  BY DEF EvidenceInv
<1>3. CurrentOf' = CurrentOf /\ SpentOf' = SpentOf
  BY <1>1 DEF CurrentOf, SpentOf, AcceptanceOf, Accepted
<1>4. LapsedOf \subseteq LapsedOf'
  <2>1. \A o \in Object : (Accepted(o)' <=> Accepted(o)) /\ (~Current(o) => ~Current(o)')
    <3>1. \A o \in Object : object[o].until \in Nat
      BY ObjectTyped, AcceptanceConstants DEF LockInv
    <3>2. now \in Nat
      BY AcceptanceConstants DEF LockInv, TypeOK, Time
    <3> QED
      BY <1>1, <3>1, <3>2 DEF Current, Accepted
  <2> QED
    BY <2>1 DEF LapsedOf
<1>5. LapsedOf' = LapsedOf \cup vs
  BY <1>4
<1>6. vs \in SUBSET Version
  BY DEF LapsedOf
<1>7. \A v \in vs : CurrentOf[v] # <<None, 0>> /\ v \notin LapsedOf
  <2> SUFFICES ASSUME NEW v \in LapsedOf', v \notin LapsedOf
               PROVE  CurrentOf[v] # <<None, 0>>
    OBVIOUS
  <2>1. PICK o \in Object : VersionOf[o] = v /\ Accepted(o)
    BY <1>1 DEF LapsedOf, Accepted
  <2>2. v \in Version
    BY DEF LapsedOf
  <2>3. AcceptanceOf(v) = <<o, object[o].scan>>
    BY <1>2, <2>1, <2>2, AcceptanceIs DEF AcceptancesAre
  <2> QED
    BY <2>2, <2>3, AcceptanceConstants DEF CurrentOf
<1> HIDE DEF vs
<1> QED
  BY <1>3, <1>5, <1>6, <1>7 DEF AcceptanceMoves

\* The rows of the objects, the scans and the clock implement AcceptedArtifact:
\* what the job queue relies on (completeInspection, beginInspection).
THEOREM Contracts == Spec => ImplementsContract
<1>1. Init => Contract!AcceptanceInit
  BY DEF Init, Unaccepted, AcceptanceOf, Accepted, Contract!AcceptanceInit
<1>2. ASSUME LockInv, EvidenceInv, EvidenceInv', [Next]_vars
      PROVE  AcceptanceMoves
  <2>1. CASE UNCHANGED <<object, scans, now>>
    BY <2>1 DEF AcceptanceMoves, CurrentOf, LapsedOf, SpentOf, AcceptanceOf, Accepted, Current
  <2> QED
    BY <1>2, <2>1, BeginMaps, AcceptMaps, RejectMaps, TickMaps
    DEF Next, Step, Inspect, LockObject, RejectStale, SnapshotAccepted, LockTargets,
        AbortCompletion, Crash, vars
<1>3. AcceptanceMoves => [Contract!AcceptanceNext]_(Contract!acceptanceVars)
  BY DEF AcceptanceMoves, CurrentOf, LapsedOf, SpentOf, Contract!AcceptanceNext, Contract!Accept,
         Contract!Withdraw, Contract!Lapse, Contract!Valid, Contract!acceptanceVars
<1>4. LockInv /\ EvidenceInv /\ (LockInv /\ EvidenceInv)' /\ [Next]_vars =>
        [Contract!AcceptanceNext]_(Contract!acceptanceVars)
  BY <1>2, <1>3
<1> QED
  BY <1>1, <1>4, SafetyInvariant, PTL DEF Spec, ImplementsContract, Contract!AcceptanceSpec
=============================================================================
