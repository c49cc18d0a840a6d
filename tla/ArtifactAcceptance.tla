------------------------- MODULE ArtifactAcceptance -------------------------
(***************************************************************************)
(* Persisted acceptance of immutable artifact objects                      *)
(* (src/src/ingestion/artifactAcceptance.ts, migrations 007 and 011).      *)
(*                                                                         *)
(* An inspector registers an object (or restarts its inspection), reads    *)
(* and scans the bytes outside any transaction, and commits the verdict in *)
(* a second transaction.  That transaction runs at READ COMMITTED and is   *)
(* cut at the points where another one can come in between: the row lock   *)
(* on the object, the snapshot of the statement that supersedes the other  *)
(* accepted objects, the row locks that statement waits for, and the       *)
(* commit, where the trigger and the unique index decide.                  *)
(***************************************************************************)
EXTENDS Naturals, FiniteSets

CONSTANTS Object,         \* immutable object coordinates
          Version,        \* document versions of the tenant
          VersionOf,      \* the version each object was registered for
          Inspector,      \* concurrent calls of ArtifactAcceptanceService.inspect
          None,           \* "no object"
          MaxGeneration,  \* bound on inspection_generation (2147483647 in the code)
          MaxAge,         \* malwareScanMaxAgeMs: the length of an acceptance window
          MaxTime         \* bound on the clock

ASSUME AcceptanceConstants ==
  /\ VersionOf \in [Object -> Version]
  /\ None \notin Object
  /\ MaxGeneration \in Nat \ {0}
  /\ MaxAge \in Nat \ {0}
  /\ MaxTime \in Nat

VARIABLES object,     \* rag.artifact_objects
          scans,      \* rag.artifact_scans
          inspector,  \* the local state of each inspection
          now         \* statement_timestamp()

vars == <<object, scans, inspector, now>>

\* "infected", "rejected" and "error" have the same effect: "refused".
Verdict == {"clean", "refused"}
Generation == 1 .. MaxGeneration
Time == 0 .. MaxTime

ObjectRow == [status: {"absent", "scanning", "accepted", "rejected", "superseded"},
              generation: 0 .. MaxGeneration,
              scan: 0 .. MaxGeneration,      \* generation of the accepted scan, 0 is NULL
              until: 0 .. MaxTime + MaxAge]  \* accepted_until, 0 is NULL

Scan == [object: Object, generation: Generation, verdict: Verdict, at: Time]

InspectorState ==
  [pc: {"idle", "inspecting", "completing", "superseding", "locking", "finishing"},
   object: Object \cup {None},
   generation: 0 .. MaxGeneration,
   verdict: Verdict \cup {"none"},
   at: Time,
   targets: SUBSET Object]

Idle == [pc |-> "idle", object |-> None, generation |-> 0, verdict |-> "none",
         at |-> 0, targets |-> {}]

Began(o, generation) ==
  [pc |-> "inspecting", object |-> o, generation |-> generation, verdict |-> "none",
   at |-> 0, targets |-> {}]

\* A row that is not, or no longer, accepted.
Unaccepted(status, generation) ==
  [status |-> status, generation |-> generation, scan |-> 0, until |-> 0]

TypeOK ==
  /\ object \in [Object -> ObjectRow]
  /\ scans \in SUBSET Scan
  /\ inspector \in [Inspector -> InspectorState]
  /\ now \in Time

Init ==
  /\ object = [o \in Object |-> Unaccepted("absent", 0)]
  /\ scans = {}
  /\ inspector = [i \in Inspector |-> Idle]
  /\ now = 0
-----------------------------------------------------------------------------
(***************************************************************************)
(* Row locks.  A completing transaction holds its object's row from        *)
(* LOCK_OBJECT_FOR_COMPLETION_SQL to its end, and the rows it superseded   *)
(* from the end of that statement.                                         *)
(***************************************************************************)
InCompletion(i) == inspector[i].pc \in {"superseding", "locking", "finishing"}

Holds(i, o) ==
  \/ InCompletion(i) /\ inspector[i].object = o
  \/ inspector[i].pc = "finishing" /\ o \in inspector[i].targets

LockedByOther(i, o) == \E k \in Inspector \ {i} : Holds(k, o)

Accepted(o) == object[o].status = "accepted"

\* getAcceptedBinding, LEASE_NEXT_SQL and lock_valid_artifact_acceptance_v1
\* would return the object.
Current(o) == Accepted(o) /\ object[o].until > now
-----------------------------------------------------------------------------
\* Deviation: RESTART_INSPECTION_SQL does not look at the highest generation.
BeginUnbounded(i, o) ==
  /\ inspector[i].pc = "idle"
  /\ ~LockedByOther(i, o)
  /\ object[o].generation <= MaxGeneration
  /\ object' = [object EXCEPT ![o] = Unaccepted("scanning", object[o].generation + 1)]
  /\ inspector' = [inspector EXCEPT ![i] = Began(o, object[o].generation + 1)]
  /\ UNCHANGED <<scans, now>>

\* beginInspection: insert the object, or restart the inspection of a known
\* one; an acceptance it had is cleared with the same update.
BeginInspection(i, o) ==
  /\ inspector[i].pc = "idle"
  /\ ~LockedByOther(i, o)
  /\ object[o].generation < MaxGeneration
  /\ object' = [object EXCEPT ![o] = Unaccepted("scanning", object[o].generation + 1)]
  /\ inspector' = [inspector EXCEPT ![i] = Began(o, object[o].generation + 1)]
  /\ UNCHANGED <<scans, now>>

\* ArtifactAcceptanceService.inspect: read the bytes, check structure and
\* digest, scan; whatever goes wrong becomes a verdict that is not clean.
Inspect(i, verdict) ==
  /\ inspector[i].pc = "inspecting"
  /\ inspector' = [inspector EXCEPT ![i].pc = "completing",
                                    ![i].verdict = verdict, ![i].at = now]
  /\ UNCHANGED <<object, scans, now>>

\* Deviation: the generation is not compared.
ScanningAnyGeneration(i) == object[inspector[i].object].status = "scanning"

\* The object row as completeInspection finds it once it holds the lock.
StillScanning(i) ==
  LET row == object[inspector[i].object]
  IN  row.status = "scanning" /\ row.generation = inspector[i].generation

\* completeInspection, first half: lock the object and insert the scan (not
\* visible to others before the commit).
LockObject(i) ==
  /\ inspector[i].pc = "completing"
  /\ ~LockedByOther(i, inspector[i].object)
  /\ StillScanning(i)
  /\ inspector' = [inspector EXCEPT ![i].pc =
                     IF inspector[i].verdict = "clean" THEN "superseding" ELSE "finishing"]
  /\ UNCHANGED <<object, scans, now>>

\* artifact_inspection_stale: a later inspection of the object has begun.
RejectStale(i) ==
  /\ inspector[i].pc = "completing"
  /\ ~LockedByOther(i, inspector[i].object)
  /\ ~StillScanning(i)
  /\ inspector' = [inspector EXCEPT ![i] = Idle]
  /\ UNCHANGED <<object, scans, now>>

\* Deviation: the statement has no status = 'accepted' and waits for every
\* other object of the version.
SnapshotEveryObject(i) ==
  /\ inspector[i].pc = "superseding"
  /\ inspector' = [inspector EXCEPT ![i].pc = "locking",
                     ![i].targets = {o \in Object \ {inspector[i].object} :
                                       VersionOf[o] = VersionOf[inspector[i].object]}]
  /\ UNCHANGED <<object, scans, now>>

\* SUPERSEDE_OTHER_OBJECTS_SQL takes its snapshot: the other accepted objects
\* of the version as committed now.
SnapshotAccepted(i) ==
  /\ inspector[i].pc = "superseding"
  /\ inspector' = [inspector EXCEPT ![i].pc = "locking",
                     ![i].targets = {o \in Object \ {inspector[i].object} :
                                       /\ VersionOf[o] = VersionOf[inspector[i].object]
                                       /\ Accepted(o)}]
  /\ UNCHANGED <<object, scans, now>>

\* Deviation: a row is superseded although it changed while it was waited for.
LockTargetsUnchecked(i) ==
  /\ inspector[i].pc = "locking"
  /\ \A o \in inspector[i].targets : ~LockedByOther(i, o)
  /\ inspector' = [inspector EXCEPT ![i].pc = "finishing"]
  /\ UNCHANGED <<object, scans, now>>

\* Deviation: the supersession commits by itself, ahead of the acceptance.
SupersedeAtOnce(i) ==
  /\ inspector[i].pc = "locking"
  /\ \A o \in inspector[i].targets : ~LockedByOther(i, o)
  /\ object' = [o \in Object |->
                  IF o \in inspector[i].targets /\ Accepted(o)
                  THEN Unaccepted("superseded", object[o].generation)
                  ELSE object[o]]
  /\ inspector' = [inspector EXCEPT ![i].pc = "finishing", ![i].targets = {}]
  /\ UNCHANGED <<scans, now>>

\* ... and waits for the row locks of that snapshot.  A row that is no longer
\* accepted when the lock is granted is skipped; one accepted after the
\* snapshot is not seen.
LockTargets(i) ==
  /\ inspector[i].pc = "locking"
  /\ \A o \in inspector[i].targets : ~LockedByOther(i, o)
  /\ inspector' = [inspector EXCEPT ![i].pc = "finishing",
                     ![i].targets = {o \in inspector[i].targets : Accepted(o)}]
  /\ UNCHANGED <<object, scans, now>>

\* Deviation: the trigger does not compare accepted_until with the clock.
WindowUnchecked(i) == TRUE

\* The trigger validate_artifact_acceptance_v1 lets the acceptance through.
WindowOpen(i) == inspector[i].at + MaxAge > now

\* Deviation: there is no unique index.
NoUniqueIndex(i) == TRUE

\* The partial unique index artifact_objects_active_document_version_idx.
NoOtherAccepted(i) ==
  \A o \in Object \ (inspector[i].targets \cup {inspector[i].object}) :
     VersionOf[o] = VersionOf[inspector[i].object] => ~Accepted(o)

NewScan(i) == [object |-> inspector[i].object, generation |-> inspector[i].generation,
               verdict |-> inspector[i].verdict, at |-> inspector[i].at]

AcceptedRow(i) ==
  [status |-> "accepted", generation |-> object[inspector[i].object].generation,
   scan |-> inspector[i].generation, until |-> inspector[i].at + MaxAge]

\* completeInspection of a clean verdict: COMPLETE_OBJECT_SQL and the commit.
CommitAccepted(i) ==
  /\ inspector[i].pc = "finishing"
  /\ inspector[i].verdict = "clean"
  /\ WindowOpen(i)
  /\ NoOtherAccepted(i)
  /\ object' = [o \in Object |->
       IF o = inspector[i].object THEN AcceptedRow(i)
       ELSE IF o \in inspector[i].targets THEN Unaccepted("superseded", object[o].generation)
       ELSE object[o]]
  /\ scans' = scans \cup {NewScan(i)}
  /\ inspector' = [inspector EXCEPT ![i] = Idle]
  /\ UNCHANGED now

\* completeInspection of any other verdict.
CommitRejected(i) ==
  /\ inspector[i].pc = "finishing"
  /\ inspector[i].verdict # "clean"
  /\ object' = [object EXCEPT ![inspector[i].object].status = "rejected"]
  /\ scans' = scans \cup {NewScan(i)}
  /\ inspector' = [inspector EXCEPT ![i] = Idle]
  /\ UNCHANGED now

AbortCompletion(i) ==
  /\ inspector[i].pc = "finishing"
  /\ inspector[i].verdict = "clean"
  /\ ~(WindowOpen(i) /\ NoOtherAccepted(i))
  /\ inspector' = [inspector EXCEPT ![i] = Idle]
  /\ UNCHANGED <<object, scans, now>>

\* The inspecting process dies; an open transaction rolls back.
Crash(i) ==
  /\ inspector[i].pc # "idle"
  /\ inspector' = [inspector EXCEPT ![i] = Idle]
  /\ UNCHANGED <<object, scans, now>>

Tick ==
  /\ now < MaxTime
  /\ now' = now + 1
  /\ UNCHANGED <<object, scans, inspector>>

\* The steps an inspection takes by itself once it has begun.
Step(i) ==
  \/ \E verdict \in Verdict : Inspect(i, verdict)
  \/ LockObject(i)
  \/ RejectStale(i)
  \/ SnapshotAccepted(i)
  \/ LockTargets(i)
  \/ CommitAccepted(i)
  \/ CommitRejected(i)
  \/ AbortCompletion(i)

Next ==
  \/ \E i \in Inspector, o \in Object : BeginInspection(i, o)
  \/ \E i \in Inspector : Step(i)
  \/ \E i \in Inspector : Crash(i)
  \/ Tick

Spec == Init /\ [][Next]_vars

FairSpec == Spec /\ \A i \in Inspector : WF_vars(Step(i))
-----------------------------------------------------------------------------
(***************************************************************************)
(* Properties                                                              *)
(***************************************************************************)

\* A document version never has two accepted objects, however the
\* transactions that accept its objects interleave
\* (artifact_objects_active_document_version_idx, completeInspection).
OneAcceptedPerVersion ==
  \A o, p \in Object :
    Accepted(o) /\ Accepted(p) /\ VersionOf[o] = VersionOf[p] => o = p

\* Between its row lock and its end a completion is alone with the rows it will
\* change: its object stays scanning in its generation, the objects it
\* supersedes stay accepted, and no other completion holds any of them
\* (LOCK_OBJECT_FOR_COMPLETION_SQL, SUPERSEDE_OTHER_OBJECTS_SQL).
CompletionUndisturbed ==
  \A i \in Inspector : InCompletion(i) =>
    /\ StillScanning(i)
    /\ inspector[i].object \notin inspector[i].targets
    /\ inspector[i].pc = "finishing" => \A o \in inspector[i].targets : Accepted(o)
    /\ \A o \in Object : Holds(i, o) => ~LockedByOther(i, o)

\* The scan an object has of its current inspection generation.
CurrentScan(o) == {s \in scans : s.object = o /\ s.generation = object[o].generation}

\* An accepted object rests on a clean scan of its current generation, and
\* its window is the one that scan allows: a verdict of an earlier inspection
\* that arrives late never decides (completeInspection, migration 011).
AcceptedOnCurrentCleanScan ==
  \A o \in Object : Accepted(o) =>
    \E s \in CurrentScan(o) :
       /\ s.verdict = "clean"
       /\ object[o].scan = s.generation
       /\ object[o].until = s.at + MaxAge

\* Evidence and decision commit together: an object has a scan of its current
\* generation exactly when that inspection has been decided, whatever aborted
\* or crashed on the way (INSERT_SCAN_SQL and COMPLETE_OBJECT_SQL).
DecidedIffScanned ==
  \A o \in Object :
    object[o].status \in {"absent", "scanning"} <=> CurrentScan(o) = {}

\* At most one scan per object and generation, although two inspectors may
\* come to complete the same object.
OneScanPerGeneration ==
  \A s, t \in scans : s.object = t.object /\ s.generation = t.generation => s = t

\* An object that is superseded hands over, in the same step, to another
\* object of its version that becomes accepted: supersession alone never
\* leaves a version without an acceptance (SUPERSEDE_OTHER_OBJECTS_SQL).
SupersededOnlyByAccepted ==
  [][\A o \in Object :
       Accepted(o) /\ object'[o].status = "superseded" =>
         \E p \in Object : /\ VersionOf[p] = VersionOf[o]
                           /\ ~Accepted(p)
                           /\ Accepted(p)']_vars

\* Nothing but a new inspection takes an object out of a decided state, so a
\* verdict is never overwritten by a later verdict of the same generation.
DecisionIsFinal ==
  [][\A o \in Object :
       object[o].generation > 0 /\ object'[o].generation = object[o].generation =>
         \/ object[o].status = "scanning"
         \/ object'[o].status = object[o].status
         \/ object[o].status = "accepted" /\ object'[o].status = "superseded"]_vars

\* An inspection that does not crash comes to its end: no two completing
\* transactions wait for each other's row locks for ever.
InspectionEnds ==
  \A i \in Inspector : inspector[i].pc # "idle" ~> inspector[i].pc = "idle"

\* The abstract acceptance of a version.
AcceptanceOf(v) ==
  IF \E o \in Object : VersionOf[o] = v /\ Accepted(o)
  THEN LET o == CHOOSE o \in Object : VersionOf[o] = v /\ Accepted(o)
       IN  <<o, object[o].scan>>
  ELSE <<None, 0>>

Contract == INSTANCE AcceptedArtifact WITH
  ScanId <- Object \X Generation,
  NoScan <- <<None, 0>>,
  current <- [v \in Version |-> AcceptanceOf(v)],
  lapsed <- {v \in Version : \E o \in Object : VersionOf[o] = v /\ Accepted(o) /\ ~Current(o)},
  spent <- {<<s.object, s.generation>> : s \in {t \in scans : t.verdict = "clean"}}

\* The rest of the system may rely on AcceptedArtifact.
ImplementsContract == Contract!AcceptanceSpec
=============================================================================
