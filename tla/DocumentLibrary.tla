---------------------------- MODULE DocumentLibrary ----------------------------
(***************************************************************************)
(* The operator's document library                                         *)
(* (src/src/sources/documentLibraryOperations.ts): import, inspection and  *)
(* ingestion of the artifact of one record of the source inventory.  An    *)
(* operation is one command of the CLI, and operators are serialised       *)
(* (docs/document-library-operations.md), so one runs at a time; it may    *)
(* fail or the process may end between any two steps, and someone else may *)
(* change the files meanwhile.                                             *)
(*                                                                         *)
(* A file is its bytes, and a hash is the bytes it is of; a size differs   *)
(* only where the hash does.  The scanner is a function of the bytes and   *)
(* of the time from which its definitions know them.                       *)
(***************************************************************************)
EXTENDS Naturals

CONSTANTS Bytes,      \* contents a file can have
          KnownAt,    \* the time from which the scanner knows each as infected
          NoBytes,
          MaxAge,     \* DOCUMENT_MALWARE_SCAN_MAX_AGE_SECONDS
          LastHour,   \* bound of the clock
          MaxTampers, MaxCrashes  \* bounds of what happens to files and process

ASSUME LibraryConstants ==
  /\ {NoBytes, "staged", "library"} \cap Bytes = {}
  /\ KnownAt \in [Bytes -> Nat] /\ {MaxAge, LastHour, MaxTampers, MaxCrashes} \subseteq Nat

VARIABLES files,      \* the staged name, the library's, and quarantine's, one for each hash
          record,     \* of the inventory file
          manifest,   \* bytes the corpus manifest has as indexed
          vectors,    \* bytes whose chunks the index holds, and when their ingestion began
          command,    \* the operation that runs
          hour, tampers, crashes,
          strayed     \* history: a process ended, or a name could not be given back
libraryVars == <<files, record, manifest, vectors, command, hour, tampers, crashes, strayed>>

(* boundedArtifactPath, its ".importing" name, and quarantineArtifactPath. *)
Path == {"staged", "library"} \cup Bytes
StoredBytes == Bytes \cup {NoBytes}

SourceRecord == [status : {"verified", "acquired", "failed", "ingested"}, path : Path, hash : StoredBytes,
                 verdict : {"none", "clean", "infected", "error", "rejected"}, scanned : 0..LastHour]
NoCommand == [name |-> "none", step |-> "idle", bytes |-> NoBytes, from |-> "staged",
              to |-> "staged", verdict |-> "none", began |-> 0]

LibraryTypeOK ==
  /\ files \in [Path -> StoredBytes]
  /\ record \in SourceRecord
  /\ manifest \in StoredBytes
  /\ vectors \in [bytes : StoredBytes, began : 0..LastHour]
  /\ command.name \in {"none", "import", "inspect", "undo", "ingest"}
  /\ hour \in 0..LastHour /\ tampers \in 0..MaxTampers /\ crashes \in 0..MaxCrashes

LibraryInit ==
  /\ files = [p \in Path |-> NoBytes]
  /\ record = [status |-> "verified", path |-> "library", hash |-> NoBytes, verdict |-> "none",
               scanned |-> 0]
  /\ manifest = NoBytes
  /\ vectors = [bytes |-> NoBytes, began |-> 0]
  /\ command = NoCommand
  /\ hour = 0 /\ tampers = 0 /\ crashes = 0 /\ strayed = FALSE

(* validateSourceInventory, over what the operations can change: it passes *)
(* before an inventory is used, and before one is written.                 *)
HasAcquisition(r) == r.hash # NoBytes
HasCleanArtifactSafety(r) == HasAcquisition(r) /\ r.verdict = "clean"
ValidSource(r) ==
  /\ r.status \in {"acquired", "ingested"} \/ r.verdict # "none" => HasAcquisition(r)
  /\ r.status = "ingested" => HasCleanArtifactSafety(r)
  /\ r.status = "failed" => r.verdict \notin {"none", "clean"}   \* it has failure codes

-------------------------------------------------------------------------------
(* Steps common to the operations.                                         *)
Elsewhere == UNCHANGED <<hour, tampers, crashes>>
InStep(name, step) == command.name \in name /\ command.step = step
GoTo(step) == command' = [command EXCEPT !.step = step]
EndCommand == command' = NoCommand
Given(p, bytes) == files' = [files EXCEPT ![p] = bytes]

(* The outcomes of a clean-up whose failure is swallowed.                  *)
GivenBack(p) ==
  \/ Given(p, NoBytes) /\ UNCHANGED strayed
  \/ files[p] # NoBytes /\ UNCHANGED files /\ strayed' = TRUE

(* The first half of moveArtifactNoReplace: link, which replaces nothing.  *)
Linked == command.step = "link" /\ files[command.from] # NoBytes /\ files[command.to] = NoBytes
MoveLinks ==
  /\ Linked
  /\ Given(command.to, files[command.from])
  /\ GoTo("unlink")
  /\ Elsewhere /\ UNCHANGED <<record, manifest, vectors, strayed>>

(* Its second half.                                                        *)
MoveUnlinks ==
  /\ command.step = "unlink"
  /\ Given(command.from, NoBytes)
  /\ IF command.name = "undo" THEN EndCommand ELSE GoTo("write")
  /\ Elsewhere /\ UNCHANGED <<record, manifest, vectors, strayed>>

(* The unlink fails: the new name is taken away again, if that succeeds.   *)
(* A failed import then takes its staged name away as well.                *)
UnlinkFails ==
  /\ command.step = "unlink"
  /\ \/ /\ files' = [files EXCEPT ![command.to] = NoBytes,
                                   ![command.from] = IF command.name = "import" THEN NoBytes ELSE @]
        /\ strayed' = (strayed \/ command.name = "undo")
     \/ strayed' = TRUE /\ \/ UNCHANGED files
                           \/ command.name = "import" /\ \E p \in {command.from, command.to} : Given(p, NoBytes)
  /\ EndCommand
  /\ Elsewhere /\ UNCHANGED <<record, manifest, vectors>>

(* The link fails (EEXIST, EXDEV).  A failed import removes its staged     *)
(* name; a move back that fails leaves the file where it is.               *)
LinkFails ==
  /\ command.step = "link"
  /\ IF command.name = "import" THEN GivenBack(command.from)
     ELSE UNCHANGED files /\ strayed' = (strayed \/ command.name = "undo")
  /\ EndCommand
  /\ Elsewhere /\ UNCHANGED <<record, manifest, vectors>>

-------------------------------------------------------------------------------
(* importLocalArtifact.  A dry run, a repeated import and a refused one    *)
(* change nothing.                                                         *)
ImportBegins(bytes) ==
  /\ command = NoCommand /\ ValidSource(record)
  /\ record.status # "ingested" /\ ~HasAcquisition(record)
  /\ command' = [NoCommand EXCEPT !.name = "import", !.step = "stage", !.bytes = bytes,
                                  !.from = "staged", !.to = "library"]
  /\ Elsewhere /\ UNCHANGED <<files, record, manifest, vectors, strayed>>

(* ensureDestinationAbsent, then the write of the staged file.             *)
ImportStages ==
  /\ InStep({"import"}, "stage") /\ files["staged"] = NoBytes
  /\ Given("staged", command.bytes)
  /\ GoTo("reread")
  /\ Elsewhere /\ UNCHANGED <<record, manifest, vectors, strayed>>

ImportRereads ==
  /\ InStep({"import"}, "reread") /\ files["staged"] = command.bytes
  /\ GoTo("link")
  /\ Elsewhere /\ UNCHANGED <<files, record, manifest, vectors, strayed>>

(* The staged name is in use or its bytes changed.  The name is known by   *)
(* then, and removed, also when an earlier import left it.                 *)
ImportFails ==
  /\ InStep({"import"}, "stage") \/ InStep({"import"}, "reread")
  /\ GivenBack("staged")
  /\ EndCommand
  /\ Elsewhere /\ UNCHANGED <<record, manifest, vectors>>

(* writeInventory replaces the inventory in one rename.                    *)
ImportWrites ==
  /\ InStep({"import"}, "write")
  /\ record' = [status |-> "acquired", path |-> "library", hash |-> command.bytes, verdict |-> "none",
                scanned |-> 0]
  /\ ValidSource(record')
  /\ EndCommand
  /\ Elsewhere /\ UNCHANGED <<files, manifest, vectors, strayed>>

(* The inventory could not be written: the new file is removed.            *)
ImportUnwritten ==
  /\ InStep({"import"}, "write")
  /\ GivenBack("library")
  /\ EndCommand
  /\ Elsewhere /\ UNCHANGED <<record, manifest, vectors>>

-------------------------------------------------------------------------------
(* inspectLibraryArtifact.                                                 *)
InspectBegins ==
  /\ command = NoCommand /\ ValidSource(record) /\ HasAcquisition(record)
  /\ record.status \in {"acquired", "failed"}
  /\ files[record.path] # NoBytes
  /\ command' = [NoCommand EXCEPT !.name = "inspect", !.step = "scan", !.bytes = files[record.path],
                                  !.from = record.path]
  /\ Elsewhere /\ UNCHANGED <<files, record, manifest, vectors, strayed>>

(* scanVerifiedArtifactSnapshot: a private copy of the bytes that were     *)
(* read.  Bytes that are not the acquired ones are not scanned.            *)
ScannedBytes == command.bytes
Verdicts ==
  IF command.bytes # record.hash THEN {"rejected"}
  ELSE {"error", IF KnownAt[ScannedBytes] <= hour THEN "infected" ELSE "clean"}
InspectScans ==
  /\ InStep({"inspect"}, "scan")
  /\ \E v \in Verdicts : command' = [command EXCEPT !.step = "verify", !.verdict = v]
  /\ Elsewhere /\ UNCHANGED <<files, record, manifest, vectors, strayed>>

(* The managed path is read again, and the artifact is to be moved: clean  *)
(* and in quarantine, to the library; not clean and in the library, to     *)
(* quarantine, under the bytes observed last.                              *)
Concluded(bytes, verdict) ==
  LET to == IF verdict = "clean" THEN "library"
            ELSE IF command.from = "library" THEN bytes ELSE command.from
  IN [command EXCEPT !.step = IF to = command.from THEN "write" ELSE "link", !.to = to,
                     !.bytes = bytes, !.verdict = verdict]
InspectVerifies ==
  /\ InStep({"inspect"}, "verify") /\ files[command.from] # NoBytes
  /\ command' = IF files[command.from] = command.bytes THEN Concluded(command.bytes, command.verdict)
                ELSE Concluded(files[command.from],
                               IF command.verdict = "clean" THEN "rejected" ELSE command.verdict)
  /\ Elsewhere /\ UNCHANGED <<files, record, manifest, vectors, strayed>>

(* A dry run ends here, and so does an inspection whose file has gone.     *)
InspectEnds ==
  /\ InStep({"inspect"}, "scan") \/ InStep({"inspect"}, "verify")
  /\ EndCommand
  /\ Elsewhere /\ UNCHANGED <<files, record, manifest, vectors, strayed>>

InspectWrites ==
  /\ InStep({"inspect"}, "write")
  /\ record' = [record EXCEPT !.status = IF command.verdict = "clean" THEN "acquired" ELSE "failed",
                              !.path = command.to, !.verdict = command.verdict, !.scanned = hour]
  /\ ValidSource(record')
  /\ EndCommand
  /\ Elsewhere /\ UNCHANGED <<files, manifest, vectors, strayed>>

(* The inventory could not be written: what was moved is moved back.       *)
InspectUnwritten ==
  /\ InStep({"inspect"}, "write")
  /\ IF command.to = command.from THEN EndCommand
     ELSE command' = [command EXCEPT !.name = "undo", !.step = "link", !.from = command.to,
                                     !.to = command.from]
  /\ Elsewhere /\ UNCHANGED <<files, record, manifest, vectors, strayed>>

-------------------------------------------------------------------------------
(* Scanned clean, and not too long ago.                                    *)
Cleared == HasCleanArtifactSafety(record) /\ hour - record.scanned <= MaxAge

(* ingestLibraryArtifact.  Bytes that are indexed already are left alone,  *)
(* and bytes of the manifest that differ are refused.                      *)
IngestBegins ==
  /\ command = NoCommand /\ ValidSource(record) /\ Cleared
  /\ files[record.path] = record.hash
  /\ ~(record.status = "ingested" /\ manifest = record.hash)
  /\ manifest \in {NoBytes, record.hash}
  /\ command' = [NoCommand EXCEPT !.name = "ingest", !.step = "index", !.bytes = files[record.path],
                                  !.began = hour]
  /\ Elsewhere /\ UNCHANGED <<files, record, manifest, vectors, strayed>>


(* A mutant: the path is read again.                                       *)
IndexedReread == files[record.path]
IndexedBytes == command.bytes

(* The buffer that was verified is extracted and indexed.                  *)
IngestIndexes ==
  /\ InStep({"ingest"}, "index")
  /\ vectors' = [bytes |-> IndexedBytes, began |-> command.began]
  /\ GoTo("put")
  /\ Elsewhere /\ UNCHANGED <<files, record, manifest, strayed>>

(* store.put() of the corpus manifest.                                     *)
IngestPuts ==
  /\ InStep({"ingest"}, "put")
  /\ manifest' = command.bytes
  /\ GoTo("write")
  /\ Elsewhere /\ UNCHANGED <<files, record, vectors, strayed>>

(* The updated inventory agrees with the manifest and is written.          *)
IngestWrites ==
  /\ InStep({"ingest"}, "write") /\ manifest = record.hash
  /\ record' = [record EXCEPT !.status = "ingested"] /\ ValidSource(record')
  /\ EndCommand
  /\ Elsewhere /\ UNCHANGED <<files, manifest, vectors, strayed>>

(* A failure at any of them ends the ingestion, and takes nothing back.    *)
IngestFails ==
  /\ command.name = "ingest"
  /\ EndCommand
  /\ Elsewhere /\ UNCHANGED <<files, record, manifest, vectors, strayed>>

-------------------------------------------------------------------------------
(* The process ends.                                                       *)
CommandCrashes ==
  /\ command # NoCommand /\ crashes < MaxCrashes
  /\ crashes' = crashes + 1 /\ strayed' = TRUE
  /\ EndCommand
  /\ UNCHANGED <<files, record, manifest, vectors, hour, tampers>>

(* Someone writes or removes a file, under the eyes of an operation or not.*)
Tamper(p, bytes) ==
  /\ tampers < MaxTampers /\ files[p] \notin {NoBytes, bytes}
  /\ tampers' = tampers + 1
  /\ Given(p, bytes)
  /\ UNCHANGED <<record, manifest, vectors, command, hour, crashes, strayed>>

(* An inspection, bounded by the scanner's timeout, is short beside MaxAge.*)
HourPasses ==
  /\ hour < LastHour /\ command.name \notin {"inspect", "undo"}
  /\ hour' = hour + 1
  /\ UNCHANGED <<files, record, manifest, vectors, command, tampers, crashes, strayed>>

LibraryNext ==
  \/ \E b \in Bytes : ImportBegins(b)
  \/ ImportStages \/ ImportRereads \/ ImportFails \/ ImportWrites \/ ImportUnwritten
  \/ InspectBegins \/ InspectScans \/ InspectVerifies \/ InspectEnds \/ InspectWrites \/ InspectUnwritten
  \/ IngestBegins \/ IngestIndexes \/ IngestPuts \/ IngestWrites \/ IngestFails
  \/ MoveLinks \/ MoveUnlinks \/ UnlinkFails \/ LinkFails
  \/ CommandCrashes \/ HourPasses
  \/ \E p \in Path, b \in StoredBytes : Tamper(p, b)
LibrarySpec == LibraryInit /\ [][LibraryNext]_libraryVars

-------------------------------------------------------------------------------
(* Bytes that were recorded as acquired stay under a managed name unless   *)
(* someone else takes them, whatever fails and wherever a process ends;    *)
(* while none ended and every move back succeeded, they are at the path    *)
(* the record gives.  What is indexed are the acquired bytes, scanned      *)
(* clean no longer than MaxAge before their ingestion began, also when     *)
(* the files change between scan, check and use.  A record is ingested     *)
(* only with its bytes in the manifest and in the index.                   *)
DocumentsHold ==
  /\ (tampers = 0 /\ record.hash # NoBytes) => \E p \in Path : files[p] = record.hash
  /\ (tampers = 0 /\ ~strayed /\ command = NoCommand /\ record.hash # NoBytes)
       => files[record.path] = record.hash
  /\ vectors.bytes # NoBytes => /\ vectors.bytes = record.hash
                                /\ KnownAt[vectors.bytes] + MaxAge > vectors.began
  /\ record.status = "ingested" => manifest = record.hash /\ vectors.bytes = record.hash
===============================================================================
