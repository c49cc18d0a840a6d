------------------------------- MODULE CorpusRuns -------------------------------
(***************************************************************************)
(* The controlled ingestion of a corpus                                    *)
(* (src/src/cli/controlledCorpusIngestion.ts) and the backfill of its      *)
(* manifest (cli/backfillCorpus.ts, ingestion/corpusManifest.ts).          *)
(*                                                                         *)
(* A run scans the PDFs of its configuration one after the other, has each *)
(* accepted, enqueues a job for it and lets a worker run once: on the      *)
(* first job of the tenant that can be leased, which may be another one.   *)
(* When all are ingested or blocked for want of text it writes four files: *)
(* the operational manifest, record by record, the evidence manifest, the  *)
(* receipt and the inventory.  A run may end anywhere, an acceptance may   *)
(* expire, another client may queue a job for a version of the             *)
(* configuration, and a backfill may rewrite a record of the manifest.     *)
(***************************************************************************)
EXTENDS Integers, Sequences, FiniteSets

CONSTANTS CorpusRun,
          Pdf,          \* 1 .. n: the sources of the configuration, in order
          OtherVersion, \* the source whose version another client's job is for
          Textless,     \* the sources whose PDF is without text
          MaxScan       \* bound on the inspections of one source

ASSUME CorpusConstants ==
  /\ IsFiniteSet(Pdf) /\ Pdf = 1..Cardinality(Pdf) /\ OtherVersion \in Pdf
  /\ MaxScan \in Nat

OtherJob == 0
CorpusJob == {OtherJob} \cup Pdf   \* the run's job for a source bears its number
NoneYet == -1
OfVersion(j) == IF j = OtherJob THEN OtherVersion ELSE j

VARIABLES acceptance,  \* of each source: its last inspection, and whether it is accepted now
          corpusJobs,  \* status and the scan it was leased under
          queued,      \* the queued jobs, in the order they are leased in
          vectorsOf,   \* the job whose vectors each version has
          extracted,   \* the versions whose extraction_status is "processed"
          operational, \* the operational manifest
          corpusFiles, \* the evidence manifest, the receipt and the inventory
          corpusRuns,
          backfill,
          together,    \* history: two commands were under way at once
          backfilled,  \* history: sources whose record a backfill has written
          lastReplaced \* history: the one of the three files that was replaced last
corpusVars == <<acceptance, corpusJobs, queued, vectorsOf, extracted, operational, corpusFiles,
                corpusRuns, backfill, together, backfilled, lastReplaced>>
corpusData == <<acceptance, corpusJobs, queued, vectorsOf, extracted>>
corpusHistory == <<together, backfilled, lastReplaced>>

NoEntry == [status |-> "none", job |-> NoneYet, scan |-> 0]
CorpusEntry == [status : {"none", "ingested", "blocked"}, job : CorpusJob \cup {NoneYet}, scan : 0..MaxScan]
Entries == [Pdf -> CorpusEntry]
NoEntries == [s \in Pdf |-> NoEntry]
FileNames == {"evidence", "receipt", "inventory"}

ManifestRecord == [status : {"none", "indexed", "skipped", "failed"}, from : {"none", "run", "configured"}]
ManifestOf(status, from) == [status |-> status, from |-> from]
NoManifestRecord == ManifestOf("none", "none")

IdleCorpusRun ==
  [phase |-> "before", at |-> 1, scan |-> 0, job |-> NoneYet, entries |-> NoEntries,
   snapshot |-> [s \in Pdf |-> NoManifestRecord]]
IdleBackfill ==
  [phase |-> "before", at |-> 1, decision |-> "none", snapshot |-> [s \in Pdf |-> NoManifestRecord]]

CorpusTypeOK ==
  /\ extracted \subseteq Pdf /\ backfilled \subseteq Pdf
  /\ acceptance \in [Pdf -> [scan : 0..MaxScan, current : BOOLEAN]]
  /\ corpusJobs \in [CorpusJob -> [status : {"absent", "queued", "processing", "processed", "failed"},
                                   scan : 0..MaxScan]]
  /\ \A i \in 1..Len(queued) : corpusJobs[queued[i]].status = "queued"
  /\ vectorsOf \in [Pdf -> CorpusJob \cup {NoneYet}]
  /\ operational \in [Pdf -> ManifestRecord]
  /\ corpusFiles \in [FileNames -> Entries] /\ lastReplaced \in FileNames
  /\ \A r \in CorpusRun : corpusRuns[r].entries \in Entries

(* The document library may have indexed a version before, with the        *)
(* embedding provider that is configured, which is never the run's.        *)
CorpusInit ==
  /\ extracted = {} /\ queued = <<>>
  /\ acceptance = [s \in Pdf |-> [scan |-> 0, current |-> FALSE]]
  /\ corpusJobs = [j \in CorpusJob |-> [status |-> "absent", scan |-> 0]]
  /\ vectorsOf = [s \in Pdf |-> NoneYet]
  /\ \E record \in {NoManifestRecord, ManifestOf("indexed", "configured")} :
       operational = [s \in Pdf |-> record]
  /\ corpusFiles = [f \in FileNames |-> NoEntries]
  /\ corpusRuns = [r \in CorpusRun |-> IdleCorpusRun]
  /\ backfill = IdleBackfill
  /\ together = FALSE /\ backfilled = {} /\ lastReplaced = "inventory"

-------------------------------------------------------------------------------
CommandOver == {"before", "ended", "stopped"}
CorpusRunning(r) == corpusRuns[r].phase \notin CommandOver
Backfilling == backfill.phase \notin CommandOver
CorpusAt(r, phase) == corpusRuns[r].phase = phase
CorpusIs(r, run) == corpusRuns' = [corpusRuns EXCEPT ![r] = run]
CorpusGoes(r, phase) == CorpusIs(r, [corpusRuns[r] EXCEPT !.phase = phase])
NextPdf(r) == [corpusRuns[r] EXCEPT !.at = @ + 1, !.job = NoneYet, !.scan = 0]
PdfOf(r) == corpusRuns[r].at
LastPdf(r) == PdfOf(r) = Cardinality(Pdf)
CorpusStopped == [IdleCorpusRun EXCEPT !.phase = "stopped"]
CorpusFilesKept == UNCHANGED <<operational, corpusFiles, backfill>>
CommandsMeet == together' = (together \/ Backfilling \/ \E r \in CorpusRun : CorpusRunning(r))

-------------------------------------------------------------------------------
(* parseConfig, the inventory, and the bytes of every source: what is not  *)
(* as configured stops the run (CorpusStops).                              *)
(* Bound: an operator starts it again when the last run is over.           *)
CorpusBegins(r) ==
  /\ CorpusAt(r, "before") /\ \A other \in CorpusRun : ~CorpusRunning(other)
  /\ CorpusIs(r, [IdleCorpusRun EXCEPT !.phase = "accepting"])
  /\ CommandsMeet /\ UNCHANGED <<corpusData, operational, corpusFiles, backfill, backfilled, lastReplaced>>

(* findCurrentAcceptance, beginInspection and completeInspection, each in  *)
(* a transaction of its own; a later inspection makes an earlier one stale.*)
FindsAcceptance(r) ==
  LET found == acceptance[PdfOf(r)]
  IN /\ CorpusAt(r, "accepting")
     /\ CorpusIs(r, IF found.current THEN [corpusRuns[r] EXCEPT !.phase = "enqueue", !.scan = found.scan]
               ELSE [corpusRuns[r] EXCEPT !.phase = "inspect"])
     /\ UNCHANGED corpusData /\ CorpusFilesKept /\ UNCHANGED corpusHistory
Inspects(r) ==
  LET s == PdfOf(r)
  IN /\ CorpusAt(r, "inspect") /\ acceptance[s].scan < MaxScan
     /\ acceptance' = [acceptance EXCEPT ![s] = [scan |-> @.scan + 1, current |-> FALSE]]
     /\ CorpusIs(r, [corpusRuns[r] EXCEPT !.phase = "inspected", !.scan = acceptance[s].scan + 1])
     /\ UNCHANGED <<corpusJobs, queued, vectorsOf, extracted>> /\ CorpusFilesKept /\ UNCHANGED corpusHistory
Accepts(r) ==
  LET s == PdfOf(r)
  IN /\ CorpusAt(r, "inspected")
     /\ IF acceptance[s].scan = corpusRuns[r].scan
        THEN /\ acceptance' = [acceptance EXCEPT ![s].current = TRUE]
             /\ CorpusGoes(r, "enqueue")
        ELSE CorpusIs(r, CorpusStopped) /\ UNCHANGED acceptance
     /\ UNCHANGED <<corpusJobs, queued, vectorsOf, extracted>> /\ CorpusFilesKept /\ UNCHANGED corpusHistory

(* service.enqueue: the same key always finds the same job, and a job that *)
(* failed, its one attempt spent, stays as it is.                          *)
QueueJob(j) ==
  IF corpusJobs[j].status = "absent"
  THEN corpusJobs' = [corpusJobs EXCEPT ![j].status = "queued"] /\ queued' = Append(queued, j)
  ELSE UNCHANGED <<corpusJobs, queued>>
Enqueues(r) ==
  LET s == PdfOf(r)
  IN /\ CorpusAt(r, "enqueue")
     /\ QueueJob(s)
     /\ CorpusIs(r, IF corpusJobs[s].status = "processed" THEN [corpusRuns[r] EXCEPT !.phase = "bind", !.job = s]
               ELSE [corpusRuns[r] EXCEPT !.phase = "lease"])
     /\ UNCHANGED <<acceptance, vectorsOf, extracted>> /\ CorpusFilesKept /\ UNCHANGED corpusHistory

(* worker.runOnce leases the first job whose version is accepted now.      *)
MayLease(i) == acceptance[OfVersion(queued[i])].current
Leases(r) ==
  \E i \in 1..Len(queued) :
    LET j == queued[i]
    IN /\ CorpusAt(r, "lease") /\ MayLease(i) /\ \A k \in 1..(i - 1) : ~MayLease(k)
       /\ corpusJobs' = [corpusJobs EXCEPT ![j] = [status |-> "processing", scan |-> acceptance[OfVersion(j)].scan]]
       /\ queued' = SubSeq(queued, 1, i - 1) \o SubSeq(queued, i + 1, Len(queued))
       /\ CorpusIs(r, [corpusRuns[r] EXCEPT !.phase = "work", !.job = j])
       /\ UNCHANGED <<acceptance, vectorsOf, extracted>> /\ CorpusFilesKept /\ UNCHANGED corpusHistory
FindsIdle(r) ==
  /\ CorpusAt(r, "lease") /\ \A i \in 1..Len(queued) : ~MayLease(i)
  /\ CorpusIs(r, CorpusStopped) /\ UNCHANGED corpusData /\ CorpusFilesKept /\ UNCHANGED corpusHistory

(* The acceptance the job was leased under is resolved, its file read and  *)
(* extracted.  The vectors of the version are replaced with the job's; a   *)
(* failure leaves them, but not the version's extraction_status.           *)
StillAccepted(j) ==
  acceptance[OfVersion(j)].current /\ acceptance[OfVersion(j)].scan = corpusJobs[j].scan
SettlesJob(j, status) == corpusJobs' = [corpusJobs EXCEPT ![j].status = status]
JobFails(j) == SettlesJob(j, "failed") /\ extracted' = extracted \ {OfVersion(j)} /\ UNCHANGED vectorsOf
Processes(r) ==
  LET j == corpusRuns[r].job
      v == OfVersion(j)
  IN /\ CorpusAt(r, "work") /\ corpusJobs[j].status = "processing"
     /\ v \notin Textless /\ StillAccepted(j)
     /\ SettlesJob(j, "processed")
     /\ vectorsOf' = [vectorsOf EXCEPT ![v] = j] /\ extracted' = extracted \cup {v}
     /\ CorpusGoes(r, "bind")
     /\ UNCHANGED <<acceptance, queued>> /\ CorpusFilesKept /\ UNCHANGED corpusHistory
FindsNoText(r) ==
  LET j == corpusRuns[r].job
      entry == [status |-> "blocked", job |-> j, scan |-> corpusRuns[r].scan]
      noted == [NextPdf(r) EXCEPT !.entries[PdfOf(r)] = entry]
  IN /\ CorpusAt(r, "work") /\ corpusJobs[j].status = "processing"
     /\ OfVersion(j) \in Textless /\ StillAccepted(j)
     /\ JobFails(j)
     /\ CorpusIs(r, IF LastPdf(r) THEN [noted EXCEPT !.phase = "put", !.at = 1] ELSE [noted EXCEPT !.phase = "accepting"])
     /\ UNCHANGED <<acceptance, queued>> /\ CorpusFilesKept /\ UNCHANGED corpusHistory
WorkFails(r) ==
  LET j == corpusRuns[r].job
  IN /\ CorpusAt(r, "work") /\ corpusJobs[j].status = "processing"
     /\ JobFails(j) /\ CorpusIs(r, CorpusStopped)
     /\ UNCHANGED <<acceptance, queued>> /\ CorpusFilesKept /\ UNCHANGED corpusHistory

(* A mutant: the scan of the acceptance is not compared.                   *)
BindsVersion(r) == OfVersion(corpusRuns[r].job) = PdfOf(r)

(* The processed job was leased under the acceptance the run has found,    *)
(* and its vectors are those of the version.                               *)
BindsAcceptance(r) == BindsVersion(r) /\ corpusJobs[corpusRuns[r].job].scan = corpusRuns[r].scan
Persisted(r) == vectorsOf[PdfOf(r)] = corpusRuns[r].job /\ PdfOf(r) \in extracted
Binds(r) ==
  LET run == corpusRuns[r]
      noted == [NextPdf(r) EXCEPT !.entries[run.at] = [status |-> "ingested", job |-> run.job, scan |-> run.scan]]
  IN /\ CorpusAt(r, "bind")
     /\ CorpusIs(r, IF ~(BindsAcceptance(r) /\ Persisted(r)) THEN CorpusStopped
               ELSE IF LastPdf(r) THEN [noted EXCEPT !.phase = "put", !.at = 1]
               ELSE [noted EXCEPT !.phase = "accepting"])
     /\ UNCHANGED corpusData /\ CorpusFilesKept /\ UNCHANGED corpusHistory

-------------------------------------------------------------------------------
(* JsonFileCorpusManifestStore.put reads the whole file and writes it with *)
(* the record; a blocked source has none.                                  *)
PutReads(r) ==
  /\ CorpusAt(r, "put")
  /\ CorpusIs(r, IF PdfOf(r) \notin Pdf THEN [corpusRuns[r] EXCEPT !.phase = "reconcile"]
            ELSE IF corpusRuns[r].entries[PdfOf(r)].status = "blocked" THEN NextPdf(r)
            ELSE [corpusRuns[r] EXCEPT !.phase = "put_write", !.snapshot = operational])
  /\ UNCHANGED corpusData /\ CorpusFilesKept /\ UNCHANGED corpusHistory
PutWrites(r) ==
  /\ CorpusAt(r, "put_write")
  /\ operational' = [corpusRuns[r].snapshot EXCEPT ![PdfOf(r)] = ManifestOf("indexed", "run")]
  /\ CorpusIs(r, [NextPdf(r) EXCEPT !.phase = "put", !.snapshot = IdleCorpusRun.snapshot])
  /\ backfilled' = backfilled \ {PdfOf(r)}
  /\ UNCHANGED <<corpusData, corpusFiles, backfill, together, lastReplaced>>

(* reconcileSourceInventoryWithCorpusManifest: what the inventory is to    *)
(* call ingested is indexed in the manifest, in the same bytes.            *)
Reconciled(entries) == \A s \in Pdf : entries[s].status = "ingested" => operational[s].status = "indexed"
Reconciles(r) ==
  /\ CorpusAt(r, "reconcile")
  /\ CorpusIs(r, IF Reconciled(corpusRuns[r].entries) THEN [corpusRuns[r] EXCEPT !.phase = "evidence"] ELSE CorpusStopped)
  /\ UNCHANGED corpusData /\ CorpusFilesKept /\ UNCHANGED corpusHistory

(* Three files, replaced one after the other.  The evidence manifest names *)
(* the ingested sources only.                                              *)
NextFile == [evidence |-> "receipt", receipt |-> "inventory", inventory |-> "ended"]
FileWritten(f, entries) ==
  IF f # "evidence" THEN entries
  ELSE [s \in Pdf |-> IF entries[s].status = "ingested" THEN entries[s] ELSE NoEntry]
WritesFile(r, f) ==
  /\ CorpusAt(r, f)
  /\ corpusFiles' = [corpusFiles EXCEPT ![f] = FileWritten(f, corpusRuns[r].entries)]
  /\ CorpusIs(r, IF f = "inventory" THEN [IdleCorpusRun EXCEPT !.phase = "ended"]
            ELSE [corpusRuns[r] EXCEPT !.phase = NextFile[f], !.at = 1])
  /\ lastReplaced' = f
  /\ UNCHANGED <<corpusData, operational, backfill, together, backfilled>>

(* An error in any step, or the end of the process.                        *)
CorpusStops(r) == CorpusRunning(r) /\ CorpusIs(r, CorpusStopped) /\ UNCHANGED corpusData /\ CorpusFilesKept /\ UNCHANGED corpusHistory

-------------------------------------------------------------------------------
(* decideCorpusBackfill of one document under the key of a source.         *)
DecideBackfill(record, unchanged) ==
  IF record.status = "none" THEN "index"
  ELSE IF record.status = "failed" THEN "retry"
  ELSE IF unchanged /\ record.from = "configured" THEN "skip" ELSE "reindex"
BackfillBegins(s) ==
  /\ backfill.phase = "before"
  /\ \E unchanged \in BOOLEAN :
       backfill' = [IdleBackfill EXCEPT !.phase = "decided", !.at = s,
                                        !.decision = DecideBackfill(operational[s], unchanged)]
  /\ CommandsMeet /\ UNCHANGED <<corpusData, operational, corpusFiles, corpusRuns, backfilled, lastReplaced>>
BackfillReads ==
  /\ backfill.phase = "decided"
  /\ backfill' = [backfill EXCEPT !.phase = "write", !.snapshot = operational]
  /\ UNCHANGED <<corpusData, operational, corpusFiles, corpusRuns, corpusHistory>>
(* The indexer has no tenant's job to write vectors for and always fails.  *)
IndexedAs(decision) == IF decision = "skip" THEN "skipped" ELSE "failed"
BackfillWrites ==
  /\ backfill.phase = "write"
  /\ operational' = [backfill.snapshot EXCEPT
       ![backfill.at] = ManifestOf(IndexedAs(backfill.decision), "configured")]
  /\ backfill' = [IdleBackfill EXCEPT !.phase = "ended"]
  /\ backfilled' = backfilled \cup {backfill.at}
  /\ UNCHANGED <<corpusData, corpusFiles, corpusRuns, together, lastReplaced>>

(* The rest of the system: another client's job, the end of an acceptance, *)
(* another inspection of the object (bound: where it overtakes the run's), *)
(* a lease nobody holds any more (its only attempt is spent).              *)
OtherQueues ==
  /\ corpusJobs[OtherJob].status = "absent"
  /\ QueueJob(OtherJob)
  /\ UNCHANGED <<acceptance, vectorsOf, extracted, corpusRuns>> /\ CorpusFilesKept /\ UNCHANGED corpusHistory
AcceptanceExpires(s) ==
  /\ acceptance[s].current /\ acceptance' = [acceptance EXCEPT ![s].current = FALSE]
  /\ UNCHANGED <<corpusJobs, queued, vectorsOf, extracted, corpusRuns>> /\ CorpusFilesKept /\ UNCHANGED corpusHistory
InspectedElsewhere(s) ==
  /\ acceptance[s].scan < MaxScan /\ \E r \in CorpusRun : CorpusAt(r, "inspected") /\ PdfOf(r) = s
  /\ \E current \in BOOLEAN : acceptance' = [acceptance EXCEPT ![s] = [scan |-> @.scan + 1, current |-> current]]
  /\ UNCHANGED <<corpusJobs, queued, vectorsOf, extracted, corpusRuns>> /\ CorpusFilesKept /\ UNCHANGED corpusHistory
LeaseLapses(j) ==
  /\ corpusJobs[j].status = "processing"
  /\ \A r \in CorpusRun : ~(CorpusAt(r, "work") /\ corpusRuns[r].job = j)
  /\ JobFails(j)
  /\ UNCHANGED <<acceptance, queued, corpusRuns>> /\ CorpusFilesKept /\ UNCHANGED corpusHistory

CorpusNext ==
  \/ \E r \in CorpusRun :
       \/ CorpusBegins(r) \/ FindsAcceptance(r) \/ Inspects(r) \/ Accepts(r) \/ Enqueues(r) \/ Leases(r)
       \/ FindsIdle(r) \/ Processes(r) \/ FindsNoText(r) \/ WorkFails(r) \/ Binds(r)
       \/ PutReads(r) \/ PutWrites(r) \/ Reconciles(r) \/ CorpusStops(r)
       \/ \E f \in FileNames : WritesFile(r, f)
  \/ \E s \in Pdf : BackfillBegins(s) \/ AcceptanceExpires(s) \/ InspectedElsewhere(s)
  \/ BackfillReads \/ BackfillWrites \/ OtherQueues
  \/ \E j \in CorpusJob : LeaseLapses(j)
CorpusSpec == CorpusInit /\ [][CorpusNext]_corpusVars

-------------------------------------------------------------------------------
(* Whatever a file calls ingested was processed, by a job for that very    *)
(* version, under the acceptance the file names; what it calls blocked     *)
(* failed.  What the inventory calls ingested by the run's own job the     *)
(* receipt and the evidence manifest show with the same job, wherever runs *)
(* ended and whichever jobs their worker took; by another client's job,    *)
(* unless a run has ended between those files or is between them.  And     *)
(* unless two commands were under way at once the operational manifest     *)
(* shows it as indexed, until a backfill replaces that record.             *)
EntryHolds(s, entry) ==
  /\ entry.status = "ingested" =>
       /\ corpusJobs[entry.job] = [status |-> "processed", scan |-> entry.scan]
       /\ OfVersion(entry.job) = s
  /\ entry.status = "blocked" => corpusJobs[entry.job].status = "failed"
CorpusHolds ==
  /\ \A f \in FileNames, s \in Pdf : EntryHolds(s, corpusFiles[f][s])
  /\ \A s \in Pdf : corpusFiles["inventory"][s].status = "ingested" =>
       /\ corpusFiles["inventory"][s].job = s \/ lastReplaced = "inventory" =>
            \A f \in FileNames : corpusFiles[f][s] = corpusFiles["inventory"][s]
       /\ together \/ s \in backfilled \/ operational[s].status = "indexed"
===============================================================================
