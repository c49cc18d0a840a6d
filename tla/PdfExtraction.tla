----------------------------- MODULE PdfExtraction -----------------------------
(***************************************************************************)
(* The extraction of PDFs in worker processes                              *)
(* (src/src/ingestion/extractors/rawPdfExtractor.ts and                    *)
(* src/scripts/pdf-extraction-worker.mjs).  Calls of extractRawPdf overlap *)
(* in one process, which counts them in activePdfProcesses; each has a     *)
(* directory and a child, and decides when the child's streams are closed. *)
(*                                                                         *)
(* A page is the bytes of its items, of its text once normalised, and of   *)
(* that text in JSON.  What pdfjs finds in a document is external.         *)
(***************************************************************************)
EXTENDS Naturals, Sequences, FiniteSets

CONSTANTS Extraction,   \* calls of extractRawPdf
          Document,     \* what they may be given
          NoPdf,
          MaxPages, MaxPageText, MaxTotalText, MaxOutput, MaxConcurrency  \* PdfExtractionPolicy

(* The policy's limits are positive (loadPdfExtractionPolicy), and to      *)
(* normalise a text removes some of it.                                    *)
ASSUME PdfConstants ==
  /\ IsFiniteSet(Extraction)
  /\ {MaxPages, MaxPageText, MaxTotalText, MaxOutput, MaxConcurrency} \subseteq Nat \ {0}
  /\ \A d \in Document :
       /\ d.input \in {"pdf", "binary_input_required", "input_empty", "input_too_large", "signature_invalid"}
       /\ d.opens \in {"yes", "encrypted", "malformed"}
       /\ d.pages \in Seq([raw : Nat, text : Nat, json : Nat])
       /\ \A i \in 1..Len(d.pages) : d.pages[i].text <= d.pages[i].raw

VARIABLES extraction, activePdfProcesses
pdfVars == <<extraction, activePdfProcesses>>

(* PDF_FAILURES.  "other" is an error that has no code. *)
InputFailure == {"binary_input_required", "input_empty", "input_too_large", "signature_invalid"}
DocumentFailure ==
  {"encrypted", "malformed", "page_limit", "page_text_limit", "text_limit", "no_extractable_text"}
RetryableFailure == {"worker_unavailable", "worker_crashed", "worker_capacity"}
PdfOutcome ==
  {"none", "ok", "other", "timeout", "output_limit", "stderr_limit", "worker_protocol"}
    \cup InputFailure \cup DocumentFailure \cup RetryableFailure

IdleExtraction ==
  [phase |-> "idle", document |-> NoPdf, directory |-> FALSE, child |-> "none", said |-> "nothing",
   forcedFailure |-> "none", outcome |-> "none", pages |-> {}]

PdfTypeOK ==
  /\ \A e \in Extraction :
       /\ extraction[e].phase \in {"idle", "preparing", "running", "settled", "ended"}
       /\ extraction[e].document \in Document \cup {NoPdf}
       /\ extraction[e].child \in {"none", "running", "exited", "failed"}
       /\ extraction[e].said \in {"nothing", "part", "whole", "spoiled"}
       /\ {extraction[e].forcedFailure, extraction[e].outcome} \subseteq PdfOutcome
  /\ activePdfProcesses \in Nat

PdfInit ==
  /\ extraction = [e \in Extraction |-> IdleExtraction]
  /\ activePdfProcesses = 0

(* ---- the worker: what it answers for a document, if nothing throws ---- *)
PagesOf(d) == 1..Len(d.pages)
Amount(d, kind, last) ==
  LET sum[i \in 0..last] == IF i = 0 THEN 0 ELSE sum[i - 1] + d.pages[i][kind] IN sum[last]
PageTooLong(d, i) == d.pages[i].raw > MaxPageText
TextTooLong(d, i) == Amount(d, "text", i) > MaxTotalText
(* The page at which it gives up, if there is one. *)
Stumbles(d) == {i \in PagesOf(d) : /\ PageTooLong(d, i) \/ TextTooLong(d, i)
                                 /\ \A j \in 1..(i - 1) : ~PageTooLong(d, j) /\ ~TextTooLong(d, j)}
PagesWithText(d) == {i \in PagesOf(d) : d.pages[i].text > 0}
WorkerAnswer(d) ==
  CASE d.opens # "yes" -> d.opens
    [] d.opens = "yes" /\ d.pages = <<>> -> "malformed"
    [] d.opens = "yes" /\ Len(d.pages) > MaxPages -> "page_limit"
    [] d.opens = "yes" /\ Len(d.pages) \in 1..MaxPages ->
         IF \E i \in Stumbles(d) : PageTooLong(d, i) THEN "page_text_limit"
         ELSE IF Stumbles(d) # {} THEN "text_limit"
         ELSE IF PagesWithText(d) = {} THEN "no_extractable_text"
         ELSE IF Amount(d, "json", Len(d.pages)) > MaxOutput THEN "output_limit"
         ELSE "ok"
(* The catch-all: a policy it cannot parse, and whatever else throws       *)
(* (the import of pdfjs, an allocation, a page, its text, at last the      *)
(* destruction of the document, also after a result) is "malformed" too,   *)
(* of any document.                                                        *)
WorkerAnswers(d) == {WorkerAnswer(d), "malformed"}

-------------------------------------------------------------------------------
PdfIn(e, phase) == extraction[e].phase = phase
KeepsCount == UNCHANGED activePdfProcesses

(* extractRawPdf refuses its input, or finds every worker in use. *)
RefusesPdf(e, d) ==
  /\ PdfIn(e, "idle")
  /\ d.input = "pdf" => activePdfProcesses >= MaxConcurrency
  /\ extraction' = [extraction EXCEPT ![e].phase = "ended", ![e].document = d,
                      ![e].outcome = IF d.input = "pdf" THEN "worker_capacity" ELSE d.input]
  /\ KeepsCount

(* The capacity is checked and taken before anything is awaited. *)
TakesWorker(e, d) ==
  /\ PdfIn(e, "idle") /\ d.input = "pdf" /\ activePdfProcesses < MaxConcurrency
  /\ activePdfProcesses' = activePdfProcesses + 1
  /\ extraction' = [extraction EXCEPT ![e].phase = "preparing", ![e].document = d]

(* mkdtemp, and the child in that directory. *)
SpawnsWorker(e) ==
  /\ PdfIn(e, "preparing")
  /\ \E child \in {"running", "none"} :
       extraction' = [extraction EXCEPT ![e].phase = "running", ![e].directory = TRUE, ![e].child = child,
                        ![e].forcedFailure = IF child = "none" THEN "worker_unavailable" ELSE "none"]
  /\ KeepsCount

(* Either throws: the worker is given up, and the directory if it is there. *)
CannotSpawn(e) ==
  /\ PdfIn(e, "preparing")
  /\ \E made \in BOOLEAN :
       extraction' = [extraction EXCEPT ![e].phase = "settled", ![e].outcome = "other", ![e].directory = made]
  /\ activePdfProcesses' = activePdfProcesses - 1

(* The child writes its answer in pieces, may write something else first,  *)
(* and exits; or it fails, as every killed child does.                     *)
WorkerWrites(e) ==
  /\ extraction[e].child = "running" /\ extraction[e].said \in {"nothing", "part"}
  /\ \E said \in {"part", "whole", "spoiled"} \ {extraction[e].said} :
       extraction' = [extraction EXCEPT ![e].said = said]
  /\ KeepsCount
WorkerExits(e) ==
  /\ extraction[e].child = "running" /\ extraction[e].said \in {"whole", "spoiled"}
  /\ extraction' = [extraction EXCEPT ![e].child = "exited"]
  /\ KeepsCount
WorkerFails(e) ==
  /\ extraction[e].child = "running"
  /\ extraction' = [extraction EXCEPT ![e].child = "failed"]
  /\ KeepsCount

(* forceStop: the first failure stays, and the child is sent SIGKILL.  It  *)
(* may write and exit before that reaches it.                              *)
ForceStop(e, failure) ==
  /\ PdfIn(e, "running") /\ extraction[e].forcedFailure = "none"
  /\ extraction' = [extraction EXCEPT ![e].forcedFailure = failure]
  /\ KeepsCount
TimesOut(e) == ForceStop(e, "timeout")
StdinBreaks(e) == ForceStop(e, "worker_crashed")
WritesTooMuch(e) ==
  extraction[e].child = "running" /\ \E limit \in {"output_limit", "stderr_limit"} : ForceStop(e, limit)

(* parseWorkerStdout and validateWorkerResult. *)
Parsed(e) ==
  IF extraction[e].said = "whole" THEN WorkerAnswers(extraction[e].document) ELSE {"worker_protocol"}

(* A mutant: a child that was sent SIGKILL is not waited for.              *)
ClosedOrStopped(e) == extraction[e].child # "running" \/ extraction[e].forcedFailure # "none"
Closed(e) == extraction[e].child # "running"

(* "close": what was forced, then how the child ended, then what it said.  *)
WorkerCloses(e) ==
  /\ PdfIn(e, "running") /\ Closed(e)
  /\ \E outcome \in IF extraction[e].forcedFailure # "none" THEN {extraction[e].forcedFailure}
                     ELSE IF extraction[e].child = "failed" THEN {"worker_crashed"} ELSE Parsed(e) :
       extraction' = [extraction EXCEPT ![e].phase = "settled", ![e].outcome = outcome,
                        ![e].forcedFailure = "none", ![e].said = "nothing",
                        ![e].pages = IF outcome = "ok" THEN PagesWithText(extraction[e].document) ELSE {}]
  /\ activePdfProcesses' = activePdfProcesses - 1

(* The directory is removed after the worker was given up; where that      *)
(* fails, its error is the call's outcome, whatever was extracted.         *)
RemovesDirectory(e) ==
  /\ PdfIn(e, "settled")
  /\ \/ extraction' = [extraction EXCEPT ![e].phase = "ended", ![e].directory = FALSE]
     \/ /\ extraction[e].directory
        /\ extraction' = [extraction EXCEPT ![e].phase = "ended", ![e].outcome = "other", ![e].pages = {}]
  /\ KeepsCount

PdfNext ==
  \E e \in Extraction :
    \/ \E d \in Document : RefusesPdf(e, d) \/ TakesWorker(e, d)
    \/ SpawnsWorker(e) \/ CannotSpawn(e)
    \/ WorkerWrites(e) \/ WorkerExits(e) \/ WorkerFails(e)
    \/ TimesOut(e) \/ StdinBreaks(e) \/ WritesTooMuch(e)
    \/ WorkerCloses(e) \/ RemovesDirectory(e)
PdfSpec == PdfInit /\ [][PdfNext]_pdfVars

-------------------------------------------------------------------------------
(* No more workers run than the policy allows, also while some are being   *)
(* stopped or their calls fail, and none is given up twice or forgotten.   *)
WorkersCounted ==
  /\ Cardinality({e \in Extraction : extraction[e].child = "running"}) <= MaxConcurrency
  /\ activePdfProcesses = Cardinality({e \in Extraction : extraction[e].phase \in {"preparing", "running"}})

(* A document is extracted whole or not at all: a success has every page   *)
(* that has text, of a document within every limit, however the worker,    *)
(* its output, its timer and its end overlap.  A failure that says of the  *)
(* document that it is encrypted, without text or beyond a limit is true;  *)
(* of "malformed", which any thrown error is called, only this is: that it *)
(* comes, as those do, of a worker that ended by itself, never of one that *)
(* was stopped, crashed or wrote something else.                           *)
ExtractedWhole ==
  \A e \in Extraction :
    LET d == extraction[e].document
        text(i) == d.pages[i].text
        says(outcome) == extraction[e].outcome = outcome
    IN /\ says("ok") =>
            /\ d.opens = "yes" /\ Len(d.pages) <= MaxPages
            /\ \A i \in PagesOf(d) : text(i) <= MaxPageText /\ (text(i) > 0 <=> i \in extraction[e].pages)
            /\ extraction[e].pages # {} /\ Amount(d, "text", Len(d.pages)) <= MaxTotalText
       /\ says("encrypted") => d.opens = "encrypted"
       /\ says("page_limit") => Len(d.pages) > MaxPages
       /\ says("page_text_limit") => \E i \in PagesOf(d) : d.pages[i].raw > MaxPageText
       /\ says("no_extractable_text") => \A i \in PagesOf(d) : text(i) = 0
       /\ says("text_limit") => Amount(d, "text", Len(d.pages)) > MaxTotalText
       /\ extraction[e].outcome \in DocumentFailure => extraction[e].child = "exited"
       /\ extraction[e].phase = "ended" /\ extraction[e].directory => says("other")

PdfsHold == WorkersCounted /\ ExtractedWhole
===============================================================================
