----------------------------- MODULE OperatorTools -----------------------------
(***************************************************************************)
(* The tools that acquire and ingest documents, side by side: the library, *)
(* the acquisition of pages, the runs over a corpus and the workers that   *)
(* extract PDFs.  They share no file and no table, so that the whole is    *)
(* the conjunction of their specifications: steps of one may come between  *)
(* any steps of the others, or together with them.                         *)
(***************************************************************************)
EXTENDS DocumentLibrary, HtmlAcquisition, CorpusRuns, PdfExtraction

ToolsSpec == LibrarySpec /\ HtmlSpec /\ CorpusSpec /\ PdfSpec

-------------------------------------------------------------------------------
(* The files of the tools that acquire and ingest documents are what the   *)
(* records say of them, and a PDF is extracted whole or not at all,        *)
(* whatever fails between their steps (importLocalArtifact,                *)
(* inspectLibraryArtifact, ingestLibraryArtifact, acquireSourcePackHtml,   *)
(* controlledCorpusIngestion, runPdfExtractionWorker).                     *)
FilesHold == DocumentsHold /\ SnapshotsHold /\ CorpusHolds /\ PdfsHold
===============================================================================
