------------------------------ MODULE TenantVectors ------------------------------
(***************************************************************************)
(* The replacement of the vectors of a document version                    *)
(* (src/src/embeddings/tenantPgVectorRepository.ts, within complete() of   *)
(* src/src/ingestion/ingestionJobService.ts), statement by statement and   *)
(* row by row, under READ COMMITTED.  Publications of one version exclude  *)
(* each other by the lock of its row, but those of two versions may meet   *)
(* on a chunk, whose identifier is unique for the tenant, not the version. *)
(*                                                                         *)
(* A statement waits for the rows another transaction holds; where two     *)
(* wait for each other the database has one of them fail, as any statement *)
(* may at any time.                                                        *)
(***************************************************************************)
EXTENDS Naturals, Sequences, SequencesExt

CONSTANTS Publication,  \* each the completion of a job of its own
          VersionOf,    \* the document version of each
          BatchesOf,    \* its prepared records: batches of [chunk, text]
          NoRow, NoPublication

VARIABLES vectorRows,     \* as committed, of each chunk
          written,        \* what each transaction wrote and has not committed
          locker,         \* which transaction holds the row of a chunk
          publications,   \* the course of each
          lastPublished   \* history: the last that committed, of each version
vectorVars == <<vectorRows, written, locker, publications, lastPublished>>

Records(p) == UNION {ToSet(BatchesOf[p][i]) : i \in 1..Len(BatchesOf[p])}
Chunk == UNION {{r.chunk : r \in Records(p)} : p \in Publication}
Text == UNION {{r.text : r \in Records(p)} : p \in Publication}
Versions == {VersionOf[p] : p \in Publication}
VectorRow == [version : Versions, job : Publication, text : Text] \cup {NoRow}
(* prepareDocumentEmbeddings plans chunks, and replaceDocumentVersion      *)
(* refuses no record, too many and two of one chunk.                       *)
ASSUME PreparedRecords ==
  /\ NoPublication \notin Publication
  /\ NoRow \notin [version : Versions, job : Publication, text : Text]
  /\ \A p \in Publication :
       /\ BatchesOf[p] \in Seq(Seq([chunk : Chunk, text : Text])) /\ Len(BatchesOf[p]) > 0
       /\ \A r, s \in Records(p) : r.chunk = s.chunk => r = s

NotPublishing == [phase |-> "before", batch |-> 1, wanted |-> {}, existing |-> {}, upserted |-> {}, at |-> 1]

VectorTypeOK ==
  /\ vectorRows \in [Chunk -> VectorRow]
  /\ \A p \in Publication :
       /\ DOMAIN written[p] \subseteq Chunk /\ \A k \in DOMAIN written[p] : written[p][k] \in VectorRow
       /\ publications[p].phase \in {"before", "begun", "lookup", "locking", "upserting", "stale", "committed",
                                     "failed"}
       /\ publications[p].existing \cup publications[p].upserted \subseteq Chunk
  /\ locker \in [Chunk -> Publication \cup {NoPublication}]
  /\ lastPublished \in [Versions -> Publication \cup {NoPublication}]

VectorInit ==
  /\ vectorRows = [k \in Chunk |-> NoRow]
  /\ written = [p \in Publication |-> [k \in {} |-> NoRow]]
  /\ locker = [k \in Chunk |-> NoPublication]
  /\ publications = [p \in Publication |-> NotPublishing]
  /\ lastPublished = [v \in Versions |-> NoPublication]

-------------------------------------------------------------------------------
Phase(p, phase) == publications[p].phase = phase
Course(p, course) == publications' = [publications EXCEPT ![p] = course]
Running(p) == publications[p].phase \notin {"before", "committed", "failed"}
(* A mutant: every batch is the first.                                     *)
FirstBatch(p) == BatchesOf[p][1]
Batch(p) == BatchesOf[p][publications[p].batch]
ChunksOf(batch) == {batch[i].chunk : i \in 1..Len(batch)}

(* What a statement of p finds under a chunk: its own row, or a committed. *)
FoundRow(p, k) == IF k \in DOMAIN written[p] THEN written[p][k] ELSE vectorRows[k]
Free(p, k) == locker[k] \in {p, NoPublication}
RowOf(p, record) == [version |-> VersionOf[p], job |-> p, text |-> record.text]

(* prepareDocumentEmbeddings has all records or none; LOCK_DOCUMENT_VERSION. *)
LocksVersion(p) ==
  /\ Phase(p, "before")
  /\ \A other \in Publication : Running(other) => VersionOf[other] # VersionOf[p]
  /\ Course(p, [NotPublishing EXCEPT !.phase = "lookup"])
  /\ UNCHANGED <<vectorRows, written, locker, lastPublished>>

(* SELECT_EXISTING_BATCH_SQL: the rows its snapshot has, locked one by one. *)
LooksUp(p) ==
  /\ Phase(p, "lookup")
  /\ Course(p, [publications[p] EXCEPT !.phase = "locking", !.existing = {}, !.upserted = {}, !.at = 1,
                  !.wanted = {k \in ChunksOf(Batch(p)) : FoundRow(p, k) # NoRow}])
  /\ UNCHANGED <<vectorRows, written, locker, lastPublished>>
LocksVectorRow(p, k) ==
  /\ Phase(p, "locking") /\ k \in publications[p].wanted /\ Free(p, k)
  /\ locker' = IF FoundRow(p, k) = NoRow THEN locker ELSE [locker EXCEPT ![k] = p]
  /\ Course(p, [publications[p] EXCEPT !.wanted = @ \ {k},
                  !.existing = IF FoundRow(p, k) = NoRow THEN @ ELSE @ \cup {k}])
  /\ UNCHANGED <<vectorRows, written, lastPublished>>
Unbound(p) == \A k \in publications[p].existing : FoundRow(p, k).version = VersionOf[p]
LookedUp(p) ==
  /\ Phase(p, "locking") /\ publications[p].wanted = {} /\ Unbound(p)
  /\ Course(p, [publications[p] EXCEPT !.phase = "upserting"])
  /\ UNCHANGED <<vectorRows, written, locker, lastPublished>>

(* The upsert of the batch, row by row: a row that is there is replaced    *)
(* and returned only if it is of the version.                              *)
Upserts(p) ==
  LET record == Batch(p)[publications[p].at]
      k == record.chunk
      ours == FoundRow(p, k) = NoRow \/ FoundRow(p, k).version = VersionOf[p]
  IN /\ Phase(p, "upserting") /\ publications[p].at <= Len(Batch(p)) /\ Free(p, k)
     /\ locker' = [locker EXCEPT ![k] = p]
     /\ written' = IF ours THEN [written EXCEPT ![p] = [m \in DOMAIN @ \cup {k} |-> IF m = k THEN RowOf(p, record) ELSE @[m]]]
                   ELSE written
     /\ Course(p, [publications[p] EXCEPT !.at = @ + 1, !.upserted = IF ours THEN @ \cup {k} ELSE @])
     /\ UNCHANGED <<vectorRows, lastPublished>>

(* Every record was written or there before: the next batch, or the end.   *)
WholeBatch(p) == ChunksOf(Batch(p)) \subseteq publications[p].upserted \cup publications[p].existing
EndsBatch(p) ==
  /\ Phase(p, "upserting") /\ publications[p].at > Len(Batch(p)) /\ WholeBatch(p)
  /\ Course(p, IF publications[p].batch < Len(BatchesOf[p])
               THEN [publications[p] EXCEPT !.phase = "lookup", !.batch = @ + 1]
               ELSE [publications[p] EXCEPT !.phase = "stale"])
  /\ UNCHANGED <<vectorRows, written, locker, lastPublished>>

(* DELETE_STALE_SQL, and the commit of the completion.                     *)
Stale(p) == {k \in Chunk : FoundRow(p, k) # NoRow /\ FoundRow(p, k).version = VersionOf[p] /\ FoundRow(p, k).job # p}
Commits(p) ==
  LET after == [k \in Chunk |-> IF k \in Stale(p) THEN NoRow ELSE FoundRow(p, k)]
  IN /\ Phase(p, "stale") /\ \A k \in Stale(p) : Free(p, k)
     /\ vectorRows' = after
     /\ lastPublished' = [lastPublished EXCEPT ![VersionOf[p]] = p]
     /\ Course(p, [NotPublishing EXCEPT !.phase = "committed"])
     /\ written' = [written EXCEPT ![p] = [k \in {} |-> NoRow]]
     /\ locker' = [k \in Chunk |-> IF locker[k] = p THEN NoPublication ELSE locker[k]]

(* A conflict, a deadlock, any other failure: the transaction rolls back.  *)
VectorsRollBack(p) ==
  /\ Running(p)
  /\ Course(p, [NotPublishing EXCEPT !.phase = "failed"])
  /\ written' = [written EXCEPT ![p] = [k \in {} |-> NoRow]]
  /\ locker' = [k \in Chunk |-> IF locker[k] = p THEN NoPublication ELSE locker[k]]
  /\ UNCHANGED <<vectorRows, lastPublished>>

VectorNext ==
  \E p \in Publication :
    \/ LocksVersion(p) \/ LooksUp(p) \/ LookedUp(p) \/ Upserts(p) \/ EndsBatch(p) \/ Commits(p) \/ VectorsRollBack(p)
    \/ \E k \in Chunk : LocksVectorRow(p, k)

VectorSpec == VectorInit /\ [][VectorNext]_vectorVars

-------------------------------------------------------------------------------
(* What searchPublic can find of a version is one whole generation: every  *)
(* record of the publication that committed last, each with its text, and  *)
(* none of an earlier one, however publications of other versions meet it  *)
(* on its chunks; a row that a transaction has written stays its own until *)
(* the transaction ends.                                                   *)
GenerationsHold ==
  /\ \A v \in Versions :
       LET p == lastPublished[v]
           found == {k \in Chunk : vectorRows[k] # NoRow /\ vectorRows[k].version = v}
       IN IF p = NoPublication THEN found = {}
          ELSE /\ found = {r.chunk : r \in Records(p)}
               /\ \A r \in Records(p) : vectorRows[r.chunk] = RowOf(p, r)
  /\ \A p \in Publication : \A k \in DOMAIN written[p] : locker[k] = p
===============================================================================
