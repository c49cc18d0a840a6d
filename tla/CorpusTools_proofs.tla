-------------------------- MODULE CorpusTools_proofs ---------------------------
(***************************************************************************)
(* Proofs about the vectors of a tenant (TenantVectors) and the tools of   *)
(* the operators: the staging runner (StagingRun), the acquisition of      *)
(* pages (HtmlAcquisition), the workers that extract PDFs (PdfExtraction), *)
(* the runs over a corpus with its backfill (CorpusRuns) and the document  *)
(* library (DocumentLibrary), for any number of publications, runs,        *)
(* sources, calls, inspections, contents, hours and crashes.               *)
(***************************************************************************)
EXTENDS TenantVectors, StagingRun, OperatorTools, FiniteSetTheorems,
        WellFoundedInduction, TLAPS


-------------------------------------------------------------------------------
(***************************************************************************)
(* TenantVectors                                                           *)
(***************************************************************************)

Courses ==
  [phase : {"before", "begun", "lookup", "locking", "upserting", "stale", "committed", "failed"},
   batch : Nat, wanted : SUBSET Chunk, existing : SUBSET Chunk, upserted : SUBSET Chunk, at : Nat]

(***************************************************************************)
(* The inductive invariant, in parts                                       *)
(***************************************************************************)
Columns ==
  /\ vectorRows \in [Chunk -> VectorRow]
  /\ locker \in [Chunk -> Publication \cup {NoPublication}]
  /\ lastPublished \in [Versions -> Publication \cup {NoPublication}]
  /\ publications \in [Publication -> Courses]
  /\ written = [p \in Publication |-> written[p]]

\* A row that a transaction wrote is one of its records, is locked by it, and
\* hides no row of another version.
Writes(p) ==
  /\ \A k \in DOMAIN written[p] :
       /\ k \in Chunk /\ locker[k] = p
       /\ \E r \in Records(p) : r.chunk = k /\ written[p][k] = RowOf(p, r)
       /\ vectorRows[k] = NoRow \/ vectorRows[k].version = VersionOf[p]
  /\ \A k \in Chunk : locker[k] = p => Running(p)

\* The batches before the current one are written, and of the current one every
\* record that was there or that the upsert has passed and returned.
BatchDone(p, i) == \A j \in 1..Len(BatchesOf[p][i]) : BatchesOf[p][i][j].chunk \in DOMAIN written[p]
Progress(p) ==
  /\ publications[p].batch \in 1..Len(BatchesOf[p])
  /\ \A i \in 1..publications[p].batch : i < publications[p].batch => BatchDone(p, i)
  /\ Phase(p, "locking") \/ Phase(p, "upserting") =>
       \A k \in publications[p].existing : locker[k] = p
  /\ Phase(p, "locking") => publications[p].at = 1 /\ publications[p].upserted = {}
  /\ Phase(p, "upserting") =>
       /\ publications[p].at > 0
       /\ publications[p].upserted \subseteq DOMAIN written[p]
       /\ \A k \in publications[p].existing : FoundRow(p, k).version = VersionOf[p]
       /\ \A j \in 1..Len(Batch(p)) :
            j < publications[p].at /\ Batch(p)[j].chunk \in publications[p].existing
              => Batch(p)[j].chunk \in publications[p].upserted
  /\ Phase(p, "stale") => \A i \in 1..Len(BatchesOf[p]) : BatchDone(p, i)
Fits(p) == Writes(p) /\ (Running(p) => Progress(p))

OneEach ==
  \A p, q \in Publication : Running(p) /\ Running(q) /\ VersionOf[p] = VersionOf[q] => p = q

\* What is committed is of the publication that committed last, and whole.
Committed ==
  /\ \A v \in Versions : lastPublished[v] # NoPublication =>
       /\ Phase(lastPublished[v], "committed") /\ VersionOf[lastPublished[v]] = v
       /\ \A r \in Records(lastPublished[v]) : vectorRows[r.chunk] = RowOf(lastPublished[v], r)
  /\ \A k \in Chunk : vectorRows[k] # NoRow =>
       /\ lastPublished[vectorRows[k].version] = vectorRows[k].job
       /\ \E r \in Records(vectorRows[k].job) : r.chunk = k

VectorInv ==
  /\ Columns /\ OneEach /\ Committed
  /\ \A p \in Publication : Fits(p)
-----------------------------------------------------------------------------
(***************************************************************************)
(* Publications, records and rows                                          *)
(***************************************************************************)
\* A record is the one at some place of some batch.
LEMMA RecordsAre ==
  ASSUME NEW p \in Publication
  PROVE  /\ \A i \in 1..Len(BatchesOf[p]) :
              /\ BatchesOf[p][i] \in Seq([chunk : Chunk, text : Text])
              /\ Len(BatchesOf[p][i]) \in Nat
              /\ \A j \in 1..Len(BatchesOf[p][i]) :
                   BatchesOf[p][i][j] \in Records(p) /\ BatchesOf[p][i][j] \in [chunk : Chunk, text : Text]
         /\ \A r \in Records(p) : \E i \in 1..Len(BatchesOf[p]) : \E j \in 1..Len(BatchesOf[p][i]) :
              r = BatchesOf[p][i][j]
         /\ Len(BatchesOf[p]) \in Nat /\ Len(BatchesOf[p]) > 0
<1>1. BatchesOf[p] \in Seq(Seq([chunk : Chunk, text : Text])) /\ Len(BatchesOf[p]) > 0
  BY PreparedRecords
<1>2. ASSUME NEW i \in 1..Len(BatchesOf[p])
      PROVE  /\ BatchesOf[p][i] \in Seq([chunk : Chunk, text : Text])
             /\ Len(BatchesOf[p][i]) \in Nat
             /\ ToSet(BatchesOf[p][i]) = {BatchesOf[p][i][j] : j \in 1..Len(BatchesOf[p][i])}
             /\ \A j \in 1..Len(BatchesOf[p][i]) : BatchesOf[p][i][j] \in [chunk : Chunk, text : Text]
  <2>0. PICK T : T = [chunk : Chunk, text : Text]
    OBVIOUS
  <2>1. PICK b \in Seq(T) : b = BatchesOf[p][i]
    BY <1>1, <2>0
  <2>2. /\ Len(b) \in Nat /\ DOMAIN b = 1..Len(b)
        /\ \A j \in 1..Len(b) : b[j] \in T
    OBVIOUS
  <2>3. ToSet(b) = {b[j] : j \in 1..Len(b)}
    BY <2>2 DEF ToSet
  <2> QED
    BY <2>0, <2>1, <2>2, <2>3
<1>3. \A r : r \in Records(p) <=>
        \E i \in 1..Len(BatchesOf[p]) : r \in ToSet(BatchesOf[p][i])
  BY DEF Records
<1>4. Len(BatchesOf[p]) \in Nat
  BY <1>1
<1>5. ASSUME NEW i \in 1..Len(BatchesOf[p]), NEW j \in 1..Len(BatchesOf[p][i])
      PROVE  BatchesOf[p][i][j] \in Records(p)
  BY <1>2, <1>3
<1>6. ASSUME NEW r \in Records(p)
      PROVE  \E i \in 1..Len(BatchesOf[p]) : \E j \in 1..Len(BatchesOf[p][i]) : r = BatchesOf[p][i][j]
  <2>1. PICK i \in 1..Len(BatchesOf[p]) : r \in ToSet(BatchesOf[p][i])
    BY <1>3
  <2> QED
    BY <1>2, <2>1
<1> QED
  BY <1>1, <1>2, <1>4, <1>5, <1>6

\* A record has a chunk and a text, and a row that is written of it is a row.
LEMMA RowIs ==
  ASSUME NEW p \in Publication, NEW r \in Records(p)
  PROVE  /\ r.chunk \in Chunk /\ r.text \in Text /\ VersionOf[p] \in Versions
         /\ RowOf(p, r) \in VectorRow /\ RowOf(p, r) # NoRow
         /\ RowOf(p, r).version = VersionOf[p] /\ RowOf(p, r).job = p
<1>1. r.chunk \in Chunk /\ r.text \in Text /\ VersionOf[p] \in Versions
  BY DEF Chunk, Text, Versions
<1>2. RowOf(p, r) \in [version : Versions, job : Publication, text : Text]
  BY <1>1 DEF RowOf
<1> QED
  BY <1>1, <1>2, PreparedRecords DEF VectorRow, RowOf

\* The batch of a running publication is one of its batches.
LEMMA BatchIs ==
  ASSUME VectorInv, NEW p \in Publication, Running(p)
  PROVE  /\ publications[p].batch \in 1..Len(BatchesOf[p])
         /\ Batch(p) = BatchesOf[p][publications[p].batch]
         /\ Len(Batch(p)) \in Nat
         /\ \A j \in 1..Len(Batch(p)) : Batch(p)[j] \in Records(p) /\ Batch(p)[j].chunk \in Chunk
         /\ ChunksOf(Batch(p)) \subseteq Chunk
<1>1. publications[p].batch \in 1..Len(BatchesOf[p])
  BY DEF VectorInv, Fits, Progress
<1>2. PICK b : b = BatchesOf[p][publications[p].batch]
  OBVIOUS
<1>3. Len(b) \in Nat /\ \A j \in 1..Len(b) : b[j] \in Records(p)
  BY <1>1, <1>2, RecordsAre
<1>4. \A j \in 1..Len(b) : b[j].chunk \in Chunk
  BY <1>3, RowIs
<1>5. Batch(p) = b
  BY <1>2 DEF Batch
<1> QED
  BY <1>1, <1>2, <1>3, <1>4, <1>5 DEF ChunksOf
-----------------------------------------------------------------------------
(***************************************************************************)
(* What a step leaves as it is                                             *)
(***************************************************************************)
\* A publication fits as long as its course, its rows and its locks are its own.
LEMMA OtherFits ==
  ASSUME VectorInv, NEW q \in Publication,
         publications'[q] = publications[q], written'[q] = written[q],
         \A k \in Chunk : locker[k] = q => locker'[k] = q /\ vectorRows'[k] = vectorRows[k],
         \A k \in Chunk : locker'[k] = q => locker[k] = q
  PROVE  Fits(q)'
<1>1. Fits(q) /\ publications[q] \in Courses
  BY DEF VectorInv, Columns
<1>2. Running(q)' <=> Running(q)
  BY DEF Running
<1>3. Writes(q)'
  BY <1>1, <1>2 DEF Fits, Writes, RowOf
<1>4. ASSUME Running(q) PROVE Progress(q)'
  <2>1. Progress(q)
    BY <1>1, <1>4 DEF Fits
  <2>2. Batch(q)' = Batch(q) /\ \A ph : Phase(q, ph)' <=> Phase(q, ph)
    BY DEF Batch, Phase
  <2>3. \A i : BatchDone(q, i)' <=> BatchDone(q, i)
    BY DEF BatchDone
  <2>4. ASSUME Phase(q, "upserting"), NEW k \in publications[q].existing
        PROVE  FoundRow(q, k)' = FoundRow(q, k)
    <3>1. locker[k] = q /\ k \in Chunk
      BY <1>1, <2>1, <2>4 DEF Progress, Courses
    <3> QED
      BY <3>1 DEF FoundRow
  <2>5. Phase(q, "locking") \/ Phase(q, "upserting") => \A k \in publications[q].existing : locker'[k] = q
    <3>1. publications[q].existing \subseteq Chunk
      BY <1>1 DEF Courses
    <3> QED
      BY <2>1, <3>1 DEF Progress
  <2> QED
    BY <2>1, <2>2, <2>3, <2>4, <2>5 DEF Progress
<1> QED
  BY <1>2, <1>3, <1>4 DEF Fits

\* A step of p before its end: rows that are committed stay, p takes or keeps locks.
Midway(p, c) ==
  /\ Running(p) /\ c \in Courses /\ publications' = [publications EXCEPT ![p] = c]
  /\ c.phase \in {"lookup", "locking", "upserting", "stale"}
  /\ vectorRows' = vectorRows /\ lastPublished' = lastPublished
  /\ locker' \in [Chunk -> Publication \cup {NoPublication}]
  /\ \A k \in Chunk : locker'[k] = locker[k] \/ (locker'[k] = p /\ Free(p, k))
  /\ \A q \in Publication \ {p} : written'[q] = written[q]
  /\ written' = [q \in Publication |-> written'[q]]

\* A step before the end keeps the invariant if the publication itself still fits.
LEMMA MidwayKeeps ==
  ASSUME VectorInv, NEW p \in Publication, NEW c, Midway(p, c), Writes(p)', Progress(p)'
  PROVE  VectorInv'
<1>1. /\ Columns /\ OneEach /\ Committed /\ \A q \in Publication : Fits(q)
  BY DEF VectorInv
<1>2. /\ publications' \in [Publication -> Courses]
      /\ publications'[p] = c /\ \A q \in Publication \ {p} : publications'[q] = publications[q]
  BY <1>1 DEF Columns, Midway
<1>3. Columns'
  BY <1>1, <1>2 DEF Columns, Midway
<1>4. \A q \in Publication : Running(q)' <=> Running(q)
  BY <1>2 DEF Midway, Running
<1>5. OneEach'
  BY <1>1, <1>4 DEF OneEach
<1>6. Committed'
  <2>1. \A q \in Publication : Phase(q, "committed") => Phase(q, "committed")'
    BY <1>2 DEF Midway, Running, Phase
  <2>2. \A v \in Versions : lastPublished[v] \in Publication \cup {NoPublication}
    BY <1>1 DEF Columns
  <2> QED
    BY <1>1, <2>1, <2>2 DEF Committed, Midway, RowOf
<1>7. ASSUME NEW q \in Publication, q # p PROVE Fits(q)'
  <2>1. q # NoPublication
    BY PreparedRecords
  <2>2. \A k \in Chunk : locker[k] = q => locker'[k] = q /\ vectorRows'[k] = vectorRows[k]
    BY <1>7, <2>1 DEF Midway, Free
  <2>3. \A k \in Chunk : locker'[k] = q => locker[k] = q
    BY <1>7 DEF Midway
  <2>4. publications'[q] = publications[q] /\ written'[q] = written[q]
    BY <1>2, <1>7 DEF Midway
  <2> QED
    BY <2>2, <2>3, <2>4, OtherFits
<1>8. Fits(p)'
  BY DEF Fits
<1> QED
  BY <1>3, <1>5, <1>6, <1>7, <1>8 DEF VectorInv

\* A step of p that writes no row.
LEMMA SameWrites ==
  ASSUME VectorInv, NEW p \in Publication, NEW c, Midway(p, c), written' = written
  PROVE  Writes(p)'
<1>1. Columns /\ Writes(p)
  BY DEF VectorInv, Fits
<1>2. publications'[p] = c
  BY <1>1 DEF Columns, Midway
<1>3. Running(p)'
  BY <1>2 DEF Midway, Running
<1>4. \A k \in Chunk : locker[k] = p => locker'[k] = p
  BY DEF Midway
<1> QED
  BY <1>1, <1>3, <1>4 DEF Writes, RowOf, Midway

-----------------------------------------------------------------------------
(***************************************************************************)
(* The steps                                                               *)
(***************************************************************************)
\* Beginning to lock the rows of a batch.
LEMMA StepLooksUp ==
  ASSUME VectorInv, NEW p \in Publication, LooksUp(p)
  PROVE  VectorInv'
<1>1. Columns /\ Fits(p)
  BY DEF VectorInv
<1>2. Running(p) /\ Progress(p)
  BY <1>1 DEF LooksUp, Phase, Running, Fits
<1>3. PICK w : w = {k \in ChunksOf(Batch(p)) : FoundRow(p, k) # NoRow}
  OBVIOUS
<1>4. w \subseteq Chunk
  BY <1>2, <1>3, BatchIs
<1>5. PICK o \in Courses : o = publications[p]
  BY <1>1 DEF Columns
<1>6. PICK c : c = [o EXCEPT !.phase = "locking", !.existing = {}, !.upserted = {}, !.at = 1, !.wanted = w]
  OBVIOUS
<1>7. /\ c \in Courses /\ c.phase = "locking" /\ c.existing = {} /\ c.upserted = {}
      /\ c.at = 1 /\ c.batch = o.batch
  BY <1>4, <1>5, <1>6 DEF Courses
<1>8. publications' = [publications EXCEPT ![p] = c]
  BY <1>3, <1>5, <1>6 DEF LooksUp, Course
<1>9. Midway(p, c)
  BY <1>1, <1>2, <1>7, <1>8 DEF Midway, LooksUp, Columns
<1>10. publications'[p] = c
  BY <1>1, <1>8 DEF Columns
<1>11. Progress(p)'
  <2>1. \A i : BatchDone(p, i)' <=> BatchDone(p, i)
    BY DEF BatchDone, LooksUp
  <2> QED
    BY <1>2, <1>5, <1>7, <1>10, <2>1 DEF Progress, Phase
<1>12. Writes(p)'
  BY <1>9, SameWrites DEF LooksUp
<1> QED
  BY <1>9, <1>11, <1>12, MidwayKeeps

\* Locking a row that the lookup found.
LEMMA StepLocksVectorRow ==
  ASSUME VectorInv, NEW p \in Publication, NEW k \in Chunk, LocksVectorRow(p, k)
  PROVE  VectorInv'
<1>1. Columns /\ Fits(p)
  BY DEF VectorInv
<1>2. Running(p) /\ Progress(p)
  BY <1>1 DEF LocksVectorRow, Phase, Running, Fits
<1>3. PICK o \in Courses : o = publications[p]
  BY <1>1 DEF Columns
<1>4. PICK e \in SUBSET Chunk : e = IF FoundRow(p, k) = NoRow THEN o.existing ELSE o.existing \cup {k}
  BY <1>3 DEF Courses
<1>5. PICK c : c = [o EXCEPT !.wanted = o.wanted \ {k}, !.existing = e]
  OBVIOUS
<1>6. /\ c \in Courses /\ c.phase = o.phase /\ c.existing = e /\ c.upserted = o.upserted
      /\ c.at = o.at /\ c.batch = o.batch
  BY <1>3, <1>4, <1>5 DEF Courses
<1>7. publications' = [publications EXCEPT ![p] = c]
  BY <1>3, <1>4, <1>5 DEF LocksVectorRow, Course
<1>8. locker' = (IF FoundRow(p, k) = NoRow THEN locker ELSE [locker EXCEPT ![k] = p]) /\ Free(p, k)
      /\ o.phase = "locking"
  BY <1>3 DEF LocksVectorRow, Phase
<1>9. /\ locker' \in [Chunk -> Publication \cup {NoPublication}]
      /\ \A m \in Chunk : locker'[m] = locker[m] \/ (locker'[m] = p /\ Free(p, m))
  BY <1>1, <1>8 DEF Columns
<1>10. Midway(p, c)
  BY <1>1, <1>2, <1>6, <1>7, <1>8, <1>9 DEF Midway, LocksVectorRow, Columns
<1>11. publications'[p] = c
  BY <1>1, <1>7 DEF Columns
<1>12. Progress(p)'
  <2>1. \A i : BatchDone(p, i)' <=> BatchDone(p, i)
    BY DEF BatchDone, LocksVectorRow
  <2>2. \A m \in e : locker'[m] = p
    <3>1. \A m \in o.existing : locker[m] = p /\ m \in Chunk
      BY <1>2, <1>3, <1>8 DEF Progress, Phase, Courses
    <3> QED
      BY <1>1, <1>4, <1>8, <3>1 DEF Columns
  <2> QED
    BY <1>2, <1>3, <1>6, <1>8, <1>11, <2>1, <2>2 DEF Progress, Phase
<1>13. Writes(p)'
  BY <1>10, SameWrites DEF LocksVectorRow
<1> QED
  BY <1>10, <1>12, <1>13, MidwayKeeps

\* All rows of the batch that were found are locked, and of the version.
LEMMA StepLookedUp ==
  ASSUME VectorInv, NEW p \in Publication, LookedUp(p)
  PROVE  VectorInv'
<1>1. Columns /\ Fits(p)
  BY DEF VectorInv
<1>2. Running(p) /\ Progress(p)
  BY <1>1 DEF LookedUp, Phase, Running, Fits
<1>3. PICK o \in Courses : o = publications[p]
  BY <1>1 DEF Columns
<1>4. PICK c : c = [o EXCEPT !.phase = "upserting"]
  OBVIOUS
<1>5. /\ c \in Courses /\ c.phase = "upserting" /\ c.existing = o.existing /\ c.upserted = o.upserted
      /\ c.at = o.at /\ c.batch = o.batch
  BY <1>3, <1>4 DEF Courses
<1>6. publications' = [publications EXCEPT ![p] = c]
  BY <1>3, <1>4 DEF LookedUp, Course
<1>7. Midway(p, c)
  BY <1>1, <1>2, <1>5, <1>6 DEF Midway, LookedUp, Columns
<1>8. publications'[p] = c
  BY <1>1, <1>6 DEF Columns
<1>9. Progress(p)'
  <2>1. \A i : BatchDone(p, i)' <=> BatchDone(p, i)
    BY DEF BatchDone, LookedUp
  <2>2. \A k : FoundRow(p, k)' = FoundRow(p, k)
    BY DEF FoundRow, LookedUp
  <2>3. o.phase = "locking" /\ o.at = 1 /\ o.upserted = {}
    BY <1>2, <1>3 DEF Progress, Phase, LookedUp
  <2>4. \A k \in o.existing : FoundRow(p, k).version = VersionOf[p] /\ locker[k] = p
    BY <1>2, <1>3 DEF LookedUp, Unbound, Progress
  <2>5. Batch(p)' = Batch(p) /\ Len(Batch(p)) \in Nat
    BY <1>2, <1>3, <1>5, <1>8, BatchIs DEF Batch
  <2> QED
    BY <1>2, <1>3, <1>5, <1>8, <2>1, <2>2, <2>3, <2>4, <2>5 DEF Progress, Phase, LookedUp
<1>10. Writes(p)'
  BY <1>7, SameWrites DEF LookedUp
<1> QED
  BY <1>7, <1>9, <1>10, MidwayKeeps

\* Writing one row of the batch, or passing the row of another version.
LEMMA StepUpserts ==
  ASSUME VectorInv, NEW p \in Publication, Upserts(p)
  PROVE  VectorInv'
<1>1. Columns /\ Fits(p)
  BY DEF VectorInv
<1>2. Running(p) /\ Progress(p) /\ Writes(p) /\ Phase(p, "upserting")
  BY <1>1 DEF Upserts, Phase, Running, Fits
<1>3. PICK o \in Courses : o = publications[p]
  BY <1>1 DEF Columns
<1>4. PICK b : b = Batch(p)
  OBVIOUS
<1>5. /\ o.at \in Nat /\ o.at > 0 /\ o.at <= Len(b) /\ Len(b) \in Nat /\ o.phase = "upserting"
      /\ \A j \in 1..Len(b) : b[j] \in Records(p) /\ b[j].chunk \in Chunk
  BY <1>2, <1>3, <1>4, BatchIs DEF Progress, Upserts, Courses, Phase
<1>6. PICK r \in Records(p) : r = b[o.at]
  BY <1>5
<1>7. PICK k \in Chunk : k = r.chunk
  BY RowIs
<1>8. PICK ours \in BOOLEAN : ours = (FoundRow(p, k) = NoRow \/ FoundRow(p, k).version = VersionOf[p])
  OBVIOUS
<1>9. PICK u \in SUBSET Chunk : u = IF ours THEN o.upserted \cup {k} ELSE o.upserted
  BY <1>3 DEF Courses
<1>10. PICK c : c = [o EXCEPT !.at = o.at + 1, !.upserted = u]
  OBVIOUS
<1>11. /\ c \in Courses /\ c.phase = o.phase /\ c.existing = o.existing /\ c.upserted = u
       /\ c.at = o.at + 1 /\ c.batch = o.batch
  <2>1. PICK n \in Nat : n = o.at + 1
    BY <1>5
  <2>2. c = [o EXCEPT !.at = n, !.upserted = u]
    BY <1>10, <2>1
  <2>3. /\ c \in Courses /\ c.phase = o.phase /\ c.existing = o.existing /\ c.upserted = u
        /\ c.at = n /\ c.batch = o.batch
    BY <1>3, <1>9, <2>1, <2>2 DEF Courses
  <2> QED
    BY <2>1, <2>3
<1>12. /\ publications' = [publications EXCEPT ![p] = c]
       /\ locker' = [locker EXCEPT ![k] = p] /\ Free(p, k)
       /\ ours => written' = [written EXCEPT ![p] = [m \in DOMAIN written[p] \cup {k} |->
                                IF m = k THEN RowOf(p, r) ELSE written[p][m]]]
       /\ ~ours => written' = written
       /\ vectorRows' = vectorRows /\ lastPublished' = lastPublished
  <2>1. Batch(p)[publications[p].at] = r /\ Batch(p)[publications[p].at].chunk = k
    BY <1>3, <1>4, <1>6, <1>7
  <2>2. Course(p, [publications[p] EXCEPT !.at = @ + 1, !.upserted = IF ours THEN @ \cup {k} ELSE @])
    BY <1>8, <2>1 DEF Upserts
  <2>3. publications' = [publications EXCEPT ![p] = c]
    BY <1>3, <1>9, <1>10, <2>2 DEF Course
  <2> QED
    BY <1>8, <2>1, <2>3 DEF Upserts
<1>13. /\ locker' \in [Chunk -> Publication \cup {NoPublication}] /\ locker'[k] = p
       /\ \A m \in Chunk : locker'[m] = locker[m] \/ (locker'[m] = p /\ Free(p, m))
       /\ \A m \in Chunk : locker[m] = p => locker'[m] = p
  BY <1>1, <1>12 DEF Columns
<1>14. /\ \A q \in Publication \ {p} : written'[q] = written[q]
       /\ written' = [q \in Publication |-> written'[q]]
       /\ DOMAIN written'[p] = IF ours THEN DOMAIN written[p] \cup {k} ELSE DOMAIN written[p]
       /\ \A m \in DOMAIN written'[p] :
            written'[p][m] = IF ours /\ m = k THEN RowOf(p, r) ELSE written[p][m]
  <2>1. CASE ours
    BY <1>1, <1>12, <2>1 DEF Columns
  <2>2. CASE ~ours
    BY <1>1, <1>12, <2>2 DEF Columns
  <2> QED
    BY <2>1, <2>2
<1>15. Midway(p, c)
  BY <1>1, <1>2, <1>5, <1>11, <1>12, <1>13, <1>14 DEF Midway, Columns
<1>16. publications'[p] = c
  BY <1>1, <1>12 DEF Columns
<1>17. Writes(p)'
  <2>1. Running(p)'
    BY <1>5, <1>11, <1>16 DEF Running
  <2>2. ASSUME NEW m \in DOMAIN written'[p]
        PROVE  /\ m \in Chunk /\ locker'[m] = p
               /\ \E s \in Records(p) : s.chunk = m /\ written'[p][m] = RowOf(p, s)
               /\ vectorRows[m] = NoRow \/ vectorRows[m].version = VersionOf[p]
    <3>1. CASE m \in DOMAIN written[p] /\ ~(ours /\ m = k)
      <4>1. written'[p][m] = written[p][m]
        BY <1>14, <2>2, <3>1
      <4> QED
        BY <1>2, <1>13, <3>1, <4>1 DEF Writes
    <3>2. CASE ours /\ m = k
      <4>1. written'[p][m] = RowOf(p, r) /\ r.chunk = m
        BY <1>7, <1>14, <2>2, <3>2
      <4>2. vectorRows[m] = NoRow \/ vectorRows[m].version = VersionOf[p]
        BY <1>2, <1>8, <3>2 DEF FoundRow, Writes
      <4> QED
        BY <1>13, <3>2, <4>1, <4>2
    <3> QED
      BY <1>14, <2>2, <3>1, <3>2
  <2> QED
    BY <1>12, <2>1, <2>2 DEF Writes, RowOf
<1>18. Progress(p)'
  <2>1. ASSUME NEW i, BatchDone(p, i) PROVE BatchDone(p, i)'
    BY <1>14, <2>1 DEF BatchDone
  <2>2. Batch(p)' = b
    BY <1>3, <1>4, <1>11, <1>16 DEF Batch
  <2>3. u \subseteq DOMAIN written'[p]
    BY <1>2, <1>3, <1>9, <1>14 DEF Progress
  <2>4. ASSUME NEW m \in o.existing
        PROVE  locker'[m] = p /\ (IF m \in DOMAIN written'[p] THEN written'[p][m] ELSE vectorRows[m]).version = VersionOf[p]
    <3>1. m \in Chunk /\ locker[m] = p /\ FoundRow(p, m).version = VersionOf[p]
      BY <1>2, <1>3, <2>4 DEF Progress, Courses
    <3>2. RowOf(p, r).version = VersionOf[p]
      BY RowIs
    <3> QED
      BY <1>13, <1>14, <3>1, <3>2 DEF FoundRow
  <2>5. ASSUME NEW j \in 1..Len(b), j < o.at + 1, b[j].chunk \in o.existing
        PROVE  b[j].chunk \in u
    <3>1. CASE j < o.at
      BY <1>2, <1>3, <1>4, <1>9, <2>5, <3>1 DEF Progress
    <3>2. CASE j = o.at
      <4>1. b[j].chunk = k
        BY <1>6, <1>7, <3>2
      <4>2. FoundRow(p, k).version = VersionOf[p]
        BY <1>2, <1>3, <2>5, <4>1 DEF Progress
      <4> QED
        BY <1>8, <1>9, <4>1, <4>2
    <3> QED
      BY <1>5, <2>5, <3>1, <3>2
  <2>6. \A i \in 1..o.batch : i < o.batch => BatchDone(p, i)'
    BY <1>2, <1>3, <2>1 DEF Progress
  <2>7. o.batch \in 1..Len(BatchesOf[p])
    BY <1>2, <1>3 DEF Progress
  <2> QED
    BY <1>5, <1>11, <1>12, <1>16, <2>2, <2>3, <2>4, <2>5, <2>6, <2>7 DEF Progress, Phase, FoundRow
<1> QED
  BY <1>15, <1>17, <1>18, MidwayKeeps

\* The end of a batch whose records were all written or there before.
LEMMA StepEndsBatch ==
  ASSUME VectorInv, NEW p \in Publication, EndsBatch(p)
  PROVE  VectorInv'
<1>1. Columns /\ Fits(p)
  BY DEF VectorInv
<1>2. Running(p) /\ Progress(p) /\ Phase(p, "upserting")
  BY <1>1 DEF EndsBatch, Phase, Running, Fits
<1>3. PICK o \in Courses : o = publications[p]
  BY <1>1 DEF Columns
<1>4. /\ o.batch \in 1..Len(BatchesOf[p]) /\ Len(Batch(p)) \in Nat
      /\ Batch(p) = BatchesOf[p][o.batch] /\ Len(BatchesOf[p]) \in Nat
      /\ o.at \in Nat /\ o.at > Len(Batch(p))
  BY <1>2, <1>3, BatchIs, RecordsAre DEF EndsBatch, Courses
<1>5. BatchDone(p, o.batch)
  <2>1. ASSUME NEW j \in 1..Len(Batch(p)) PROVE Batch(p)[j].chunk \in DOMAIN written[p]
    <3>1. Batch(p)[j].chunk \in o.upserted \cup o.existing
      BY <1>3 DEF EndsBatch, WholeBatch, ChunksOf
    <3>2. Batch(p)[j].chunk \in o.upserted
      BY <1>2, <1>3, <1>4, <3>1 DEF Progress
    <3> QED
      BY <1>2, <1>3, <3>2 DEF Progress
  <2> QED
    BY <1>4, <2>1 DEF BatchDone
<1>6. \A i \in 1..Len(BatchesOf[p]) : i <= o.batch => BatchDone(p, i)
  BY <1>2, <1>3, <1>4, <1>5 DEF Progress
<1>7. \A i : BatchDone(p, i)' <=> BatchDone(p, i)
  BY DEF BatchDone, EndsBatch
<1>8. CASE o.batch < Len(BatchesOf[p])
  <2>1. PICK c : c = [o EXCEPT !.phase = "lookup", !.batch = o.batch + 1]
    OBVIOUS
  <2>2. c \in Courses /\ c.phase = "lookup" /\ c.batch = o.batch + 1
    <3>1. PICK n \in Nat : n = o.batch + 1
      BY <1>4
    <3>2. c = [o EXCEPT !.phase = "lookup", !.batch = n]
      BY <2>1, <3>1
    <3>3. c \in Courses /\ c.phase = "lookup" /\ c.batch = n
      BY <1>3, <3>1, <3>2 DEF Courses
    <3> QED
      BY <3>1, <3>3
  <2>3. publications' = [publications EXCEPT ![p] = c]
    BY <1>3, <1>8, <2>1 DEF EndsBatch, Course
  <2>4. Midway(p, c)
    BY <1>1, <1>2, <2>2, <2>3 DEF Midway, EndsBatch, Columns
  <2>5. publications'[p] = c
    BY <1>1, <2>3 DEF Columns
  <2>6. Progress(p)'
    BY <1>4, <1>6, <1>7, <1>8, <2>2, <2>5 DEF Progress, Phase
  <2>7. Writes(p)'
    BY <2>4, SameWrites DEF EndsBatch
  <2> QED
    BY <2>4, <2>6, <2>7, MidwayKeeps
<1>9. CASE o.batch >= Len(BatchesOf[p])
  <2>1. PICK c : c = [o EXCEPT !.phase = "stale"]
    OBVIOUS
  <2>2. c \in Courses /\ c.phase = "stale" /\ c.batch = o.batch
    BY <1>3, <2>1 DEF Courses
  <2>3. publications' = [publications EXCEPT ![p] = c]
    <3>1. ~(publications[p].batch < Len(BatchesOf[p]))
      BY <1>3, <1>4, <1>9
    <3>2. Course(p, [publications[p] EXCEPT !.phase = "stale"])
      BY <3>1 DEF EndsBatch
    <3> QED
      BY <1>3, <2>1, <3>2 DEF Course
  <2>4. Midway(p, c)
    BY <1>1, <1>2, <2>2, <2>3 DEF Midway, EndsBatch, Columns
  <2>5. publications'[p] = c
    BY <1>1, <2>3 DEF Columns
  <2>6. Progress(p)'
    BY <1>4, <1>6, <1>7, <1>9, <2>2, <2>5 DEF Progress, Phase
  <2>7. Writes(p)'
    BY <2>4, SameWrites DEF EndsBatch
  <2> QED
    BY <2>4, <2>6, <2>7, MidwayKeeps
<1> QED
  BY <1>4, <1>8, <1>9

\* A publication that ends gives up its locks and its rows.
LEMMA EndFits ==
  ASSUME VectorInv, NEW p \in Publication, NEW c \in Courses,
         c.phase \in {"committed", "failed"},
         publications' = [publications EXCEPT ![p] = c],
         written' = [written EXCEPT ![p] = [k \in {} |-> NoRow]],
         locker' = [k \in Chunk |-> IF locker[k] = p THEN NoPublication ELSE locker[k]],
         \A k \in Chunk : vectorRows'[k] = vectorRows[k] \/ locker[k] \in {p, NoPublication}
  PROVE  /\ \A q \in Publication : Fits(q)'
         /\ OneEach'
         /\ publications' \in [Publication -> Courses]
         /\ locker' \in [Chunk -> Publication \cup {NoPublication}]
         /\ written' = [q \in Publication |-> written'[q]]
         /\ publications'[p] = c /\ \A q \in Publication \ {p} : publications'[q] = publications[q]
<1>1. Columns /\ OneEach /\ p # NoPublication
  BY PreparedRecords DEF VectorInv
<1>2. /\ publications' \in [Publication -> Courses]
      /\ publications'[p] = c /\ \A q \in Publication \ {p} : publications'[q] = publications[q]
  BY <1>1 DEF Columns
<1>3. /\ written' = [q \in Publication |-> written'[q]]
      /\ DOMAIN written'[p] = {} /\ \A q \in Publication \ {p} : written'[q] = written[q]
  BY <1>1 DEF Columns
<1>4. locker' \in [Chunk -> Publication \cup {NoPublication}]
      /\ \A k \in Chunk : locker'[k] = IF locker[k] = p THEN NoPublication ELSE locker[k]
  BY <1>1 DEF Columns
<1>5. ~Running(p)'
  BY <1>2 DEF Running
<1>6. Fits(p)'
  <2>1. \A k \in Chunk : locker'[k] # p
    BY <1>1, <1>4
  <2> QED
    BY <1>3, <1>5, <2>1 DEF Fits, Writes
<1>7. ASSUME NEW q \in Publication, q # p PROVE Fits(q)'
  <2>1. q # NoPublication
    BY PreparedRecords
  <2> QED
    BY <1>2, <1>3, <1>4, <1>7, <2>1, OtherFits
<1>8. OneEach'
  <2>1. \A q \in Publication : Running(q)' => Running(q)
    BY <1>2, <1>5 DEF Running
  <2> QED
    BY <1>1, <2>1 DEF OneEach
<1> QED
  BY <1>2, <1>3, <1>4, <1>6, <1>7, <1>8

\* The course of a publication that has not begun, has failed or has committed.
LEMMA NewCourse ==
  ASSUME NEW ph \in {"lookup", "committed", "failed"}
  PROVE  /\ [NotPublishing EXCEPT !.phase = ph] \in Courses
         /\ [NotPublishing EXCEPT !.phase = ph].phase = ph
         /\ [NotPublishing EXCEPT !.phase = ph].batch = 1
  BY DEF NotPublishing, Courses

\* Rolling back.
LEMMA StepRollsBack ==
  ASSUME VectorInv, NEW p \in Publication, VectorsRollBack(p)
  PROVE  VectorInv'
<1>1. Columns /\ Committed
  BY DEF VectorInv
<1>2. PICK c \in Courses : c = [NotPublishing EXCEPT !.phase = "failed"] /\ c.phase = "failed"
  BY NewCourse
<1>3. /\ publications' = [publications EXCEPT ![p] = c]
      /\ written' = [written EXCEPT ![p] = [k \in {} |-> NoRow]]
      /\ locker' = [k \in Chunk |-> IF locker[k] = p THEN NoPublication ELSE locker[k]]
      /\ vectorRows' = vectorRows /\ lastPublished' = lastPublished
  BY <1>2 DEF VectorsRollBack, Course
<1>4. /\ \A q \in Publication : Fits(q)'
      /\ OneEach'
      /\ publications' \in [Publication -> Courses]
      /\ locker' \in [Chunk -> Publication \cup {NoPublication}]
      /\ written' = [q \in Publication |-> written'[q]]
      /\ publications'[p] = c /\ \A q \in Publication \ {p} : publications'[q] = publications[q]
  BY <1>2, <1>3, EndFits
<1>5. Columns'
  BY <1>1, <1>3, <1>4 DEF Columns
<1>6. Committed'
  <2>1. \A q \in Publication : Phase(q, "committed") => Phase(q, "committed")'
    BY <1>4 DEF VectorsRollBack, Running, Phase
  <2>2. \A v \in Versions : lastPublished[v] \in Publication \cup {NoPublication}
    BY <1>1 DEF Columns
  <2> QED
    BY <1>1, <1>3, <2>1, <2>2 DEF Committed, RowOf
<1> QED
  BY <1>4, <1>5, <1>6 DEF VectorInv

\* Beginning, when no publication of the version is under way.
LEMMA StepLocksVersion ==
  ASSUME VectorInv, NEW p \in Publication, LocksVersion(p)
  PROVE  VectorInv'
<1>1. Columns /\ OneEach /\ Committed /\ Fits(p)
  BY DEF VectorInv
<1>2. PICK c \in Courses : /\ c = [NotPublishing EXCEPT !.phase = "lookup"]
                           /\ c.phase = "lookup" /\ c.batch = 1
  BY NewCourse
<1>3. /\ publications' = [publications EXCEPT ![p] = c]
      /\ written' = written /\ locker' = locker
      /\ vectorRows' = vectorRows /\ lastPublished' = lastPublished
  BY <1>2 DEF LocksVersion, Course
<1>4. /\ publications' \in [Publication -> Courses]
      /\ publications'[p] = c /\ \A q \in Publication \ {p} : publications'[q] = publications[q]
  BY <1>1, <1>3 DEF Columns
<1>5. Columns'
  BY <1>1, <1>3, <1>4 DEF Columns
<1>6. OneEach'
  <2>1. \A q \in Publication \ {p} : Running(q)' <=> Running(q)
    BY <1>4 DEF Running
  <2>2. \A q \in Publication : Running(q) => VersionOf[q] # VersionOf[p]
    BY DEF LocksVersion
  <2> QED
    BY <1>1, <2>1, <2>2 DEF OneEach
<1>7. Committed'
  <2>1. \A q \in Publication : Phase(q, "committed") => Phase(q, "committed")'
    BY <1>4 DEF LocksVersion, Phase
  <2>2. \A v \in Versions : lastPublished[v] \in Publication \cup {NoPublication}
    BY <1>1 DEF Columns
  <2> QED
    BY <1>1, <1>3, <2>1, <2>2 DEF Committed, RowOf
<1>8. ASSUME NEW q \in Publication, q # p PROVE Fits(q)'
  BY <1>3, <1>4, <1>8, OtherFits
<1>9. Fits(p)'
  <2>1. Running(p)'
    BY <1>2, <1>4 DEF Running
  <2>2. Writes(p)'
    BY <1>1, <1>3, <2>1 DEF Fits, Writes, RowOf
  <2>3. Progress(p)'
    <3>1. 1 \in 1..Len(BatchesOf[p])
      BY RecordsAre
    <3> QED
      BY <1>2, <1>4, <3>1 DEF Progress, Phase
  <2> QED
    BY <2>2, <2>3 DEF Fits
<1> QED
  BY <1>5, <1>6, <1>7, <1>8, <1>9 DEF VectorInv

\* The commit: every record is written, every other row of the version goes, and
\* no row of another version is touched.
LEMMA StepCommits ==
  ASSUME VectorInv, NEW p \in Publication, Commits(p)
  PROVE  VectorInv'
<1>1. Columns /\ Committed /\ Fits(p) /\ OneEach
  BY DEF VectorInv
<1>2. Running(p) /\ Progress(p) /\ Writes(p) /\ Phase(p, "stale")
  BY <1>1 DEF Commits, Phase, Running, Fits
<1>3. PICK c \in Courses : c = [NotPublishing EXCEPT !.phase = "committed"] /\ c.phase = "committed"
  BY NewCourse
<1>4. PICK v \in Versions : v = VersionOf[p]
  BY DEF Versions
<1>5. /\ publications' = [publications EXCEPT ![p] = c]
      /\ written' = [written EXCEPT ![p] = [k \in {} |-> NoRow]]
      /\ locker' = [k \in Chunk |-> IF locker[k] = p THEN NoPublication ELSE locker[k]]
      /\ lastPublished' = [lastPublished EXCEPT ![v] = p]
      /\ vectorRows' = [k \in Chunk |-> IF k \in Stale(p) THEN NoRow ELSE FoundRow(p, k)]
      /\ \A k \in Stale(p) : Free(p, k)
  BY <1>3, <1>4 DEF Commits, Course
\* Every row of its own is one of its records, and every record has one.
<1>6. \A r \in Records(p) : r.chunk \in DOMAIN written[p] /\ written[p][r.chunk] = RowOf(p, r)
  <2>1. TAKE r \in Records(p)
  <2>2. r.chunk \in DOMAIN written[p]
    <3>1. PICK i \in 1..Len(BatchesOf[p]) : \E j \in 1..Len(BatchesOf[p][i]) : r = BatchesOf[p][i][j]
      BY RecordsAre
    <3>2. BatchDone(p, i)
      BY <1>2 DEF Progress
    <3> QED
      BY <3>1, <3>2 DEF BatchDone
  <2>3. PICK s \in Records(p) : s.chunk = r.chunk /\ written[p][r.chunk] = RowOf(p, s)
    BY <1>2, <2>2 DEF Writes
  <2>4. s = r
    BY <2>3, PreparedRecords
  <2> QED
    BY <2>2, <2>3, <2>4
<1>7. \A k \in DOMAIN written[p] :
        /\ k \in Chunk /\ locker[k] = p /\ \E r \in Records(p) : r.chunk = k
        /\ written[p][k] \in VectorRow /\ written[p][k] # NoRow
        /\ written[p][k].version = v /\ written[p][k].job = p
        /\ k \notin Stale(p)
  <2>1. TAKE k \in DOMAIN written[p]
  <2>2. PICK r \in Records(p) : r.chunk = k /\ written[p][k] = RowOf(p, r)
    BY <1>2 DEF Writes
  <2>3. /\ written[p][k] \in VectorRow /\ written[p][k] # NoRow
        /\ written[p][k].version = v /\ written[p][k].job = p
    BY <1>4, <2>2, RowIs
  <2>4. FoundRow(p, k) = written[p][k]
    BY DEF FoundRow
  <2> QED
    BY <1>2, <2>2, <2>3, <2>4 DEF Writes, Stale
\* What is found under a chunk afterwards.
<1>8. ASSUME NEW k \in Chunk
      PROVE  \/ k \in DOMAIN written[p] /\ vectorRows'[k] = written[p][k]
             \/ /\ k \notin DOMAIN written[p] /\ k \in Stale(p) /\ vectorRows'[k] = NoRow
                /\ vectorRows[k] # NoRow /\ vectorRows[k].version = v
             \/ /\ k \notin DOMAIN written[p] /\ vectorRows'[k] = vectorRows[k]
                /\ vectorRows[k] # NoRow => vectorRows[k].version # v
  <2>1. vectorRows'[k] = IF k \in Stale(p) THEN NoRow ELSE FoundRow(p, k)
    BY <1>5
  <2>2. CASE k \in DOMAIN written[p]
    BY <1>7, <2>1, <2>2 DEF FoundRow
  <2>3. CASE k \notin DOMAIN written[p]
    <3>1. FoundRow(p, k) = vectorRows[k]
      BY <2>3 DEF FoundRow
    <3>2. k \in Stale(p) <=> vectorRows[k] # NoRow /\ vectorRows[k].version = v /\ vectorRows[k].job # p
      BY <1>4, <3>1 DEF Stale
    <3>3. vectorRows[k] # NoRow /\ vectorRows[k].version = v => vectorRows[k].job # p
      <4>1. SUFFICES ASSUME vectorRows[k] # NoRow, vectorRows[k].version = v, vectorRows[k].job = p
                     PROVE  FALSE
        OBVIOUS
      <4>2. lastPublished[v] = p /\ p # NoPublication
        BY <1>1, <4>1, PreparedRecords DEF Committed
      <4> QED
        BY <1>1, <1>2, <4>2 DEF Committed, Phase
    <3> QED
      BY <2>1, <2>3, <3>1, <3>2, <3>3
  <2> QED
    BY <2>2, <2>3
<1>9. \A k \in Chunk : vectorRows'[k] = vectorRows[k] \/ locker[k] \in {p, NoPublication}
  <2>1. TAKE k \in Chunk
  <2>2. CASE k \in DOMAIN written[p]
    BY <1>7, <2>2
  <2>3. CASE k \in Stale(p)
    BY <1>5, <2>3 DEF Free
  <2> QED
    BY <1>8, <2>2, <2>3
<1>10. /\ \A q \in Publication : Fits(q)'
       /\ OneEach'
       /\ publications' \in [Publication -> Courses]
       /\ locker' \in [Chunk -> Publication \cup {NoPublication}]
       /\ written' = [q \in Publication |-> written'[q]]
       /\ publications'[p] = c /\ \A q \in Publication \ {p} : publications'[q] = publications[q]
  BY <1>3, <1>5, <1>9, EndFits
<1>11. /\ lastPublished' \in [Versions -> Publication \cup {NoPublication}]
       /\ lastPublished'[v] = p /\ \A w \in Versions \ {v} : lastPublished'[w] = lastPublished[w]
  BY <1>1, <1>5 DEF Columns
<1>12. Columns'
  <2>1. \A k \in Chunk : vectorRows'[k] \in VectorRow
    BY <1>1, <1>7, <1>8 DEF Columns, VectorRow
  <2>2. vectorRows' \in [Chunk -> VectorRow]
    BY <1>5, <2>1
  <2> QED
    BY <1>10, <1>11, <2>2 DEF Columns
<1>13. Committed'
  <2>1. ASSUME NEW w \in Versions, lastPublished'[w] # NoPublication
        PROVE  /\ publications'[lastPublished'[w]].phase = "committed" /\ VersionOf[lastPublished'[w]] = w
               /\ \A r \in Records(lastPublished'[w]) : vectorRows'[r.chunk] = RowOf(lastPublished'[w], r)
    <3>1. CASE w = v
      <4>1. publications'[p].phase = "committed"
        BY <1>3, <1>10
      <4>2. \A r \in Records(p) : vectorRows'[r.chunk] = RowOf(p, r)
        BY <1>6, <1>7, <1>8
      <4> QED
        BY <1>4, <1>11, <3>1, <4>1, <4>2
    <3>2. CASE w # v
      <4>1. PICK q \in Publication : q = lastPublished[w] /\ q = lastPublished'[w]
        BY <1>1, <1>11, <2>1, <3>2 DEF Columns
      <4>2. /\ Phase(q, "committed") /\ VersionOf[q] = w
            /\ \A r \in Records(q) : vectorRows[r.chunk] = RowOf(q, r)
        BY <1>1, <1>11, <2>1, <3>2, <4>1 DEF Committed
      <4>3. q # p
        BY <1>4, <3>2, <4>2
      <4>4. publications'[q].phase = "committed"
        BY <1>10, <4>2, <4>3 DEF Phase
      <4>5. ASSUME NEW r \in Records(q)
            PROVE  vectorRows'[r.chunk] = RowOf(q, r)
        <5>1. PICK k \in Chunk : k = r.chunk /\ RowOf(q, r) # NoRow /\ RowOf(q, r).version = w
          BY <4>2, RowIs
        <5>2. vectorRows[k] # NoRow /\ vectorRows[k].version # v /\ vectorRows[k] = RowOf(q, r)
          BY <3>2, <4>2, <5>1
        <5>3. k \notin DOMAIN written[p]
          BY <1>2, <1>4, <5>2 DEF Writes
        <5> QED
          BY <1>8, <5>1, <5>2, <5>3
      <4> QED
        BY <4>1, <4>2, <4>4, <4>5
    <3> QED
      BY <3>1, <3>2
  <2>2. ASSUME NEW k \in Chunk, vectorRows'[k] # NoRow
        PROVE  /\ lastPublished'[vectorRows'[k].version] = vectorRows'[k].job
               /\ \E r \in Records(vectorRows'[k].job) : r.chunk = k
    <3>1. CASE k \in DOMAIN written[p]
      BY <1>7, <1>8, <1>11, <3>1
    <3>2. CASE k \notin DOMAIN written[p]
      <4>1. vectorRows'[k] = vectorRows[k] /\ vectorRows[k] # NoRow /\ vectorRows[k].version # v
        BY <1>8, <2>2, <3>2
      <4>2. vectorRows[k].version \in Versions
        BY <1>1, <4>1 DEF Columns, VectorRow
      <4> QED
        BY <1>1, <1>11, <4>1, <4>2 DEF Committed
    <3> QED
      BY <3>1, <3>2
  <2>3. \A w \in Versions : lastPublished'[w] # NoPublication =>
          /\ publications'[lastPublished'[w]].phase = "committed" /\ VersionOf[lastPublished'[w]] = w
          /\ \A r \in Records(lastPublished'[w]) : vectorRows'[r.chunk] = RowOf(lastPublished'[w], r)
    BY <2>1
  <2> QED
    BY <2>2, <2>3 DEF Committed, Phase, RowOf
<1> QED
  BY <1>10, <1>12, <1>13 DEF VectorInv
-----------------------------------------------------------------------------
(***************************************************************************)
(* The invariant                                                           *)
(***************************************************************************)
\* Nothing is published yet.
LEMMA InitFits == VectorInit => VectorInv
<1> SUFFICES ASSUME VectorInit PROVE VectorInv
  OBVIOUS
<1>1. NotPublishing \in Courses /\ NotPublishing.phase = "before"
  BY DEF NotPublishing, Courses
<1>2. Columns
  BY <1>1 DEF VectorInit, Columns, VectorRow
<1>3. \A p \in Publication : ~Running(p)
  BY <1>1 DEF VectorInit, Running
<1>4. \A p \in Publication : Fits(p)
  <2>1. \A p \in Publication : DOMAIN written[p] = {} /\ p # NoPublication
    BY PreparedRecords DEF VectorInit
  <2>2. \A k \in Chunk : locker[k] = NoPublication
    BY DEF VectorInit
  <2> QED
    BY <1>3, <2>1, <2>2 DEF Fits, Writes
<1>5. Committed
  BY DEF VectorInit, Committed
<1> QED
  BY <1>2, <1>3, <1>4, <1>5 DEF VectorInv, OneEach

\* Every step keeps the invariant, and it holds at the start.
LEMMA Invariant == VectorSpec => []VectorInv
<1>1. VectorInv /\ [VectorNext]_vectorVars => VectorInv'
  <2> SUFFICES ASSUME VectorInv, [VectorNext]_vectorVars
               PROVE  VectorInv'
    OBVIOUS
  <2>1. CASE UNCHANGED vectorVars
    BY <2>1 DEF vectorVars, VectorInv, Columns, OneEach, Committed, Fits, Writes, Progress,
                Running, Phase, RowOf, BatchDone, FoundRow, Batch
  <2> QED
    BY <2>1, StepLocksVersion, StepLooksUp, StepLocksVectorRow, StepLookedUp, StepUpserts,
       StepEndsBatch, StepCommits, StepRollsBack DEF VectorNext
<1> QED
  BY <1>1, InitFits, PTL DEF VectorSpec

\* The columns of the rows, the locks and the courses of the publications: VectorTypeOK.
THEOREM Types == VectorSpec => []VectorTypeOK
<1>1. VectorInv => VectorTypeOK
  <2> SUFFICES ASSUME VectorInv PROVE VectorTypeOK
    OBVIOUS
  <2>1. Columns
    BY DEF VectorInv
  <2>2. ASSUME NEW p \in Publication
        PROVE  /\ DOMAIN written[p] \subseteq Chunk
               /\ \A k \in DOMAIN written[p] : written[p][k] \in VectorRow
    <3>1. Writes(p)
      BY DEF VectorInv, Fits
    <3> QED
      BY <3>1, RowIs DEF Writes
  <2>3. ASSUME NEW p \in Publication
        PROVE  /\ publications[p].phase \in {"before", "begun", "lookup", "locking", "upserting", "stale",
                                             "committed", "failed"}
               /\ publications[p].existing \cup publications[p].upserted \subseteq Chunk
    BY <2>1 DEF Columns, Courses
  <2> QED
    BY <2>1, <2>2, <2>3 DEF Columns, VectorTypeOK
<1> QED
  BY <1>1, Invariant, PTL

\* Whatever publications of other versions meet it on its chunks, what is found of
\* a version is the whole generation that committed last, and no other row:
\* GenerationsHold.
THEOREM Generations == VectorSpec => []GenerationsHold
<1>1. VectorInv => GenerationsHold
  <2> SUFFICES ASSUME VectorInv PROVE GenerationsHold
    OBVIOUS
  <2>1. Columns /\ Committed /\ \A p \in Publication : Writes(p)
    BY DEF VectorInv, Fits
  <2>2. ASSUME NEW v \in Versions, NEW found,
               found = {k \in Chunk : vectorRows[k] # NoRow /\ vectorRows[k].version = v}
        PROVE  IF lastPublished[v] = NoPublication THEN found = {}
               ELSE /\ found = {r.chunk : r \in Records(lastPublished[v])}
                    /\ \A r \in Records(lastPublished[v]) :
                         vectorRows[r.chunk] = RowOf(lastPublished[v], r)
    <3>1. CASE lastPublished[v] = NoPublication
      <4>1. ASSUME NEW k \in found PROVE FALSE
        <5>1. vectorRows[k].job \in Publication /\ vectorRows[k].job = NoPublication
          BY <2>1, <2>2, <3>1, <4>1 DEF Columns, Committed, VectorRow
        <5> QED
          BY <5>1, PreparedRecords
      <4> QED
        BY <3>1, <4>1
    <3>2. CASE lastPublished[v] # NoPublication
      <4>1. PICK p \in Publication : p = lastPublished[v]
        BY <2>1, <3>2 DEF Columns
      <4>2. VersionOf[p] = v /\ \A r \in Records(p) : vectorRows[r.chunk] = RowOf(p, r)
        BY <2>1, <3>2, <4>1 DEF Committed
      <4>3. \A r \in Records(p) : r.chunk \in found
        BY <2>2, <4>2, RowIs
      <4>4. \A k \in found : \E r \in Records(p) : r.chunk = k
        BY <2>1, <2>2, <4>1 DEF Committed
      <4>5. found = {r.chunk : r \in Records(p)}
        BY <4>3, <4>4
      <4> QED
        BY <3>2, <4>1, <4>2, <4>5
    <3> QED
      BY <3>1, <3>2
  <2>3. \A p \in Publication : \A k \in DOMAIN written[p] : locker[k] = p
    BY <2>1 DEF Writes
  <2> QED
    BY <2>2, <2>3 DEF GenerationsHold
<1> QED
  BY <1>1, Invariant, PTL

-------------------------------------------------------------------------------
(***************************************************************************)
(* StagingRun                                                              *)
(***************************************************************************)

StagingPhase == {Phases[i] : i \in 1..Len(Phases)}
Journey == Nat \X {"smoke", "reset"} \X (StagingRuns \cup {NoRun})
StagingRow ==
  [phase : StagingPhase, at : Database, owned : BOOLEAN, failed : BOOLEAN, verified : SUBSET Journey,
   destroyed : SUBSET (Database \cup {TheRole}), receipt : {"none", "passed", "failed", "invalid"}]
DatabaseRow == [by : StagingRuns \cup {NoRun}, migrated : BOOLEAN]

\* The rows have their columns.
StagingShapes ==
  /\ databases \in [Database -> DatabaseRow]
  /\ role \in StagingRuns \cup {NoRun}
  /\ staging \in [StagingRuns -> StagingRow]
  /\ overlapped \in BOOLEAN /\ trespassed \in BOOLEAN

\* What is there is the run's own.
Owned(r, those, has) == has \in {r, NoRun} /\ \A d \in Database : those[d].by \in {r, NoRun}

\* The journeys of the databases before one.
Journeys(r, k) ==
  {<<d, "smoke", r>> : d \in {e \in Database : e < k}} \cup {<<d, "reset", r>> : d \in {e \in WithReset : e < k}}

\* Where a run is, alone: what it has created, and what it has verified.
JourneyProgress(r, run, those, has) ==
  /\ run.phase = "preflight" => ~run.owned /\ run.at = 1
  /\ run.phase \in {"create", "migrate", "verify", "reset", "migrate_again", "verify_again"} =>
       run.owned /\ Owned(r, those, has)
  /\ run.phase = "create" => \A d \in Database : d < run.at => those[d].by = r
  /\ run.phase \in {"preflight", "create", "migrate"} => run.verified = {}
  /\ run.phase \in {"migrate", "verify", "reset", "migrate_again", "verify_again"} =>
       \A d \in Database : those[d].by = r
  /\ run.phase = "verify" => run.verified = Journeys(r, run.at)
  /\ run.phase \in {"reset", "migrate_again", "verify_again"} =>
       run.at \in WithReset /\ run.verified = Journeys(r, run.at) \cup {<<run.at, "smoke", r>>}
  /\ run.phase \in {"drop", "drop_role", "check"} =>
       /\ run.failed \/ run.verified = Everything(r)
       /\ r \in CleansExisting \/ Owned(r, those, has)

Alone == \A r, s \in StagingRuns : UnderWay(r) /\ UnderWay(s) => r = s
OneAtATime ==
  ~overlapped =>
    /\ Alone /\ ~trespassed
    /\ \A r \in StagingRuns : UnderWay(r) => JourneyProgress(r, staging[r], databases, role)

\* A passed receipt is that of a run that ended, of which nothing is left.
Receipted(r, run, those, has) ==
  run.receipt = "passed" => run.phase = "ended" /\ has # r /\ \A d \in Database : those[d].by # r
Receipts ==
  \A r \in StagingRuns :
    /\ Receipted(r, staging[r], databases, role)
    /\ staging[r].receipt = "passed" /\ ~overlapped => staging[r].verified = Everything(r)

\* A run that was not started has done nothing.
Untouched == \A r \in StagingRuns : staging[r].phase = "before" => staging[r] = IdleRun

StagingInv == StagingShapes /\ Untouched /\ OneAtATime /\ Receipts

\* The databases are numbered from one.
LEMMA Numbered ==
  /\ Cardinality(Database) \in Nat /\ Cardinality(Database) > 0
  /\ Database = 1..Cardinality(Database)
  /\ 1 \in Database /\ Database \subseteq Nat
<1>1. IsFiniteSet(Database) /\ Database # {} /\ Database = 1..Cardinality(Database)
  BY StagingConstants
<1>2. Cardinality(Database) \in Nat /\ Cardinality(Database) # 0
  BY <1>1, FS_CardinalityType, FS_EmptySet
<1>3. QED  BY <1>1, <1>2

\* The phases are those of the sequence.
LEMMA PhasesNamed ==
  /\ {"before", "preflight", "create", "migrate", "verify", "reset", "migrate_again"} \subseteq StagingPhase
  /\ {"verify_again", "drop", "drop_role", "check", "ended", "crashed"} \subseteq StagingPhase
<1>1. Len(Phases) = 13
  BY DEF Phases
<1>2. StagingPhase = {Phases[i] : i \in 1..13}
  BY <1>1 DEF StagingPhase
<1>3. /\ Phases[1] = "before" /\ Phases[2] = "preflight" /\ Phases[3] = "create" /\ Phases[4] = "migrate"
      /\ Phases[5] = "verify" /\ Phases[6] = "reset" /\ Phases[7] = "migrate_again"
      /\ Phases[8] = "verify_again" /\ Phases[9] = "drop" /\ Phases[10] = "drop_role"
      /\ Phases[11] = "check" /\ Phases[12] = "ended" /\ Phases[13] = "crashed"
  BY DEF Phases
<1> HIDE DEF Phases
<1>4. QED  BY <1>2, <1>3

\* What a run may become.
LEMMA RunsTyped ==
  ASSUME NEW run \in StagingRow
  PROVE  /\ \A phase \in StagingPhase : [run EXCEPT !.phase = phase] \in StagingRow
         /\ \A phase \in StagingPhase, at \in Database : [run EXCEPT !.phase = phase, !.at = at] \in StagingRow
         /\ \A phase \in StagingPhase, owned \in BOOLEAN : [run EXCEPT !.phase = phase, !.owned = owned] \in StagingRow
         /\ \A phase \in StagingPhase, gone \in SUBSET (Database \cup {TheRole}) :
              [run EXCEPT !.phase = phase, !.destroyed = gone] \in StagingRow
         /\ \A at \in Database : [run EXCEPT !.at = at] \in StagingRow
         /\ \A gone \in SUBSET (Database \cup {TheRole}) : [run EXCEPT !.destroyed = gone] \in StagingRow
         /\ \A those \in SUBSET Journey : [run EXCEPT !.verified = those] \in StagingRow
BY DEF StagingRow

\* A run that has not begun, or that ended without its journeys.
LEMMA IdleRunTyped ==
  /\ IdleRun \in StagingRow
  /\ \A phase \in StagingPhase, receipt \in {"none", "passed", "failed", "invalid"}, those \in SUBSET Journey :
       /\ [IdleRun EXCEPT !.phase = phase, !.receipt = receipt] \in StagingRow
       /\ [IdleRun EXCEPT !.phase = phase] \in StagingRow
       /\ [IdleRun EXCEPT !.phase = phase, !.receipt = receipt, !.verified = those] \in StagingRow
  /\ FailedRun \in StagingRow
<1>1. 1 \in Database /\ "before" \in StagingPhase /\ "drop" \in StagingPhase
  BY Numbered, PhasesNamed
<1>2. QED  BY <1>1 DEF IdleRun, FailedRun, StagingRow

\* What the invariant says of one run, and that a run under way was not alone or is now.
LEMMA OfOneRun ==
  ASSUME StagingInv, NEW r \in StagingRuns
  PROVE  /\ staging[r] \in StagingRow /\ staging[r].at \in Database
         /\ Receipted(r, staging[r], databases, role)
         /\ UnderWay(r) /\ ~overlapped => JourneyProgress(r, staging[r], databases, role)
         /\ ~overlapped => ~trespassed
BY DEF StagingInv, StagingShapes, StagingRow, OneAtATime, Receipts

\* One run, that has not ended, takes a step that creates nothing but its own.
LEMMA OneRunSteps ==
  ASSUME StagingInv, NEW r \in StagingRuns, UnderWay(r), NEW run \in StagingRow,
         staging' = [staging EXCEPT ![r] = run],
         databases' \in [Database -> DatabaseRow], role' \in StagingRuns \cup {NoRun},
         \A d \in Database : databases'[d].by \in {databases[d].by, r, NoRun},
         role' \in {role, r, NoRun},
         overlapped' = overlapped, trespassed' \in BOOLEAN, run.phase # "before",
         Receipted(r, run, databases', role'),
         run.receipt = "passed" /\ ~overlapped => run.verified = Everything(r),
         ~overlapped => JourneyProgress(r, run, databases', role') /\ ~trespassed'
  PROVE  StagingInv'
<1>1. staging \in [StagingRuns -> StagingRow]
  BY DEF StagingInv, StagingShapes
<1>2. /\ staging' \in [StagingRuns -> StagingRow]
      /\ \A s \in StagingRuns : staging'[s] = IF s = r THEN run ELSE staging[s]
  BY <1>1
<1>3. StagingShapes'
  BY <1>2 DEF StagingInv, StagingShapes, DatabaseRow
<1>4. OneAtATime'
  <2>1. SUFFICES ASSUME ~overlapped
                 PROVE  /\ Alone' /\ ~trespassed'
                        /\ \A s \in StagingRuns : UnderWay(s)' => JourneyProgress(s, staging[s], databases, role)'
    BY DEF OneAtATime
  <2>2. \A s \in StagingRuns : UnderWay(s) => s = r
    BY <2>1 DEF StagingInv, OneAtATime, Alone
  <2>3. \A s \in StagingRuns : UnderWay(s)' => s = r
    BY <1>2, <2>2 DEF UnderWay
  <2>4. Alone'
    BY <2>3 DEF Alone
  <2>5. JourneyProgress(r, staging'[r], databases', role')
    BY <1>2, <2>1
  <2>6. QED  BY <2>1, <2>3, <2>4, <2>5 DEF JourneyProgress, Owned
<1>5. Receipts'
  <2>1. SUFFICES ASSUME NEW s \in StagingRuns
                 PROVE  /\ Receipted(s, staging'[s], databases', role')
                        /\ staging'[s].receipt = "passed" /\ ~overlapped => staging'[s].verified = Everything(s)
    BY DEF Receipts, Receipted
  <2>2. CASE s = r
    BY <1>2, <2>2
  <2>3. CASE s # r
    <3>1. staging'[s] = staging[s] /\ s # NoRun
      BY <1>2, <2>3, StagingConstants
    <3>2. Receipted(s, staging[s], databases', role')
      BY <2>3, <3>1 DEF StagingInv, Receipts, Receipted
    <3>3. QED  BY <3>1, <3>2 DEF StagingInv, Receipts
  <2>4. QED  BY <2>2, <2>3
<1>6. Untouched'
  BY <1>2 DEF StagingInv, Untouched
<1>7. QED  BY <1>3, <1>4, <1>5, <1>6 DEF StagingInv

\* As before, of a run that does not conclude: it has no receipt.
LEMMA RunGoesOn ==
  ASSUME StagingInv, NEW r \in StagingRuns, UnderWay(r), NEW run \in StagingRow,
         staging' = [staging EXCEPT ![r] = run], run.phase # "before", run.receipt = staging[r].receipt,
         databases' \in [Database -> DatabaseRow], role' \in StagingRuns \cup {NoRun},
         \A d \in Database : databases'[d].by \in {databases[d].by, r, NoRun},
         role' \in {role, r, NoRun},
         overlapped' = overlapped, trespassed' \in BOOLEAN,
         ~overlapped => JourneyProgress(r, run, databases', role'),
         ~overlapped => ~trespassed'
  PROVE  StagingInv'
<1>1. staging[r].receipt # "passed"
  BY OfOneRun DEF Receipted, UnderWay
<1>2. Receipted(r, run, databases', role') /\ run.receipt # "passed"
  BY <1>1 DEF Receipted
<1>3. QED  BY <1>2, OneRunSteps

\* The cluster as it is fits.
LEMMA SameCluster ==
  ASSUME StagingInv, NEW r \in StagingRuns
  PROVE  /\ databases \in [Database -> DatabaseRow] /\ role \in StagingRuns \cup {NoRun}
         /\ \A d \in Database : databases[d].by \in {databases[d].by, r, NoRun}
         /\ trespassed \in BOOLEAN
BY DEF StagingInv, StagingShapes

\* The CLI starts a run; that another is under way is remembered.
LEMMA StartRunStep ==
  ASSUME StagingInv, NEW r \in StagingRuns, StartRun(r)
  PROVE  StagingInv'
<1> DEFINE run == [staging[r] EXCEPT !.phase = "preflight"]
<1>1. /\ staging' = [staging EXCEPT ![r] = run]
      /\ UNCHANGED <<databases, role, trespassed>>
      /\ overlapped' = (overlapped \/ \E other \in StagingRuns : UnderWay(other))
      /\ staging[r].phase = "before"
  BY DEF StartRun, RunOf, In
<1>2. staging[r] = IdleRun /\ staging \in [StagingRuns -> StagingRow]
  BY <1>1 DEF StagingInv, StagingShapes, Untouched
<1>3. run \in StagingRow
  BY <1>2, RunsTyped, PhasesNamed
<1>4. run.phase = "preflight" /\ run.receipt = "none" /\ ~run.owned /\ run.verified = {} /\ run.at = 1
  BY <1>2 DEF IdleRun
<1> HIDE DEF run
<1>5. /\ staging' \in [StagingRuns -> StagingRow]
      /\ \A s \in StagingRuns : staging'[s] = IF s = r THEN run ELSE staging[s]
  BY <1>1, <1>2, <1>3
<1>6. StagingShapes'
  BY <1>1, <1>5 DEF StagingInv, StagingShapes
<1>7. Untouched'
  BY <1>4, <1>5 DEF StagingInv, Untouched
<1>8. Receipts'
  BY <1>1, <1>4, <1>5 DEF StagingInv, Receipts, Receipted, Everything
<1>9. OneAtATime'
  <2>1. SUFFICES ASSUME ~overlapped'
                 PROVE  /\ Alone' /\ ~trespassed'
                        /\ \A s \in StagingRuns : UnderWay(s)' => JourneyProgress(s, staging[s], databases, role)'
    BY DEF OneAtATime
  <2>2. \A s \in StagingRuns : UnderWay(s)' => s = r
    BY <1>1, <1>5, <2>1 DEF UnderWay
  <2>3. Alone' /\ ~trespassed'
    BY <1>1, <2>1, <2>2 DEF Alone, StagingInv, OneAtATime
  <2>4. JourneyProgress(r, staging'[r], databases', role')
    BY <1>4, <1>5 DEF JourneyProgress
  <2>5. QED  BY <2>2, <2>3, <2>4 DEF JourneyProgress, Owned
<1>10. QED  BY <1>6, <1>7, <1>8, <1>9 DEF StagingInv

\* A run owns a cluster that is empty, or that it may clean and has cleaned.
LEMMA OwnsStep ==
  ASSUME StagingInv, NEW r \in StagingRuns, Owns(r)
  PROVE  StagingInv'
<1> DEFINE run == [staging[r] EXCEPT !.phase = "create", !.owned = TRUE]
<1>1. /\ staging' = [staging EXCEPT ![r] = run] /\ staging[r].phase = "preflight"
      /\ databases' = [d \in Database |-> NoDatabase] /\ role' = NoRun /\ overlapped' = overlapped
      /\ trespassed' = (trespassed \/ (r \notin CleansExisting /\ Exists)) /\ MayOwn(r)
  BY DEF Owns, RunOf, In
<1>2. staging[r] \in StagingRow /\ UnderWay(r)
  BY <1>1, OfOneRun DEF UnderWay
<1>3. run \in StagingRow
  BY <1>2, RunsTyped, PhasesNamed
<1>4. /\ run.phase = "create" /\ run.owned /\ run.receipt = staging[r].receipt
      /\ run.verified = staging[r].verified /\ run.at = staging[r].at
  BY <1>2 DEF StagingRow
<1>5. Receipted(r, staging[r], databases, role) /\ (~overlapped => JourneyProgress(r, staging[r], databases, role) /\ ~trespassed)
  BY <1>2, OfOneRun
<1>7. /\ databases' \in [Database -> DatabaseRow]
      /\ \A d \in Database : databases'[d].by = NoRun
  BY <1>1 DEF NoDatabase, DatabaseRow
<1>8. trespassed' \in BOOLEAN /\ (~overlapped => ~trespassed')
  BY <1>1, <1>5 DEF MayOwn
<1> HIDE DEF run
<1>9. ~overlapped => JourneyProgress(r, run, databases', role')
  BY <1>1, <1>4, <1>5, <1>7, Numbered DEF JourneyProgress, Owned
<1>10. \A d \in Database : databases'[d].by \in {databases[d].by, r, NoRun}
  BY <1>7
<1>11. QED  BY <1>1, <1>2, <1>3, <1>4, <1>7, <1>8, <1>9, <1>10, RunGoesOn

\* The journeys up to the next database, and those of all of them.
LEMMA JourneysGrow ==
  ASSUME NEW r, NEW k \in Database
  PROVE  /\ Journeys(r, 1) = {}
         /\ k \notin WithReset => Journeys(r, k + 1) = Journeys(r, k) \cup {<<k, "smoke", r>>}
         /\ k \in WithReset =>
              Journeys(r, k + 1) = Journeys(r, k) \cup {<<k, "smoke", r>>} \cup {<<k, "reset", r>>}
         /\ k = Cardinality(Database) => Journeys(r, k + 1) = Everything(r)
<1>1. k \in Nat /\ Database \subseteq Nat /\ WithReset \subseteq Database /\ \A d \in Database : d >= 1
  BY Numbered, StagingConstants
<1>2. /\ {e \in Database : e < k + 1} = {e \in Database : e < k} \cup {k}
      /\ k \in WithReset => {e \in WithReset : e < k + 1} = {e \in WithReset : e < k} \cup {k}
      /\ k \notin WithReset => {e \in WithReset : e < k + 1} = {e \in WithReset : e < k}
  <2>1. \A e \in Database : e < k + 1 <=> e < k \/ e = k
    BY <1>1
  <2>2. QED  BY <1>1, <2>1, Zenon
<1>3. {e \in Database : e < 1} = {} /\ {e \in WithReset : e < 1} = {}
  <2>1. \A e \in Database : ~(e < 1)
    BY <1>1
  <2>2. QED  BY <1>1, <2>1, Zenon
<1> DEFINE smoked == {e \in Database : e < k}
           emptied == {e \in WithReset : e < k}
<1>4. /\ Journeys(r, 1) = {}
      /\ Journeys(r, k) = {<<d, "smoke", r>> : d \in smoked} \cup {<<d, "reset", r>> : d \in emptied}
      /\ k \notin WithReset => Journeys(r, k + 1) = {<<d, "smoke", r>> : d \in smoked \cup {k}}
                                                   \cup {<<d, "reset", r>> : d \in emptied}
      /\ k \in WithReset => Journeys(r, k + 1) = {<<d, "smoke", r>> : d \in smoked \cup {k}}
                                                \cup {<<d, "reset", r>> : d \in emptied \cup {k}}
  <2>1. Journeys(r, 1) = {}
    BY <1>3, Zenon DEF Journeys
  <2>2. QED  BY <1>2, <2>1 DEF Journeys
<1> HIDE DEF smoked, emptied
<1>5. /\ k \notin WithReset => Journeys(r, k + 1) = Journeys(r, k) \cup {<<k, "smoke", r>>}
      /\ k \in WithReset =>
           Journeys(r, k + 1) = Journeys(r, k) \cup {<<k, "smoke", r>>} \cup {<<k, "reset", r>>}
  BY <1>4
<1>6. k = Cardinality(Database) => \A d \in Database : d < k + 1
  BY Numbered
<1>7. k = Cardinality(Database) => Journeys(r, k + 1) = Everything(r)
  BY <1>1, <1>6 DEF Journeys, Everything
<1>8. QED  BY <1>4, <1>5, <1>7

\* The next database of a phase, or the first of the next phase.
LEMMA OnwardGoes ==
  ASSUME StagingInv, NEW r \in StagingRuns, NEW next \in StagingPhase
  PROVE  LET run == staging[r]
             goes == Onward(r, next)
             last == run.at = Cardinality(Database)
         IN  /\ goes \in StagingRow
             /\ goes.phase = (IF last THEN next ELSE run.phase) /\ goes.at = (IF last THEN 1 ELSE run.at + 1)
             /\ goes.receipt = run.receipt /\ goes.verified = run.verified /\ goes.owned = run.owned
             /\ goes.failed = run.failed
<1> DEFINE run == staging[r]
<1>1. run \in StagingRow /\ run.at \in Database
  BY OfOneRun
<1>2. run.at < Cardinality(Database) \/ run.at = Cardinality(Database)
  BY <1>1, Numbered
<1>3. CASE run.at < Cardinality(Database)
  <2>1. run.at + 1 \in Database /\ run.at # Cardinality(Database)
    BY <1>1, <1>3, Numbered
  <2>2. Onward(r, next) = [run EXCEPT !.at = run.at + 1]
    BY <1>3 DEF Onward
  <2>3. Onward(r, next) \in StagingRow
    BY <1>1, <2>1, <2>2, RunsTyped
  <2>4. QED  BY <1>1, <2>1, <2>2, <2>3 DEF StagingRow
<1>4. CASE run.at = Cardinality(Database)
  <2>1. Onward(r, next) = [run EXCEPT !.phase = next, !.at = 1]
    BY <1>4, Numbered DEF Onward
  <2>2. Onward(r, next) \in StagingRow
    <3>1. 1 \in Database
      BY Numbered
    <3>2. [run EXCEPT !.phase = next, !.at = 1] \in StagingRow
      BY <1>1, <3>1, RunsTyped, Zenon
    <3>3. QED  BY <2>1, <3>2
  <2> DEFINE first == [run EXCEPT !.phase = next, !.at = 1]
  <2>3. /\ first.phase = next /\ first.at = 1
        /\ first.receipt = run.receipt /\ first.verified = run.verified /\ first.owned = run.owned
        /\ first.failed = run.failed
    BY <1>1 DEF StagingRow
  <2> HIDE DEF first
  <2>4. Onward(r, next) = first
    BY <2>1 DEF first
  <2>5. QED  BY <1>4, <2>2, <2>3, <2>4
<1>5. QED  BY <1>2, <1>3, <1>4

\* A database is created where there is none, so it is the run's.
LEMMA CreatesStep ==
  ASSUME StagingInv, NEW r \in StagingRuns, Creates(r)
  PROVE  StagingInv'
<1> DEFINE d == staging[r].at
           run == Onward(r, "migrate")
<1>1. /\ staging' = [staging EXCEPT ![r] = run] /\ staging[r].phase = "create"
      /\ databases' = [databases EXCEPT ![d].by = r] /\ role' = role
      /\ overlapped' = overlapped /\ trespassed' = trespassed
  BY DEF Creates, RunOf, In, RestKept
<1>2. staging[r] \in StagingRow /\ d \in Database /\ UnderWay(r)
  BY <1>1, OfOneRun DEF UnderWay
<1>3. /\ run \in StagingRow
      /\ run.phase = (IF d = Cardinality(Database) THEN "migrate" ELSE "create")
      /\ run.at = (IF d = Cardinality(Database) THEN 1 ELSE d + 1)
      /\ run.receipt = staging[r].receipt /\ run.verified = staging[r].verified /\ run.owned = staging[r].owned
  BY <1>1, OnwardGoes, PhasesNamed
<1>4. Receipted(r, staging[r], databases, role) /\ (~overlapped => JourneyProgress(r, staging[r], databases, role) /\ ~trespassed)
  BY <1>2, OfOneRun
<1>6. /\ databases' \in [Database -> DatabaseRow]
      /\ \A c \in Database : databases'[c].by = IF c = d THEN r ELSE databases[c].by
  BY <1>1, <1>2, SameCluster DEF DatabaseRow
<1>7. /\ role' \in StagingRuns \cup {NoRun} /\ trespassed' \in BOOLEAN
  BY <1>1, SameCluster
<1> HIDE DEF run, d
<1>8. ~overlapped => JourneyProgress(r, run, databases', role')
  <2>1. SUFFICES ASSUME ~overlapped PROVE JourneyProgress(r, run, databases', role')
    OBVIOUS
  <2>2. \A c \in Database : c < d => databases[c].by = r
    BY <1>1, <1>4, <2>1 DEF JourneyProgress, d
  <2>3. /\ staging[r].owned /\ Owned(r, databases, role) /\ staging[r].verified = {}
    BY <1>1, <1>4, <2>1 DEF JourneyProgress
  <2>4. Owned(r, databases', role')
    BY <1>1, <1>6, <2>3 DEF Owned
  <2>5. CASE d = Cardinality(Database)
    <3>1. \A c \in Database : databases'[c].by = r
      BY <1>2, <1>6, <2>2, <2>5, Numbered
    <3>2. QED  BY <1>3, <2>3, <2>4, <2>5, <3>1 DEF JourneyProgress
  <2>6. CASE d # Cardinality(Database)
    <3>1. \A c \in Database : c < d + 1 => databases'[c].by = r
      BY <1>2, <1>6, <2>2, Numbered
    <3>2. QED  BY <1>3, <2>3, <2>4, <2>6, <3>1 DEF JourneyProgress
  <2>7. QED  BY <2>5, <2>6
<1>9. run.phase # "before"
  BY <1>3
<1>10. (\A c \in Database : databases'[c].by \in {databases[c].by, r, NoRun}) /\ (~overlapped => ~trespassed')
  BY <1>1, <1>4, <1>6
<1>11. QED  BY <1>1, <1>2, <1>3, <1>6, <1>7, <1>8, <1>9, <1>10, RunGoesOn

\* A database is migrated, and the role is created where there is none.
LEMMA MigratesStep ==
  ASSUME StagingInv, NEW r \in StagingRuns, Migrates(r)
  PROVE  StagingInv'
<1> DEFINE d == staging[r].at
           run == IF In(r, "migrate") THEN Onward(r, "verify") ELSE [staging[r] EXCEPT !.phase = "verify_again"]
<1>1. /\ staging' = [staging EXCEPT ![r] = run] /\ staging[r].phase \in {"migrate", "migrate_again"}
      /\ databases' = [databases EXCEPT ![d].migrated = TRUE] /\ role' = (IF role = NoRun THEN r ELSE role)
      /\ overlapped' = overlapped /\ trespassed' = trespassed
  BY DEF Migrates, RunOf, RestKept
<1>2. staging[r] \in StagingRow /\ d \in Database /\ UnderWay(r)
  BY <1>1, OfOneRun DEF UnderWay
<1>3. Receipted(r, staging[r], databases, role) /\ (~overlapped => JourneyProgress(r, staging[r], databases, role) /\ ~trespassed)
  BY <1>2, OfOneRun
<1>4. /\ databases' \in [Database -> DatabaseRow]
      /\ \A c \in Database : databases'[c].by = databases[c].by
  BY <1>1, <1>2, SameCluster DEF DatabaseRow
<1>5. /\ role' \in StagingRuns \cup {NoRun} /\ trespassed' \in BOOLEAN /\ role' \in {role, r, NoRun}
  BY <1>1, SameCluster
<1>6. staging' = [staging EXCEPT ![r] = run] /\ overlapped' = overlapped
  BY <1>1
<1>7. ~overlapped => /\ \A c \in Database : databases'[c].by = r
                     /\ Owned(r, databases', role')
  BY <1>1, <1>3, <1>4 DEF JourneyProgress, Owned
<1>8. (\A c \in Database : databases'[c].by \in {databases[c].by, r, NoRun}) /\ (~overlapped => ~trespassed')
  BY <1>1, <1>3, <1>4
<1>9. CASE staging[r].phase = "migrate"
  <2>1. /\ run \in StagingRow
        /\ run.phase = (IF d = Cardinality(Database) THEN "verify" ELSE "migrate")
        /\ run.at = (IF d = Cardinality(Database) THEN 1 ELSE d + 1)
        /\ run.receipt = staging[r].receipt /\ run.verified = staging[r].verified /\ run.owned = staging[r].owned
    BY <1>9, OnwardGoes, PhasesNamed DEF In
  <2> HIDE DEF run, d
  <2>2. run.phase # "before" /\ run.receipt = staging[r].receipt /\ run \in StagingRow
    BY <2>1
  <2>3. Journeys(r, 1) = {}
    BY <1>2, JourneysGrow
  <2>4. ~overlapped => JourneyProgress(r, run, databases', role')
    BY <1>3, <1>7, <1>9, <2>1, <2>3 DEF JourneyProgress
  <2>5. QED  BY <1>2, <1>4, <1>5, <1>6, <1>8, <2>2, <2>4, RunGoesOn
<1>10. CASE staging[r].phase = "migrate_again"
  <2>1. run = [staging[r] EXCEPT !.phase = "verify_again"]
    BY <1>10 DEF In
  <2>2. run \in StagingRow
    <3>1. "verify_again" \in StagingPhase
      BY PhasesNamed
    <3>2. [staging[r] EXCEPT !.phase = "verify_again"] \in StagingRow
      BY <1>2, <3>1, RunsTyped, Zenon
    <3>3. QED  BY <2>1, <3>2
  <2>3. /\ run.phase = "verify_again" /\ run.at = d
        /\ run.receipt = staging[r].receipt /\ run.verified = staging[r].verified /\ run.owned = staging[r].owned
    BY <1>2, <2>1 DEF StagingRow
  <2> HIDE DEF run, d
  <2>4. run.phase # "before" /\ run.receipt = staging[r].receipt
    BY <2>3
  <2>5. ~overlapped => JourneyProgress(r, run, databases', role')
    BY <1>3, <1>7, <1>10, <2>3 DEF JourneyProgress, d
  <2>6. QED  BY <1>2, <1>4, <1>5, <1>6, <1>8, <2>2, <2>4, <2>5, RunGoesOn
<1>11. QED  BY <1>1, <1>9, <1>10

\* A journey is recorded with who created its database.
LEMMA VerifiedTyped ==
  ASSUME StagingInv, NEW r \in StagingRuns, NEW what \in {"smoke", "reset"}
  PROVE  /\ Verified(r, what) \in StagingRow
         /\ Verified(r, what).verified =
              staging[r].verified \cup {<<staging[r].at, what, databases[staging[r].at].by>>}
         /\ Verified(r, what).phase = staging[r].phase /\ Verified(r, what).at = staging[r].at
         /\ Verified(r, what).receipt = staging[r].receipt /\ Verified(r, what).owned = staging[r].owned
<1> DEFINE d == staging[r].at
           those == staging[r].verified \cup {<<d, what, databases[d].by>>}
<1>1. staging[r] \in StagingRow /\ d \in Database /\ d \in Nat
  BY OfOneRun, Numbered
<1>2. databases[d].by \in StagingRuns \cup {NoRun}
  BY <1>1, SameCluster DEF DatabaseRow
<1>3. staging[r].verified \in SUBSET Journey
  BY <1>1 DEF StagingRow
<1>4. <<d, what, databases[d].by>> \in Journey
  BY <1>1, <1>2 DEF Journey
<1>5. those \in SUBSET Journey
  BY <1>3, <1>4
<1>6. Verified(r, what) = [staging[r] EXCEPT !.verified = those]
  BY DEF Verified
<1> HIDE DEF those, d
<1>7. [staging[r] EXCEPT !.verified = those] \in StagingRow
  BY <1>1, <1>5, RunsTyped, Zenon
<1>8. Verified(r, what).verified = those
  BY <1>1, <1>6 DEF StagingRow
<1>9. /\ Verified(r, what).phase = staging[r].phase /\ Verified(r, what).at = staging[r].at
      /\ Verified(r, what).receipt = staging[r].receipt /\ Verified(r, what).owned = staging[r].owned
  BY <1>1, <1>6 DEF StagingRow
<1>10. QED  BY <1>6, <1>7, <1>8, <1>9 DEF those, d

\* After a scenario comes the next one, or the end of all.
LEMMA ScenarioEnds ==
  ASSUME NEW r, NEW run \in StagingRow
  PROVE  LET next == AfterScenario(r, run)
             last == run.at = Cardinality(Database)
         IN  /\ next \in StagingRow
             /\ next.phase = (IF last THEN "drop" ELSE "verify") /\ next.at = (IF last THEN 1 ELSE run.at + 1)
             /\ next.receipt = run.receipt /\ next.verified = run.verified /\ next.owned = run.owned
<1>1. run.at \in Database
  BY DEF StagingRow
<1>2. run.at < Cardinality(Database) \/ run.at = Cardinality(Database)
  BY <1>1, Numbered
<1>3. "drop" \in StagingPhase /\ "verify" \in StagingPhase /\ 1 \in Database
  BY PhasesNamed, Numbered
<1>4. CASE run.at < Cardinality(Database)
  <2> DEFINE next == [run EXCEPT !.phase = "verify", !.at = run.at + 1]
  <2>1. run.at + 1 \in Database /\ run.at # Cardinality(Database)
    BY <1>1, <1>4, Numbered
  <2>2. next \in StagingRow
    BY <1>3, <2>1, RunsTyped, Zenon
  <2>3. /\ next.phase = "verify" /\ next.at = run.at + 1
        /\ next.receipt = run.receipt /\ next.verified = run.verified /\ next.owned = run.owned
    BY DEF StagingRow
  <2>4. AfterScenario(r, run) = next
    BY <1>4 DEF AfterScenario
  <2> HIDE DEF next
  <2>5. QED  BY <2>1, <2>2, <2>3, <2>4
<1>5. CASE run.at = Cardinality(Database)
  <2> DEFINE next == [run EXCEPT !.phase = "drop", !.at = 1]
  <2>1. ~(run.at < Cardinality(Database))
    BY <1>5, Numbered
  <2>2. next \in StagingRow
    BY <1>3, RunsTyped, Zenon
  <2>3. /\ next.phase = "drop" /\ next.at = 1
        /\ next.receipt = run.receipt /\ next.verified = run.verified /\ next.owned = run.owned
    BY DEF StagingRow
  <2>4. AfterScenario(r, run) = next
    BY <2>1 DEF AfterScenario
  <2> HIDE DEF next
  <2>5. QED  BY <1>5, <2>2, <2>3, <2>4
<1>6. QED  BY <1>2, <1>4, <1>5

\* The cluster stays as it is, and what holds of the run's new row holds.
LEMMA StagingMoves ==
  ASSUME StagingInv, NEW r \in StagingRuns, UnderWay(r), NEW run \in StagingRow,
         staging' = [staging EXCEPT ![r] = run], run.phase # "before", run.receipt = staging[r].receipt,
         UNCHANGED <<databases, role, overlapped, trespassed>>,
         ~overlapped => JourneyProgress(r, run, databases, role)
  PROVE  StagingInv'
<1>1. /\ databases' \in [Database -> DatabaseRow] /\ role' \in StagingRuns \cup {NoRun}
      /\ \A d \in Database : databases'[d].by \in {databases[d].by, r, NoRun}
      /\ role' \in {role, r, NoRun} /\ trespassed' \in BOOLEAN
  BY SameCluster
<1>2. (~overlapped => JourneyProgress(r, run, databases', role')) /\ (~overlapped => ~trespassed')
  BY OfOneRun
<1>3. QED  BY <1>1, <1>2, RunGoesOn

\* A smoke passes against a migrated database; alone, a run finds its own there.
LEMMA VerifiesStep ==
  ASSUME StagingInv, NEW r \in StagingRuns, Verifies(r)
  PROVE  StagingInv'
<1> DEFINE d == staging[r].at
           once == Verified(r, "smoke")
           again == Verified(r, "reset")
<1>1. /\ staging[r].phase \in {"verify", "verify_again"}
      /\ UNCHANGED <<databases, role, overlapped, trespassed>>
      /\ staging' = [staging EXCEPT ![r] =
           IF In(r, "verify") /\ d \in WithReset THEN [once EXCEPT !.phase = "reset"]
           ELSE AfterScenario(r, IF In(r, "verify") THEN once ELSE again)]
  BY DEF Verifies, RunOf, RestKept
<1>2. staging[r] \in StagingRow /\ d \in Database /\ UnderWay(r)
  BY <1>1, OfOneRun DEF UnderWay
<1>3. ~overlapped => JourneyProgress(r, staging[r], databases, role)
  BY <1>2, OfOneRun
<1>4. ~overlapped => /\ \A c \in Database : databases[c].by = r
                     /\ Owned(r, databases, role) /\ staging[r].owned
  BY <1>1, <1>3 DEF JourneyProgress
<1>5. /\ once \in StagingRow /\ once.verified = staging[r].verified \cup {<<d, "smoke", databases[d].by>>}
      /\ once.phase = staging[r].phase /\ once.at = d /\ once.receipt = staging[r].receipt
      /\ once.owned = staging[r].owned
  BY VerifiedTyped
<1>6. /\ again \in StagingRow /\ again.verified = staging[r].verified \cup {<<d, "reset", databases[d].by>>}
      /\ again.phase = staging[r].phase /\ again.at = d /\ again.receipt = staging[r].receipt
      /\ again.owned = staging[r].owned
  BY VerifiedTyped
<1> HIDE DEF once, again
<1>7. CASE staging[r].phase = "verify" /\ d \in WithReset
  <2> DEFINE run == [once EXCEPT !.phase = "reset"]
  <2>1. staging' = [staging EXCEPT ![r] = run]
    BY <1>1, <1>7 DEF In
  <2>2. run \in StagingRow
    <3>1. "reset" \in StagingPhase
      BY PhasesNamed
    <3>2. QED  BY <1>5, <3>1, RunsTyped, Zenon
  <2>3. /\ run.phase = "reset" /\ run.at = d /\ run.receipt = staging[r].receipt
        /\ run.verified = once.verified /\ run.owned = staging[r].owned
    BY <1>5 DEF StagingRow
  <2> HIDE DEF run
  <2>4. ~overlapped => run.verified = Journeys(r, d) \cup {<<d, "smoke", r>>}
    BY <1>2, <1>3, <1>4, <1>5, <1>7, <2>3 DEF JourneyProgress
  <2>5. ~overlapped => JourneyProgress(r, run, databases, role)
    BY <1>4, <1>7, <2>3, <2>4 DEF JourneyProgress
  <2>6. run.phase # "before" /\ run.receipt = staging[r].receipt
    BY <2>3
  <2>7. QED  BY <1>1, <1>2, <2>1, <2>2, <2>5, <2>6, StagingMoves
<1>8. ASSUME NEW scenario \in StagingRow, scenario.at = d, scenario.receipt = staging[r].receipt,
             scenario.owned = staging[r].owned,
             ~overlapped => scenario.verified = Journeys(r, d + 1),
             staging' = [staging EXCEPT ![r] = AfterScenario(r, scenario)]
      PROVE  StagingInv'
  <2> DEFINE run == AfterScenario(r, scenario)
  <2>1. /\ run \in StagingRow
        /\ run.phase = (IF d = Cardinality(Database) THEN "drop" ELSE "verify")
        /\ run.at = (IF d = Cardinality(Database) THEN 1 ELSE d + 1)
        /\ run.receipt = staging[r].receipt /\ run.verified = scenario.verified /\ run.owned = staging[r].owned
    BY <1>8, ScenarioEnds
  <2>2. staging' = [staging EXCEPT ![r] = run]
    BY <1>8
  <2> HIDE DEF run, d
  <2>3. run.phase # "before" /\ run.receipt = staging[r].receipt /\ run \in StagingRow
    BY <2>1
  <2>4. CASE d = Cardinality(Database)
    <3>1. ~overlapped => run.verified = Everything(r)
      BY <1>2, <1>8, <2>1, <2>4, JourneysGrow
    <3>2. ~overlapped => JourneyProgress(r, run, databases, role)
      BY <1>4, <2>1, <2>4, <3>1 DEF JourneyProgress
    <3>3. QED  BY <1>1, <1>2, <2>2, <2>3, <3>2, StagingMoves
  <2>5. CASE d # Cardinality(Database)
    <3>1. ~overlapped => JourneyProgress(r, run, databases, role)
      BY <1>4, <1>8, <2>1, <2>5 DEF JourneyProgress
    <3>2. QED  BY <1>1, <1>2, <2>2, <2>3, <3>1, StagingMoves
  <2>6. QED  BY <2>4, <2>5
<1>9. CASE staging[r].phase = "verify" /\ d \notin WithReset
  <2>1. staging' = [staging EXCEPT ![r] = AfterScenario(r, once)]
    BY <1>1, <1>9 DEF In
  <2>2. ~overlapped => once.verified = Journeys(r, d) \cup {<<d, "smoke", r>>}
    BY <1>2, <1>3, <1>4, <1>5, <1>9 DEF JourneyProgress
  <2>3. ~overlapped => once.verified = Journeys(r, d + 1)
    BY <1>2, <1>9, <2>2, JourneysGrow
  <2>4. QED  BY <1>5, <1>8, <2>1, <2>3
<1>10. CASE staging[r].phase = "verify_again"
  <2>1. staging' = [staging EXCEPT ![r] = AfterScenario(r, again)]
    BY <1>1, <1>10 DEF In
  <2>2. ~overlapped => /\ d \in WithReset
                       /\ again.verified = Journeys(r, d) \cup {<<d, "smoke", r>>} \cup {<<d, "reset", r>>}
    BY <1>2, <1>3, <1>4, <1>6, <1>10 DEF JourneyProgress
  <2>3. ~overlapped => again.verified = Journeys(r, d + 1)
    BY <1>2, <2>2, JourneysGrow
  <2>4. QED  BY <1>6, <1>8, <2>1, <2>3
<1>11. QED  BY <1>1, <1>7, <1>9, <1>10

\* A database is dropped and created again, not migrated.
LEMMA RecreatesStep ==
  ASSUME StagingInv, NEW r \in StagingRuns, Recreates(r)
  PROVE  StagingInv'
<1> DEFINE d == staging[r].at
           run == [staging[r] EXCEPT !.phase = "migrate_again"]
           new == [by |-> r, migrated |-> FALSE]
<1>1. /\ staging' = [staging EXCEPT ![r] = run] /\ staging[r].phase = "reset"
      /\ databases' = [databases EXCEPT ![d] = new]
      /\ trespassed' = (trespassed \/ (r \notin CleansExisting /\ databases[d].by \notin {r, NoRun}))
      /\ role' = role /\ overlapped' = overlapped
  BY DEF Recreates, RunOf, In, Drops
<1>2. staging[r] \in StagingRow /\ d \in Database /\ UnderWay(r)
  BY <1>1, OfOneRun DEF UnderWay
<1>3. ~overlapped => JourneyProgress(r, staging[r], databases, role) /\ ~trespassed
  BY <1>2, OfOneRun
<1>4. run \in StagingRow
  <2>1. "migrate_again" \in StagingPhase
    BY PhasesNamed
  <2>2. QED  BY <1>2, <2>1, RunsTyped, Zenon
<1>5. /\ run.phase = "migrate_again" /\ run.at = d /\ run.receipt = staging[r].receipt
      /\ run.verified = staging[r].verified /\ run.owned = staging[r].owned
  BY <1>2 DEF StagingRow
<1>6. new \in DatabaseRow /\ new.by = r
  BY DEF DatabaseRow
<1> HIDE DEF run, new
<1>7. /\ databases' \in [Database -> DatabaseRow]
      /\ \A c \in Database : databases'[c].by = IF c = d THEN r ELSE databases[c].by
  BY <1>1, <1>2, <1>6, SameCluster
<1>8. ~overlapped => /\ \A c \in Database : databases[c].by = r
                     /\ Owned(r, databases, role)
  BY <1>1, <1>3 DEF JourneyProgress
<1>9. /\ ~overlapped => ~trespassed'
      /\ trespassed' \in BOOLEAN /\ role' \in StagingRuns \cup {NoRun} /\ role' \in {role, r, NoRun}
  BY <1>1, <1>2, <1>3, <1>8, SameCluster
<1>10. ~overlapped => /\ \A c \in Database : databases'[c].by = r
                      /\ Owned(r, databases', role')
  BY <1>1, <1>7, <1>8 DEF Owned
<1>11. ~overlapped => JourneyProgress(r, run, databases', role')
  BY <1>1, <1>3, <1>5, <1>10 DEF JourneyProgress
<1>12. \A c \in Database : databases'[c].by \in {databases[c].by, r, NoRun}
  BY <1>7
<1>13. staging' = [staging EXCEPT ![r] = run] /\ overlapped' = overlapped /\ run.phase # "before"
  BY <1>1, <1>5
<1>14. run.receipt = staging[r].receipt
  BY <1>5
<1>15. QED  BY <1>2, <1>4, <1>7, <1>9, <1>11, <1>12, <1>13, <1>14, RunGoesOn

\* A run that ends without a passed receipt, or whose process ends.
LEMMA RunEnds ==
  ASSUME StagingInv, NEW r \in StagingRuns, UnderWay(r), NEW run \in StagingRow,
         staging' = [staging EXCEPT ![r] = run], run.phase \in {"ended", "crashed"}, run.receipt # "passed",
         UNCHANGED <<databases, role, overlapped, trespassed>>
  PROVE  StagingInv'
<1>1. /\ databases' \in [Database -> DatabaseRow] /\ role' \in StagingRuns \cup {NoRun}
      /\ \A d \in Database : databases'[d].by \in {databases[d].by, r, NoRun}
      /\ role' \in {role, r, NoRun} /\ trespassed' \in BOOLEAN
  BY SameCluster
<1>2. (~overlapped => JourneyProgress(r, run, databases', role') /\ ~trespassed') /\ Receipted(r, run, databases', role')
  BY OfOneRun DEF JourneyProgress, Receipted
<1>3. run.phase # "before"
  OBVIOUS
<1>4. QED  BY <1>1, <1>2, <1>3, OneRunSteps

\* A run that failed goes on to destroy what it owns.
LEMMA RunFails ==
  ASSUME StagingInv, NEW r \in StagingRuns, UnderWay(r),
         staging' = [staging EXCEPT ![r] = FailedRun],
         databases' \in [Database -> DatabaseRow], role' \in StagingRuns \cup {NoRun},
         \A d \in Database : databases'[d].by \in {databases[d].by, r, NoRun},
         role' \in {role, r, NoRun},
         overlapped' = overlapped, trespassed' \in BOOLEAN,
         ~overlapped => ~trespassed' /\ (r \in CleansExisting \/ Owned(r, databases', role'))
  PROVE  StagingInv'
<1>1. FailedRun.phase = "drop" /\ FailedRun.failed /\ FailedRun.receipt = "none"
  BY DEF FailedRun, IdleRun
<1>2. FailedRun \in StagingRow
  BY IdleRunTyped
<1>3. (~overlapped => JourneyProgress(r, FailedRun, databases', role')) /\ Receipted(r, FailedRun, databases', role')
  BY <1>1 DEF JourneyProgress, Receipted
<1>4. FailedRun.phase # "before" /\ FailedRun.receipt # "passed"
  BY <1>1
<1>5. QED  BY <1>2, <1>3, <1>4, OneRunSteps

\* A run refused before it owned anything.
LEMMA EndedRunTyped ==
  /\ [IdleRun EXCEPT !.phase = "ended", !.receipt = "failed"] \in StagingRow
  /\ [IdleRun EXCEPT !.phase = "crashed"] \in StagingRow
<1>1. "ended" \in StagingPhase /\ "crashed" \in StagingPhase /\ {} \in SUBSET Journey
      /\ "failed" \in {"none", "passed", "failed", "invalid"}
  BY PhasesNamed
<1>2. QED  BY <1>1, IdleRunTyped, Zenon

\* A run that finds an environment it may not clean ends with a failed receipt.
LEMMA RefusesRunStep ==
  ASSUME StagingInv, NEW r \in StagingRuns, Refuses(r)
  PROVE  StagingInv'
<1> DEFINE run == [IdleRun EXCEPT !.phase = "ended", !.receipt = "failed"]
<1>1. /\ staging' = [staging EXCEPT ![r] = run] /\ staging[r].phase = "preflight"
      /\ UNCHANGED <<databases, role, overlapped, trespassed>>
  BY DEF Refuses, RunOf, In, RestKept
<1>2. run \in StagingRow
  BY EndedRunTyped
<1>3. run.phase = "ended" /\ run.receipt = "failed"
  BY DEF IdleRun
<1> HIDE DEF run
<1>4. UnderWay(r)
  BY <1>1 DEF UnderWay
<1>5. QED  BY <1>1, <1>2, <1>3, <1>4, RunEnds

\* A step fails: what is owned is to be destroyed, and the receipt will be failed.
LEMMA StopsStep ==
  ASSUME StagingInv, NEW r \in StagingRuns, Stops(r)
  PROVE  StagingInv'
<1> DEFINE run == [IdleRun EXCEPT !.phase = "ended", !.receipt = "failed"]
<1>1. /\ staging' = [staging EXCEPT ![r] = IF staging[r].owned THEN FailedRun ELSE run]
      /\ staging[r].phase \in Working
      /\ UNCHANGED <<databases, role, overlapped, trespassed>>
  BY DEF Stops, RunOf, RestKept
<1>2. run \in StagingRow
  BY EndedRunTyped
<1>3. run.phase = "ended" /\ run.receipt = "failed"
  BY DEF IdleRun
<1> HIDE DEF run
<1>4. UnderWay(r)
  BY <1>1 DEF UnderWay, Working
<1>5. CASE staging[r].owned
  <2>1. ~overlapped => Owned(r, databases, role) /\ ~trespassed
    BY <1>1, <1>4, <1>5, OfOneRun DEF JourneyProgress, Working
  <2>2. staging' = [staging EXCEPT ![r] = FailedRun]
    BY <1>1, <1>5
  <2>3. /\ databases' \in [Database -> DatabaseRow] /\ role' \in StagingRuns \cup {NoRun}
        /\ \A d \in Database : databases'[d].by \in {databases[d].by, r, NoRun}
        /\ role' \in {role, r, NoRun} /\ trespassed' \in BOOLEAN
    BY <1>1, SameCluster
  <2>4. ~overlapped => ~trespassed' /\ Owned(r, databases', role')
    BY <1>1, <2>1
  <2>5. overlapped' = overlapped
    BY <1>1
  <2>6. QED  BY <1>4, <2>2, <2>3, <2>4, <2>5, RunFails
<1>6. CASE ~staging[r].owned
  <2>1. staging' = [staging EXCEPT ![r] = run]
    BY <1>1, <1>6
  <2>2. QED  BY <1>1, <1>2, <1>3, <1>4, <2>1, RunEnds
<1>7. QED  BY <1>5, <1>6

\* A step fails after a part of it was done: some databases are cleaned, one is
\* dropped and not created again, or the role is there already.
LEMMA StopsHalfwayStep ==
  ASSUME StagingInv, NEW r \in StagingRuns, StopsHalfway(r)
  PROVE  StagingInv'
<1> DEFINE d == staging[r].at
<1>1. staging' = [staging EXCEPT ![r] = FailedRun] /\ overlapped' = overlapped
  BY DEF StopsHalfway, RunOf
<1>2. staging[r].phase \in {"preflight", "reset", "migrate", "migrate_again"}
  BY DEF StopsHalfway, In
<1>3. UnderWay(r) /\ d \in Database
  BY <1>2, OfOneRun DEF UnderWay
<1>4. ~overlapped => JourneyProgress(r, staging[r], databases, role) /\ ~trespassed
  BY <1>3, OfOneRun
<1>5. /\ databases \in [Database -> DatabaseRow] /\ role \in StagingRuns \cup {NoRun} /\ trespassed \in BOOLEAN
      /\ NoDatabase \in DatabaseRow /\ NoDatabase.by = NoRun
  BY SameCluster DEF NoDatabase, DatabaseRow
<1>6. CASE /\ r \in CleansExisting
           /\ \E gone \in SUBSET Database :
                databases' = [c \in Database |-> IF c \in gone THEN NoDatabase ELSE databases[c]]
           /\ role' \in {role, NoRun} /\ trespassed' = trespassed
  <2>1. PICK gone \in SUBSET Database :
          databases' = [c \in Database |-> IF c \in gone THEN NoDatabase ELSE databases[c]]
    BY <1>6
  <2>2. /\ databases' \in [Database -> DatabaseRow]
        /\ \A c \in Database : databases'[c].by \in {databases[c].by, r, NoRun}
    BY <1>5, <2>1
  <2>3. role' \in StagingRuns \cup {NoRun} /\ role' \in {role, r, NoRun} /\ trespassed' \in BOOLEAN
    BY <1>5, <1>6
  <2>4. ~overlapped => ~trespassed'
    BY <1>4, <1>6
  <2>5. QED  BY <1>1, <1>3, <1>6, <2>2, <2>3, <2>4, RunFails
<1>7. CASE /\ staging[r].phase = "reset" /\ databases' = [databases EXCEPT ![d] = NoDatabase]
           /\ Drops(r, databases[d].by) /\ role' = role
  <2>1. /\ databases' \in [Database -> DatabaseRow]
        /\ \A c \in Database : databases'[c].by = IF c = d THEN NoRun ELSE databases[c].by
    BY <1>3, <1>5, <1>7
  <2>2. ~overlapped => databases[d].by = r /\ Owned(r, databases, role)
    BY <1>3, <1>4, <1>7 DEF JourneyProgress
  <2>3. trespassed' = (trespassed \/ (r \notin CleansExisting /\ databases[d].by \notin {r, NoRun}))
    BY <1>7 DEF Drops
  <2>4. ~overlapped => ~trespassed' /\ Owned(r, databases', role')
    BY <1>4, <1>7, <2>1, <2>2, <2>3 DEF Owned
  <2>5. /\ \A c \in Database : databases'[c].by \in {databases[c].by, r, NoRun}
        /\ role' \in StagingRuns \cup {NoRun} /\ role' \in {role, r, NoRun} /\ trespassed' \in BOOLEAN
    BY <1>5, <1>7, <2>1, <2>3
  <2>6. QED  BY <1>1, <1>3, <2>1, <2>4, <2>5, RunFails
<1>8. CASE /\ staging[r].phase \in {"migrate", "migrate_again"} /\ role' = r
           /\ databases' = databases /\ trespassed' = trespassed
  <2>1. ~overlapped => ~trespassed' /\ Owned(r, databases', role')
    BY <1>4, <1>8 DEF JourneyProgress, Owned
  <2>2. /\ databases' \in [Database -> DatabaseRow]
        /\ \A c \in Database : databases'[c].by \in {databases[c].by, r, NoRun}
        /\ role' \in StagingRuns \cup {NoRun} /\ role' \in {role, r, NoRun} /\ trespassed' \in BOOLEAN
    BY <1>5, <1>8
  <2>3. QED  BY <1>1, <1>3, <2>1, <2>2, RunFails
<1>9. QED  BY <1>6, <1>7, <1>8 DEF StopsHalfway, In

\* The process ends anywhere, and no receipt is written.
LEMMA RunCrashesStep ==
  ASSUME StagingInv, NEW r \in StagingRuns, RunCrashes(r)
  PROVE  StagingInv'
<1> DEFINE run == [IdleRun EXCEPT !.phase = "crashed"]
<1>1. /\ staging' = [staging EXCEPT ![r] = run] /\ UnderWay(r)
      /\ UNCHANGED <<databases, role, overlapped, trespassed>>
  BY DEF RunCrashes, RunOf, RestKept
<1>2. run \in StagingRow
  BY EndedRunTyped
<1>3. run.phase = "crashed" /\ run.receipt = "none"
  BY DEF IdleRun
<1> HIDE DEF run
<1>4. QED  BY <1>1, <1>2, <1>3, RunEnds

\* A step of the cleanup: what is dropped was the run's own, or it may clean, and what
\* the run has verified stays.
LEMMA RunDrops ==
  ASSUME StagingInv, NEW r \in StagingRuns, staging[r].phase \in {"drop", "drop_role"}, NEW run \in StagingRow,
         staging' = [staging EXCEPT ![r] = run], run.phase \in {"drop", "drop_role", "check"},
         run.receipt = staging[r].receipt, run.verified = staging[r].verified, run.failed = staging[r].failed,
         databases' \in [Database -> DatabaseRow], role' \in StagingRuns \cup {NoRun},
         \A d \in Database : databases'[d].by \in {databases[d].by, NoRun},
         role' \in {role, NoRun}, overlapped' = overlapped,
         NEW by, Owned(r, databases, role) => by \in {r, NoRun},
         trespassed' = trespassed \/ Drops(r, by)
  PROVE  StagingInv'
<1>1. UnderWay(r)
  BY DEF UnderWay
<1>2. ~overlapped => JourneyProgress(r, staging[r], databases, role) /\ ~trespassed
  BY <1>1, OfOneRun
<1>3. ~overlapped => /\ run.failed \/ run.verified = Everything(r)
                     /\ r \in CleansExisting \/ Owned(r, databases, role)
  BY <1>2 DEF JourneyProgress
<1>4. Owned(r, databases, role) => Owned(r, databases', role')
  BY DEF Owned
<1>5. ~overlapped => JourneyProgress(r, run, databases', role')
  BY <1>3, <1>4 DEF JourneyProgress
<1>6. trespassed' \in BOOLEAN
  BY SameCluster DEF Drops
<1>7. ~overlapped => ~trespassed'
  BY <1>2, <1>3 DEF Drops
<1>8. /\ \A d \in Database : databases'[d].by \in {databases[d].by, r, NoRun}
      /\ role' \in {role, r, NoRun} /\ run.phase # "before"
  OBVIOUS
<1>9. QED  BY <1>1, <1>5, <1>6, <1>7, <1>8, RunGoesOn

\* The finally block drops a database, and counts it only when it was there.
LEMMA DropsDatabaseStep ==
  ASSUME StagingInv, NEW r \in StagingRuns, DropsDatabase(r)
  PROVE  StagingInv'
<1> DEFINE d == Cardinality(Database) + 1 - staging[r].at
           gone == databases' = [databases EXCEPT ![d] = NoDatabase] /\ Drops(r, databases[d].by)
           counted == Counts(r, d, databases[d] # NoDatabase).destroyed
           next == Onward(r, "drop_role")
           run == [next EXCEPT !.destroyed = counted]
<1>1. /\ staging[r].phase = "drop" /\ role' = role /\ overlapped' = overlapped
      /\ \/ gone /\ staging' = [staging EXCEPT ![r] = run]
         \/ (gone \/ UNCHANGED <<databases, trespassed>>) /\ staging' = [staging EXCEPT ![r] = next]
  BY DEF DropsDatabase, RunOf, In
<1>2. staging[r] \in StagingRow /\ staging[r].at \in Database
  BY OfOneRun
<1>3. d \in Database
  BY <1>2, Numbered
<1>4. /\ next \in StagingRow /\ next.phase \in {"drop", "drop_role"} /\ next.receipt = staging[r].receipt
      /\ next.verified = staging[r].verified /\ next.failed = staging[r].failed
  BY <1>1, OnwardGoes, PhasesNamed
<1>5. counted \in SUBSET (Database \cup {TheRole})
  BY <1>2, <1>3 DEF Counts, StagingRow
<1> HIDE DEF next, counted
<1>6. run \in StagingRow
  BY <1>4, <1>5, RunsTyped, Zenon
<1>7. /\ run.phase \in {"drop", "drop_role"} /\ run.receipt = staging[r].receipt
      /\ run.verified = staging[r].verified /\ run.failed = staging[r].failed
  BY <1>4 DEF StagingRow
<1> HIDE DEF run, d
<1>8. /\ databases \in [Database -> DatabaseRow] /\ role \in StagingRuns \cup {NoRun}
      /\ NoDatabase \in DatabaseRow /\ NoDatabase.by = NoRun
  BY SameCluster DEF NoDatabase, DatabaseRow
<1>9. /\ databases' \in [Database -> DatabaseRow]
      /\ \A c \in Database : databases'[c].by \in {databases[c].by, NoRun}
  <2>1. CASE databases' = [databases EXCEPT ![d] = NoDatabase]
    BY <1>3, <1>8, <2>1
  <2>2. CASE databases' = databases
    BY <1>8, <2>2
  <2>3. QED  BY <1>1, <2>1, <2>2
<1>10. trespassed' = trespassed \/ Drops(r, databases[d].by)
  BY <1>1
<1>11. Owned(r, databases, role) => databases[d].by \in {r, NoRun}
  BY <1>3 DEF Owned
<1>12. role' \in StagingRuns \cup {NoRun} /\ role' \in {role, NoRun}
  BY <1>1, <1>8
<1>13. CASE staging' = [staging EXCEPT ![r] = run]
  BY <1>1, <1>6, <1>7, <1>9, <1>10, <1>11, <1>12, <1>13, RunDrops
<1>14. CASE staging' = [staging EXCEPT ![r] = next]
  BY <1>1, <1>4, <1>9, <1>10, <1>11, <1>12, <1>14, RunDrops
<1>15. QED  BY <1>1, <1>13, <1>14

\* The finally block drops the role, and counts it only when it was there.
LEMMA DropsRoleStep ==
  ASSUME StagingInv, NEW r \in StagingRuns, DropsRole(r)
  PROVE  StagingInv'
<1> DEFINE gone == role' = NoRun /\ Drops(r, role)
           counted == Counts(r, TheRole, role # NoRun).destroyed
           next == [staging[r] EXCEPT !.phase = "check"]
           run == [staging[r] EXCEPT !.phase = "check", !.destroyed = counted]
<1>1. /\ staging[r].phase = "drop_role" /\ databases' = databases /\ overlapped' = overlapped
      /\ \/ gone /\ staging' = [staging EXCEPT ![r] = run]
         \/ (gone \/ UNCHANGED <<role, trespassed>>) /\ staging' = [staging EXCEPT ![r] = next]
  BY DEF DropsRole, RunOf, In
<1>2. staging[r] \in StagingRow /\ "check" \in StagingPhase
  BY OfOneRun, PhasesNamed
<1>3. counted \in SUBSET (Database \cup {TheRole})
  BY <1>2 DEF Counts, StagingRow
<1> HIDE DEF counted
<1>4. next \in StagingRow /\ run \in StagingRow
  BY <1>2, <1>3, RunsTyped, Zenon
<1>5. /\ next.phase = "check" /\ next.receipt = staging[r].receipt
      /\ next.verified = staging[r].verified /\ next.failed = staging[r].failed
  BY <1>2 DEF StagingRow
<1>6. /\ run.phase = "check" /\ run.receipt = staging[r].receipt
      /\ run.verified = staging[r].verified /\ run.failed = staging[r].failed
  BY <1>2 DEF StagingRow
<1> HIDE DEF next, run
<1>7. /\ databases \in [Database -> DatabaseRow] /\ role \in StagingRuns \cup {NoRun}
  BY SameCluster
<1>8. /\ databases' \in [Database -> DatabaseRow] /\ role' \in StagingRuns \cup {NoRun} /\ role' \in {role, NoRun}
      /\ \A c \in Database : databases'[c].by \in {databases[c].by, NoRun}
  BY <1>1, <1>7
<1>9. trespassed' = trespassed \/ Drops(r, role)
  BY <1>1
<1>10. Owned(r, databases, role) => role \in {r, NoRun}
  BY DEF Owned
<1>11. CASE staging' = [staging EXCEPT ![r] = run]
  BY <1>1, <1>4, <1>6, <1>8, <1>9, <1>10, <1>11, RunDrops
<1>12. CASE staging' = [staging EXCEPT ![r] = next]
  BY <1>1, <1>4, <1>5, <1>8, <1>9, <1>10, <1>12, RunDrops
<1>13. QED  BY <1>1, <1>11, <1>12

\* The receipt is passed only when the cluster is empty and as much was destroyed
\* as is created.
LEMMA ChecksEndStep ==
  ASSUME StagingInv, NEW r \in StagingRuns, ChecksEnd(r)
  PROVE  StagingInv'
<1>1. /\ staging[r].phase = "check" /\ UNCHANGED <<databases, role, overlapped, trespassed>>
      /\ UnderWay(r) /\ staging[r] \in StagingRow
  BY OfOneRun DEF ChecksEnd, In, RestKept, UnderWay
<1>2. PICK complete \in {Complete, FALSE} :
        staging' = [staging EXCEPT ![r] = [IdleRun EXCEPT !.phase = "ended", !.receipt = Receipt(r, complete),
                                                         !.verified = staging[r].verified]]
  BY DEF ChecksEnd, RunOf
<1> DEFINE receipt == Receipt(r, complete)
           run == [IdleRun EXCEPT !.phase = "ended", !.receipt = receipt, !.verified = staging[r].verified]
<1>3. receipt = "passed" => ~staging[r].failed /\ ~Exists
  BY <1>2 DEF Receipt, Complete
<1>4. receipt \in {"none", "passed", "failed", "invalid"}
  BY DEF Receipt
<1> HIDE DEF receipt
<1>5. "ended" \in StagingPhase /\ staging[r].verified \in SUBSET Journey
  BY <1>1, PhasesNamed DEF StagingRow
<1>6. run \in StagingRow
  BY <1>4, <1>5, IdleRunTyped, Zenon
<1>7. run.phase = "ended" /\ run.receipt = receipt /\ run.verified = staging[r].verified
  BY DEF IdleRun
<1>8. staging' = [staging EXCEPT ![r] = run]
  BY <1>2 DEF receipt
<1> HIDE DEF run
<1>9. Receipted(r, run, databases', role')
  <2>1. ~Exists => role = NoRun /\ \A d \in Database : databases[d] = NoDatabase
    BY DEF Exists
  <2>2. NoDatabase.by = NoRun /\ NoRun # r
    BY StagingConstants DEF NoDatabase
  <2>3. QED  BY <1>1, <1>3, <1>7, <2>1, <2>2 DEF Receipted
<1>10. ~overlapped => JourneyProgress(r, staging[r], databases, role) /\ ~trespassed
  BY <1>1, OfOneRun
<1>11. run.receipt = "passed" /\ ~overlapped => run.verified = Everything(r)
  BY <1>1, <1>3, <1>7, <1>10 DEF JourneyProgress
<1>12. ~overlapped => JourneyProgress(r, run, databases', role') /\ ~trespassed'
  BY <1>1, <1>7, <1>10 DEF JourneyProgress
<1>13. /\ databases' \in [Database -> DatabaseRow] /\ role' \in StagingRuns \cup {NoRun}
       /\ \A d \in Database : databases'[d].by \in {databases[d].by, r, NoRun}
       /\ role' \in {role, r, NoRun} /\ trespassed' \in BOOLEAN /\ overlapped' = overlapped
       /\ run.phase # "before"
  BY <1>1, <1>7, SameCluster
<1>14. QED  BY <1>1, <1>6, <1>8, <1>9, <1>11, <1>12, <1>13, OneRunSteps

\* The cluster is empty and no run has started.
LEMMA StagingInitially == StagingInit => StagingInv
<1> SUFFICES ASSUME StagingInit PROVE StagingInv
  OBVIOUS
<1>1. /\ staging = [r \in StagingRuns |-> IdleRun] /\ databases = [d \in Database |-> NoDatabase]
      /\ role = NoRun /\ overlapped = FALSE /\ trespassed = FALSE
  BY DEF StagingInit
<1>2. NoDatabase \in DatabaseRow
  BY DEF NoDatabase, DatabaseRow
<1>3. IdleRun \in StagingRow
  BY IdleRunTyped
<1>4. IdleRun.phase = "before" /\ IdleRun.receipt = "none"
  BY DEF IdleRun
<1>5. StagingShapes
  BY <1>1, <1>2, <1>3 DEF StagingShapes
<1>6. \A r \in StagingRuns : staging[r] = IdleRun
  BY <1>1
<1>7. Untouched /\ OneAtATime /\ Receipts
  BY <1>1, <1>4, <1>6 DEF Untouched, OneAtATime, Alone, UnderWay, Receipts, Receipted
<1>8. QED  BY <1>5, <1>7 DEF StagingInv

\* Every step of every run keeps the invariant.
LEMMA StagingStep == StagingInv /\ [StagingNext]_stagingVars => StagingInv'
<1> SUFFICES ASSUME StagingInv, [StagingNext]_stagingVars PROVE StagingInv'
  OBVIOUS
<1>1. ASSUME NEW r \in StagingRuns,
             \/ StartRun(r) \/ Owns(r) \/ Refuses(r) \/ Creates(r) \/ Migrates(r) \/ Verifies(r) \/ Recreates(r)
             \/ Stops(r) \/ StopsHalfway(r) \/ DropsDatabase(r) \/ DropsRole(r) \/ ChecksEnd(r) \/ RunCrashes(r)
      PROVE  StagingInv'
  BY <1>1, StartRunStep, OwnsStep, RefusesRunStep, CreatesStep, MigratesStep, VerifiesStep, RecreatesStep,
     StopsStep, StopsHalfwayStep, DropsDatabaseStep, DropsRoleStep, ChecksEndStep, RunCrashesStep
<1>2. CASE UNCHANGED stagingVars
  BY <1>2 DEF stagingVars, StagingInv, StagingShapes, Untouched, OneAtATime, Alone, UnderWay, JourneyProgress, Owned,
              Receipts, Receipted
<1>3. QED  BY <1>1, <1>2 DEF StagingNext

\* The invariant holds of every behaviour, whatever fails and however many runs there are.
THEOREM StagingInvariant == StagingSpec => []StagingInv
<1>1. StagingInit => StagingInv
  BY StagingInitially
<1>2. StagingInv /\ [StagingNext]_stagingVars => StagingInv'
  BY StagingStep
<1>3. QED  BY <1>1, <1>2, PTL DEF StagingSpec

\* Databases, the role and the runs have their types in every behaviour.
THEOREM StagingTypes == StagingSpec => []StagingTypeOK
<1>1. StagingInv => StagingTypeOK
  BY DEF StagingInv, StagingShapes, StagingTypeOK, StagingRow, StagingPhase, DatabaseRow
<1>2. QED  BY <1>1, StagingInvariant, PTL

\* Nothing that a run with a passed receipt created is left, ever; unless two runs were
\* under way at once, every journey it claims ran against a database it had created
\* itself, and a run without STAGING_CLEAN_EXISTING drops nothing of another's
\* (ephemeralStagingRunner.ts).
THEOREM StagingReceipts == StagingSpec => []ReceiptsHold
<1>1. StagingInv => ReceiptsHold
  BY DEF StagingInv, OneAtATime, Receipts, Receipted, ReceiptsHold
<1>2. QED  BY <1>1, StagingInvariant, PTL

-------------------------------------------------------------------------------
(***************************************************************************)
(* HtmlAcquisition                                                         *)
(***************************************************************************)

\* The columns of a run.
AcquiringRow ==
  [phase : {"before", "fetch", "html", "sections", "ended"}, next : Nat \ {0}, now : Named,
   found : [Source -> Named], base : [Source -> Named]]

\* The files, the inventory and the runs have their columns.
HtmlShapes ==
  /\ published \in [PathOf -> [html : Pages \cup {NoPage}, sections : Named]]
  /\ inventory \in [Source -> Named]
  /\ acquiring \in [Run -> AcquiringRow]

\* What a record names was clean, and is under its hash with its sections.
Snapshot(s, named, those) ==
  named # NotAcquired =>
    /\ named.page \in Pages \ Sick
    /\ those[<<s, named.page>>] = [html |-> named.page, sections |-> named]

\* What a run holds: the records it read and made, and the page in hand.
Acquired(r, run, those) ==
  /\ \A s \in Source : Snapshot(s, run.found[s], those) /\ Snapshot(s, run.base[s], those)
  /\ run.phase \in {"html", "sections"} =>
       run.next <= Len(PlanOf[r]) /\ run.now.page \in Pages \ Sick
  /\ run.phase = "sections" => those[<<PlanOf[r][run.next], run.now.page>>].html = run.now.page

\* The inductive invariant of the acquisition.
HtmlInv ==
  /\ HtmlShapes
  /\ \A s \in Source : Snapshot(s, inventory[s], published)
  /\ \A r \in Run : Acquired(r, acquiring[r], published)

\* A step that only adds to what is published keeps every snapshot.
Kept(those) ==
  \A p \in PathOf :
    /\ published[p].html = p[2] => those[p].html = p[2]
    /\ published[p].html = p[2] /\ published[p].sections # NotAcquired => those[p].sections = published[p].sections

\* A record names a page and the address it came from; the empty one names none.
LEMMA NamedTyped ==
  /\ NotAcquired \in Named /\ NotAcquired.page = NoPage
  /\ \A n \in Named : n.page \in Pages \cup {NoPage} /\ n = [page |-> n.page, url |-> n.url]
BY DEF Named, NotAcquired

\* The columns of a run.
LEMMA RunTyped ==
  ASSUME NEW run \in AcquiringRow
  PROVE  /\ run.phase \in {"before", "fetch", "html", "sections", "ended"} /\ run.next \in Nat \ {0}
         /\ run.now \in Named /\ run.found \in [Source -> Named] /\ run.base \in [Source -> Named]
BY DEF AcquiringRow

\* acquireSourcePackHtml before it has read anything.
LEMMA UnstartedTyped ==
  /\ Unstarted \in AcquiringRow /\ Unstarted.phase = "before"
  /\ \A s \in Source : Unstarted.found[s] = NotAcquired /\ Unstarted.base[s] = NotAcquired
BY NamedTyped DEF Unstarted, AcquiringRow

\* What a record names stays published when what is published only grows.
LEMMA SnapshotKept ==
  ASSUME HtmlShapes, NEW those, Kept(those), those \in [PathOf -> [html : Pages \cup {NoPage}, sections : Named]],
         NEW s \in Source, NEW named \in Named, Snapshot(s, named, published)
  PROVE  Snapshot(s, named, those)
<1> SUFFICES ASSUME named # NotAcquired  PROVE Snapshot(s, named, those)
  BY DEF Snapshot
<1>1. named.page \in Pages \ Sick /\ published[<<s, named.page>>] = [html |-> named.page, sections |-> named]
  BY DEF Snapshot
<1> DEFINE p == <<s, named.page>>
<1>2. p \in PathOf /\ p[2] = named.page
  BY <1>1 DEF PathOf
<1>3. published[p].html = p[2] /\ published[p].sections = named
  BY <1>1, <1>2
<1>4. those[p].html = p[2] /\ those[p].sections = named
  BY <1>2, <1>3 DEF Kept
<1>5. those[p] \in [html : Pages \cup {NoPage}, sections : Named]
  BY <1>2
<1>6. those[p] = [html |-> named.page, sections |-> named]
  BY <1>2, <1>4, <1>5
<1>7. QED  BY <1>1, <1>6 DEF Snapshot

\* One run steps, what is published only grows, and the inventory holds.
LEMMA OneRunMoves ==
  ASSUME HtmlInv, NEW r \in Run, NEW run \in AcquiringRow,
         acquiring' = [acquiring EXCEPT ![r] = run],
         published' \in [PathOf -> [html : Pages \cup {NoPage}, sections : Named]], Kept(published'),
         inventory' \in [Source -> Named], \A s \in Source : Snapshot(s, inventory'[s], published'),
         Acquired(r, run, published')
  PROVE  HtmlInv'
<1>1. acquiring \in [Run -> AcquiringRow] /\ acquiring' \in [Run -> AcquiringRow] /\ HtmlShapes
  BY DEF HtmlInv, HtmlShapes
<1>2. HtmlShapes'
  BY <1>1 DEF HtmlShapes, PathOf, Named, Pages, AcquiringRow
<1>3. \A t \in Run : Acquired(t, acquiring[t], published)'
  <2> TAKE t \in Run
  <2>1. CASE t = r
    BY <1>1, <2>1 DEF Acquired
  <2>2. CASE t # r
    <3> DEFINE row == acquiring[t]
    <3>1. row \in AcquiringRow /\ acquiring'[t] = row /\ Acquired(t, row, published)
      BY <1>1, <2>2 DEF HtmlInv
    <3> HIDE DEF row
    <3>2. row.found \in [Source -> Named] /\ row.base \in [Source -> Named] /\ row.now \in Named /\ row.next \in Nat \ {0}
      BY <3>1, RunTyped
    <3>3. \A s \in Source : Snapshot(s, row.found[s], published') /\ Snapshot(s, row.base[s], published')
      <4> TAKE s \in Source
      <4>1. Snapshot(s, row.found[s], published) /\ Snapshot(s, row.base[s], published)
        BY <3>1 DEF Acquired
      <4>2. row.found[s] \in Named /\ row.base[s] \in Named
        BY <3>2
      <4>3. QED  BY <1>1, <4>1, <4>2, SnapshotKept
    <3>4. ASSUME row.phase = "sections"
          PROVE  published'[<<PlanOf[t][row.next], row.now.page>>].html = row.now.page
      <4> DEFINE p == <<PlanOf[t][row.next], row.now.page>>
      <4>1. /\ row.next <= Len(PlanOf[t]) /\ row.now.page \in Pages /\ published[p].html = row.now.page
        BY <3>1, <3>4 DEF Acquired
      <4>2. row.next \in 1..Len(PlanOf[t])
        BY <3>2, <4>1
      <4>3. p \in PathOf /\ p[2] = row.now.page
        BY <4>1, <4>2, HtmlConstants DEF PathOf
      <4>4. QED  BY <4>1, <4>3 DEF Kept
    <3>5. Acquired(t, row, published')
      BY <3>1, <3>3, <3>4 DEF Acquired
    <3>6. QED  BY <3>1, <3>5
  <2>3. QED  BY <2>1, <2>2
<1>4. QED  BY <1>2, <1>3 DEF HtmlInv

\* Nothing is published, no record names a page and no run has begun.
LEMMA Starts ==
  ASSUME HtmlInit
  PROVE  HtmlInv
<1> DEFINE run == Unstarted
<1>1. /\ published = [p \in PathOf |-> [html |-> NoPage, sections |-> NotAcquired]]
      /\ inventory = [s \in Source |-> NotAcquired] /\ acquiring = [r \in Run |-> run]
  BY DEF HtmlInit
<1>2. run \in AcquiringRow /\ run.phase = "before" /\ \A s \in Source : run.found[s] = NotAcquired /\ run.base[s] = NotAcquired
  BY UnstartedTyped
<1> HIDE DEF run
<1>3. HtmlShapes
  BY <1>1, <1>2, NamedTyped DEF HtmlShapes
<1>4. \A s \in Source : Snapshot(s, inventory[s], published)
  BY <1>1 DEF Snapshot
<1>5. \A r \in Run : Acquired(r, acquiring[r], published)
  BY <1>1, <1>2 DEF Acquired, Snapshot
<1>6. QED  BY <1>3, <1>4, <1>5 DEF HtmlInv

\* A step that publishes nothing keeps what every record names.
LEMMA NothingPublished ==
  ASSUME HtmlInv, UNCHANGED published
  PROVE  /\ published' \in [PathOf -> [html : Pages \cup {NoPage}, sections : Named]] /\ Kept(published')
         /\ \A s \in Source : Snapshot(s, inventory[s], published')
BY DEF HtmlInv, HtmlShapes, Kept

\* What the invariant says of one run.
LEMMA OfRun ==
  ASSUME HtmlInv, NEW r \in Run
  PROVE  /\ acquiring[r] \in AcquiringRow /\ inventory \in [Source -> Named]
         /\ published \in [PathOf -> [html : Pages \cup {NoPage}, sections : Named]]
         /\ Acquired(r, acquiring[r], published)
BY DEF HtmlInv, HtmlShapes

\* A run reads the inventory as it starts, and takes its records over.
LEMMA BeginsStep ==
  ASSUME HtmlInv, NEW r \in Run, Begins(r)
  PROVE  HtmlInv'
<1> DEFINE run == [Unstarted EXCEPT !.phase = "fetch", !.base = inventory]
<1>1. acquiring' = [acquiring EXCEPT ![r] = run] /\ UNCHANGED <<published, inventory>>
  BY DEF Begins, RunMoves
<1>2. /\ run \in AcquiringRow /\ run.phase = "fetch" /\ run.base = inventory
      /\ \A s \in Source : run.found[s] = NotAcquired
  <2>1. inventory \in [Source -> Named]
    BY OfRun
  <2>2. QED  BY <2>1, UnstartedTyped DEF AcquiringRow
<1> HIDE DEF run
<1>3. Acquired(r, run, published')
  BY <1>1, <1>2 DEF HtmlInv, Acquired, Snapshot
<1>4. QED  BY <1>1, <1>2, <1>3, OfRun, NothingPublished, OneRunMoves

\* A page is fetched from an allowed host and is not sick.
LEMMA FetchesStep ==
  ASSUME HtmlInv, NEW r \in Run, NEW chain \in Chains, Fetches(r, chain)
  PROVE  HtmlInv'
<1> DEFINE met == [page |-> Last(chain).answer, url |-> Last(chain).url]
           run == [acquiring[r] EXCEPT !.phase = "html", !.now = met]
<1>1. /\ acquiring' = [acquiring EXCEPT ![r] = run] /\ UNCHANGED <<published, inventory>>
      /\ acquiring[r].next <= Len(PlanOf[r]) /\ Last(chain).answer \in Pages \ Sick
  BY DEF Fetches, RunMoves, InPhase, Fetched
<1>2. met \in Named /\ met.page \in Pages \ Sick
  BY <1>1 DEF Named
<1> HIDE DEF met
<1>3. acquiring[r] \in AcquiringRow /\ Acquired(r, acquiring[r], published)
  BY OfRun
<1>4. /\ run \in AcquiringRow /\ run.phase = "html" /\ run.now = met /\ run.found = acquiring[r].found
      /\ run.base = acquiring[r].base /\ run.next = acquiring[r].next
  BY <1>2, <1>3 DEF AcquiringRow
<1> HIDE DEF run
<1>5. Acquired(r, run, published')
  BY <1>1, <1>2, <1>3, <1>4 DEF Acquired
<1>6. QED  BY <1>1, <1>4, <1>5, OfRun, NothingPublished, OneRunMoves

\* The run goes on to the next source with the records it has.
LEMMA NextTyped ==
  ASSUME HtmlInv, NEW r \in Run
  PROVE  LET run == NextSource(r)
         IN  /\ run \in AcquiringRow /\ run.phase = "fetch"
             /\ run.found = acquiring[r].found /\ run.base = acquiring[r].base
<1>1. acquiring[r] \in AcquiringRow
  BY OfRun
<1>2. acquiring[r].next + 1 \in Nat \ {0} /\ NotAcquired \in Named
  BY <1>1, RunTyped, NamedTyped
<1>3. QED  BY <1>1, <1>2 DEF NextSource, AcquiringRow

\* A source that cannot be acquired is left as it was.
LEMMA BlocksStep ==
  ASSUME HtmlInv, NEW r \in Run, Blocks(r)
  PROVE  HtmlInv'
<1> DEFINE run == NextSource(r)
<1>1. acquiring' = [acquiring EXCEPT ![r] = run] /\ UNCHANGED <<published, inventory>>
  BY DEF Blocks, RunMoves
<1>2. run \in AcquiringRow /\ run.phase = "fetch" /\ run.found = acquiring[r].found /\ run.base = acquiring[r].base
  BY NextTyped
<1> HIDE DEF run
<1>3. Acquired(r, run, published')
  BY <1>1, <1>2, OfRun DEF Acquired
<1>4. QED  BY <1>1, <1>2, <1>3, OfRun, NothingPublished, OneRunMoves

\* A run that is over holds no record.
LEMMA EndedTyped ==
  LET run == [Unstarted EXCEPT !.phase = "ended"]
  IN  /\ run \in AcquiringRow /\ run.phase = "ended"
      /\ \A s \in Source : run.found[s] = NotAcquired /\ run.base[s] = NotAcquired
BY UnstartedTyped DEF AcquiringRow

\* A run ends anywhere: what it has published stays, what the inventory says too.
LEMMA DiesStep ==
  ASSUME HtmlInv, NEW r \in Run, Dies(r)
  PROVE  HtmlInv'
<1> DEFINE run == [Unstarted EXCEPT !.phase = "ended"]
<1>1. acquiring' = [acquiring EXCEPT ![r] = run] /\ UNCHANGED <<published, inventory>>
  BY DEF Dies, RunMoves
<1>2. /\ run \in AcquiringRow /\ run.phase = "ended"
      /\ \A s \in Source : run.found[s] = NotAcquired /\ run.base[s] = NotAcquired
  BY EndedTyped
<1> HIDE DEF run
<1>3. Acquired(r, run, published')
  BY <1>2 DEF Acquired, Snapshot
<1>4. QED  BY <1>1, <1>2, <1>3, OfRun, NothingPublished, OneRunMoves

\* The inventory takes over the records a run made, each of a page that is published.
LEMMA EndsRunStep ==
  ASSUME HtmlInv, NEW r \in Run, EndsRun(r)
  PROVE  HtmlInv'
<1> DEFINE run == [Unstarted EXCEPT !.phase = "ended"]
           made == [s \in Source |-> IF s \in Successful(r) THEN acquiring[r].found[s] ELSE acquiring[r].base[s]]
<1>1. /\ acquiring' = [acquiring EXCEPT ![r] = run] /\ UNCHANGED published
      /\ inventory' = IF Enough(r) THEN made ELSE inventory
  BY DEF EndsRun, RunMoves
<1>2. /\ run \in AcquiringRow /\ run.phase = "ended"
      /\ \A s \in Source : run.found[s] = NotAcquired /\ run.base[s] = NotAcquired
  BY EndedTyped
<1> HIDE DEF run
<1>3. Acquired(r, run, published')
  BY <1>2 DEF Acquired, Snapshot
<1>4. /\ acquiring[r].found \in [Source -> Named] /\ acquiring[r].base \in [Source -> Named]
      /\ \A s \in Source : /\ Snapshot(s, acquiring[r].found[s], published)
                           /\ Snapshot(s, acquiring[r].base[s], published)
  BY OfRun, RunTyped DEF Acquired
<1>5. made \in [Source -> Named] /\ \A s \in Source : Snapshot(s, made[s], published)
  BY <1>4
<1> HIDE DEF made
<1>6. inventory' \in [Source -> Named] /\ \A s \in Source : Snapshot(s, inventory'[s], published')
  BY <1>1, <1>5, OfRun DEF HtmlInv
<1>7. QED  BY <1>1, <1>2, <1>3, <1>6, NothingPublished, OneRunMoves

\* The file in hand has a place, of a source of the plan.
LEMMA PathTyped ==
  ASSUME HtmlInv, NEW r \in Run, acquiring[r].next <= Len(PlanOf[r]), acquiring[r].now.page \in Pages
  PROVE  /\ SnapshotPath(r) \in PathOf /\ SnapshotPath(r)[2] = acquiring[r].now.page
         /\ SnapshotPath(r) = <<PlanOf[r][acquiring[r].next], acquiring[r].now.page>>
         /\ CurrentSource(r) \in Source
<1>1. acquiring[r].next \in Nat \ {0}
  BY OfRun, RunTyped
<1>2. acquiring[r].next \in 1..Len(PlanOf[r])
  BY <1>1
<1>3. QED  BY <1>2, HtmlConstants DEF SnapshotPath, CurrentSource, PathOf

\* The page is written under its hash, where it may be already.
LEMMA PublishesHtmlStep ==
  ASSUME HtmlInv, NEW r \in Run, PublishesHtml(r)
  PROVE  HtmlInv'
<1> DEFINE run == [acquiring[r] EXCEPT !.phase = "sections"]
           place == SnapshotPath(r)
           page == acquiring[r].now.page
<1>1. /\ acquiring' = [acquiring EXCEPT ![r] = run] /\ inventory' = inventory
      /\ published' = [published EXCEPT ![place].html = page]
      /\ published[place].html \in {NoPage, page}
      /\ acquiring[r].phase = "html" /\ acquiring[r].next <= Len(PlanOf[r])
  BY DEF PublishesHtml, RunMoves, InPhase, Agrees
<1>2. /\ acquiring[r] \in AcquiringRow /\ Acquired(r, acquiring[r], published)
      /\ published \in [PathOf -> [html : Pages \cup {NoPage}, sections : Named]]
      /\ inventory \in [Source -> Named]
  BY OfRun
<1>3. page \in Pages \ Sick
  BY <1>1, <1>2 DEF Acquired
<1>4. place \in PathOf /\ place[2] = page /\ place = <<PlanOf[r][acquiring[r].next], page>>
  BY <1>1, <1>3, PathTyped
<1> HIDE DEF place
<1>5. /\ run \in AcquiringRow /\ run.phase = "sections" /\ run.now = acquiring[r].now
      /\ run.found = acquiring[r].found /\ run.base = acquiring[r].base /\ run.next = acquiring[r].next
  BY <1>2 DEF AcquiringRow
<1> HIDE DEF run
<1>6. /\ published' \in [PathOf -> [html : Pages \cup {NoPage}, sections : Named]]
      /\ published'[place].html = page /\ published'[place].sections = published[place].sections
      /\ \A p \in PathOf : p # place => published'[p] = published[p]
  BY <1>1, <1>2, <1>3, <1>4
<1>7. Kept(published')
  BY <1>4, <1>6 DEF Kept
<1>8. \A s \in Source : /\ Snapshot(s, inventory[s], published')
                        /\ Snapshot(s, run.found[s], published') /\ Snapshot(s, run.base[s], published')
  <2> TAKE s \in Source
  <2>1. /\ Snapshot(s, inventory[s], published) /\ Snapshot(s, run.found[s], published)
        /\ Snapshot(s, run.base[s], published) /\ HtmlShapes
    BY <1>2, <1>5 DEF Acquired, HtmlInv
  <2>2. inventory[s] \in Named /\ run.found[s] \in Named /\ run.base[s] \in Named
    BY <1>2, <1>5, RunTyped
  <2>3. QED  BY <1>6, <1>7, <2>1, <2>2, SnapshotKept
<1>9. Acquired(r, run, published')
  BY <1>1, <1>3, <1>4, <1>5, <1>6, <1>8 DEF Acquired
<1>10. QED  BY <1>1, <1>2, <1>5, <1>6, <1>7, <1>8, <1>9, OneRunMoves

\* The sections are written, or are there with the same address, and the run has its record.
LEMMA PublishesSectionsStep ==
  ASSUME HtmlInv, NEW r \in Run, PublishesSections(r)
  PROVE  HtmlInv'
<1> DEFINE following == NextSource(r)
           source == CurrentSource(r)
           now == acquiring[r].now
           run == [following EXCEPT !.found[source] = now]
           place == SnapshotPath(r)
<1>1. /\ acquiring' = [acquiring EXCEPT ![r] = run] /\ inventory' = inventory
      /\ published' = [published EXCEPT ![place].sections = IF @ = NotAcquired THEN now ELSE @]
      /\ published[place].sections \in {NotAcquired, now}
      /\ acquiring[r].phase = "sections" /\ acquiring[r].next <= Len(PlanOf[r])
  BY DEF PublishesSections, RunMoves, InPhase, SectionsAgree, Agrees
<1>2. /\ acquiring[r] \in AcquiringRow /\ Acquired(r, acquiring[r], published)
      /\ published \in [PathOf -> [html : Pages \cup {NoPage}, sections : Named]]
      /\ inventory \in [Source -> Named] /\ now \in Named
  BY OfRun, RunTyped
<1>3. now.page \in Pages \ Sick
  BY <1>1, <1>2 DEF Acquired
<1>4. /\ place \in PathOf /\ place[2] = now.page /\ place = <<source, now.page>> /\ source \in Source
      /\ published[place].html = now.page
  BY <1>1, <1>2, <1>3, PathTyped DEF Acquired, CurrentSource
<1>5. /\ following \in AcquiringRow /\ following.phase = "fetch"
      /\ following.found = acquiring[r].found /\ following.base = acquiring[r].base
  BY NextTyped
<1> HIDE DEF following, source, now, place
<1>6. /\ run \in AcquiringRow /\ run.phase = "fetch" /\ run.base = acquiring[r].base
      /\ run.found \in [Source -> Named] /\ run.found[source] = now
      /\ \A s \in Source \ {source} : run.found[s] = acquiring[r].found[s]
  BY <1>2, <1>4, <1>5 DEF AcquiringRow
<1> HIDE DEF run
<1>7. /\ published' \in [PathOf -> [html : Pages \cup {NoPage}, sections : Named]]
      /\ published'[place].html = now.page /\ published'[place].sections = now
      /\ \A p \in PathOf : p # place => published'[p] = published[p]
  BY <1>1, <1>2, <1>3, <1>4
<1>8. Kept(published')
  BY <1>1, <1>4, <1>7 DEF Kept
<1>9. \A s \in Source : /\ Snapshot(s, inventory[s], published')
                        /\ Snapshot(s, acquiring[r].found[s], published')
                        /\ Snapshot(s, run.base[s], published')
  <2> TAKE s \in Source
  <2>1. /\ Snapshot(s, inventory[s], published) /\ Snapshot(s, acquiring[r].found[s], published)
        /\ Snapshot(s, run.base[s], published) /\ HtmlShapes
    BY <1>2, <1>6 DEF Acquired, HtmlInv
  <2>2. inventory[s] \in Named /\ acquiring[r].found[s] \in Named /\ run.base[s] \in Named
    BY <1>2, <1>6, RunTyped
  <2>3. QED  BY <1>7, <1>8, <2>1, <2>2, SnapshotKept
<1>10. Snapshot(source, now, published')
  <2>1. published'[place] = [html |-> now.page, sections |-> now]
    BY <1>4, <1>7
  <2>2. QED  BY <1>3, <1>4, <2>1 DEF Snapshot
<1>11. Acquired(r, run, published')
  BY <1>6, <1>9, <1>10 DEF Acquired
<1>12. QED  BY <1>1, <1>2, <1>6, <1>7, <1>8, <1>9, <1>11, OneRunMoves

\* Whatever runs do at once and wherever they end, the inductive invariant of the
\* acquisition holds.
THEOREM HtmlInvariant == HtmlSpec => []HtmlInv
<1>1. HtmlInit => HtmlInv
  BY Starts
<1>2. HtmlInv /\ [HtmlNext]_htmlVars => HtmlInv'
  <2> SUFFICES ASSUME HtmlInv, [HtmlNext]_htmlVars  PROVE HtmlInv'
    OBVIOUS
  <2>1. CASE UNCHANGED htmlVars
    BY <2>1 DEF htmlVars, HtmlInv, HtmlShapes, Acquired, Snapshot, AcquiringRow, Named, Pages, PathOf
  <2>2. ASSUME NEW r \in Run, Begins(r)  PROVE HtmlInv'
    BY <2>2, BeginsStep
  <2>3. ASSUME NEW r \in Run, Blocks(r)  PROVE HtmlInv'
    BY <2>3, BlocksStep
  <2>4. ASSUME NEW r \in Run, PublishesHtml(r)  PROVE HtmlInv'
    BY <2>4, PublishesHtmlStep
  <2>5. ASSUME NEW r \in Run, PublishesSections(r)  PROVE HtmlInv'
    BY <2>5, PublishesSectionsStep
  <2>6. ASSUME NEW r \in Run, EndsRun(r)  PROVE HtmlInv'
    BY <2>6, EndsRunStep
  <2>7. ASSUME NEW r \in Run, Dies(r)  PROVE HtmlInv'
    BY <2>7, DiesStep
  <2>8. ASSUME NEW r \in Run, NEW chain \in Chains, Fetches(r, chain)  PROVE HtmlInv'
    BY <2>8, FetchesStep
  <2>9. QED  BY <2>1, <2>2, <2>3, <2>4, <2>5, <2>6, <2>7, <2>8 DEF HtmlNext
<1>3. QED  BY <1>1, <1>2, PTL DEF HtmlSpec

\* The published files, the inventory and the runs keep their types.
THEOREM HtmlTypes == HtmlSpec => []HtmlTypeOK
<1>1. HtmlInv => HtmlTypeOK
  BY RunTyped DEF HtmlInv, HtmlShapes, HtmlTypeOK
<1>2. QED  BY <1>1, HtmlInvariant, PTL

\* What the inventory says was acquired is a clean page, published under its hash
\* with its sections, whichever runs met and wherever they ended.
THEOREM Snapshots == HtmlSpec => []SnapshotsHold
<1>1. HtmlInv => SnapshotsHold
  BY DEF HtmlInv, SnapshotsHold, Snapshot
<1>2. QED  BY <1>1, HtmlInvariant, PTL

-------------------------------------------------------------------------------
(***************************************************************************)
(* PdfExtraction                                                           *)
(***************************************************************************)

\* A sequence is empty if it has no elements.
LEMMA NoElements ==
  ASSUME NEW P, NEW s \in Seq(P)
  PROVE  s = <<>> <=> Len(s) = 0
OBVIOUS

\* Every set of numbers that has one has a least one.
LEMMA LeastNumber ==
  ASSUME NEW T, T \subseteq Nat, T # {}
  PROVE  \E x \in T : \A y \in T : x <= y
<1> DEFINE R == OpToRel(<, Nat)
<1>1. IsWellFoundedOn(R, Nat)
  BY NatLessThanWellFounded
<1>2. \A x, y \in Nat : <<y, x>> \in R <=> y < x
  BY DEF OpToRel
<1> HIDE DEF R
<1>3. PICK x \in T : \A y \in T : ~(<<y, x>> \in R)
  BY <1>1, WFMin
<1>4. x \in T /\ \A y \in T : x \in Nat /\ y \in Nat /\ ~(y < x)
  BY <1>2, <1>3
<1>5. \A y \in T : x <= y
  BY <1>4
<1>6. QED  BY <1>4, <1>5

\* So a set that has zero, and the next of each number it has up to m, has all up to m.
LEMMA Counting ==
  ASSUME NEW m \in Nat, NEW S, 0 \in S, \A n \in Nat : n < m /\ n \in S => n + 1 \in S
  PROVE  \A n \in 0..m : n \in S
<1> DEFINE T == {n \in 0..m : n \notin S}
<1> SUFFICES ASSUME T # {}  PROVE FALSE
  OBVIOUS
<1>1. T \subseteq Nat /\ \A x \in 0..m : x \in T <=> x \notin S
  OBVIOUS
<1> HIDE DEF T
<1>2. PICK x \in T : \A y \in T : x <= y
  BY <1>1, LeastNumber
<1>3. x \in 0..m /\ x \notin S /\ x # 0
  BY <1>1, <1>2 DEF T
<1>4. x - 1 \in Nat /\ x - 1 < m /\ x - 1 \in 0..m /\ ~(x <= x - 1) /\ (x - 1) + 1 = x
  BY <1>3
<1>5. x - 1 \in S
  BY <1>1, <1>2, <1>4
<1>6. QED  BY <1>3, <1>4, <1>5

\* Amount's sum over the first pages, as a function, exists.
Adds(f, d, kind, n) == f = [i \in 0..n |-> IF i = 0 THEN 0 ELSE f[i - 1] + d.pages[i][kind]]

\* There is a function that adds up the first m pages: the sums are built one page
\* at a time.
LEMMA SumExists ==
  ASSUME NEW d, NEW kind, NEW m \in Nat
  PROVE  \E f : Adds(f, d, kind, m)
<1> DEFINE S == {n \in Nat : \E f : Adds(f, d, kind, n)}
<1>1. 0 \in S
  <2> DEFINE f == [i \in 0..0 |-> 0]
  <2>1. \A i \in 0..0 : i = 0
    OBVIOUS
  <2>2. f = [i \in 0..0 |-> IF i = 0 THEN 0 ELSE f[i - 1] + d.pages[i][kind]]
    BY <2>1
  <2>3. QED  BY <2>2 DEF Adds
<1>2. ASSUME NEW n \in Nat, n \in S  PROVE n + 1 \in S
  <2>1. PICK f : Adds(f, d, kind, n)
    BY <1>2
  <2> DEFINE g == [i \in 0..(n + 1) |-> IF i = n + 1 THEN f[n] + d.pages[n + 1][kind] ELSE f[i]]
             h == [i \in 0..(n + 1) |-> IF i = 0 THEN 0 ELSE g[i - 1] + d.pages[i][kind]]
  <2>2. ASSUME NEW i \in 0..(n + 1)  PROVE g[i] = h[i]
    <3>1. CASE i = 0
      <4>1. f[0] = 0
        BY <2>1 DEF Adds
      <4>2. QED  BY <3>1, <4>1
    <3>2. CASE i = n + 1
      BY <3>2
    <3>3. CASE i # 0 /\ i # n + 1
      <4>1. i \in 0..n /\ i - 1 \in 0..n /\ i - 1 \in 0..(n + 1) /\ i - 1 # n + 1
        BY <3>3
      <4>2. f[i] = f[i - 1] + d.pages[i][kind]
        BY <2>1, <3>3, <4>1 DEF Adds
      <4>3. QED  BY <3>3, <4>1, <4>2
    <3>4. QED  BY <3>1, <3>2, <3>3
  <2>3. g = h
    BY <2>2
  <2>4. Adds(g, d, kind, n + 1)
    BY <2>3 DEF Adds
  <2>5. QED  BY <2>4
<1> HIDE DEF S
<1>3. m \in S
  BY <1>1, <1>2, Counting
<1>4. QED  BY <1>3 DEF S

\* What the worker has counted of m pages is such a sum.
LEMMA AmountOf ==
  ASSUME NEW d, NEW kind, NEW m \in Nat
  PROVE  \E f : Adds(f, d, kind, m) /\ Amount(d, kind, m) = f[m]
<1> DEFINE sum == CHOOSE f : f = [i \in 0..m |-> IF i = 0 THEN 0 ELSE f[i - 1] + d.pages[i][kind]]
<1>1. \E f : f = [i \in 0..m |-> IF i = 0 THEN 0 ELSE f[i - 1] + d.pages[i][kind]]
  <2>1. \E f : Adds(f, d, kind, m)
    BY SumExists
  <2>2. QED  BY <2>1, Zenon DEF Adds
<1>2. sum = [i \in 0..m |-> IF i = 0 THEN 0 ELSE sum[i - 1] + d.pages[i][kind]]
  BY <1>1, Zenon
<1>3. Adds(sum, d, kind, m)
  BY <1>2, Zenon DEF Adds
<1>4. Amount(d, kind, m) = sum[m]
  BY DEF Amount
<1> HIDE DEF sum
<1>5. QED  BY <1>3, <1>4

\* Two such sums agree where both are defined.
LEMMA SumsAgree ==
  ASSUME NEW d, NEW kind, NEW m \in Nat, NEW n \in Nat, m <= n, NEW f, NEW g,
         Adds(f, d, kind, m), Adds(g, d, kind, n)
  PROVE  f[m] = g[m]
<1> DEFINE S == {i \in Nat : f[i] = g[i]}
<1>1. \A i \in 0..m : f[i] = (IF i = 0 THEN 0 ELSE f[i - 1] + d.pages[i][kind])
  BY DEF Adds
<1>2. \A i \in 0..n : g[i] = (IF i = 0 THEN 0 ELSE g[i - 1] + d.pages[i][kind])
  BY DEF Adds
<1>3. 0 \in S
  BY <1>1, <1>2
<1>4. ASSUME NEW i \in Nat, i < m, i \in S  PROVE i + 1 \in S
  <2>1. i + 1 \in 0..m /\ i + 1 \in 0..n /\ i + 1 # 0 /\ (i + 1) - 1 = i /\ i + 1 \in Nat
    BY <1>4
  <2>2. f[i + 1] = f[i] + d.pages[i + 1][kind] /\ g[i + 1] = g[i] + d.pages[i + 1][kind]
    BY <1>1, <1>2, <2>1
  <2>3. QED  BY <1>4, <2>1, <2>2
<1> HIDE DEF S
<1>5. m \in S
  BY <1>3, <1>4, Counting
<1>6. QED  BY <1>5 DEF S

\* Amount adds up: nothing of no pages, and of one more page its own more.
LEMMA AmountAdds ==
  ASSUME NEW d, NEW kind, NEW m \in Nat
  PROVE  Amount(d, kind, 0) = 0 /\ Amount(d, kind, m + 1) = Amount(d, kind, m) + d.pages[m + 1][kind]
<1>1. PICK z : Adds(z, d, kind, 0) /\ Amount(d, kind, 0) = z[0]
  BY AmountOf
<1>2. PICK f : Adds(f, d, kind, m) /\ Amount(d, kind, m) = f[m]
  BY AmountOf
<1>3. PICK g : Adds(g, d, kind, m + 1) /\ Amount(d, kind, m + 1) = g[m + 1]
  BY AmountOf
<1>4. z[0] = 0
  BY <1>1 DEF Adds
<1>5. f[m] = g[m]
  BY <1>2, <1>3, SumsAgree
<1>6. g[m + 1] = g[m] + d.pages[m + 1][kind]
  <2>1. m + 1 \in 0..(m + 1) /\ m + 1 # 0 /\ (m + 1) - 1 = m
    OBVIOUS
  <2>2. QED  BY <1>3, <2>1 DEF Adds
<1>7. QED  BY <1>1, <1>2, <1>3, <1>4, <1>5, <1>6

\* The length and the elements of a sequence.
LEMMA ElementsOf ==
  ASSUME NEW P, NEW s \in Seq(P)
  PROVE  Len(s) \in Nat /\ \A i \in 1..Len(s) : s[i] \in P
OBVIOUS

\* The text of some pages is a number, and at most that of all.
LEMMA AmountGrows ==
  ASSUME NEW d \in Document, NEW m \in 0..Len(d.pages)
  PROVE  Amount(d, "text", m) \in Nat /\ Amount(d, "text", m) <= Amount(d, "text", Len(d.pages))
<1> DEFINE last == Len(d.pages)
           text(i) == Amount(d, "text", i)
<1>1. last \in Nat /\ \A i \in 1..last : d.pages[i].text \in Nat
  <2>1. d.pages \in Seq([raw : Nat, text : Nat, json : Nat])
    BY PdfConstants
  <2>2. last \in Nat /\ \A i \in 1..last : d.pages[i] \in [raw : Nat, text : Nat, json : Nat]
    BY <2>1, ElementsOf
  <2>3. QED  BY <2>2
<1>2. \A i \in Nat : text(i + 1) = text(i) + d.pages[i + 1].text
  BY AmountAdds
<1>3. text(0) = 0
  BY AmountAdds
<1> HIDE DEF text
<1> DEFINE typed == {i \in Nat : text(i) \in Nat}
<1>4. \A i \in 0..last : text(i) \in Nat
  <2>1. 0 \in typed
    BY <1>3
  <2>2. ASSUME NEW i \in Nat, i < last, i \in typed  PROVE i + 1 \in typed
    <3>1. d.pages[i + 1].text \in Nat
      BY <1>1, <2>2
    <3>2. text(i) \in Nat /\ i + 1 \in Nat /\ text(i + 1) = text(i) + d.pages[i + 1].text
      BY <1>2, <2>2
    <3>3. text(i + 1) \in Nat
      BY <3>1, <3>2
    <3>4. QED  BY <3>2, <3>3
  <2> HIDE DEF typed
  <2>3. \A i \in 0..last : i \in typed
    BY <1>1, <2>1, <2>2, Counting
  <2>4. QED  BY <2>3 DEF typed
<1> DEFINE above == {k \in Nat : text(m) <= text(m + k)}
<1>5. text(m) <= text(last)
  <2>1. 0 \in above
    BY <1>1, <1>4
  <2>2. ASSUME NEW k \in Nat, k < last - m, k \in above  PROVE k + 1 \in above
    <3>1. m + k \in 0..last /\ m + k \in Nat /\ (m + k) + 1 \in 1..last /\ m + (k + 1) = (m + k) + 1 /\ k + 1 \in Nat
      BY <1>1, <2>2
    <3>2. text(m + k) \in Nat /\ d.pages[(m + k) + 1].text \in Nat /\ text(m) \in Nat
      BY <1>1, <1>4, <3>1
    <3>3. text((m + k) + 1) = text(m + k) + d.pages[(m + k) + 1].text
      BY <1>2, <3>1
    <3>4. text(m) <= text((m + k) + 1)
      BY <2>2, <3>2, <3>3
    <3>5. QED  BY <3>1, <3>4
  <2> HIDE DEF above
  <2>3. last - m \in Nat /\ last - m \in 0..(last - m)
    BY <1>1
  <2>4. last - m \in above
    BY <2>1, <2>2, <2>3, Counting
  <2>5. m + (last - m) = last
    BY <1>1
  <2>6. QED  BY <2>4, <2>5 DEF above
<1>6. QED  BY <1>4, <1>5 DEF text

\* If a page is too long or one too many, there is a first such page.
LEMMA FirstStumble ==
  ASSUME NEW d \in Document, NEW i \in PagesOf(d), PageTooLong(d, i) \/ TextTooLong(d, i)
  PROVE  Stumbles(d) # {}
<1> DEFINE T == {k \in PagesOf(d) : PageTooLong(d, k) \/ TextTooLong(d, k)}
<1>1. PagesOf(d) = 1..Len(d.pages) /\ Len(d.pages) \in Nat
  <2>1. d.pages \in Seq([raw : Nat, text : Nat, json : Nat])
    BY PdfConstants
  <2>2. QED  BY <2>1, ElementsOf DEF PagesOf
<1>2. T \subseteq Nat /\ T # {}
  BY <1>1
<1> HIDE DEF T
<1>3. PICK x \in T : \A y \in T : x <= y
  BY <1>2, LeastNumber
<1>4. x \in 1..Len(d.pages) /\ (PageTooLong(d, x) \/ TextTooLong(d, x))
  BY <1>1 DEF T
<1>5. ASSUME NEW j \in 1..(x - 1)  PROVE ~PageTooLong(d, j) /\ ~TextTooLong(d, j)
  <2>1. j \in 1..Len(d.pages) /\ ~(x <= j)
    BY <1>1, <1>4
  <2>2. j \notin T
    BY <1>3, <2>1
  <2>3. QED  BY <1>1, <2>1, <2>2 DEF T
<1>6. x \in Stumbles(d)
  BY <1>1, <1>4, <1>5 DEF Stumbles
<1>7. QED  BY <1>6

\* What the worker answers for a document while nothing throws is true of it.
LEMMA AnswerTrue ==
  ASSUME NEW d \in Document
  PROVE  LET answer == WorkerAnswer(d)
             text(i) == d.pages[i].text
         IN  /\ answer = "ok" =>
                  /\ d.opens = "yes" /\ Len(d.pages) <= MaxPages
                  /\ \A i \in PagesOf(d) : text(i) <= MaxPageText /\ (text(i) > 0 <=> i \in PagesWithText(d))
                  /\ PagesWithText(d) # {} /\ Amount(d, "text", Len(d.pages)) <= MaxTotalText
             /\ answer = "encrypted" => d.opens = "encrypted"
             /\ answer = "page_limit" => Len(d.pages) > MaxPages
             /\ answer = "page_text_limit" => \E i \in PagesOf(d) : d.pages[i].raw > MaxPageText
             /\ answer = "no_extractable_text" => \A i \in PagesOf(d) : text(i) = 0
             /\ answer = "text_limit" => Amount(d, "text", Len(d.pages)) > MaxTotalText
             /\ answer \in PdfOutcome \ {"none"}
<1> DEFINE answer == WorkerAnswer(d)
           last == Len(d.pages)
<1>1. /\ last \in Nat /\ PagesOf(d) = 1..last
      /\ \A i \in 1..last : d.pages[i] \in [raw : Nat, text : Nat, json : Nat]
  <2>1. d.pages \in Seq([raw : Nat, text : Nat, json : Nat])
    BY PdfConstants
  <2>2. QED  BY <2>1, ElementsOf DEF PagesOf
<1>2. \A i \in 1..last : d.pages[i].text \in Nat /\ d.pages[i].raw \in Nat /\ d.pages[i].text <= d.pages[i].raw
  BY <1>1, PdfConstants
<1>3. MaxPages \in Nat /\ MaxPageText \in Nat /\ MaxTotalText \in Nat
  BY PdfConstants
<1>4. d.opens \in {"yes", "encrypted", "malformed"}
  BY PdfConstants
<1>5. \/ d.opens # "yes" /\ answer = d.opens
      \/ d.opens = "yes" /\ answer = "malformed"
      \/ d.opens = "yes" /\ last > MaxPages /\ answer = "page_limit"
      \/ /\ d.opens = "yes" /\ last <= MaxPages
         /\ \/ answer = "page_text_limit" /\ \E i \in Stumbles(d) : PageTooLong(d, i)
            \/ /\ answer = "text_limit" /\ Stumbles(d) # {}
               /\ \A i \in Stumbles(d) : ~PageTooLong(d, i)
            \/ answer = "no_extractable_text" /\ Stumbles(d) = {} /\ PagesWithText(d) = {}
            \/ answer = "output_limit"
            \/ answer = "ok" /\ Stumbles(d) = {} /\ PagesWithText(d) # {}
  <2>1. /\ d.pages = <<>> => last = 0
        /\ last > MaxPages => d.pages # <<>> /\ ~(last \in 1..MaxPages)
        /\ last \in 1..MaxPages => d.pages # <<>> /\ ~(last > MaxPages) /\ last <= MaxPages
        /\ d.pages # <<>> => last > MaxPages \/ last \in 1..MaxPages
    <3>1. d.pages \in Seq([raw : Nat, text : Nat, json : Nat])
      BY PdfConstants
    <3>2. d.pages = <<>> <=> last = 0
      BY <3>1, NoElements
    <3>3. QED  BY <1>1, <1>3, <3>2
  <2>2. CASE d.opens # "yes"
    BY <2>2 DEF WorkerAnswer
  <2>3. CASE d.opens = "yes" /\ last > MaxPages
    BY <2>1, <2>3 DEF WorkerAnswer
  <2>6. CASE d.opens = "yes" /\ d.pages = <<>>
    <3>1. ~(last > MaxPages) /\ last \notin 1..MaxPages
      BY <1>3, <2>1, <2>6
    <3>2. QED  BY <2>6, <3>1 DEF WorkerAnswer
  <2>4. CASE d.opens = "yes" /\ last \in 1..MaxPages
    <3>1. answer = (IF \E i \in Stumbles(d) : PageTooLong(d, i) THEN "page_text_limit"
                    ELSE IF Stumbles(d) # {} THEN "text_limit"
                    ELSE IF PagesWithText(d) = {} THEN "no_extractable_text"
                    ELSE IF Amount(d, "json", Len(d.pages)) > MaxOutput THEN "output_limit"
                    ELSE "ok")
      BY <2>1, <2>4 DEF WorkerAnswer
    <3> HIDE DEF answer
    <3>2. QED  BY <2>1, <2>4, <3>1
  <2>5. QED  BY <2>1, <2>2, <2>3, <2>4, <2>6
<1> HIDE DEF answer
<1>6. \A m \in 0..last : Amount(d, "text", m) \in Nat /\ Amount(d, "text", m) <= Amount(d, "text", last)
  BY AmountGrows
<1>7. /\ answer = "encrypted" => d.opens = "encrypted"
      /\ answer = "page_limit" => last > MaxPages
      /\ answer = "page_text_limit" => \E i \in PagesOf(d) : d.pages[i].raw > MaxPageText
  BY <1>4, <1>5 DEF Stumbles, PageTooLong
<1>8. answer \in PdfOutcome \ {"none"}
  BY <1>4, <1>5 DEF PdfOutcome, DocumentFailure
<1>9. ASSUME answer = "no_extractable_text", NEW i \in PagesOf(d)  PROVE d.pages[i].text = 0
  <2>1. PagesWithText(d) = {}
    BY <1>4, <1>5, <1>9
  <2>2. ~(d.pages[i].text > 0) /\ d.pages[i].text \in Nat
    BY <1>1, <1>2, <2>1 DEF PagesWithText
  <2>3. QED  BY <2>2
<1>10. ASSUME answer = "text_limit"  PROVE Amount(d, "text", last) > MaxTotalText
  <2>1. Stumbles(d) # {} /\ \A i \in Stumbles(d) : ~PageTooLong(d, i)
    BY <1>4, <1>5, <1>10
  <2>2. PICK i \in Stumbles(d) : TextTooLong(d, i)
    BY <2>1 DEF Stumbles
  <2>3. i \in 0..last /\ Amount(d, "text", i) > MaxTotalText
    BY <1>1, <2>2 DEF Stumbles, TextTooLong
  <2>4. last \in 0..last
    BY <1>1
  <2>5. /\ Amount(d, "text", i) \in Nat /\ Amount(d, "text", last) \in Nat
        /\ Amount(d, "text", i) <= Amount(d, "text", last)
    BY <2>3, <2>4, <1>6
  <2>6. QED  BY <1>3, <2>3, <2>5
<1>11. ASSUME answer = "ok"
       PROVE  /\ d.opens = "yes" /\ last <= MaxPages
              /\ \A i \in PagesOf(d) : d.pages[i].text <= MaxPageText /\ (d.pages[i].text > 0 <=> i \in PagesWithText(d))
              /\ PagesWithText(d) # {} /\ Amount(d, "text", last) <= MaxTotalText
  <2>1. d.opens = "yes" /\ last <= MaxPages /\ Stumbles(d) = {} /\ PagesWithText(d) # {}
    BY <1>4, <1>5, <1>11
  <2>2. \A i \in PagesOf(d) : ~PageTooLong(d, i) /\ ~TextTooLong(d, i)
    BY <2>1, FirstStumble
  <2>3. \A i \in PagesOf(d) : d.pages[i].text <= MaxPageText
    BY <1>1, <1>2, <1>3, <2>2 DEF PageTooLong
  <2>4. \A i \in PagesOf(d) : d.pages[i].text > 0 <=> i \in PagesWithText(d)
    BY DEF PagesWithText
  <2>5. last \in PagesOf(d) /\ last \in 0..last
    BY <1>1, <2>1 DEF PagesWithText
  <2>6. Amount(d, "text", last) <= MaxTotalText
    <3>1. Amount(d, "text", last) \in Nat /\ ~(Amount(d, "text", last) > MaxTotalText)
      BY <2>2, <2>5, <1>6 DEF TextTooLong
    <3>2. QED  BY <1>3, <3>1
  <2>7. QED  BY <2>1, <2>3, <2>4, <2>6
<1>12. QED  BY <1>7, <1>8, <1>9, <1>10, <1>11 DEF answer

\* The phases of a call of extractRawPdf, and its columns.
PdfPhase == {"idle", "preparing", "running", "settled", "ended"}
PdfRow ==
  [phase : PdfPhase, document : Document \cup {NoPdf}, directory : BOOLEAN,
   child : {"none", "running", "exited", "failed"}, said : {"nothing", "part", "whole", "spoiled"},
   forcedFailure : PdfOutcome, outcome : PdfOutcome, pages : SUBSET Nat]

\* The calls have their columns, and the workers are counted.
PdfShapes ==
  /\ extraction \in [Extraction -> PdfRow]
  /\ activePdfProcesses \in 0..MaxConcurrency

\* What a worker that is forced to stop is reported as.
Forced == {"none", "worker_unavailable", "timeout", "worker_crashed", "output_limit", "stderr_limit"}

\* What an outcome says of the document is what a worker that ended by itself
\* answers for it, if it is not that something was thrown.
Truthful(row) ==
  /\ row.outcome \in DocumentFailure \cup {"ok"} =>
       row.document \in Document /\ row.outcome \in WorkerAnswers(row.document)
  /\ row.outcome \in DocumentFailure => row.child = "exited"
  /\ row.outcome = "ok" => row.pages = PagesWithText(row.document)

\* A call has a child only while it runs, and its directory after that only
\* where it could not be removed.
Called(row) ==
  /\ row.phase = "idle" => row = IdleExtraction
  /\ row.phase \in {"preparing", "running"} =>
       row.document \in Document /\ row.forcedFailure \in Forced /\ row.outcome = "none"
  /\ row.phase = "preparing" => row.child = "none" /\ row.said = "nothing"
  /\ row.child = "running" => row.phase = "running"
  /\ row.phase = "running" /\ row.child = "none" => row.forcedFailure # "none"
  /\ row.phase = "ended" /\ row.directory => row.outcome = "other"

\* The calls that count as a worker.
Active == {e \in Extraction : extraction[e].phase \in {"preparing", "running"}}

\* The inductive invariant of the extraction.
PdfInv ==
  /\ PdfShapes
  /\ \A e \in Extraction : Called(extraction[e]) /\ Truthful(extraction[e])
  /\ activePdfProcesses = Cardinality(Active)

\* What is said of the process is never what is said of the document.
LEMMA OutcomesNamed ==
  /\ Forced \subseteq PdfOutcome /\ {"none", "ok", "other", "worker_protocol", "worker_capacity"} \subseteq PdfOutcome
  /\ InputFailure \subseteq PdfOutcome
  /\ (Forced \cup InputFailure \cup {"other", "worker_capacity", "worker_protocol"})
       \cap (DocumentFailure \cup {"ok"}) = {}
BY DEF Forced, PdfOutcome, InputFailure, DocumentFailure, RetryableFailure

\* A call that has not begun has its columns and says nothing.
LEMMA IdleTyped ==
  IdleExtraction \in PdfRow /\ Called(IdleExtraction) /\ Truthful(IdleExtraction)
<1>1. IdleExtraction \in PdfRow
  BY OutcomesNamed DEF IdleExtraction, PdfRow, PdfPhase
<1>2. QED  BY <1>1, OutcomesNamed DEF IdleExtraction, Called, Truthful, Forced, DocumentFailure

\* No call has begun and no worker runs.
LEMMA Idle ==
  ASSUME PdfInit
  PROVE  PdfInv
<1>1. extraction \in [Extraction -> PdfRow] /\ \A e \in Extraction : extraction[e] = IdleExtraction
  BY IdleTyped DEF PdfInit
<1>2. IdleExtraction.phase = "idle"
  BY DEF IdleExtraction
<1>3. Active = {}
  BY <1>1, <1>2 DEF Active
<1>4. activePdfProcesses = 0 /\ Cardinality(Active) = 0
  BY <1>3, FS_EmptySet DEF PdfInit
<1>5. PdfShapes
  BY <1>1, <1>4, PdfConstants DEF PdfShapes
<1>6. QED  BY <1>1, <1>4, <1>5, IdleTyped DEF PdfInv

\* One call steps: the workers counted are those that prepare or run.
LEMMA OneCall ==
  ASSUME PdfInv, NEW e \in Extraction, NEW row \in PdfRow, Called(row), Truthful(row),
         extraction' = [extraction EXCEPT ![e] = row],
         LET was == extraction[e].phase \in {"preparing", "running"}
             is == row.phase \in {"preparing", "running"}
         IN  \/ (was <=> is) /\ activePdfProcesses' = activePdfProcesses
             \/ ~was /\ is /\ activePdfProcesses' = activePdfProcesses + 1 /\ activePdfProcesses < MaxConcurrency
             \/ was /\ ~is /\ activePdfProcesses' = activePdfProcesses - 1
  PROVE  PdfInv'
<1> DEFINE was == extraction[e].phase \in {"preparing", "running"}
           is == row.phase \in {"preparing", "running"}
<1>1. /\ extraction \in [Extraction -> PdfRow] /\ activePdfProcesses \in Nat /\ MaxConcurrency \in Nat
      /\ activePdfProcesses <= MaxConcurrency /\ activePdfProcesses = Cardinality(Active)
  BY PdfConstants DEF PdfInv, PdfShapes
<1>2. /\ extraction' \in [Extraction -> PdfRow] /\ extraction'[e] = row
      /\ \A x \in Extraction \ {e} : extraction'[x] = extraction[x]
  BY <1>1
<1>3. \A x \in Extraction : Called(extraction'[x]) /\ Truthful(extraction'[x])
  BY <1>2 DEF PdfInv
<1>4. IsFiniteSet(Active)
  BY PdfConstants, FS_Subset DEF Active
<1>5. /\ was <=> e \in Active
      /\ Active' = IF is THEN Active \cup {e} ELSE Active \ {e}
  BY <1>2 DEF Active
<1> HIDE DEF was, is
<1>6. /\ Cardinality(Active \cup {e}) = IF was THEN Cardinality(Active) ELSE Cardinality(Active) + 1
      /\ Cardinality(Active \ {e}) = IF was THEN Cardinality(Active) - 1 ELSE Cardinality(Active)
  BY <1>4, <1>5, FS_AddElement, FS_RemoveElement
<1>7. Cardinality(Active') = activePdfProcesses' /\ activePdfProcesses' \in Nat /\ activePdfProcesses' <= MaxConcurrency
  <2>1. Cardinality(Active) \in Nat /\ Cardinality(Active \ {e}) \in Nat
    <3>1. IsFiniteSet(Active \ {e})
      BY <1>4, FS_Subset
    <3>2. QED  BY <1>4, <3>1, FS_CardinalityType
  <2>2. CASE (was <=> is) /\ activePdfProcesses' = activePdfProcesses
    BY <1>1, <1>5, <1>6, <2>1, <2>2
  <2>3. CASE ~was /\ is /\ activePdfProcesses' = activePdfProcesses + 1 /\ activePdfProcesses < MaxConcurrency
    BY <1>1, <1>5, <1>6, <2>1, <2>3
  <2>4. CASE was /\ ~is /\ activePdfProcesses' = activePdfProcesses - 1
    BY <1>1, <1>5, <1>6, <2>1, <2>4
  <2>5. QED  BY <2>2, <2>3, <2>4 DEF was, is
<1>8. QED  BY <1>1, <1>2, <1>3, <1>7 DEF PdfInv, PdfShapes

\* What the invariant says of one call.
LEMMA OfCall ==
  ASSUME PdfInv, NEW e \in Extraction
  PROVE  extraction[e] \in PdfRow /\ Called(extraction[e]) /\ Truthful(extraction[e])
BY DEF PdfInv, PdfShapes

\* The columns of a call.
LEMMA PdfRowTyped ==
  ASSUME NEW row \in PdfRow
  PROVE  /\ row.phase \in PdfPhase /\ row.document \in Document \cup {NoPdf} /\ row.directory \in BOOLEAN
         /\ row.child \in {"none", "running", "exited", "failed"}
         /\ row.said \in {"nothing", "part", "whole", "spoiled"}
         /\ row.forcedFailure \in PdfOutcome /\ row.outcome \in PdfOutcome /\ row.pages \subseteq Nat
BY DEF PdfRow

\* extractRawPdf refuses its input, or finds every worker in use.
LEMMA RefusesStep ==
  ASSUME PdfInv, NEW e \in Extraction, NEW d \in Document, RefusesPdf(e, d)
  PROVE  PdfInv'
<1> DEFINE outcome == IF d.input = "pdf" THEN "worker_capacity" ELSE d.input
           row == [extraction[e] EXCEPT !.phase = "ended", !.document = d, !.outcome = outcome]
<1>1. /\ extraction' = [extraction EXCEPT ![e] = row] /\ extraction[e].phase = "idle"
      /\ activePdfProcesses' = activePdfProcesses
  BY OfCall DEF RefusesPdf, KeepsCount, PdfIn
<1>2. outcome \in PdfOutcome /\ outcome \notin DocumentFailure \cup {"ok"}
  BY PdfConstants, OutcomesNamed DEF InputFailure
<1> HIDE DEF outcome
<1>3. extraction[e] \in PdfRow /\ extraction[e] = IdleExtraction
  BY <1>1, OfCall DEF Called
<1>4. /\ row \in PdfRow /\ row.phase = "ended" /\ row.document = d /\ row.outcome = outcome
      /\ row.child = extraction[e].child /\ row.directory = extraction[e].directory
  BY <1>2, <1>3 DEF PdfRow, PdfPhase
<1>5. extraction[e].child = "none" /\ extraction[e].directory = FALSE
  BY <1>3 DEF IdleExtraction
<1> HIDE DEF row
<1>6. Called(row) /\ Truthful(row)
  BY <1>2, <1>4, <1>5 DEF Called, Truthful
<1>7. QED  BY <1>1, <1>4, <1>6, OneCall

\* The capacity is checked and taken in one step.
LEMMA TakesStep ==
  ASSUME PdfInv, NEW e \in Extraction, NEW d \in Document, TakesWorker(e, d)
  PROVE  PdfInv'
<1> DEFINE row == [extraction[e] EXCEPT !.phase = "preparing", !.document = d]
<1>1. /\ extraction' = [extraction EXCEPT ![e] = row] /\ extraction[e].phase = "idle"
      /\ activePdfProcesses' = activePdfProcesses + 1 /\ activePdfProcesses < MaxConcurrency
  BY OfCall DEF TakesWorker, PdfIn
<1>2. extraction[e] \in PdfRow /\ extraction[e] = IdleExtraction
  BY <1>1, OfCall DEF Called
<1>3. /\ row \in PdfRow /\ row.phase = "preparing" /\ row.document = d /\ row.outcome = extraction[e].outcome
      /\ row.child = extraction[e].child /\ row.said = extraction[e].said
      /\ row.forcedFailure = extraction[e].forcedFailure
  BY <1>2 DEF PdfRow, PdfPhase
<1>4. /\ extraction[e].child = "none" /\ extraction[e].said = "nothing" /\ extraction[e].outcome = "none"
      /\ extraction[e].forcedFailure = "none"
  BY <1>2 DEF IdleExtraction
<1> HIDE DEF row
<1>5. Called(row) /\ Truthful(row)
  BY <1>3, <1>4, OutcomesNamed DEF Called, Truthful, Forced, DocumentFailure
<1>6. QED  BY <1>1, <1>3, <1>5, OneCall

\* mkdtemp and the child, which may fail to start.
LEMMA SpawnsStep ==
  ASSUME PdfInv, NEW e \in Extraction, SpawnsWorker(e)
  PROVE  PdfInv'
<1>1. PICK child \in {"running", "none"} :
        extraction' = [extraction EXCEPT ![e].phase = "running", ![e].directory = TRUE, ![e].child = child,
                         ![e].forcedFailure = IF child = "none" THEN "worker_unavailable" ELSE "none"]
  BY DEF SpawnsWorker
<1> DEFINE forced == IF child = "none" THEN "worker_unavailable" ELSE "none"
           row == [extraction[e] EXCEPT !.phase = "running", !.directory = TRUE, !.child = child,
                                        !.forcedFailure = forced]
<1>2. /\ extraction' = [extraction EXCEPT ![e] = row] /\ extraction[e].phase = "preparing"
      /\ activePdfProcesses' = activePdfProcesses
  BY <1>1, OfCall DEF SpawnsWorker, KeepsCount, PdfIn
<1>3. forced \in Forced /\ forced \in PdfOutcome /\ (child = "none" => forced # "none")
  BY OutcomesNamed DEF Forced
<1> HIDE DEF forced
<1>4. extraction[e] \in PdfRow /\ Called(extraction[e])
  BY OfCall
<1>5. /\ row \in PdfRow /\ row.phase = "running" /\ row.document = extraction[e].document
      /\ row.outcome = extraction[e].outcome /\ row.child = child /\ row.forcedFailure = forced
  BY <1>3, <1>4 DEF PdfRow, PdfPhase
<1>6. extraction[e].document \in Document /\ extraction[e].outcome = "none"
  BY <1>2, <1>4 DEF Called
<1> HIDE DEF row
<1>7. Called(row) /\ Truthful(row)
  BY <1>3, <1>5, <1>6, OutcomesNamed DEF Called, Truthful, Forced
<1>8. QED  BY <1>2, <1>5, <1>7, OneCall

\* Either of them throws: the worker is given up.
LEMMA CannotSpawnStep ==
  ASSUME PdfInv, NEW e \in Extraction, CannotSpawn(e)
  PROVE  PdfInv'
<1>1. PICK made \in BOOLEAN :
        extraction' = [extraction EXCEPT ![e].phase = "settled", ![e].outcome = "other", ![e].directory = made]
  BY DEF CannotSpawn
<1> DEFINE row == [extraction[e] EXCEPT !.phase = "settled", !.outcome = "other", !.directory = made]
<1>2. /\ extraction' = [extraction EXCEPT ![e] = row] /\ extraction[e].phase = "preparing"
      /\ activePdfProcesses' = activePdfProcesses - 1
  BY <1>1, OfCall DEF CannotSpawn, PdfIn
<1>3. extraction[e] \in PdfRow /\ Called(extraction[e])
  BY OfCall
<1>4. /\ row \in PdfRow /\ row.phase = "settled" /\ row.outcome = "other" /\ row.child = extraction[e].child
  BY <1>3, OutcomesNamed DEF PdfRow, PdfPhase
<1>5. extraction[e].child = "none"
  BY <1>2, <1>3 DEF Called
<1> HIDE DEF row
<1>6. Called(row) /\ Truthful(row)
  BY <1>4, <1>5, OutcomesNamed DEF Called, Truthful
<1>7. QED  BY <1>2, <1>4, <1>6, OneCall

\* A call whose child writes, ends or is stopped stays the call it is.
LEMMA ChildStep ==
  ASSUME PdfInv, NEW e \in Extraction, NEW row \in PdfRow, UNCHANGED activePdfProcesses,
         extraction' = [extraction EXCEPT ![e] = row], extraction[e].phase = "running",
         row.phase = "running", row.document = extraction[e].document, row.outcome = extraction[e].outcome,
         row.forcedFailure \in Forced, row.child = "none" => row.forcedFailure # "none"
  PROVE  PdfInv'
<1>1. extraction[e].document \in Document /\ extraction[e].outcome = "none"
  BY OfCall DEF Called
<1>2. Called(row) /\ Truthful(row)
  BY <1>1, OutcomesNamed DEF Called, Truthful, Forced
<1>3. QED  BY <1>2, OneCall

\* The worker writes its answer, exits or fails, and nobody is told yet.
LEMMA WritesStep ==
  ASSUME PdfInv, NEW e \in Extraction, WorkerWrites(e) \/ WorkerExits(e) \/ WorkerFails(e)
  PROVE  PdfInv'
<1>1. extraction[e] \in PdfRow /\ extraction[e].child = "running" /\ Called(extraction[e])
  BY OfCall DEF WorkerWrites, WorkerExits, WorkerFails
<1>2. extraction[e].phase = "running" /\ extraction[e].forcedFailure \in Forced
  BY <1>1 DEF Called
<1>3. activePdfProcesses' = activePdfProcesses
  BY DEF WorkerWrites, WorkerExits, WorkerFails, KeepsCount
<1>4. PICK said \in {"nothing", "part", "whole", "spoiled"}, child \in {"running", "exited", "failed"} :
        extraction' = [extraction EXCEPT ![e] = [extraction[e] EXCEPT !.said = said, !.child = child]]
  <2>1. CASE WorkerWrites(e)
    <3>1. PICK said \in {"part", "whole", "spoiled"} : extraction' = [extraction EXCEPT ![e].said = said]
      BY <2>1 DEF WorkerWrites
    <3>2. [extraction[e] EXCEPT !.said = said] = [extraction[e] EXCEPT !.said = said, !.child = "running"]
      BY <1>1 DEF PdfRow
    <3>3. QED  BY <3>1, <3>2
  <2>2. ASSUME NEW child \in {"exited", "failed"}, extraction' = [extraction EXCEPT ![e].child = child]
        PROVE  \E said \in {"nothing", "part", "whole", "spoiled"} :
                 extraction' = [extraction EXCEPT ![e] = [extraction[e] EXCEPT !.said = said, !.child = child]]
    <3> DEFINE said == extraction[e].said
    <3>1. said \in {"nothing", "part", "whole", "spoiled"}
      BY <1>1, PdfRowTyped
    <3>2. [extraction[e] EXCEPT !.child = child] = [extraction[e] EXCEPT !.said = said, !.child = child]
      BY <1>1 DEF PdfRow
    <3>3. QED  BY <2>2, <3>1, <3>2
  <2>3. CASE WorkerExits(e)
    BY <2>2, <2>3 DEF WorkerExits
  <2>4. CASE WorkerFails(e)
    BY <2>2, <2>4 DEF WorkerFails
  <2>5. QED  BY <2>1, <2>3, <2>4
<1> DEFINE row == [extraction[e] EXCEPT !.said = said, !.child = child]
<1>5. /\ row \in PdfRow /\ row.phase = "running" /\ row.document = extraction[e].document
      /\ row.outcome = extraction[e].outcome /\ row.forcedFailure = extraction[e].forcedFailure
      /\ row.child = child
  BY <1>1, <1>2 DEF PdfRow
<1>6. extraction' = [extraction EXCEPT ![e] = row]
  BY <1>4
<1> HIDE DEF row
<1>7. QED  BY <1>2, <1>3, <1>5, <1>6, ChildStep

\* forceStop keeps the first failure.
LEMMA ForceStopStep ==
  ASSUME PdfInv, NEW e \in Extraction, NEW failure \in Forced \ {"none"}, ForceStop(e, failure)
  PROVE  PdfInv'
<1> DEFINE row == [extraction[e] EXCEPT !.forcedFailure = failure]
<1>1. /\ extraction' = [extraction EXCEPT ![e] = row] /\ extraction[e].phase = "running"
      /\ activePdfProcesses' = activePdfProcesses
  BY OfCall DEF ForceStop, PdfIn, KeepsCount
<1>2. extraction[e] \in PdfRow /\ failure \in PdfOutcome
  BY OfCall, OutcomesNamed
<1>3. /\ row \in PdfRow /\ row.phase = "running" /\ row.document = extraction[e].document
      /\ row.outcome = extraction[e].outcome /\ row.forcedFailure = failure
  BY <1>1, <1>2 DEF PdfRow
<1> HIDE DEF row
<1>4. QED  BY <1>1, <1>3, ChildStep

\* The child's streams are closed: what was forced, how it ended, what it said.
LEMMA ClosesStep ==
  ASSUME PdfInv, NEW e \in Extraction, WorkerCloses(e)
  PROVE  PdfInv'
<1> DEFINE was == extraction[e]
<1>1. PICK outcome \in IF was.forcedFailure # "none" THEN {was.forcedFailure}
                       ELSE IF was.child = "failed" THEN {"worker_crashed"} ELSE Parsed(e) :
        extraction' = [extraction EXCEPT ![e].phase = "settled", ![e].outcome = outcome,
                         ![e].forcedFailure = "none", ![e].said = "nothing",
                         ![e].pages = IF outcome = "ok" THEN PagesWithText(was.document) ELSE {}]
  BY Zenon DEF WorkerCloses
<1> DEFINE pages == IF outcome = "ok" THEN PagesWithText(was.document) ELSE {}
           row == [was EXCEPT !.phase = "settled", !.outcome = outcome, !.forcedFailure = "none",
                              !.said = "nothing", !.pages = pages]
<1>2. /\ extraction' = [extraction EXCEPT ![e] = row] /\ was.phase = "running" /\ was.child # "running"
      /\ activePdfProcesses' = activePdfProcesses - 1
  BY <1>1, OfCall DEF WorkerCloses, PdfIn, Closed
<1>3. /\ was \in PdfRow /\ was.document \in Document /\ was.forcedFailure \in Forced
      /\ was.child = "none" => was.forcedFailure # "none"
      /\ was.child \in {"none", "exited", "failed"}
  BY <1>2, OfCall, PdfRowTyped DEF Called
<1>4. \/ outcome \in Forced \cup {"worker_protocol"}
      \/ outcome \in WorkerAnswers(was.document) /\ was.child = "exited"
  BY <1>1, <1>3 DEF Parsed, Forced
<1>5. outcome \in PdfOutcome
  <2>1. WorkerAnswers(was.document) \subseteq PdfOutcome
    BY <1>3, AnswerTrue DEF WorkerAnswers, PdfOutcome, DocumentFailure
  <2>2. QED  BY <1>4, <2>1, OutcomesNamed
<1>6. pages \subseteq Nat /\ (outcome = "ok" => pages = PagesWithText(was.document))
  BY DEF PagesWithText, PagesOf
<1> HIDE DEF pages
<1>7. /\ row \in PdfRow /\ row.phase = "settled" /\ row.outcome = outcome /\ row.pages = pages
      /\ row.child = was.child /\ row.document = was.document
  BY <1>3, <1>5, <1>6, OutcomesNamed DEF PdfRow, PdfPhase
<1> HIDE DEF row
<1>8. Called(row)
  BY <1>2, <1>7 DEF Called
<1>9. Truthful(row)
  BY <1>3, <1>4, <1>6, <1>7, OutcomesNamed DEF Truthful
<1>10. QED  BY <1>2, <1>7, <1>8, <1>9, OneCall

\* The directory is removed, or its error is the outcome.
LEMMA RemovesStep ==
  ASSUME PdfInv, NEW e \in Extraction, RemovesDirectory(e)
  PROVE  PdfInv'
<1> DEFINE was == extraction[e]
<1>1. was \in PdfRow /\ Called(was) /\ Truthful(was) /\ was.phase = "settled"
      /\ activePdfProcesses' = activePdfProcesses
  BY OfCall DEF RemovesDirectory, PdfIn, KeepsCount
<1>2. was.child # "running"
  BY <1>1 DEF Called
<1>3. ASSUME extraction' = [extraction EXCEPT ![e].phase = "ended", ![e].directory = FALSE]
      PROVE  PdfInv'
  <2> DEFINE row == [was EXCEPT !.phase = "ended", !.directory = FALSE]
  <2>1. extraction' = [extraction EXCEPT ![e] = row]
    BY <1>3
  <2>2. /\ row \in PdfRow /\ row.phase = "ended" /\ row.directory = FALSE /\ row.child = was.child
        /\ row.outcome = was.outcome /\ row.document = was.document /\ row.pages = was.pages
    BY <1>1 DEF PdfRow, PdfPhase
  <2> HIDE DEF row
  <2>3. Called(row) /\ Truthful(row)
    BY <1>1, <1>2, <2>2 DEF Called, Truthful
  <2>4. QED  BY <1>1, <2>1, <2>2, <2>3, OneCall
<1>4. ASSUME extraction' = [extraction EXCEPT ![e].phase = "ended", ![e].outcome = "other", ![e].pages = {}]
      PROVE  PdfInv'
  <2> DEFINE row == [was EXCEPT !.phase = "ended", !.outcome = "other", !.pages = {}]
  <2>1. extraction' = [extraction EXCEPT ![e] = row]
    BY <1>4
  <2>2. row \in PdfRow /\ row.phase = "ended" /\ row.child = was.child /\ row.outcome = "other"
    BY <1>1, OutcomesNamed DEF PdfRow, PdfPhase
  <2> HIDE DEF row
  <2>3. Called(row) /\ Truthful(row)
    BY <1>2, <2>2, OutcomesNamed DEF Called, Truthful
  <2>4. QED  BY <1>1, <2>1, <2>2, <2>3, OneCall
<1>5. QED  BY <1>3, <1>4 DEF RemovesDirectory

\* Whatever calls are made at once and however their workers end, the inductive
\* invariant of the extraction holds.
THEOREM PdfInvariant == PdfSpec => []PdfInv
<1>1. PdfInit => PdfInv
  BY Idle
<1>2. PdfInv /\ [PdfNext]_pdfVars => PdfInv'
  <2> SUFFICES ASSUME PdfInv, [PdfNext]_pdfVars  PROVE PdfInv'
    OBVIOUS
  <2>1. CASE UNCHANGED pdfVars
    BY <2>1 DEF pdfVars, PdfInv, PdfShapes, Active
  <2>2. ASSUME NEW e \in Extraction, NEW d \in Document, RefusesPdf(e, d)  PROVE PdfInv'
    BY <2>2, RefusesStep
  <2>3. ASSUME NEW e \in Extraction, NEW d \in Document, TakesWorker(e, d)  PROVE PdfInv'
    BY <2>3, TakesStep
  <2>4. ASSUME NEW e \in Extraction, SpawnsWorker(e) \/ CannotSpawn(e)  PROVE PdfInv'
    BY <2>4, SpawnsStep, CannotSpawnStep
  <2>5. ASSUME NEW e \in Extraction, WorkerWrites(e) \/ WorkerExits(e) \/ WorkerFails(e)  PROVE PdfInv'
    BY <2>5, WritesStep
  <2>6. ASSUME NEW e \in Extraction, TimesOut(e) \/ StdinBreaks(e) \/ WritesTooMuch(e)  PROVE PdfInv'
    <3>1. {"timeout", "worker_crashed", "output_limit", "stderr_limit"} \subseteq Forced \ {"none"}
      BY DEF Forced
    <3>2. \E failure \in Forced \ {"none"} : ForceStop(e, failure)
      BY <2>6, <3>1 DEF TimesOut, StdinBreaks, WritesTooMuch
    <3>3. QED  BY <3>2, ForceStopStep
  <2>7. ASSUME NEW e \in Extraction, WorkerCloses(e)  PROVE PdfInv'
    BY <2>7, ClosesStep
  <2>8. ASSUME NEW e \in Extraction, RemovesDirectory(e)  PROVE PdfInv'
    BY <2>8, RemovesStep
  <2>9. QED  BY <2>1, <2>2, <2>3, <2>4, <2>5, <2>6, <2>7, <2>8 DEF PdfNext
<1>3. QED  BY <1>1, <1>2, PTL DEF PdfSpec

\* The calls and the count of workers keep their types.
THEOREM PdfTypes == PdfSpec => []PdfTypeOK
<1>1. PdfInv => PdfTypeOK
  <2> SUFFICES ASSUME PdfInv  PROVE PdfTypeOK
    OBVIOUS
  <2>1. activePdfProcesses \in Nat
    BY PdfConstants DEF PdfInv, PdfShapes
  <2>2. QED  BY <2>1, OfCall, PdfRowTyped DEF PdfTypeOK, PdfPhase
<1>2. QED  BY <1>1, PdfInvariant, PTL

\* Workers that run, and calls that count one.
LEMMA Counted ==
  ASSUME PdfInv
  PROVE  WorkersCounted
<1> DEFINE working == {e \in Extraction : extraction[e].child = "running"}
<1>1. working \subseteq Active /\ IsFiniteSet(Active)
  BY OfCall, PdfConstants, FS_Subset DEF Called, Active
<1>2. Cardinality(working) <= Cardinality(Active) /\ Cardinality(working) \in Nat /\ Cardinality(Active) \in Nat
  BY <1>1, FS_Subset, FS_CardinalityType
<1>3. Cardinality(Active) <= MaxConcurrency /\ MaxConcurrency \in Nat
  BY PdfConstants DEF PdfInv, PdfShapes
<1>4. Cardinality(working) <= MaxConcurrency
  BY <1>2, <1>3
<1>5. QED  BY <1>4 DEF PdfInv, WorkersCounted, Active

\* A call that ended well has every page with text of its document, within the limits.
LEMMA Whole ==
  ASSUME PdfInv
  PROVE  ExtractedWhole
<1> SUFFICES ASSUME NEW e \in Extraction
             PROVE  LET d == extraction[e].document
                        text(i) == d.pages[i].text
                        outcome == extraction[e].outcome
                    IN /\ outcome = "ok" =>
                            /\ d.opens = "yes" /\ Len(d.pages) <= MaxPages
                            /\ \A i \in PagesOf(d) : text(i) <= MaxPageText /\ (text(i) > 0 <=> i \in extraction[e].pages)
                            /\ extraction[e].pages # {} /\ Amount(d, "text", Len(d.pages)) <= MaxTotalText
                       /\ outcome = "encrypted" => d.opens = "encrypted"
                       /\ outcome = "page_limit" => Len(d.pages) > MaxPages
                       /\ outcome = "page_text_limit" => \E i \in PagesOf(d) : d.pages[i].raw > MaxPageText
                       /\ outcome = "no_extractable_text" => \A i \in PagesOf(d) : text(i) = 0
                       /\ outcome = "text_limit" => Amount(d, "text", Len(d.pages)) > MaxTotalText
                       /\ outcome \in DocumentFailure => extraction[e].child = "exited"
                       /\ extraction[e].phase = "ended" /\ extraction[e].directory => outcome = "other"
  BY DEF ExtractedWhole
<1> DEFINE d == extraction[e].document
           outcome == extraction[e].outcome
<1>1. Called(extraction[e]) /\ Truthful(extraction[e])
  BY OfCall
<1>2. /\ extraction[e].phase = "ended" /\ extraction[e].directory => outcome = "other"
      /\ outcome \in DocumentFailure \cup {"ok"} => d \in Document /\ outcome \in WorkerAnswers(d)
      /\ outcome \in DocumentFailure => extraction[e].child = "exited"
      /\ outcome = "ok" => extraction[e].pages = PagesWithText(d)
  BY <1>1 DEF Called, Truthful
<1>3. {"ok", "encrypted", "malformed", "page_limit", "page_text_limit", "no_extractable_text", "text_limit"}
        \subseteq DocumentFailure \cup {"ok"}
  BY DEF DocumentFailure
<1> HIDE DEF d, outcome
<1>4. CASE outcome = "malformed"
  BY <1>2, <1>4 DEF d, outcome
<1>5. CASE outcome \in (DocumentFailure \cup {"ok"}) \ {"malformed"}
  <2>1. d \in Document /\ outcome = WorkerAnswer(d)
    BY <1>2, <1>5 DEF WorkerAnswers
  <2>2. QED  BY <1>2, <2>1, AnswerTrue DEF d, outcome
<1>6. CASE outcome \notin DocumentFailure \cup {"ok"}
  BY <1>2, <1>3, <1>6 DEF d, outcome
<1>7. QED  BY <1>4, <1>5, <1>6

\* The workers that are counted are those that run, no more than are allowed, and a
\* call that ended well has the whole of its document, within every limit; a failure
\* that says of the document that it is encrypted, without text or beyond a limit is
\* true, and every failure that is laid to the document, "malformed" too, comes of a
\* worker that ended by itself.
THEOREM Pdfs == PdfSpec => []PdfsHold
<1>1. PdfInv => PdfsHold
  BY Counted, Whole DEF PdfsHold
<1>2. QED  BY <1>1, PdfInvariant, PTL

-------------------------------------------------------------------------------
(***************************************************************************)
(* CorpusRuns                                                              *)
(***************************************************************************)

Scanning == {"accepting", "inspect", "inspected", "enqueue", "lease", "work", "bind"}
Writing == {"put", "put_write", "reconcile", "evidence", "receipt", "inventory"}
CorpusPhase == Scanning \cup Writing \cup CommandOver
Manifests == [Pdf -> ManifestRecord]
JobStatus == {"absent", "queued", "processing", "processed", "failed"}
JobRows == [CorpusJob -> [status : JobStatus, scan : 0..MaxScan]]
CorpusRunRow ==
  [phase : CorpusPhase, at : Nat \ {0}, scan : 0..MaxScan, job : CorpusJob \cup {NoneYet},
   entries : Entries, snapshot : Manifests]
BackfillRow ==
  [phase : {"before", "decided", "write", "ended"}, at : Pdf,
   decision : {"none", "index", "retry", "skip", "reindex"}, snapshot : Manifests]

\* The tables, the files and the commands have their columns.
CorpusShapes ==
  /\ extracted \subseteq Pdf /\ backfilled \subseteq Pdf
  /\ acceptance \in [Pdf -> [scan : 0..MaxScan, current : BOOLEAN]]
  /\ corpusJobs \in JobRows
  /\ vectorsOf \in [Pdf -> CorpusJob \cup {NoneYet}]
  /\ operational \in Manifests
  /\ corpusFiles \in [FileNames -> Entries]
  /\ corpusRuns \in [CorpusRun -> CorpusRunRow]
  /\ backfill \in BackfillRow
  /\ together \in BOOLEAN /\ lastReplaced \in FileNames

\* The queue has each queued job once, and no other.
Queue ==
  /\ queued \in Seq(CorpusJob)
  /\ \A i \in 1..Len(queued) : corpusJobs[queued[i]].status = "queued"
  /\ \A i, j \in 1..Len(queued) : queued[i] = queued[j] => i = j

\* What a file or a run says of a source, with the jobs as they are.
EntryTrue(s, entry, jobs) ==
  /\ entry.status # "none" => entry.job \in CorpusJob
  /\ entry.status = "ingested" =>
       /\ jobs[entry.job] = [status |-> "processed", scan |-> entry.scan]
       /\ OfVersion(entry.job) = s
  /\ entry.status = "blocked" => jobs[entry.job].status = "failed"

\* A source that the inventory calls ingested by the job under the run's own key.
OwnEntry(s, papers) == papers["inventory"][s].status = "ingested" /\ papers["inventory"][s].job = s

\* What a run has noted is true and the same as the inventory says of its own jobs;
\* where it is in its files, and which job it is about to note.
RunHolds(c, jobs, papers, alone, records) ==
  /\ c.phase \in Scanning \cup {"put_write"} => c.at \in Pdf
  /\ c.phase \in {"work", "bind"} => c.job \in CorpusJob
  /\ c.phase \in CommandOver => c.entries = NoEntries
  /\ \A s \in Pdf : EntryTrue(s, c.entries[s], jobs)
  /\ \A s \in Pdf : c.phase \in Writing \/ (c.phase \in Scanning /\ s < c.at) =>
       (OwnEntry(s, papers) => c.entries[s] = papers["inventory"][s])
  /\ c.phase \in {"lease", "work"} => ~OwnEntry(c.at, papers)
  /\ c.phase = "bind" => /\ jobs[c.job].status = "processed"
                         /\ OwnEntry(c.at, papers) => c.job = c.at
  /\ c.phase \in {"receipt", "inventory"} => papers["evidence"] = FileWritten("evidence", c.entries)
  /\ c.phase = "inventory" => papers["receipt"] = c.entries
  /\ alone /\ c.phase = "put_write" => c.snapshot = records
  /\ alone /\ c.phase \in {"evidence", "receipt", "inventory"} =>
       \A s \in Pdf : c.entries[s].status = "ingested" => records[s].status = "indexed"

\* One run at a time; and no backfill meanwhile, unless two commands met.
Commands ==
  /\ \A r, q \in CorpusRun : CorpusRunning(r) /\ CorpusRunning(q) => r = q
  /\ ~together => /\ \A r \in CorpusRun : ~(CorpusRunning(r) /\ Backfilling)
                  /\ backfill.phase = "write" => backfill.snapshot = operational

\* The files: each entry is true, and they agree on the run's own jobs, and as a
\* whole when the inventory was replaced last.
Files ==
  /\ \A f \in FileNames, s \in Pdf : EntryTrue(s, corpusFiles[f][s], corpusJobs)
  /\ \A s \in Pdf : OwnEntry(s, corpusFiles) =>
       \A f \in FileNames : corpusFiles[f][s] = corpusFiles["inventory"][s]
  /\ lastReplaced = "inventory" =>
       /\ corpusFiles["evidence"] = FileWritten("evidence", corpusFiles["inventory"])
       /\ corpusFiles["receipt"] = corpusFiles["inventory"]
  /\ ~together => \A s \in Pdf : corpusFiles["inventory"][s].status = "ingested" =>
       s \in backfilled \/ operational[s].status = "indexed"

CorpusInv ==
  /\ CorpusShapes /\ Queue /\ Commands /\ Files
  /\ \A r \in CorpusRun : RunHolds(corpusRuns[r], corpusJobs, corpusFiles, ~together, operational)

\* Jobs go on, and those that are settled stay as they are.
JobsGrow(before, after) ==
  \A j \in CorpusJob : before[j].status \in {"processed", "failed"} => after[j] = before[j]

\* The jobs, the sources and the empty entries of the configuration.
LEMMA CorpusNamed ==
  /\ Pdf \subseteq Nat \ {0} /\ Cardinality(Pdf) \in Nat /\ 1 \in Pdf /\ OtherVersion \in Pdf
  /\ \A s \in Nat : s \in Pdf <=> s >= 1 /\ s <= Cardinality(Pdf)
  /\ Pdf \subseteq CorpusJob /\ OtherJob \in CorpusJob /\ \A j \in CorpusJob : OfVersion(j) \in Pdf
  /\ NoEntry \in CorpusEntry /\ NoEntry.status = "none" /\ NoEntries \in Entries /\ 0 \in 0..MaxScan
  /\ \A s \in Pdf : NoEntries[s] = NoEntry
  /\ NoManifestRecord \in ManifestRecord
<1>1. Cardinality(Pdf) \in Nat /\ Pdf = 1..Cardinality(Pdf) /\ OtherVersion \in Pdf /\ MaxScan \in Nat
  BY CorpusConstants, FS_CardinalityType
<1> DEFINE n == Cardinality(Pdf)
<1> HIDE DEF n
<1>2. n \in Nat /\ Pdf = 1..n
  BY <1>1 DEF n
<1>3. Pdf \subseteq Nat \ {0} /\ 1 \in Pdf /\ \A s \in Nat : s \in Pdf <=> s >= 1 /\ s <= n
  BY <1>1, <1>2
<1>4. Pdf \subseteq CorpusJob /\ OtherJob \in CorpusJob /\ \A j \in CorpusJob : OfVersion(j) \in Pdf
  BY <1>1, <1>3 DEF CorpusJob, OtherJob, OfVersion
<1>5. NoEntry \in CorpusEntry /\ NoEntry.status = "none" /\ 0 \in 0..MaxScan
  BY <1>1 DEF NoEntry, CorpusEntry
<1>6. NoEntries \in Entries /\ \A s \in Pdf : NoEntries[s] = NoEntry
  BY <1>5 DEF NoEntries, Entries
<1>7. NoManifestRecord \in ManifestRecord
  BY DEF NoManifestRecord, ManifestOf, ManifestRecord
<1>8. QED  BY <1>1, <1>2, <1>3, <1>4, <1>5, <1>6, <1>7 DEF n

\* The columns of a run.
LEMMA CorpusRowTyped ==
  ASSUME NEW c \in CorpusRunRow
  PROVE  /\ c.phase \in CorpusPhase /\ c.at \in Nat \ {0} /\ c.scan \in 0..MaxScan
         /\ c.job \in CorpusJob \cup {NoneYet} /\ c.entries \in Entries /\ c.snapshot \in Manifests
BY DEF CorpusRunRow

\* What is said of a source stays true while jobs go on.
LEMMA EntryKept ==
  ASSUME NEW s, NEW entry, NEW before, NEW after, JobsGrow(before, after), EntryTrue(s, entry, before)
  PROVE  EntryTrue(s, entry, after)
BY DEF EntryTrue, JobsGrow

\* What a run holds stays true while jobs go on.
LEMMA RunKept ==
  ASSUME NEW c \in CorpusRunRow, NEW before, NEW after, NEW papers, NEW alone, NEW records,
         JobsGrow(before, after), RunHolds(c, before, papers, alone, records)
  PROVE  RunHolds(c, after, papers, alone, records)
<1>1. \A s \in Pdf : EntryTrue(s, c.entries[s], after)
  BY EntryKept DEF RunHolds
<1>2. c.phase = "bind" => after[c.job].status = "processed"
  <2> SUFFICES ASSUME c.phase = "bind"  PROVE after[c.job].status = "processed"
    OBVIOUS
  <2>1. c.job \in CorpusJob /\ before[c.job].status = "processed"
    BY DEF RunHolds
  <2>2. QED  BY <2>1 DEF JobsGrow
<1>3. QED  BY <1>1, <1>2 DEF RunHolds

\* What the runs hold after a step is said of the state after it.
LEMMA RunsPrimed ==
  ASSUME \A r \in CorpusRun : RunHolds(corpusRuns'[r], corpusJobs', corpusFiles', ~together', operational')
  PROVE  (\A r \in CorpusRun : RunHolds(corpusRuns[r], corpusJobs, corpusFiles, ~together, operational))'
BY DEF RunHolds, EntryTrue, OwnEntry, FileWritten, Scanning, Writing, CommandOver, NoEntries, NoEntry, NoneYet,
       CorpusJob, OtherJob, OfVersion, FileNames

\* A run or the rest of the system steps, jobs go on, and no file is written.
LEMMA DataMoves ==
  ASSUME CorpusInv,
         UNCHANGED <<operational, corpusFiles, backfill, together, backfilled, lastReplaced>>,
         JobsGrow(corpusJobs, corpusJobs'), Queue', corpusJobs' \in JobRows,
         acceptance' \in [Pdf -> [scan : 0..MaxScan, current : BOOLEAN]],
         vectorsOf' \in [Pdf -> CorpusJob \cup {NoneYet}], extracted' \subseteq Pdf,
         corpusRuns' \in [CorpusRun -> CorpusRunRow],
         \A r \in CorpusRun : /\ RunHolds(corpusRuns'[r], corpusJobs', corpusFiles, ~together, operational)
                              /\ corpusRuns'[r].phase \notin CommandOver => CorpusRunning(r)
  PROVE  CorpusInv'
<1>1. CorpusShapes'
  <2>1. /\ operational \in Manifests /\ corpusFiles \in [FileNames -> Entries] /\ backfill \in BackfillRow
        /\ together \in BOOLEAN /\ lastReplaced \in FileNames /\ backfilled \subseteq Pdf
    BY DEF CorpusInv, CorpusShapes
  <2>2. /\ operational' \in Manifests /\ corpusFiles' \in [FileNames -> Entries] /\ backfill' \in BackfillRow
        /\ together' \in BOOLEAN /\ lastReplaced' \in FileNames /\ backfilled' \subseteq Pdf
    BY <2>1
  <2>3. /\ Entries' = Entries /\ Manifests' = Manifests /\ BackfillRow' = BackfillRow /\ JobRows' = JobRows
        /\ CorpusRunRow' = CorpusRunRow /\ CorpusJob' = CorpusJob /\ FileNames' = FileNames
        /\ NoneYet' = NoneYet
    BY DEF Entries, CorpusEntry, Manifests, ManifestRecord, BackfillRow, JobRows, JobStatus, CorpusRunRow,
           CorpusPhase, Scanning, Writing, CommandOver, CorpusJob, OtherJob, NoneYet, FileNames
  <2>4. QED  BY <2>2, <2>3 DEF CorpusShapes
<1>2. Commands'
  <2>1. \A r \in CorpusRun : CorpusRunning(r)' => CorpusRunning(r)
    BY DEF CorpusRunning
  <2>2. Backfilling' <=> Backfilling
    BY DEF Backfilling
  <2>3. Commands
    BY DEF CorpusInv
  <2>4. QED  BY <2>1, <2>2, <2>3 DEF Commands
<1>3. Files'
  <2>1. \A f \in FileNames, s \in Pdf : EntryTrue(s, corpusFiles[f][s], corpusJobs')
    BY EntryKept DEF CorpusInv, Files
  <2>2. QED  BY <2>1 DEF CorpusInv, Files, OwnEntry, EntryTrue, FileWritten
<1>4. \A r \in CorpusRun : RunHolds(corpusRuns'[r], corpusJobs', corpusFiles', ~together', operational')
  OBVIOUS
<1>5. QED  BY <1>1, <1>2, <1>3, <1>4, RunsPrimed DEF CorpusInv

\* One run steps.
LEMMA OneCorpusRun ==
  ASSUME CorpusInv, NEW r \in CorpusRun, NEW c \in CorpusRunRow, CorpusIs(r, c), CorpusRunning(r),
         CorpusFilesKept, UNCHANGED corpusHistory,
         JobsGrow(corpusJobs, corpusJobs'), Queue', corpusJobs' \in JobRows,
         acceptance' \in [Pdf -> [scan : 0..MaxScan, current : BOOLEAN]],
         vectorsOf' \in [Pdf -> CorpusJob \cup {NoneYet}], extracted' \subseteq Pdf,
         RunHolds(c, corpusJobs', corpusFiles, ~together, operational)
  PROVE  CorpusInv'
<1>1. corpusRuns \in [CorpusRun -> CorpusRunRow] /\ corpusRuns' = [corpusRuns EXCEPT ![r] = c]
  BY DEF CorpusInv, CorpusShapes, CorpusIs
<1>2. /\ corpusRuns' \in [CorpusRun -> CorpusRunRow] /\ corpusRuns'[r] = c
      /\ \A q \in CorpusRun \ {r} : corpusRuns'[q] = corpusRuns[q]
  BY <1>1
<1>3. ASSUME NEW q \in CorpusRun
      PROVE  /\ RunHolds(corpusRuns'[q], corpusJobs', corpusFiles, ~together, operational)
             /\ corpusRuns'[q].phase \notin CommandOver => CorpusRunning(q)
  <2>1. CASE q = r
    BY <1>2, <2>1
  <2>2. CASE q # r
    <3>1. corpusRuns'[q] = corpusRuns[q] /\ corpusRuns[q] \in CorpusRunRow
      BY <1>1, <1>2, <2>2
    <3>2. RunHolds(corpusRuns[q], corpusJobs', corpusFiles, ~together, operational)
      BY <3>1, RunKept DEF CorpusInv
    <3>3. QED  BY <3>1, <3>2 DEF CorpusRunning
  <2>3. QED  BY <2>1, <2>2
<1>4. UNCHANGED <<operational, corpusFiles, backfill, together, backfilled, lastReplaced>>
  BY DEF CorpusFilesKept, corpusHistory
<1>5. QED  BY <1>2, <1>3, <1>4, DataMoves

\* What the invariant says of one run and of the data.
LEMMA OfCorpus ==
  ASSUME CorpusInv
  PROVE  /\ extracted \subseteq Pdf /\ acceptance \in [Pdf -> [scan : 0..MaxScan, current : BOOLEAN]]
         /\ corpusJobs \in JobRows /\ vectorsOf \in [Pdf -> CorpusJob \cup {NoneYet}] /\ Queue
         /\ \A r \in CorpusRun : /\ corpusRuns[r] \in CorpusRunRow
                                  /\ RunHolds(corpusRuns[r], corpusJobs, corpusFiles, ~together, operational)
BY DEF CorpusInv, CorpusShapes

\* Where nothing of the data changes, jobs go on and the queue is as it was.
LEMMA DataStays ==
  ASSUME CorpusInv, UNCHANGED corpusData
  PROVE  /\ JobsGrow(corpusJobs, corpusJobs') /\ Queue' /\ corpusJobs' \in JobRows /\ corpusJobs' = corpusJobs
         /\ acceptance' \in [Pdf -> [scan : 0..MaxScan, current : BOOLEAN]]
         /\ vectorsOf' \in [Pdf -> CorpusJob \cup {NoneYet}] /\ extracted' \subseteq Pdf
BY OfCorpus DEF corpusData, JobsGrow, Queue

\* A run that is over holds nothing.
LEMMA OverHolds ==
  ASSUME NEW phase \in CommandOver, NEW jobs, NEW papers, NEW alone, NEW records
  PROVE  /\ [IdleCorpusRun EXCEPT !.phase = phase] \in CorpusRunRow
         /\ RunHolds([IdleCorpusRun EXCEPT !.phase = phase], jobs, papers, alone, records)
<1> DEFINE c == [IdleCorpusRun EXCEPT !.phase = phase]
<1>1. [s \in Pdf |-> NoManifestRecord] \in Manifests
  BY CorpusNamed DEF Manifests
<1>2. c \in CorpusRunRow /\ c.phase = phase /\ c.entries = NoEntries
  BY <1>1, CorpusNamed DEF IdleCorpusRun, CorpusRunRow, CorpusPhase
<1> HIDE DEF c
<1>3. \A s \in Pdf : EntryTrue(s, c.entries[s], jobs)
  BY <1>2, CorpusNamed DEF EntryTrue
<1>4. phase \notin Scanning \cup Writing
  BY DEF CommandOver, Scanning, Writing
<1>5. RunHolds(c, jobs, papers, alone, records)
  BY <1>2, <1>3, <1>4 DEF RunHolds, Scanning, Writing
<1>6. QED  BY <1>2, <1>5 DEF c

\* What is over is not touched by what others write, and no more is what reads nothing of it.
LEMMA RunElsewhere ==
  ASSUME NEW c, NEW jobs, NEW papers, NEW alone, NEW records, RunHolds(c, jobs, papers, alone, records),
         NEW files2, NEW alone2, NEW records2, alone2 => alone,
         c.phase \in CommandOver \/ (files2 = papers /\ (alone2 => records2 = records))
  PROVE  RunHolds(c, jobs, files2, alone2, records2)
<1>1. CASE c.phase \in CommandOver
  <2>1. c.phase \notin Scanning \cup Writing
    BY <1>1 DEF CommandOver, Scanning, Writing
  <2>2. QED  BY <1>1, <2>1 DEF RunHolds, Scanning, Writing
<1>2. CASE files2 = papers /\ (alone2 => records2 = records)
  BY <1>2 DEF RunHolds
<1>3. QED  BY <1>1, <1>2

\* Before it has a job, a run holds what it has noted.
LEMMA SamePlace ==
  ASSUME NEW jobs, NEW papers, NEW alone, NEW records,
         NEW was \in CorpusRunRow, was.phase \in Scanning, RunHolds(was, jobs, papers, alone, records),
         NEW c \in CorpusRunRow, c.phase \in {"inspect", "inspected", "enqueue"},
         c.at = was.at, c.entries = was.entries
  PROVE  RunHolds(c, jobs, papers, alone, records)
<1>1. c.phase \in Scanning /\ c.phase \notin CommandOver /\ c.phase \notin Writing /\ was.phase \notin Writing
  BY DEF Scanning, CommandOver, Writing
<1>2. QED  BY <1>1 DEF RunHolds, Scanning

\* A run that goes on to the next source.
LEMMA GoesToNext ==
  ASSUME NEW r \in CorpusRun, corpusRuns[r] \in CorpusRunRow
  PROVE  /\ NextPdf(r) \in CorpusRunRow /\ NextPdf(r).at = corpusRuns[r].at + 1
         /\ NextPdf(r).entries = corpusRuns[r].entries /\ NextPdf(r).phase = corpusRuns[r].phase
         /\ NextPdf(r).snapshot = corpusRuns[r].snapshot
<1> DEFINE was == corpusRuns[r]
<1> HIDE DEF was
<1>1. NextPdf(r) = [was EXCEPT !.at = was.at + 1, !.job = NoneYet, !.scan = 0]
  BY DEF NextPdf, was
<1>2. was \in CorpusRunRow /\ was.at + 1 \in Nat \ {0} /\ 0 \in 0..MaxScan
  BY CorpusNamed DEF CorpusRunRow, was
<1>3. QED  BY <1>1, <1>2 DEF CorpusRunRow, was

\* The source is noted and the run goes on to the next, or to its files.
LEMMA NotedHolds ==
  ASSUME NEW jobs, NEW papers, NEW alone, NEW records, NEW r \in CorpusRun, corpusRuns[r] \in CorpusRunRow,
         corpusRuns[r].phase \in Scanning, RunHolds(corpusRuns[r], jobs, papers, alone, records),
         NEW entry \in CorpusEntry, EntryTrue(PdfOf(r), entry, jobs),
         OwnEntry(PdfOf(r), papers) => entry = papers["inventory"][PdfOf(r)]
  PROVE  LET noted == [NextPdf(r) EXCEPT !.entries[PdfOf(r)] = entry]
             c == IF LastPdf(r) THEN [noted EXCEPT !.phase = "put", !.at = 1] ELSE [noted EXCEPT !.phase = "accepting"]
         IN  c \in CorpusRunRow /\ RunHolds(c, jobs, papers, alone, records)
<1> DEFINE was == corpusRuns[r]
           noted == [NextPdf(r) EXCEPT !.entries[PdfOf(r)] = entry]
           c == IF LastPdf(r) THEN [noted EXCEPT !.phase = "put", !.at = 1] ELSE [noted EXCEPT !.phase = "accepting"]
           s == was.at
           n == Cardinality(Pdf)
<1>1. s \in Pdf /\ s \in Nat /\ n \in Nat /\ s <= n /\ was.entries \in Entries
  BY CorpusNamed DEF RunHolds, CorpusRunRow
<1>2. PdfOf(r) = s /\ (LastPdf(r) <=> s = n)
  BY DEF PdfOf, LastPdf
<1>3. /\ noted \in CorpusRunRow /\ noted.at = s + 1 /\ noted.phase = was.phase
      /\ noted.entries = [was.entries EXCEPT ![s] = entry]
  <2>1. [was.entries EXCEPT ![s] = entry] \in Entries
    BY <1>1 DEF Entries
  <2>2. NextPdf(r) \in CorpusRunRow /\ NextPdf(r).at = s + 1 /\ NextPdf(r).entries = was.entries /\ NextPdf(r).phase = was.phase
    BY <1>1, GoesToNext
  <2>3. noted = [NextPdf(r) EXCEPT !.entries = [was.entries EXCEPT ![s] = entry]]
    BY <1>2, <2>2
  <2> HIDE DEF noted, was
  <2>4. noted \in CorpusRunRow
    BY <2>1, <2>2, <2>3 DEF CorpusRunRow
  <2>5. QED  BY <2>2, <2>3, <2>4 DEF CorpusRunRow
<1> HIDE DEF noted
<1>4. /\ c \in CorpusRunRow /\ c.entries = [was.entries EXCEPT ![s] = entry]
      /\ \/ s = n /\ c.phase = "put"
         \/ s # n /\ c.phase = "accepting" /\ c.at = s + 1
  <2>1. CASE s = n
    BY <1>2, <1>3, <2>1, CorpusNamed DEF CorpusRunRow, CorpusPhase, Writing
  <2>2. CASE s # n
    BY <1>2, <1>3, <2>2, CorpusNamed DEF CorpusRunRow, CorpusPhase, Scanning
  <2>3. QED  BY <2>1, <2>2
<1> HIDE DEF c, was
<1>5. c.entries[s] = entry /\ \A t \in Pdf : t # s => c.entries[t] = was.entries[t]
  BY <1>1, <1>4 DEF Entries
<1>6. \A t \in Pdf : EntryTrue(t, c.entries[t], jobs)
  BY <1>2, <1>5 DEF RunHolds, was
<1>7. \A t \in Pdf : t < s + 1 \/ s = n => (OwnEntry(t, papers) => c.entries[t] = papers["inventory"][t])
  <2> SUFFICES ASSUME NEW t \in Pdf, t < s + 1 \/ s = n, OwnEntry(t, papers)
               PROVE  c.entries[t] = papers["inventory"][t]
    OBVIOUS
  <2>1. t \in Nat /\ t <= n
    BY CorpusNamed DEF n
  <2>2. CASE t = s
    BY <1>2, <1>5, <2>2
  <2>3. CASE t # s
    <3>1. t < s
      BY <1>1, <2>1, <2>3
    <3>2. was.entries[t] = papers["inventory"][t]
      BY <3>1 DEF RunHolds, was
    <3>3. QED  BY <1>5, <2>3, <3>2
  <2>4. QED  BY <2>2, <2>3
<1>8. c.at = s + 1 /\ s # n => c.at \in Pdf
  BY <1>1, CorpusNamed DEF n
<1>9. RunHolds(c, jobs, papers, alone, records)
  BY <1>4, <1>6, <1>7, <1>8 DEF RunHolds, Scanning, Writing, CommandOver
<1>10. QED  BY <1>4, <1>9 DEF c, noted

\* Two sequences, one after the other.
LEMMA InARow ==
  ASSUME NEW S, NEW a \in Seq(S), NEW b \in Seq(S)
  PROVE  /\ a \o b \in Seq(S) /\ Len(a \o b) = Len(a) + Len(b)
         /\ \A k \in 1..Len(a \o b) : (a \o b)[k] = IF k <= Len(a) THEN a[k] ELSE b[k - Len(a)]
OBVIOUS

\* A sequence without its i-th place.
Without(q, i) == SubSeq(q, 1, i - 1) \o SubSeq(q, i + 1, Len(q))
LEMMA WithoutPlace ==
  ASSUME NEW S, NEW q \in Seq(S), NEW i \in 1..Len(q)
  PROVE  /\ Without(q, i) \in Seq(S) /\ Len(Without(q, i)) = Len(q) - 1
         /\ \A k \in 1..Len(Without(q, i)) : /\ k < i => Without(q, i)[k] = q[k]
                                             /\ k >= i => Without(q, i)[k] = q[k + 1]
<1> DEFINE a == SubSeq(q, 1, i - 1)
           b == SubSeq(q, i + 1, Len(q))
<1>1. Len(q) \in Nat /\ i \in Nat /\ 1 <= i /\ i <= Len(q)
  OBVIOUS
<1>2. a \in Seq(S) /\ Len(a) = i - 1 /\ \A k \in 1..Len(a) : a[k] = q[k]
  BY <1>1
<1>3. b \in Seq(S) /\ Len(b) = Len(q) - i /\ \A k \in 1..Len(b) : b[k] = q[k + i]
  BY <1>1
<1>0. Without(q, i) = a \o b
  BY DEF Without
<1> HIDE DEF a, b
<1>4. a \o b \in Seq(S) /\ Len(a \o b) = Len(q) - 1
  <2>1. Len(a \o b) = Len(a) + Len(b)
    BY <1>2, <1>3, InARow
  <2>2. a \o b \in Seq(S)
    BY <1>2, <1>3, InARow
  <2>3. Len(a) + Len(b) = Len(q) - 1
    BY <1>1, <1>2, <1>3
  <2>4. QED  BY <2>1, <2>2, <2>3
<1>5. ASSUME NEW k \in 1..Len(a \o b)
      PROVE  (k < i => (a \o b)[k] = q[k]) /\ (k >= i => (a \o b)[k] = q[k + 1])
  <2>1. (a \o b)[k] = IF k <= Len(a) THEN a[k] ELSE b[k - Len(a)]
    BY <1>2, <1>3, InARow
  <2>2. k \in Int /\ 1 <= k /\ k <= Len(q) - 1 /\ Len(a) = i - 1
    BY <1>1, <1>2, <1>4
  <2>3. CASE k < i
    <3>1. k \in 1..Len(a)
      BY <1>1, <2>2, <2>3
    <3>2. (a \o b)[k] = a[k]
      BY <2>1, <3>1
    <3>3. QED  BY <1>1, <1>2, <2>2, <2>3, <3>1, <3>2
  <2>4. CASE k >= i
    <3>1. k - Len(a) \in 1..Len(b) /\ ~(k <= Len(a)) /\ k - Len(a) + i = k + 1
      BY <1>1, <1>3, <2>2, <2>4
    <3>2. (a \o b)[k] = b[k - Len(a)] /\ b[k - Len(a)] = q[k - Len(a) + i]
      BY <1>3, <2>1, <3>1
    <3>3. QED  BY <1>1, <2>2, <2>4, <3>1, <3>2
  <2>5. QED  BY <1>1, <2>2, <2>3, <2>4
<1>6. QED  BY <1>0, <1>4, <1>5

\* A job that is queued for the first time.
LEMMA QueuedMore ==
  ASSUME CorpusInv, NEW j \in CorpusJob, QueueJob(j)
  PROVE  JobsGrow(corpusJobs, corpusJobs') /\ Queue' /\ corpusJobs' \in JobRows
<1>1. corpusJobs \in JobRows /\ Queue
  BY OfCorpus
<1>2. CASE corpusJobs[j].status = "absent"
  <2>1. corpusJobs' = [corpusJobs EXCEPT ![j].status = "queued"] /\ queued' = Append(queued, j)
    BY <1>2 DEF QueueJob
  <2>2. /\ corpusJobs' \in JobRows /\ corpusJobs'[j].status = "queued"
        /\ \A k \in CorpusJob \ {j} : corpusJobs'[k] = corpusJobs[k]
    BY <1>1, <2>1 DEF JobRows, JobStatus
  <2>3. JobsGrow(corpusJobs, corpusJobs')
    BY <1>2, <2>2 DEF JobsGrow
  <2>4. /\ queued \in Seq(CorpusJob) /\ \A i \in 1..Len(queued) : corpusJobs[queued[i]].status = "queued"
        /\ \A i, k \in 1..Len(queued) : queued[i] = queued[k] => i = k
    BY <1>1 DEF Queue
  <2>5. /\ queued' \in Seq(CorpusJob) /\ Len(queued') = Len(queued) + 1 /\ queued'[Len(queued) + 1] = j
        /\ \A i \in 1..Len(queued) : queued'[i] = queued[i] /\ queued[i] # j /\ queued[i] \in CorpusJob
    BY <1>2, <2>1, <2>4
  <2>6. \A i \in 1..Len(queued') : corpusJobs'[queued'[i]].status = "queued"
    BY <2>2, <2>4, <2>5
  <2>7. \A i, k \in 1..Len(queued') : queued'[i] = queued'[k] => i = k
    BY <2>4, <2>5
  <2>8. QED  BY <2>2, <2>3, <2>5, <2>6, <2>7 DEF Queue, CorpusJob, OtherJob
<1>3. CASE corpusJobs[j].status # "absent"
  BY <1>1, <1>3 DEF QueueJob, JobsGrow, Queue, CorpusJob, OtherJob
<1>4. QED  BY <1>2, <1>3

\* A job that is settled.
LEMMA JobSettled ==
  ASSUME CorpusInv, NEW j \in CorpusJob, NEW status \in {"processed", "failed"}, SettlesJob(j, status),
         corpusJobs[j].status = "processing", queued' = queued
  PROVE  /\ JobsGrow(corpusJobs, corpusJobs') /\ Queue' /\ corpusJobs' \in JobRows
         /\ corpusJobs'[j].status = status
<1>1. corpusJobs \in JobRows /\ Queue
  BY OfCorpus
<1>2. /\ corpusJobs' \in JobRows /\ corpusJobs'[j].status = status
      /\ \A k \in CorpusJob \ {j} : corpusJobs'[k] = corpusJobs[k]
  BY <1>1 DEF SettlesJob, JobRows, JobStatus
<1>3. JobsGrow(corpusJobs, corpusJobs')
  BY <1>2 DEF JobsGrow
<1>4. \A i \in 1..Len(queued) : queued[i] \in CorpusJob /\ queued[i] # j
  BY <1>1 DEF Queue
<1>5. Queue'
  BY <1>1, <1>2, <1>4 DEF Queue, CorpusJob, OtherJob
<1>6. QED  BY <1>2, <1>3, <1>5

\* A job that fails takes the version's extraction_status with it.
LEMMA FailedJob ==
  ASSUME CorpusInv, NEW j \in CorpusJob, JobFails(j), corpusJobs[j].status = "processing", queued' = queued
  PROVE  /\ JobsGrow(corpusJobs, corpusJobs') /\ Queue' /\ corpusJobs' \in JobRows
         /\ corpusJobs'[j].status = "failed"
         /\ vectorsOf' \in [Pdf -> CorpusJob \cup {NoneYet}] /\ extracted' \subseteq Pdf
BY JobSettled, OfCorpus DEF JobFails

\* The steps of a run before it has a job.
LEMMA SeekingStep ==
  ASSUME CorpusInv, NEW r \in CorpusRun, FindsAcceptance(r) \/ Inspects(r) \/ Accepts(r)
  PROVE  CorpusInv'
<1> DEFINE was == corpusRuns[r]
<1>1. was \in CorpusRunRow /\ RunHolds(was, corpusJobs, corpusFiles, ~together, operational)
  BY OfCorpus
<1>2. was.phase \in {"accepting", "inspect", "inspected"} /\ CorpusFilesKept /\ UNCHANGED corpusHistory
  BY DEF FindsAcceptance, Inspects, Accepts, CorpusAt
<1>3. CorpusRunning(r) /\ was.phase \in Scanning /\ was.at \in Pdf
  BY <1>1, <1>2 DEF CorpusRunning, CommandOver, Scanning, RunHolds
<1>4. acceptance \in [Pdf -> [scan : 0..MaxScan, current : BOOLEAN]] /\ acceptance[was.at].scan \in 0..MaxScan
  BY <1>3, OfCorpus
<1>5. UNCHANGED <<corpusJobs, queued, vectorsOf, extracted>>
  BY DEF FindsAcceptance, Inspects, Accepts, corpusData
<1>6. /\ JobsGrow(corpusJobs, corpusJobs') /\ Queue' /\ corpusJobs' \in JobRows /\ corpusJobs' = corpusJobs
      /\ vectorsOf' \in [Pdf -> CorpusJob \cup {NoneYet}] /\ extracted' \subseteq Pdf
  BY <1>5, OfCorpus DEF JobsGrow, Queue, CorpusJob, OtherJob
<1>7. acceptance' \in [Pdf -> [scan : 0..MaxScan, current : BOOLEAN]]
  <2>1. CASE FindsAcceptance(r)
    BY <1>4, <2>1 DEF FindsAcceptance, corpusData
  <2>2. CASE Inspects(r)
    <3>1. acceptance[was.at].scan + 1 \in 0..MaxScan
      BY <1>4, <2>2, CorpusConstants DEF Inspects, PdfOf
    <3>2. QED  BY <1>3, <1>4, <2>2, <3>1 DEF Inspects, PdfOf
  <2>3. CASE Accepts(r)
    BY <1>3, <1>4, <2>3 DEF Accepts, PdfOf
  <2>4. QED  BY <2>1, <2>2, <2>3
<1>8. \/ CorpusIs(r, CorpusStopped)
      \/ \E phase \in {"inspect", "inspected", "enqueue"}, scan \in 0..MaxScan :
           CorpusIs(r, [was EXCEPT !.phase = phase, !.scan = scan])
  <2>0. was.scan \in 0..MaxScan /\ \A phase : [was EXCEPT !.phase = phase] = [was EXCEPT !.phase = phase, !.scan = was.scan]
    BY <1>1 DEF CorpusRunRow
  <2>1. CASE FindsAcceptance(r)
    <3>1. CASE acceptance[was.at].current
      <4>1. CorpusIs(r, [was EXCEPT !.phase = "enqueue", !.scan = acceptance[was.at].scan])
        BY <2>1, <3>1 DEF FindsAcceptance, PdfOf
      <4>2. QED  BY <1>4, <4>1
    <3>2. CASE ~acceptance[was.at].current
      <4>1. CorpusIs(r, [was EXCEPT !.phase = "inspect"])
        BY <2>1, <3>2 DEF FindsAcceptance, PdfOf
      <4>2. CorpusIs(r, [was EXCEPT !.phase = "inspect", !.scan = was.scan])
        BY <2>0, <4>1
      <4>3. QED  BY <2>0, <4>2
    <3>3. QED  BY <3>1, <3>2
  <2>2. CASE Inspects(r)
    <3>1. acceptance[was.at].scan + 1 \in 0..MaxScan
      BY <1>4, <2>2, CorpusConstants DEF Inspects, PdfOf
    <3>2. CorpusIs(r, [was EXCEPT !.phase = "inspected", !.scan = acceptance[was.at].scan + 1])
      BY <2>2 DEF Inspects, PdfOf
    <3>3. QED  BY <3>1, <3>2
  <2>3. CASE Accepts(r)
    <3>1. CASE acceptance[was.at].scan = was.scan
      <4>1. CorpusIs(r, [was EXCEPT !.phase = "enqueue"])
        BY <2>3, <3>1 DEF Accepts, PdfOf, CorpusGoes
      <4>2. CorpusIs(r, [was EXCEPT !.phase = "enqueue", !.scan = was.scan])
        BY <2>0, <4>1
      <4>3. QED  BY <2>0, <4>2
    <3>2. CASE acceptance[was.at].scan # was.scan
      BY <2>3, <3>2 DEF Accepts, PdfOf
    <3>3. QED  BY <3>1, <3>2
  <2>4. QED  BY <2>1, <2>2, <2>3
<1> HIDE DEF was
<1>9. CASE CorpusIs(r, CorpusStopped)
  <2>1. /\ CorpusStopped \in CorpusRunRow
        /\ RunHolds(CorpusStopped, corpusJobs', corpusFiles, ~together, operational)
    BY OverHolds DEF CorpusStopped, CommandOver
  <2>2. QED  BY <1>2, <1>3, <1>6, <1>7, <1>9, <2>1, OneCorpusRun
<1>10. ASSUME NEW phase \in {"inspect", "inspected", "enqueue"}, NEW scan \in 0..MaxScan,
              CorpusIs(r, [was EXCEPT !.phase = phase, !.scan = scan])
       PROVE  CorpusInv'
  <2> DEFINE c == [was EXCEPT !.phase = phase, !.scan = scan]
  <2>1. phase \in CorpusPhase
    BY DEF CorpusPhase, Scanning
  <2>2. c \in CorpusRunRow /\ c.phase = phase /\ c.at = was.at /\ c.entries = was.entries
    BY <1>1, <2>1 DEF CorpusRunRow, was
  <2> HIDE DEF c
  <2>3. RunHolds(c, corpusJobs, corpusFiles, ~together, operational)
    BY <1>1, <1>3, <2>2, SamePlace DEF was
  <2>4. CorpusIs(r, c)
    BY <1>10 DEF c
  <2>5. QED  BY <1>2, <1>3, <1>6, <1>7, <2>2, <2>3, <2>4, OneCorpusRun
<1>11. QED  BY <1>8, <1>9, <1>10

\* What the files say of a source is true.
LEMMA EntriesTrue ==
  ASSUME CorpusInv, NEW s \in Pdf
  PROVE  /\ EntryTrue(s, corpusFiles["inventory"][s], corpusJobs)
         /\ corpusFiles["inventory"][s] \in CorpusEntry
<1>1. "inventory" \in FileNames /\ corpusFiles \in [FileNames -> Entries] /\ Files
  BY DEF CorpusInv, CorpusShapes, FileNames
<1>2. QED  BY <1>1 DEF Files, Entries

\* A run that stops.
LEMMA StoppedRun ==
  ASSUME CorpusInv, NEW r \in CorpusRun, CorpusRunning(r), CorpusIs(r, CorpusStopped), CorpusFilesKept,
         UNCHANGED corpusHistory, JobsGrow(corpusJobs, corpusJobs'), Queue', corpusJobs' \in JobRows,
         acceptance' \in [Pdf -> [scan : 0..MaxScan, current : BOOLEAN]],
         vectorsOf' \in [Pdf -> CorpusJob \cup {NoneYet}], extracted' \subseteq Pdf
  PROVE  CorpusInv'
<1>1. /\ CorpusStopped \in CorpusRunRow
      /\ RunHolds(CorpusStopped, corpusJobs', corpusFiles, ~together, operational)
  BY OverHolds DEF CorpusStopped, CommandOver
<1>2. QED  BY <1>1, OneCorpusRun

\* The job of the source is queued, or found processed.
LEMMA EnqueuesStep ==
  ASSUME CorpusInv, NEW r \in CorpusRun, Enqueues(r)
  PROVE  CorpusInv'
<1> DEFINE was == corpusRuns[r]
           s == was.at
           c == IF corpusJobs[s].status = "processed" THEN [was EXCEPT !.phase = "bind", !.job = s]
                ELSE [was EXCEPT !.phase = "lease"]
<1>1. was \in CorpusRunRow /\ RunHolds(was, corpusJobs, corpusFiles, ~together, operational)
  BY OfCorpus
<1>2. was.phase = "enqueue" /\ CorpusFilesKept /\ UNCHANGED corpusHistory /\ QueueJob(s) /\ CorpusIs(r, c)
  BY DEF Enqueues, CorpusAt, PdfOf
<1>3. CorpusRunning(r) /\ s \in Pdf /\ s \in CorpusJob
  BY <1>1, <1>2, CorpusNamed DEF CorpusRunning, CommandOver, Scanning, RunHolds
<1>4. JobsGrow(corpusJobs, corpusJobs') /\ Queue' /\ corpusJobs' \in JobRows
  BY <1>2, <1>3, QueuedMore
<1>5. /\ acceptance' \in [Pdf -> [scan : 0..MaxScan, current : BOOLEAN]]
      /\ vectorsOf' \in [Pdf -> CorpusJob \cup {NoneYet}] /\ extracted' \subseteq Pdf
  BY OfCorpus DEF Enqueues
<1>6. /\ c \in CorpusRunRow /\ c.at = s /\ c.entries = was.entries
      /\ \/ corpusJobs[s].status = "processed" /\ c.phase = "bind" /\ c.job = s
         \/ corpusJobs[s].status # "processed" /\ c.phase = "lease"
  <2>1. {"bind", "lease"} \subseteq CorpusPhase
    BY DEF CorpusPhase, Scanning
  <2>2. QED  BY <1>1, <1>3, <2>1 DEF CorpusRunRow
<1>7. corpusJobs[s].status # "processed" => ~OwnEntry(s, corpusFiles)
  <2>1. EntryTrue(s, corpusFiles["inventory"][s], corpusJobs)
    BY <1>3, EntriesTrue
  <2>2. QED  BY <2>1 DEF EntryTrue, OwnEntry
<1>8. corpusJobs[s].status = "processed" => corpusJobs'[s].status = "processed"
  BY <1>3, <1>4 DEF JobsGrow
<1> HIDE DEF c, s, was
<1>9. \A t \in Pdf : EntryTrue(t, c.entries[t], corpusJobs')
  BY <1>1, <1>4, <1>6, EntryKept DEF RunHolds
<1>10. c.phase \in Scanning /\ c.phase \notin CommandOver /\ c.phase \notin Writing /\ c.phase # "work"
  BY <1>6 DEF Scanning, CommandOver, Writing
<1>11. \A t \in Pdf : t < c.at => (OwnEntry(t, corpusFiles) => c.entries[t] = corpusFiles["inventory"][t])
  BY <1>1, <1>2, <1>6 DEF RunHolds, Scanning, s
<1>12. RunHolds(c, corpusJobs', corpusFiles, ~together, operational)
  BY <1>3, <1>6, <1>7, <1>8, <1>9, <1>10, <1>11 DEF RunHolds, Writing
<1>13. QED  BY <1>2, <1>3, <1>4, <1>5, <1>6, <1>12, OneCorpusRun

\* The worker leases the first job it may.
LEMMA LeasesStep ==
  ASSUME CorpusInv, NEW r \in CorpusRun, Leases(r)
  PROVE  CorpusInv'
<1> DEFINE was == corpusRuns[r]
<1>1. was \in CorpusRunRow /\ RunHolds(was, corpusJobs, corpusFiles, ~together, operational)
  BY OfCorpus
<1>2. PICK i \in 1..Len(queued) :
        /\ corpusJobs' = [corpusJobs EXCEPT ![queued[i]] =
             [status |-> "processing", scan |-> acceptance[OfVersion(queued[i])].scan]]
        /\ queued' = SubSeq(queued, 1, i - 1) \o SubSeq(queued, i + 1, Len(queued))
        /\ CorpusIs(r, [was EXCEPT !.phase = "work", !.job = queued[i]])
  BY DEF Leases
<1>3. was.phase = "lease" /\ CorpusFilesKept /\ UNCHANGED corpusHistory /\ UNCHANGED <<acceptance, vectorsOf, extracted>>
  BY DEF Leases, CorpusAt
<1>4. CorpusRunning(r) /\ was.at \in Pdf /\ was.phase \in Scanning /\ ~OwnEntry(was.at, corpusFiles)
  BY <1>1, <1>3 DEF CorpusRunning, CommandOver, Scanning, RunHolds
<1>5. /\ acceptance \in [Pdf -> [scan : 0..MaxScan, current : BOOLEAN]]
      /\ acceptance' \in [Pdf -> [scan : 0..MaxScan, current : BOOLEAN]]
      /\ vectorsOf' \in [Pdf -> CorpusJob \cup {NoneYet}] /\ extracted' \subseteq Pdf
  BY <1>3, OfCorpus
<1> DEFINE j == queued[i]
<1>6. /\ queued \in Seq(CorpusJob) /\ corpusJobs \in JobRows /\ j \in CorpusJob /\ Len(queued) \in Nat
      /\ \A k \in 1..Len(queued) : corpusJobs[queued[k]].status = "queued"
      /\ \A k, l \in 1..Len(queued) : queued[k] = queued[l] => k = l
  <2>1. queued \in Seq(CorpusJob) /\ corpusJobs \in JobRows /\ Queue
    BY OfCorpus DEF Queue
  <2>2. QED  BY <2>1 DEF Queue
<1>7. /\ corpusJobs' \in JobRows
      /\ \A k \in CorpusJob \ {j} : corpusJobs'[k] = corpusJobs[k]
  <2>1. [status |-> "processing", scan |-> acceptance[OfVersion(j)].scan] \in [status : JobStatus, scan : 0..MaxScan]
    BY <1>5, <1>6, CorpusNamed DEF JobStatus
  <2>2. QED  BY <1>2, <1>6, <2>1 DEF JobRows
<1>8. JobsGrow(corpusJobs, corpusJobs')
  BY <1>6, <1>7 DEF JobsGrow
<1>9. Queue'
  <2>1. /\ queued' \in Seq(CorpusJob) /\ Len(queued') = Len(queued) - 1
        /\ \A k \in 1..Len(queued') : /\ k < i => queued'[k] = queued[k]
                                      /\ k >= i => queued'[k] = queued[k + 1]
    <3>1. queued \in Seq(CorpusJob) /\ queued' = Without(queued, i)
      BY <1>2, <1>6 DEF Without
    <3>2. QED  BY <3>1, WithoutPlace
  <2> HIDE DEF j
  <2>2. \A k \in 1..Len(queued') :
          \E l \in 1..Len(queued) : queued'[k] = queued[l] /\ l # i /\ ((k < i /\ l = k) \/ (k >= i /\ l = k + 1))
    <3> SUFFICES ASSUME NEW k \in 1..Len(queued')
                 PROVE  \E l \in 1..Len(queued) : queued'[k] = queued[l] /\ l # i /\ ((k < i /\ l = k) \/ (k >= i /\ l = k + 1))
      OBVIOUS
    <3>1. CASE k < i
      BY <1>6, <2>1, <3>1
    <3>2. CASE k >= i
      <4>1. k + 1 \in 1..Len(queued) /\ k + 1 # i
        BY <1>6, <2>1, <3>2
      <4>2. QED  BY <2>1, <3>2, <4>1
    <3>3. QED  BY <3>1, <3>2
  <2>3. \A k \in 1..Len(queued') : corpusJobs'[queued'[k]].status = "queued"
    <3> SUFFICES ASSUME NEW k \in 1..Len(queued')  PROVE corpusJobs'[queued'[k]].status = "queued"
      OBVIOUS
    <3>1. PICK l \in 1..Len(queued) : queued'[k] = queued[l] /\ l # i
      BY <2>2
    <3>2. queued[l] \in CorpusJob /\ queued[l] # j
      BY <1>6, <3>1 DEF j
    <3>3. QED  BY <1>6, <1>7, <3>1, <3>2
  <2>4. ASSUME NEW k \in 1..Len(queued'), NEW m \in 1..Len(queued'), queued'[k] = queued'[m]
        PROVE  k = m
    <3>1. PICK l \in 1..Len(queued) : queued'[k] = queued[l] /\ l # i /\ ((k < i /\ l = k) \/ (k >= i /\ l = k + 1))
      BY <2>2
    <3>2. PICK o \in 1..Len(queued) : queued'[m] = queued[o] /\ o # i /\ ((m < i /\ o = m) \/ (m >= i /\ o = m + 1))
      BY <2>2
    <3>3. l = o
      BY <1>6, <2>4, <3>1, <3>2
    <3>4. QED  BY <3>1, <3>2, <3>3
  <2>5. QED  BY <2>1, <2>3, <2>4 DEF Queue, CorpusJob, OtherJob
<1> DEFINE c == [was EXCEPT !.phase = "work", !.job = j]
<1>10. c \in CorpusRunRow /\ c.phase = "work" /\ c.at = was.at /\ c.entries = was.entries /\ c.job = j
  BY <1>1, <1>6 DEF CorpusRunRow, CorpusPhase, Scanning
<1>11. CorpusIs(r, c)
  BY <1>2
<1> HIDE DEF c, was, j
<1>12. \A t \in Pdf : EntryTrue(t, c.entries[t], corpusJobs')
  BY <1>1, <1>8, <1>10, EntryKept DEF RunHolds
<1>13. \A t \in Pdf : t < c.at => (OwnEntry(t, corpusFiles) => c.entries[t] = corpusFiles["inventory"][t])
  BY <1>1, <1>4, <1>10 DEF RunHolds
<1>14. RunHolds(c, corpusJobs', corpusFiles, ~together, operational)
  BY <1>4, <1>6, <1>10, <1>12, <1>13 DEF RunHolds, Scanning, Writing, CommandOver
<1>15. QED  BY <1>3, <1>4, <1>5, <1>7, <1>8, <1>9, <1>10, <1>11, <1>14, OneCorpusRun

\* A step in which nothing of the data changes.
LEMMA RunStops ==
  ASSUME CorpusInv, NEW r \in CorpusRun, FindsIdle(r) \/ CorpusStops(r)
  PROVE  CorpusInv'
<1>1. /\ CorpusIs(r, CorpusStopped) /\ UNCHANGED corpusData /\ CorpusFilesKept /\ UNCHANGED corpusHistory
      /\ CorpusRunning(r)
  BY DEF FindsIdle, CorpusStops, CorpusAt, CorpusRunning, CommandOver
<1>2. QED  BY <1>1, DataStays, StoppedRun

\* The worker has processed its job.
LEMMA ProcessesStep ==
  ASSUME CorpusInv, NEW r \in CorpusRun, Processes(r)
  PROVE  CorpusInv'
<1> DEFINE was == corpusRuns[r]
           j == was.job
           c == [was EXCEPT !.phase = "bind"]
<1>1. was \in CorpusRunRow /\ RunHolds(was, corpusJobs, corpusFiles, ~together, operational)
  BY OfCorpus
<1>2. /\ was.phase = "work" /\ CorpusFilesKept /\ UNCHANGED corpusHistory /\ UNCHANGED <<acceptance, queued>>
      /\ corpusJobs[j].status = "processing" /\ SettlesJob(j, "processed") /\ CorpusIs(r, c)
      /\ vectorsOf' = [vectorsOf EXCEPT ![OfVersion(j)] = j] /\ extracted' = extracted \cup {OfVersion(j)}
  BY DEF Processes, CorpusAt, CorpusGoes
<1>3. CorpusRunning(r) /\ was.at \in Pdf /\ j \in CorpusJob /\ ~OwnEntry(was.at, corpusFiles)
  BY <1>1, <1>2 DEF CorpusRunning, CommandOver, Scanning, RunHolds
<1>4. JobsGrow(corpusJobs, corpusJobs') /\ Queue' /\ corpusJobs' \in JobRows /\ corpusJobs'[j].status = "processed"
  BY <1>2, <1>3, JobSettled
<1>5. /\ acceptance' \in [Pdf -> [scan : 0..MaxScan, current : BOOLEAN]]
      /\ vectorsOf' \in [Pdf -> CorpusJob \cup {NoneYet}] /\ extracted' \subseteq Pdf
  <2>1. OfVersion(j) \in Pdf /\ extracted \subseteq Pdf /\ vectorsOf \in [Pdf -> CorpusJob \cup {NoneYet}]
    BY <1>3, OfCorpus, CorpusNamed
  <2>2. QED  BY <1>2, <1>3, <2>1, OfCorpus
<1>6. c \in CorpusRunRow /\ c.phase = "bind" /\ c.at = was.at /\ c.entries = was.entries /\ c.job = j
  BY <1>1 DEF CorpusRunRow, CorpusPhase, Scanning
<1> HIDE DEF c, j, was
<1>7. \A t \in Pdf : EntryTrue(t, c.entries[t], corpusJobs')
  BY <1>1, <1>4, <1>6, EntryKept DEF RunHolds
<1>8. \A t \in Pdf : t < c.at => (OwnEntry(t, corpusFiles) => c.entries[t] = corpusFiles["inventory"][t])
  BY <1>1, <1>2, <1>6 DEF RunHolds, Scanning
<1>9. RunHolds(c, corpusJobs', corpusFiles, ~together, operational)
  BY <1>3, <1>4, <1>6, <1>7, <1>8 DEF RunHolds, Scanning, Writing, CommandOver
<1>10. QED  BY <1>2, <1>3, <1>4, <1>5, <1>6, <1>9, OneCorpusRun

\* The job fails for want of text, and the source is noted as blocked.
LEMMA NoTextStep ==
  ASSUME CorpusInv, NEW r \in CorpusRun, FindsNoText(r)
  PROVE  CorpusInv'
<1> DEFINE j == corpusRuns[r].job
           entry == [status |-> "blocked", job |-> j, scan |-> corpusRuns[r].scan]
           noted == [NextPdf(r) EXCEPT !.entries[PdfOf(r)] = entry]
           c == IF LastPdf(r) THEN [noted EXCEPT !.phase = "put", !.at = 1] ELSE [noted EXCEPT !.phase = "accepting"]
<1>1. corpusRuns[r] \in CorpusRunRow /\ RunHolds(corpusRuns[r], corpusJobs, corpusFiles, ~together, operational)
  BY OfCorpus
<1>2. /\ corpusRuns[r].phase = "work" /\ CorpusFilesKept /\ UNCHANGED corpusHistory /\ UNCHANGED <<acceptance, queued>>
      /\ corpusJobs[j].status = "processing" /\ JobFails(j) /\ CorpusIs(r, c)
  BY DEF FindsNoText, CorpusAt
<1>3. /\ CorpusRunning(r) /\ j \in CorpusJob /\ ~OwnEntry(PdfOf(r), corpusFiles) /\ PdfOf(r) \in Pdf
      /\ corpusRuns[r].phase \in Scanning
  BY <1>1, <1>2 DEF CorpusRunning, CommandOver, Scanning, RunHolds, PdfOf
<1>4. /\ JobsGrow(corpusJobs, corpusJobs') /\ Queue' /\ corpusJobs' \in JobRows /\ corpusJobs'[j].status = "failed"
      /\ vectorsOf' \in [Pdf -> CorpusJob \cup {NoneYet}] /\ extracted' \subseteq Pdf
  BY <1>2, <1>3, FailedJob
<1>5. acceptance' \in [Pdf -> [scan : 0..MaxScan, current : BOOLEAN]]
  BY <1>2, OfCorpus
<1>6. entry \in CorpusEntry /\ entry.status = "blocked" /\ entry.job = j
  BY <1>1, <1>3 DEF CorpusEntry, CorpusRunRow
<1>7. RunHolds(corpusRuns[r], corpusJobs', corpusFiles, ~together, operational)
  BY <1>1, <1>4, RunKept
<1>8. c \in CorpusRunRow /\ RunHolds(c, corpusJobs', corpusFiles, ~together, operational)
  <2> HIDE DEF j, entry
  <2>1. EntryTrue(PdfOf(r), entry, corpusJobs')
    BY <1>3, <1>4, <1>6 DEF EntryTrue
  <2>2. QED  BY <1>1, <1>3, <1>6, <1>7, <2>1, NotedHolds
<1> HIDE DEF c
<1>9. QED  BY <1>2, <1>3, <1>4, <1>5, <1>8, OneCorpusRun

\* The job fails, and the run with it.
LEMMA WorkFailsStep ==
  ASSUME CorpusInv, NEW r \in CorpusRun, WorkFails(r)
  PROVE  CorpusInv'
<1> DEFINE j == corpusRuns[r].job
<1>1. corpusRuns[r] \in CorpusRunRow /\ RunHolds(corpusRuns[r], corpusJobs, corpusFiles, ~together, operational)
  BY OfCorpus
<1>2. /\ corpusRuns[r].phase = "work" /\ CorpusFilesKept /\ UNCHANGED corpusHistory /\ UNCHANGED <<acceptance, queued>>
      /\ corpusJobs[j].status = "processing" /\ JobFails(j) /\ CorpusIs(r, CorpusStopped)
  BY DEF WorkFails, CorpusAt
<1>3. CorpusRunning(r) /\ j \in CorpusJob
  BY <1>1, <1>2 DEF CorpusRunning, CommandOver, RunHolds
<1>4. /\ JobsGrow(corpusJobs, corpusJobs') /\ Queue' /\ corpusJobs' \in JobRows
      /\ vectorsOf' \in [Pdf -> CorpusJob \cup {NoneYet}] /\ extracted' \subseteq Pdf
  BY <1>2, <1>3, FailedJob
<1>5. acceptance' \in [Pdf -> [scan : 0..MaxScan, current : BOOLEAN]]
  BY <1>2, OfCorpus
<1>6. QED  BY <1>2, <1>3, <1>4, <1>5, StoppedRun

\* The run binds the source to the job that was processed, or stops.
LEMMA BindsStep ==
  ASSUME CorpusInv, NEW r \in CorpusRun, Binds(r)
  PROVE  CorpusInv'
<1> DEFINE run == corpusRuns[r]
           s == run.at
           entry == [status |-> "ingested", job |-> run.job, scan |-> run.scan]
           noted == [NextPdf(r) EXCEPT !.entries[PdfOf(r)] = entry]
           c == IF LastPdf(r) THEN [noted EXCEPT !.phase = "put", !.at = 1] ELSE [noted EXCEPT !.phase = "accepting"]
<1>1. run \in CorpusRunRow /\ RunHolds(run, corpusJobs, corpusFiles, ~together, operational)
  BY OfCorpus
<1>2. run.phase = "bind" /\ UNCHANGED corpusData /\ CorpusFilesKept /\ UNCHANGED corpusHistory
  BY DEF Binds, CorpusAt
<1>3. /\ CorpusRunning(r) /\ run.job \in CorpusJob /\ PdfOf(r) = s /\ s \in Pdf /\ run.phase \in Scanning
      /\ corpusJobs[run.job].status = "processed" /\ (OwnEntry(s, corpusFiles) => run.job = s)
  BY <1>1, <1>2 DEF CorpusRunning, CommandOver, Scanning, RunHolds, PdfOf
<1>4. /\ JobsGrow(corpusJobs, corpusJobs') /\ Queue' /\ corpusJobs' \in JobRows /\ corpusJobs' = corpusJobs
      /\ acceptance' \in [Pdf -> [scan : 0..MaxScan, current : BOOLEAN]]
      /\ vectorsOf' \in [Pdf -> CorpusJob \cup {NoneYet}] /\ extracted' \subseteq Pdf
  BY <1>2, DataStays
<1>5. CASE ~(BindsAcceptance(r) /\ Persisted(r))
  <2>1. CorpusIs(r, CorpusStopped)
    BY <1>5 DEF Binds
  <2>2. QED  BY <1>2, <1>3, <1>4, <2>1, StoppedRun
<1>6. CASE BindsAcceptance(r) /\ Persisted(r)
  <2>1. CorpusIs(r, c)
    BY <1>6 DEF Binds, PdfOf
  <2>2. /\ entry \in CorpusEntry /\ entry.status = "ingested" /\ entry.job = run.job /\ entry.scan = run.scan
    BY <1>1, <1>3 DEF CorpusEntry, CorpusRunRow
  <2>3. OfVersion(run.job) = s /\ corpusJobs[run.job].scan = run.scan
    BY <1>3, <1>6 DEF BindsAcceptance, BindsVersion
  <2>4. corpusJobs[run.job] \in [status : JobStatus, scan : 0..MaxScan]
    BY <1>3, OfCorpus DEF JobRows
  <2>5. corpusJobs[run.job] = [status |-> "processed", scan |-> run.scan]
    BY <1>3, <2>3, <2>4
  <2> HIDE DEF entry, run
  <2>6. EntryTrue(PdfOf(r), entry, corpusJobs)
    BY <1>3, <2>2, <2>3, <2>5 DEF EntryTrue
  <2>7. ASSUME OwnEntry(s, corpusFiles)
        PROVE  entry = corpusFiles["inventory"][s]
    <3> DEFINE other == corpusFiles["inventory"][s]
    <3>1. other \in CorpusEntry /\ EntryTrue(s, other, corpusJobs)
      BY <1>3, EntriesTrue
    <3>2. other.status = "ingested" /\ other.job = s /\ run.job = s
      BY <1>3, <2>7 DEF OwnEntry
    <3> HIDE DEF other
    <3>3. corpusJobs[s] = [status |-> "processed", scan |-> other.scan]
      BY <3>1, <3>2 DEF EntryTrue
    <3>4. corpusJobs[s] = [status |-> "processed", scan |-> run.scan]
      BY <2>5, <3>2
    <3>5. other.scan = run.scan
      BY <3>3, <3>4
    <3>6. other = entry
      BY <2>2, <3>1, <3>2, <3>5 DEF CorpusEntry
    <3>7. QED  BY <3>6 DEF other
  <2>8. c \in CorpusRunRow /\ RunHolds(c, corpusJobs, corpusFiles, ~together, operational)
    BY <1>1, <1>3, <2>2, <2>6, <2>7, NotedHolds DEF run
  <2> HIDE DEF c
  <2>9. QED  BY <1>2, <1>3, <1>4, <2>1, <2>8, OneCorpusRun
<1>7. QED  BY <1>5, <1>6

\* A run that goes on in its files holds what it has noted.
LEMMA WritingHolds ==
  ASSUME NEW jobs, NEW papers, NEW alone, NEW records,
         NEW was \in CorpusRunRow, was.phase \in Writing, RunHolds(was, jobs, papers, alone, records),
         NEW c \in CorpusRunRow, c.phase \in Writing, c.entries = was.entries,
         c.phase = "put_write" => c.at \in Pdf /\ c.snapshot = records,
         c.phase \in {"evidence", "receipt", "inventory"} =>
           /\ was.phase = "reconcile"
           /\ c.phase = "evidence"
           /\ \A s \in Pdf : c.entries[s].status = "ingested" => records[s].status = "indexed"
  PROVE  RunHolds(c, jobs, papers, alone, records)
<1>1. c.phase \notin Scanning /\ c.phase \notin CommandOver /\ was.phase \notin Scanning
  BY DEF Scanning, CommandOver, Writing
<1>2. c.phase \notin {"receipt", "inventory", "lease", "work", "bind"}
  BY <1>1 DEF Scanning
<1>3. QED  BY <1>1, <1>2 DEF RunHolds, Scanning

\* The steps of a run in its files that write none of them.
LEMMA PutReadsStep ==
  ASSUME CorpusInv, NEW r \in CorpusRun, PutReads(r)
  PROVE  CorpusInv'
<1> DEFINE was == corpusRuns[r]
           c == IF PdfOf(r) \notin Pdf THEN [was EXCEPT !.phase = "reconcile"]
                ELSE IF was.entries[PdfOf(r)].status = "blocked" THEN NextPdf(r)
                ELSE [was EXCEPT !.phase = "put_write", !.snapshot = operational]
<1>1. was \in CorpusRunRow /\ RunHolds(was, corpusJobs, corpusFiles, ~together, operational)
  BY OfCorpus
<1>2. /\ was.phase = "put" /\ UNCHANGED corpusData /\ CorpusFilesKept /\ UNCHANGED corpusHistory
      /\ CorpusIs(r, c)
  BY DEF PutReads, CorpusAt
<1>3. CorpusRunning(r) /\ was.phase \in Writing
  BY <1>2 DEF CorpusRunning, CommandOver, Writing
<1>4. {"put", "put_write", "reconcile"} \subseteq CorpusPhase /\ operational \in Manifests
  BY DEF CorpusPhase, Writing, CorpusInv, CorpusShapes
<1>5. c \in CorpusRunRow /\ c.phase \in {"put", "put_write", "reconcile"} /\ c.entries = was.entries
      /\ (c.phase = "put_write" => c.at \in Pdf /\ c.snapshot = operational)
  <2>1. CASE PdfOf(r) \notin Pdf
    BY <1>1, <1>4, <2>1 DEF CorpusRunRow
  <2>2. CASE PdfOf(r) \in Pdf /\ was.entries[PdfOf(r)].status = "blocked"
    BY <1>1, <1>2, <2>2, GoesToNext
  <2>3. CASE PdfOf(r) \in Pdf /\ was.entries[PdfOf(r)].status # "blocked"
    BY <1>1, <1>4, <2>3 DEF CorpusRunRow, PdfOf
  <2>4. QED  BY <2>1, <2>2, <2>3
<1> HIDE DEF c
<1>6. RunHolds(c, corpusJobs, corpusFiles, ~together, operational)
  BY <1>1, <1>3, <1>5, WritingHolds DEF Writing
<1>7. QED  BY <1>2, <1>3, <1>5, <1>6, DataStays, OneCorpusRun

\* What the inventory is to call ingested is indexed, or the run stops.
LEMMA ReconcilesStep ==
  ASSUME CorpusInv, NEW r \in CorpusRun, Reconciles(r)
  PROVE  CorpusInv'
<1> DEFINE was == corpusRuns[r]
           c == [was EXCEPT !.phase = "evidence"]
<1>1. was \in CorpusRunRow /\ RunHolds(was, corpusJobs, corpusFiles, ~together, operational)
  BY OfCorpus
<1>2. was.phase = "reconcile" /\ UNCHANGED corpusData /\ CorpusFilesKept /\ UNCHANGED corpusHistory
  BY DEF Reconciles, CorpusAt
<1>3. CorpusRunning(r) /\ was.phase \in Writing
  BY <1>2 DEF CorpusRunning, CommandOver, Writing
<1>4. /\ JobsGrow(corpusJobs, corpusJobs') /\ Queue' /\ corpusJobs' \in JobRows /\ corpusJobs' = corpusJobs
      /\ acceptance' \in [Pdf -> [scan : 0..MaxScan, current : BOOLEAN]]
      /\ vectorsOf' \in [Pdf -> CorpusJob \cup {NoneYet}] /\ extracted' \subseteq Pdf
  BY <1>2, DataStays
<1>5. CASE ~Reconciled(was.entries)
  <2>1. CorpusIs(r, CorpusStopped)
    BY <1>5 DEF Reconciles
  <2>2. QED  BY <1>2, <1>3, <1>4, <2>1, StoppedRun
<1>6. CASE Reconciled(was.entries)
  <2>1. CorpusIs(r, c)
    BY <1>6 DEF Reconciles
  <2>2. c \in CorpusRunRow /\ c.phase = "evidence" /\ c.entries = was.entries
    BY <1>1 DEF CorpusRunRow, CorpusPhase, Writing
  <2>3. \A s \in Pdf : c.entries[s].status = "ingested" => operational[s].status = "indexed"
    BY <1>6, <2>2 DEF Reconciled
  <2> HIDE DEF c
  <2>4. RunHolds(c, corpusJobs, corpusFiles, ~together, operational)
    BY <1>1, <1>2, <1>3, <2>2, <2>3, WritingHolds DEF Writing
  <2>5. QED  BY <1>2, <1>3, <1>4, <2>1, <2>2, <2>4, OneCorpusRun
<1>7. QED  BY <1>5, <1>6

\* After a step the tables have their columns still.
LEMMA ShapesPrimed ==
  ASSUME extracted' \subseteq Pdf, backfilled' \subseteq Pdf,
         acceptance' \in [Pdf -> [scan : 0..MaxScan, current : BOOLEAN]], corpusJobs' \in JobRows,
         vectorsOf' \in [Pdf -> CorpusJob \cup {NoneYet}], operational' \in Manifests,
         corpusFiles' \in [FileNames -> Entries], corpusRuns' \in [CorpusRun -> CorpusRunRow],
         backfill' \in BackfillRow, together' \in BOOLEAN, lastReplaced' \in FileNames
  PROVE  CorpusShapes'
<1>1. /\ Entries' = Entries /\ Manifests' = Manifests /\ BackfillRow' = BackfillRow /\ JobRows' = JobRows
      /\ CorpusRunRow' = CorpusRunRow /\ CorpusJob' = CorpusJob /\ FileNames' = FileNames
      /\ NoneYet' = NoneYet
  BY DEF Entries, CorpusEntry, Manifests, ManifestRecord, BackfillRow, JobRows, JobStatus, CorpusRunRow,
         CorpusPhase, Scanning, Writing, CommandOver, CorpusJob, OtherJob, NoneYet, FileNames
<1>2. QED  BY <1>1 DEF CorpusShapes

\* The data stay, and what the commands and the files have become holds.
LEMMA CommandStep ==
  ASSUME CorpusInv, UNCHANGED corpusData, backfilled' \subseteq Pdf, operational' \in Manifests,
         corpusFiles' \in [FileNames -> Entries], corpusRuns' \in [CorpusRun -> CorpusRunRow],
         backfill' \in BackfillRow, together' \in BOOLEAN, lastReplaced' \in FileNames,
         Commands', Files',
         \A r \in CorpusRun : RunHolds(corpusRuns'[r], corpusJobs, corpusFiles', ~together', operational')
  PROVE  CorpusInv'
<1>1. /\ Queue' /\ corpusJobs' \in JobRows /\ corpusJobs' = corpusJobs
      /\ acceptance' \in [Pdf -> [scan : 0..MaxScan, current : BOOLEAN]]
      /\ vectorsOf' \in [Pdf -> CorpusJob \cup {NoneYet}] /\ extracted' \subseteq Pdf
  BY DataStays
<1>2. CorpusShapes'
  BY <1>1, ShapesPrimed
<1>3. \A r \in CorpusRun : RunHolds(corpusRuns'[r], corpusJobs', corpusFiles', ~together', operational')
  BY <1>1
<1>4. QED  BY <1>1, <1>2, <1>3, RunsPrimed DEF CorpusInv

\* The files and the commands have their columns.
LEMMA OfFiles ==
  ASSUME CorpusInv
  PROVE  /\ operational \in Manifests /\ corpusFiles \in [FileNames -> Entries] /\ backfill \in BackfillRow
         /\ backfilled \subseteq Pdf /\ together \in BOOLEAN /\ lastReplaced \in FileNames
         /\ corpusRuns \in [CorpusRun -> CorpusRunRow] /\ Commands /\ Files
BY DEF CorpusInv, CorpusShapes

\* What the files hold after a step is said of the state after it.
LEMMA FilesPrimed ==
  ASSUME \A f \in FileNames, s \in Pdf : EntryTrue(s, corpusFiles'[f][s], corpusJobs'),
         \A s \in Pdf : OwnEntry(s, corpusFiles') =>
           \A f \in FileNames : corpusFiles'[f][s] = corpusFiles'["inventory"][s],
         lastReplaced' = "inventory" =>
           /\ corpusFiles'["evidence"] = FileWritten("evidence", corpusFiles'["inventory"])
           /\ corpusFiles'["receipt"] = corpusFiles'["inventory"],
         ~together' => \A s \in Pdf : corpusFiles'["inventory"][s].status = "ingested" =>
           s \in backfilled' \/ operational'[s].status = "indexed"
  PROVE  Files'
<1>1. FileNames' = FileNames
  BY DEF FileNames
<1>2. \A f \in FileNames, s \in Pdf : EntryTrue(s, corpusFiles[f][s], corpusJobs)'
  BY DEF EntryTrue, CorpusJob, OtherJob, OfVersion
<1>3. FileWritten("evidence", corpusFiles["inventory"])' = FileWritten("evidence", corpusFiles'["inventory"])
  BY DEF FileWritten, NoEntry, NoneYet
<1>4. QED  BY <1>1, <1>2, <1>3 DEF Files, OwnEntry

\* A run writes: every other one is over, and holds nothing.
LEMMA OthersOver ==
  ASSUME CorpusInv, NEW r \in CorpusRun, CorpusRunning(r), NEW c \in CorpusRunRow, CorpusIs(r, c),
         NEW papers, NEW records, RunHolds(c, corpusJobs, papers, ~together, records)
  PROVE  /\ corpusRuns' \in [CorpusRun -> CorpusRunRow]
         /\ \A q \in CorpusRun : RunHolds(corpusRuns'[q], corpusJobs, papers, ~together, records)
         /\ \A q \in CorpusRun : corpusRuns'[q].phase \notin CommandOver => q = r
<1>1. corpusRuns \in [CorpusRun -> CorpusRunRow] /\ Commands
  BY OfFiles
<1>2. /\ corpusRuns' \in [CorpusRun -> CorpusRunRow] /\ corpusRuns'[r] = c
      /\ \A q \in CorpusRun \ {r} : corpusRuns'[q] = corpusRuns[q]
  BY <1>1 DEF CorpusIs
<1>3. \A q \in CorpusRun \ {r} : corpusRuns[q].phase \in CommandOver
  BY <1>1 DEF Commands, CorpusRunning
<1>4. ASSUME NEW q \in CorpusRun
      PROVE  RunHolds(corpusRuns'[q], corpusJobs, papers, ~together, records)
  <2>1. CASE q = r
    BY <1>2, <2>1
  <2>2. CASE q # r
    <3>1. corpusRuns'[q] = corpusRuns[q] /\ corpusRuns[q].phase \in CommandOver
      BY <1>2, <1>3, <2>2
    <3>2. RunHolds(corpusRuns[q], corpusJobs, corpusFiles, ~together, operational)
      BY OfCorpus
    <3>3. QED  BY <3>1, <3>2, RunElsewhere
  <2>3. QED  BY <2>1, <2>2
<1>5. QED  BY <1>2, <1>3, <1>4

\* One run goes on: the commands are as they were.
LEMMA StillCommands ==
  ASSUME Commands, NEW r \in CorpusRun, CorpusRunning(r), UNCHANGED <<backfill, together>>,
         \A q \in CorpusRun : corpusRuns'[q].phase \notin CommandOver => q = r
  PROVE  Commands'
<1>1. \A q \in CorpusRun : CorpusRunning(q)' => q = r
  BY DEF CorpusRunning, CommandOver
<1>2. Backfilling' <=> Backfilling
  BY DEF Backfilling, CommandOver
<1>3. ~together => ~Backfilling /\ backfill.phase # "write"
  BY DEF Commands, Backfilling, CommandOver
<1>4. QED  BY <1>1, <1>2, <1>3 DEF Commands

\* A record of the manifest is put.
LEMMA PutWritesStep ==
  ASSUME CorpusInv, NEW r \in CorpusRun, PutWrites(r)
  PROVE  CorpusInv'
<1> DEFINE was == corpusRuns[r]
           s == was.at
           c == [NextPdf(r) EXCEPT !.phase = "put", !.snapshot = IdleCorpusRun.snapshot]
<1>1. was \in CorpusRunRow /\ RunHolds(was, corpusJobs, corpusFiles, ~together, operational)
  BY OfCorpus
<1>2. /\ was.phase = "put_write" /\ UNCHANGED <<corpusData, corpusFiles, backfill, together, lastReplaced>>
      /\ operational' = [was.snapshot EXCEPT ![s] = ManifestOf("indexed", "run")]
      /\ backfilled' = backfilled \ {s} /\ CorpusIs(r, c)
  BY DEF PutWrites, CorpusAt, PdfOf
<1>3. CorpusRunning(r) /\ was.phase \in Writing /\ s \in Pdf
  BY <1>1, <1>2 DEF CorpusRunning, CommandOver, Writing, RunHolds
<1>4. /\ operational \in Manifests /\ was.snapshot \in Manifests /\ ManifestOf("indexed", "run") \in ManifestRecord
      /\ ManifestOf("indexed", "run").status = "indexed" /\ IdleCorpusRun.snapshot \in Manifests
  BY <1>1, OfFiles, CorpusNamed DEF CorpusRunRow, ManifestOf, ManifestRecord, IdleCorpusRun, Manifests
<1>5. /\ operational' \in Manifests /\ operational'[s].status = "indexed"
      /\ ~together => \A t \in Pdf \ {s} : operational'[t] = operational[t]
  BY <1>1, <1>2, <1>3, <1>4 DEF Manifests, RunHolds
<1>6. c \in CorpusRunRow /\ c.phase = "put" /\ c.entries = was.entries
  <2>1. "put" \in CorpusPhase
    BY DEF CorpusPhase, Writing
  <2>2. NextPdf(r) \in CorpusRunRow /\ NextPdf(r).entries = was.entries
    BY <1>1, GoesToNext
  <2>3. QED  BY <1>4, <2>1, <2>2 DEF CorpusRunRow
<1> HIDE DEF c, was, s
<1>7. RunHolds(was, corpusJobs, corpusFiles, FALSE, operational')
  BY <1>1, RunElsewhere
<1>8. RunHolds(c, corpusJobs, corpusFiles, ~together, operational')
  <2>1. c.phase \notin Scanning /\ c.phase \notin CommandOver /\ c.phase \in Writing /\ was.phase \notin Scanning
    BY <1>2, <1>6 DEF Scanning, CommandOver, Writing
  <2>2. QED  BY <1>3, <1>6, <1>7, <2>1 DEF RunHolds, Scanning
<1>9. /\ corpusRuns' \in [CorpusRun -> CorpusRunRow]
      /\ \A q \in CorpusRun : RunHolds(corpusRuns'[q], corpusJobs, corpusFiles, ~together, operational')
      /\ \A q \in CorpusRun : corpusRuns'[q].phase \notin CommandOver => q = r
  BY <1>2, <1>3, <1>6, <1>8, OthersOver
<1>10. Commands'
  BY <1>2, <1>3, <1>9, OfFiles, StillCommands
<1>11. Files'
  <2>1. Files /\ corpusJobs' = corpusJobs
    BY <1>2, OfFiles DEF corpusData
  <2>2. ~together => \A t \in Pdf : corpusFiles["inventory"][t].status = "ingested" =>
          t \in backfilled' \/ operational'[t].status = "indexed"
    BY <1>2, <1>5, <2>1 DEF Files
  <2>3. QED  BY <1>2, <2>1, <2>2, FilesPrimed DEF Files
<1>12. /\ corpusFiles' = corpusFiles /\ together' = together
       /\ backfilled' \subseteq Pdf /\ corpusFiles' \in [FileNames -> Entries] /\ backfill' \in BackfillRow
       /\ together' \in BOOLEAN /\ lastReplaced' \in FileNames
  BY <1>2, OfFiles
<1>13. QED  BY <1>2, <1>5, <1>9, <1>10, <1>11, <1>12, CommandStep

\* One of the three files is replaced.
LEMMA WritesFileStep ==
  ASSUME CorpusInv, NEW r \in CorpusRun, NEW f \in FileNames, WritesFile(r, f)
  PROVE  CorpusInv'
<1> DEFINE was == corpusRuns[r]
           over == [IdleCorpusRun EXCEPT !.phase = "ended"]
           next == [was EXCEPT !.phase = NextFile[f], !.at = 1]
           c == IF f = "inventory" THEN over ELSE next
<1>1. was \in CorpusRunRow /\ RunHolds(was, corpusJobs, corpusFiles, ~together, operational) /\ was.entries \in Entries
  BY OfCorpus, CorpusRowTyped
<1>2. /\ was.phase = f /\ UNCHANGED <<corpusData, operational, backfill, together, backfilled>>
      /\ corpusFiles' = [corpusFiles EXCEPT ![f] = FileWritten(f, was.entries)] /\ lastReplaced' = f
      /\ CorpusIs(r, c)
  BY DEF WritesFile, CorpusAt
<1>3. f \in {"evidence", "receipt", "inventory"} /\ was.phase \in Writing /\ CorpusRunning(r)
  BY <1>2 DEF FileNames, CorpusRunning, CommandOver, Writing
<1>4. corpusFiles \in [FileNames -> Entries] /\ Files /\ Commands /\ {"evidence", "receipt", "inventory"} = FileNames
  BY OfFiles DEF FileNames
<1>5. FileWritten(f, was.entries) \in Entries
  BY <1>1, CorpusNamed DEF FileWritten, Entries
<1>6. /\ corpusFiles' \in [FileNames -> Entries] /\ corpusFiles'[f] = FileWritten(f, was.entries)
      /\ \A g \in FileNames \ {f} : corpusFiles'[g] = corpusFiles[g]
  BY <1>2, <1>4, <1>5
<1>7. c \in CorpusRunRow
  <2>1. CASE f = "inventory"
    BY <2>1, OverHolds DEF CommandOver
  <2>2. CASE f # "inventory"
    <3>1. NextFile[f] \in CorpusPhase
      BY <1>3, <2>2 DEF NextFile, CorpusPhase, Writing
    <3> HIDE DEF was
    <3>2. 1 \in Nat \ {0} /\ was \in CorpusRunRow
      BY <1>1
    <3>3. next \in CorpusRunRow
      BY <3>1, <3>2 DEF CorpusRunRow
    <3>4. QED  BY <2>2, <3>3
  <2>3. QED  BY <2>1, <2>2
<1>8. f # "inventory" => c.phase = NextFile[f] /\ c.entries = was.entries
  BY <1>1 DEF CorpusRunRow
<1>9. f = "inventory" => c = over
  OBVIOUS
<1> HIDE DEF c, over, next, was
<1>10. \A s \in Pdf : was.entries[s] \in CorpusEntry /\ EntryTrue(s, was.entries[s], corpusJobs)
  BY <1>1 DEF RunHolds, Entries
<1>11. \A s \in Pdf : EntryTrue(s, FileWritten(f, was.entries)[s], corpusJobs)
  <2> SUFFICES ASSUME NEW s \in Pdf  PROVE EntryTrue(s, FileWritten(f, was.entries)[s], corpusJobs)
    OBVIOUS
  <2>1. EntryTrue(s, NoEntry, corpusJobs)
    BY DEF EntryTrue, NoEntry
  <2>2. QED  BY <1>10, <2>1 DEF FileWritten
<1>12. \A g \in FileNames, s \in Pdf : EntryTrue(s, corpusFiles'[g][s], corpusJobs')
  BY <1>2, <1>4, <1>6, <1>11 DEF Files, corpusData
<1>13. \A s \in Pdf : OwnEntry(s, corpusFiles) =>
         /\ was.entries[s] = corpusFiles["inventory"][s]
         /\ FileWritten("evidence", was.entries)[s] = was.entries[s]
  <2>1. \A s \in Pdf : OwnEntry(s, corpusFiles) => was.entries[s] = corpusFiles["inventory"][s]
    BY <1>1, <1>3 DEF RunHolds
  <2>2. QED  BY <2>1 DEF OwnEntry, FileWritten
<1>14. CASE f = "evidence"
  <2>1. /\ corpusFiles'["evidence"] = FileWritten("evidence", was.entries)
        /\ corpusFiles'["receipt"] = corpusFiles["receipt"] /\ corpusFiles'["inventory"] = corpusFiles["inventory"]
    BY <1>4, <1>6, <1>14
  <2>2. c.phase = "receipt" /\ c.entries = was.entries
    BY <1>8, <1>14 DEF NextFile
  <2>3. RunHolds(c, corpusJobs, corpusFiles', ~together, operational)
    BY <1>1, <1>2, <1>3, <1>14, <2>1, <2>2 DEF RunHolds, OwnEntry, Scanning, Writing, CommandOver
  <2>4. \A s \in Pdf : OwnEntry(s, corpusFiles') =>
          \A g \in FileNames : corpusFiles'[g][s] = corpusFiles'["inventory"][s]
    BY <1>4, <1>13, <2>1 DEF Files, OwnEntry
  <2>5. lastReplaced' # "inventory"
    BY <1>2, <1>14
  <2>6. ~together => \A s \in Pdf : corpusFiles'["inventory"][s].status = "ingested" =>
          s \in backfilled \/ operational[s].status = "indexed"
    BY <1>4, <2>1 DEF Files
  <2>7. Files'
    BY <1>2, <1>12, <2>4, <2>5, <2>6, FilesPrimed
  <2>8. /\ corpusRuns' \in [CorpusRun -> CorpusRunRow]
        /\ \A q \in CorpusRun : RunHolds(corpusRuns'[q], corpusJobs, corpusFiles', ~together, operational)
        /\ Commands'
    BY <1>2, <1>3, <1>4, <1>7, <2>3, OthersOver, StillCommands
  <2>9. QED  BY <1>2, <1>6, <2>7, <2>8, OfFiles, CommandStep
<1>15. CASE f = "receipt"
  <2>1. /\ corpusFiles'["receipt"] = was.entries
        /\ corpusFiles'["evidence"] = corpusFiles["evidence"] /\ corpusFiles'["inventory"] = corpusFiles["inventory"]
    BY <1>4, <1>6, <1>15 DEF FileWritten
  <2>2. c.phase = "inventory" /\ c.entries = was.entries
    BY <1>8, <1>15 DEF NextFile
  <2>3. RunHolds(c, corpusJobs, corpusFiles', ~together, operational)
    BY <1>1, <1>2, <1>3, <1>15, <2>1, <2>2 DEF RunHolds, OwnEntry, Scanning, Writing, CommandOver
  <2>4. \A s \in Pdf : OwnEntry(s, corpusFiles') =>
          \A g \in FileNames : corpusFiles'[g][s] = corpusFiles'["inventory"][s]
    BY <1>4, <1>13, <2>1 DEF Files, OwnEntry
  <2>5. lastReplaced' # "inventory"
    BY <1>2, <1>15
  <2>6. ~together => \A s \in Pdf : corpusFiles'["inventory"][s].status = "ingested" =>
          s \in backfilled \/ operational[s].status = "indexed"
    BY <1>4, <2>1 DEF Files
  <2>7. Files'
    BY <1>2, <1>12, <2>4, <2>5, <2>6, FilesPrimed
  <2>8. /\ corpusRuns' \in [CorpusRun -> CorpusRunRow]
        /\ \A q \in CorpusRun : RunHolds(corpusRuns'[q], corpusJobs, corpusFiles', ~together, operational)
        /\ Commands'
    BY <1>2, <1>3, <1>4, <1>7, <2>3, OthersOver, StillCommands
  <2>9. QED  BY <1>2, <1>6, <2>7, <2>8, OfFiles, CommandStep
<1>16. CASE f = "inventory"
  <2>1. /\ corpusFiles'["inventory"] = was.entries
        /\ corpusFiles'["evidence"] = corpusFiles["evidence"] /\ corpusFiles'["receipt"] = corpusFiles["receipt"]
    BY <1>4, <1>6, <1>16 DEF FileWritten
  <2>2. corpusFiles["evidence"] = FileWritten("evidence", was.entries) /\ corpusFiles["receipt"] = was.entries
    BY <1>1, <1>2, <1>16 DEF RunHolds
  <2>3. RunHolds(c, corpusJobs, corpusFiles', ~together, operational)
    BY <1>9, <1>16, OverHolds DEF over, CommandOver
  <2>4. \A s \in Pdf : OwnEntry(s, corpusFiles') =>
          \A g \in FileNames : corpusFiles'[g][s] = corpusFiles'["inventory"][s]
    <3>1. \A s \in Pdf : OwnEntry(s, corpusFiles') => FileWritten("evidence", was.entries)[s] = was.entries[s]
      BY <2>1 DEF OwnEntry, FileWritten
    <3>2. QED  BY <1>4, <2>1, <2>2, <3>1
  <2>5. /\ corpusFiles'["evidence"] = FileWritten("evidence", corpusFiles'["inventory"])
        /\ corpusFiles'["receipt"] = corpusFiles'["inventory"]
    BY <2>1, <2>2
  <2>6. ~together => \A s \in Pdf : corpusFiles'["inventory"][s].status = "ingested" =>
          s \in backfilled \/ operational[s].status = "indexed"
    BY <1>1, <1>2, <1>16, <2>1 DEF RunHolds
  <2>7. Files'
    BY <1>2, <1>12, <2>4, <2>5, <2>6, FilesPrimed
  <2>8. /\ corpusRuns' \in [CorpusRun -> CorpusRunRow]
        /\ \A q \in CorpusRun : RunHolds(corpusRuns'[q], corpusJobs, corpusFiles', ~together, operational)
        /\ Commands'
    BY <1>2, <1>3, <1>4, <1>7, <2>3, OthersOver, StillCommands
  <2>9. QED  BY <1>2, <1>6, <2>7, <2>8, OfFiles, CommandStep
<1>17. QED  BY <1>3, <1>14, <1>15, <1>16

\* A run begins.
LEMMA CorpusBeginsStep ==
  ASSUME CorpusInv, NEW r \in CorpusRun, CorpusBegins(r)
  PROVE  CorpusInv'
<1> DEFINE c == [IdleCorpusRun EXCEPT !.phase = "accepting"]
<1>1. /\ UNCHANGED <<corpusData, operational, corpusFiles, backfill, backfilled, lastReplaced>>
      /\ \A q \in CorpusRun : ~CorpusRunning(q)
      /\ CorpusIs(r, c) /\ together' = (together \/ Backfilling)
  <2>1. ~CorpusRunning(r) /\ \A q \in CorpusRun : ~CorpusRunning(q)
    BY DEF CorpusBegins, CorpusAt, CorpusRunning, CommandOver
  <2>2. together' = (together \/ Backfilling \/ \E q \in CorpusRun : CorpusRunning(q))
    BY DEF CorpusBegins, CommandsMeet
  <2>3. together' = (together \/ Backfilling)
    BY <2>1, <2>2
  <2>4. QED  BY <2>1, <2>3 DEF CorpusBegins
<1>2. c \in CorpusRunRow /\ c.phase = "accepting" /\ c.at = 1 /\ c.entries = NoEntries
  <2>1. [s \in Pdf |-> NoManifestRecord] \in Manifests
    BY CorpusNamed DEF Manifests
  <2>2. QED  BY <2>1, CorpusNamed DEF IdleCorpusRun, CorpusRunRow, CorpusPhase, Scanning
<1> HIDE DEF c
<1>3. corpusRuns \in [CorpusRun -> CorpusRunRow] /\ Commands /\ Files /\ together \in BOOLEAN
  BY OfFiles
<1>4. /\ corpusRuns' \in [CorpusRun -> CorpusRunRow] /\ corpusRuns'[r] = c
      /\ \A q \in CorpusRun \ {r} : corpusRuns'[q] = corpusRuns[q]
  BY <1>1, <1>2, <1>3 DEF CorpusIs
<1>5. ASSUME NEW q \in CorpusRun
      PROVE  RunHolds(corpusRuns'[q], corpusJobs, corpusFiles, ~together', operational)
  <2>1. CASE q = r
    <3>1. \A s \in Pdf : EntryTrue(s, c.entries[s], corpusJobs)
      BY <1>2, CorpusNamed DEF EntryTrue
    <3>2. c.phase \notin Writing /\ 1 \in Pdf /\ \A s \in Pdf : ~(s < 1)
      <4>1. 1 \in Pdf /\ Pdf \subseteq Nat \ {0}
        BY CorpusNamed
      <4>2. QED  BY <1>2, <4>1 DEF Writing
    <3>3. RunHolds(c, corpusJobs, corpusFiles, ~together', operational)
      BY <1>2, <3>1, <3>2 DEF RunHolds, CommandOver
    <3>4. QED  BY <1>4, <2>1, <3>3
  <2>2. CASE q # r
    <3>1. corpusRuns'[q] = corpusRuns[q] /\ corpusRuns[q].phase \in CommandOver
      BY <1>1, <1>4, <2>2 DEF CorpusRunning
    <3>2. RunHolds(corpusRuns[q], corpusJobs, corpusFiles, ~together, operational)
      BY OfCorpus
    <3>3. ~together' => ~together
      BY <1>1
    <3>4. QED  BY <3>1, <3>2, <3>3, RunElsewhere
  <2>3. QED  BY <2>1, <2>2
<1>6. Commands'
  <2>1. \A q \in CorpusRun : CorpusRunning(q)' => q = r
    BY <1>1, <1>4 DEF CorpusRunning, CommandOver
  <2>2. ~together' => ~Backfilling /\ backfill.phase # "write"
    BY <1>1 DEF Backfilling, CommandOver
  <2>3. Backfilling' <=> Backfilling
    BY <1>1 DEF Backfilling, CommandOver
  <2>4. QED  BY <1>1, <2>1, <2>2, <2>3 DEF Commands
<1>7. Files'
  <2>1. corpusJobs' = corpusJobs /\ (~together' => ~together)
    BY <1>1 DEF corpusData
  <2>2. QED  BY <1>1, <1>3, <2>1, FilesPrimed DEF Files
<1>8. together' \in BOOLEAN
  BY <1>1
<1>9. /\ corpusFiles' = corpusFiles /\ operational' = operational /\ UNCHANGED corpusData
      /\ backfilled' \subseteq Pdf /\ operational' \in Manifests /\ corpusFiles' \in [FileNames -> Entries]
      /\ backfill' \in BackfillRow /\ lastReplaced' \in FileNames
  BY <1>1, OfFiles
<1>10. \A q \in CorpusRun : RunHolds(corpusRuns'[q], corpusJobs, corpusFiles', ~together', operational')
  BY <1>5, <1>9
<1>11. QED  BY <1>4, <1>6, <1>7, <1>8, <1>9, <1>10, CommandStep

\* A step of the backfill: the runs are as they were, and no other command is under
\* way when what it writes is to be relied upon.
LEMMA BackfillStep ==
  ASSUME CorpusInv, UNCHANGED <<corpusData, corpusFiles, corpusRuns, lastReplaced>>,
         backfilled' \subseteq Pdf, operational' \in Manifests, backfill' \in BackfillRow, together' \in BOOLEAN,
         ~together' => /\ ~together
                       /\ operational' = operational \/ \A r \in CorpusRun : ~CorpusRunning(r)
                       /\ backfill'.phase \notin CommandOver => \A r \in CorpusRun : ~CorpusRunning(r)
                       /\ backfill'.phase = "write" => backfill'.snapshot = operational'
                       /\ \A s \in Pdf : s \in backfilled \/ operational[s].status = "indexed" =>
                            s \in backfilled' \/ operational'[s].status = "indexed"
  PROVE  CorpusInv'
<1>1. /\ corpusRuns' = corpusRuns /\ corpusFiles' = corpusFiles /\ corpusJobs' = corpusJobs
      /\ lastReplaced' = lastReplaced
  BY DEF corpusData
<1>2. ASSUME NEW r \in CorpusRun
      PROVE  RunHolds(corpusRuns'[r], corpusJobs, corpusFiles', ~together', operational')
  <2>1. RunHolds(corpusRuns[r], corpusJobs, corpusFiles, ~together, operational)
    BY OfCorpus
  <2>2. ~together' => corpusRuns[r].phase \in CommandOver \/ operational' = operational
    BY DEF CorpusRunning
  <2>3. CASE ~together'
    BY <1>1, <2>1, <2>2, <2>3, RunElsewhere
  <2>4. CASE together'
    <3>1. RunHolds(corpusRuns[r], corpusJobs, corpusFiles, FALSE, operational')
      BY <2>1, RunElsewhere
    <3>2. QED  BY <1>1, <2>4, <3>1 DEF RunHolds
  <2>5. QED  BY <2>3, <2>4
<1>3. Commands'
  <2>1. \A r \in CorpusRun : CorpusRunning(r)' <=> CorpusRunning(r)
    BY <1>1 DEF CorpusRunning, CommandOver
  <2>2. Backfilling' <=> backfill'.phase \notin CommandOver
    BY DEF Backfilling, CommandOver
  <2>3. Commands
    BY OfFiles
  <2>4. QED  BY <2>1, <2>2, <2>3 DEF Commands
<1>4. Files'
  <2>1. Files
    BY OfFiles
  <2>2. ~together' => \A s \in Pdf : corpusFiles["inventory"][s].status = "ingested" =>
          s \in backfilled' \/ operational'[s].status = "indexed"
    BY <2>1 DEF Files
  <2>3. QED  BY <1>1, <2>1, <2>2, FilesPrimed DEF Files
<1>5. corpusRuns' \in [CorpusRun -> CorpusRunRow] /\ corpusFiles' \in [FileNames -> Entries] /\ lastReplaced' \in FileNames
  BY <1>1, OfFiles
<1>6. QED  BY <1>2, <1>3, <1>4, <1>5, CommandStep

\* A backfill decides for a source, reads the manifest and writes it.
LEMMA BackfillSteps ==
  ASSUME CorpusInv, (\E s \in Pdf : BackfillBegins(s)) \/ BackfillReads \/ BackfillWrites
  PROVE  CorpusInv'
<1>1. /\ operational \in Manifests /\ backfill \in BackfillRow /\ backfilled \subseteq Pdf /\ together \in BOOLEAN
      /\ Commands
  BY OfFiles
<1>2. ASSUME NEW s \in Pdf, BackfillBegins(s)
      PROVE  CorpusInv'
  <2>1. PICK unchanged \in BOOLEAN :
          backfill' = [IdleBackfill EXCEPT !.phase = "decided", !.at = s,
                                           !.decision = DecideBackfill(operational[s], unchanged)]
    BY <1>2 DEF BackfillBegins
  <2>2. DecideBackfill(operational[s], unchanged) \in {"none", "index", "retry", "skip", "reindex"}
    BY DEF DecideBackfill
  <2>3. [t \in Pdf |-> NoManifestRecord] \in Manifests
    BY CorpusNamed DEF Manifests
  <2>4. backfill' \in BackfillRow /\ backfill'.phase = "decided"
    BY <2>1, <2>2, <2>3 DEF IdleBackfill, BackfillRow
  <2>5. /\ UNCHANGED <<corpusData, operational, corpusFiles, corpusRuns, backfilled, lastReplaced>>
        /\ together' = (together \/ Backfilling \/ \E r \in CorpusRun : CorpusRunning(r))
    BY <1>2 DEF BackfillBegins, CommandsMeet
  <2>6. together' \in BOOLEAN /\ (~together' => ~together /\ \A r \in CorpusRun : ~CorpusRunning(r))
    BY <1>1, <2>5
  <2>7. QED  BY <1>1, <2>4, <2>5, <2>6, BackfillStep
<1>3. CASE BackfillReads
  <2>1. /\ backfill.phase = "decided" /\ backfill' = [backfill EXCEPT !.phase = "write", !.snapshot = operational]
        /\ UNCHANGED <<corpusData, operational, corpusFiles, corpusRuns, together, backfilled, lastReplaced>>
    BY <1>3 DEF BackfillReads, corpusHistory
  <2>2. backfill' \in BackfillRow /\ backfill'.snapshot = operational
    BY <1>1, <2>1 DEF BackfillRow
  <2>3. ~together => \A r \in CorpusRun : ~CorpusRunning(r)
    BY <1>1, <2>1 DEF Commands, Backfilling, CommandOver
  <2>4. QED  BY <1>1, <2>1, <2>2, <2>3, BackfillStep
<1>4. CASE BackfillWrites
  <2> DEFINE s == backfill.at
             entered == ManifestOf(IndexedAs(backfill.decision), "configured")
  <2>1. /\ backfill.phase = "write" /\ operational' = [backfill.snapshot EXCEPT ![s] = entered]
        /\ backfill' = [IdleBackfill EXCEPT !.phase = "ended"] /\ backfilled' = backfilled \cup {s}
        /\ UNCHANGED <<corpusData, corpusFiles, corpusRuns, together, lastReplaced>>
    BY <1>4 DEF BackfillWrites
  <2>2. [t \in Pdf |-> NoManifestRecord] \in Manifests
    BY CorpusNamed DEF Manifests
  <2>3. backfill' \in BackfillRow /\ backfill'.phase = "ended"
    BY <2>1, <2>2, CorpusNamed DEF IdleBackfill, BackfillRow
  <2>4. s \in Pdf /\ backfill.snapshot \in Manifests /\ entered \in ManifestRecord
    BY <1>1 DEF BackfillRow, ManifestOf, ManifestRecord, IndexedAs
  <2>5. ~together => backfill.snapshot = operational /\ \A r \in CorpusRun : ~CorpusRunning(r)
    BY <1>1, <2>1 DEF Commands, Backfilling, CommandOver
  <2> HIDE DEF s, entered
  <2>6. /\ operational' \in Manifests /\ backfilled' \subseteq Pdf
        /\ \A t \in Pdf \ {s} : operational'[t] = backfill.snapshot[t]
    BY <1>1, <2>1, <2>4 DEF Manifests
  <2>7. ~together => \A t \in Pdf : t \in backfilled \/ operational[t].status = "indexed" =>
          t \in backfilled' \/ operational'[t].status = "indexed"
    BY <2>1, <2>5, <2>6
  <2>8. backfill'.phase \in CommandOver
    BY <2>3 DEF CommandOver
  <2>9. QED  BY <1>1, <2>1, <2>3, <2>5, <2>6, <2>7, <2>8, BackfillStep
<1>5. QED  BY <1>2, <1>3, <1>4

\* The rest of the system.
LEMMA ElsewhereSteps ==
  ASSUME CorpusInv,
         \/ OtherQueues
         \/ \E s \in Pdf : AcceptanceExpires(s) \/ InspectedElsewhere(s)
         \/ \E j \in CorpusJob : LeaseLapses(j)
  PROVE  CorpusInv'
<1>1. /\ UNCHANGED <<operational, corpusFiles, backfill, together, backfilled, lastReplaced, corpusRuns>>
  BY DEF OtherQueues, AcceptanceExpires, InspectedElsewhere, LeaseLapses, CorpusFilesKept, corpusHistory
<1>2. /\ acceptance \in [Pdf -> [scan : 0..MaxScan, current : BOOLEAN]]
      /\ vectorsOf \in [Pdf -> CorpusJob \cup {NoneYet}] /\ extracted \subseteq Pdf
      /\ corpusJobs \in JobRows /\ Queue /\ corpusRuns \in [CorpusRun -> CorpusRunRow]
  BY OfCorpus, OfFiles
<1>3. /\ JobsGrow(corpusJobs, corpusJobs') /\ Queue' /\ corpusJobs' \in JobRows
      /\ acceptance' \in [Pdf -> [scan : 0..MaxScan, current : BOOLEAN]]
      /\ vectorsOf' \in [Pdf -> CorpusJob \cup {NoneYet}] /\ extracted' \subseteq Pdf
  <2>1. CASE OtherQueues
    <3>1. JobsGrow(corpusJobs, corpusJobs') /\ Queue' /\ corpusJobs' \in JobRows
      BY <2>1, CorpusNamed, QueuedMore DEF OtherQueues
    <3>2. QED  BY <1>2, <2>1, <3>1 DEF OtherQueues
  <2>2. ASSUME NEW s \in Pdf, AcceptanceExpires(s) \/ InspectedElsewhere(s)
        PROVE  /\ JobsGrow(corpusJobs, corpusJobs') /\ Queue' /\ corpusJobs' \in JobRows
               /\ acceptance' \in [Pdf -> [scan : 0..MaxScan, current : BOOLEAN]]
               /\ vectorsOf' \in [Pdf -> CorpusJob \cup {NoneYet}] /\ extracted' \subseteq Pdf
    <3>1. UNCHANGED <<corpusJobs, queued, vectorsOf, extracted>>
      BY <2>2 DEF AcceptanceExpires, InspectedElsewhere
    <3>2. acceptance' \in [Pdf -> [scan : 0..MaxScan, current : BOOLEAN]]
      <4>1. CASE AcceptanceExpires(s)
        BY <1>2, <4>1 DEF AcceptanceExpires
      <4>2. CASE InspectedElsewhere(s)
        <5>1. PICK current \in BOOLEAN :
                acceptance' = [acceptance EXCEPT ![s] = [scan |-> acceptance[s].scan + 1, current |-> current]]
          BY <4>2 DEF InspectedElsewhere
        <5>2. acceptance[s].scan + 1 \in 0..MaxScan
          BY <1>2, <4>2, CorpusConstants DEF InspectedElsewhere
        <5>3. QED  BY <1>2, <5>1, <5>2
      <4>3. QED  BY <2>2, <4>1, <4>2
    <3>3. QED  BY <1>2, <3>1, <3>2 DEF JobsGrow, Queue, CorpusJob, OtherJob
  <2>3. ASSUME NEW j \in CorpusJob, LeaseLapses(j)
        PROVE  /\ JobsGrow(corpusJobs, corpusJobs') /\ Queue' /\ corpusJobs' \in JobRows
               /\ acceptance' \in [Pdf -> [scan : 0..MaxScan, current : BOOLEAN]]
               /\ vectorsOf' \in [Pdf -> CorpusJob \cup {NoneYet}] /\ extracted' \subseteq Pdf
    BY <1>2, <2>3, FailedJob DEF LeaseLapses
  <2>4. QED  BY <2>1, <2>2, <2>3
<1>4. ASSUME NEW r \in CorpusRun
      PROVE  /\ RunHolds(corpusRuns'[r], corpusJobs', corpusFiles, ~together, operational)
             /\ corpusRuns'[r].phase \notin CommandOver => CorpusRunning(r)
  <2>1. /\ corpusRuns'[r] = corpusRuns[r] /\ corpusRuns[r] \in CorpusRunRow
        /\ RunHolds(corpusRuns[r], corpusJobs, corpusFiles, ~together, operational)
    BY <1>1, OfCorpus
  <2>2. RunHolds(corpusRuns[r], corpusJobs', corpusFiles, ~together, operational)
    BY <1>3, <2>1, RunKept
  <2>3. QED  BY <2>1, <2>2 DEF CorpusRunning
<1>5. corpusRuns' \in [CorpusRun -> CorpusRunRow]
  BY <1>1, <1>2
<1>6. QED  BY <1>1, <1>3, <1>4, <1>5, DataMoves

\* Nothing is accepted, queued or written before the first run.
LEMMA CorpusFirst ==
  ASSUME CorpusInit
  PROVE  CorpusInv
<1>1. PICK entered \in {NoManifestRecord, ManifestOf("indexed", "configured")} :
        operational = [s \in Pdf |-> entered]
  BY DEF CorpusInit
<1>2. entered \in ManifestRecord
  BY CorpusNamed DEF ManifestOf, ManifestRecord
<1>3. operational \in Manifests /\ [s \in Pdf |-> NoManifestRecord] \in Manifests
  BY <1>1, <1>2, CorpusNamed DEF Manifests
<1>4. acceptance \in [Pdf -> [scan : 0..MaxScan, current : BOOLEAN]] /\ corpusJobs \in JobRows
  BY CorpusNamed DEF CorpusInit, JobRows, JobStatus
<1>5. corpusFiles \in [FileNames -> Entries] /\ \A f \in FileNames : corpusFiles[f] = NoEntries
  BY CorpusNamed DEF CorpusInit
<1>6. IdleCorpusRun = [IdleCorpusRun EXCEPT !.phase = "before"]
  BY DEF IdleCorpusRun
<1>7. /\ IdleCorpusRun \in CorpusRunRow
      /\ RunHolds(IdleCorpusRun, corpusJobs, corpusFiles, ~together, operational)
  BY <1>6, OverHolds DEF CommandOver
<1>8. \A r \in CorpusRun : corpusRuns[r] = IdleCorpusRun
  BY DEF CorpusInit
<1>9. corpusRuns \in [CorpusRun -> CorpusRunRow]
  BY <1>7 DEF CorpusInit
<1>10. backfill \in BackfillRow /\ backfill.phase = "before"
  BY <1>3, CorpusNamed DEF CorpusInit, IdleBackfill, BackfillRow
<1>11. CorpusShapes
  BY <1>3, <1>4, <1>5, <1>9, <1>10 DEF CorpusShapes, CorpusInit, FileNames
<1>12. Queue
  BY DEF Queue, CorpusInit
<1>13. Commands
  <2>1. \A r \in CorpusRun : ~CorpusRunning(r)
    BY <1>8 DEF CorpusRunning, CommandOver, IdleCorpusRun
  <2>2. QED  BY <1>10, <2>1 DEF Commands
<1>14. Files
  <2>1. "inventory" \in FileNames /\ "evidence" \in FileNames /\ "receipt" \in FileNames
    BY DEF FileNames
  <2>2. \A s \in Pdf : NoEntries[s] = NoEntry /\ NoEntry.status = "none"
    BY CorpusNamed
  <2>3. \A f \in FileNames, s \in Pdf : EntryTrue(s, corpusFiles[f][s], corpusJobs) /\ corpusFiles[f][s].status = "none"
    BY <1>5, <2>2 DEF EntryTrue
  <2>4. FileWritten("evidence", NoEntries) = NoEntries
    BY <2>2, CorpusNamed DEF FileWritten, NoEntries
  <2>5. QED  BY <1>5, <2>1, <2>3, <2>4 DEF Files, OwnEntry
<1>15. QED  BY <1>7, <1>8, <1>11, <1>12, <1>13, <1>14 DEF CorpusInv

\* Every step keeps the invariant.
LEMMA CorpusSteps ==
  ASSUME CorpusInv, [CorpusNext]_corpusVars
  PROVE  CorpusInv'
<1>1. CASE UNCHANGED corpusVars
  <2>1. /\ UNCHANGED corpusData
        /\ UNCHANGED <<operational, corpusFiles, backfill, together, backfilled, lastReplaced, corpusRuns>>
    BY <1>1 DEF corpusVars, corpusData
  <2>2. \A r \in CorpusRun : /\ RunHolds(corpusRuns'[r], corpusJobs', corpusFiles, ~together, operational)
                             /\ corpusRuns'[r].phase \notin CommandOver => CorpusRunning(r)
    BY <2>1, OfCorpus DEF corpusData, CorpusRunning
  <2>3. corpusRuns' \in [CorpusRun -> CorpusRunRow]
    BY <2>1, OfFiles
  <2>4. QED  BY <2>1, <2>2, <2>3, DataStays, DataMoves
<1>2. CASE \E r \in CorpusRun :
             \/ CorpusBegins(r) \/ FindsAcceptance(r) \/ Inspects(r) \/ Accepts(r) \/ Enqueues(r) \/ Leases(r)
             \/ FindsIdle(r) \/ Processes(r) \/ FindsNoText(r) \/ WorkFails(r) \/ Binds(r)
             \/ PutReads(r) \/ PutWrites(r) \/ Reconciles(r) \/ CorpusStops(r)
             \/ \E f \in FileNames : WritesFile(r, f)
  BY <1>2, CorpusBeginsStep, SeekingStep, EnqueuesStep, LeasesStep, RunStops, ProcessesStep, NoTextStep,
     WorkFailsStep, BindsStep, PutReadsStep, PutWritesStep, ReconcilesStep, WritesFileStep
<1>3. CASE \/ \E s \in Pdf : BackfillBegins(s) \/ AcceptanceExpires(s) \/ InspectedElsewhere(s)
           \/ BackfillReads \/ BackfillWrites \/ OtherQueues
           \/ \E j \in CorpusJob : LeaseLapses(j)
  BY <1>3, BackfillSteps, ElsewhereSteps
<1>4. QED  BY <1>1, <1>2, <1>3 DEF CorpusNext

\* The inductive invariant of the runs over a corpus and of the backfill.
THEOREM CorpusInvariant == CorpusSpec => []CorpusInv
<1>1. CorpusInit => CorpusInv
  BY CorpusFirst
<1>2. CorpusInv /\ [CorpusNext]_corpusVars => CorpusInv'
  BY CorpusSteps
<1>3. QED  BY <1>1, <1>2, PTL DEF CorpusSpec

\* The tables, the queue and the files of a corpus have their columns in every state.
THEOREM CorpusTypes == CorpusSpec => []CorpusTypeOK
<1>1. CorpusInv => CorpusTypeOK
  <2> SUFFICES ASSUME CorpusInv  PROVE CorpusTypeOK
    OBVIOUS
  <2>1. \A r \in CorpusRun : corpusRuns[r].entries \in Entries
    BY OfCorpus, CorpusRowTyped
  <2>2. \A i \in 1..Len(queued) : corpusJobs[queued[i]].status = "queued"
    BY OfCorpus DEF Queue
  <2>3. QED  BY <2>1, <2>2, OfCorpus, OfFiles DEF CorpusTypeOK, JobRows, JobStatus, Manifests
<1>2. QED  BY <1>1, CorpusInvariant, PTL

\* What a file of the corpus says of a source is so; the three files agree on what
\* the run's own jobs ingested, and on everything once the inventory is replaced; and
\* a source that is ingested is indexed, until a backfill writes its record or two
\* commands have met.
THEOREM CorpusFilesAgree == CorpusSpec => []CorpusHolds
<1>1. CorpusInv => CorpusHolds
  <2> SUFFICES ASSUME CorpusInv  PROVE CorpusHolds
    OBVIOUS
  <2>1. Files /\ FileNames = {"evidence", "receipt", "inventory"}
    BY OfFiles DEF FileNames
  <2>2. \A f \in FileNames, s \in Pdf : EntryHolds(s, corpusFiles[f][s])
    BY <2>1 DEF Files, EntryHolds, EntryTrue
  <2>3. ASSUME NEW s \in Pdf, corpusFiles["inventory"][s].status = "ingested"
        PROVE  /\ corpusFiles["inventory"][s].job = s \/ lastReplaced = "inventory" =>
                    \A f \in FileNames : corpusFiles[f][s] = corpusFiles["inventory"][s]
               /\ together \/ s \in backfilled \/ operational[s].status = "indexed"
    <3>1. CASE lastReplaced = "inventory"
      <4>1. FileWritten("evidence", corpusFiles["inventory"])[s] = corpusFiles["inventory"][s]
        BY <2>3 DEF FileWritten
      <4>2. QED  BY <2>1, <2>3, <3>1, <4>1 DEF Files
    <3>2. CASE lastReplaced # "inventory"
      BY <2>1, <2>3, <3>2 DEF Files, OwnEntry
    <3>3. QED  BY <3>1, <3>2
  <2>4. QED  BY <2>2, <2>3 DEF CorpusHolds
<1>2. QED  BY <1>1, CorpusInvariant, PTL

-------------------------------------------------------------------------------
(***************************************************************************)
(* DocumentLibrary                                                         *)
(***************************************************************************)

Managed == {"library"} \cup Bytes
Verdict == {"none", "clean", "infected", "error", "rejected"}
LibrarySteps ==
  {"idle", "stage", "reread", "link", "unlink", "write", "scan", "verify", "index", "put"}
CommandRow ==
  [name : {"none", "import", "inspect", "undo", "ingest"}, step : LibrarySteps,
   bytes : StoredBytes, from : Path, to : Path, verdict : Verdict, began : Nat]

\* The files, the record, the index and the command have their columns.
LibraryShapes ==
  /\ files \in [Path -> StoredBytes] /\ record \in SourceRecord /\ manifest \in StoredBytes
  /\ vectors \in [bytes : StoredBytes, began : 0..LastHour]
  /\ command \in CommandRow /\ command.began \in 0..LastHour
  /\ hour \in 0..LastHour /\ tampers \in 0..MaxTampers /\ crashes \in 0..MaxCrashes /\ strayed \in BOOLEAN

\* A clean verdict was true of the recorded bytes when they were scanned; nothing else is
\* indexed; and they are not ingested without being in manifest and index.
RecordTrue(r, v, m) ==
  /\ r.path \in Managed
  /\ r.hash = NoBytes => r.path = "library"
  /\ r.verdict = "clean" => r.hash \in Bytes /\ KnownAt[r.hash] > r.scanned
  /\ v.bytes # NoBytes => v.bytes = r.hash /\ KnownAt[v.bytes] + MaxAge > v.began
  /\ r.status = "ingested" => m = r.hash /\ v.bytes = r.hash

\* What an operation has established at each of its steps.
Operates(c, r, v, h) ==
  /\ c.name = "none" => c.step = "idle"
  /\ c.name = "import" => /\ c.step \in {"stage", "reread", "link", "unlink", "write"}
                          /\ r.hash = NoBytes /\ c.bytes \in Bytes
                          /\ c.from = "staged" /\ c.to = "library"
  /\ c.name = "inspect" => /\ c.step \in {"scan", "verify", "link", "unlink", "write"}
                           /\ r.hash # NoBytes /\ c.from = r.path /\ c.bytes \in Bytes
                           /\ r.status \in {"acquired", "failed"}
                           /\ c.verdict = "clean" => c.bytes = r.hash /\ KnownAt[c.bytes] > h
                           /\ c.step \in {"link", "unlink"} => c.to # c.from
                           /\ c.step \in {"link", "unlink", "write"} => c.to \in Managed
  /\ c.name = "undo" => /\ c.step \in {"link", "unlink"} /\ r.hash # NoBytes
                        /\ c.to = r.path /\ c.from \in Managed /\ c.to # c.from
  /\ c.name = "ingest" => /\ c.step \in {"index", "put", "write"}
                          /\ r.verdict = "clean" /\ c.bytes = r.hash
                          /\ KnownAt[c.bytes] + MaxAge > c.began
                          /\ c.step \in {"put", "write"} => v.bytes = c.bytes

\* Where the bytes are that are recorded, or about to be, while nobody else touches them.
LibraryKept(c, f, r, lost) ==
  /\ r.hash = NoBytes => \A b \in Bytes : f[b] = NoBytes
  /\ r.hash # NoBytes => /\ \A p \in Managed : f[p] \in {NoBytes, r.hash}
                         /\ \E p \in Managed : f[p] = r.hash
  /\ c.name = "import" => /\ c.step \in {"link", "unlink"} => f["staged"] = c.bytes
                          /\ c.step \in {"unlink", "write"} => f["library"] = c.bytes
  /\ c.name \in {"inspect", "undo"} /\ c.step = "unlink" => f[c.from] = r.hash /\ f[c.to] = r.hash
  /\ ~lost /\ r.hash # NoBytes =>
       /\ c.name # "undo" /\ ~(c.name = "inspect" /\ c.step = "write") => f[r.path] = r.hash
       /\ c.name = "inspect" /\ c.step = "write" => f[c.to] = r.hash
       /\ c.name = "undo" => f[c.from] = r.hash

LibraryInv ==
  /\ LibraryShapes /\ RecordTrue(record, vectors, manifest) /\ Operates(command, record, vectors, hour)
  /\ tampers = 0 => LibraryKept(command, files, record, strayed)

\* The names of the files and the command that is none.
LEMMA LibraryNamed ==
  /\ NoBytes \notin Bytes /\ "staged" \notin Managed /\ "library" \in Managed /\ Managed \subseteq Path
  /\ "staged" \in Path /\ Bytes \subseteq Managed /\ Bytes \subseteq StoredBytes /\ NoBytes \in StoredBytes
  /\ \A b \in StoredBytes : b # NoBytes => b \in Bytes
  /\ "staged" # "library" /\ "staged" \notin Bytes /\ "library" \notin Bytes
  /\ NoCommand \in CommandRow /\ NoCommand.name = "none" /\ NoCommand.step = "idle" /\ NoCommand.began = 0
  /\ LastHour \in Nat /\ 0 \in 0..LastHour /\ 0..LastHour \subseteq Nat
BY LibraryConstants DEF Managed, Path, StoredBytes, NoCommand, CommandRow, LibrarySteps, Verdict

\* What the invariant says after a step is said of the state after it.
LEMMA LibraryPrimed ==
  ASSUME files' \in [Path -> StoredBytes], record' \in SourceRecord, manifest' \in StoredBytes,
         vectors' \in [bytes : StoredBytes, began : 0..LastHour],
         command' \in CommandRow, command'.began \in 0..LastHour,
         hour' \in 0..LastHour, tampers' \in 0..MaxTampers, crashes' \in 0..MaxCrashes, strayed' \in BOOLEAN,
         RecordTrue(record', vectors', manifest'), Operates(command', record', vectors', hour'),
         tampers' = 0 => LibraryKept(command', files', record', strayed')
  PROVE  LibraryInv'
<1>1. LibraryShapes'
  BY DEF LibraryShapes, Path, StoredBytes, SourceRecord, CommandRow, LibrarySteps, Verdict
<1>2. RecordTrue(record, vectors, manifest)'
  BY DEF RecordTrue, Managed
<1>3. Operates(command, record, vectors, hour)'
  BY DEF Operates, Managed
<1>4. (tampers = 0 => LibraryKept(command, files, record, strayed))'
  BY DEF LibraryKept, Managed
<1>5. QED  BY <1>1, <1>2, <1>3, <1>4 DEF LibraryInv

\* What the invariant says of the state.
LEMMA OfLibrary ==
  ASSUME LibraryInv
  PROVE  /\ files \in [Path -> StoredBytes] /\ record \in SourceRecord /\ manifest \in StoredBytes
         /\ vectors \in [bytes : StoredBytes, began : 0..LastHour]
         /\ command \in CommandRow /\ command.began \in 0..LastHour
         /\ hour \in 0..LastHour /\ tampers \in 0..MaxTampers /\ crashes \in 0..MaxCrashes /\ strayed \in BOOLEAN
         /\ RecordTrue(record, vectors, manifest) /\ Operates(command, record, vectors, hour)
         /\ tampers = 0 => LibraryKept(command, files, record, strayed)
BY DEF LibraryInv, LibraryShapes

\* A step of a command that touches neither the record nor the index.
LEMMA CommandGoes ==
  ASSUME LibraryInv, Elsewhere, UNCHANGED <<record, manifest, vectors>>,
         files' \in [Path -> StoredBytes], strayed' \in BOOLEAN,
         NEW c \in CommandRow, command' = c, c.began \in 0..LastHour, Operates(c, record, vectors, hour),
         tampers = 0 => LibraryKept(c, files', record, strayed')
  PROVE  LibraryInv'
<1>1. /\ hour' = hour /\ tampers' = tampers /\ crashes' = crashes
      /\ record' = record /\ manifest' = manifest /\ vectors' = vectors
  BY DEF Elsewhere
<1>2. QED  BY <1>1, OfLibrary, LibraryPrimed

\* One column of the command changes.
LEMMA StepTyped ==
  ASSUME NEW c \in CommandRow, NEW step \in LibrarySteps
  PROVE  /\ [c EXCEPT !.step = step] \in CommandRow /\ [c EXCEPT !.step = step].step = step
         /\ [c EXCEPT !.step = step].name = c.name /\ [c EXCEPT !.step = step].bytes = c.bytes
         /\ [c EXCEPT !.step = step].from = c.from /\ [c EXCEPT !.step = step].to = c.to
         /\ [c EXCEPT !.step = step].verdict = c.verdict /\ [c EXCEPT !.step = step].began = c.began
BY DEF CommandRow

\* A file is given bytes.
LEMMA FileGiven ==
  ASSUME LibraryInv, NEW p \in Path, NEW b \in StoredBytes, Given(p, b)
  PROVE  /\ files' \in [Path -> StoredBytes] /\ files'[p] = b
         /\ \A q \in Path \ {p} : files'[q] = files[q]
BY OfLibrary DEF Given

\* A clean-up that succeeds or not.
LEMMA FileGivenBack ==
  ASSUME LibraryInv, NEW p \in {"staged", "library"}, GivenBack(p)
  PROVE  /\ files' \in [Path -> StoredBytes] /\ strayed' \in BOOLEAN
         /\ \A b \in Bytes : files'[b] = files[b]
<1>1. p \in Path /\ \A b \in Bytes : b \in Path \ {p}
  BY LibraryNamed
<1>2. CASE Given(p, NoBytes) /\ UNCHANGED strayed
  BY <1>1, <1>2, LibraryNamed, FileGiven, OfLibrary
<1>3. CASE UNCHANGED files /\ strayed' = TRUE
  BY <1>3, OfLibrary
<1>4. QED  BY <1>2, <1>3 DEF GivenBack

\* No command has nothing to hold but what is kept.
LEMMA NothingRuns ==
  ASSUME NEW r, NEW v, NEW h, NEW f, NEW lost
  PROVE  /\ Operates(NoCommand, r, v, h)
         /\ (/\ r.hash = NoBytes => \A b \in Bytes : f[b] = NoBytes
             /\ r.hash # NoBytes => /\ \A p \in Managed : f[p] \in {NoBytes, r.hash}
                                    /\ \E p \in Managed : f[p] = r.hash
             /\ ~lost /\ r.hash # NoBytes => f[r.path] = r.hash)
            => LibraryKept(NoCommand, f, r, lost)
BY LibraryNamed DEF Operates, LibraryKept

\* An import that is over before its record is written.
LEMMA ImportOver ==
  ASSUME LibraryInv, command.name = "import", EndCommand, Elsewhere, UNCHANGED <<record, manifest, vectors>>,
         files' \in [Path -> StoredBytes], strayed' \in BOOLEAN, \A b \in Bytes : files'[b] = files[b]
  PROVE  LibraryInv'
<1>1. record.hash = NoBytes
  BY OfLibrary DEF Operates
<1>2. tampers = 0 => \A b \in Bytes : files'[b] = NoBytes
  BY <1>1, OfLibrary DEF LibraryKept
<1>3. /\ Operates(NoCommand, record, vectors, hour)
      /\ tampers = 0 => LibraryKept(NoCommand, files', record, strayed')
  BY <1>1, <1>2, NothingRuns
<1>4. command' = NoCommand /\ NoCommand \in CommandRow /\ NoCommand.began \in 0..LastHour
  BY LibraryNamed DEF EndCommand
<1>5. QED  BY <1>3, <1>4, CommandGoes

\* The steps of an import before its bytes are moved.
LEMMA ImportSteps ==
  ASSUME LibraryInv, (\E b \in Bytes : ImportBegins(b)) \/ ImportStages \/ ImportRereads
  PROVE  LibraryInv'
<1>1. ASSUME NEW b \in Bytes, ImportBegins(b)
      PROVE  LibraryInv'
  <2> DEFINE c == [NoCommand EXCEPT !.name = "import", !.step = "stage", !.bytes = b,
                                    !.from = "staged", !.to = "library"]
  <2>1. /\ c \in CommandRow /\ c.name = "import" /\ c.step = "stage" /\ c.bytes = b /\ c.from = "staged"
        /\ c.to = "library" /\ c.began = 0
    BY LibraryNamed DEF NoCommand, CommandRow, LibrarySteps
  <2>2. /\ command = NoCommand /\ record.hash = NoBytes /\ command' = c /\ Elsewhere
        /\ UNCHANGED <<files, record, manifest, vectors, strayed>>
    BY <1>1 DEF ImportBegins, HasAcquisition
  <2> HIDE DEF c
  <2>3. Operates(c, record, vectors, hour)
    BY <2>1, <2>2 DEF Operates
  <2>4. tampers = 0 => LibraryKept(c, files', record, strayed')
    BY <2>1, <2>2, OfLibrary DEF LibraryKept
  <2>5. QED  BY <2>1, <2>2, <2>3, <2>4, LibraryNamed, OfLibrary, CommandGoes
<1>2. CASE ImportStages \/ ImportRereads
  <2>1. /\ command.name = "import" /\ Elsewhere /\ UNCHANGED <<record, manifest, vectors, strayed>>
        /\ command \in CommandRow /\ command.began \in 0..LastHour /\ Operates(command, record, vectors, hour)
    BY <1>2, OfLibrary DEF ImportStages, ImportRereads, InStep
  <2>2. record.hash = NoBytes /\ command.bytes \in Bytes /\ command.from = "staged" /\ command.to = "library"
    BY <2>1 DEF Operates
  <2>3. CASE ImportStages
    <3> DEFINE c == [command EXCEPT !.step = "reread"]
    <3>1. /\ c \in CommandRow /\ c.name = "import" /\ c.step = "reread" /\ c.bytes = command.bytes
          /\ c.from = "staged" /\ c.to = "library" /\ c.began = command.began
      BY <2>1, <2>2, StepTyped DEF LibrarySteps
    <3>2. command' = c /\ Given("staged", command.bytes)
      BY <2>3 DEF ImportStages, GoTo
    <3> HIDE DEF c
    <3>3. files' \in [Path -> StoredBytes] /\ \A b \in Bytes : files'[b] = files[b]
      BY <2>2, <3>2, LibraryNamed, FileGiven
    <3>4. Operates(c, record, vectors, hour)
      BY <2>2, <3>1 DEF Operates
    <3>5. tampers = 0 => LibraryKept(c, files', record, strayed')
      BY <2>2, <3>1, <3>3, OfLibrary DEF LibraryKept
    <3>6. QED  BY <2>1, <3>1, <3>2, <3>3, <3>4, <3>5, OfLibrary, CommandGoes
  <2>4. CASE ImportRereads
    <3> DEFINE c == [command EXCEPT !.step = "link"]
    <3>1. /\ c \in CommandRow /\ c.name = "import" /\ c.step = "link" /\ c.bytes = command.bytes
          /\ c.from = "staged" /\ c.to = "library" /\ c.began = command.began
      BY <2>1, <2>2, StepTyped DEF LibrarySteps
    <3>2. command' = c /\ files["staged"] = command.bytes /\ files' = files
      BY <2>4 DEF ImportRereads, GoTo
    <3> HIDE DEF c
    <3>3. Operates(c, record, vectors, hour)
      BY <2>2, <3>1 DEF Operates
    <3>4. tampers = 0 => LibraryKept(c, files', record, strayed')
      BY <2>2, <3>1, <3>2, OfLibrary DEF LibraryKept
    <3>5. QED  BY <2>1, <3>1, <3>2, <3>3, <3>4, OfLibrary, CommandGoes
  <2>5. QED  BY <1>2, <2>3, <2>4
<1>3. QED  BY <1>1, <1>2

\* The import fails, or its record cannot be written.
LEMMA ImportFailsStep ==
  ASSUME LibraryInv, ImportFails \/ ImportUnwritten
  PROVE  LibraryInv'
<1>1. /\ command.name = "import" /\ EndCommand /\ Elsewhere /\ UNCHANGED <<record, manifest, vectors>>
      /\ GivenBack("staged") \/ GivenBack("library")
  BY DEF ImportFails, ImportUnwritten, InStep
<1>2. QED  BY <1>1, FileGivenBack, ImportOver

\* The record of the import is written.
LEMMA ImportWritesStep ==
  ASSUME LibraryInv, ImportWrites
  PROVE  LibraryInv'
<1> DEFINE r == [status |-> "acquired", path |-> "library", hash |-> command.bytes, verdict |-> "none", scanned |-> 0]
<1>1. /\ command.name = "import" /\ command.step = "write" /\ record' = r /\ command' = NoCommand
      /\ hour' = hour /\ tampers' = tampers /\ crashes' = crashes
      /\ UNCHANGED <<files, manifest, vectors, strayed>>
  BY DEF ImportWrites, InStep, EndCommand, Elsewhere
<1>2. record.hash = NoBytes /\ command.bytes \in Bytes
  BY <1>1, OfLibrary DEF Operates
<1>3. vectors.bytes = NoBytes
  BY <1>2, OfLibrary DEF RecordTrue
<1>4. r \in SourceRecord /\ RecordTrue(r, vectors, manifest)
  BY <1>2, <1>3, LibraryNamed DEF SourceRecord, RecordTrue, Path
<1>5. tampers = 0 => LibraryKept(NoCommand, files, r, strayed)
  <2> SUFFICES ASSUME tampers = 0  PROVE LibraryKept(NoCommand, files, r, strayed)
    OBVIOUS
  <2>1. files["library"] = command.bytes /\ \A b \in Bytes : files[b] = NoBytes
    BY <1>1, <1>2, OfLibrary DEF LibraryKept
  <2>2. r.hash = command.bytes /\ r.hash # NoBytes /\ r.path = "library"
    BY <1>2, LibraryNamed
  <2>3. \A p \in Managed : files[p] \in {NoBytes, r.hash}
    BY <2>1, <2>2 DEF Managed
  <2>4. \E p \in Managed : files[p] = r.hash
    BY <2>1, <2>2, LibraryNamed
  <2> HIDE DEF r
  <2>5. QED  BY <2>1, <2>2, <2>3, <2>4, NothingRuns
<1> HIDE DEF r
<1>6. Operates(NoCommand, r, vectors, hour) /\ NoCommand \in CommandRow /\ NoCommand.began \in 0..LastHour
  BY NothingRuns, LibraryNamed
<1>7. QED  BY <1>1, <1>4, <1>5, <1>6, OfLibrary, LibraryPrimed

\* What is kept of recorded bytes while their inspection moves nothing.
LEMMA KeptWhere ==
  ASSUME LibraryInv, tampers = 0, record.hash # NoBytes
  PROVE  /\ \A p \in Managed : files[p] \in {NoBytes, record.hash}
         /\ \E p \in Managed : files[p] = record.hash
         /\ ~strayed /\ command.name # "undo" /\ ~(command.name = "inspect" /\ command.step = "write") =>
              files[record.path] = record.hash
         /\ ~strayed /\ command.name = "inspect" /\ command.step = "write" => files[command.to] = record.hash
         /\ ~strayed /\ command.name = "undo" => files[command.from] = record.hash
         /\ command.name \in {"inspect", "undo"} /\ command.step = "unlink" =>
              files[command.from] = record.hash /\ files[command.to] = record.hash
BY OfLibrary DEF LibraryKept

\* A command that is over with every file where it was.
LEMMA CommandOverStep ==
  ASSUME LibraryInv, Elsewhere, UNCHANGED <<files, record, manifest, vectors>>, EndCommand, strayed' \in BOOLEAN,
         ~strayed' => /\ ~strayed /\ command.name # "undo"
                      /\ command.name = "inspect" /\ command.step = "write" => command.to = command.from
  PROVE  LibraryInv'
<1>1. command' = NoCommand /\ NoCommand \in CommandRow /\ NoCommand.began \in 0..LastHour
  BY LibraryNamed DEF EndCommand
<1>2. tampers = 0 => LibraryKept(NoCommand, files', record, strayed')
  <2> SUFFICES ASSUME tampers = 0  PROVE LibraryKept(NoCommand, files, record, strayed')
    OBVIOUS
  <2>1. record.hash = NoBytes => \A b \in Bytes : files[b] = NoBytes
    BY OfLibrary DEF LibraryKept
  <2>2. ~strayed' /\ record.hash # NoBytes => files[record.path] = record.hash
    BY KeptWhere, OfLibrary DEF Operates
  <2>3. QED  BY <2>1, <2>2, KeptWhere, NothingRuns
<1>3. files' \in [Path -> StoredBytes] /\ Operates(NoCommand, record, vectors, hour)
  BY OfLibrary, NothingRuns
<1>4. QED  BY <1>1, <1>2, <1>3, CommandGoes

\* An inspection goes on without touching a file.
LEMMA InspectGoes ==
  ASSUME LibraryInv, Elsewhere, UNCHANGED <<files, record, manifest, vectors, strayed>>,
         record.hash # NoBytes, ~strayed /\ tampers = 0 => files[record.path] = record.hash,
         NEW c \in CommandRow, command' = c, c.began \in 0..LastHour, Operates(c, record, vectors, hour),
         c.name = "inspect", c.step # "unlink", c.step = "write" => c.to = c.from
  PROVE  LibraryInv'
<1>1. c.from = record.path
  BY DEF Operates
<1>2. tampers = 0 => LibraryKept(c, files', record, strayed')
  <2> SUFFICES ASSUME tampers = 0  PROVE LibraryKept(c, files, record, strayed)
    OBVIOUS
  <2>1. /\ \A p \in Managed : files[p] \in {NoBytes, record.hash}
        /\ \E p \in Managed : files[p] = record.hash
    BY KeptWhere
  <2>2. QED  BY <1>1, <2>1 DEF LibraryKept
<1>3. QED  BY <1>2, OfLibrary, CommandGoes

\* An inspection until it is concluded.
LEMMA InspectSteps ==
  ASSUME LibraryInv, InspectBegins \/ InspectScans \/ InspectVerifies
  PROVE  LibraryInv'
<1>1. /\ files \in [Path -> StoredBytes] /\ record \in SourceRecord /\ command \in CommandRow
      /\ command.began \in 0..LastHour /\ hour \in 0..LastHour
      /\ RecordTrue(record, vectors, manifest) /\ Operates(command, record, vectors, hour)
  BY OfLibrary
<1>2. record.path \in Managed /\ record.path \in Path
  BY <1>1, LibraryNamed DEF RecordTrue
<1>3. Elsewhere /\ UNCHANGED <<files, record, manifest, vectors, strayed>>
  BY DEF InspectBegins, InspectScans, InspectVerifies
<1>4. CASE InspectBegins
  <2> DEFINE c == [NoCommand EXCEPT !.name = "inspect", !.step = "scan", !.bytes = files[record.path],
                                    !.from = record.path]
  <2>1. /\ command = NoCommand /\ record.hash # NoBytes /\ record.status \in {"acquired", "failed"}
        /\ files[record.path] # NoBytes /\ command' = c
    BY <1>4 DEF InspectBegins, HasAcquisition
  <2>2. files[record.path] \in Bytes /\ files[record.path] \in StoredBytes
    BY <1>1, <1>2, <2>1, LibraryNamed
  <2>3. /\ c \in CommandRow /\ c.name = "inspect" /\ c.step = "scan" /\ c.bytes = files[record.path]
        /\ c.from = record.path /\ c.began = 0 /\ c.verdict = "none"
    BY <1>2, <2>2, LibraryNamed DEF NoCommand, CommandRow, LibrarySteps, Verdict
  <2> HIDE DEF c
  <2>4. Operates(c, record, vectors, hour)
    BY <2>1, <2>2, <2>3 DEF Operates
  <2>5. ~strayed /\ tampers = 0 => files[record.path] = record.hash
    BY <2>1, KeptWhere, LibraryNamed
  <2>6. QED  BY <1>3, <2>1, <2>3, <2>4, <2>5, LibraryNamed, InspectGoes
<1>5. CASE InspectScans
  <2>1. PICK v \in Verdicts : command' = [command EXCEPT !.step = "verify", !.verdict = v]
    BY <1>5 DEF InspectScans
  <2> DEFINE c == [command EXCEPT !.step = "verify", !.verdict = v]
  <2>2. command.name = "inspect" /\ command.step = "scan"
    BY <1>5 DEF InspectScans, InStep
  <2>3. v \in Verdict /\ (v = "clean" => command.bytes = record.hash /\ ~(KnownAt[command.bytes] <= hour))
    BY <2>1 DEF Verdicts, Verdict, ScannedBytes
  <2>4. record.hash # NoBytes /\ command.bytes \in Bytes /\ KnownAt[command.bytes] \in Nat /\ hour \in Nat
    BY <1>1, <2>2, LibraryConstants, LibraryNamed DEF Operates
  <2>5. /\ c \in CommandRow /\ c.name = "inspect" /\ c.step = "verify" /\ c.bytes = command.bytes
        /\ c.from = command.from /\ c.began = command.began /\ c.verdict = v
    BY <1>1, <2>2, <2>3 DEF CommandRow, LibrarySteps
  <2> HIDE DEF c
  <2>6. v = "clean" => c.bytes = record.hash /\ KnownAt[c.bytes] > hour
    BY <2>3, <2>4, <2>5
  <2>7. Operates(c, record, vectors, hour)
    BY <1>1, <2>2, <2>4, <2>5, <2>6 DEF Operates
  <2>8. ~strayed /\ tampers = 0 => files[record.path] = record.hash
    BY <2>2, <2>4, KeptWhere
  <2>9. QED  BY <1>1, <1>3, <2>1, <2>4, <2>5, <2>7, <2>8, InspectGoes DEF c
<1>6. CASE InspectVerifies
  <2>1. command.name = "inspect" /\ command.step = "verify" /\ files[command.from] # NoBytes
    BY <1>6 DEF InspectVerifies, InStep
  <2>2. /\ record.hash # NoBytes /\ command.bytes \in Bytes /\ command.from = record.path
        /\ record.status \in {"acquired", "failed"}
        /\ command.verdict = "clean" => command.bytes = record.hash /\ KnownAt[command.bytes] > hour
    BY <1>1, <2>1 DEF Operates
  <2>3. files[command.from] \in Bytes
    BY <1>1, <1>2, <2>1, <2>2, LibraryNamed
  <2>4. PICK bytes \in Bytes, verdict \in Verdict :
          /\ command' = Concluded(bytes, verdict)
          /\ verdict = "clean" => command.verdict = "clean" /\ bytes = command.bytes
    <3>1. command.verdict \in Verdict
      BY <1>1 DEF CommandRow
    <3>2. CASE files[command.from] = command.bytes
      <4>1. command' = Concluded(command.bytes, command.verdict)
        BY <1>6, <3>2 DEF InspectVerifies
      <4>2. QED  BY <2>2, <3>1, <4>1
    <3>3. CASE files[command.from] # command.bytes
      <4> DEFINE verdict == IF command.verdict = "clean" THEN "rejected" ELSE command.verdict
      <4>1. command' = Concluded(files[command.from], verdict)
        BY <1>6, <3>3 DEF InspectVerifies
      <4>2. verdict \in Verdict /\ verdict # "clean"
        BY <3>1 DEF Verdict
      <4> HIDE DEF verdict
      <4>3. QED  BY <2>3, <4>1, <4>2
    <3>4. QED  BY <3>2, <3>3
  <2> DEFINE to == IF verdict = "clean" THEN "library"
                   ELSE IF command.from = "library" THEN bytes ELSE command.from
             step == IF to = command.from THEN "write" ELSE "link"
             c == [command EXCEPT !.step = step, !.to = to, !.bytes = bytes, !.verdict = verdict]
  <2>5. command' = c
    BY <2>4 DEF Concluded
  <2>6. to \in Managed /\ to \in Path
    BY <1>2, <2>2, LibraryNamed
  <2>7. step \in {"write", "link"} /\ (step = "write" <=> to = command.from) /\ step \in LibrarySteps
    BY DEF LibrarySteps
  <2> HIDE DEF to, step
  <2>8. bytes \in StoredBytes
    BY LibraryNamed
  <2>9. /\ c \in CommandRow /\ c.name = "inspect" /\ c.step = step /\ c.bytes = bytes /\ c.to = to
        /\ c.from = record.path /\ c.began = command.began /\ c.verdict = verdict
    BY <1>1, <2>1, <2>2, <2>6, <2>7, <2>8 DEF CommandRow
  <2> HIDE DEF c
  <2>10. verdict = "clean" => bytes = record.hash /\ KnownAt[bytes] > hour
    BY <2>2, <2>4
  <2>11. Operates(c, record, vectors, hour)
    BY <2>2, <2>6, <2>7, <2>9, <2>10 DEF Operates
  <2>12. ~strayed /\ tampers = 0 => files[record.path] = record.hash
    BY <2>1, <2>2, KeptWhere
  <2>13. c.step # "unlink" /\ (c.step = "write" => c.to = c.from)
    BY <2>2, <2>7, <2>9
  <2>14. QED  BY <1>1, <1>3, <2>2, <2>5, <2>9, <2>11, <2>12, <2>13, InspectGoes
<1>7. QED  BY <1>4, <1>5, <1>6

\* The inspection ends early, or its record cannot be written.
LEMMA InspectEndsStep ==
  ASSUME LibraryInv, InspectEnds \/ InspectUnwritten
  PROVE  LibraryInv'
<1>1. command.name = "inspect" /\ Elsewhere /\ UNCHANGED <<files, record, manifest, vectors, strayed>>
  BY DEF InspectEnds, InspectUnwritten, InStep
<1>2. CASE InspectEnds
  BY <1>1, <1>2, OfLibrary, CommandOverStep DEF InspectEnds, InStep
<1>3. CASE InspectUnwritten /\ command.to = command.from
  BY <1>1, <1>3, OfLibrary, CommandOverStep DEF InspectUnwritten
<1>4. CASE InspectUnwritten /\ command.to # command.from
  <2> DEFINE c == [command EXCEPT !.name = "undo", !.step = "link", !.from = command.to, !.to = command.from]
  <2>1. command' = c /\ command.step = "write"
    BY <1>4 DEF InspectUnwritten, InStep
  <2>2. /\ command \in CommandRow /\ command.began \in 0..LastHour /\ Operates(command, record, vectors, hour)
        /\ record.hash # NoBytes /\ command.to \in Managed /\ command.from = record.path
    BY <1>1, <2>1, OfLibrary DEF Operates
  <2>3. /\ c \in CommandRow /\ c.name = "undo" /\ c.step = "link" /\ c.from = command.to /\ c.to = command.from
        /\ c.began = command.began
    BY <2>2 DEF CommandRow, LibrarySteps
  <2> HIDE DEF c
  <2>4. Operates(c, record, vectors, hour)
    BY <1>4, <2>2, <2>3 DEF Operates
  <2>5. tampers = 0 => LibraryKept(c, files', record, strayed')
    BY <1>1, <2>1, <2>2, <2>3, KeptWhere DEF LibraryKept
  <2>6. QED  BY <1>1, <2>1, <2>2, <2>3, <2>4, <2>5, OfLibrary, CommandGoes
<1>5. QED  BY <1>2, <1>3, <1>4

\* The record of the inspection is written.
LEMMA InspectWritesStep ==
  ASSUME LibraryInv, InspectWrites
  PROVE  LibraryInv'
<1> DEFINE status == IF command.verdict = "clean" THEN "acquired" ELSE "failed"
           r == [record EXCEPT !.status = status, !.path = command.to, !.verdict = command.verdict, !.scanned = hour]
<1>1. /\ command.name = "inspect" /\ command.step = "write" /\ record' = r /\ command' = NoCommand
      /\ hour' = hour /\ tampers' = tampers /\ crashes' = crashes
      /\ UNCHANGED <<files, manifest, vectors, strayed>>
  BY DEF InspectWrites, InStep, EndCommand, Elsewhere
<1>2. /\ record \in SourceRecord /\ command \in CommandRow /\ hour \in 0..LastHour
      /\ RecordTrue(record, vectors, manifest) /\ Operates(command, record, vectors, hour)
  BY OfLibrary
<1>3. /\ record.hash # NoBytes /\ command.to \in Managed /\ command.bytes \in Bytes
      /\ command.verdict = "clean" => command.bytes = record.hash /\ KnownAt[command.bytes] > hour
  BY <1>1, <1>2 DEF Operates
<1>4. command.verdict \in Verdict /\ command.to \in Path /\ status \in {"acquired", "failed"}
  BY <1>2 DEF CommandRow
<1> HIDE DEF status
<1>5. /\ r \in SourceRecord /\ r.hash = record.hash /\ r.path = command.to /\ r.verdict = command.verdict
      /\ r.scanned = hour /\ r.status = status
  BY <1>2, <1>4 DEF SourceRecord, Verdict
<1> HIDE DEF r
<1>6. RecordTrue(r, vectors, manifest)
  BY <1>2, <1>3, <1>4, <1>5 DEF RecordTrue
<1>7. tampers = 0 => LibraryKept(NoCommand, files, r, strayed)
  <2> SUFFICES ASSUME tampers = 0  PROVE LibraryKept(NoCommand, files, r, strayed)
    OBVIOUS
  <2>1. /\ \A p \in Managed : files[p] \in {NoBytes, r.hash}
        /\ \E p \in Managed : files[p] = r.hash
        /\ ~strayed => files[r.path] = r.hash
    BY <1>1, <1>3, <1>5, KeptWhere
  <2>2. QED  BY <1>3, <1>5, <2>1, NothingRuns
<1>8. Operates(NoCommand, r, vectors, hour) /\ NoCommand \in CommandRow /\ NoCommand.began \in 0..LastHour
  BY NothingRuns, LibraryNamed
<1>9. QED  BY <1>1, <1>5, <1>6, <1>7, <1>8, OfLibrary, LibraryPrimed

\* The beginning and the end of an ingestion touch nothing.
LEMMA IngestBeginsStep ==
  ASSUME LibraryInv, IngestBegins
  PROVE  LibraryInv'
<1> DEFINE c == [NoCommand EXCEPT !.name = "ingest", !.step = "index", !.bytes = files[record.path], !.began = hour]
<1>1. /\ command = NoCommand /\ record.verdict = "clean" /\ hour - record.scanned <= MaxAge
      /\ files[record.path] = record.hash /\ record.hash # NoBytes /\ command' = c /\ Elsewhere
      /\ UNCHANGED <<files, record, manifest, vectors, strayed>>
  BY DEF IngestBegins, Cleared, HasCleanArtifactSafety, HasAcquisition
<1>2. record \in SourceRecord /\ RecordTrue(record, vectors, manifest) /\ hour \in 0..LastHour
  BY OfLibrary
<1>3. record.hash \in Bytes /\ KnownAt[record.hash] > record.scanned
  BY <1>1, <1>2 DEF RecordTrue
<1>4. /\ KnownAt[record.hash] \in Nat /\ MaxAge \in Nat /\ hour \in Nat /\ record.scanned \in Nat
      /\ record.hash \in StoredBytes
  BY <1>2, <1>3, LibraryConstants, LibraryNamed DEF SourceRecord
<1>5. KnownAt[record.hash] + MaxAge > hour
  BY <1>1, <1>3, <1>4
<1>6. /\ c \in CommandRow /\ c.name = "ingest" /\ c.step = "index" /\ c.bytes = record.hash /\ c.began = hour
  BY <1>1, <1>4, LibraryNamed DEF NoCommand, CommandRow, LibrarySteps
<1> HIDE DEF c
<1>7. Operates(c, record, vectors, hour)
  BY <1>1, <1>5, <1>6 DEF Operates
<1>8. tampers = 0 => LibraryKept(c, files', record, strayed')
  BY <1>1, <1>6, KeptWhere DEF LibraryKept
<1>9. QED  BY <1>1, <1>2, <1>6, <1>7, <1>8, OfLibrary, CommandGoes

\* The steps of an ingestion leave the files alone.
LEMMA IngestSteps ==
  ASSUME LibraryInv, IngestIndexes \/ IngestPuts \/ IngestWrites
  PROVE  LibraryInv'
<1>1. /\ command.name = "ingest" /\ Elsewhere /\ UNCHANGED <<files, strayed>>
  BY DEF IngestIndexes, IngestPuts, IngestWrites, InStep
<1>2. /\ command \in CommandRow /\ command.began \in 0..LastHour /\ record \in SourceRecord
      /\ manifest \in StoredBytes /\ vectors \in [bytes : StoredBytes, began : 0..LastHour]
      /\ RecordTrue(record, vectors, manifest) /\ Operates(command, record, vectors, hour)
      /\ hour' = hour /\ tampers' = tampers /\ crashes' = crashes
  BY <1>1, OfLibrary DEF Elsewhere
<1>3. /\ record.verdict = "clean" /\ command.bytes = record.hash /\ record.hash \in Bytes
      /\ KnownAt[command.bytes] + MaxAge > command.began
      /\ command.step \in {"put", "write"} => vectors.bytes = record.hash
  BY <1>1, <1>2 DEF Operates, RecordTrue
<1>4. record.hash # NoBytes /\ record.hash \in StoredBytes
  BY <1>3, LibraryNamed
<1>5. tampers = 0 =>
        /\ \A p \in Managed : files[p] \in {NoBytes, record.hash}
        /\ \E p \in Managed : files[p] = record.hash
        /\ ~strayed => files[record.path] = record.hash
  BY <1>1, <1>4, KeptWhere
<1>6. CASE IngestIndexes
  <2> DEFINE c == [command EXCEPT !.step = "put"]
  <2>1. /\ vectors' = [bytes |-> record.hash, began |-> command.began] /\ command' = c
        /\ UNCHANGED <<record, manifest>>
    BY <1>3, <1>6 DEF IngestIndexes, IndexedBytes, GoTo
  <2>2. /\ c \in CommandRow /\ c.name = "ingest" /\ c.step = "put" /\ c.bytes = record.hash
        /\ c.began = command.began
    BY <1>1, <1>2, <1>3, StepTyped DEF LibrarySteps
  <2> HIDE DEF c
  <2>3. /\ vectors' \in [bytes : StoredBytes, began : 0..LastHour] /\ vectors'.bytes = record.hash
        /\ vectors'.began = command.began
    BY <1>2, <1>4, <2>1
  <2>4. RecordTrue(record, vectors', manifest)
    BY <1>2, <1>3, <2>3 DEF RecordTrue
  <2>5. Operates(c, record, vectors', hour)
    BY <1>3, <2>2, <2>3 DEF Operates
  <2>6. tampers = 0 => LibraryKept(c, files, record, strayed)
    BY <1>4, <1>5, <2>2 DEF LibraryKept
  <2>7. QED  BY <1>1, <1>2, <2>1, <2>2, <2>3, <2>4, <2>5, <2>6, OfLibrary, LibraryPrimed
<1>7. CASE IngestPuts
  <2> DEFINE c == [command EXCEPT !.step = "write"]
  <2>1. manifest' = record.hash /\ command' = c /\ UNCHANGED <<record, vectors>> /\ command.step = "put"
    BY <1>3, <1>7 DEF IngestPuts, GoTo, InStep
  <2>2. /\ c \in CommandRow /\ c.name = "ingest" /\ c.step = "write" /\ c.bytes = record.hash
        /\ c.began = command.began
    BY <1>1, <1>2, <1>3, StepTyped DEF LibrarySteps
  <2> HIDE DEF c
  <2>3. RecordTrue(record, vectors, manifest')
    BY <1>2, <2>1 DEF RecordTrue
  <2>4. Operates(c, record, vectors, hour)
    BY <1>3, <2>1, <2>2 DEF Operates
  <2>5. tampers = 0 => LibraryKept(c, files, record, strayed)
    BY <1>4, <1>5, <2>2 DEF LibraryKept
  <2>6. QED  BY <1>1, <1>2, <1>4, <2>1, <2>2, <2>3, <2>4, <2>5, OfLibrary, LibraryPrimed
<1>8. CASE IngestWrites
  <2> DEFINE r == [record EXCEPT !.status = "ingested"]
  <2>1. /\ record' = r /\ command' = NoCommand /\ UNCHANGED <<manifest, vectors>>
        /\ manifest = record.hash /\ vectors.bytes = record.hash
    BY <1>3, <1>8 DEF IngestWrites, EndCommand, InStep
  <2>2. /\ r \in SourceRecord /\ r.hash = record.hash /\ r.path = record.path /\ r.verdict = record.verdict
        /\ r.scanned = record.scanned
    BY <1>2 DEF SourceRecord
  <2> HIDE DEF r
  <2>3. RecordTrue(r, vectors, manifest)
    BY <1>2, <2>1, <2>2 DEF RecordTrue
  <2>4. tampers = 0 => LibraryKept(NoCommand, files, r, strayed)
    <3> SUFFICES ASSUME tampers = 0  PROVE LibraryKept(NoCommand, files, r, strayed)
      OBVIOUS
    <3>1. r.hash # NoBytes /\ (\A p \in Managed : files[p] \in {NoBytes, r.hash})
          /\ (\E p \in Managed : files[p] = r.hash) /\ (~strayed => files[r.path] = r.hash)
      BY <1>4, <1>5, <2>2
    <3>2. QED  BY <3>1, NothingRuns
  <2>5. Operates(NoCommand, r, vectors, hour) /\ NoCommand \in CommandRow /\ NoCommand.began \in 0..LastHour
    BY NothingRuns, LibraryNamed
  <2>6. QED  BY <1>1, <1>2, <2>1, <2>2, <2>3, <2>4, <2>5, OfLibrary, LibraryPrimed
<1>9. QED  BY <1>6, <1>7, <1>8, OfLibrary

\* A move is of an import, an inspection or its undoing, between two managed names or
\* from the staged one.
LEMMA Moving ==
  ASSUME LibraryInv, command.step \in {"link", "unlink"}
  PROVE  /\ command.name \in {"import", "inspect", "undo"} /\ command.from # command.to
         /\ command.from \in Path /\ command.to \in Managed /\ command.to \in Path
         /\ command.name \in {"inspect", "undo"} => record.hash # NoBytes /\ command.from \in Managed
         /\ command.name = "inspect" => command.from = record.path
         /\ command.name = "undo" => command.to = record.path
         /\ command.name = "import" => /\ record.hash = NoBytes /\ command.from = "staged"
                                       /\ command.to = "library"
<1>1. /\ command \in CommandRow /\ Operates(command, record, vectors, hour)
      /\ RecordTrue(record, vectors, manifest)
  BY OfLibrary
<1>2. command.name \in {"none", "import", "inspect", "undo", "ingest"} /\ record.path \in Managed
  BY <1>1 DEF CommandRow, RecordTrue
<1>3. command.name \in {"import", "inspect", "undo"}
  BY <1>1, <1>2 DEF Operates
<1>4. QED  BY <1>1, <1>2, <1>3, LibraryNamed DEF Operates

\* The new name is linked.
LEMMA MoveLinksStep ==
  ASSUME LibraryInv, MoveLinks
  PROVE  LibraryInv'
<1> DEFINE c == [command EXCEPT !.step = "unlink"]
<1>1. /\ command.step = "link" /\ files[command.from] # NoBytes /\ Given(command.to, files[command.from])
      /\ command' = c /\ Elsewhere /\ UNCHANGED <<record, manifest, vectors, strayed>>
  BY DEF MoveLinks, Linked, GoTo
<1>2. /\ command \in CommandRow /\ command.began \in 0..LastHour /\ Operates(command, record, vectors, hour)
      /\ files \in [Path -> StoredBytes]
  BY OfLibrary
<1>3. /\ c \in CommandRow /\ c.name = command.name /\ c.step = "unlink" /\ c.bytes = command.bytes
      /\ c.from = command.from /\ c.to = command.to /\ c.began = command.began /\ c.verdict = command.verdict
  BY <1>2, StepTyped DEF LibrarySteps
<1> HIDE DEF c
<1>4. /\ files' \in [Path -> StoredBytes] /\ files'[command.to] = files[command.from]
      /\ \A q \in Path \ {command.to} : files'[q] = files[q]
  BY <1>1, <1>2, Moving, FileGiven
<1>5. Operates(c, record, vectors, hour)
  BY <1>1, <1>2, <1>3, Moving DEF Operates
<1>6. tampers = 0 => LibraryKept(c, files', record, strayed')
  <2> SUFFICES ASSUME tampers = 0  PROVE LibraryKept(c, files', record, strayed)
    BY <1>1
  <2>1. files'[command.from] = files[command.from]
    BY <1>1, <1>4, Moving
  <2>2. CASE command.name = "import"
    <3>1. /\ files["staged"] = command.bytes /\ \A b \in Bytes : files[b] = NoBytes
          /\ record.hash = NoBytes /\ command.from = "staged" /\ command.to = "library"
      BY <1>1, <2>2, OfLibrary, Moving DEF LibraryKept
    <3>2. \A b \in Bytes : files'[b] = NoBytes
      BY <1>4, <3>1, LibraryNamed
    <3>3. QED  BY <1>3, <1>4, <2>1, <2>2, <3>1, <3>2 DEF LibraryKept
  <2>3. CASE command.name \in {"inspect", "undo"}
    <3>1. /\ record.hash # NoBytes /\ command.from \in Managed /\ command.to \in Managed
          /\ \A p \in Managed : files[p] \in {NoBytes, record.hash}
      BY <1>1, <2>3, KeptWhere, Moving
    <3>2. files[command.from] = record.hash
      BY <1>1, <3>1
    <3>3. /\ \A p \in Managed : files'[p] \in {NoBytes, record.hash}
          /\ \E p \in Managed : files'[p] = record.hash
      BY <1>4, <2>1, <3>1, <3>2, LibraryNamed
    <3>4. /\ command.name = "inspect" => files'[record.path] = record.hash
          /\ command.name = "undo" => files'[c.from] = record.hash
      BY <1>1, <1>3, <2>1, <3>2, Moving
    <3>5. QED  BY <1>3, <1>4, <2>1, <2>3, <3>1, <3>2, <3>3, <3>4 DEF LibraryKept
  <2>4. QED  BY <1>1, <2>2, <2>3, Moving
<1>7. QED  BY <1>1, <1>2, <1>3, <1>4, <1>5, <1>6, OfLibrary, CommandGoes

\* The old name is taken away.
LEMMA MoveUnlinksStep ==
  ASSUME LibraryInv, MoveUnlinks
  PROVE  LibraryInv'
<1>1. /\ command.step = "unlink" /\ Given(command.from, NoBytes)
      /\ Elsewhere /\ UNCHANGED <<record, manifest, vectors, strayed>>
  BY DEF MoveUnlinks
<1>2. /\ command \in CommandRow /\ command.began \in 0..LastHour /\ Operates(command, record, vectors, hour)
  BY OfLibrary
<1>3. /\ files' \in [Path -> StoredBytes] /\ files'[command.from] = NoBytes
      /\ \A q \in Path \ {command.from} : files'[q] = files[q]
  BY <1>1, <1>2, Moving, FileGiven, LibraryNamed
<1>4. files'[command.to] = files[command.to]
  BY <1>1, <1>3, Moving
<1>5. ASSUME tampers = 0, command.name \in {"inspect", "undo"}
      PROVE  /\ record.hash # NoBytes /\ files'[command.to] = record.hash
             /\ \A p \in Managed : files'[p] \in {NoBytes, record.hash}
             /\ \E p \in Managed : files'[p] = record.hash
  <2>1. /\ record.hash # NoBytes /\ files[command.to] = record.hash /\ command.to \in Managed
        /\ \A p \in Managed : files[p] \in {NoBytes, record.hash}
    BY <1>1, <1>5, KeptWhere, Moving
  <2>2. \A p \in Managed : files'[p] \in {NoBytes, record.hash}
    BY <1>3, <2>1, LibraryNamed
  <2>3. QED  BY <1>4, <2>1, <2>2
<1>6. CASE command.name = "undo"
  <2>1. command' = NoCommand /\ command.to = record.path
    BY <1>1, <1>6, Moving DEF MoveUnlinks, EndCommand
  <2>2. tampers = 0 => LibraryKept(NoCommand, files', record, strayed')
    BY <1>5, <1>6, <2>1, NothingRuns
  <2>3. Operates(NoCommand, record, vectors, hour) /\ NoCommand \in CommandRow /\ NoCommand.began \in 0..LastHour
    BY NothingRuns, LibraryNamed
  <2>4. QED  BY <1>1, <1>3, <2>1, <2>2, <2>3, OfLibrary, CommandGoes
<1>7. CASE command.name \in {"import", "inspect"}
  <2> DEFINE c == [command EXCEPT !.step = "write"]
  <2>1. command' = c
    BY <1>7 DEF MoveUnlinks, GoTo
  <2>2. /\ c \in CommandRow /\ c.name = command.name /\ c.step = "write" /\ c.bytes = command.bytes
        /\ c.from = command.from /\ c.to = command.to /\ c.began = command.began /\ c.verdict = command.verdict
    BY <1>2, StepTyped DEF LibrarySteps
  <2> HIDE DEF c
  <2>3. Operates(c, record, vectors, hour)
    BY <1>1, <1>2, <1>7, <2>2, Moving DEF Operates
  <2>4. tampers = 0 => LibraryKept(c, files', record, strayed')
    <3> SUFFICES ASSUME tampers = 0  PROVE LibraryKept(c, files', record, strayed)
      BY <1>1
    <3>1. CASE command.name = "import"
      <4>1. /\ files["library"] = command.bytes /\ \A b \in Bytes : files[b] = NoBytes
            /\ record.hash = NoBytes /\ command.from = "staged" /\ command.to = "library"
        BY <1>1, <3>1, OfLibrary, Moving DEF LibraryKept
      <4>2. \A b \in Bytes : files'[b] = NoBytes
        BY <1>3, <4>1, LibraryNamed
      <4>3. QED  BY <1>4, <2>2, <3>1, <4>1, <4>2 DEF LibraryKept
    <3>2. CASE command.name = "inspect"
      BY <1>5, <2>2, <3>2 DEF LibraryKept
    <3>3. QED  BY <1>7, <3>1, <3>2
  <2>5. QED  BY <1>1, <1>2, <1>3, <2>1, <2>2, <2>3, <2>4, OfLibrary, CommandGoes
<1>8. QED  BY <1>1, <1>6, <1>7, Moving

\* The old name cannot be taken away, or the new one not be linked.
LEMMA MoveFails ==
  ASSUME LibraryInv, UnlinkFails \/ LinkFails
  PROVE  LibraryInv'
<1>1. /\ command.step \in {"link", "unlink"} /\ EndCommand /\ Elsewhere /\ UNCHANGED <<record, manifest, vectors>>
  BY DEF UnlinkFails, LinkFails
<1>2. files \in [Path -> StoredBytes] /\ strayed \in BOOLEAN
  BY OfLibrary
<1>3. CASE command.name = "import"
  <2>1. command.from = "staged" /\ command.to = "library"
    BY <1>1, <1>3, Moving
  <2>2. files' \in [Path -> StoredBytes] /\ strayed' \in BOOLEAN /\ \A b \in Bytes : files'[b] = files[b]
    <3>1. CASE LinkFails
      BY <1>3, <2>1, <3>1, FileGivenBack DEF LinkFails
    <3>2. CASE UnlinkFails
      <4>1. CASE /\ files' = [files EXCEPT !["library"] = NoBytes, !["staged"] = NoBytes]
                 /\ strayed' = (strayed \/ command.name = "undo")
        BY <1>2, <1>3, <4>1, LibraryNamed
      <4>2. CASE strayed' = TRUE /\ UNCHANGED files
        BY <1>2, <4>2
      <4>3. ASSUME strayed' = TRUE, NEW p \in {"staged", "library"}, Given(p, NoBytes)
            PROVE  files' \in [Path -> StoredBytes] /\ strayed' \in BOOLEAN /\ \A b \in Bytes : files'[b] = files[b]
        <5>1. p \in Path /\ \A b \in Bytes : b \in Path \ {p}
          BY LibraryNamed
        <5>2. QED  BY <4>3, <5>1, LibraryNamed, FileGiven
      <4>4. QED  BY <1>3, <2>1, <3>2, <4>1, <4>2, <4>3 DEF UnlinkFails
    <3>3. QED  BY <3>1, <3>2
  <2>3. QED  BY <1>1, <1>3, <2>2, ImportOver
<1>4. CASE command.name \in {"inspect", "undo"}
  <2>1. /\ record.hash # NoBytes /\ command.from \in Managed /\ command.to \in Managed /\ command.from # command.to
        /\ command.name = "inspect" => command.from = record.path
    BY <1>1, <1>4, Moving
  <2>2. CASE UNCHANGED files
    <3>1. strayed' \in BOOLEAN /\ (~strayed' => ~strayed /\ command.name = "inspect")
      BY <1>2, <1>4 DEF UnlinkFails, LinkFails
    <3>2. ~strayed' => ~strayed /\ command.name # "undo" /\ command.step # "write"
      BY <1>1, <3>1
    <3>3. QED  BY <1>1, <2>2, <3>1, <3>2, CommandOverStep
  <2>3. CASE files' # files
    <3>1. /\ command.step = "unlink"
          /\ files' = [files EXCEPT ![command.to] = NoBytes, ![command.from] = files[command.from]]
          /\ strayed' \in BOOLEAN /\ (~strayed' => ~strayed /\ command.name = "inspect")
      BY <1>2, <1>4, <2>3 DEF UnlinkFails, LinkFails
    <3>2. /\ files' \in [Path -> StoredBytes] /\ files'[command.from] = files[command.from]
          /\ files'[command.to] = NoBytes
          /\ \A q \in Path \ {command.from, command.to} : files'[q] = files[q]
      BY <1>2, <2>1, <3>1, LibraryNamed
    <3>3. tampers = 0 => LibraryKept(NoCommand, files', record, strayed')
      <4> SUFFICES ASSUME tampers = 0  PROVE LibraryKept(NoCommand, files', record, strayed')
        OBVIOUS
      <4>1. /\ files[command.from] = record.hash /\ \A p \in Managed : files[p] \in {NoBytes, record.hash}
        BY <1>4, <2>1, <3>1, KeptWhere
      <4>2. \A p \in Managed : files'[p] \in {NoBytes, record.hash}
        BY <2>1, <3>2, <4>1, LibraryNamed
      <4>3. \E p \in Managed : files'[p] = record.hash
        BY <2>1, <3>2, <4>1
      <4>4. ~strayed' => files'[record.path] = record.hash
        BY <2>1, <3>1, <3>2, <4>1
      <4>5. QED  BY <2>1, <4>2, <4>3, <4>4, NothingRuns
    <3>4. command' = NoCommand /\ NoCommand \in CommandRow /\ NoCommand.began \in 0..LastHour
      BY <1>1, LibraryNamed DEF EndCommand
    <3>5. Operates(NoCommand, record, vectors, hour)
      BY NothingRuns
    <3>6. QED  BY <1>1, <3>1, <3>2, <3>3, <3>4, <3>5, CommandGoes
  <2>4. QED  BY <2>2, <2>3
<1>5. QED  BY <1>1, <1>3, <1>4, Moving

\* An ingestion fails, or the process ends.
LEMMA CommandStops ==
  ASSUME LibraryInv, IngestFails \/ CommandCrashes
  PROVE  LibraryInv'
<1>1. CASE IngestFails
  BY <1>1, OfLibrary, CommandOverStep DEF IngestFails
<1>2. CASE CommandCrashes
  <2>1. /\ command' = NoCommand /\ strayed' = TRUE /\ crashes' = crashes + 1 /\ crashes < MaxCrashes
        /\ UNCHANGED <<files, record, manifest, vectors, hour, tampers>>
    BY <1>2 DEF CommandCrashes, EndCommand
  <2>2. crashes' \in 0..MaxCrashes
    BY <2>1, OfLibrary, LibraryConstants
  <2>3. tampers = 0 => LibraryKept(NoCommand, files, record, TRUE)
    <3> SUFFICES ASSUME tampers = 0  PROVE LibraryKept(NoCommand, files, record, TRUE)
      OBVIOUS
    <3>1. record.hash = NoBytes => \A b \in Bytes : files[b] = NoBytes
      BY OfLibrary DEF LibraryKept
    <3>2. QED  BY <3>1, KeptWhere, NothingRuns
  <2>4. Operates(NoCommand, record, vectors, hour) /\ NoCommand \in CommandRow /\ NoCommand.began \in 0..LastHour
    BY NothingRuns, LibraryNamed
  <2>5. QED  BY <2>1, <2>2, <2>3, <2>4, OfLibrary, LibraryPrimed
<1>3. QED  BY <1>1, <1>2

\* Someone else changes a file; or an hour passes, which no inspection lasts.
LEMMA TimeAndTampering ==
  ASSUME LibraryInv, (\E p \in Path, b \in StoredBytes : Tamper(p, b)) \/ HourPasses
  PROVE  LibraryInv'
<1>1. ASSUME NEW p \in Path, NEW b \in StoredBytes, Tamper(p, b)
      PROVE  LibraryInv'
  <2>1. /\ tampers' = tampers + 1 /\ tampers < MaxTampers /\ Given(p, b)
        /\ UNCHANGED <<record, manifest, vectors, command, hour, crashes, strayed>>
    BY <1>1 DEF Tamper
  <2>2. tampers' \in 0..MaxTampers /\ tampers' # 0
    BY <2>1, OfLibrary, LibraryConstants
  <2>3. files' \in [Path -> StoredBytes]
    BY <2>1, FileGiven
  <2>4. QED  BY <2>1, <2>2, <2>3, OfLibrary, LibraryPrimed
<1>2. CASE HourPasses
  <2>1. /\ hour < LastHour /\ hour' = hour + 1 /\ command.name \notin {"inspect", "undo"}
        /\ UNCHANGED <<files, record, manifest, vectors, command, tampers, crashes, strayed>>
    BY <1>2 DEF HourPasses
  <2>2. hour' \in 0..LastHour
    BY <2>1, OfLibrary, LibraryConstants
  <2>3. Operates(command, record, vectors, hour')
    BY <2>1, OfLibrary DEF Operates
  <2>4. QED  BY <2>1, <2>2, <2>3, OfLibrary, LibraryPrimed
<1>3. QED  BY <1>1, <1>2

\* Before the first operation nothing is acquired.
LEMMA LibraryFirst ==
  ASSUME LibraryInit
  PROVE  LibraryInv
<1>1. LibraryShapes
  <2>1. 0 \in 0..LastHour /\ 0 \in 0..MaxTampers /\ 0 \in 0..MaxCrashes
    BY LibraryConstants
  <2>2. /\ files \in [Path -> StoredBytes] /\ manifest \in StoredBytes
        /\ vectors \in [bytes : StoredBytes, began : 0..LastHour]
    BY <2>1, LibraryNamed DEF LibraryInit
  <2>3. record \in SourceRecord
    BY <2>1, LibraryNamed DEF LibraryInit, SourceRecord
  <2>4. QED  BY <2>1, <2>2, <2>3, LibraryNamed DEF LibraryInit, LibraryShapes
<1>2. RecordTrue(record, vectors, manifest)
  BY LibraryNamed DEF LibraryInit, RecordTrue
<1>3. Operates(NoCommand, record, vectors, hour)
  BY NothingRuns
<1>4. LibraryKept(NoCommand, files, record, strayed)
  BY LibraryNamed DEF LibraryInit, LibraryKept, Path
<1>5. QED  BY <1>1, <1>2, <1>3, <1>4 DEF LibraryInv, LibraryInit

\* Every step keeps the invariant.
LEMMA LibraryKeeps ==
  ASSUME LibraryInv, [LibraryNext]_libraryVars
  PROVE  LibraryInv'
<1>1. CASE UNCHANGED libraryVars
  BY <1>1, OfLibrary, LibraryPrimed DEF libraryVars
<1>2. CASE LibraryNext
  BY <1>2, ImportSteps, ImportFailsStep, ImportWritesStep, InspectSteps, InspectEndsStep, InspectWritesStep,
     IngestBeginsStep, IngestSteps, MoveLinksStep, MoveUnlinksStep, MoveFails, CommandStops, TimeAndTampering
     DEF LibraryNext
<1>3. QED  BY <1>1, <1>2

\* The inductive invariant of the document library.
THEOREM LibraryInvariant == LibrarySpec => []LibraryInv
<1>1. LibraryInit => LibraryInv
  BY LibraryFirst
<1>2. LibraryInv /\ [LibraryNext]_libraryVars => LibraryInv'
  BY LibraryKeeps
<1>3. QED  BY <1>1, <1>2, PTL DEF LibrarySpec

\* Files, record, index and clock have their columns in every state.
THEOREM LibraryTypes == LibrarySpec => []LibraryTypeOK
<1>1. LibraryInv => LibraryTypeOK
  BY DEF LibraryInv, LibraryShapes, LibraryTypeOK, CommandRow
<1>2. QED  BY <1>1, LibraryInvariant, PTL

\* Recorded bytes stay under a managed name while nobody else takes them, and at the
\* record's path while no process ended; only acquired bytes are indexed, scanned clean
\* no longer than MaxAge before; and an ingested record has them in manifest and index.
THEOREM Documents == LibrarySpec => []DocumentsHold
<1>1. LibraryInv => DocumentsHold
  <2> SUFFICES ASSUME LibraryInv  PROVE DocumentsHold
    OBVIOUS
  <2>1. (tampers = 0 /\ record.hash # NoBytes) => \E p \in Path : files[p] = record.hash
    BY KeptWhere, LibraryNamed
  <2>2. (tampers = 0 /\ ~strayed /\ command = NoCommand /\ record.hash # NoBytes)
          => files[record.path] = record.hash
    BY KeptWhere, LibraryNamed
  <2>3. QED  BY <2>1, <2>2, OfLibrary DEF RecordTrue, DocumentsHold
<1>2. QED  BY <1>1, LibraryInvariant, PTL

-------------------------------------------------------------------------------
(***************************************************************************)
(* OperatorTools                                                           *)
(***************************************************************************)

\* The four tools side by side: the records of the library, of the pages and of the
\* corpus are true of the files at once, and PDFs are extracted whole or not at all.
THEOREM FilesKept == ToolsSpec => []FilesHold
<1>1. ToolsSpec => []DocumentsHold /\ []SnapshotsHold /\ []CorpusHolds /\ []PdfsHold
  BY Documents, Snapshots, CorpusFilesAgree, Pdfs DEF ToolsSpec
<1>2. DocumentsHold /\ SnapshotsHold /\ CorpusHolds /\ PdfsHold => FilesHold
  BY DEF FilesHold
<1>3. QED  BY <1>1, <1>2, PTL
===============================================================================
