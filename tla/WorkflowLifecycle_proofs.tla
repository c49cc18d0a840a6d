----------------------- MODULE WorkflowLifecycle_proofs ----------------------
(***************************************************************************)
(* Proofs about WorkflowLifecycle, for any number of concurrent mutations, *)
(* lookups, versions, procedures, principals and keys and all bounds.      *)
(***************************************************************************)
EXTENDS WorkflowLifecycle, FiniteSetTheorems, TLAPS

(***************************************************************************)
(* The inductive invariant, in parts                                       *)
(***************************************************************************)
\* A mutation in progress has a request, and only a supersede locks twice.
Asked ==
  \A c \in Client :
    /\ client[c].pc # "idle" => client[c].request \in Requests
    /\ client[c].pc = "relocking" => client[c].request.operation = "supersede"

\* A version that exists has a procedure and a creator, another one has nothing.
Rows ==
  \A v \in Version :
    IF Status(v) = "absent" THEN version[v] = Absent
    ELSE version[v].procedure \in Procedure /\ version[v].creator \in Principal

\* A lookup is about a version that exists.
ReadersFound ==
  \A q \in Reader : reader[q].version # NoVersion => Status(reader[q].version) # "absent"

VersionsOf(p) == {v \in Version : version[v].procedure = p}

\* Drafts are numbered without gaps, and one in the making has the next number.
Numbering ==
  /\ \A p \in Procedure : Numbers(p) = 1 .. Cardinality(VersionsOf(p))
  /\ \A c \in Client : Writes(c, "create") =>
       client[c].number = Cardinality(VersionsOf(client[c].request.procedure)) + 1

\* A locked procedure, version or key has one holder, and a locked version exists.
OneWriterPerProcedure ==
  \A c, d \in Client : \A p \in Procedure : HoldsProcedure(c, p) /\ HoldsProcedure(d, p) => c = d

OneHolderPerVersion ==
  \A c, d \in Client : \A v \in Version : HoldsVersion(c, v) /\ HoldsVersion(d, v) => c = d

HeldVersionsExist ==
  \A c \in Client, v \in Version : HoldsVersion(c, v) => Status(v) # "absent"

OneExecutionPerKey ==
  \A c, d \in Client : \A s \in Scope : HoldsKey(c, s) /\ HoldsKey(d, s) => c = d

\* The row of a claimed key, if there is one, had expired at the request's time.
ClaimsAreFresh ==
  \A c \in Client : Executing(c) => ~Live(c)

\* Reviews are of existing versions and not by their creators; what is or was
\* published has an approval by a third principal.
Evidence ==
  \A v \in Version :
    /\ latest[v] # NoReview => Status(v) # "absent" /\ latest[v].by # version[v].creator
    /\ Status(v) \in {"approved", "superseded"} => approval[v] # Nobody
    /\ approval[v] # Nobody =>
         /\ Status(v) \in {"approved", "superseded", "archived"}
         /\ latest[v] # NoReview /\ latest[v].decision = "recommended_for_approval"
         /\ approval[v] \notin {version[v].creator, latest[v].by}
    /\ version[v].successor # NoVersion => Status(v) \in {"superseded", "archived"}

\* A lookup that saw a published version sees its final evidence.
ReadersSee ==
  \A q \in Reader :
    reader[q].read > 0 /\ reader[q].status \in {"approved", "superseded"} =>
      /\ reader[q].version \in Version
      /\ approval[reader[q].version] # Nobody
      /\ reader[q].read > 1 => reader[q].latest = latest[reader[q].version]
      /\ reader[q].read > 2 => reader[q].approval = approval[reader[q].version]

-----------------------------------------------------------------------------
(***************************************************************************)
(* What the types say of one request, mutation, version and lookup         *)
(***************************************************************************)
LEMMA RequestTyped ==
  ASSUME NEW r \in Requests
  PROVE  /\ r.by \in Principal
         /\ r.operation \in Operation
         /\ r.key \in Key \cup {FreshKey}
         /\ r.operation = "create" => r.procedure \in Procedure
         /\ r.operation # "create" => r.version \in Version
         /\ r.operation = "review" => r.decision \in Decision
         /\ r.operation = "supersede" => r.replacement \in Version
         /\ r.operation # "supersede" => r.replacement = NoVersion
         /\ r.key # FreshKey => ScopeOf(r) \in Scope
  BY LifecycleConstants DEF Request, WellFormed, ScopeOf, Scope

\* The same of a mutation ...
LEMMA ClientTyped ==
  ASSUME TypeOK, NEW c \in Client
  PROVE  /\ client[c].pc \in {"idle", "claiming", "waiting", "locking", "relocking", "writing"}
         /\ client[c].request \in Requests \cup {NoRequest}
         /\ client[c].at \in Time
         /\ client[c].number \in 0 .. Cardinality(Version) + 1
  BY DEF TypeOK, ClientState

\* ... and of a version.
LEMMA VersionTyped ==
  ASSUME TypeOK, NEW v \in Version
  PROVE  /\ version[v].status \in {"absent", "draft", "in_review", "approved", "superseded", "archived"}
         /\ version[v].procedure \in Procedure \cup {NoProcedure}
         /\ version[v].number \in 0 .. Cardinality(Version)
         /\ version[v].creator \in Principal \cup {Nobody}
         /\ version[v].successor \in Version \cup {NoVersion}
  BY DEF TypeOK, VersionRow

\* The versions of a procedure can be counted.
LEMMA CountedVersions ==
  /\ Cardinality(Version) \in Nat
  /\ \A p : /\ IsFiniteSet(VersionsOf(p)) /\ Cardinality(VersionsOf(p)) \in Nat
            /\ Cardinality(VersionsOf(p)) <= Cardinality(Version)
<1>1. IsFiniteSet(Version)
  BY LifecycleConstants
<1>2. ASSUME NEW p
      PROVE  /\ IsFiniteSet(VersionsOf(p)) /\ Cardinality(VersionsOf(p)) \in Nat
             /\ Cardinality(VersionsOf(p)) <= Cardinality(Version)
  <2>1. VersionsOf(p) \in SUBSET Version
    BY DEF VersionsOf
  <2> QED
    BY <1>1, <2>1, FS_Subset, FS_CardinalityType
<1> QED
  BY <1>1, <1>2, FS_CardinalityType

\* A mutation that has not begun has the declared shape.
LEMMA IdleTyped == Idle \in ClientState
  BY CountedVersions, LifecycleConstants DEF Idle, ClientState, Time

\* So has a version that does not exist.
LEMMA AbsentTyped == Absent \in VersionRow
  BY CountedVersions DEF Absent, VersionRow
-----------------------------------------------------------------------------
(***************************************************************************)
(* Typing and the numbers of drafts                                        *)
(***************************************************************************)
ShapeInv == TypeOK /\ Asked /\ Rows /\ ReadersFound /\ HeldVersionsExist
              /\ Numbering /\ OneWriterPerProcedure

\* With no gaps so far, the next number is one more than there are versions.
LEMMA NextNumberIsNext ==
  ASSUME ShapeInv, NEW p \in Procedure
  PROVE  /\ NextNumber(p) = Cardinality(VersionsOf(p)) + 1
         /\ NextNumber(p) \in 1 .. Cardinality(Version) + 1
<1> DEFINE n == Cardinality(VersionsOf(p)) + 1
           Fits(m) == m - 1 \in Numbers(p) \cup {0} /\ \A k \in Numbers(p) : k < m
<1>1. Numbers(p) = 1 .. Cardinality(VersionsOf(p))
  BY DEF ShapeInv, Numbering
<1>2. n \in 1 .. Cardinality(Version) + 1
  BY CountedVersions
<1>3. Fits(n)
  BY <1>1, CountedVersions
<1>4. ASSUME NEW m \in 1 .. Cardinality(Version) + 1, Fits(m) PROVE m = n
  BY <1>1, <1>4, CountedVersions
<1>5. NextNumber(p) = CHOOSE m \in 1 .. Cardinality(Version) + 1 : Fits(m)
  BY DEF NextNumber
<1> HIDE DEF n, Fits
<1>6. NextNumber(p) \in 1 .. Cardinality(Version) + 1 /\ Fits(NextNumber(p))
  BY <1>2, <1>3, <1>5
<1> QED
  BY <1>4, <1>6 DEF n

\* A step in which one mutation goes on and nothing is written.
LEMMA ShapeMove ==
  ASSUME ShapeInv, NEW c \in Client, NEW x \in ClientState,
         client' = [client EXCEPT ![c] = x],
         UNCHANGED <<governed, stored, reader, now>>,
         x.pc # "idle" => x.request \in Requests,
         x.pc = "relocking" => x.request.operation = "supersede",
         x.pc = "writing" /\ x.request.operation = "create" =>
           /\ x.number = Cardinality(VersionsOf(x.request.procedure)) + 1
           /\ \A d \in Client \ {c} : ~HoldsProcedure(d, x.request.procedure),
         x.pc \in {"relocking", "writing"} /\ x.request.operation # "create" =>
           Status(x.request.version) # "absent",
         x.pc = "writing" /\ x.request.operation = "supersede" =>
           Status(x.request.replacement) # "absent"
  PROVE  ShapeInv'
<1>1. TypeOK'
  BY DEF ShapeInv, TypeOK, governed
<1>2. \A d \in Client : client'[d] = IF d = c THEN x ELSE client[d]
  BY DEF ShapeInv, TypeOK
<1>3. Asked'
  BY <1>2 DEF ShapeInv, Asked
<1>4. Rows' /\ ReadersFound'
  BY DEF ShapeInv, Rows, ReadersFound, Status, governed
<1>8. HeldVersionsExist'
  <2> SUFFICES ASSUME NEW d \in Client, NEW v \in Version, HoldsVersion(d, v)'
               PROVE  Status(v) # "absent"
    BY DEF HeldVersionsExist, Status, governed
  <2>1. CASE d = c
    <3>1. x.pc # "idle" /\ x.request \in Requests
      BY <1>2, <2>1 DEF HoldsVersion
    <3> QED
      BY <1>2, <2>1, <3>1, RequestTyped, LifecycleConstants DEF HoldsVersion
  <2>2. CASE d # c
    BY <1>2, <2>2 DEF HoldsVersion, ShapeInv, HeldVersionsExist
  <2> QED
    BY <2>1, <2>2
<1>5. \A p : Numbers(p)' = Numbers(p) /\ VersionsOf(p)' = VersionsOf(p)
  BY DEF governed, Numbers, VersionsOf
<1>6. Numbering'
  BY <1>2, <1>5 DEF ShapeInv, Numbering, Writes
<1>7. OneWriterPerProcedure'
  BY <1>2 DEF ShapeInv, OneWriterPerProcedure, HoldsProcedure
<1> QED
  BY <1>1, <1>3, <1>4, <1>6, <1>7, <1>8 DEF ShapeInv

\* A transaction that commits: c is idle again, and the versions keep their
\* procedures and numbers unless they are new.
LEMMA ShapeCommit ==
  ASSUME ShapeInv, NEW c \in Client, TypeOK', Rows', UNCHANGED reader,
         \A v \in Version : version[v].status # "absent" => version'[v].status # "absent",
         client' = [client EXCEPT ![c] = Idle],
         \A p \in Procedure : Numbers(p)' = 1 .. Cardinality(VersionsOf(p)'),
         \A d \in Client \ {c}, p \in Procedure :
           HoldsProcedure(d, p) => VersionsOf(p)' = VersionsOf(p)
  PROVE  ShapeInv'
<1>2. \A d \in Client : client'[d] = IF d = c THEN Idle ELSE client[d]
  BY DEF ShapeInv, TypeOK
<1>3. Asked'
  BY <1>2 DEF ShapeInv, Asked, Idle
<1>4. ReadersFound'
  <2>1. \A q \in Reader : reader[q].version \in Version \cup {NoVersion}
    BY DEF ShapeInv, TypeOK, ReaderState
  <2> QED
    BY <2>1 DEF ShapeInv, ReadersFound, Status
<1>5. HeldVersionsExist'
  BY <1>2 DEF ShapeInv, HeldVersionsExist, HoldsVersion, Status, Idle
<1>6. Numbering'
  <2>1. ASSUME NEW d \in Client, Writes(d, "create")'
        PROVE  client'[d].number = Cardinality(VersionsOf(client[d].request.procedure)') + 1
    <3>1. client'[d] = client[d] /\ d # c
      BY <1>2, <2>1 DEF Writes, Idle
    <3>2. client[d].request.procedure \in Procedure
      BY <2>1, <3>1, RequestTyped DEF Writes, ShapeInv, Asked
    <3>3. VersionsOf(client[d].request.procedure)' = VersionsOf(client[d].request.procedure)
      BY <2>1, <3>1, <3>2 DEF Writes, HoldsProcedure, VersionsOf
    <3> QED
      BY <2>1, <3>1, <3>3 DEF ShapeInv, Numbering, Writes
  <2> QED
    BY <2>1 DEF Numbering
<1>7. OneWriterPerProcedure'
  BY <1>2 DEF ShapeInv, OneWriterPerProcedure, HoldsProcedure, Idle
<1> QED
  BY <1>3, <1>4, <1>5, <1>6, <1>7 DEF ShapeInv

\* What every step that ends a mutation without writing does.
GivesUp(c) ==
  client' = [client EXCEPT ![c] = Idle] /\ UNCHANGED <<governed, stored, reader, now>>

\* The ways in which a mutation ends without writing.
LEMMA Endings ==
  ASSUME NEW c \in Client,
         AnswerFromRow(c) \/ NotFound(c) \/ Refuse(c) \/ DeadlockAborted(c) \/ Crash(c)
  PROVE  GivesUp(c)
  BY DEF AnswerFromRow, NotFound, Refuse, DeadlockAborted, Crash, GivesUp

\* A transition commits, and c is idle again.
LEMMA CommitTyped ==
  ASSUME ShapeInv, NEW c \in Client, NEW v \in Version, client[c].pc = "writing", Completed(c, v)
  PROVE  /\ client' = [client EXCEPT ![c] = Idle]
         /\ client' \in [Client -> ClientState]
         /\ stored' \in [Scope -> StoredRow \cup {NoRow}]
         /\ reader' = reader /\ now' = now
<1> DEFINE r == client[c].request
           row == [request |-> r, version |-> v, expires |-> client[c].at + TTL]
<1>1. r \in Requests
  BY DEF ShapeInv, Asked
<1>2. client[c].at + TTL \in 0 .. MaxTime + TTL
  BY ClientTyped, LifecycleConstants DEF ShapeInv, Time
<1>3. row \in StoredRow
  BY <1>1, <1>2 DEF StoredRow
<1>4. r.key # FreshKey => ScopeOf(r) \in Scope
  BY <1>1, RequestTyped
<1>5. stored' = IF r.key = FreshKey THEN stored ELSE [stored EXCEPT ![ScopeOf(r)] = row]
  BY DEF Completed
<1>6. stored' \in [Scope -> StoredRow \cup {NoRow}]
  BY <1>3, <1>4, <1>5 DEF ShapeInv, TypeOK
<1> QED
  BY <1>6, IdleTyped DEF Completed, ShapeInv, TypeOK

\* A draft gets the next number of its procedure.
LEMMA ShapeCreate ==
  ASSUME ShapeInv, NEW c \in Client, NEW v \in Version, CreateDraft(c, v)
  PROVE  ShapeInv'
<1>0. PICK p \in Procedure : p = client[c].request.procedure
  BY RequestTyped DEF CreateDraft, Writes, ShapeInv, Asked
<1> DEFINE r == client[c].request
           row == [status |-> "draft", procedure |-> p, number |-> client[c].number,
                   creator |-> r.by, successor |-> NoVersion]
<1>1. /\ client[c].pc = "writing" /\ r.operation = "create" /\ version[v] = Absent
      /\ version' = [version EXCEPT ![v] = row]
      /\ UNCHANGED <<latest, newest, approval>> /\ Completed(c, v)
  BY <1>0 DEF CreateDraft, Writes
<1>2. r \in Requests /\ r.by \in Principal
  BY <1>1, RequestTyped DEF ShapeInv, Asked
<1>3. client[c].number = Cardinality(VersionsOf(p)) + 1
  BY <1>0, <1>1 DEF ShapeInv, Numbering, Writes
<1>4. v \notin VersionsOf(p)
  BY <1>1, <1>2, LifecycleConstants DEF VersionsOf, Absent
<1>5. VersionsOf(p)' = VersionsOf(p) \cup {v}
  <2>1. \A u \in Version : version'[u] = IF u = v THEN row ELSE version[u]
    BY <1>1 DEF ShapeInv, TypeOK
  <2>2. \A u \in Version : version'[u].procedure = p <=> u = v \/ version[u].procedure = p
    BY <2>1
  <2> QED
    BY <2>2 DEF VersionsOf
<1>6. Cardinality(VersionsOf(p)') = Cardinality(VersionsOf(p)) + 1
  BY <1>4, <1>5, CountedVersions, FS_AddElement
<1>7. client[c].number \in 0 .. Cardinality(Version)
  <2>1. VersionsOf(p)' \in SUBSET Version
    BY <1>5 DEF VersionsOf
  <2>2. Cardinality(VersionsOf(p)') <= Cardinality(Version)
    BY <2>1, LifecycleConstants, FS_Subset
  <2> QED
    BY <1>3, <1>6, <2>2, CountedVersions
<1>8. row \in VersionRow
  BY <1>2, <1>7 DEF VersionRow
<1>9. TypeOK'
  BY <1>1, <1>8, CommitTyped DEF ShapeInv, TypeOK
<1>10. Rows'
  BY <1>1, <1>2, AbsentTyped DEF ShapeInv, Rows, Status, TypeOK, Absent
<1>11. \A q \in Procedure \ {p} : VersionsOf(q)' = VersionsOf(q) /\ Numbers(q)' = Numbers(q)
  <2>1. NoProcedure \notin Procedure
    BY LifecycleConstants
  <2>2. ASSUME NEW q \in Procedure \ {p}, NEW u \in Version
        PROVE  /\ version'[u].procedure = q <=> version[u].procedure = q
               /\ version[u].procedure = q => version'[u].number = version[u].number
    BY <1>1, <2>1, <2>2 DEF Absent, ShapeInv, TypeOK
  <2> QED
    BY <2>2 DEF VersionsOf, Numbers
<1>12. Numbers(p)' = Numbers(p) \cup {client[c].number}
  <2>1. Numbers(p)' = {version'[u].number : u \in VersionsOf(p) \cup {v}}
    BY <1>5 DEF VersionsOf, Numbers
  <2>2. Numbers(p) = {version[u].number : u \in VersionsOf(p)}
    BY DEF VersionsOf, Numbers
  <2>3. \A u \in VersionsOf(p) : version'[u].number = version[u].number
    BY <1>1, <1>4 DEF ShapeInv, TypeOK
  <2>4. version'[v].number = client[c].number
    BY <1>1 DEF ShapeInv, TypeOK
  <2> QED
    BY <2>1, <2>2, <2>3, <2>4
<1>13. \A q \in Procedure : Numbers(q)' = 1 .. Cardinality(VersionsOf(q)')
  <2>1. Numbers(p)' = 1 .. Cardinality(VersionsOf(p)')
    BY <1>2, <1>3, <1>6, <1>12, CountedVersions DEF ShapeInv, Numbering
  <2>2. ASSUME NEW q \in Procedure, q # p PROVE Numbers(q)' = 1 .. Cardinality(VersionsOf(q)')
    BY <1>11, <2>2 DEF ShapeInv, Numbering
  <2> QED
    BY <2>1, <2>2
<1>14. ASSUME NEW d \in Client \ {c}, NEW q \in Procedure, HoldsProcedure(d, q)
       PROVE  VersionsOf(q)' = VersionsOf(q)
  <2>1. HoldsProcedure(c, p)
    BY <1>0, <1>1 DEF HoldsProcedure
  <2>2. q # p
    BY <1>2, <1>14, <2>1 DEF ShapeInv, OneWriterPerProcedure
  <2> QED
    BY <1>11, <2>2
<1>15. \A u \in Version : version[u].status # "absent" => version'[u].status # "absent"
  BY <1>1 DEF ShapeInv, TypeOK
<1> QED
  BY <1>1, <1>9, <1>10, <1>13, <1>14, <1>15, ShapeCommit, CommitTyped

\* The other transitions keep every version's procedure, number and creator.
LEMMA ShapeTransition ==
  ASSUME ShapeInv, NEW c \in Client, NEW u \in Version,
         client[c].pc = "writing", Completed(c, u),
         version' \in [Version -> VersionRow],
         latest' \in [Version -> Review \cup {NoReview}],
         newest' \in [Version -> Review \cup {NoReview}],
         approval' \in [Version -> Principal \cup {Nobody}],
         \A v \in Version :
           /\ version'[v].procedure = version[v].procedure
           /\ version'[v].number = version[v].number
           /\ version'[v].creator = version[v].creator
           /\ version'[v] # version[v] =>
                version[v].status # "absent" /\ version'[v].status # "absent"
  PROVE  ShapeInv'
<1>1. Rows'
  BY DEF ShapeInv, Rows, Status
<1>2. ASSUME NEW p PROVE VersionsOf(p)' = VersionsOf(p) /\ Numbers(p)' = Numbers(p)
  <2>1. VersionsOf(p)' = VersionsOf(p)
    BY DEF VersionsOf
  <2>2. Numbers(p) = {version[v].number : v \in VersionsOf(p)}
    BY DEF Numbers, VersionsOf
  <2>3. Numbers(p)' = {version'[v].number : v \in VersionsOf(p)}
    BY <2>1 DEF Numbers, VersionsOf
  <2> QED
    BY <2>1, <2>2, <2>3 DEF VersionsOf
<1>3. \A p \in Procedure : Numbers(p)' = 1 .. Cardinality(VersionsOf(p)')
  BY <1>2 DEF ShapeInv, Numbering
<1>4. TypeOK' /\ client' = [client EXCEPT ![c] = Idle] /\ UNCHANGED reader
  BY CommitTyped DEF ShapeInv, TypeOK
<1> QED
  BY <1>1, <1>2, <1>3, <1>4, ShapeCommit

\* Who writes has a well-formed request, and names versions that can exist.
LEMMA Writer ==
  ASSUME ShapeInv, NEW c \in Client, client[c].pc # "idle"
  PROVE  /\ client[c].request \in Requests
         /\ client[c].request \in Request
         /\ WellFormed(client[c].request)
  BY LifecycleConstants DEF ShapeInv, Asked

\* What each transition finds and writes, row by row.
LEMMA SubmitWrites ==
  ASSUME ShapeInv, NEW c \in Client, SubmitForReview(c)
  PROVE  \E r \in Requests :
           /\ r = client[c].request /\ r.version \in Version
           /\ HoldsVersion(c, r.version) /\ Completed(c, r.version)
           /\ version[r.version].status = "draft"
           /\ version' = [version EXCEPT ![r.version] =
                            [version[r.version] EXCEPT !.status = "in_review"]]
           /\ UNCHANGED <<latest, newest, approval>>
<1>1. client[c].pc = "writing" /\ client[c].request.operation = "submit"
  BY DEF SubmitForReview, Writes
<1>2. client[c].request \in Requests /\ client[c].request.version \in Version
  BY <1>1, Writer, RequestTyped
<1>3. HoldsVersion(c, client[c].request.version)
  BY <1>1, <1>2, LifecycleConstants DEF HoldsVersion
<1> QED
  BY <1>2, <1>3 DEF SubmitForReview, MaySubmit

\* What a committed review writes, and under which lock (recordReview).
LEMMA ReviewWrites ==
  ASSUME ShapeInv, NEW c \in Client, RecordReview(c)
  PROVE  \E r \in Requests : \E new \in Review : \E row \in Latest(latest[r.version], new) :
           /\ r = client[c].request /\ r.version \in Version
           /\ HoldsVersion(c, r.version) /\ Completed(c, r.version)
           /\ version[r.version].status = "in_review"
           /\ new.by = r.by /\ r.by # version[r.version].creator
           /\ newest' = [newest EXCEPT ![r.version] = new]
           /\ latest' = [latest EXCEPT ![r.version] = row]
           /\ version' = [version EXCEPT ![r.version] =
                            [version[r.version] EXCEPT !.status =
                              IF r.decision = "changes_requested" THEN "draft" ELSE "in_review"]]
           /\ UNCHANGED approval
<1>1. client[c].pc = "writing" /\ client[c].request.operation = "review"
  BY DEF RecordReview, Writes
<1>2. /\ client[c].request \in Requests /\ client[c].request.version \in Version
      /\ client[c].request.by \in Principal /\ client[c].request.decision \in Decision
      /\ client[c].at \in Time
  BY <1>1, Writer, RequestTyped, ClientTyped DEF ShapeInv
<1>3. HoldsVersion(c, client[c].request.version)
  BY <1>1, <1>2, LifecycleConstants DEF HoldsVersion
<1>4. [by |-> client[c].request.by, decision |-> client[c].request.decision, at |-> client[c].at]
         \in Review
  BY <1>2 DEF Review
<1> QED
  BY <1>2, <1>3, <1>4 DEF RecordReview, MayReview

\* The same of an approval: the approver had the evidence (approve).
LEMMA ApproveWrites ==
  ASSUME ShapeInv, NEW c \in Client, Approve(c)
  PROVE  \E r \in Requests :
           /\ r = client[c].request /\ r.version \in Version /\ r.by \in Principal
           /\ HoldsVersion(c, r.version) /\ Completed(c, r.version)
           /\ Approvable(r.version, r.by) /\ NoOtherApproved(r.version)
           /\ version' = [version EXCEPT ![r.version] =
                            [version[r.version] EXCEPT !.status = "approved"]]
           /\ approval' = [approval EXCEPT ![r.version] = r.by]
           /\ UNCHANGED <<latest, newest>>
<1>1. client[c].pc = "writing" /\ client[c].request.operation = "approve"
  BY DEF Approve, Writes
<1>2. /\ client[c].request \in Requests /\ client[c].request.version \in Version
      /\ client[c].request.by \in Principal
  BY <1>1, Writer, RequestTyped
<1>3. HoldsVersion(c, client[c].request.version)
  BY <1>1, <1>2, LifecycleConstants DEF HoldsVersion
<1> QED
  BY <1>2, <1>3 DEF Approve, MayApprove

\* The same of a supersession, which holds both versions (supersede).
LEMMA SupersedeWrites ==
  ASSUME ShapeInv, NEW c \in Client, Supersede(c)
  PROVE  \E r \in Requests :
           /\ r = client[c].request /\ r.version \in Version /\ r.replacement \in Version
           /\ r.by \in Principal
           /\ HoldsVersion(c, r.version) /\ HoldsVersion(c, r.replacement)
           /\ Completed(c, r.version)
           /\ version[r.version].status = "approved" /\ r.replacement # r.version
           /\ version[r.replacement].procedure = version[r.version].procedure
           /\ Approvable(r.replacement, r.by)
           /\ version' = [v \in Version |->
                 IF v = r.version
                 THEN [version[v] EXCEPT !.status = "superseded", !.successor = r.replacement]
                 ELSE IF v = r.replacement THEN [version[v] EXCEPT !.status = "approved"]
                 ELSE version[v]]
           /\ approval' = [approval EXCEPT ![r.replacement] = r.by]
           /\ UNCHANGED <<latest, newest>>
<1>1. client[c].pc = "writing" /\ client[c].request.operation = "supersede"
  BY DEF Supersede, Writes
<1>2. PICK r \in Requests :
        /\ r = client[c].request /\ r.version \in Version /\ r.replacement \in Version
        /\ r.by \in Principal
  BY <1>1, Writer, RequestTyped
<1>3. HoldsVersion(c, r.version) /\ HoldsVersion(c, r.replacement)
  BY <1>1, <1>2, LifecycleConstants DEF HoldsVersion
<1>4. MaySupersede(r) /\ Completed(c, r.version)
  BY <1>2 DEF Supersede
<1>5. version' = [version EXCEPT ![r.version].status = "superseded",
                                 ![r.version].successor = r.replacement,
                                 ![r.replacement].status = "approved"]
  BY <1>2 DEF Supersede
<1>6. version \in [Version -> VersionRow]
  BY DEF ShapeInv, TypeOK
<1>7. version' = [v \in Version |->
                 IF v = r.version
                 THEN [version[v] EXCEPT !.status = "superseded", !.successor = r.replacement]
                 ELSE IF v = r.replacement THEN [version[v] EXCEPT !.status = "approved"]
                 ELSE version[v]]
  BY <1>2, <1>4, <1>5, <1>6 DEF MaySupersede, VersionRow
<1> QED
  BY <1>2, <1>3, <1>4, <1>7 DEF Supersede, MaySupersede

\* The same of archiving (archive).
LEMMA ArchiveWrites ==
  ASSUME ShapeInv, NEW c \in Client, Archive(c)
  PROVE  \E r \in Requests :
           /\ r = client[c].request /\ r.version \in Version
           /\ HoldsVersion(c, r.version) /\ Completed(c, r.version)
           /\ version[r.version].status \notin {"archived", "absent"}
           /\ version' = [version EXCEPT ![r.version] =
                            [version[r.version] EXCEPT !.status = "archived"]]
           /\ UNCHANGED <<latest, newest, approval>>
<1>1. client[c].pc = "writing" /\ client[c].request.operation = "archive"
  BY DEF Archive, Writes
<1>2. client[c].request \in Requests /\ client[c].request.version \in Version
  BY <1>1, Writer, RequestTyped
<1>3. HoldsVersion(c, client[c].request.version)
  BY <1>1, <1>2, LifecycleConstants DEF HoldsVersion
<1>4. version[client[c].request.version].status # "absent"
  BY <1>2, <1>3 DEF ShapeInv, HeldVersionsExist, Status
<1> QED
  BY <1>2, <1>3, <1>4 DEF Archive, MayArchive

\* Every step keeps the shape of rows and local states, and the numbering.
LEMMA ShapeStep ==
  ASSUME ShapeInv, [Next]_vars
  PROVE  ShapeInv'
<1> USE DEF ShapeInv
<1>1. ASSUME NEW c \in Client, NEW r \in Requests, Arrive(c, r) PROVE ShapeInv'
  <2> DEFINE x == [Idle EXCEPT !.pc = "claiming", !.request = r, !.at = now]
  <2>1. x \in ClientState /\ x.pc = "claiming" /\ x.request = r
    BY IdleTyped DEF Idle, ClientState, TypeOK
  <2> QED
    BY <1>1, <2>1, ShapeMove DEF Arrive
<1>2. ASSUME NEW c \in Client, NEW pc \in {"waiting", "locking"},
             client[c].pc # "idle", client' = [client EXCEPT ![c].pc = pc],
             UNCHANGED <<governed, stored, reader, now>>
      PROVE  ShapeInv'
  <2> DEFINE x == [client[c] EXCEPT !.pc = pc]
  <2>1. x \in ClientState /\ x.pc = pc /\ x.request = client[c].request
    BY DEF ClientState, TypeOK
  <2>2. client' = [client EXCEPT ![c] = x]
    BY <1>2
  <2> HIDE DEF x
  <2> QED
    BY <1>2, <2>1, <2>2, Writer, ShapeMove
<1>3. ASSUME NEW c \in Client, AwaitKey(c) \/ Claim(c) PROVE ShapeInv'
  BY <1>2, <1>3 DEF AwaitKey, Claim
<1>4. ASSUME NEW c \in Client, GivesUp(c) PROVE ShapeInv'
  BY <1>4, IdleTyped, ShapeMove DEF GivesUp, Idle
<1>5. ASSUME NEW c \in Client, LockProcedure(c) PROVE ShapeInv'
  <2> DEFINE x == [client[c] EXCEPT !.pc = "writing",
                                    !.number = NextNumber(client[c].request.procedure)]
  <2>1. /\ client[c].request \in Requests /\ client[c].request.procedure \in Procedure
        /\ client[c].request.operation = "create"
    BY <1>5, RequestTyped DEF LockProcedure, Asked
  <2>2. /\ NextNumber(client[c].request.procedure)
             = Cardinality(VersionsOf(client[c].request.procedure)) + 1
        /\ NextNumber(client[c].request.procedure) \in 0 .. Cardinality(Version) + 1
    BY <2>1, NextNumberIsNext
  <2>3. /\ x \in ClientState /\ x.pc = "writing" /\ x.request = client[c].request
        /\ x.number = NextNumber(client[c].request.procedure)
    BY <2>2 DEF ClientState, TypeOK
  <2>4. client' = [client EXCEPT ![c] = x] /\ UNCHANGED <<governed, stored, reader, now>>
    BY <1>5 DEF LockProcedure
  <2>5. \A d \in Client \ {c} : ~HoldsProcedure(d, client[c].request.procedure)
    BY <1>5 DEF LockProcedure, ProcedureTaken
  <2> HIDE DEF x
  <2> QED
    BY <2>1, <2>2, <2>3, <2>4, <2>5, ShapeMove
<1>6. ASSUME NEW c \in Client, LockVersion(c) \/ LockReplacement(c) PROVE ShapeInv'
  <2>1. PICK pc \in {"relocking", "writing"} :
          /\ client' = [client EXCEPT ![c].pc = pc]
          /\ client[c].pc # "idle" /\ client[c].request.operation # "create"
          /\ pc = "relocking" => client[c].request.operation = "supersede"
          /\ LockVersion(c) /\ client[c].request.operation = "supersede" => pc = "relocking"
    BY <1>6 DEF LockVersion, LockReplacement, Asked
  <2> DEFINE x == [client[c] EXCEPT !.pc = pc]
  <2>2. x \in ClientState /\ x.pc = pc /\ x.request = client[c].request
    BY DEF ClientState, TypeOK
  <2>3. client' = [client EXCEPT ![c] = x] /\ UNCHANGED <<governed, stored, reader, now>>
    BY <1>6, <2>1 DEF LockVersion, LockReplacement
  <2>4. client[c].request \in Requests /\ client[c].request.version \in Version
    BY <2>1, Writer, RequestTyped
  <2>5. /\ Status(client[c].request.version) # "absent"
        /\ pc = "writing" /\ client[c].request.operation = "supersede" =>
             Status(client[c].request.replacement) # "absent"
    <3>1. CASE LockVersion(c)
      BY <2>1, <2>4, <3>1 DEF LockVersion, Rows, Status
    <3>2. CASE LockReplacement(c)
      <4>1. HoldsVersion(c, client[c].request.version)
        BY <2>1, <2>4, <3>2, LifecycleConstants DEF LockReplacement, HoldsVersion
      <4>2. client[c].request.replacement \in Version
        BY <2>4, <3>2, RequestTyped DEF LockReplacement, Asked
      <4> QED
        BY <2>4, <3>2, <4>1, <4>2 DEF LockReplacement, HeldVersionsExist, Rows, Status
    <3> QED
      BY <1>6, <3>1, <3>2
  <2> HIDE DEF x
  <2> QED
    BY <2>1, <2>2, <2>3, <2>4, <2>5, ShapeMove, ZenonT(60)
<1>7. ASSUME NEW c \in Client, NEW v \in Version, CreateDraft(c, v) PROVE ShapeInv'
  BY <1>7, ShapeCreate
<1>8. ASSUME NEW c \in Client,
             SubmitForReview(c) \/ RecordReview(c) \/ Approve(c) \/ Supersede(c) \/ Archive(c)
      PROVE  ShapeInv'
  <2>1. client[c].pc = "writing"
    BY <1>8 DEF SubmitForReview, RecordReview, Approve, Supersede, Archive, Writes
  <2>2. ASSUME NEW v \in Version,
               NEW status \in {"absent", "draft", "in_review", "approved", "superseded", "archived"}
        PROVE  LET row == [version[v] EXCEPT !.status = status]
               IN  /\ row \in VersionRow /\ row.status = status
                   /\ row.procedure = version[v].procedure /\ row.number = version[v].number
                   /\ row.creator = version[v].creator
    BY DEF TypeOK, VersionRow
  <2>3. CASE SubmitForReview(c)
    <3>1. PICK r \in Requests :
            /\ r.version \in Version /\ Completed(c, r.version)
            /\ version[r.version].status = "draft"
            /\ version' = [version EXCEPT ![r.version] =
                             [version[r.version] EXCEPT !.status = "in_review"]]
            /\ UNCHANGED <<latest, newest, approval>>
      BY <2>3, SubmitWrites
    <3>2. version' \in [Version -> VersionRow]
      BY <2>2, <3>1 DEF TypeOK
    <3>3. \A v \in Version : version'[v] =
            IF v = r.version THEN [version[v] EXCEPT !.status = "in_review"] ELSE version[v]
      BY <3>1 DEF TypeOK
    <3>4. \A v \in Version :
           /\ version'[v].procedure = version[v].procedure
           /\ version'[v].number = version[v].number
           /\ version'[v].creator = version[v].creator
           /\ version'[v] # version[v] =>
                version[v].status # "absent" /\ version'[v].status # "absent"
      BY <2>2, <3>1, <3>3
    <3> QED
      BY <2>1, <3>1, <3>2, <3>4, ShapeTransition DEF TypeOK
  <2>4. CASE RecordReview(c)
    <3>1. PICK r \in Requests, new \in Review, row \in Review \cup {NoReview} :
            /\ r.version \in Version /\ Completed(c, r.version)
            /\ version[r.version].status = "in_review"
            /\ newest' = [newest EXCEPT ![r.version] = new]
            /\ latest' = [latest EXCEPT ![r.version] = row]
            /\ version' = [version EXCEPT ![r.version] =
                             [version[r.version] EXCEPT !.status =
                               IF r.decision = "changes_requested" THEN "draft" ELSE "in_review"]]
            /\ UNCHANGED approval
      <4>1. \A old \in Review \cup {NoReview}, new \in Review :
              \A row \in Latest(old, new) : row \in Review \cup {NoReview}
        BY DEF Latest
      <4> QED
        BY <2>4, <4>1, ReviewWrites DEF TypeOK
    <3> DEFINE status == IF r.decision = "changes_requested" THEN "draft" ELSE "in_review"
    <3>2. status \in {"draft", "in_review"}
      OBVIOUS
    <3>3. version' = [version EXCEPT ![r.version] = [version[r.version] EXCEPT !.status = status]]
      BY <3>1
    <3> HIDE DEF status
    <3>4. version' \in [Version -> VersionRow]
      BY <2>2, <3>1, <3>2, <3>3, ZenonT(60) DEF TypeOK
    <3>5. \A v \in Version : version'[v] =
            IF v = r.version THEN [version[v] EXCEPT !.status = status] ELSE version[v]
      BY <3>1, <3>3 DEF TypeOK
    <3>6. /\ latest' \in [Version -> Review \cup {NoReview}]
          /\ newest' \in [Version -> Review \cup {NoReview}]
          /\ approval' \in [Version -> Principal \cup {Nobody}]
      BY <3>1 DEF TypeOK
    <3>7. \A v \in Version :
           /\ version'[v].procedure = version[v].procedure
           /\ version'[v].number = version[v].number
           /\ version'[v].creator = version[v].creator
           /\ version'[v] # version[v] =>
                version[v].status # "absent" /\ version'[v].status # "absent"
      BY <2>2, <3>1, <3>2, <3>5, SMTT(30)
    <3> QED
      BY <2>1, <3>1, <3>4, <3>6, <3>7, ShapeTransition
  <2>5. CASE Approve(c)
    <3>1. PICK r \in Requests :
            /\ r.version \in Version /\ r.by \in Principal /\ Completed(c, r.version)
            /\ version[r.version].status = "in_review"
            /\ version' = [version EXCEPT ![r.version] =
                             [version[r.version] EXCEPT !.status = "approved"]]
            /\ approval' = [approval EXCEPT ![r.version] = r.by]
            /\ UNCHANGED <<latest, newest>>
      BY <2>5, ApproveWrites DEF Approvable
    <3> QED
      BY <2>1, <2>2, <3>1, ShapeTransition, ZenonT(60) DEF TypeOK
  <2>6. CASE Supersede(c)
    <3>1. PICK r \in Requests :
            /\ r.version \in Version /\ r.replacement \in Version /\ r.by \in Principal
            /\ Completed(c, r.version)
            /\ version[r.version].status = "approved"
            /\ version[r.replacement].status = "in_review"
            /\ version' = [v \in Version |->
                  IF v = r.version
                  THEN [version[v] EXCEPT !.status = "superseded", !.successor = r.replacement]
                  ELSE IF v = r.replacement THEN [version[v] EXCEPT !.status = "approved"]
                  ELSE version[v]]
            /\ approval' = [approval EXCEPT ![r.replacement] = r.by]
            /\ UNCHANGED <<latest, newest>>
      BY <2>6, SupersedeWrites DEF Approvable
    <3> DEFINE row == [version[r.version] EXCEPT !.status = "superseded",
                                                 !.successor = r.replacement]
    <3>2. /\ row \in VersionRow /\ row.status = "superseded"
          /\ row.procedure = version[r.version].procedure
          /\ row.number = version[r.version].number
          /\ row.creator = version[r.version].creator
      BY <3>1 DEF TypeOK, VersionRow
    <3>3. \A v \in Version : version'[v] =
            IF v = r.version THEN row
            ELSE IF v = r.replacement THEN [version[v] EXCEPT !.status = "approved"]
            ELSE version[v]
      BY <3>1
    <3> HIDE DEF row
    <3>4. version' \in [Version -> VersionRow]
      BY <2>2, <3>1, <3>2, <3>3 DEF TypeOK
    <3>5. approval' \in [Version -> Principal \cup {Nobody}]
      BY <3>1 DEF TypeOK
    <3>6. \A v \in Version :
           /\ version'[v].procedure = version[v].procedure
           /\ version'[v].number = version[v].number
           /\ version'[v].creator = version[v].creator
           /\ version'[v] # version[v] =>
                version[v].status # "absent" /\ version'[v].status # "absent"
      BY <2>2, <3>1, <3>2, <3>3, ZenonT(60)
    <3> QED
      BY <2>1, <3>1, <3>4, <3>5, <3>6, ShapeTransition DEF TypeOK
  <2>7. CASE Archive(c)
    <3>1. PICK r \in Requests :
            /\ r.version \in Version /\ Completed(c, r.version)
            /\ version[r.version].status # "absent"
            /\ version' = [version EXCEPT ![r.version] =
                             [version[r.version] EXCEPT !.status = "archived"]]
            /\ UNCHANGED <<latest, newest, approval>>
      BY <2>7, ArchiveWrites
    <3> QED
      BY <2>1, <2>2, <3>1, ShapeTransition, ZenonT(60) DEF TypeOK
  <2> QED
    BY <1>8, <2>3, <2>4, <2>5, <2>6, <2>7
<1>9. ASSUME TypeOK', ReadersFound', UNCHANGED <<governed, client>> PROVE ShapeInv'
  BY <1>9 DEF HeldVersionsExist, HoldsVersion, governed, Asked, Rows, Status, Numbering, Numbers, VersionsOf, Writes,
              OneWriterPerProcedure, HoldsProcedure
<1>10. ASSUME NEW q \in Reader, Read(q) PROVE ShapeInv'
  <2>1. ASSUME NEW v \in Version, StartRead(q, v)
        PROVE  TypeOK' /\ ReadersFound' /\ UNCHANGED <<governed, client>>
    <3>1. Status(v) # "absent"
      BY <2>1 DEF StartRead, Rows
    <3> QED
      BY <2>1, <3>1 DEF StartRead, TypeOK, ReaderState, governed, ReadersFound, Status
  <2>2. ASSUME ReadStatement(q)
        PROVE  TypeOK' /\ ReadersFound' /\ UNCHANGED <<governed, client>>
    <3> DEFINE v == reader[q].version
               next == ReadOrder[reader[q].read + 1]
               x == [reader[q] EXCEPT !.read = reader[q].read + 1,
                       !.status = IF next = "version" THEN version[v].status ELSE @,
                       !.latest = IF next = "review" THEN latest[v] ELSE @,
                       !.approval = IF next = "approval" THEN approval[v] ELSE @]
    <3>1. v \in Version /\ reader[q].read \in 0 .. 3 /\ reader[q].read < 3
      BY <2>2 DEF ReadStatement, TypeOK, ReaderState
    <3>2. version[v].status \in {"draft", "in_review", "approved", "superseded", "archived"}
      BY <3>1, VersionTyped, LifecycleConstants DEF ReadersFound, Status
    <3>3. latest[v] \in Review \cup {NoReview} /\ approval[v] \in Principal \cup {Nobody}
      BY <3>1 DEF TypeOK
    <3>4. reader[q] \in ReaderState
      BY DEF TypeOK
    <3>5. reader' = [reader EXCEPT ![q] = x] /\ UNCHANGED <<governed, stored, client, now>>
      BY <2>2, <3>4 DEF ReadStatement, ReaderState
    <3>6. x \in ReaderState /\ x.version = v
      <4>1. x.version = v /\ x.read \in 0 .. 3
        BY <3>1, <3>4 DEF ReaderState
      <4>2. next = "version" \/ next # "version"
        OBVIOUS
      <4> HIDE DEF next, v
      <4> QED
        BY <3>1, <3>2, <3>3, <3>4, <4>1, ZenonT(60) DEF ReaderState
    <3> HIDE DEF x
    <3>7. TypeOK'
      BY <3>5, <3>6 DEF TypeOK, governed
    <3>8. ReadersFound'
      BY <3>5, <3>6 DEF TypeOK, governed, ReadersFound, Status
    <3> QED
      BY <3>5, <3>7, <3>8
  <2>3. TypeOK' /\ ReadersFound' /\ UNCHANGED <<governed, client>>
    BY <1>10, <2>1, <2>2 DEF Read
  <2> QED
    BY <1>9, <2>3
<1>11. CASE Tick
  <2>1. TypeOK'
    BY <1>11, LifecycleConstants DEF Tick, TypeOK, Time, governed
  <2>2. ReadersFound' /\ UNCHANGED <<governed, client>>
    BY <1>11 DEF Tick, governed, ReadersFound, Status
  <2> QED
    BY <1>9, <2>1, <2>2
<1>12. CASE UNCHANGED vars
  BY <1>9, <1>12 DEF vars, TypeOK, governed, ReadersFound, Status
<1> QED
  BY <1>1, <1>3, <1>4, <1>5, <1>6, <1>7, <1>8, <1>10, <1>11, <1>12, Endings
  DEF Next, Proceed, Lock, Write

\* Every state of the lifecycle tables, of the running mutations and of the
\* lookups has the declared shape, and drafts are numbered without gaps.
THEOREM Typing == Spec => []ShapeInv
<1>1. Init => ShapeInv
  <2> SUFFICES ASSUME Init PROVE ShapeInv
    OBVIOUS
  <2>1. TypeOK
    <3>1. Unread \in ReaderState /\ 0 \in Time
      BY LifecycleConstants DEF Unread, ReaderState, Time
    <3> QED
      BY <3>1, IdleTyped, AbsentTyped DEF Init, TypeOK
  <2>2. Asked /\ Rows /\ ReadersFound /\ HeldVersionsExist /\ OneWriterPerProcedure
    BY DEF Init, Asked, Rows, Status, ReadersFound, HeldVersionsExist, HoldsVersion,
           OneWriterPerProcedure, HoldsProcedure, Idle, Absent, Unread
  <2>3. \A p \in Procedure : VersionsOf(p) = {} /\ Numbers(p) = {}
    BY LifecycleConstants DEF Init, VersionsOf, Numbers, Absent
  <2>4. Numbering
    <3>1. Cardinality({}) = 0
      BY FS_EmptySet
    <3>2. \A p \in Procedure : Numbers(p) = 1 .. Cardinality(VersionsOf(p))
      <4>1. ASSUME NEW p \in Procedure PROVE Numbers(p) = 1 .. Cardinality(VersionsOf(p))
        <5>1. VersionsOf(p) = {} /\ Numbers(p) = {}
          BY <2>3
        <5>2. Cardinality(VersionsOf(p)) = 0
          BY <3>1, <5>1
        <5>3. 1 .. 0 = {}
          OBVIOUS
        <5> QED
          BY <5>1, <5>2, <5>3
      <4> QED
        BY <4>1
    <3>3. \A c \in Client : ~Writes(c, "create")
      BY DEF Init, Writes, Idle
    <3> QED
      BY <3>2, <3>3 DEF Numbering
  <2> QED
    BY <2>1, <2>2, <2>4 DEF ShapeInv
<1>2. ShapeInv /\ [Next]_vars => ShapeInv'
  BY ShapeStep
<1> QED
  BY <1>1, <1>2, PTL DEF Spec

\* The type invariant that the runs check.
THEOREM Types == Spec => []TypeOK
  BY Typing, PTL DEF ShapeInv
-----------------------------------------------------------------------------
(***************************************************************************)
(* Row locks and keys: what a transaction may rely on                      *)
(***************************************************************************)
LockInv == OneHolderPerVersion /\ OneExecutionPerKey /\ ClaimsAreFresh

\* A step of one mutation that acquires only what nobody else has.
LEMMA LockMove ==
  ASSUME ShapeInv, LockInv, NEW c \in Client, NEW x, client' = [client EXCEPT ![c] = x],
         \A v \in Version : HoldsVersion(c, v)' => HoldsVersion(c, v) \/ ~VersionTaken(c, v),
         \A s \in Scope : HoldsKey(c, s)' =>
           HoldsKey(c, s) \/ \A d \in Client \ {c} : ~HoldsKey(d, s),
         \A d \in Client : Executing(d)' => ~Live(d)'
  PROVE  LockInv'
<1>1. \A d \in Client \ {c} : client'[d] = client[d]
  BY DEF ShapeInv, TypeOK
<1>2. \A d \in Client \ {c} : /\ \A v \in Version : HoldsVersion(d, v)' <=> HoldsVersion(d, v)
                              /\ \A s \in Scope : HoldsKey(d, s)' <=> HoldsKey(d, s)
  BY <1>1 DEF HoldsVersion, HoldsKey, Executing
<1>3. OneHolderPerVersion'
  BY <1>2 DEF LockInv, OneHolderPerVersion, VersionTaken
<1>4. OneExecutionPerKey'
  BY <1>2 DEF LockInv, OneExecutionPerKey
<1> QED
  BY <1>3, <1>4 DEF LockInv, ClaimsAreFresh

\* The transaction of c ends: it holds nothing, and the claims of the others
\* are as fresh as they were.
LEMMA LockEnd ==
  ASSUME ShapeInv, LockInv, NEW c \in Client, client' = [client EXCEPT ![c] = Idle],
         \A d \in Client \ {c} : Executing(d) => ~Live(d)'
  PROVE  LockInv'
<1>1. client'[c] = Idle /\ \A d \in Client \ {c} : client'[d] = client[d]
  BY DEF ShapeInv, TypeOK
<1>2. /\ \A v \in Version : ~HoldsVersion(c, v)'
      /\ \A s \in Scope : ~HoldsKey(c, s)'
      /\ ~Executing(c)'
  BY <1>1 DEF HoldsVersion, HoldsKey, Executing, Idle
<1>3. \A d \in Client : Executing(d)' => ~Live(d)'
  BY <1>1, <1>2 DEF Executing
<1> QED
  BY <1>2, <1>3, LockMove

\* A commit writes the row of its own key only.
LEMMA LockCommit ==
  ASSUME ShapeInv, LockInv, NEW c \in Client, NEW v \in Version, client[c].pc = "writing",
         Completed(c, v)
  PROVE  LockInv'
<1> DEFINE row == [request |-> client[c].request, version |-> v, expires |-> client[c].at + TTL]
<1>1. client' = [client EXCEPT ![c] = Idle]
  BY DEF Completed
<1>2. stored' = IF client[c].request.key = FreshKey THEN stored
                ELSE [stored EXCEPT ![ScopeOf(client[c].request)] = row]
  BY DEF Completed
<1> HIDE DEF row
<1>3. ASSUME NEW d \in Client \ {c}, Executing(d) PROVE ~Live(d)'
  <2>1. client'[d] = client[d]
    BY <1>1 DEF ShapeInv, TypeOK
  <2>2. ~Live(d)
    BY <1>3 DEF LockInv, ClaimsAreFresh
  <2>3. CASE client[d].request.key = FreshKey
    BY <2>1, <2>3 DEF Live
  <2>4. CASE client[d].request.key # FreshKey
    <3>1. client[d].request \in Requests /\ client[c].request \in Requests
      BY <1>3, Writer DEF Executing
    <3>2. ScopeOf(client[d].request) \in Scope
      BY <2>4, <3>1, RequestTyped
    <3>3. HoldsKey(d, ScopeOf(client[d].request))
      BY <1>3, <2>4 DEF HoldsKey
    <3>4. client[c].request.key # FreshKey => HoldsKey(c, ScopeOf(client[c].request))
      BY DEF HoldsKey, Executing
    <3>5. client[c].request.key # FreshKey =>
            ScopeOf(client[c].request) # ScopeOf(client[d].request)
      BY <3>2, <3>3, <3>4 DEF LockInv, OneExecutionPerKey
    <3>6. stored'[ScopeOf(client[d].request)] = stored[ScopeOf(client[d].request)]
      BY <1>2, <3>2, <3>5 DEF ShapeInv, TypeOK
    <3>7. ScopeOf(client[d].request)' = ScopeOf(client[d].request)
      BY <2>1 DEF ScopeOf
    <3> QED
      BY <2>1, <2>2, <3>6, <3>7 DEF Live
  <2> QED
    BY <2>3, <2>4
<1> QED
  BY <1>1, <1>3, LockEnd

\* Every step leaves a version and a key with one transaction.
LEMMA LockStep ==
  ASSUME ShapeInv, LockInv, [Next]_vars
  PROVE  LockInv'
<1>1. ASSUME NEW c \in Client, NEW r \in Requests, Arrive(c, r) PROVE LockInv'
  <2> DEFINE x == [Idle EXCEPT !.pc = "claiming", !.request = r, !.at = now]
  <2>1. x.pc = "claiming"
    BY DEF Idle
  <2>2. client' = [client EXCEPT ![c] = x] /\ UNCHANGED stored
    BY <1>1 DEF Arrive
  <2> HIDE DEF x
  <2>3. client'[c] = x /\ \A d \in Client \ {c} : client'[d] = client[d]
    BY <2>2 DEF ShapeInv, TypeOK
  <2>4. ~Executing(c)' /\ \A v \in Version : ~HoldsVersion(c, v)'
    BY <2>1, <2>3 DEF Executing, HoldsVersion
  <2>5. \A d \in Client : Executing(d)' => ~Live(d)'
    BY <2>2, <2>3, <2>4 DEF LockInv, ClaimsAreFresh, Executing, Live
  <2> QED
    BY <2>2, <2>4, <2>5, LockMove DEF HoldsKey
<1>2. ASSUME NEW c \in Client, AwaitKey(c) PROVE LockInv'
  <2>1. /\ client'[c].pc = "waiting" /\ \A d \in Client \ {c} : client'[d] = client[d]
        /\ UNCHANGED stored
    BY <1>2 DEF AwaitKey, ShapeInv, TypeOK, ClientState
  <2>2. ~Executing(c)' /\ \A v \in Version : ~HoldsVersion(c, v)'
    BY <2>1 DEF Executing, HoldsVersion
  <2>3. \A d \in Client : Executing(d)' => ~Live(d)'
    BY <2>1, <2>2 DEF LockInv, ClaimsAreFresh, Executing, Live
  <2> QED
    BY <1>2, <2>2, <2>3, LockMove DEF HoldsKey, AwaitKey
<1>3. ASSUME NEW c \in Client, Claim(c) PROVE LockInv'
  <2>1. /\ client'[c].pc = "locking" /\ client'[c].request = client[c].request
        /\ client'[c].at = client[c].at
        /\ \A d \in Client \ {c} : client'[d] = client[d]
        /\ UNCHANGED stored
    BY <1>3 DEF Claim, ShapeInv, TypeOK, ClientState
  <2>2. \A v \in Version : ~HoldsVersion(c, v)'
    BY <2>1 DEF HoldsVersion
  <2>3. \A s \in Scope : HoldsKey(c, s)' => \A d \in Client \ {c} : ~HoldsKey(d, s)
    BY <1>3, <2>1 DEF HoldsKey, Claim, KeyTaken
  <2>4. \A d \in Client : Executing(d)' => ~Live(d)'
    BY <1>3, <2>1 DEF LockInv, ClaimsAreFresh, Executing, Live, Claim
  <2> QED
    BY <1>3, <2>2, <2>3, <2>4, LockMove DEF Claim
<1>4. ASSUME NEW c \in Client, LockProcedure(c) \/ LockVersion(c) \/ LockReplacement(c)
      PROVE  LockInv'
  <2>1. /\ client'[c].pc \in {"relocking", "writing"} /\ client'[c].request = client[c].request
        /\ client'[c].at = client[c].at
        /\ \A d \in Client \ {c} : client'[d] = client[d]
        /\ UNCHANGED stored
        /\ Executing(c)
    BY <1>4 DEF LockProcedure, LockVersion, LockReplacement, Executing, ShapeInv, TypeOK, ClientState
  <2>2. client[c].request \in Requests
    BY <2>1, Writer DEF Executing
  <2>3. \A v \in Version : HoldsVersion(c, v)' => HoldsVersion(c, v) \/ ~VersionTaken(c, v)
    <3>1. CASE LockProcedure(c)
      BY <2>1, <3>1 DEF LockProcedure, HoldsVersion
    <3>2. CASE LockVersion(c)
      <4>1. client'[c].pc = "writing" => client[c].request.operation # "supersede"
        BY <3>2 DEF LockVersion, ShapeInv, TypeOK, ClientState
      <4>2. client[c].request.operation # "supersede" => client[c].request.replacement \notin Version
        BY <2>2, RequestTyped, LifecycleConstants
      <4> QED
        BY <2>1, <3>2, <4>1, <4>2 DEF LockVersion, HoldsVersion
    <3>3. CASE LockReplacement(c)
      BY <2>1, <3>3 DEF LockReplacement, HoldsVersion
    <3> QED
      BY <1>4, <3>1, <3>2, <3>3
  <2>4. \A s \in Scope : HoldsKey(c, s)' => HoldsKey(c, s)
    BY <2>1 DEF HoldsKey, ScopeOf
  <2>5. \A d \in Client : Executing(d)' => ~Live(d)'
    BY <2>1 DEF LockInv, ClaimsAreFresh, Executing, Live
  <2>6. \E x : client' = [client EXCEPT ![c] = x]
    BY <1>4 DEF LockProcedure, LockVersion, LockReplacement
  <2> QED
    BY <2>3, <2>4, <2>5, <2>6, LockMove
<1>5. ASSUME NEW c \in Client, GivesUp(c) PROVE LockInv'
  <2>1. \A d \in Client \ {c} : client'[d] = client[d]
    BY <1>5 DEF GivesUp, ShapeInv, TypeOK
  <2>2. \A d \in Client \ {c} : Executing(d) => ~Live(d)'
    BY <1>5, <2>1 DEF LockInv, ClaimsAreFresh, Live, GivesUp
  <2> QED
    BY <1>5, <2>2, LockEnd DEF GivesUp
<1>6. ASSUME NEW c \in Client, Write(c) PROVE LockInv'
  <2>1. client[c].pc = "writing"
    BY <1>6 DEF Write, CreateDraft, SubmitForReview, RecordReview, Approve, Supersede, Archive, Writes
  <2>2. \E v \in Version : Completed(c, v)
    BY <1>6, SubmitWrites, ReviewWrites, ApproveWrites, SupersedeWrites, ArchiveWrites
    DEF Write, CreateDraft
  <2> QED
    BY <2>1, <2>2, LockCommit
<1>7. CASE UNCHANGED <<stored, client>>
  BY <1>7 DEF LockInv, OneHolderPerVersion, OneExecutionPerKey, ClaimsAreFresh, HoldsVersion,
              HoldsKey, Executing, Live
<1> QED
  BY <1>1, <1>2, <1>3, <1>4, <1>5, <1>6, <1>7, Endings
  DEF Next, Proceed, Lock, Read, StartRead, ReadStatement, Tick, vars

\* Two transactions never have the same version locked or the same key claimed
\* (FOR UPDATE in get, ON CONFLICT in claimIdempotency).
THEOREM Locking == Spec => []LockInv
<1>1. Init => LockInv
  BY DEF Init, LockInv, OneHolderPerVersion, OneExecutionPerKey, ClaimsAreFresh, HoldsVersion,
         HoldsKey, Executing, Idle
<1>2. ShapeInv /\ LockInv /\ [Next]_vars => LockInv'
  BY LockStep
<1> QED
  BY <1>1, <1>2, Typing, PTL DEF Spec

\* A transition writes rows its transaction has locked, or a new version's.
LEMMA WriterLocks ==
  ASSUME ShapeInv, NEW c \in Client, Write(c)
  PROVE  /\ client[c].pc = "writing" /\ client' = [client EXCEPT ![c] = Idle]
         /\ UNCHANGED <<reader, now>>
         /\ \A v \in Version :
              \/ version'[v] = version[v] /\ latest'[v] = latest[v] /\ approval'[v] = approval[v]
              \/ HoldsVersion(c, v)
              \/ Status(v) = "absent"
<1> DEFINE Locked(v) == \/ version'[v] = version[v] /\ latest'[v] = latest[v] /\ approval'[v] = approval[v]
                        \/ HoldsVersion(c, v)
                        \/ Status(v) = "absent"
<1>1. client[c].pc = "writing"
  BY DEF Write, CreateDraft, SubmitForReview, RecordReview, Approve, Supersede, Archive, Writes
<1>2. \E v \in Version : Completed(c, v)
  BY SubmitWrites, ReviewWrites, ApproveWrites, SupersedeWrites, ArchiveWrites
  DEF Write, CreateDraft
<1>3. ASSUME NEW u \in Version, CreateDraft(c, u) PROVE \A v \in Version : Locked(v)
  BY <1>3 DEF CreateDraft, Absent, Status, ShapeInv, TypeOK
<1>4. ASSUME SubmitForReview(c) PROVE \A v \in Version : Locked(v)
  BY <1>4, SubmitWrites DEF ShapeInv, TypeOK
<1>5. ASSUME RecordReview(c) PROVE \A v \in Version : Locked(v)
  BY <1>5, ReviewWrites, ZenonT(60) DEF ShapeInv, TypeOK
<1>6. ASSUME Approve(c) PROVE \A v \in Version : Locked(v)
  <2>1. PICK r \in Requests :
          /\ r.version \in Version /\ HoldsVersion(c, r.version)
          /\ version' = [version EXCEPT ![r.version] =
                           [version[r.version] EXCEPT !.status = "approved"]]
          /\ approval' = [approval EXCEPT ![r.version] = r.by]
          /\ UNCHANGED <<latest, newest>>
    BY <1>6, ApproveWrites
  <2> QED
    BY <2>1 DEF ShapeInv, TypeOK
<1>7. ASSUME Supersede(c) PROVE \A v \in Version : Locked(v)
  <2>1. PICK r \in Requests :
          /\ r.version \in Version /\ r.replacement \in Version
          /\ HoldsVersion(c, r.version) /\ HoldsVersion(c, r.replacement)
          /\ version' = [v \in Version |->
                IF v = r.version
                THEN [version[v] EXCEPT !.status = "superseded", !.successor = r.replacement]
                ELSE IF v = r.replacement THEN [version[v] EXCEPT !.status = "approved"]
                ELSE version[v]]
          /\ approval' = [approval EXCEPT ![r.replacement] = r.by]
          /\ UNCHANGED <<latest, newest>>
    BY <1>7, SupersedeWrites
  <2> QED
    BY <2>1 DEF ShapeInv, TypeOK
<1>8. ASSUME Archive(c) PROVE \A v \in Version : Locked(v)
  BY <1>8, ArchiveWrites DEF ShapeInv, TypeOK
<1>9. \A v \in Version : Locked(v)
  <2> HIDE DEF Locked
  <2> QED
    BY <1>3, <1>4, <1>5, <1>6, <1>7, <1>8 DEF Write
<1> QED
  BY <1>1, <1>2, <1>9 DEF Completed

\* Only a mutation that writes changes what is governed.
LEMMA OthersOnlyRead ==
  ASSUME [Next]_vars
  PROVE  UNCHANGED governed \/ \E c \in Client : Write(c)
  BY DEF Next, Proceed, Lock, Read, StartRead, ReadStatement, Tick, vars, Arrive, AwaitKey, Claim,
         AnswerFromRow, LockProcedure, LockVersion, LockReplacement, NotFound, Refuse,
         DeadlockAborted, Crash

\* What a transaction has locked stays as it read it until its own end.
THEOREM LockedRows == Spec => LockedRowsStay
<1>1. ASSUME ShapeInv, LockInv, [Next]_vars, NEW c \in Client, NEW v \in Version,
             HoldsVersion(c, v),
             <<version[v], latest[v], approval[v]>>' # <<version[v], latest[v], approval[v]>>
      PROVE  client[c].pc = "writing" /\ client'[c].pc = "idle"
  <2>1. PICK d \in Client : Write(d)
    BY <1>1, OthersOnlyRead DEF governed
  <2>2. Status(v) # "absent"
    BY <1>1 DEF ShapeInv, HeldVersionsExist
  <2>3. HoldsVersion(d, v)
    BY <1>1, <2>1, <2>2, WriterLocks
  <2>4. c = d
    BY <1>1, <2>3 DEF LockInv, OneHolderPerVersion
  <2>5. client[d].pc = "writing" /\ client'[d] = Idle
    BY <1>1, <2>1, WriterLocks DEF ShapeInv, TypeOK
  <2> QED
    BY <2>4, <2>5 DEF Idle
<1>2. ShapeInv /\ LockInv /\ [Next]_vars =>
        [\A c \in Client, v \in Version :
           HoldsVersion(c, v) /\ <<version[v], latest[v], approval[v]>>'
                                  # <<version[v], latest[v], approval[v]>> =>
             client[c].pc = "writing" /\ client'[c].pc = "idle"]_vars
  BY <1>1
<1> QED
  BY <1>2, Typing, Locking, PTL DEF Spec, LockedRowsStay
-----------------------------------------------------------------------------
(***************************************************************************)
(* Evidence, succession and numbers                                        *)
(***************************************************************************)
EvidenceInv == Evidence /\ OneApprovedPerProcedure /\ SuccessionEnds

\* A step that keeps the successors, and neither publishes nor withdraws an
\* approval, keeps every succession.
LEMMA SuccessionKept ==
  ASSUME SuccessionEnds,
         \A v \in Version :
           /\ version'[v].successor = version[v].successor
           /\ approval[v] # Nobody => approval'[v] # Nobody
           /\ version[v].successor # NoVersion =>
                /\ version'[v].procedure = version[v].procedure
                /\ version'[version[v].successor].procedure = version[version[v].successor].procedure
         , \A v \in Version : version[v].successor \in Version \cup {NoVersion}
  PROVE  SuccessionEnds'
<1>1. ASSUME NEW v \in Version, version'[v].successor # NoVersion
      PROVE  /\ approval'[version'[v].successor] # Nobody
             /\ version'[version'[v].successor].procedure = version'[v].procedure
  BY <1>1 DEF SuccessionEnds
<1>2. ASSUME NEW vs \in SUBSET Version, vs # {}
      PROVE  \E v \in vs : version'[v].successor \notin vs
  <2>1. PICK v \in vs : version[v].successor \notin vs
    BY <1>2 DEF SuccessionEnds
  <2> QED
    BY <2>1
<1> QED
  BY <1>1, <1>2 DEF SuccessionEnds

\* Every step keeps the evidence, the one approved version and the successions.
LEMMA EvidenceStep ==
  ASSUME ShapeInv, EvidenceInv, [Next]_vars
  PROVE  EvidenceInv'
<1> DEFINE E(v) ==
    /\ latest[v] # NoReview => Status(v) # "absent" /\ latest[v].by # version[v].creator
    /\ Status(v) \in {"approved", "superseded"} => approval[v] # Nobody
    /\ approval[v] # Nobody =>
         /\ Status(v) \in {"approved", "superseded", "archived"}
         /\ latest[v] # NoReview /\ latest[v].decision = "recommended_for_approval"
         /\ approval[v] \notin {version[v].creator, latest[v].by}
    /\ version[v].successor # NoVersion => Status(v) \in {"superseded", "archived"}
<1>1. /\ version \in [Version -> VersionRow]
      /\ latest \in [Version -> Review \cup {NoReview}]
      /\ approval \in [Version -> Principal \cup {Nobody}]
      /\ \A v \in Version : version[v].successor \in Version \cup {NoVersion}
      /\ NoVersion \notin Version /\ Nobody \notin Principal /\ NoReview \notin Review
  BY LifecycleConstants, NoReviewIsNoRow, VersionTyped DEF ShapeInv, TypeOK
<1>2. Evidence <=> \A v \in Version : E(v)
  BY DEF Evidence
<1>3. Evidence' <=> \A v \in Version : E(v)'
  BY DEF Evidence
<1>4. ASSUME NEW c \in Client, NEW u \in Version, CreateDraft(c, u) PROVE EvidenceInv'
  <2>1. /\ version[u] = Absent /\ UNCHANGED <<latest, approval>>
        /\ version'[u].status = "draft" /\ version'[u].successor = NoVersion
        /\ \A v \in Version \ {u} : version'[v] = version[v]
    BY <1>1, <1>4 DEF CreateDraft
  <2>2. latest[u] = NoReview /\ approval[u] = Nobody
    BY <1>1, <2>1 DEF EvidenceInv, Evidence, Status, Absent
  <2>3. Evidence'
    <3>1. ASSUME NEW v \in Version PROVE E(v)'
      BY <2>1, <2>2 DEF EvidenceInv, Evidence, Status
    <3> QED
      BY <1>3, <3>1
  <2>4. OneApprovedPerProcedure'
    BY <2>1 DEF EvidenceInv, OneApprovedPerProcedure, Status
  <2>5. SuccessionEnds'
    <3>1. \A v \in Version : version[v].successor # u /\ version'[v].successor = version[v].successor
      BY <1>1, <2>1, <2>2 DEF EvidenceInv, SuccessionEnds, Absent
    <3>2. \A v \in Version : version[v].successor # NoVersion => v # u
      BY <2>1 DEF Absent
    <3> QED
      BY <1>1, <2>1, <3>1, <3>2, SuccessionKept DEF EvidenceInv
  <2> QED
    BY <2>3, <2>4, <2>5 DEF EvidenceInv
\* A status that moves on short of publication.
<1>5. ASSUME NEW u \in Version, NEW status \in {"draft", "in_review", "archived"},
             Status(u) # "absent",
             status # "archived" => Status(u) \in {"draft", "in_review"},
             version' = [version EXCEPT ![u] = [version[u] EXCEPT !.status = status]],
             UNCHANGED approval,
             \A v \in Version \ {u} : latest'[v] = latest[v],
             latest'[u] # latest[u] =>
               Status(u) = "in_review" /\ (latest'[u] # NoReview => latest'[u].by # version[u].creator)
      PROVE  EvidenceInv'
  <2>1. /\ version'[u].status = status
        /\ \A v \in Version : /\ version'[v].successor = version[v].successor
                              /\ version'[v].procedure = version[v].procedure
                              /\ version'[v].creator = version[v].creator
        /\ \A v \in Version \ {u} : version'[v] = version[v]
    BY <1>1, <1>5 DEF VersionRow
  <2>2. Status(u) \in {"draft", "in_review"} => approval[u] = Nobody /\ version[u].successor = NoVersion
    BY DEF EvidenceInv, Evidence
  <2>3. Evidence'
    <3>1. ASSUME NEW v \in Version PROVE E(v)'
      <4>1. CASE v = u
        BY <1>5, <2>1, <2>2, <4>1 DEF EvidenceInv, Evidence, Status
      <4>2. CASE v # u
        BY <1>5, <2>1, <4>2 DEF EvidenceInv, Evidence, Status
      <4> QED
        BY <4>1, <4>2
    <3> QED
      BY <1>3, <3>1
  <2>4. OneApprovedPerProcedure'
    BY <2>1 DEF EvidenceInv, OneApprovedPerProcedure, Status
  <2>5. SuccessionEnds'
    BY <1>1, <1>5, <2>1, SuccessionKept DEF EvidenceInv
  <2> QED
    BY <2>3, <2>4, <2>5 DEF EvidenceInv
<1>6. ASSUME NEW c \in Client, SubmitForReview(c) \/ Archive(c) PROVE EvidenceInv'
  BY <1>1, <1>5, <1>6, SubmitWrites, ArchiveWrites DEF Status
<1>7. ASSUME NEW c \in Client, RecordReview(c) PROVE EvidenceInv'
  <2>1. PICK r \in Requests, new \in Review : \E row \in Latest(latest[r.version], new) :
           /\ r = client[c].request /\ r.version \in Version
           /\ HoldsVersion(c, r.version) /\ Completed(c, r.version)
           /\ version[r.version].status = "in_review"
           /\ new.by = r.by /\ r.by # version[r.version].creator
           /\ newest' = [newest EXCEPT ![r.version] = new]
           /\ latest' = [latest EXCEPT ![r.version] = row]
           /\ version' = [version EXCEPT ![r.version] =
                            [version[r.version] EXCEPT !.status =
                              IF r.decision = "changes_requested" THEN "draft" ELSE "in_review"]]
           /\ UNCHANGED approval
    BY <1>7, ReviewWrites
  <2>2. \A row \in Latest(latest[r.version], new) : row = latest[r.version] \/ row = new
    BY DEF Latest
  <2>3. latest'[r.version] = latest[r.version] \/ latest'[r.version] = new
    BY <1>1, <2>1, <2>2
  <2>4. \A v \in Version \ {r.version} : latest'[v] = latest[v]
    BY <1>1, <2>1
  <2> DEFINE status == IF r.decision = "changes_requested" THEN "draft" ELSE "in_review"
  <2>5. status \in {"draft", "in_review"}
    OBVIOUS
  <2>6. version' = [version EXCEPT ![r.version] = [version[r.version] EXCEPT !.status = status]]
    BY <2>1
  <2> HIDE DEF status
  <2> QED
    BY <1>5, <2>1, <2>3, <2>4, <2>5, <2>6 DEF Status
<1>8. ASSUME NEW c \in Client, Approve(c) PROVE EvidenceInv'
  <2>1. PICK r \in Requests :
           /\ r.version \in Version /\ r.by \in Principal
           /\ Approvable(r.version, r.by) /\ NoOtherApproved(r.version)
           /\ version' = [version EXCEPT ![r.version] =
                            [version[r.version] EXCEPT !.status = "approved"]]
           /\ approval' = [approval EXCEPT ![r.version] = r.by]
           /\ UNCHANGED latest
    BY <1>8, ApproveWrites
  <2>2. /\ version'[r.version].status = "approved" /\ approval'[r.version] = r.by
        /\ \A v \in Version : /\ version'[v].successor = version[v].successor
                              /\ version'[v].procedure = version[v].procedure
                              /\ version'[v].creator = version[v].creator
        /\ \A v \in Version \ {r.version} : version'[v] = version[v] /\ approval'[v] = approval[v]
    BY <1>1, <2>1 DEF VersionRow
  <2>3. Status(r.version) = "in_review" /\ version[r.version].successor = NoVersion
    BY <2>1 DEF EvidenceInv, Evidence, Approvable, Status
  <2>4. Evidence'
    <3>1. ASSUME NEW v \in Version PROVE E(v)'
      <4>1. CASE v = r.version
        BY <1>1, <2>1, <2>2, <2>3, <4>1 DEF EvidenceInv, Evidence, Status, Approvable
      <4>2. CASE v # r.version
        BY <2>1, <2>2, <4>2 DEF EvidenceInv, Evidence, Status
      <4> QED
        BY <4>1, <4>2
    <3> QED
      BY <1>3, <3>1
  <2>5. OneApprovedPerProcedure'
    BY <2>1, <2>2 DEF EvidenceInv, OneApprovedPerProcedure, Status, NoOtherApproved
  <2>6. SuccessionEnds'
    BY <1>1, <2>1, <2>2, SuccessionKept DEF EvidenceInv
  <2> QED
    BY <2>4, <2>5, <2>6 DEF EvidenceInv
<1>9. ASSUME NEW c \in Client, Supersede(c) PROVE EvidenceInv'
  <2>0. PICK r \in Requests :
           /\ r.version \in Version /\ r.replacement \in Version /\ r.by \in Principal
           /\ version[r.version].status = "approved" /\ r.replacement # r.version
           /\ version[r.replacement].procedure = version[r.version].procedure
           /\ Approvable(r.replacement, r.by)
           /\ version' = [v \in Version |->
                 IF v = r.version
                 THEN [version[v] EXCEPT !.status = "superseded", !.successor = r.replacement]
                 ELSE IF v = r.replacement THEN [version[v] EXCEPT !.status = "approved"]
                 ELSE version[v]]
           /\ approval' = [approval EXCEPT ![r.replacement] = r.by]
           /\ UNCHANGED latest
    BY <1>9, SupersedeWrites
  <2>1. /\ r.version \in Version /\ r.replacement \in Version /\ r.by \in Principal
        /\ version[r.version].status = "approved" /\ r.replacement # r.version
        /\ version[r.replacement].procedure = version[r.version].procedure
        /\ Approvable(r.replacement, r.by)
        /\ UNCHANGED latest
    BY <2>0
  <2>2. /\ version'[r.version].status = "superseded" /\ version'[r.version].successor = r.replacement
        /\ version'[r.replacement].status = "approved"
        /\ approval'[r.replacement] = r.by
        /\ \A v \in Version : /\ version'[v].procedure = version[v].procedure
                              /\ version'[v].creator = version[v].creator
        /\ \A v \in Version \ {r.version} : version'[v].successor = version[v].successor
        /\ \A v \in Version \ {r.version, r.replacement} : version'[v] = version[v]
        /\ \A v \in Version \ {r.replacement} : approval'[v] = approval[v]
    <3> DEFINE old == [version[r.version] EXCEPT !.status = "superseded", !.successor = r.replacement]
               new == [version[r.replacement] EXCEPT !.status = "approved"]
    <3>1. /\ old.status = "superseded" /\ old.successor = r.replacement
          /\ old.procedure = version[r.version].procedure
          /\ old.creator = version[r.version].creator
          /\ new.status = "approved" /\ new.successor = version[r.replacement].successor
          /\ new.procedure = version[r.replacement].procedure
          /\ new.creator = version[r.replacement].creator
      BY <1>1, <2>1 DEF VersionRow
    <3>2. /\ version'[r.version] = old /\ version'[r.replacement] = new
          /\ \A v \in Version \ {r.version, r.replacement} : version'[v] = version[v]
      BY <2>0
    <3>3. /\ approval'[r.replacement] = r.by
          /\ \A v \in Version \ {r.replacement} : approval'[v] = approval[v]
      BY <1>1, <2>0
    <3> HIDE DEF old, new
    <3> QED
      BY <3>1, <3>2, <3>3
  <2>3. /\ Status(r.replacement) = "in_review" /\ version[r.replacement].successor = NoVersion
        /\ approval[r.replacement] = Nobody
        /\ version[r.version].successor = NoVersion
    BY <2>1 DEF EvidenceInv, Evidence, Approvable, Status
  <2>4. Evidence'
    <3>1. ASSUME NEW v \in Version PROVE E(v)'
      <4>1. CASE v = r.replacement
        BY <1>1, <2>1, <2>2, <2>3, <4>1 DEF EvidenceInv, Evidence, Status, Approvable
      <4>2. CASE v = r.version
        BY <1>1, <2>1, <2>2, <4>2 DEF EvidenceInv, Evidence, Status
      <4>3. CASE v \notin {r.version, r.replacement}
        BY <2>1, <2>2, <4>3 DEF EvidenceInv, Evidence, Status
      <4> QED
        BY <4>1, <4>2, <4>3
    <3> QED
      BY <1>3, <3>1
  <2>5. OneApprovedPerProcedure'
    <3>1. \A v \in Version :
            Status(v)' = "approved" /\ version[v].procedure = version[r.version].procedure =>
              v = r.replacement
      BY <2>1, <2>2 DEF EvidenceInv, OneApprovedPerProcedure, Status
    <3>2. \A v \in Version \ {r.replacement} : Status(v)' = "approved" => Status(v) = "approved"
      BY <2>2 DEF Status
    <3> QED
      BY <2>1, <2>2, <3>1, <3>2 DEF EvidenceInv, OneApprovedPerProcedure
  <2>6. SuccessionEnds'
    <3>1. ASSUME NEW v \in Version, version'[v].successor # NoVersion
          PROVE  /\ approval'[version'[v].successor] # Nobody
                 /\ version'[version'[v].successor].procedure = version'[v].procedure
      <4>1. CASE v = r.version
        BY <1>1, <2>1, <2>2, <4>1
      <4>2. CASE v # r.version
        <5>1. version'[v].successor = version[v].successor /\ version[v].successor \in Version
          BY <1>1, <2>2, <3>1, <4>2
        <5>2. /\ approval[version[v].successor] # Nobody
              /\ version[version[v].successor].procedure = version[v].procedure
          BY <3>1, <5>1 DEF EvidenceInv, SuccessionEnds
        <5> QED
          BY <2>2, <2>3, <5>1, <5>2
      <4> QED
        BY <4>1, <4>2
    <3>2. ASSUME NEW vs \in SUBSET Version, vs # {}
          PROVE  \E v \in vs : version'[v].successor \notin vs
      <4>1. CASE r.replacement \in vs
        BY <1>1, <2>1, <2>2, <2>3, <4>1
      <4>2. CASE r.replacement \notin vs /\ r.version \in vs
        BY <2>2, <4>2
      <4>3. CASE r.version \notin vs
        <5>1. PICK v \in vs : version[v].successor \notin vs
          BY <3>2 DEF EvidenceInv, SuccessionEnds
        <5> QED
          BY <2>2, <4>3, <5>1
      <4> QED
        BY <4>1, <4>2, <4>3
    <3>3. \A vs \in (SUBSET Version) \ {{}} : \E v \in vs : version'[v].successor \notin vs
      BY <3>2
    <3>4. \A v \in Version : version'[v].successor # NoVersion =>
             /\ approval'[version'[v].successor] # Nobody
             /\ version'[version'[v].successor].procedure = version'[v].procedure
      BY <3>1
    <3> QED
      BY <3>3, <3>4 DEF SuccessionEnds
  <2> QED
    BY <2>4, <2>5, <2>6 DEF EvidenceInv
<1>10. CASE UNCHANGED governed
  BY <1>10 DEF governed, EvidenceInv, Evidence, OneApprovedPerProcedure, SuccessionEnds, Status
<1> QED
  BY <1>4, <1>6, <1>7, <1>8, <1>9, <1>10, OthersOnlyRead DEF Write

\* Three different principals.
LEMMA ThreeOfThem ==
  ASSUME NEW a, NEW b, NEW c, a # b, c \notin {a, b}
  PROVE  Cardinality({a, b, c}) = 3
<1>1. IsFiniteSet({a}) /\ Cardinality({a}) = 1
  BY FS_Singleton
<1>2. IsFiniteSet({a} \cup {b}) /\ Cardinality({a} \cup {b}) = 2
  BY <1>1, FS_AddElement
<1>3. Cardinality(({a} \cup {b}) \cup {c}) = 3
  BY <1>2, FS_AddElement
<1>4. {a, b, c} = ({a} \cup {b}) \cup {c}
  OBVIOUS
<1> QED
  BY <1>3, <1>4

\* What is or was published was reviewed and approved by others, a procedure has
\* one approved version, and successions end (approve, supersede).
THEOREM EvidenceHolds == Spec => []EvidenceInv
<1>1. Init => EvidenceInv
  <2> SUFFICES ASSUME Init PROVE EvidenceInv
    OBVIOUS
  <2>1. \A v \in Version : /\ version[v].status = "absent" /\ version[v].successor = NoVersion
                          /\ latest[v] = NoReview /\ approval[v] = Nobody
    BY DEF Init, Absent
  <2>2. Evidence /\ OneApprovedPerProcedure
    BY <2>1 DEF Evidence, OneApprovedPerProcedure, Status
  <2>3. \A vs \in (SUBSET Version) \ {{}} : \E v \in vs : version[v].successor \notin vs
    BY <2>1, LifecycleConstants
  <2> QED
    BY <2>1, <2>2, <2>3 DEF EvidenceInv, SuccessionEnds
<1>2. ShapeInv /\ EvidenceInv /\ [Next]_vars => EvidenceInv'
  BY EvidenceStep
<1> QED
  BY <1>1, <1>2, Typing, PTL DEF Spec

\* The versions of a procedure, their numbers, approvals and successors fit
\* together at every moment (createDraft, approve, supersede).
THEOREM VersionsFitTogether == Spec => []VersionsFit
<1>1. ShapeInv /\ EvidenceInv => VersionsFit
  <2> SUFFICES ASSUME ShapeInv, EvidenceInv PROVE VersionsFit
    OBVIOUS
  <2>1. ApprovedOnEvidence
    <3> SUFFICES ASSUME NEW v \in Version, approval[v] # Nobody
                 PROVE  Cardinality({version[v].creator, latest[v].by, approval[v]}) = 3
      BY DEF ApprovedOnEvidence, EvidenceInv, Evidence
    <3>1. /\ version[v].creator # latest[v].by
          /\ approval[v] \notin {version[v].creator, latest[v].by}
      BY DEF EvidenceInv, Evidence
    <3> QED
      BY <3>1, ThreeOfThem
  <2>2. NumberedInOrder
    <3>1. \A p \in Procedure :
            Numbers(p) = 1 .. Cardinality({v \in Version : version[v].procedure = p})
      BY DEF ShapeInv, Numbering, VersionsOf
    <3>2. ASSUME NEW c \in Client, Writes(c, "create")
          PROVE  client[c].number \notin Numbers(client[c].request.procedure)
      <4>1. client[c].request.procedure \in Procedure
        BY <3>2, Writer, RequestTyped DEF Writes
      <4>2. client[c].number = Cardinality(VersionsOf(client[c].request.procedure)) + 1
        BY <3>2 DEF ShapeInv, Numbering
      <4>3. Numbers(client[c].request.procedure)
              = 1 .. Cardinality(VersionsOf(client[c].request.procedure))
        BY <4>1 DEF ShapeInv, Numbering
      <4> QED
        BY <4>2, <4>3, CountedVersions
    <3> QED
      BY <3>1, <3>2 DEF NumberedInOrder
  <2> QED
    BY <2>1, <2>2 DEF VersionsFit, EvidenceInv
<1> QED
  BY <1>1, Typing, EvidenceHolds, PTL
-----------------------------------------------------------------------------
(***************************************************************************)
(* Lookups                                                                 *)
(***************************************************************************)
\* The evidence a published version rests on is final.
LEMMA EvidenceIsFinal ==
  ASSUME ShapeInv, EvidenceInv, [Next]_vars, NEW v \in Version, approval[v] # Nobody
  PROVE  approval'[v] = approval[v] /\ latest'[v] = latest[v]
<1>1. version[v].status \in {"approved", "superseded", "archived"}
  BY DEF EvidenceInv, Evidence, Status
<1>2. /\ latest \in [Version -> Review \cup {NoReview}]
      /\ approval \in [Version -> Principal \cup {Nobody}]
  BY DEF ShapeInv, TypeOK
<1>3. ASSUME NEW c \in Client, RecordReview(c) PROVE approval' = approval /\ latest'[v] = latest[v]
  <2>1. PICK r \in Requests : /\ r = client[c].request /\ r.version \in Version
                              /\ version[r.version].status = "in_review"
                              /\ \E row : latest' = [latest EXCEPT ![r.version] = row]
                              /\ approval' = approval
    BY <1>3, ReviewWrites
  <2>2. r.version # v
    BY <1>1, <2>1
  <2> QED
    BY <1>2, <2>1, <2>2
<1>4. ASSUME NEW c \in Client, Approve(c) PROVE approval'[v] = approval[v] /\ latest' = latest
  <2>1. PICK r \in Requests : /\ r.version \in Version
                              /\ Approvable(r.version, r.by)
                              /\ approval' = [approval EXCEPT ![r.version] = r.by]
                              /\ latest' = latest
    BY <1>4, ApproveWrites
  <2>2. r.version # v
    BY <1>1, <2>1 DEF Approvable
  <2> QED
    BY <1>2, <2>1, <2>2
<1>5. ASSUME NEW c \in Client, Supersede(c) PROVE approval'[v] = approval[v] /\ latest' = latest
  <2>1. PICK r \in Requests : /\ r.replacement \in Version
                              /\ Approvable(r.replacement, r.by)
                              /\ approval' = [approval EXCEPT ![r.replacement] = r.by]
                              /\ latest' = latest
    BY <1>5, SupersedeWrites
  <2>2. r.replacement # v
    BY <1>1, <2>1 DEF Approvable
  <2> QED
    BY <1>2, <2>1, <2>2
<1> QED
  BY <1>3, <1>4, <1>5, OthersOnlyRead
  DEF Write, CreateDraft, SubmitForReview, Archive, governed

\* Every step keeps what a lookup has read the final evidence of what it shows.
LEMMA ReadersStep ==
  ASSUME ShapeInv, EvidenceInv, ReadersSee, [Next]_vars
  PROVE  ReadersSee'
<1>1. ASSUME UNCHANGED reader PROVE ReadersSee'
  BY <1>1, EvidenceIsFinal DEF ReadersSee
<1>2. ASSUME NEW q \in Reader, NEW v \in Version, StartRead(q, v) PROVE ReadersSee'
  <2>1. /\ UNCHANGED <<latest, approval>>
        /\ reader' = [reader EXCEPT ![q].version = v]
        /\ reader[q].version = NoVersion
    BY <1>2 DEF StartRead, governed
  <2>2. reader[q].read = 0 \/ ~(reader[q].status \in {"approved", "superseded"})
    BY <2>1, LifecycleConstants DEF ReadersSee, ShapeInv, TypeOK, ReaderState
  <2> QED
    BY <2>1, <2>2 DEF ReadersSee, ShapeInv, TypeOK, ReaderState
<1>3. ASSUME NEW q \in Reader, ReadStatement(q) PROVE ReadersSee'
  <2> DEFINE v == reader[q].version
             next == ReadOrder[reader[q].read + 1]
  <2>1. /\ v \in Version /\ reader[q].read \in 0 .. 2
        /\ UNCHANGED <<version, latest, approval>>
        /\ reader'[q].read = reader[q].read + 1 /\ reader'[q].version = v
        /\ reader'[q].status = IF next = "version" THEN version[v].status ELSE reader[q].status
        /\ reader'[q].latest = IF next = "review" THEN latest[v] ELSE reader[q].latest
        /\ reader'[q].approval = IF next = "approval" THEN approval[v] ELSE reader[q].approval
        /\ \A p \in Reader \ {q} : reader'[p] = reader[p]
    BY <1>3 DEF ReadStatement, ShapeInv, TypeOK, ReaderState, governed
  <2>2. next = CASE reader[q].read = 0 -> "version"
                 [] reader[q].read = 1 -> "review"
                 [] reader[q].read = 2 -> "approval"
    BY <2>1 DEF ReadOrder
  <2>3. version[v].status \in {"approved", "superseded"} => approval[v] # Nobody
    BY <2>1 DEF EvidenceInv, Evidence, Status
  <2> HIDE DEF next
  <2> QED
    BY <2>1, <2>2, <2>3 DEF ReadersSee
<1> QED
  BY <1>1, <1>2, <1>3
  DEF Next, Proceed, Lock, Read, Write, Completed, Tick, vars, Arrive, AwaitKey, Claim,
      AnswerFromRow, LockProcedure, LockVersion, LockReplacement, NotFound, Refuse,
      DeadlockAborted, Crash, CreateDraft, SubmitForReview, RecordReview, Approve, Supersede, Archive

\* A lookup that shows a published version also shows the recommendation and
\* the approval it rests on (mapRow reads them one by one).
THEOREM ReadsShow == Spec => []ReadsShowEvidence
<1>1. Init => ReadersSee
  BY DEF Init, ReadersSee, Unread
<1>2. ShapeInv /\ EvidenceInv /\ ReadersSee /\ [Next]_vars => ReadersSee'
  BY ReadersStep
<1>3. EvidenceInv /\ ReadersSee => ReadsShowEvidence
  BY DEF EvidenceInv, Evidence, ReadersSee, ReadsShowEvidence
<1> QED
  BY <1>1, <1>2, <1>3, Typing, EvidenceHolds, PTL DEF Spec
-----------------------------------------------------------------------------
(***************************************************************************)
(* Stored answers                                                          *)
(***************************************************************************)
\* What a stored answer tells of version v, which exists.
TellsTheTruth(r, v) ==
  /\ Status(v) # "absent"
  /\ r.operation = "create" => version[v].creator = r.by /\ version[v].procedure = r.procedure
  /\ r.operation = "submit" => Status(v) # "draft" \/ newest[v] # NoReview
  /\ r.operation = "review" => newest[v] # NoReview
  /\ r.operation = "approve" => approval[v] = r.by
  /\ r.operation = "supersede" =>
       version[v].successor = r.replacement /\ approval[r.replacement] = r.by
  /\ r.operation = "archive" => Status(v) = "archived"

StoredInv ==
  \A s \in Scope : stored[s] # NoRow => TellsTheTruth(stored[s].request, stored[s].version)

\* A version keeps its creator, procedure and successor, and its status moves on
\* in the direction of the lifecycle.
LEMMA VersionMovesOn ==
  ASSUME ShapeInv, EvidenceInv, [Next]_vars, NEW v \in Version, Status(v) # "absent"
  PROVE  /\ version'[v].creator = version[v].creator
         /\ version'[v].procedure = version[v].procedure
         /\ version[v].successor # NoVersion => version'[v].successor = version[v].successor
         /\ newest[v] # NoReview => newest'[v] # NoReview
         /\ version'[v].status # "absent"
         /\ version[v].status = "archived" => version'[v].status = "archived"
         /\ version'[v].status = "draft" => version[v].status = "draft" \/ newest'[v] # NoReview
<1> DEFINE Moves ==
         /\ version'[v].creator = version[v].creator
         /\ version'[v].procedure = version[v].procedure
         /\ version[v].successor # NoVersion => version'[v].successor = version[v].successor
         /\ newest[v] # NoReview => newest'[v] # NoReview
         /\ version'[v].status # "absent"
         /\ version[v].status = "archived" => version'[v].status = "archived"
         /\ version'[v].status = "draft" => version[v].status = "draft" \/ newest'[v] # NoReview
<1>1. /\ version \in [Version -> VersionRow] /\ newest \in [Version -> Review \cup {NoReview}]
      /\ version[v].status # "absent" /\ NoReview \notin Review
  BY NoReviewIsNoRow DEF ShapeInv, TypeOK, Status
<1>2. ASSUME NEW status, [version[v] EXCEPT !.status = status].status # "absent"
      PROVE  /\ [version[v] EXCEPT !.status = status].creator = version[v].creator
             /\ [version[v] EXCEPT !.status = status].procedure = version[v].procedure
             /\ [version[v] EXCEPT !.status = status].successor = version[v].successor
             /\ [version[v] EXCEPT !.status = status].status = status
  BY <1>1 DEF VersionRow
<1>3. ASSUME NEW c \in Client, NEW u \in Version, CreateDraft(c, u) PROVE Moves
  BY <1>1, <1>3 DEF CreateDraft, Absent
<1>4. ASSUME NEW c \in Client, SubmitForReview(c) \/ Approve(c) \/ Archive(c) PROVE Moves
  <2>1. PICK u \in Version, status \in {"in_review", "approved", "archived"} :
          /\ version' = [version EXCEPT ![u] = [version[u] EXCEPT !.status = status]]
          /\ version[u].status # "archived" /\ UNCHANGED newest
    BY <1>4, SubmitWrites, ApproveWrites, ArchiveWrites DEF Approvable
  <2>2. CASE u = v
    BY <1>1, <2>1, <2>2 DEF VersionRow
  <2>3. CASE u # v
    BY <1>1, <2>1, <2>3
  <2> QED
    BY <2>2, <2>3
<1>5. ASSUME NEW c \in Client, RecordReview(c) PROVE Moves
  <2>1. PICK u \in Version, status \in {"draft", "in_review"}, new \in Review :
          /\ version' = [version EXCEPT ![u] = [version[u] EXCEPT !.status = status]]
          /\ version[u].status = "in_review"
          /\ newest' = [newest EXCEPT ![u] = new]
    BY <1>5, ReviewWrites
  <2>2. CASE u = v
    BY <1>1, <2>1, <2>2 DEF VersionRow
  <2>3. CASE u # v
    BY <1>1, <2>1, <2>3
  <2> QED
    BY <2>2, <2>3
<1>6. ASSUME NEW c \in Client, Supersede(c) PROVE Moves
  <2>1. PICK u \in Version, w \in Version :
          /\ version' = [x \in Version |->
                IF x = u
                THEN [version[x] EXCEPT !.status = "superseded", !.successor = w]
                ELSE IF x = w THEN [version[x] EXCEPT !.status = "approved"]
                ELSE version[x]]
          /\ version[u].status = "approved" /\ version[w].status = "in_review"
          /\ UNCHANGED newest
    BY <1>6, SupersedeWrites, ZenonT(60) DEF Approvable
  <2>2. CASE v = u
    <3>1. version[v].successor = NoVersion
      BY <2>1, <2>2 DEF EvidenceInv, Evidence, Status
    <3>2. version'[v] = [version[v] EXCEPT !.status = "superseded", !.successor = w]
      BY <2>1, <2>2
    <3> QED
      BY <1>1, <2>1, <2>2, <3>1, <3>2 DEF VersionRow
  <2>3. CASE v # u /\ v = w
    <3>1. version'[v] = [version[v] EXCEPT !.status = "approved"]
      BY <2>1, <2>3
    <3> QED
      BY <1>1, <2>1, <2>3, <3>1 DEF VersionRow
  <2>4. CASE v # u /\ v # w
    <3>1. version'[v] = version[v]
      BY <2>1, <2>4
    <3> QED
      BY <1>1, <2>1, <3>1
  <2> QED
    BY <2>2, <2>3, <2>4
<1>7. ASSUME UNCHANGED governed PROVE Moves
  BY <1>1, <1>7 DEF governed
<1> HIDE DEF Moves
<1>8. Moves
  <2>1. CASE \E c \in Client : Write(c)
    <3>1. PICK c \in Client : Write(c)
      BY <2>1
    <3> QED
      BY <1>3, <1>4, <1>5, <1>6, <3>1 DEF Write
  <2> QED
    BY <1>7, <2>1, OthersOnlyRead
<1> QED
  BY <1>8 DEF Moves

\* What was true of a version stays true.
LEMMA TruthLasts ==
  ASSUME ShapeInv, EvidenceInv, [Next]_vars, NEW r \in Requests, NEW v \in Version,
         TellsTheTruth(r, v)
  PROVE  TellsTheTruth(r, v)'
<1>1. Status(v) # "absent"
  BY DEF TellsTheTruth
<1>2. r.by \in Principal /\ (r.operation = "supersede" => r.replacement \in Version)
      /\ Nobody \notin Principal /\ NoVersion \notin Version
  BY RequestTyped, LifecycleConstants
<1>3. r.operation = "supersede" => approval'[r.replacement] = r.by
  BY <1>2, EvidenceIsFinal DEF TellsTheTruth
<1>4. r.operation = "approve" => approval'[v] = r.by
  BY <1>2, EvidenceIsFinal DEF TellsTheTruth
<1>5. r.operation = "supersede" => version'[v].successor = r.replacement
  BY <1>1, <1>2, VersionMovesOn DEF TellsTheTruth
<1> QED
  BY <1>1, <1>3, <1>4, <1>5, VersionMovesOn DEF TellsTheTruth, Status

\* A transition that commits leaves a version of which the request's answer is true.
LEMMA CommitTellsTheTruth ==
  ASSUME ShapeInv, NEW c \in Client, Write(c)
  PROVE  \E r \in Requests, v \in Version :
           r = client[c].request /\ Completed(c, v) /\ TellsTheTruth(r, v)'
<1>1. /\ version \in [Version -> VersionRow] /\ newest \in [Version -> Review \cup {NoReview}]
      /\ approval \in [Version -> Principal \cup {Nobody}]
      /\ NoReview \notin Review
  BY NoReviewIsNoRow DEF ShapeInv, TypeOK
<1>2. ASSUME NEW u \in Version, CreateDraft(c, u)
      PROVE  \E q \in Requests, v \in Version :
               q = client[c].request /\ Completed(c, v) /\ TellsTheTruth(q, v)'
  <2>1. PICK q \in Requests : /\ q = client[c].request /\ q.operation = "create"
    BY <1>2, Writer DEF CreateDraft, Writes
  <2>2. /\ version'[u].status = "draft" /\ version'[u].procedure = q.procedure
        /\ version'[u].creator = q.by /\ Completed(c, u)
    BY <1>1, <1>2, <2>1 DEF CreateDraft
  <2>3. TellsTheTruth(q, u)'
    BY <2>1, <2>2 DEF TellsTheTruth, Status
  <2> QED
    BY <2>1, <2>2, <2>3
<1>3. ASSUME SubmitForReview(c) \/ Archive(c)
      PROVE  \E q \in Requests, v \in Version :
               q = client[c].request /\ Completed(c, v) /\ TellsTheTruth(q, v)'
  <2>1. PICK q \in Requests, status \in {"in_review", "archived"} :
          /\ q = client[c].request /\ q.version \in Version /\ Completed(c, q.version)
          /\ q.operation = IF status = "in_review" THEN "submit" ELSE "archive"
          /\ version' = [version EXCEPT ![q.version] =
                           [version[q.version] EXCEPT !.status = status]]
    <3>1. CASE SubmitForReview(c)
      BY <3>1, SubmitWrites DEF SubmitForReview, Writes
    <3>2. CASE Archive(c)
      BY <3>2, ArchiveWrites DEF Archive, Writes
    <3> QED
      BY <1>3, <3>1, <3>2
  <2>2. version'[q.version].status = status
    BY <1>1, <2>1 DEF VersionRow
  <2>3. TellsTheTruth(q, q.version)'
    BY <2>1, <2>2 DEF TellsTheTruth, Status
  <2> QED
    BY <2>1, <2>3
<1>4. ASSUME RecordReview(c)
      PROVE  \E q \in Requests, v \in Version :
               q = client[c].request /\ Completed(c, v) /\ TellsTheTruth(q, v)'
  <2>1. PICK q \in Requests : \E new \in Review : \E row \in Latest(latest[q.version], new) :
          /\ q = client[c].request /\ q.version \in Version
          /\ HoldsVersion(c, q.version) /\ Completed(c, q.version)
          /\ version[q.version].status = "in_review"
          /\ new.by = q.by /\ q.by # version[q.version].creator
          /\ newest' = [newest EXCEPT ![q.version] = new]
          /\ latest' = [latest EXCEPT ![q.version] = row]
          /\ version' = [version EXCEPT ![q.version] =
                           [version[q.version] EXCEPT !.status =
                             IF q.decision = "changes_requested" THEN "draft" ELSE "in_review"]]
          /\ UNCHANGED approval
    BY <1>4, ReviewWrites
  <2>2. q.operation = "review"
    BY <1>4, <2>1 DEF RecordReview, Writes
  <2>3. newest'[q.version] # NoReview /\ version'[q.version].status # "absent"
    BY <1>1, <2>1 DEF VersionRow
  <2>4. TellsTheTruth(q, q.version)'
    BY <2>2, <2>3 DEF TellsTheTruth, Status
  <2> QED
    BY <2>1, <2>4
<1>5. ASSUME Approve(c)
      PROVE  \E q \in Requests, v \in Version :
               q = client[c].request /\ Completed(c, v) /\ TellsTheTruth(q, v)'
  <2>1. PICK q \in Requests :
          /\ q = client[c].request /\ q.version \in Version /\ Completed(c, q.version)
          /\ version' = [version EXCEPT ![q.version] =
                           [version[q.version] EXCEPT !.status = "approved"]]
          /\ approval' = [approval EXCEPT ![q.version] = q.by]
    BY <1>5, ApproveWrites
  <2>2. q.operation = "approve"
    BY <1>5, <2>1 DEF Approve, Writes
  <2>3. approval'[q.version] = q.by /\ version'[q.version].status # "absent"
    BY <1>1, <2>1 DEF VersionRow
  <2>4. TellsTheTruth(q, q.version)'
    BY <2>2, <2>3 DEF TellsTheTruth, Status
  <2> QED
    BY <2>1, <2>4
<1>6. ASSUME Supersede(c)
      PROVE  \E q \in Requests, v \in Version :
               q = client[c].request /\ Completed(c, v) /\ TellsTheTruth(q, v)'
  <2>1. PICK q \in Requests :
          /\ q = client[c].request /\ q.version \in Version /\ Completed(c, q.version)
          /\ q.replacement \in Version
          /\ version' = [v \in Version |->
                IF v = q.version
                THEN [version[v] EXCEPT !.status = "superseded", !.successor = q.replacement]
                ELSE IF v = q.replacement THEN [version[v] EXCEPT !.status = "approved"]
                ELSE version[v]]
          /\ approval' = [approval EXCEPT ![q.replacement] = q.by]
    BY <1>6, SupersedeWrites
  <2>2. q.operation = "supersede"
    BY <1>6, <2>1 DEF Supersede, Writes
  <2>3. version'[q.version] =
          [version[q.version] EXCEPT !.status = "superseded", !.successor = q.replacement]
    BY <2>1
  <2>4. /\ version'[q.version].successor = q.replacement
        /\ version'[q.version].status # "absent"
    <3>1. version[q.version] \in VersionRow
      BY <1>1, <2>1
    <3> QED
      BY <2>3, <3>1 DEF VersionRow
  <2>5. approval'[q.replacement] = q.by
    BY <1>1, <2>1
  <2>6. TellsTheTruth(q, q.version)'
    BY <2>2, <2>4, <2>5 DEF TellsTheTruth, Status
  <2> QED
    BY <2>1, <2>6
<1> QED
  BY <1>2, <1>3, <1>4, <1>5, <1>6 DEF Write

\* A stored answer is written by a commit, or stays what it was.
LEMMA StoredRows ==
  ASSUME ShapeInv, [Next]_vars
  PROVE  stored' = stored \/ \E c \in Client : Write(c)
  BY DEF Next, Proceed, Lock, Read, StartRead, ReadStatement, Tick, vars, Arrive, AwaitKey, Claim,
         AnswerFromRow, LockProcedure, LockVersion, LockReplacement, NotFound, Refuse,
         DeadlockAborted, Crash

\* Stored answers stay true in every step.
LEMMA StoredStep ==
  ASSUME ShapeInv, EvidenceInv, StoredInv, [Next]_vars
  PROVE  StoredInv'
<1> SUFFICES ASSUME NEW s \in Scope, stored'[s] # NoRow
             PROVE  TellsTheTruth(stored[s].request, stored[s].version)'
  BY DEF StoredInv
<1>1. CASE stored'[s] = stored[s]
  <2>1. PICK r \in Requests, v \in Version : r = stored[s].request /\ v = stored[s].version
    BY <1>1 DEF ShapeInv, TypeOK, StoredRow
  <2>2. TellsTheTruth(r, v)
    BY <1>1, <2>1 DEF StoredInv
  <2>3. TellsTheTruth(r, v)'
    BY <2>2, TruthLasts
  <2>4. stored'[s].request = r /\ stored'[s].version = v
    BY <1>1, <2>1
  <2> QED
    BY <2>3, <2>4
<1>2. CASE stored'[s] # stored[s]
  <2>1. PICK c \in Client : Write(c)
    BY <1>2, StoredRows
  <2>2. PICK r \in Requests, v \in Version :
          r = client[c].request /\ Completed(c, v) /\ TellsTheTruth(r, v)'
    BY <2>1, CommitTellsTheTruth
  <2>3. stored'[s] = [request |-> r, version |-> v, expires |-> client[c].at + TTL]
    BY <1>2, <2>2 DEF Completed, ShapeInv, TypeOK
  <2>4. stored'[s].request = r /\ stored'[s].version = v
    BY <2>3
  <2> QED
    BY <2>2, <2>4
<1> QED
  BY <1>1, <1>2

\* A row of the idempotency table is replaced only after it has expired for the
\* request that replaces it.
LEMMA RowsAreReplacedLate ==
  ASSUME ShapeInv, LockInv, [Next]_vars, NEW s \in Scope, stored[s] # NoRow, stored'[s] # stored[s]
  PROVE  stored'[s].expires >= stored[s].expires + TTL
<1>1. PICK c \in Client : Write(c)
  BY StoredRows
<1>2. PICK r \in Requests, v \in Version : r = client[c].request /\ Completed(c, v)
  BY <1>1, CommitTellsTheTruth
<1>3. /\ stored \in [Scope -> StoredRow \cup {NoRow}]
      /\ r.key # FreshKey /\ s = ScopeOf(r)
      /\ stored'[s] = [request |-> r, version |-> v, expires |-> client[c].at + TTL]
  BY <1>2 DEF Completed, ShapeInv, TypeOK
<1>4. client[c].pc = "writing" /\ client[c].at \in Time
  BY <1>1, ClientTyped DEF Write, CreateDraft, SubmitForReview, RecordReview, Approve, Supersede,
                           Archive, Writes, ShapeInv
<1>5. ~(stored[s].expires > client[c].at)
  BY <1>2, <1>3, <1>4 DEF LockInv, ClaimsAreFresh, Executing, Live
<1>6. stored[s].expires \in Nat /\ client[c].at \in Nat /\ TTL \in Nat
  BY <1>3, <1>4, LifecycleConstants DEF StoredRow, Time
<1> QED
  BY <1>3, <1>5, <1>6

\* Under a key a transition is executed once per TTL, and a replay tells of
\* what was done (claimIdempotency, completeIdempotency).
THEOREM ReplaysAreTrue == Spec => ReplaysHold
<1>1. Init => StoredInv
  BY DEF Init, StoredInv
<1>2. ShapeInv /\ EvidenceInv /\ StoredInv /\ [Next]_vars => StoredInv'
  BY StoredStep
<1>3. ShapeInv /\ StoredInv => StoredAnswersAreTrue
  <2> SUFFICES ASSUME ShapeInv, StoredInv, NEW s \in Scope, stored[s] # NoRow
               PROVE  LET r == stored[s].request
                          v == stored[s].version
                      IN  CASE r.operation = "create" ->
                                 version[v].creator = r.by /\ version[v].procedure = r.procedure
                            [] r.operation = "submit" -> Status(v) # "draft" \/ newest[v] # NoReview
                            [] r.operation = "review" -> newest[v] # NoReview
                            [] r.operation = "approve" -> approval[v] = r.by
                            [] r.operation = "supersede" ->
                                 version[v].successor = r.replacement /\ approval[r.replacement] = r.by
                            [] r.operation = "archive" -> Status(v) = "archived"
    BY DEF StoredAnswersAreTrue
  <2>1. stored[s].request \in Requests
    BY DEF ShapeInv, TypeOK, StoredRow
  <2>2. stored[s].request.operation \in Operation
    BY <2>1, RequestTyped
  <2>3. TellsTheTruth(stored[s].request, stored[s].version)
    BY DEF StoredInv
  <2> QED
    BY <2>2, <2>3 DEF TellsTheTruth, Operation
<1>4. ShapeInv /\ LockInv /\ [Next]_vars =>
        [\A s \in Scope : stored[s] # NoRow /\ stored'[s] # stored[s] =>
           stored'[s].expires >= stored[s].expires + TTL]_vars
  BY RowsAreReplacedLate
<1>5. Spec => []StoredAnswersAreTrue
  BY <1>1, <1>2, <1>3, Typing, EvidenceHolds, PTL DEF Spec
<1>6. Spec => ExecutedOncePerTTL
  BY <1>4, Typing, Locking, PTL DEF Spec, ExecutedOncePerTTL
<1> QED
  BY <1>5, <1>6 DEF ReplaysHold
-----------------------------------------------------------------------------
(***************************************************************************)
(* Publication: the lifecycle implements PublishedWorkflow                 *)
(***************************************************************************)
\* The refinement mapping: the approved version of each procedure, the
\* superseded versions and the archived ones.
Published ==
  [p \in Procedure |->
     IF \E v \in Version : version[v].procedure = p /\ Status(v) = "approved"
     THEN CHOOSE v \in Version : version[v].procedure = p /\ Status(v) = "approved"
     ELSE NoVersion]

Replaced == {v \in Version : Status(v) = "superseded"}

Archived == {v \in Version : Status(v) = "archived"}

\* The published version of a procedure is the one that is approved, as there is
\* one at most.
LEMMA PublishedIsApproved ==
  OneApprovedPerProcedure =>
    /\ Published \in [Procedure -> Version \cup {NoVersion}]
    /\ \A p \in Procedure, v \in Version :
         Published[p] = v <=> version[v].procedure = p /\ version[v].status = "approved"
<1> SUFFICES ASSUME OneApprovedPerProcedure, NEW p \in Procedure
             PROVE  /\ Published[p] \in Version \cup {NoVersion}
                    /\ \A v \in Version :
                         Published[p] = v <=> version[v].procedure = p /\ version[v].status = "approved"
  BY DEF Published
<1>1. CASE \E u \in Version : version[u].procedure = p /\ Status(u) = "approved"
  <2>1. Published[p] = CHOOSE w \in Version : version[w].procedure = p /\ Status(w) = "approved"
    BY <1>1 DEF Published
  <2>2. /\ Published[p] \in Version
        /\ version[Published[p]].procedure = p /\ Status(Published[p]) = "approved"
    BY <1>1, <2>1
  <2> QED
    BY <2>2 DEF OneApprovedPerProcedure, Status
<1>2. CASE ~\E u \in Version : version[u].procedure = p /\ Status(u) = "approved"
  BY <1>2, LifecycleConstants DEF Published, Status
<1> QED
  BY <1>1, <1>2

\* What the published versions are after a step.
LEMMA PublishedBecomes ==
  ASSUME OneApprovedPerProcedure', NEW f \in [Procedure -> Version \cup {NoVersion}],
         \A p \in Procedure, v \in Version :
           f[p] = v <=> version'[v].procedure = p /\ version'[v].status = "approved"
  PROVE  Published' = f
<1>1. /\ Published' \in [Procedure -> Version \cup {NoVersion}]
      /\ \A p \in Procedure, v \in Version :
           Published'[p] = v <=> version'[v].procedure = p /\ version'[v].status = "approved"
  <2>1. OneApprovedPerProcedure' =>
           (/\ Published \in [Procedure -> Version \cup {NoVersion}]
            /\ \A p \in Procedure, v \in Version :
                 Published[p] = v <=> version[v].procedure = p /\ version[v].status = "approved")'
    BY PublishedIsApproved, PTL
  <2> QED
    BY <2>1
<1>2. ASSUME NEW p \in Procedure PROVE Published'[p] = f[p]
  BY <1>1
<1> QED
  BY <1>1, <1>2

\* Drafts, submissions and reviews publish nothing.
LEMMA NothingPublished ==
  ASSUME OneApprovedPerProcedure, OneApprovedPerProcedure',
         \A v \in Version :
           \/ version'[v] = version[v]
           \/ {version[v].status, version'[v].status} \subseteq {"absent", "draft", "in_review"}
  PROVE  Published' = Published /\ Replaced' = Replaced /\ Archived' = Archived
<1>1. \A p \in Procedure, v \in Version :
        Published[p] = v <=> version'[v].procedure = p /\ version'[v].status = "approved"
  BY PublishedIsApproved
<1>2. Published' = Published
  BY <1>1, PublishedIsApproved, PublishedBecomes
<1> QED
  BY <1>2 DEF Replaced, Archived, Status

\* Each step publishes one version, replaces one by another, retires one or does
\* nothing to what is published.
LEMMA PublicationStep ==
  ASSUME ShapeInv, EvidenceInv, [Next]_vars
  PROVE  \/ UNCHANGED <<Published, Replaced, Archived>>
         \/ \E p \in Procedure, v \in Version :
              /\ v \notin Replaced \cup Archived /\ \A q \in Procedure : Published[q] # v
              /\ Published' = [Published EXCEPT ![p] = v]
              /\ \/ Published[p] = NoVersion /\ UNCHANGED <<Replaced, Archived>>
                 \/ /\ Published[p] # NoVersion
                    /\ Replaced' = Replaced \cup {Published[p]} /\ Archived' = Archived
         \/ \E v \in Version :
              /\ v \notin Archived
              /\ Archived' = Archived \cup {v} /\ Replaced' = Replaced \ {v}
              /\ Published' = [p \in Procedure |-> IF Published[p] = v THEN NoVersion
                                                   ELSE Published[p]]
<1>1. OneApprovedPerProcedure'
  BY EvidenceStep DEF EvidenceInv
<1>2. /\ version \in [Version -> VersionRow]
      /\ Published \in [Procedure -> Version \cup {NoVersion}]
      /\ \A p \in Procedure, v \in Version :
           Published[p] = v <=> version[v].procedure = p /\ version[v].status = "approved"
      /\ NoVersion \notin Version
  BY PublishedIsApproved, LifecycleConstants DEF ShapeInv, TypeOK, EvidenceInv
<1>3. \A v \in Version : /\ v \in Replaced <=> version[v].status = "superseded"
                         /\ v \in Archived <=> version[v].status = "archived"
                         /\ v \in Replaced' <=> version'[v].status = "superseded"
                         /\ v \in Archived' <=> version'[v].status = "archived"
  BY DEF Replaced, Archived, Status
<1>4. /\ Replaced \subseteq Version /\ Archived \subseteq Version
      /\ Replaced' \subseteq Version /\ Archived' \subseteq Version
  BY DEF Replaced, Archived
<1>5. ASSUME NEW v \in Version, version[v].status # "absent" PROVE version[v].procedure \in Procedure
  BY <1>5 DEF ShapeInv, Rows, Status
<1>6. ASSUME NEW c \in Client, NEW v \in Version, CreateDraft(c, v)
      PROVE  UNCHANGED <<Published, Replaced, Archived>>
  <2>1. \A u \in Version :
           \/ version'[u] = version[u]
           \/ {version[u].status, version'[u].status} \subseteq {"absent", "draft", "in_review"}
    BY <1>2, <1>6 DEF CreateDraft, Absent
  <2> QED
    BY <1>1, <2>1, NothingPublished DEF EvidenceInv
<1>7. ASSUME NEW c \in Client, SubmitForReview(c) \/ RecordReview(c)
      PROVE  UNCHANGED <<Published, Replaced, Archived>>
  <2>1. PICK u \in Version, status \in {"draft", "in_review"} :
          /\ version[u].status \in {"draft", "in_review"}
          /\ version' = [version EXCEPT ![u] = [version[u] EXCEPT !.status = status]]
    BY <1>7, SubmitWrites, ReviewWrites
  <2>2. version'[u].status = status /\ \A v \in Version \ {u} : version'[v] = version[v]
    BY <1>2, <2>1 DEF VersionRow
  <2> QED
    BY <1>1, <2>1, <2>2, NothingPublished DEF EvidenceInv
<1>8. ASSUME NEW c \in Client, Approve(c)
      PROVE  \E p \in Procedure, v \in Version :
               /\ v \notin Replaced \cup Archived /\ \A q \in Procedure : Published[q] # v
               /\ Published' = [Published EXCEPT ![p] = v]
               /\ Published[p] = NoVersion /\ UNCHANGED <<Replaced, Archived>>
  <2>1. PICK v \in Version :
          /\ version[v].status = "in_review" /\ NoOtherApproved(v)
          /\ version' = [version EXCEPT ![v] = [version[v] EXCEPT !.status = "approved"]]
    BY <1>8, ApproveWrites DEF Approvable
  <2>2. PICK p \in Procedure : p = version[v].procedure
    BY <1>5, <2>1
  <2>3. /\ version'[v].status = "approved" /\ version'[v].procedure = p
        /\ \A u \in Version \ {v} : version'[u] = version[u]
    BY <1>2, <2>1, <2>2 DEF VersionRow
  <2>4. \A u \in Version : ~(version[u].procedure = p /\ version[u].status = "approved")
    BY <2>1, <2>2 DEF NoOtherApproved
  <2>5. Published[p] = NoVersion
    BY <1>2, <2>4
  <2>6. v \notin Replaced \cup Archived /\ \A q \in Procedure : Published[q] # v
    BY <1>2, <1>3, <2>1
  <2>7. UNCHANGED <<Replaced, Archived>>
    BY <1>3, <1>4, <2>1, <2>3
  <2>8. ASSUME NEW q \in Procedure, NEW u \in Version
        PROVE  [Published EXCEPT ![p] = v][q] = u
                 <=> version'[u].procedure = q /\ version'[u].status = "approved"
    <3>1. CASE u = v
      BY <1>2, <2>2, <2>3, <2>6, <3>1
    <3>2. CASE u # v
      BY <1>2, <2>3, <2>4, <3>2
    <3> QED
      BY <3>1, <3>2
  <2>9. [Published EXCEPT ![p] = v] \in [Procedure -> Version \cup {NoVersion}]
    BY <1>2
  <2>10. Published' = [Published EXCEPT ![p] = v]
    BY <1>1, <2>8, <2>9, PublishedBecomes
  <2> QED
    BY <2>5, <2>6, <2>7, <2>10
<1>9. ASSUME NEW c \in Client, Supersede(c)
      PROVE  \E p \in Procedure, v \in Version :
               /\ v \notin Replaced \cup Archived /\ \A q \in Procedure : Published[q] # v
               /\ Published' = [Published EXCEPT ![p] = v]
               /\ Published[p] # NoVersion
               /\ Replaced' = Replaced \cup {Published[p]} /\ Archived' = Archived
  <2>1. PICK w \in Version, v \in Version :
          /\ version[w].status = "approved" /\ version[v].status = "in_review" /\ v # w
          /\ version[v].procedure = version[w].procedure
          /\ version' = [u \in Version |->
                IF u = w
                THEN [version[u] EXCEPT !.status = "superseded", !.successor = v]
                ELSE IF u = v THEN [version[u] EXCEPT !.status = "approved"]
                ELSE version[u]]
    BY <1>9, SupersedeWrites, ZenonT(60) DEF Approvable
  <2>2. PICK p \in Procedure : p = version[v].procedure
    BY <1>5, <2>1
  <2>3. /\ version'[w] = [version[w] EXCEPT !.status = "superseded", !.successor = v]
        /\ version'[v] = [version[v] EXCEPT !.status = "approved"]
        /\ \A u \in Version \ {v, w} : version'[u] = version[u]
    BY <2>1
  <2>4. version[v] \in VersionRow /\ version[w] \in VersionRow
    BY <1>2
  <2>5. /\ version'[v].status = "approved" /\ version'[v].procedure = p
        /\ version'[w].status = "superseded"
    BY <2>2, <2>3, <2>4 DEF VersionRow
  <2>6. Published[p] = w
    <3>1. version[w].procedure = p /\ version[w].status = "approved"
      BY <2>1, <2>2
    <3> QED
      BY <1>2, <3>1
  <2>7. v \notin Replaced \cup Archived /\ \A q \in Procedure : Published[q] # v
    BY <1>2, <1>3, <2>1
  <2>8. Replaced' = Replaced \cup {w} /\ Archived' = Archived
    BY <1>3, <1>4, <2>1, <2>3, <2>5
  <2>9. ASSUME NEW q \in Procedure, NEW u \in Version
        PROVE  [Published EXCEPT ![p] = v][q] = u
                 <=> version'[u].procedure = q /\ version'[u].status = "approved"
    <3>1. CASE u = v
      BY <1>2, <2>2, <2>5, <2>7, <3>1
    <3>2. CASE u = w
      <4>1. Published[q] = w => q = p
        BY <1>2, <2>1, <2>2
      <4> QED
        BY <1>2, <2>1, <2>5, <3>2, <4>1
    <3>3. CASE u \notin {v, w}
      BY <1>2, <2>3, <2>6, <3>3
    <3> QED
      BY <3>1, <3>2, <3>3
  <2>10. [Published EXCEPT ![p] = v] \in [Procedure -> Version \cup {NoVersion}]
    BY <1>2
  <2>11. Published' = [Published EXCEPT ![p] = v]
    BY <1>1, <2>9, <2>10, PublishedBecomes
  <2> QED
    BY <1>2, <2>6, <2>7, <2>8, <2>11, ZenonT(60)
<1>10. ASSUME NEW c \in Client, Archive(c)
       PROVE  \E v \in Version :
                /\ v \notin Archived
                /\ Archived' = Archived \cup {v} /\ Replaced' = Replaced \ {v}
                /\ Published' = [p \in Procedure |-> IF Published[p] = v THEN NoVersion
                                                     ELSE Published[p]]
  <2>1. PICK v \in Version :
          /\ version[v].status \notin {"archived", "absent"}
          /\ version' = [version EXCEPT ![v] = [version[v] EXCEPT !.status = "archived"]]
    BY <1>10, ArchiveWrites
  <2>2. /\ version'[v].status = "archived"
        /\ \A u \in Version \ {v} : version'[u] = version[u]
    BY <1>2, <2>1 DEF VersionRow
  <2>3. Archived' = Archived \cup {v} /\ Replaced' = Replaced \ {v}
    BY <1>3, <1>4, <2>2
  <2> DEFINE f == [p \in Procedure |-> IF Published[p] = v THEN NoVersion ELSE Published[p]]
  <2>4. ASSUME NEW q \in Procedure, NEW u \in Version
        PROVE  f[q] = u <=> version'[u].procedure = q /\ version'[u].status = "approved"
    <3>1. CASE u = v
      BY <1>2, <2>2, <3>1
    <3>2. CASE u # v
      BY <1>2, <2>2, <3>2
    <3> QED
      BY <3>1, <3>2
  <2>5. f \in [Procedure -> Version \cup {NoVersion}]
    BY <1>2
  <2>6. Published' = f
    <3> HIDE DEF f
    <3> QED
      BY <1>1, <2>4, <2>5, PublishedBecomes
  <2> QED
    BY <1>3, <2>1, <2>3, <2>6
<1>11. ASSUME UNCHANGED governed PROVE UNCHANGED <<Published, Replaced, Archived>>
  BY <1>11 DEF governed, Published, Replaced, Archived, Status
<1>12. CASE \E c \in Client : Write(c)
  <2>1. PICK c \in Client : Write(c)
    BY <1>12
  <2>2. CASE \E v \in Version : CreateDraft(c, v)
    BY <1>6, <2>2
  <2>3. CASE SubmitForReview(c) \/ RecordReview(c)
    BY <1>7, <2>3
  <2>4. CASE Approve(c)
    BY <1>8, <2>4
  <2>5. CASE Supersede(c)
    BY <1>9, <2>5
  <2>6. CASE Archive(c)
    BY <1>10, <2>6
  <2> QED
    BY <2>1, <2>2, <2>3, <2>4, <2>5, <2>6 DEF Write
<1> QED
  BY <1>11, <1>12, OthersOnlyRead

\* Those who use procedures may rely on PublishedWorkflow: whatever requests
\* interleave, versions are published, replaced and retired as it says.
THEOREM Publishes == Spec => ImplementsPublication
<1>1. Init => Publication!PublicationInit
  BY DEF Init, Absent, Status, Publication!PublicationInit
<1>2. ShapeInv /\ EvidenceInv /\ [Next]_vars =>
        [Publication!PublicationNext]_(Publication!publicationVars)
  <2> SUFFICES ASSUME ShapeInv, EvidenceInv, [Next]_vars
               PROVE  \/ Publication!PublicationNext
                      \/ UNCHANGED <<Published, Replaced, Archived>>
    BY DEF Publication!publicationVars, Published, Replaced, Archived
  <2>1. ASSUME NEW p \in Procedure, NEW v \in Version,
               v \notin Replaced \cup Archived, \A q \in Procedure : Published[q] # v,
               Published' = [Published EXCEPT ![p] = v]
        PROVE  /\ Published[p] = NoVersion /\ UNCHANGED <<Replaced, Archived>>
                    => Publication!Publish(p, v)
               /\ Published[p] # NoVersion /\ Replaced' = Replaced \cup {Published[p]}
                    /\ Archived' = Archived => Publication!Replace(p, v)
    BY <2>1 DEF Publication!Publish, Publication!Replace, Publication!Unpublished,
                Published, Replaced, Archived
  <2>2. ASSUME NEW v \in Version, v \notin Archived,
               Archived' = Archived \cup {v}, Replaced' = Replaced \ {v},
               Published' = [p \in Procedure |-> IF Published[p] = v THEN NoVersion
                                                 ELSE Published[p]]
        PROVE  Publication!Retire(v)
    BY <2>2 DEF Publication!Retire, Published, Replaced, Archived
  <2> QED
    BY <2>1, <2>2, PublicationStep DEF Publication!PublicationNext
<1> QED
  BY <1>1, <1>2, Typing, EvidenceHolds, PTL
  DEF Spec, ImplementsPublication, Publication!PublicationSpec
=============================================================================
