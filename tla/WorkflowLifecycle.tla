-------------------------- MODULE WorkflowLifecycle -------------------------
(***************************************************************************)
(* Governed workflow versions of one tenant                                *)
(* (src/src/workflowLifecycle, api/v1/workflowLifecycleHandler.ts,         *)
(* migrations 009 and 010).                                                *)
(*                                                                         *)
(* A mutation is one READ COMMITTED transaction: it claims its             *)
(* idempotency key, locks the rows of the versions it is about, checks the *)
(* transition, writes it and commits.  Transactions interleave at the lock *)
(* waits; the rows a transaction has locked do not change until it ends,   *)
(* so checking, writing and committing are one action.  A lookup reads     *)
(* without locks, one statement at a time.                                 *)
(*                                                                         *)
(* Roles are checked before any state is read: Requests holds the requests *)
(* their principals have the role for.                                     *)
(***************************************************************************)
EXTENDS Naturals, FiniteSets

CONSTANTS Client,      \* concurrent calls of executeMutation
          Reader,      \* concurrent lookups
          Principal,
          Procedure,
          Version,     \* identifiers createDraft can draw
          Key,         \* values of the Idempotency-Key header
          FreshKey,    \* a key that is never used again: its row need not be kept
          Requests,    \* the requests that are sent
          TTL,         \* idempotencyTtlSeconds
          MaxTime,     \* bound on the clock
          LookupOverlap, \* bound on the mutations a lookup overlaps with
          NoVersion, NoProcedure, Nobody, NoRequest, NoRow, NoReview

Operation == {"create", "submit", "review", "approve", "supersede", "archive"}
Decision == {"changes_requested", "recommended_for_approval"}

Request == [by: Principal,
            operation: Operation,
            key: Key \cup {FreshKey},
            procedure: Procedure \cup {NoProcedure},   \* of a create
            version: Version \cup {NoVersion},         \* of all others
            decision: Decision \cup {"none"},          \* of a review
            replacement: Version \cup {NoVersion}]     \* of a supersede

\* A request carries what its operation needs, and a replacement only to
\* supersede (contracts/schemas/v1).
WellFormed(r) ==
  /\ IF r.operation = "create" THEN r.procedure \in Procedure ELSE r.version \in Version
  /\ r.operation = "review" => r.decision \in Decision
  /\ IF r.operation = "supersede" THEN r.replacement \in Version ELSE r.replacement = NoVersion

ASSUME LifecycleConstants ==
  /\ Requests \subseteq {r \in Request : WellFormed(r)}
  /\ IsFiniteSet(Version)
  /\ FreshKey \notin Key
  /\ TTL \in Nat \ {0}
  /\ MaxTime \in Nat /\ LookupOverlap \in Nat
  /\ NoVersion \notin Version /\ NoProcedure \notin Procedure /\ Nobody \notin Principal
  /\ NoRequest \notin Requests

VARIABLES version,    \* rag.procedure_versions
          latest,     \* the row of rag.workflow_reviews that latestReview finds
          newest,     \* the row of rag.workflow_reviews committed last (history)
          approval,   \* rag.workflow_approvals: the approver of each version
          stored,     \* integration.workflow_lifecycle_idempotency
          client,     \* the local state of each mutation
          reader,     \* the local state of each lookup
          now         \* the clock of the API processes

governed == <<version, latest, newest, approval>>
vars == <<governed, stored, client, reader, now>>

Time == 0 .. MaxTime

VersionRow == [status: {"absent", "draft", "in_review", "approved", "superseded", "archived"},
               procedure: Procedure \cup {NoProcedure},
               number: 0 .. Cardinality(Version),
               creator: Principal \cup {Nobody},
               successor: Version \cup {NoVersion}]

Absent == [status |-> "absent", procedure |-> NoProcedure, number |-> 0,
           creator |-> Nobody, successor |-> NoVersion]

Review == [by: Principal, decision: Decision, at: Time]

ASSUME NoReviewIsNoRow == NoReview \notin Review

\* The scope of a key: principal, operation and key.
Scope == Principal \X Operation \X Key
ScopeOf(r) == <<r.by, r.operation, r.key>>

StoredRow == [request: Requests, version: Version, expires: 0 .. MaxTime + TTL]

ClientState == [pc: {"idle", "claiming", "waiting", "locking", "relocking", "writing"},
                request: Requests \cup {NoRequest},
                at: Time,                            \* createdAt, taken before the transaction
                number: 0 .. Cardinality(Version) + 1]   \* next_version of createDraft

Idle == [pc |-> "idle", request |-> NoRequest, at |-> 0, number |-> 0]

ReaderState == [read: 0 .. 3,                        \* statements answered so far
                version: Version \cup {NoVersion},
                status: {"none", "draft", "in_review", "approved", "superseded", "archived"},
                latest: Review \cup {NoReview},
                approval: Principal \cup {Nobody}]

Unread == [read |-> 0, version |-> NoVersion, status |-> "none",
           latest |-> NoReview, approval |-> Nobody]

TypeOK ==
  /\ version \in [Version -> VersionRow]
  /\ latest \in [Version -> Review \cup {NoReview}]
  /\ newest \in [Version -> Review \cup {NoReview}]
  /\ approval \in [Version -> Principal \cup {Nobody}]
  /\ stored \in [Scope -> StoredRow \cup {NoRow}]
  /\ client \in [Client -> ClientState]
  /\ reader \in [Reader -> ReaderState]
  /\ now \in Time

Init ==
  /\ version = [v \in Version |-> Absent]
  /\ latest = [v \in Version |-> NoReview]
  /\ newest = [v \in Version |-> NoReview]
  /\ approval = [v \in Version |-> Nobody]
  /\ stored = [s \in Scope |-> NoRow]
  /\ client = [c \in Client |-> Idle]
  /\ reader = [q \in Reader |-> Unread]
  /\ now = 0
-----------------------------------------------------------------------------
(***************************************************************************)
(* Locks.  The claim's row, the version's (a create: the procedure's) and  *)
(* the replacement's are held from the step that locks them to the end of  *)
(* the transaction.                                                        *)
(***************************************************************************)
Executing(c) == client[c].pc \in {"locking", "relocking", "writing"}

HoldsKey(c, s) ==
  Executing(c) /\ client[c].request.key # FreshKey /\ ScopeOf(client[c].request) = s

HoldsProcedure(c, p) ==
  client[c].pc = "writing" /\ client[c].request.operation = "create"
    /\ client[c].request.procedure = p

HoldsVersion(c, v) ==
  /\ client[c].request # NoRequest
  /\ client[c].request.operation # "create"
  /\ \/ client[c].pc \in {"relocking", "writing"} /\ client[c].request.version = v
     \/ client[c].pc = "writing" /\ client[c].request.replacement = v

KeyTaken(c) == \E d \in Client \ {c} : HoldsKey(d, ScopeOf(client[c].request))
ProcedureTaken(c) == \E d \in Client \ {c} : HoldsProcedure(d, client[c].request.procedure)
VersionTaken(c, v) == \E d \in Client \ {c} : HoldsVersion(d, v)

\* The version a transaction wants to lock next.
Wanted(c) ==
  IF client[c].pc = "relocking" THEN client[c].request.replacement ELSE client[c].request.version

WaitsFor(c, d) ==
  /\ c # d
  /\ client[c].pc \in {"locking", "relocking"}
  /\ client[c].request.operation # "create"
  /\ HoldsVersion(d, Wanted(c))

Deadlocked(c) ==
  \E cs \in SUBSET Client : c \in cs /\ \A d \in cs : \E e \in cs : WaitsFor(d, e)
-----------------------------------------------------------------------------
(***************************************************************************)
(* The claim                                                               *)
(***************************************************************************)
\* Bound: no more drafts are asked for than Version has identifiers.
Room(r) ==
  r.operation = "create" =>
    Cardinality({c \in Client : client[c].pc # "idle" /\ client[c].request.operation = "create"})
      < Cardinality({v \in Version : version[v] = Absent})

\* Bound: a lookup overlaps with few mutations, and none arrives after it.
Busy == {c \in Client : client[c].pc # "idle"}
Looking == \E q \in Reader : reader[q].version # NoVersion
MayArrive ==
  Looking => /\ Cardinality(Busy) < LookupOverlap
             /\ \A q \in Reader : reader[q].read < 3

\* createdAt is taken here, before the transaction begins.
Arrive(c, r) ==
  /\ client[c].pc = "idle"
  /\ Room(r) /\ MayArrive
  /\ client' = [client EXCEPT ![c] = [Idle EXCEPT !.pc = "claiming", !.request = r, !.at = now]]
  /\ UNCHANGED <<governed, stored, reader, now>>

\* ON CONFLICT DO NOTHING waits for the transaction that has the same key.
AwaitKey(c) ==
  /\ client[c].pc = "claiming"
  /\ KeyTaken(c)
  /\ client' = [client EXCEPT ![c].pc = "waiting"]
  /\ UNCHANGED <<governed, stored, reader, now>>

\* The row of the claim's key still counts at the time of the request.
Live(c) ==
  /\ client[c].request.key # FreshKey
  /\ stored[ScopeOf(client[c].request)] # NoRow
  /\ stored[ScopeOf(client[c].request)].expires > client[c].at

\* Deviation: the claim does not wait for the other transaction.
ClaimAtOnce(c) ==
  /\ client[c].pc \in {"claiming", "waiting"}
  /\ ~Live(c)
  /\ client' = [client EXCEPT ![c].pc = "locking"]
  /\ UNCHANGED <<governed, stored, reader, now>>

\* claimIdempotency answers "new": no row, or one that is deleted as expired.
Claim(c) ==
  /\ client[c].pc \in {"claiming", "waiting"}
  /\ ~KeyTaken(c) /\ ~Live(c)
  /\ client' = [client EXCEPT ![c].pc = "locking"]
  /\ UNCHANGED <<governed, stored, reader, now>>

\* It answers "replay" for the same request and "conflict" for another one;
\* either way nothing is written.
AnswerFromRow(c) ==
  /\ client[c].pc \in {"claiming", "waiting"}
  /\ ~KeyTaken(c) /\ Live(c)
  /\ client' = [client EXCEPT ![c] = Idle]
  /\ UNCHANGED <<governed, stored, reader, now>>
-----------------------------------------------------------------------------
(***************************************************************************)
(* Row locks                                                               *)
(***************************************************************************)
\* Deviation: one is added twice.
NumberPastNext(p) == Cardinality({v \in Version : version[v].procedure = p}) + 2

Numbers(p) == {version[v].number : v \in {u \in Version : version[u].procedure = p}}

\* max(version_number) + 1
NextNumber(p) ==
  CHOOSE n \in 1 .. Cardinality(Version) + 1 :
    n - 1 \in Numbers(p) \cup {0} /\ \A m \in Numbers(p) : m < n

\* Deviation: the procedure is read without FOR UPDATE.
LockNoProcedure(c) ==
  /\ client[c].pc = "locking"
  /\ client[c].request.operation = "create"
  /\ client' = [client EXCEPT ![c].pc = "writing",
                              ![c].number = NextNumber(client[c].request.procedure)]
  /\ UNCHANGED <<governed, stored, reader, now>>

\* createDraft: the procedure, which the first draft inserts, and the number
\* after the highest one.
LockProcedure(c) ==
  /\ client[c].pc = "locking"
  /\ client[c].request.operation = "create"
  /\ ~ProcedureTaken(c)
  /\ client' = [client EXCEPT ![c].pc = "writing",
                              ![c].number = NextNumber(client[c].request.procedure)]
  /\ UNCHANGED <<governed, stored, reader, now>>

\* Deviation: the version is read without FOR UPDATE.
LockNoVersion(c) ==
  /\ client[c].pc = "locking"
  /\ client[c].request.operation # "create"
  /\ version[client[c].request.version] # Absent
  /\ client' = [client EXCEPT ![c].pc =
                  IF client[c].request.operation = "supersede" THEN "relocking" ELSE "writing"]
  /\ UNCHANGED <<governed, stored, reader, now>>

\* get(..., forUpdate) of the version the request is about.
LockVersion(c) ==
  /\ client[c].pc = "locking"
  /\ client[c].request.operation # "create"
  /\ version[client[c].request.version] # Absent
  /\ ~VersionTaken(c, client[c].request.version)
  /\ client' = [client EXCEPT ![c].pc =
                  IF client[c].request.operation = "supersede" THEN "relocking" ELSE "writing"]
  /\ UNCHANGED <<governed, stored, reader, now>>

\* supersede: get(..., forUpdate) of the replacement.
LockReplacement(c) ==
  /\ client[c].pc = "relocking"
  /\ version[client[c].request.replacement] # Absent
  /\ ~VersionTaken(c, client[c].request.replacement)
  /\ client' = [client EXCEPT ![c].pc = "writing"]
  /\ UNCHANGED <<governed, stored, reader, now>>

\* not_found, and workflow_supersession_invalid of a missing replacement.
NotFound(c) ==
  /\ client[c].pc \in {"locking", "relocking"}
  /\ client[c].request.operation # "create"
  /\ version[Wanted(c)] = Absent
  /\ client' = [client EXCEPT ![c] = Idle]
  /\ UNCHANGED <<governed, stored, reader, now>>
-----------------------------------------------------------------------------
(***************************************************************************)
(* The transitions.  Each one is written together with the completed       *)
(* idempotency row, and the transaction commits.                           *)
(***************************************************************************)
Writes(c, operation) ==
  client[c].pc = "writing" /\ client[c].request.operation = operation

\* completeIdempotency and COMMIT; the response names version v.
Completed(c, v) ==
  LET r == client[c].request
  IN  /\ stored' = IF r.key = FreshKey THEN stored
                   ELSE [stored EXCEPT ![ScopeOf(r)] =
                           [request |-> r, version |-> v, expires |-> client[c].at + TTL]]
      /\ client' = [client EXCEPT ![c] = Idle]
      /\ UNCHANGED <<reader, now>>

\* initializeWorkflowVersion; the unique number is another constraint.
CreateDraft(c, v) ==
  LET r == client[c].request
  IN  /\ Writes(c, "create")
      /\ version[v] = Absent
      /\ client[c].number \notin Numbers(r.procedure)
      /\ version' = [version EXCEPT ![v] =
                       [status |-> "draft", procedure |-> r.procedure, number |-> client[c].number,
                        creator |-> r.by, successor |-> NoVersion]]
      /\ UNCHANGED <<latest, newest, approval>>
      /\ Completed(c, v)

MaySubmit(r) == version[r.version].status = "draft"

\* The reviews of an earlier submission stay in the table.
SubmitForReview(c) ==
  LET r == client[c].request
  IN  /\ Writes(c, "submit")
      /\ MaySubmit(r)
      /\ version' = [version EXCEPT ![r.version].status = "in_review"]
      /\ UNCHANGED <<latest, newest, approval>>
      /\ Completed(c, r.version)

MayReview(r) ==
  /\ version[r.version].status = "in_review"
  /\ r.by # version[r.version].creator

\* ORDER BY created_at DESC, id DESC: ties are broken by random identifiers.
Latest(old, new) ==
  IF old = NoReview \/ old.at < new.at THEN {new}
  ELSE IF old.at = new.at THEN {old, new}
  ELSE {old}

RecordReview(c) ==
  LET r == client[c].request
      new == [by |-> r.by, decision |-> r.decision, at |-> client[c].at]
  IN  /\ Writes(c, "review")
      /\ MayReview(r)
      /\ newest' = [newest EXCEPT ![r.version] = new]
      /\ \E row \in Latest(latest[r.version], new) : latest' = [latest EXCEPT ![r.version] = row]
      /\ version' = [version EXCEPT ![r.version].status =
                       IF r.decision = "changes_requested" THEN "draft" ELSE "in_review"]
      /\ UNCHANGED approval
      /\ Completed(c, r.version)

\* Deviation: the approver is compared with the creator only.
ApprovableByReviewer(v, by) ==
  /\ version[v].status = "in_review"
  /\ latest[v] # NoReview
  /\ latest[v].decision = "recommended_for_approval"
  /\ by # version[v].creator

\* Deviation: the replacement may be an earlier version as well.
ApprovableInAnyStatus(v, by) ==
  /\ version[v].status \in {"in_review", "superseded"}
  /\ latest[v] # NoReview
  /\ latest[v].decision = "recommended_for_approval"
  /\ by \notin {version[v].creator, latest[v].by}

\* approveWorkflowVersion, and the triggers, which check the same.
Approvable(v, by) ==
  /\ version[v].status = "in_review"
  /\ latest[v] # NoReview
  /\ latest[v].decision = "recommended_for_approval"
  /\ by \notin {version[v].creator, latest[v].by}

\* Deviation: there is no unique index on approved versions.
NoOneApprovedIndex(v) == TRUE

\* procedure_versions_one_approved_idx, which waits for writers in progress.
NoOtherApproved(v) ==
  \A u \in Version \ {v} :
    version[u].procedure = version[v].procedure => version[u].status # "approved"

MayApprove(r) == Approvable(r.version, r.by) /\ NoOtherApproved(r.version)

Approve(c) ==
  LET r == client[c].request
  IN  /\ Writes(c, "approve")
      /\ MayApprove(r)
      /\ version' = [version EXCEPT ![r.version].status = "approved"]
      /\ approval' = [approval EXCEPT ![r.version] = r.by]
      /\ UNCHANGED <<latest, newest>>
      /\ Completed(c, r.version)

MaySupersede(r) ==
  /\ version[r.version].status = "approved"
  /\ r.replacement # r.version
  /\ version[r.replacement].procedure = version[r.version].procedure
  /\ Approvable(r.replacement, r.by)

\* Deviation: the replacement has to be approved by a request of its own.
SupersedeFirst(c) ==
  LET r == client[c].request
  IN  /\ Writes(c, "supersede")
      /\ MaySupersede(r)
      /\ version' = [version EXCEPT ![r.version].status = "superseded",
                                    ![r.version].successor = r.replacement]
      /\ UNCHANGED <<latest, newest, approval>>
      /\ Completed(c, r.version)

\* approveReplacementAndSupersede: both versions change together.
Supersede(c) ==
  LET r == client[c].request
  IN  /\ Writes(c, "supersede")
      /\ MaySupersede(r)
      /\ version' = [version EXCEPT ![r.version].status = "superseded",
                                    ![r.version].successor = r.replacement,
                                    ![r.replacement].status = "approved"]
      /\ approval' = [approval EXCEPT ![r.replacement] = r.by]
      /\ UNCHANGED <<latest, newest>>
      /\ Completed(c, r.version)

MayArchive(r) == version[r.version].status # "archived"

Archive(c) ==
  LET r == client[c].request
  IN  /\ Writes(c, "archive")
      /\ MayArchive(r)
      /\ version' = [version EXCEPT ![r.version].status = "archived"]
      /\ UNCHANGED <<latest, newest, approval>>
      /\ Completed(c, r.version)

\* The request asks for what the state machine, a trigger or a unique index
\* does not allow.
Forbidden(c) ==
  LET r == client[c].request
  IN  \/ Writes(c, "create") /\ client[c].number \in Numbers(r.procedure)
      \/ Writes(c, "submit") /\ ~MaySubmit(r)
      \/ Writes(c, "review") /\ ~MayReview(r)
      \/ Writes(c, "approve") /\ ~MayApprove(r)
      \/ Writes(c, "supersede") /\ ~MaySupersede(r)
      \/ Writes(c, "archive") /\ ~MayArchive(r)

\* Deviation: a refused transaction is never rolled back.
RefuseStaysOpen(c) == Forbidden(c) /\ UNCHANGED vars

\* The transaction rolls back, the claim with it: releaseIdempotency has
\* nothing left to delete.
Refuse(c) ==
  /\ Forbidden(c)
  /\ client' = [client EXCEPT ![c] = Idle]
  /\ UNCHANGED <<governed, stored, reader, now>>

\* PostgreSQL ends one transaction of a cycle of lock waits.
DeadlockAborted(c) ==
  /\ Deadlocked(c)
  /\ client' = [client EXCEPT ![c] = Idle]
  /\ UNCHANGED <<governed, stored, reader, now>>

\* The process dies or the database fails; an open transaction rolls back.
Crash(c) ==
  /\ client[c].pc # "idle"
  /\ client' = [client EXCEPT ![c] = Idle]
  /\ UNCHANGED <<governed, stored, reader, now>>
-----------------------------------------------------------------------------
(***************************************************************************)
(* Lookups: three statements, each with a snapshot of its own              *)
(***************************************************************************)
\* Deviation: the evidence is read before the version.
EvidenceFirst == <<"approval", "review", "version">>

\* get, latestReview, approval.
ReadOrder == <<"version", "review", "approval">>

StartRead(q, v) ==
  /\ reader[q].version = NoVersion
  /\ version[v] # Absent
  /\ Cardinality(Busy) <= LookupOverlap
  /\ reader' = [reader EXCEPT ![q].version = v]
  /\ UNCHANGED <<governed, stored, client, now>>

ReadStatement(q) ==
  LET v == reader[q].version
      next == ReadOrder[reader[q].read + 1]
  IN  /\ v # NoVersion /\ reader[q].read < 3
      /\ reader' = [reader EXCEPT ![q].read = reader[q].read + 1,
                       ![q].status = IF next = "version" THEN version[v].status ELSE @,
                       ![q].latest = IF next = "review" THEN latest[v] ELSE @,
                       ![q].approval = IF next = "approval" THEN approval[v] ELSE @]
      /\ UNCHANGED <<governed, stored, client, now>>

Read(q) == (\E v \in Version : StartRead(q, v)) \/ ReadStatement(q)
-----------------------------------------------------------------------------
Tick ==
  /\ now < MaxTime
  /\ now' = now + 1
  /\ UNCHANGED <<governed, stored, client, reader>>

Lock(c) == LockProcedure(c) \/ LockVersion(c) \/ LockReplacement(c)

Write(c) ==
  \/ \E v \in Version : CreateDraft(c, v)
  \/ SubmitForReview(c) \/ RecordReview(c)
  \/ Approve(c) \/ Supersede(c) \/ Archive(c)

Proceed(c) ==
  \/ AwaitKey(c) \/ Claim(c) \/ AnswerFromRow(c)
  \/ Lock(c) \/ NotFound(c)
  \/ Write(c) \/ Refuse(c)
  \/ DeadlockAborted(c)

Next ==
  \/ \E c \in Client, r \in Requests : Arrive(c, r)
  \/ \E c \in Client : Proceed(c)
  \/ \E c \in Client : Crash(c)
  \/ \E q \in Reader : Read(q)
  \/ Tick

Spec == Init /\ [][Next]_vars

\* A transaction goes on when it can, and the database grants a lock to those
\* who wait for it in turn.
Fairness ==
  \A c \in Client :
    WF_vars(Proceed(c)) /\ SF_vars(Claim(c) \/ AnswerFromRow(c)) /\ SF_vars(Lock(c))

FairSpec == Spec /\ Fairness
-----------------------------------------------------------------------------
(***************************************************************************)
(* Properties                                                              *)
(***************************************************************************)
Status(v) == version[v].status

\* What a transaction has locked stays as it read it until its own end: nobody
\* else moves the version, its reviews or its approval on (FOR UPDATE in get;
\* this is also why checking and writing can be one action here).
LockedRowsStay ==
  [][\A c \in Client, v \in Version :
       HoldsVersion(c, v) /\ <<version[v], latest[v], approval[v]>>'
                              # <<version[v], latest[v], approval[v]>> =>
         client[c].pc = "writing" /\ client'[c].pc = "idle"]_vars

\* A procedure has one approved version at most, however approvals and
\* supersessions of its versions interleave (procedure_versions_one_approved_idx,
\* approveReplacementAndSupersede).
OneApprovedPerProcedure ==
  \A u, v \in Version :
    Status(u) = "approved" /\ Status(v) = "approved"
      /\ version[u].procedure = version[v].procedure => u = v

\* What is or was published rests on a recommendation and an approval by three
\* different principals with the creator, although a principal may hold several
\* roles; and an approval is on record only for what was published
\* (recordWorkflowReview, approveWorkflowVersion, migration 009).
ApprovedOnEvidence ==
  \A v \in Version :
    /\ Status(v) \in {"approved", "superseded"} => approval[v] # Nobody
    /\ approval[v] # Nobody =>
         /\ Status(v) \in {"approved", "superseded", "archived"}
         /\ latest[v].decision = "recommended_for_approval"
         /\ Cardinality({version[v].creator, latest[v].by, approval[v]}) = 3

\* The successor of a version is a published version of the same procedure, and
\* no chain of supersessions leads back to where it began: no set of versions
\* is closed under succession (supersede locks both versions).
SuccessionEnds ==
  /\ \A v \in Version : version[v].successor # NoVersion =>
       /\ approval[version[v].successor] # Nobody
       /\ version[version[v].successor].procedure = version[v].procedure
  /\ \A vs \in (SUBSET Version) \ {{}} : \E v \in vs : version[v].successor \notin vs

\* The versions of a procedure are numbered without gaps, and a draft that has
\* its number always gets it: two drafts of a procedure never race for one
\* (createDraft locks the procedure before it reads the highest number).
NumberedInOrder ==
  /\ \A p \in Procedure : Numbers(p) = 1 .. Cardinality({v \in Version : version[v].procedure = p})
  /\ \A c \in Client : Writes(c, "create") =>
       client[c].number \notin Numbers(client[c].request.procedure)

\* The versions of a procedure, their numbers, approvals and successors fit
\* together at every moment (createDraft, approve, supersede).
VersionsFit ==
  OneApprovedPerProcedure /\ ApprovedOnEvidence /\ SuccessionEnds /\ NumberedInOrder

\* A completed row of the idempotency table tells of something that happened,
\* so that a replay never answers for a transition that was rolled back
\* (completeIdempotency in the transaction of the transition).
StoredAnswersAreTrue ==
  \A s \in Scope : stored[s] # NoRow =>
    LET r == stored[s].request
        v == stored[s].version
    IN  CASE r.operation = "create" ->
               version[v].creator = r.by /\ version[v].procedure = r.procedure
          [] r.operation = "submit" -> Status(v) # "draft" \/ newest[v] # NoReview
          [] r.operation = "review" -> newest[v] # NoReview
          [] r.operation = "approve" -> approval[v] = r.by
          [] r.operation = "supersede" ->
               version[v].successor = r.replacement /\ approval[r.replacement] = r.by
          [] r.operation = "archive" -> Status(v) = "archived"

\* A key is executed a second time only for a request made a full TTL after the
\* one whose row it replaces: duplicates in flight execute once
\* (claimIdempotency).
ExecutedOncePerTTL ==
  [][\A s \in Scope : stored[s] # NoRow /\ stored'[s] # stored[s] =>
       stored'[s].expires >= stored[s].expires + TTL]_vars

\* Under a key a transition is executed once per TTL, and a replay tells of
\* what was done (claimIdempotency, completeIdempotency).
ReplaysHold == []StoredAnswersAreTrue /\ ExecutedOncePerTTL

\* A lookup that shows a published version also shows the recommendation and
\* the approval it rests on, although it reads them one by one while the
\* lifecycle moves on (mapRow).
ReadsShowEvidence ==
  \A q \in Reader :
    reader[q].read = 3 /\ reader[q].status \in {"approved", "superseded"} =>
      /\ reader[q].approval # Nobody
      /\ reader[q].latest # NoReview
      /\ reader[q].latest.decision = "recommended_for_approval"

\* A request that was made is answered unless its process dies: nobody waits
\* for ever for a key, a version or a replacement.
RequestsEnd == \A c \in Client : client[c].pc # "idle" ~> client[c].pc = "idle"

Publication == INSTANCE PublishedWorkflow WITH
  published <- [p \in Procedure |->
                  IF \E v \in Version : version[v].procedure = p /\ Status(v) = "approved"
                  THEN CHOOSE v \in Version : version[v].procedure = p /\ Status(v) = "approved"
                  ELSE NoVersion],
  replaced <- {v \in Version : Status(v) = "superseded"},
  archived <- {v \in Version : Status(v) = "archived"}

\* Those who use procedures may rely on PublishedWorkflow.
ImplementsPublication == Publication!PublicationSpec

\* specs/058: approval requires the latest review to recommend approval (of
\* reviews with one timestamp, none is the latest).
ApprovalNeedsLatestReview ==
  [][\A v \in Version : Status(v) # "approved" /\ version'[v].status = "approved" =>
       \/ newest[v].decision = "recommended_for_approval"
       \/ newest[v].at = latest[v].at]_vars
=============================================================================
