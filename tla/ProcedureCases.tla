---------------------------- MODULE ProcedureCases ---------------------------
(***************************************************************************)
(* The operational cases of one tenant (src/src/procedureCases,            *)
(* api/v1/procedureCaseHandler.ts, migration 013).                         *)
(*                                                                         *)
(* A mutation is one READ COMMITTED transaction.  It claims its            *)
(* idempotency key in three statements, SELECT ... FOR UPDATE, DELETE and  *)
(* INSERT, each of which sees what is committed when it begins and waits   *)
(* for the rows that another transaction has locked; then it creates or    *)
(* locks and changes the case, stores the answer under the key and         *)
(* commits.  Nothing another transaction can see happens between the lock  *)
(* of the case and the commit, so they are one action.                     *)
(*                                                                         *)
(* Permissions and the form of a request are checked before any state is   *)
(* read: Calls holds the requests that pass.                               *)
(***************************************************************************)
EXTENDS Naturals, Sequences, FiniteSets

CONSTANTS Client,            \* concurrent calls of executeMutation
          Reader,            \* concurrent GETs
          Principal,
          Key,               \* values of the Idempotency-Key header
          FreshKey,          \* a key that is never used again: its row need not be kept
          Case,              \* identifiers the handler can draw
          CaseKey,
          WorkflowVersion,
          Step,
          StepsOf,           \* the steps of each workflow definition, in order
          Blocker,           \* identifiers the handler can draw
          Requirement,
          Document,          \* document version identifiers a request may name
          KnownDocument,     \* those of rag.document_versions
          NoDocument,
          Calls,             \* the requests that are sent, with their keys
          TTL,               \* idempotencyTtlSeconds
          MaxTime,           \* bound on the clock
          NoCase, NoRequest, NoRow

StepState == {"not_started", "in_progress", "blocked", "ready_for_review", "completed"}
DocumentState == {"missing", "requested", "received", "reviewed"}
Validation == {"unreviewed", "in_review", "validated", "changes_required"}
Status == {"active", "blocked", "ready_for_review", "closed"}

Action ==
  [type: {"set_step_state"}, step: Step, state: StepState] \cup
  [type: {"record_document"}, requirement: Requirement, state: DocumentState,
   document: Document \cup {NoDocument}] \cup
  [type: {"add_blocker", "set_follow_up", "append_note", "close_case"}] \cup
  [type: {"resolve_blocker"}, blocker: Blocker] \cup
  [type: {"set_validation_state"}, validation: Validation]

Creation == [operation: {"create"}, by: Principal, caseKey: CaseKey, workflow: WorkflowVersion]
Update == [operation: {"update"}, by: Principal, case: Case, expected: Nat \ {0}, action: Action]
Request == Creation \cup Update

Requests == {call.request : call \in Calls}
Creations == {r \in Requests : r.operation = "create"}
Updates == {r \in Requests : r.operation = "update"}
CreationsOf(key) == {r \in Creations : r.caseKey = key}

\* Bound: identifiers enough for every case and blocker the requests can make.
ASSUME CaseConstants ==
  /\ Calls \subseteq [request: Request, key: Key \cup {FreshKey}]
  /\ FreshKey \notin Key
  /\ TTL \in Nat \ {0}
  /\ MaxTime \in Nat
  /\ StepsOf \in [WorkflowVersion -> Seq(Step)]
  /\ KnownDocument \subseteq Document /\ NoDocument \notin Document /\ NoCase \notin Case
  /\ NoRequest \notin Requests
  /\ Cardinality({key \in CaseKey : CreationsOf(key) # {}}) <= Cardinality(Case)
  /\ \A x \in Case :
       Cardinality({r \in Updates : r.case = x /\ r.action.type = "add_blocker"})
         <= Cardinality(Blocker)

VARIABLES case,      \* rag.procedure_cases and its steps, documents, blockers, events
          approved,  \* the workflow versions whose lifecycle_status is approved
          stored,    \* integration.procedure_case_idempotency, as committed
          client,    \* the local state of each mutation
          reader,    \* the local state of each GET
          answers,   \* every answer of success given so far (history)
          now        \* the clock of the API processes

vars == <<case, approved, stored, client, reader, answers, now>>

Time == 0 .. MaxTime

Event == [revision: Nat \ {0}, request: Requests]

CaseRow == [creation: Requests \cup {NoRequest},   \* create_request_sha256, bound columns
            status: Status,
            validation: Validation,
            current: Step \cup {"none"},
            revision: Nat,
            steps: [Step -> StepState],            \* of StepsOf[workflow]
            documents: [Requirement -> [state: DocumentState, document: Document \cup {NoDocument}]],
            blockers: [Blocker -> {"none", "open", "resolved"}],
            trail: Seq(Event)]                     \* rag.procedure_case_events

Absent == [creation |-> NoRequest, status |-> "active", validation |-> "unreviewed",
           current |-> "none", revision |-> 0,
           steps |-> [s \in Step |-> "not_started"],
           documents |-> [q \in Requirement |-> [state |-> "missing", document |-> NoDocument]],
           blockers |-> [b \in Blocker |-> "none"],
           trail |-> <<>>]

Answer == [request: Requests, case: Case, revision: Nat \ {0}]

\* The scope of a key: principal, operation and key.
Scope == Principal \X {"create", "update"} \X Key

StoredRow == [answer: Answer, expires: 0 .. MaxTime + TTL]

\* row: what the transaction did to the committed row of its key.
ClientState == [pc: {"idle", "fencing", "looking", "waiting", "deleting", "delaying",
                     "inserting", "working"},
                request: Requests \cup {NoRequest},
                key: Key \cup {FreshKey},
                at: Time,                      \* now, taken before the transaction
                row: {"untouched", "locked", "deleted"}]

Idle == [pc |-> "idle", request |-> NoRequest, key |-> FreshKey, at |-> 0, row |-> "untouched"]

ReaderState == [read: 0 .. 2, case: Case \cup {NoCase}, status: Status, revision: Nat, events: Nat]

Unread == [read |-> 0, case |-> NoCase, status |-> "active", revision |-> 0, events |-> 0]

TypeOK ==
  /\ case \in [Case -> CaseRow]
  /\ approved \subseteq WorkflowVersion
  /\ stored \in [Scope -> StoredRow \cup {NoRow}]
  /\ client \in [Client -> ClientState]
  /\ reader \in [Reader -> ReaderState]
  /\ answers \subseteq Answer
  /\ now \in Time

Init ==
  /\ case = [x \in Case |-> Absent]
  /\ approved = WorkflowVersion
  /\ stored = [s \in Scope |-> NoRow]
  /\ client = [c \in Client |-> Idle]
  /\ reader = [q \in Reader |-> Unread]
  /\ answers = {}
  /\ now = 0
-----------------------------------------------------------------------------
(***************************************************************************)
(* Locks                                                                   *)
(***************************************************************************)
ScopeOf(c) == <<client[c].request.by, client[c].request.operation, client[c].key>>

SameScope(c, d) ==
  /\ c # d
  /\ client[c].pc # "idle" /\ client[d].pc # "idle"
  /\ client[c].key # FreshKey
  /\ ScopeOf(c) = ScopeOf(d)

\* pg_advisory_xact_lock on principal and request, to the end of the transaction.
FenceTaken(c) ==
  \E d \in Client \ {c} :
    client[d].pc \notin {"idle", "fencing"} /\ client[d].request = client[c].request

\* Another transaction has locked or deleted the committed row.
RowTaken(c) == \E d \in Client : SameScope(c, d) /\ client[d].row # "untouched"

\* A unique index waits for insertions and deletions that are not committed.
IndexTaken(c) ==
  \E d \in Client : SameScope(c, d) /\ (client[d].pc = "working" \/ client[d].row = "deleted")

Row(c) == stored[ScopeOf(c)]

\* The transaction of c ends; those that wait for its row go on.  A SELECT or a
\* DELETE that waited for a row that is now deleted finds no row, even if the
\* key has a new one; after a rollback it finds the row.
EndOf(c, selecting, deleting) ==
  [d \in Client |->
    IF d = c THEN Idle
    ELSE IF SameScope(c, d) /\ client[c].row # "untouched" /\ client[d].pc = "waiting"
         THEN [client[d] EXCEPT !.pc = selecting]
    ELSE IF SameScope(c, d) /\ client[c].row # "untouched" /\ client[d].pc = "delaying"
         THEN [client[d] EXCEPT !.pc = deleting]
    ELSE client[d]]

Commit(c) == client' = EndOf(c, "deleting", "inserting")
Rollback(c) == client' = EndOf(c, "looking", "deleting")
-----------------------------------------------------------------------------
(***************************************************************************)
(* The claim                                                               *)
(***************************************************************************)
\* The time of the request is taken before its transaction begins.
Arrive(c, call) ==
  /\ client[c].pc = "idle"
  /\ client' = [client EXCEPT ![c] =
       [pc |-> IF call.request.operation = "create" THEN "fencing" ELSE "looking",
        request |-> call.request, key |-> call.key, at |-> now, row |-> "untouched"]]
  /\ UNCHANGED <<case, approved, stored, reader, answers, now>>

CreatedBy(r) == {x \in Case : case[x].creation = r}

\* A create takes its fence and finds no case of the same request.
TakeFence(c) ==
  /\ client[c].pc = "fencing"
  /\ ~FenceTaken(c)
  /\ CreatedBy(client[c].request) = {}
  /\ client' = [client EXCEPT ![c].pc = "looking"]
  /\ UNCHANGED <<case, approved, stored, reader, answers, now>>

\* It finds one: the answer sealed with the case is given again under any key.
AnswerFromCase(c) ==
  /\ client[c].pc = "fencing"
  /\ ~FenceTaken(c)
  /\ \E x \in CreatedBy(client[c].request) :
       answers' = answers \cup {[request |-> client[c].request, case |-> x, revision |-> 1]}
  /\ client' = [client EXCEPT ![c] = Idle]
  /\ UNCHANGED <<case, approved, stored, reader, now>>

\* A fresh key has no row to find, delete or collide with.
ClaimFreshKey(c) ==
  /\ client[c].pc = "looking"
  /\ client[c].key = FreshKey
  /\ client' = [client EXCEPT ![c].pc = "working"]
  /\ UNCHANGED <<case, approved, stored, reader, answers, now>>

Looks(c) == client[c].pc = "looking" /\ client[c].key # FreshKey

Live(c) == Row(c) # NoRow /\ Row(c).expires > client[c].at

\* SELECT ... FOR UPDATE waits for the transaction that has the row.
AwaitRow(c) ==
  /\ Looks(c)
  /\ Row(c) # NoRow /\ RowTaken(c)
  /\ client' = [client EXCEPT ![c].pc = "waiting"]
  /\ UNCHANGED <<case, approved, stored, reader, answers, now>>

\* It finds a row that counts: replay for the same request, else conflict.
AnswerFromRow(c) ==
  /\ Looks(c)
  /\ Live(c) /\ ~RowTaken(c)
  /\ answers' = IF Row(c).answer.request = client[c].request
                THEN answers \cup {Row(c).answer} ELSE answers
  /\ client' = [client EXCEPT ![c] = Idle]
  /\ UNCHANGED <<case, approved, stored, reader, now>>

\* It finds no row, or an expired one, which stays locked.
FindNoAnswer(c) ==
  /\ Looks(c)
  /\ Row(c) = NoRow \/ (~Live(c) /\ ~RowTaken(c))
  /\ client' = [client EXCEPT ![c].pc = "deleting",
                              ![c].row = IF Row(c) = NoRow THEN "untouched" ELSE "locked"]
  /\ UNCHANGED <<case, approved, stored, reader, answers, now>>

\* DELETE takes whatever row the key has by now, expired or not.
DeleteRow(c) ==
  /\ client[c].pc = "deleting"
  /\ Row(c) = NoRow \/ ~RowTaken(c)
  /\ client' = [client EXCEPT ![c].pc = "inserting",
                              ![c].row = IF Row(c) = NoRow THEN "untouched" ELSE "deleted"]
  /\ UNCHANGED <<case, approved, stored, reader, answers, now>>

AwaitDelete(c) ==
  /\ client[c].pc = "deleting"
  /\ Row(c) # NoRow /\ RowTaken(c)
  /\ client' = [client EXCEPT ![c].pc = "delaying"]
  /\ UNCHANGED <<case, approved, stored, reader, answers, now>>

Collides(c) == client[c].row # "deleted" /\ Row(c) # NoRow

\* Deviation: the INSERT does not wait for another one.
InsertAtOnce(c) ==
  /\ client[c].pc = "inserting"
  /\ ~Collides(c)
  /\ client' = [client EXCEPT ![c].pc = "working"]
  /\ UNCHANGED <<case, approved, stored, reader, answers, now>>

InsertRow(c) ==
  /\ client[c].pc = "inserting"
  /\ ~IndexTaken(c) /\ ~Collides(c)
  /\ client' = [client EXCEPT ![c].pc = "working"]
  /\ UNCHANGED <<case, approved, stored, reader, answers, now>>

\* A unique violation ends the transaction with internal_error.
InsertFails(c) ==
  /\ client[c].pc = "inserting"
  /\ ~IndexTaken(c) /\ Collides(c)
  /\ Rollback(c)
  /\ UNCHANGED <<case, approved, stored, reader, answers, now>>
-----------------------------------------------------------------------------
(***************************************************************************)
(* The work.  Each change is committed with the event that records it and  *)
(* with the answer under the key.                                          *)
(***************************************************************************)
\* completeIdempotency and COMMIT, with case x as the answer.
Completed(c, x, row) ==
  LET answer == [request |-> client[c].request, case |-> x, revision |-> row.revision]
  IN  /\ case' = [case EXCEPT ![x] = row]
      /\ answers' = answers \cup {answer}
      /\ stored' = IF client[c].key = FreshKey THEN stored
                   ELSE [stored EXCEPT ![ScopeOf(c)] =
                           [answer |-> answer, expires |-> client[c].at + TTL]]
      /\ Commit(c)
      /\ UNCHANGED <<approved, reader, now>>

\* The workflow is read, and read again by a trigger; both unique indexes wait
\* for insertions that are not committed.
MayCreate(r) ==
  /\ r.workflow \in approved
  /\ StepsOf[r.workflow] # <<>>
  /\ \A x \in Case : case[x].creation # NoRequest => case[x].creation.caseKey # r.caseKey
  /\ CreatedBy(r) = {}

\* The first step is the current one.
CreateCase(c, x) ==
  LET r == client[c].request
  IN  /\ client[c].pc = "working" /\ r.operation = "create"
      /\ MayCreate(r)
      /\ case[x] = Absent
      /\ Completed(c, x, [Absent EXCEPT !.creation = r, !.revision = 1,
                                        !.current = StepsOf[r.workflow][1],
                                        !.trail = <<[revision |-> 1, request |-> r]>>])

\* Deviation: expected_revision is not compared.
OpenAtAnyRevision(r) == case[r.case] # Absent /\ case[r.case].status # "closed"

\* Deviation: a closed case can change.
OpenIfClosed(r) == case[r.case] # Absent /\ case[r.case].revision = r.expected

\* What applyAction requires whatever the action is.
Open(r) ==
  /\ case[r.case] # Absent
  /\ case[r.case].revision = r.expected
  /\ case[r.case].status # "closed"

StepsIn(w) == {StepsOf[w][i] : i \in DOMAIN StepsOf[w]}

Admissible(r) ==
  LET a == r.action
      row == case[r.case]
  IN  /\ a.type = "set_step_state" => a.step \in StepsIn(row.creation.workflow)
      /\ a.type = "record_document" =>
           \/ a.document \in KnownDocument
           \/ a.document = NoDocument /\ a.state \notin {"received", "reviewed"}
      /\ a.type = "resolve_blocker" => row.blockers[a.blocker] = "open"

Changes(c, type) ==
  LET r == client[c].request
  IN  /\ client[c].pc = "working" /\ r.operation = "update" /\ r.action.type = type
      /\ Open(r) /\ Admissible(r)

Before(c) == case[client[c].request.case]

\* The revision advances by one and the event has the new one.
Changed(c, row) ==
  LET next == row.revision + 1
  IN  Completed(c, client[c].request.case,
        [row EXCEPT !.revision = next,
                    !.trail = Append(@, [revision |-> next, request |-> client[c].request])])

\* Deviation: the case takes the state of the step.
StatusOfStep(status, state) == IF state = "not_started" THEN status ELSE state

\* Deviation: progress on a step makes a blocked case active.
StatusUnblocked(status, state) ==
  IF state \in {"blocked", "ready_for_review"} THEN state
  ELSE IF state = "in_progress" THEN "active"
  ELSE status

StatusAfterStep(status, state) ==
  IF state \in {"blocked", "ready_for_review"} THEN state
  ELSE IF state = "in_progress" /\ status # "blocked" THEN "active"
  ELSE status

SetStepState(c) ==
  LET a == client[c].request.action
  IN  /\ Changes(c, "set_step_state")
      /\ Changed(c, [Before(c) EXCEPT !.steps[a.step] = a.state, !.current = a.step,
                                      !.status = StatusAfterStep(@, a.state)])

RecordDocument(c) ==
  LET a == client[c].request.action
  IN  /\ Changes(c, "record_document")
      /\ Changed(c, [Before(c) EXCEPT !.documents[a.requirement] =
                       [state |-> a.state, document |-> a.document]])

AddBlocker(c, b) ==
  /\ Changes(c, "add_blocker")
  /\ Before(c).blockers[b] = "none"
  /\ Changed(c, [Before(c) EXCEPT !.blockers[b] = "open", !.status = "blocked"])

OpenBlockers(row) == {b \in Blocker : row.blockers[b] = "open"}

\* The last one makes the case active.
ResolveBlocker(c) ==
  LET b == client[c].request.action.blocker
  IN  /\ Changes(c, "resolve_blocker")
      /\ Changed(c, [Before(c) EXCEPT !.blockers[b] = "resolved",
                                      !.status = IF OpenBlockers(Before(c)) = {b} THEN "active" ELSE @])

SetValidationState(c) ==
  LET v == client[c].request.action.validation
  IN  /\ Changes(c, "set_validation_state")
      /\ Changed(c, [Before(c) EXCEPT !.validation = v,
                                      !.status = IF v = "in_review" THEN "ready_for_review" ELSE @])

\* The date and the text they write are not modelled.
SetFollowUpOrNote(c) ==
  /\ Changes(c, "set_follow_up") \/ Changes(c, "append_note")
  /\ Changed(c, Before(c))

CloseCase(c) ==
  /\ Changes(c, "close_case")
  /\ Changed(c, [Before(c) EXCEPT !.status = "closed"])

\* Deviation: the claim of a refused update is completed.
RefuseCompleted(c) ==
  LET r == client[c].request
  IN  /\ client[c].pc = "working" /\ r.operation = "update" /\ client[c].key # FreshKey
      /\ ~(Open(r) /\ Admissible(r))
      /\ stored' = [stored EXCEPT ![ScopeOf(c)] =
           [answer |-> [request |-> r, case |-> r.case, revision |-> r.expected],
            expires |-> client[c].at + TTL]]
      /\ Commit(c)
      /\ UNCHANGED <<case, approved, reader, answers, now>>

\* Deviation: the transaction of a refused request is left open.
RefuseStaysOpen(c) ==
  LET r == client[c].request
  IN  /\ client[c].pc = "working" /\ r.operation = "update"
      /\ ~(Open(r) /\ Admissible(r))
      /\ UNCHANGED vars

\* An error in the work is thrown again after the claim is released, and the
\* transaction is rolled back.
Refuse(c) ==
  LET r == client[c].request
  IN  /\ client[c].pc = "working"
      /\ \/ r.operation = "create" /\ ~MayCreate(r)
         \/ r.operation = "update" /\ ~(Open(r) /\ Admissible(r))
      /\ Rollback(c)
      /\ UNCHANGED <<case, approved, stored, reader, answers, now>>

\* The connection or the process is lost before the commit.
Crash(c) ==
  /\ client[c].pc # "idle"
  /\ Rollback(c)
  /\ UNCHANGED <<case, approved, stored, reader, answers, now>>
-----------------------------------------------------------------------------
(***************************************************************************)
(* A GET reads the case and then, statement by statement and without       *)
(* locks, what belongs to it; only the events matter below.                *)
(***************************************************************************)
\* Deviation: the events are read before the case.
EventsFirst == <<"events", "case">>

ReadOrder == <<"case", "events">>

ReadStatement(q, x) ==
  LET what == ReadOrder[reader[q].read + 1]
  IN  reader' = [reader EXCEPT
        ![q] = [read |-> @.read + 1, case |-> x,
                status |-> IF what = "case" THEN case[x].status ELSE @.status,
                revision |-> IF what = "case" THEN case[x].revision ELSE @.revision,
                events |-> IF what = "events" THEN Len(case[x].trail) ELSE @.events]]

Get(q, x) ==
  /\ reader[q].read < 2
  /\ case[x] # Absent
  /\ reader[q].case \in {NoCase, x}
  /\ ReadStatement(q, x)
  /\ UNCHANGED <<case, approved, stored, client, answers, now>>

Respond(q) ==
  /\ reader[q].read = 2
  /\ reader' = [reader EXCEPT ![q] = Unread]
  /\ UNCHANGED <<case, approved, stored, client, answers, now>>

\* The workflow version is superseded or archived (WorkflowLifecycle).
Retire(w) ==
  /\ w \in approved
  /\ approved' = approved \ {w}
  /\ UNCHANGED <<case, stored, client, reader, answers, now>>

Tick ==
  /\ now < MaxTime
  /\ now' = now + 1
  /\ UNCHANGED <<case, approved, stored, client, reader, answers>>

ClaimStep(c) ==
  \/ TakeFence(c) \/ AnswerFromCase(c) \/ ClaimFreshKey(c)
  \/ AwaitRow(c) \/ AnswerFromRow(c) \/ FindNoAnswer(c)
  \/ AwaitDelete(c) \/ DeleteRow(c) \/ InsertRow(c) \/ InsertFails(c)

WorkStep(c) ==
  \/ \E x \in Case : CreateCase(c, x)
  \/ SetStepState(c) \/ RecordDocument(c)
  \/ \E b \in Blocker : AddBlocker(c, b)
  \/ ResolveBlocker(c) \/ SetValidationState(c) \/ SetFollowUpOrNote(c) \/ CloseCase(c)
  \/ Refuse(c)

Next ==
  \/ \E c \in Client : (\E call \in Calls : Arrive(c, call)) \/ ClaimStep(c) \/ WorkStep(c) \/ Crash(c)
  \/ \E q \in Reader : (\E x \in Case : Get(q, x)) \/ Respond(q)
  \/ \E w \in WorkflowVersion : Retire(w)
  \/ Tick

Spec == Init /\ [][Next]_vars

\* Every statement ends, and a lock is granted in the order in which it is waited
\* for, so that others do not overtake a waiting statement for ever.
Fairness(c) ==
  /\ SF_vars(TakeFence(c) \/ AnswerFromCase(c))
  /\ SF_vars(ClaimFreshKey(c) \/ AnswerFromRow(c) \/ FindNoAnswer(c))
  /\ SF_vars(DeleteRow(c))
  /\ SF_vars(InsertRow(c) \/ InsertFails(c))
  /\ WF_vars(WorkStep(c))

FairSpec == Spec /\ \A c \in Client : Fairness(c)
-----------------------------------------------------------------------------
(***************************************************************************)
(* Properties                                                              *)
(***************************************************************************)
\* A case has one event for each of its revisions, in order: applyAction writes
\* both, and every event but the first is of an update that expected the
\* revision before it.  The last one closes the case exactly if it is closed.
Trail ==
  \A x \in Case :
    /\ Len(case[x].trail) = case[x].revision
    /\ \A i \in 1 .. case[x].revision :
         /\ case[x].trail[i].revision = i
         /\ i > 1 => case[x].trail[i].request.expected = i - 1
    /\ case[x].status = "closed" <=>
         case[x].revision > 1 /\ case[x].trail[case[x].revision].request.action.type = "close_case"

\* However often a request is repeated, under the same key or another, at the
\* same time or after its row has expired, executeMutation answers it with one
\* case and one revision only.
OneAnswer ==
  \A one, two \in answers : one.request = two.request => one = two

\* A stored answer is the one of a request of its own principal and operation,
\* which is recorded in the case at the revision the answer names:
\* completeIdempotency commits with the change.
StoredAnswersAreTrue ==
  \A s \in Scope : stored[s] # NoRow =>
    LET answer == stored[s].answer
    IN  /\ answer \in answers
        /\ <<answer.request.by, answer.request.operation>> = <<s[1], s[2]>>
        /\ case[answer.case].revision >= answer.revision
        /\ case[answer.case].trail[answer.revision].request = answer.request

\* claimIdempotency lets one request at a time go on under a key, whatever the
\* SELECT and the DELETE before the INSERT have seen.
OneExecutionPerKey ==
  \A c, d \in Client : SameScope(c, d) => ~(client[c].pc = "working" /\ client[d].pc = "working")

\* Keys, stored answers and executions agree, however requests with one key
\* overlap (claimIdempotency, completeIdempotency).
KeysAgree == OneAnswer /\ StoredAnswersAreTrue /\ OneExecutionPerKey

Reviewing(e) ==
  /\ e.request.operation = "update"
  /\ \/ e.request.action.type = "set_step_state" /\ e.request.action.state = "ready_for_review"
     \/ e.request.action.type = "set_validation_state" /\ e.request.action.validation = "in_review"

Blocking(e) == e.request.operation = "update" /\ e.request.action.type = "add_blocker"

\* A blocker that is still open is not lost sight of: the case is active again
\* only after it was handed over for review since the last blocker was added
\* (applyAction).
OpenBlockersHold ==
  \A x \in Case :
    case[x].status = "active" /\ OpenBlockers(case[x]) # {} =>
      \E i \in DOMAIN case[x].trail :
        /\ Reviewing(case[x].trail[i])
        /\ \A j \in i + 1 .. Len(case[x].trail) : ~Blocking(case[x].trail[j])

\* The trail accounts for every revision and every blocker of a case
\* (applyAction).
TrailAccounts == Trail /\ OpenBlockersHold

\* What a GET puts together from several statements is never behind the case it
\* began with, and is exact once the case is closed (get, relations).
ReadsHoldTogether ==
  \A q \in Reader :
    reader[q].read = 2 =>
      /\ reader[q].events >= reader[q].revision
      /\ reader[q].status = "closed" => reader[q].events = reader[q].revision

ClosingRequests == {r \in Updates : r.action.type = "close_case"}

Ledger == INSTANCE CaseLedger WITH
  Opening <- Creations,
  Changing <- Updates,
  Closing <- ClosingRequests,
  ledger <- [x \in Case |-> [i \in DOMAIN case[x].trail |-> case[x].trail[i].request]]

\* The cases are the ledger of CaseLedger: executeMutation carries out no request
\* twice and nothing after a closure, and changes nothing else.
ImplementsLedger == Ledger!LedgerSpec

\* Every mutation ends: no wait for a fence, a row or an index lasts
\* (executeMutation).
RequestsEnd == \A c \in Client : client[c].pc # "idle" ~> client[c].pc = "idle"

\* A key that has an answer that still counts keeps it until it expires, so that
\* another request that uses the key conflicts with it (claimIdempotency).
AnswersAreKept ==
  [][\A s \in Scope :
       stored[s] # NoRow /\ stored[s].expires > now => stored'[s] = stored[s]]_vars
=============================================================================
