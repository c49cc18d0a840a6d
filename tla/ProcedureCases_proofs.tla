------------------------ MODULE ProcedureCases_proofs -----------------------
(***************************************************************************)
(* Proofs about ProcedureCases, for every number of calls, readers, cases, *)
(* keys and requests and every value of the bounds.                        *)
(***************************************************************************)
EXTENDS ProcedureCases, SequenceTheorems, TLAPS

\* A case is absent, or it is the list of the requests carried out for it: the
\* one that created it, and then updates of this case, each of which expected
\* the revision before it; the last one closes the case exactly if it is closed.
IsHistory(x, row) ==
  IF row.creation = NoRequest
  THEN row = Absent
  ELSE /\ row.creation \in Creations
       /\ row.revision > 0 /\ Len(row.trail) = row.revision
       /\ \A i \in 1 .. row.revision :
            /\ row.trail[i].revision = i
            /\ IF i = 1
               THEN row.trail[i].request = row.creation
               ELSE /\ row.trail[i].request \in Updates
                    /\ row.trail[i].request.case = x
                    /\ row.trail[i].request.expected = i - 1
       /\ row.status = "closed" <=>
            /\ row.revision > 1
            /\ row.trail[row.revision].request.action.type = "close_case"

Histories == \A x \in Case : IsHistory(x, case[x])

\* A request created one case at most.
OneCasePerCreation ==
  \A x, y \in Case :
    case[x].creation # NoRequest /\ case[x].creation = case[y].creation => x = y

\* The case was handed over for review and no blocker was added since.
ReviewedSince(trail) ==
  \E i \in DOMAIN trail :
    /\ Reviewing(trail[i])
    /\ \A j \in i + 1 .. Len(trail) : ~Blocking(trail[j])

\* An open blocker keeps the case blocked until it is handed over for review.
\* It may become active from there.
BlockersReviewed ==
  \A x \in Case :
    case[x].status \in {"active", "ready_for_review"} /\ OpenBlockers(case[x]) # {} =>
      ReviewedSince(case[x].trail)

\* Every answer is recorded in its case.
AnswersRecorded ==
  \A a \in answers :
    /\ a.revision <= case[a.case].revision
    /\ case[a.case].trail[a.revision].request = a.request

\* A call in progress has its request; only one with a key that is kept has to
\* do with the rows of the keys.
Callers ==
  \A c \in Client :
    /\ client[c].pc # "idle" => client[c].request \in Requests
    /\ client[c].pc \in {"waiting", "deleting", "delaying", "inserting"} => client[c].key # FreshKey

\* What a GET has read is a past of the case it reads.
ReadersBehind ==
  \A q \in Reader :
    LET g == reader[q]
    IN  /\ g.read = 0 => g.case = NoCase
        /\ g.read > 0 => /\ g.case \in Case
                         /\ g.revision <= case[g.case].revision
                         /\ g.status = "closed" => /\ case[g.case].status = "closed"
                                                   /\ case[g.case].revision = g.revision
        /\ g.read = 2 => /\ g.events >= g.revision
                         /\ g.status = "closed" => g.events = g.revision

CaseInv ==
  /\ TypeOK /\ Histories /\ OneCasePerCreation /\ BlockersReviewed
  /\ AnswersRecorded /\ StoredAnswersAreTrue /\ Callers /\ ReadersBehind
-----------------------------------------------------------------------------
(***************************************************************************)
(* What the types say                                                      *)
(***************************************************************************)
\* The requests that are sent are creations and updates.
LEMMA RequestTyped ==
  ASSUME NEW r \in Requests
  PROVE  /\ r.by \in Principal /\ r.operation \in {"create", "update"}
         /\ r # NoRequest
         /\ r.operation = "create" => /\ r \in Creations /\ r \notin Updates
                                      /\ r.workflow \in WorkflowVersion
         /\ r.operation = "update" => /\ r \in Updates /\ r \notin Creations
                                      /\ r.case \in Case /\ r.expected \in Nat /\ r.expected > 0
                                      /\ r.action \in Action
<1>1. r \in Request /\ r # NoRequest
  BY CaseConstants DEF Requests
<1>2. CASE r \in Creation
  BY <1>1, <1>2 DEF Creation, Creations, Updates
<1>3. CASE r \in Update
  BY <1>1, <1>3 DEF Update, Creations, Updates
<1> QED
  BY <1>1, <1>2, <1>3 DEF Request

\* The values an action carries.
LEMMA ActionTyped ==
  ASSUME NEW a \in Action
  PROVE  /\ a.type = "set_step_state" => a.step \in Step /\ a.state \in StepState
         /\ a.type = "record_document" => /\ a.requirement \in Requirement
                                          /\ a.state \in DocumentState
                                          /\ a.document \in Document \cup {NoDocument}
         /\ a.type = "resolve_blocker" => a.blocker \in Blocker
         /\ a.type = "set_validation_state" => a.validation \in Validation
  BY DEF Action

\* A case that does not exist has the declared shape.
LEMMA AbsentTyped == Absent \in CaseRow
  BY DEF Absent, CaseRow, Status, Validation, StepState, DocumentState

\* What the types say of a call, field by field.
LEMMA ClientTyped ==
  ASSUME TypeOK, NEW c \in Client
  PROVE  /\ client[c] \in ClientState
         /\ client[c].pc \in {"idle", "fencing", "looking", "waiting", "deleting", "delaying",
                              "inserting", "working"}
         /\ client[c].request \in Requests \cup {NoRequest}
         /\ client[c].key \in Key \cup {FreshKey}
         /\ client[c].at \in Time
         /\ client[c].row \in {"untouched", "locked", "deleted"}
  BY DEF TypeOK, ClientState

\* A call that has not begun has the declared shape.
LEMMA IdleTyped == Idle \in ClientState /\ Idle.pc = "idle"
  BY CaseConstants DEF Idle, ClientState, Time

\* A case that an update finds open.
LEMMA RowTyped ==
  ASSUME CaseInv, NEW x \in Case
  PROVE  /\ case[x] \in CaseRow
         /\ case[x].revision \in Nat /\ case[x].trail \in Seq(Event)
         /\ case[x].status \in Status
         /\ case[x] # Absent <=> case[x].creation # NoRequest
         /\ case[x] # Absent <=> case[x].creation \in Requests
         /\ case[x] # Absent => case[x].revision > 0 /\ Len(case[x].trail) = case[x].revision
<1>1. case[x] \in CaseRow
  BY DEF CaseInv, TypeOK
<1>2. /\ case[x].creation \in Requests \cup {NoRequest}
      /\ case[x].revision \in Nat /\ case[x].trail \in Seq(Event) /\ case[x].status \in Status
  BY <1>1 DEF CaseRow
<1>3. Absent.creation = NoRequest
  BY DEF Absent
<1>4. IF case[x].creation = NoRequest THEN case[x] = Absent
      ELSE case[x].revision > 0 /\ Len(case[x].trail) = case[x].revision
  BY DEF CaseInv, Histories, IsHistory
<1> QED
  BY <1>1, <1>2, <1>3, <1>4, CaseConstants
-----------------------------------------------------------------------------
(***************************************************************************)
(* What a step does to the cases and the answers                           *)
(***************************************************************************)
\* The request creates case x as row.
CreatesAs(r, x, row) ==
  /\ r \in Creations /\ MayCreate(r) /\ case[x] = Absent
  /\ row.creation = r /\ row.revision = 1 /\ row.status = "active"
  /\ row.blockers = Absent.blockers
  /\ row.trail = <<[revision |-> 1, request |-> r]>>

\* The request changes case x to row.
UpdatesTo(r, x, row) ==
  /\ r \in Updates /\ r.case = x
  /\ case[x] # Absent /\ case[x].revision = r.expected /\ case[x].status # "closed"
  /\ row.creation = case[x].creation /\ row.revision = r.expected + 1
  /\ row.trail = Append(case[x].trail, [revision |-> r.expected + 1, request |-> r])
  /\ row.status = "closed" <=> r.action.type = "close_case"
  /\ row.status \in {"active", "ready_for_review"} /\ OpenBlockers(row) # {} =>
       \/ Reviewing([revision |-> r.expected + 1, request |-> r])
       \/ /\ r.action.type # "add_blocker"
          /\ case[x].status \in {"active", "ready_for_review"} /\ OpenBlockers(case[x]) # {}

\* Work that is committed.
Done(c, x, row) ==
  /\ client[c].pc = "working"
  /\ CreatesAs(client[c].request, x, row) \/ UpdatesTo(client[c].request, x, row)
  /\ Completed(c, x, row)

\* A call that is answered without work, from its case or from the row of its
\* key.
AnswersAgain(c) ==
  \/ AnswerFromCase(c)
  \/ AnswerFromRow(c)

\* Every change of a case ends the same way.
LEMMA ChangeEnds ==
  ASSUME CaseInv, NEW c \in Client, NEW type, Changes(c, type),
         NEW row \in CaseRow, Changed(c, row),
         row.creation = Before(c).creation, row.revision = Before(c).revision,
         row.trail = Before(c).trail,
         row.status = "closed" <=> type = "close_case",
         row.status \in {"active", "ready_for_review"} /\ OpenBlockers(row) # {} =>
           \/ Reviewing([revision |-> Before(c).revision + 1, request |-> client[c].request])
           \/ /\ type # "add_blocker"
              /\ Before(c).status \in {"active", "ready_for_review"}
              /\ OpenBlockers(Before(c)) # {}
  PROVE  \E x \in Case, done \in CaseRow : Done(c, x, done)
<1> DEFINE r == client[c].request
           x == r.case
           e == [revision |-> row.revision + 1, request |-> r]
           done == [row EXCEPT !.revision = row.revision + 1, !.trail = Append(@, e)]
<1>1. /\ client[c].pc = "working" /\ r.operation = "update" /\ r.action.type = type
      /\ case[x] # Absent /\ case[x].revision = r.expected /\ case[x].status # "closed"
  BY DEF Changes, Open
<1>2. r \in Requests
  BY <1>1 DEF CaseInv, Callers
<1>3. /\ r \in Updates /\ x \in Case /\ r.expected \in Nat
  BY <1>1, <1>2, RequestTyped
<1>4. case[x].trail \in Seq(Event) /\ case[x].revision \in Nat
  BY <1>3, RowTyped
<1>5. Before(c) = case[x]
  BY DEF Before
<1>6. e \in Event /\ row.trail \in Seq(Event) /\ row.revision = r.expected
  BY <1>1, <1>2, <1>3, <1>4, <1>5 DEF Event
<1>7. done = [creation |-> row.creation, status |-> row.status, validation |-> row.validation,
                 current |-> row.current, revision |-> row.revision + 1, steps |-> row.steps,
                 documents |-> row.documents, blockers |-> row.blockers,
                 trail |-> Append(row.trail, e)]
  <2> HIDE DEF e
  <2>1. row = [creation |-> row.creation, status |-> row.status, validation |-> row.validation,
               current |-> row.current, revision |-> row.revision, steps |-> row.steps,
               documents |-> row.documents, blockers |-> row.blockers, trail |-> row.trail]
    BY DEF CaseRow
  <2>2. done = [row EXCEPT !.revision = row.revision + 1, !.trail = Append(row.trail, e)]
    OBVIOUS
  <2> HIDE DEF done
  <2> DEFINE n == row.revision + 1
             t == Append(row.trail, e)
  <2>3. done = [row EXCEPT !.revision = n, !.trail = t]
    BY <2>2
  <2> HIDE DEF n, t
  <2>4. done = [creation |-> row.creation, status |-> row.status, validation |-> row.validation,
                current |-> row.current, revision |-> n, steps |-> row.steps,
                documents |-> row.documents, blockers |-> row.blockers, trail |-> t]
    BY <2>1, <2>3
  <2> QED
    BY <2>4 DEF n, t
<1>8. Append(row.trail, e) \in Seq(Event) /\ row.revision + 1 \in Nat
  BY <1>3, <1>6
<1>9. done \in CaseRow
  BY <1>7, <1>8 DEF CaseRow
<1>10. Completed(c, x, done)
  BY DEF Changed
<1>11. UpdatesTo(r, x, done)
  <2>1. /\ done.creation = case[x].creation /\ done.revision = r.expected + 1
        /\ done.trail = Append(case[x].trail, [revision |-> r.expected + 1, request |-> r])
        /\ done.status = row.status /\ done.blockers = row.blockers
    BY <1>5, <1>6, <1>7
  <2>2. OpenBlockers(done) = OpenBlockers(row)
    BY <2>1 DEF OpenBlockers
  <2> HIDE DEF done
  <2> QED
    BY <1>1, <1>3, <1>5, <2>1, <2>2 DEF UpdatesTo
<1> QED
  BY <1>1, <1>3, <1>9, <1>10, <1>11 DEF Done

\* The case that an update finds, and its action.
LEMMA Found ==
  ASSUME CaseInv, NEW c \in Client, NEW type, Changes(c, type)
  PROVE  /\ Before(c) \in CaseRow
         /\ Before(c) = [creation |-> Before(c).creation, status |-> Before(c).status,
                         validation |-> Before(c).validation, current |-> Before(c).current,
                         revision |-> Before(c).revision, steps |-> Before(c).steps,
                         documents |-> Before(c).documents, blockers |-> Before(c).blockers,
                         trail |-> Before(c).trail]
         /\ Before(c).status \in Status /\ Before(c).status # "closed"
         /\ client[c].request \in Updates /\ client[c].request.operation = "update"
         /\ client[c].request.action \in Action /\ client[c].request.action.type = type
<1>1. client[c].request \in Updates /\ client[c].request.case \in Case
      /\ client[c].request.action \in Action
  BY RequestTyped DEF CaseInv, Callers, Changes
<1>2. Before(c) \in CaseRow /\ Before(c).status # "closed"
  BY <1>1 DEF CaseInv, TypeOK, Before, Changes, Open
<1>3. Before(c) = [creation |-> Before(c).creation, status |-> Before(c).status,
                   validation |-> Before(c).validation, current |-> Before(c).current,
                   revision |-> Before(c).revision, steps |-> Before(c).steps,
                   documents |-> Before(c).documents, blockers |-> Before(c).blockers,
                   trail |-> Before(c).trail]
      /\ Before(c).status \in Status
  BY <1>2 DEF CaseRow
<1> QED
  BY <1>1, <1>2, <1>3 DEF Changes

\* A changed step is one entry of the case's history (set_step_state).
LEMMA StepStateDone ==
  ASSUME CaseInv, NEW c \in Client, SetStepState(c)
  PROVE  \E x \in Case, done \in CaseRow : Done(c, x, done)
<1> DEFINE a == client[c].request.action
           old == Before(c)
           status == StatusAfterStep(old.status, a.state)
           row == [old EXCEPT !.steps[a.step] = a.state, !.current = a.step,
                              !.status = StatusAfterStep(@, a.state)]
           e == [revision |-> old.revision + 1, request |-> client[c].request]
<1>1. Changes(c, "set_step_state") /\ Changed(c, row)
  BY DEF SetStepState
<1>2. /\ old \in CaseRow /\ old.status \in Status /\ old.status # "closed"
      /\ client[c].request.operation = "update"
      /\ a.type = "set_step_state" /\ a.step \in Step /\ a.state \in StepState
  BY <1>1, Found, ActionTyped
<1>3. row = [creation |-> old.creation, status |-> status,
             validation |-> old.validation, current |-> a.step, revision |-> old.revision,
             steps |-> [old.steps EXCEPT ![a.step] = a.state],
             documents |-> old.documents, blockers |-> old.blockers, trail |-> old.trail]
  <2>1. old = [creation |-> old.creation, status |-> old.status,
               validation |-> old.validation, current |-> old.current,
               revision |-> old.revision, steps |-> old.steps,
               documents |-> old.documents, blockers |-> old.blockers, trail |-> old.trail]
    BY <1>1, Found
  <2>2. row = [old EXCEPT !.steps = [old.steps EXCEPT ![a.step] = a.state], !.current = a.step,
                          !.status = status]
    OBVIOUS
  <2> HIDE DEF old, row, status, a
  <2> QED
    BY <2>1, <2>2
<1>4. status \in Status /\ status # "closed"
      /\ (status \in {"active", "ready_for_review"} =>
            a.state = "ready_for_review" \/ old.status \in {"active", "ready_for_review"})
  BY <1>2 DEF StatusAfterStep, Status, StepState
<1>5. [old.steps EXCEPT ![a.step] = a.state] \in [Step -> StepState]
  BY <1>2 DEF CaseRow
<1>6. row \in CaseRow
  <2> HIDE DEF status, old, a, row
  <2> QED
    BY <1>2, <1>3, <1>4, <1>5 DEF CaseRow
<1>7. a.state = "ready_for_review" => Reviewing(e)
  BY <1>2 DEF Reviewing
<1>8. /\ row.creation = old.creation /\ row.revision = old.revision /\ row.trail = old.trail
      /\ row.status = status /\ OpenBlockers(row) = OpenBlockers(old)
  BY <1>3 DEF OpenBlockers
<1> HIDE DEF row, status
<1> QED
  BY <1>1, <1>4, <1>6, <1>7, <1>8, ChangeEnds

\* So is a recorded document (record_document) ...
LEMMA DocumentDone ==
  ASSUME CaseInv, NEW c \in Client, RecordDocument(c)
  PROVE  \E x \in Case, done \in CaseRow : Done(c, x, done)
<1> DEFINE a == client[c].request.action
           old == Before(c)
           d == [state |-> a.state, document |-> a.document]
           row == [old EXCEPT !.documents[a.requirement] =
                     [state |-> a.state, document |-> a.document]]
<1>1. Changes(c, "record_document") /\ Changed(c, row)
  BY DEF RecordDocument
<1>2. /\ old \in CaseRow /\ old.status # "closed"
      /\ a.requirement \in Requirement /\ a.state \in DocumentState
      /\ a.document \in Document \cup {NoDocument}
  BY <1>1, Found, ActionTyped
<1>3. row = [creation |-> old.creation, status |-> old.status, validation |-> old.validation,
             current |-> old.current, revision |-> old.revision, steps |-> old.steps,
             documents |-> [old.documents EXCEPT ![a.requirement] = d],
             blockers |-> old.blockers, trail |-> old.trail]
  <2>1. old = [creation |-> old.creation, status |-> old.status,
               validation |-> old.validation, current |-> old.current,
               revision |-> old.revision, steps |-> old.steps,
               documents |-> old.documents, blockers |-> old.blockers, trail |-> old.trail]
    BY <1>1, Found
  <2>2. row = [old EXCEPT !.documents = [old.documents EXCEPT ![a.requirement] = d]]
    OBVIOUS
  <2> HIDE DEF old, row, a, d
  <2> QED
    BY <2>1, <2>2
<1>4. d \in [state: DocumentState, document: Document \cup {NoDocument}]
  BY <1>2
<1>5. [old.documents EXCEPT ![a.requirement] = d]
        \in [Requirement -> [state: DocumentState, document: Document \cup {NoDocument}]]
  <2> HIDE DEF d, old, a
  <2> QED
    BY <1>2, <1>4 DEF CaseRow
<1>6. row \in CaseRow
  <2> HIDE DEF old, a, row, d
  <2> QED
    BY <1>2, <1>3, <1>5 DEF CaseRow
<1>7. /\ row.creation = old.creation /\ row.revision = old.revision /\ row.trail = old.trail
      /\ row.status = old.status /\ OpenBlockers(row) = OpenBlockers(old)
  BY <1>3 DEF OpenBlockers
<1> DEFINE type == "record_document"
<1>8. /\ row.status = "closed" <=> type = "close_case"
      /\ row.status \in {"active", "ready_for_review"} /\ OpenBlockers(row) # {} =>
           /\ type # "add_blocker"
           /\ old.status \in {"active", "ready_for_review"} /\ OpenBlockers(old) # {}
  BY <1>2, <1>7
<1>9. Changes(c, type) /\ Changed(c, row)
  BY <1>1
<1> HIDE DEF row, type
<1> QED
  BY <1>6, <1>7, <1>8, <1>9, ChangeEnds

\* ... a new blocker (add_blocker) ...
LEMMA BlockerDone ==
  ASSUME CaseInv, NEW c \in Client, NEW b \in Blocker, AddBlocker(c, b)
  PROVE  \E x \in Case, done \in CaseRow : Done(c, x, done)
<1> DEFINE old == Before(c)
           row == [old EXCEPT !.blockers[b] = "open", !.status = "blocked"]
<1>1. Changes(c, "add_blocker") /\ Changed(c, row)
  BY DEF AddBlocker
<1>2. old \in CaseRow
  BY <1>1, Found
<1>3. row = [creation |-> old.creation, status |-> "blocked", validation |-> old.validation,
             current |-> old.current, revision |-> old.revision, steps |-> old.steps,
             documents |-> old.documents,
             blockers |-> [old.blockers EXCEPT ![b] = "open"], trail |-> old.trail]
  <2>1. old = [creation |-> old.creation, status |-> old.status,
               validation |-> old.validation, current |-> old.current,
               revision |-> old.revision, steps |-> old.steps,
               documents |-> old.documents, blockers |-> old.blockers, trail |-> old.trail]
    BY <1>1, Found
  <2>2. row = [old EXCEPT !.blockers = [old.blockers EXCEPT ![b] = "open"], !.status = "blocked"]
    OBVIOUS
  <2> HIDE DEF old, row
  <2> QED
    BY <2>1, <2>2
<1>4. [old.blockers EXCEPT ![b] = "open"] \in [Blocker -> {"none", "open", "resolved"}]
  BY <1>2 DEF CaseRow
<1>5. row \in CaseRow
  <2> HIDE DEF old, row
  <2> QED
    BY <1>2, <1>3, <1>4 DEF CaseRow, Status
<1>6. /\ row.creation = old.creation /\ row.revision = old.revision /\ row.trail = old.trail
      /\ row.status = "blocked"
  BY <1>3
<1> DEFINE type == "add_blocker"
<1>7. /\ row.status = "closed" <=> type = "close_case"
      /\ row.status \in {"active", "ready_for_review"} /\ OpenBlockers(row) # {} =>
           /\ type # "add_blocker"
           /\ old.status \in {"active", "ready_for_review"} /\ OpenBlockers(old) # {}
  BY <1>6
<1>8. Changes(c, type) /\ Changed(c, row)
  BY <1>1
<1> HIDE DEF row, type
<1> QED
  BY <1>5, <1>6, <1>7, <1>8, ChangeEnds

\* ... a resolved one (resolve_blocker) ...
LEMMA ResolutionDone ==
  ASSUME CaseInv, NEW c \in Client, ResolveBlocker(c)
  PROVE  \E x \in Case, done \in CaseRow : Done(c, x, done)
<1>0. PICK b \in Blocker : b = client[c].request.action.blocker
  BY Found, ActionTyped DEF ResolveBlocker
<1> DEFINE old == Before(c)
           status == IF OpenBlockers(old) = {b} THEN "active" ELSE old.status
           row == [old EXCEPT !.blockers[b] = "resolved",
                              !.status = IF OpenBlockers(old) = {b} THEN "active" ELSE @]
<1>1. Changes(c, "resolve_blocker") /\ Changed(c, row)
  BY <1>0 DEF ResolveBlocker
<1>2. old \in CaseRow /\ old.status \in Status /\ old.status # "closed"
  BY <1>1, Found
<1>3. row = [creation |-> old.creation, status |-> status, validation |-> old.validation,
             current |-> old.current, revision |-> old.revision, steps |-> old.steps,
             documents |-> old.documents,
             blockers |-> [old.blockers EXCEPT ![b] = "resolved"], trail |-> old.trail]
  <2>1. old = [creation |-> old.creation, status |-> old.status,
               validation |-> old.validation, current |-> old.current,
               revision |-> old.revision, steps |-> old.steps,
               documents |-> old.documents, blockers |-> old.blockers, trail |-> old.trail]
    BY <1>1, Found
  <2>2. row = [old EXCEPT !.blockers = [old.blockers EXCEPT ![b] = "resolved"],
                          !.status = status]
    OBVIOUS
  <2> HIDE DEF old, row, status
  <2> QED
    BY <2>1, <2>2
<1>4. [old.blockers EXCEPT ![b] = "resolved"] \in [Blocker -> {"none", "open", "resolved"}]
  <2> HIDE DEF old
  <2> QED
    BY <1>2 DEF CaseRow
<1>5. status \in Status /\ status # "closed"
  BY <1>2 DEF Status
<1>6. row \in CaseRow
  <2> HIDE DEF old, row, status
  <2> QED
    BY <1>2, <1>3, <1>4, <1>5 DEF CaseRow
<1>7. /\ row.creation = old.creation /\ row.revision = old.revision /\ row.trail = old.trail
      /\ row.status = status
  BY <1>3
<1>8. OpenBlockers(row) = OpenBlockers(old) \ {b}
  <2>1. /\ row.blockers = [old.blockers EXCEPT ![b] = "resolved"]
        /\ old.blockers \in [Blocker -> {"none", "open", "resolved"}]
    BY <1>2, <1>3 DEF CaseRow
  <2> HIDE DEF old, row
  <2> QED
    BY <2>1 DEF OpenBlockers
<1>9. OpenBlockers(row) # {} => status = old.status /\ OpenBlockers(old) # {}
  BY <1>8
<1> DEFINE type == "resolve_blocker"
<1>10. /\ row.status = "closed" <=> type = "close_case"
       /\ row.status \in {"active", "ready_for_review"} /\ OpenBlockers(row) # {} =>
            /\ type # "add_blocker"
            /\ old.status \in {"active", "ready_for_review"} /\ OpenBlockers(old) # {}
  BY <1>5, <1>7, <1>9
<1>11. Changes(c, type) /\ Changed(c, row)
  BY <1>1
<1>12. row.creation = old.creation /\ row.revision = old.revision /\ row.trail = old.trail
  BY <1>7
<1> HIDE DEF row, type
<1> QED
  BY <1>6, <1>10, <1>11, <1>12, ChangeEnds

\* ... a changed state of validation (set_validation_state) ...
LEMMA ValidationDone ==
  ASSUME CaseInv, NEW c \in Client, SetValidationState(c)
  PROVE  \E x \in Case, done \in CaseRow : Done(c, x, done)
<1> DEFINE v == client[c].request.action.validation
           old == Before(c)
           status == IF v = "in_review" THEN "ready_for_review" ELSE old.status
           row == [old EXCEPT !.validation = v,
                              !.status = IF v = "in_review" THEN "ready_for_review" ELSE @]
           e == [revision |-> old.revision + 1, request |-> client[c].request]
<1>1. Changes(c, "set_validation_state") /\ Changed(c, row)
  BY DEF SetValidationState
<1>2. /\ old \in CaseRow /\ old.status \in Status /\ old.status # "closed" /\ v \in Validation
      /\ client[c].request.operation = "update"
      /\ client[c].request.action.type = "set_validation_state"
  BY <1>1, Found, ActionTyped
<1>3. row = [creation |-> old.creation, status |-> status, validation |-> v,
             current |-> old.current, revision |-> old.revision, steps |-> old.steps,
             documents |-> old.documents, blockers |-> old.blockers, trail |-> old.trail]
  <2>1. old = [creation |-> old.creation, status |-> old.status,
               validation |-> old.validation, current |-> old.current,
               revision |-> old.revision, steps |-> old.steps,
               documents |-> old.documents, blockers |-> old.blockers, trail |-> old.trail]
    BY <1>1, Found
  <2>2. row = [old EXCEPT !.validation = v, !.status = status]
    OBVIOUS
  <2> HIDE DEF old, row, v, status
  <2> QED
    BY <2>1, <2>2
<1>4. status \in Status /\ status # "closed"
  BY <1>2 DEF Status
<1>5. row \in CaseRow
  <2> HIDE DEF old, row, v, status
  <2> QED
    BY <1>2, <1>3, <1>4 DEF CaseRow
<1>6. status = old.status \/ Reviewing(e)
  BY <1>2 DEF Reviewing
<1>7. /\ row.creation = old.creation /\ row.revision = old.revision /\ row.trail = old.trail
      /\ row.status = status /\ OpenBlockers(row) = OpenBlockers(old)
  BY <1>3 DEF OpenBlockers
<1> HIDE DEF row, status
<1> QED
  BY <1>1, <1>4, <1>5, <1>6, <1>7, ChangeEnds

\* ... a follow-up date or a note (set_follow_up, add_note) ...
LEMMA NoteDone ==
  ASSUME CaseInv, NEW c \in Client, SetFollowUpOrNote(c)
  PROVE  \E x \in Case, done \in CaseRow : Done(c, x, done)
<1>1. PICK type \in {"set_follow_up", "append_note"} : Changes(c, type)
  BY DEF SetFollowUpOrNote
<1>2. Changed(c, Before(c))
  BY DEF SetFollowUpOrNote
<1>3. Before(c) \in CaseRow /\ Before(c).status # "closed"
  BY <1>1, Found
<1> QED
  BY <1>1, <1>2, <1>3, ChangeEnds

\* ... and the closure (close_case).
LEMMA ClosureDone ==
  ASSUME CaseInv, NEW c \in Client, CloseCase(c)
  PROVE  \E x \in Case, done \in CaseRow : Done(c, x, done)
<1> DEFINE old == Before(c)
           row == [old EXCEPT !.status = "closed"]
<1>1. Changes(c, "close_case") /\ Changed(c, row)
  BY DEF CloseCase
<1>2. old \in CaseRow
  BY <1>1, Found
<1>3. row = [creation |-> old.creation, status |-> "closed", validation |-> old.validation,
             current |-> old.current, revision |-> old.revision, steps |-> old.steps,
             documents |-> old.documents, blockers |-> old.blockers, trail |-> old.trail]
  <2>1. old = [creation |-> old.creation, status |-> old.status,
               validation |-> old.validation, current |-> old.current,
               revision |-> old.revision, steps |-> old.steps,
               documents |-> old.documents, blockers |-> old.blockers, trail |-> old.trail]
    BY <1>1, Found
  <2> HIDE DEF old
  <2> QED
    BY <2>1
<1>4. row \in CaseRow
  <2> HIDE DEF old, row
  <2> QED
    BY <1>2, <1>3 DEF CaseRow, Status
<1>5. /\ row.creation = old.creation /\ row.revision = old.revision /\ row.trail = old.trail
      /\ row.status = "closed"
  BY <1>3
<1> HIDE DEF row
<1> QED
  BY <1>1, <1>4, <1>5, ChangeEnds

\* The creation is the first entry (create).
LEMMA CreationDone ==
  ASSUME CaseInv, NEW c \in Client, NEW x \in Case, CreateCase(c, x)
  PROVE  \E done \in CaseRow : Done(c, x, done)
<1> DEFINE r == client[c].request
           first == StepsOf[r.workflow][1]
           trail == <<[revision |-> 1, request |-> r]>>
           done == [Absent EXCEPT !.creation = r, !.revision = 1, !.current = first,
                                  !.trail = trail]
<1>1. /\ client[c].pc = "working" /\ r.operation = "create" /\ MayCreate(r)
      /\ case[x] = Absent /\ Completed(c, x, done)
  BY DEF CreateCase
<1>2. r \in Requests /\ r \in Creations /\ r.workflow \in WorkflowVersion
  BY <1>1, RequestTyped DEF CaseInv, Callers
<1>3. first \in Step
  <2>1. StepsOf[r.workflow] \in Seq(Step) /\ StepsOf[r.workflow] # <<>>
    BY <1>1, <1>2, CaseConstants DEF MayCreate
  <2> QED
    BY <2>1
<1>4. trail \in Seq(Event)
  BY <1>2 DEF Event
<1>5. done = [creation |-> r, status |-> "active", validation |-> "unreviewed",
              current |-> first, revision |-> 1, steps |-> Absent.steps,
              documents |-> Absent.documents, blockers |-> Absent.blockers, trail |-> trail]
  <2>1. Absent = [creation |-> Absent.creation, status |-> "active",
                  validation |-> "unreviewed", current |-> Absent.current,
                  revision |-> Absent.revision, steps |-> Absent.steps,
                  documents |-> Absent.documents, blockers |-> Absent.blockers,
                  trail |-> Absent.trail]
    BY DEF Absent
  <2> DEFINE absent == Absent
  <2>2. done = [absent EXCEPT !.creation = r, !.revision = 1, !.current = first, !.trail = trail]
    OBVIOUS
  <2> HIDE DEF r, first, trail, absent, done
  <2>3. done = [creation |-> r, status |-> absent.status, validation |-> absent.validation,
                current |-> first, revision |-> 1, steps |-> absent.steps,
                documents |-> absent.documents, blockers |-> absent.blockers, trail |-> trail]
    <3>1. absent = [creation |-> absent.creation, status |-> absent.status,
                    validation |-> absent.validation, current |-> absent.current,
                    revision |-> absent.revision, steps |-> absent.steps,
                    documents |-> absent.documents, blockers |-> absent.blockers,
                    trail |-> absent.trail]
      BY <2>1 DEF absent
    <3> QED
      BY <2>2, <3>1
  <2>4. absent.status = "active" /\ absent.validation = "unreviewed"
    BY DEF absent, Absent
  <2> QED
    BY <2>3, <2>4 DEF absent
<1>6. done \in CaseRow
  <2>1. /\ Absent.steps \in [Step -> StepState]
        /\ Absent.blockers \in [Blocker -> {"none", "open", "resolved"}]
        /\ Absent.documents \in [Requirement -> [state: DocumentState,
                                                 document: Document \cup {NoDocument}]]
    BY DEF Absent, StepState, DocumentState
  <2> HIDE DEF r, first, trail, done
  <2> QED
    BY <1>2, <1>3, <1>4, <1>5, <2>1 DEF CaseRow, Status, Validation
<1>7. /\ done.creation = r /\ done.revision = 1 /\ done.status = "active"
      /\ done.blockers = Absent.blockers /\ done.trail = trail
  BY <1>5
<1> HIDE DEF done
<1> QED
  BY <1>1, <1>2, <1>6, <1>7 DEF Done, CreatesAs

\* Every step leaves the cases alone, answers from them, or does the work of one
\* call.
LEMMA CaseStep ==
  ASSUME CaseInv, [Next]_vars
  PROVE  \/ UNCHANGED <<case, stored, answers>>
         \/ \E c \in Client : AnswersAgain(c) /\ UNCHANGED <<case, stored, reader>>
         \/ \E c \in Client, x \in Case, row \in CaseRow : Done(c, x, row)
<1>1. ASSUME NEW c \in Client, WorkStep(c), ~Refuse(c)
      PROVE  \E x \in Case, row \in CaseRow : Done(c, x, row)
  BY <1>1, CreationDone, StepStateDone, DocumentDone, BlockerDone, ResolutionDone, ValidationDone,
     NoteDone, ClosureDone DEF WorkStep
<1>2. ASSUME NEW c \in Client, AnswersAgain(c) PROVE UNCHANGED <<case, stored, reader>>
  BY <1>2 DEF AnswersAgain, AnswerFromCase, AnswerFromRow
<1>3. ASSUME NEW c \in Client, ClaimStep(c), ~AnswersAgain(c) PROVE UNCHANGED <<case, stored, answers>>
  BY <1>3 DEF AnswersAgain, ClaimStep, TakeFence, ClaimFreshKey, AwaitRow, FindNoAnswer, AwaitDelete,
              DeleteRow, InsertRow, InsertFails
<1> QED
  BY <1>1, <1>2, <1>3 DEF Next, vars, Arrive, Refuse, Crash, Get, Respond, Retire, Tick
-----------------------------------------------------------------------------
(***************************************************************************)
(* What a step does to one call                                            *)
(***************************************************************************)
\* It comes.
CallArrives(d) ==
  /\ client[d].pc = "idle" /\ client'[d].pc \in {"fencing", "looking"}
  /\ client'[d].request \in Requests

\* It goes on with its request, or waits for another one.
CallGoesOn(d) ==
  /\ client[d].pc # "idle"
  /\ client'[d].request = client[d].request /\ client'[d].key = client[d].key
  /\ client'[d].pc \in {"waiting", "deleting", "delaying", "inserting"} => client[d].key # FreshKey
  /\ client'[d].pc = "working" => InsertRow(d) \/ ClaimFreshKey(d)

CallMoves(d) ==
  client'[d] = client[d] \/ client'[d] = Idle \/ CallArrives(d) \/ CallGoesOn(d)

\* A call's own step.
LEMMA CallWrites ==
  ASSUME CaseInv, NEW c \in Client, NEW d \in Client,
         NEW pc \in {"looking", "waiting", "deleting", "delaying", "inserting", "working"},
         NEW row \in {"untouched", "locked", "deleted"},
         client[c].pc # "idle",
         client' = [client EXCEPT ![c].pc = pc, ![c].row = row],
         pc \in {"waiting", "deleting", "delaying", "inserting"} => client[c].key # FreshKey,
         pc = "working" => InsertRow(c) \/ ClaimFreshKey(c)
  PROVE  client'[d] \in ClientState /\ CallMoves(d)
<1>1. client \in [Client -> ClientState] /\ client[d] \in ClientState /\ client[c] \in ClientState
  BY DEF CaseInv, TypeOK
<1>2. CASE d = c
  <2>1. client'[d] = [client[d] EXCEPT !.pc = pc, !.row = row]
    BY <1>1, <1>2
  <2>2. client'[d] = [pc |-> pc, request |-> client[d].request, key |-> client[d].key,
                      at |-> client[d].at, row |-> row]
    BY <1>1, <2>1 DEF ClientState
  <2>3. client'[d] \in ClientState
    BY <1>1, <2>2 DEF ClientState
  <2> QED
    BY <1>2, <2>2, <2>3 DEF CallMoves, CallGoesOn
<1>3. CASE d # c
  BY <1>1, <1>3 DEF CallMoves
<1> QED
  BY <1>2, <1>3

\* A transaction ends, and those that wait for its row go on.
LEMMA EndWrites ==
  ASSUME CaseInv, NEW c \in Client, NEW d \in Client, Commit(c) \/ Rollback(c)
  PROVE  client'[d] \in ClientState /\ CallMoves(d)
<1>1. client[d] \in ClientState
  BY DEF CaseInv, TypeOK
<1>2. PICK selecting \in {"looking", "deleting"}, deleting \in {"deleting", "inserting"} :
        client' = EndOf(c, selecting, deleting)
  BY DEF Commit, Rollback
<1>3. CASE client'[d] = Idle \/ client'[d] = client[d]
  BY <1>1, <1>3, IdleTyped DEF CallMoves
<1>4. ASSUME NEW pc \in {"looking", "deleting", "inserting"},
             client[d].pc \in {"waiting", "delaying"}, client'[d] = [client[d] EXCEPT !.pc = pc]
      PROVE  client'[d] \in ClientState /\ CallMoves(d)
  <2>1. client'[d] = [pc |-> pc, request |-> client[d].request, key |-> client[d].key,
                      at |-> client[d].at, row |-> client[d].row]
    BY <1>1, <1>4 DEF ClientState
  <2>2. client'[d] \in ClientState
    BY <1>1, <2>1 DEF ClientState
  <2>3. client[d].key # FreshKey
    BY <1>4 DEF CaseInv, Callers
  <2> QED
    BY <1>4, <2>1, <2>2, <2>3 DEF CallMoves, CallGoesOn
<1> QED
  BY <1>2, <1>3, <1>4 DEF EndOf

\* Every step moves every call in one of the four ways.
LEMMA CallStep ==
  ASSUME CaseInv, [Next]_vars, NEW d \in Client
  PROVE  client'[d] \in ClientState /\ CallMoves(d)
<1>1. client \in [Client -> ClientState] /\ client[d] \in ClientState
  BY DEF CaseInv, TypeOK
<1>2. CASE UNCHANGED client
  BY <1>1, <1>2 DEF CallMoves
<1>3. ASSUME NEW c \in Client, NEW call \in Calls, Arrive(c, call)
      PROVE  client'[d] \in ClientState /\ CallMoves(d)
  <2>1. CASE d = c
    <3> DEFINE pc == IF call.request.operation = "create" THEN "fencing" ELSE "looking"
    <3>1. client'[d] = [pc |-> pc, request |-> call.request, key |-> call.key, at |-> now,
                        row |-> "untouched"] /\ client[d].pc = "idle"
      BY <1>1, <1>3, <2>1 DEF Arrive
    <3>2. call.request \in Requests /\ call.key \in Key \cup {FreshKey} /\ now \in Time
      BY CaseConstants DEF Requests, CaseInv, TypeOK
    <3>3. pc \in {"fencing", "looking"}
      OBVIOUS
    <3> HIDE DEF pc
    <3>4. client'[d] \in ClientState
      BY <3>1, <3>2, <3>3 DEF ClientState
    <3> QED
      BY <3>1, <3>2, <3>3, <3>4 DEF CallMoves, CallArrives
  <2>2. CASE d # c
    BY <1>1, <1>3, <2>2 DEF Arrive, CallMoves
  <2> QED
    BY <2>1, <2>2
<1>4. ASSUME NEW c \in Client, client' = [client EXCEPT ![c] = Idle]
      PROVE  client'[d] \in ClientState /\ CallMoves(d)
  BY <1>1, <1>4, IdleTyped DEF CallMoves
<1>5. ASSUME NEW c \in Client, TakeFence(c) \/ ClaimFreshKey(c) \/ AwaitRow(c) \/ AwaitDelete(c)
                                 \/ InsertRow(c)
      PROVE  client'[d] \in ClientState /\ CallMoves(d)
  <2>1. client[c] \in ClientState /\ client[c].row \in {"untouched", "locked", "deleted"}
    BY ClientTyped DEF CaseInv
  <2>2. PICK pc \in {"looking", "waiting", "deleting", "delaying", "inserting", "working"} :
          /\ client' = [client EXCEPT ![c].pc = pc]
          /\ client[c].pc # "idle"
          /\ pc \in {"waiting", "deleting", "delaying", "inserting"} => client[c].key # FreshKey
          /\ pc = "working" => InsertRow(c) \/ ClaimFreshKey(c)
    <3>1. client[c].pc = "deleting" => client[c].key # FreshKey
      BY DEF CaseInv, Callers
    <3> QED
      BY <1>5, <3>1 DEF TakeFence, ClaimFreshKey, AwaitRow, AwaitDelete, InsertRow, Looks
  <2>3. client' = [client EXCEPT ![c].pc = pc, ![c].row = client[c].row]
    <3>1. [client[c] EXCEPT !.pc = pc] = [client[c] EXCEPT !.pc = pc, !.row = client[c].row]
      BY <2>1 DEF ClientState
    <3> QED
      BY <1>1, <2>2, <3>1
  <2> QED
    BY <2>1, <2>2, <2>3, CallWrites
<1>6. ASSUME NEW c \in Client, FindNoAnswer(c) \/ DeleteRow(c)
      PROVE  client'[d] \in ClientState /\ CallMoves(d)
  <2>1. PICK pc \in {"deleting", "inserting"}, row \in {"untouched", "locked", "deleted"} :
          client' = [client EXCEPT ![c].pc = pc, ![c].row = row]
    BY <1>6 DEF FindNoAnswer, DeleteRow
  <2>2. client[c].pc # "idle" /\ client[c].key # FreshKey
    BY <1>6 DEF FindNoAnswer, DeleteRow, Looks, CaseInv, Callers
  <2> QED
    BY <2>1, <2>2, CallWrites
<1>7. ASSUME NEW c \in Client, AnswersAgain(c)
      PROVE  client'[d] \in ClientState /\ CallMoves(d)
  BY <1>4, <1>7 DEF AnswersAgain, AnswerFromCase, AnswerFromRow
<1>8. ASSUME NEW c \in Client, WorkStep(c) \/ Crash(c) \/ InsertFails(c)
      PROVE  client'[d] \in ClientState /\ CallMoves(d)
  <2>1. CASE Refuse(c) \/ Crash(c) \/ InsertFails(c)
    BY <2>1, EndWrites DEF Refuse, Crash, InsertFails
  <2>2. CASE WorkStep(c) /\ ~Refuse(c)
    BY <2>2, EndWrites DEF WorkStep, CreateCase, SetStepState, RecordDocument, AddBlocker,
       ResolveBlocker, SetValidationState, SetFollowUpOrNote, CloseCase, Changed, Completed
  <2> QED
    BY <1>8, <2>1, <2>2
<1> QED
  BY <1>2, <1>3, <1>5, <1>6, <1>7, <1>8
  DEF Next, vars, ClaimStep, AnswersAgain, Get, Respond, Retire, Tick
-----------------------------------------------------------------------------
(***************************************************************************)
(* The inductive invariant                                                 *)
(***************************************************************************)
\* Committed work changes one case.
LEMMA DoneRow ==
  ASSUME CaseInv, NEW c \in Client, NEW x \in Case, NEW row \in CaseRow, Done(c, x, row)
  PROVE  /\ case'[x] = row /\ \A y \in Case \ {x} : case'[y] = case[y]
         /\ client[c].request \in Requests
<1>1. case'[x] = row /\ \A y \in Case \ {x} : case'[y] = case[y]
  BY DEF Done, Completed, CaseInv, TypeOK
<1>2. client[c].request \in Requests
  BY DEF Done, CaseInv, Callers
<1> QED
  BY <1>1, <1>2

\* What committed work leaves behind: the case, its answer, and no other change
\* of a case.
LEMMA DoneLeaves ==
  ASSUME CaseInv, NEW c \in Client, NEW x \in Case, NEW row \in CaseRow, Done(c, x, row)
  PROVE  /\ case'[x] = row /\ \A y \in Case \ {x} : case'[y] = case[y]
         /\ client[c].request \in Requests
         /\ answers' = answers \cup
              {[request |-> client[c].request, case |-> x, revision |-> row.revision]}
         /\ row.revision \in Nat /\ row.revision > 0 /\ row.trail \in Seq(Event)
         /\ Len(row.trail) = row.revision
         /\ row.trail[row.revision] = [revision |-> row.revision, request |-> client[c].request]
         /\ row.creation \in Creations /\ UNCHANGED <<approved, reader, now>>
<1> DEFINE r == client[c].request
<1>1. case'[x] = row /\ \A y \in Case \ {x} : case'[y] = case[y]
  BY DEF Done, Completed, CaseInv, TypeOK
<1>2. r \in Requests
  BY DEF Done, CaseInv, Callers
<1>3. answers' = answers \cup {[request |-> r, case |-> x, revision |-> row.revision]}
      /\ UNCHANGED <<approved, reader, now>>
  BY DEF Done, Completed
<1>4. row.revision \in Nat /\ row.trail \in Seq(Event)
  BY DEF CaseRow
<1>5. CASE CreatesAs(r, x, row)
  BY <1>1, <1>2, <1>3, <1>4, <1>5 DEF CreatesAs
<1>6. CASE UpdatesTo(r, x, row)
  <2>1. /\ case[x].trail \in Seq(Event) /\ Len(case[x].trail) = r.expected
        /\ case[x].creation \in Creations
    BY <1>6, RowTyped DEF UpdatesTo, CaseInv, Histories, IsHistory
  <2>2. row.revision = r.expected + 1 /\ r.expected \in Nat
    BY <1>2, <1>6, RequestTyped DEF UpdatesTo, Updates
  <2>3. row.trail = Append(case[x].trail, [revision |-> row.revision, request |-> r])
        /\ row.creation \in Creations
    BY <1>6, <2>1, <2>2 DEF UpdatesTo
  <2>4. Len(row.trail) = row.revision
        /\ row.trail[row.revision] = [revision |-> row.revision, request |-> r]
    BY <2>1, <2>2, <2>3
  <2> QED
    BY <1>1, <1>2, <1>3, <1>4, <2>2, <2>3, <2>4
<1> QED
  BY <1>5, <1>6 DEF Done

\* An update appends to the trail of its case.
LEMMA UpdateAppends ==
  ASSUME CaseInv, NEW r \in Requests, NEW x \in Case, NEW row \in CaseRow, UpdatesTo(r, x, row)
  PROVE  /\ r.expected \in Nat /\ r.expected > 0 /\ case[x].revision = r.expected
         /\ row.revision = r.expected + 1
         /\ Len(case[x].trail) = r.expected /\ Len(row.trail) = r.expected + 1
         /\ \A i \in 1 .. r.expected : row.trail[i] = case[x].trail[i]
         /\ row.trail[r.expected + 1] = [revision |-> r.expected + 1, request |-> r]
         /\ case[x].creation = row.creation /\ case[x].creation \in Creations
<1>1. r.expected \in Nat /\ r.expected > 0
  BY RequestTyped DEF UpdatesTo, Updates
<1>2. /\ case[x].trail \in Seq(Event) /\ Len(case[x].trail) = r.expected
      /\ case[x].creation \in Creations
  BY RowTyped DEF UpdatesTo, CaseInv, Histories, IsHistory
<1>3. row.trail = Append(case[x].trail, [revision |-> r.expected + 1, request |-> r])
  BY DEF UpdatesTo
<1>4. Len(row.trail) = r.expected + 1
      /\ \A i \in 1 .. r.expected : row.trail[i] = case[x].trail[i]
  BY <1>1, <1>2, <1>3
<1>5. row.trail[r.expected + 1] = [revision |-> r.expected + 1, request |-> r]
  BY <1>1, <1>2, <1>3
<1> QED
  BY <1>1, <1>2, <1>4, <1>5 DEF UpdatesTo

\* Cases only grow, and a closed one does not change.
LEMMA CasesGrow ==
  ASSUME CaseInv, [Next]_vars, NEW y \in Case
  PROVE  /\ case'[y] \in CaseRow
         /\ case'[y].revision >= case[y].revision
         /\ \A i \in 1 .. case[y].revision : case'[y].trail[i] = case[y].trail[i]
         /\ case[y].status = "closed" => case'[y] = case[y]
         /\ case[y] # Absent => case'[y].creation = case[y].creation
<1>1. case[y] \in CaseRow /\ case[y].revision \in Nat
  BY RowTyped
<1> DEFINE Grows == /\ case'[y] \in CaseRow
                    /\ case'[y].revision >= case[y].revision
                    /\ \A i \in 1 .. case[y].revision : case'[y].trail[i] = case[y].trail[i]
                    /\ case[y].status = "closed" => case'[y] = case[y]
                    /\ case[y] # Absent => case'[y].creation = case[y].creation
<1>2. CASE case'[y] = case[y]
  BY <1>1, <1>2
<1>3. ASSUME NEW c \in Client, NEW x \in Case, NEW row \in CaseRow, Done(c, x, row),
             case'[y] # case[y]
      PROVE  Grows
  <2> HIDE DEF Grows
  <2>1. y = x /\ case'[y] = row /\ client[c].request \in Requests
    <3>1. /\ case'[x] = row /\ client[c].request \in Requests
          /\ \A z \in Case \ {x} : case'[z] = case[z]
      BY <1>3, DoneRow
    <3> QED
      BY <1>3, <3>1
  <2>2. CASE CreatesAs(client[c].request, x, row)
    <3>1. case[y].revision = 0 /\ case[y] = Absent /\ case[y].status = "active"
      BY <2>1, <2>2 DEF CreatesAs, Absent
    <3>2. row.revision \in Nat
      BY DEF CaseRow
    <3> QED
      BY <2>1, <3>1, <3>2 DEF Grows
  <2>3. CASE UpdatesTo(client[c].request, x, row)
    <3>1. PICK r \in Requests : UpdatesTo(r, x, row)
      BY <2>1, <2>3
    <3>2. case[y].status # "closed"
      BY <2>1, <3>1 DEF UpdatesTo
    <3>3. /\ r.expected \in Nat /\ r.expected > 0 /\ case[x].revision = r.expected
          /\ row.revision = r.expected + 1
          /\ Len(case[x].trail) = r.expected /\ Len(row.trail) = r.expected + 1
          /\ \A i \in 1 .. r.expected : row.trail[i] = case[x].trail[i]
          /\ row.trail[r.expected + 1] = [revision |-> r.expected + 1, request |-> r]
          /\ case[x].creation = row.creation /\ case[x].creation \in Creations
      BY <3>1, UpdateAppends
    <3> QED
      BY <2>1, <3>2, <3>3 DEF Grows
  <2> QED
    BY <1>3, <2>2, <2>3 DEF Done
<1>4. CASE UNCHANGED case
  BY <1>2, <1>4
<1> QED
  BY <1>2, <1>3, <1>4, CaseStep

\* A GET has one of its two relations read.
LEMMA GetReads ==
  ASSUME CaseInv, NEW q \in Reader, NEW x \in Case, Get(q, x)
  PROVE  /\ case[x] # Absent
         /\ \/ /\ reader[q].read = 0
               /\ reader'[q] = [read |-> 1, case |-> x, status |-> case[x].status,
                                revision |-> case[x].revision, events |-> reader[q].events]
            \/ /\ reader[q].read = 1 /\ reader[q].case = x
               /\ reader'[q] = [read |-> 2, case |-> x, status |-> reader[q].status,
                                revision |-> reader[q].revision, events |-> case[x].revision]
         /\ \A p \in Reader \ {q} : reader'[p] = reader[p]
<1>1. reader \in [Reader -> ReaderState] /\ reader[q] \in ReaderState
  BY DEF CaseInv, TypeOK
<1>2. reader[q].read \in {0, 1} /\ case[x] # Absent /\ reader[q].case \in {NoCase, x}
  BY <1>1 DEF Get, ReaderState
<1>3. Len(case[x].trail) = case[x].revision
  BY <1>2, RowTyped
<1>4. \A p \in Reader \ {q} : reader'[p] = reader[p]
  BY <1>1 DEF Get, ReadStatement
<1>5. CASE reader[q].read = 0
  <2>1. ReadOrder[reader[q].read + 1] = "case"
    BY <1>5 DEF ReadOrder
  <2>2. reader'[q] = [read |-> reader[q].read + 1, case |-> x, status |-> case[x].status,
                      revision |-> case[x].revision, events |-> reader[q].events]
    BY <1>1, <2>1 DEF Get, ReadStatement
  <2> QED
    BY <1>2, <1>4, <1>5, <2>2
<1>6. CASE reader[q].read = 1
  <2>1. ReadOrder[reader[q].read + 1] = "events"
    BY <1>6 DEF ReadOrder
  <2>2. reader'[q] = [read |-> reader[q].read + 1, case |-> x, status |-> reader[q].status,
                      revision |-> reader[q].revision, events |-> Len(case[x].trail)]
    BY <1>1, <2>1 DEF Get, ReadStatement
  <2>3. reader[q].case = x
    BY <1>2, <1>6, CaseConstants DEF CaseInv, ReadersBehind
  <2> QED
    BY <1>2, <1>3, <1>4, <1>6, <2>2, <2>3
<1> QED
  BY <1>2, <1>5, <1>6

\* A call does not touch the clock, the workflows or the readers.
LEMMA CallFrame ==
  ASSUME NEW c \in Client,
         ClaimStep(c) \/ WorkStep(c) \/ Crash(c) \/ \E call \in Calls : Arrive(c, call)
  PROVE  /\ UNCHANGED <<approved, reader, now>>
         /\ \/ Commit(c) \/ Rollback(c)
            \/ \E state : client' = [client EXCEPT ![c] = state]
<1>1. ASSUME NEW call \in Calls, Arrive(c, call)
      PROVE  UNCHANGED <<approved, reader, now>> /\ \E state : client' = [client EXCEPT ![c] = state]
  BY <1>1 DEF Arrive
<1>2. ASSUME ClaimStep(c), ~InsertFails(c)
      PROVE  UNCHANGED <<approved, reader, now>> /\ \E state : client' = [client EXCEPT ![c] = state]
  BY <1>2 DEF ClaimStep, TakeFence, AnswerFromCase, ClaimFreshKey, AwaitRow, AnswerFromRow,
              FindNoAnswer, AwaitDelete, DeleteRow, InsertRow
<1>3. ASSUME Crash(c) \/ InsertFails(c) \/ Refuse(c)
      PROVE  UNCHANGED <<approved, reader, now>> /\ Rollback(c)
  BY <1>3 DEF Crash, InsertFails, Refuse
<1>4. ASSUME NEW x, NEW row, Completed(c, x, row)
      PROVE  UNCHANGED <<approved, reader, now>> /\ Commit(c)
  BY <1>4 DEF Completed
<1>5. ASSUME WorkStep(c), ~Refuse(c)
      PROVE  UNCHANGED <<approved, reader, now>> /\ Commit(c)
  <2>1. \E x, row : Completed(c, x, row)
    BY <1>5 DEF WorkStep, CreateCase, SetStepState, RecordDocument, AddBlocker, ResolveBlocker,
                SetValidationState, SetFollowUpOrNote, CloseCase, Changed
  <2> QED
    BY <1>4, <2>1
<1> QED
  BY <1>1, <1>2, <1>3, <1>5

\* Every step keeps the declared shapes.
LEMMA TypeStep ==
  ASSUME CaseInv, [Next]_vars
  PROVE  TypeOK'
<1>1. TypeOK
  BY DEF CaseInv
<1>2. case' \in [Case -> CaseRow]
  <2>1. CASE UNCHANGED case
    BY <1>1, <2>1 DEF TypeOK
  <2>2. ASSUME NEW c \in Client, NEW x \in Case, NEW row \in CaseRow, Done(c, x, row)
        PROVE  case' \in [Case -> CaseRow]
    BY <1>1, <2>2 DEF Done, Completed, TypeOK
  <2> QED
    BY <2>1, <2>2, CaseStep
<1>3. (approved \subseteq WorkflowVersion)'
  BY <1>1, CallFrame DEF TypeOK, Next, vars, Get, Respond, Retire, Tick
<1>4. (now \in Time)'
  <2>1. CASE Tick
    BY <1>1, <2>1, CaseConstants DEF Tick, TypeOK, Time
  <2>2. CASE UNCHANGED now
    BY <1>1, <2>2 DEF TypeOK
  <2> QED
    BY <2>1, <2>2, CallFrame DEF Next, vars, Get, Respond, Retire
<1>5. stored' \in [Scope -> StoredRow \cup {NoRow}] /\ (answers \subseteq Answer)'
  <2>1. CASE UNCHANGED <<case, stored, answers>>
    BY <1>1, <2>1 DEF TypeOK
  <2>2. ASSUME NEW c \in Client, AnswerFromCase(c), UNCHANGED stored
        PROVE  stored' \in [Scope -> StoredRow \cup {NoRow}] /\ (answers \subseteq Answer)'
    <3>1. PICK x \in Case :
            answers' = answers \cup {[request |-> client[c].request, case |-> x, revision |-> 1]}
      BY <2>2 DEF AnswerFromCase, CreatedBy
    <3>2. client[c].request \in Requests
      BY <2>2 DEF AnswerFromCase, CaseInv, Callers
    <3> QED
      BY <1>1, <2>2, <3>1, <3>2 DEF TypeOK, Answer
  <2>3. ASSUME NEW c \in Client, AnswerFromRow(c), UNCHANGED stored
        PROVE  stored' \in [Scope -> StoredRow \cup {NoRow}] /\ (answers \subseteq Answer)'
    <3>1. client[c].request \in Requests /\ client[c].key \in Key /\ Row(c) # NoRow
      BY <2>3, ClientTyped DEF AnswerFromRow, Looks, Live, CaseInv, Callers
    <3>2. ScopeOf(c) \in Scope
      BY <3>1, RequestTyped DEF ScopeOf, Scope
    <3>3. Row(c).answer \in Answer
      BY <1>1, <3>1, <3>2 DEF Row, TypeOK, StoredRow
    <3> QED
      BY <1>1, <2>3, <3>3 DEF AnswerFromRow, TypeOK
  <2>4. ASSUME NEW c \in Client, NEW x \in Case, NEW row \in CaseRow, Done(c, x, row)
        PROVE  stored' \in [Scope -> StoredRow \cup {NoRow}] /\ (answers \subseteq Answer)'
    <3> DEFINE answer == [request |-> client[c].request, case |-> x, revision |-> row.revision]
    <3>1. answer \in Answer /\ answers' = answers \cup {answer}
      <4>1. /\ client[c].request \in Requests /\ row.revision \in Nat /\ row.revision > 0
            /\ answers' = answers \cup {answer}
        BY <2>4, DoneLeaves
      <4> QED
        BY <4>1 DEF Answer
    <3>2. client[c].at + TTL \in 0 .. MaxTime + TTL
      BY ClientTyped, CaseConstants DEF CaseInv, Time
    <3>3. [answer |-> answer, expires |-> client[c].at + TTL] \in StoredRow
      BY <3>1, <3>2 DEF StoredRow
    <3>4. \/ stored' = stored
          \/ stored' = [stored EXCEPT ![ScopeOf(c)] =
                          [answer |-> answer, expires |-> client[c].at + TTL]]
      BY <2>4 DEF Done, Completed
    <3> HIDE DEF answer
    <3> QED
      BY <1>1, <3>1, <3>3, <3>4 DEF TypeOK
  <2> QED
    BY <2>1, <2>2, <2>3, <2>4, CaseStep DEF AnswersAgain
<1>6. client' \in [Client -> ClientState]
  <2>1. client' = [c \in Client |-> client'[c]]
    <3>1. client = [c \in Client |-> client[c]]
      BY <1>1 DEF TypeOK
    <3>2. ASSUME NEW c \in Client, Commit(c) \/ Rollback(c)
          PROVE  client' = [d \in Client |-> client'[d]]
      BY <3>2 DEF Commit, Rollback, EndOf
    <3>3. ASSUME NEW c \in Client, NEW state, client' = [client EXCEPT ![c] = state]
          PROVE  client' = [d \in Client |-> client'[d]]
      BY <3>1, <3>3
    <3> QED
      BY <3>1, <3>2, <3>3, CallFrame DEF Next, vars, Get, Respond, Retire, Tick
  <2> QED
    BY <2>1, CallStep
<1>7. reader' \in [Reader -> ReaderState]
  <2>1. ASSUME NEW q \in Reader, NEW x \in Case, Get(q, x)
        PROVE  reader' \in [Reader -> ReaderState]
    <3>1. /\ case[x].status \in Status /\ case[x].revision \in Nat /\ reader[q] \in ReaderState
          /\ reader' = [reader EXCEPT ![q] = reader'[q]]
      BY <1>1, <2>1, RowTyped DEF Get, ReadStatement, TypeOK
    <3>2. reader'[q] \in ReaderState
      <4>1. \/ reader'[q] = [read |-> 1, case |-> x, status |-> case[x].status,
                             revision |-> case[x].revision, events |-> reader[q].events]
            \/ reader'[q] = [read |-> 2, case |-> x, status |-> reader[q].status,
                             revision |-> reader[q].revision, events |-> case[x].revision]
        BY <2>1, GetReads
      <4>2. /\ reader[q].events \in Nat /\ reader[q].status \in Status
            /\ reader[q].revision \in Nat
        BY <3>1 DEF ReaderState
      <4>3. \A read \in {1, 2}, status \in Status, revision, events \in Nat :
              [read |-> read, case |-> x, status |-> status, revision |-> revision,
               events |-> events] \in ReaderState
        BY DEF ReaderState
      <4> QED
        BY <3>1, <4>1, <4>2, <4>3
    <3> QED
      BY <1>1, <3>1, <3>2 DEF TypeOK
  <2>2. ASSUME NEW q \in Reader, Respond(q)
        PROVE  reader' \in [Reader -> ReaderState]
    <3>1. Unread \in ReaderState
      BY DEF Unread, ReaderState, Status
    <3> QED
      BY <1>1, <2>2, <3>1 DEF Respond, TypeOK
  <2>3. CASE UNCHANGED reader
    BY <1>1, <2>3 DEF TypeOK
  <2> QED
    BY <2>1, <2>2, <2>3, CallFrame DEF Next, vars, Retire, Tick
<1> QED
  BY <1>2, <1>3, <1>4, <1>5, <1>6, <1>7 DEF TypeOK

\* Every step keeps each case the list of the requests carried out for it.
LEMMA HistoriesStep ==
  ASSUME CaseInv, [Next]_vars
  PROVE  Histories'
<1>1. ASSUME NEW c \in Client, NEW x \in Case, NEW row \in CaseRow, Done(c, x, row)
      PROVE  IsHistory(x, row)
  <2> DEFINE r == client[c].request
  <2>1. r \in Requests
    BY <1>1, DoneLeaves
  <2>2. CASE CreatesAs(r, x, row)
    <3>1. /\ r \in Creations /\ r # NoRequest
          /\ row.creation = r /\ row.revision = 1 /\ row.status = "active"
          /\ row.trail = <<[revision |-> 1, request |-> r]>>
      BY <2>1, <2>2, CaseConstants DEF CreatesAs
    <3>2. Len(row.trail) = 1 /\ row.trail[1].revision = 1 /\ row.trail[1].request = r
      BY <3>1
    <3> HIDE DEF r
    <3> QED
      BY <3>1, <3>2 DEF IsHistory
  <2>3. CASE UpdatesTo(r, x, row)
    <3> DEFINE n == r.expected
    <3>1. /\ n \in Nat /\ n > 0 /\ case[x].revision = n /\ row.revision = n + 1
          /\ Len(row.trail) = n + 1
          /\ \A i \in 1 .. n : row.trail[i] = case[x].trail[i]
          /\ row.trail[n + 1] = [revision |-> n + 1, request |-> r]
          /\ case[x].creation = row.creation /\ case[x].creation \in Creations
      BY <2>1, <2>3, UpdateAppends
    <3>2. r \in Updates /\ r.case = x /\ (row.status = "closed" <=> r.action.type = "close_case")
      BY <2>3 DEF UpdatesTo
    <3>3. row.creation # NoRequest
      BY <3>1, CaseConstants DEF Creations
    <3>4. \A i \in 1 .. n :
            /\ case[x].trail[i].revision = i
            /\ IF i = 1
               THEN case[x].trail[i].request = case[x].creation
               ELSE /\ case[x].trail[i].request \in Updates
                    /\ case[x].trail[i].request.case = x
                    /\ case[x].trail[i].request.expected = i - 1
      <4>1. IsHistory(x, case[x]) /\ case[x].creation # NoRequest /\ case[x].revision = n
        BY <3>1, <3>3 DEF CaseInv, Histories
      <4> HIDE DEF n
      <4> QED
        BY <4>1 DEF IsHistory
    <3>5. /\ row.trail[n + 1].revision = n + 1 /\ row.trail[n + 1].request = r
          /\ r.expected = (n + 1) - 1
      BY <3>1
    <3> HIDE DEF n, r
    <3>6. ASSUME NEW i \in 1 .. n + 1
          PROVE  /\ row.trail[i].revision = i
                 /\ IF i = 1
                    THEN row.trail[i].request = row.creation
                    ELSE /\ row.trail[i].request \in Updates
                         /\ row.trail[i].request.case = x
                         /\ row.trail[i].request.expected = i - 1
      <4>1. CASE i \in 1 .. n
        BY <3>1, <3>4, <4>1
      <4>2. CASE i = n + 1
        BY <3>1, <3>2, <3>5, <4>2
      <4> QED
        BY <3>1, <4>1, <4>2
    <3>7. row.status = "closed" <=>
            row.revision > 1 /\ row.trail[row.revision].request.action.type = "close_case"
      BY <3>1, <3>2, <3>5
    <3> QED
      BY <3>1, <3>3, <3>6, <3>7 DEF IsHistory
  <2> QED
    BY <1>1, <2>2, <2>3 DEF Done
<1>2. ASSUME NEW y \in Case PROVE IsHistory(y, case'[y])
  <2>1. CASE case'[y] = case[y]
    BY <2>1 DEF CaseInv, Histories
  <2>2. ASSUME NEW c \in Client, NEW x \in Case, NEW row \in CaseRow, Done(c, x, row)
        PROVE  case'[y] = case[y] \/ IsHistory(y, case'[y])
    <3>1. case'[x] = row /\ \A z \in Case \ {x} : case'[z] = case[z]
      BY <2>2, DoneRow
    <3> QED
      BY <1>1, <2>2, <3>1
  <2> QED
    BY <2>1, <2>2, CaseStep
<1> QED
  BY <1>2 DEF Histories, IsHistory

\* No step opens a second case for a request.
LEMMA OneCaseStep ==
  ASSUME CaseInv, [Next]_vars
  PROVE  OneCasePerCreation'
<1>1. CASE UNCHANGED case
  BY <1>1 DEF CaseInv, OneCasePerCreation
<1>2. ASSUME NEW c \in Client, NEW x \in Case, NEW row \in CaseRow, Done(c, x, row)
      PROVE  OneCasePerCreation'
  <2>1. /\ case'[x] = row /\ \A z \in Case \ {x} : case'[z] = case[z]
        /\ client[c].request \in Requests
    BY <1>2, DoneRow
  <2>2. CASE CreatesAs(client[c].request, x, row)
    <3>1. row.creation = client[c].request /\ \A z \in Case : case[z].creation # row.creation
      BY <2>2 DEF CreatesAs, MayCreate, CreatedBy
    <3> QED
      BY <2>1, <3>1 DEF CaseInv, OneCasePerCreation
  <2>3. CASE UpdatesTo(client[c].request, x, row)
    <3>1. row.creation = case[x].creation
      BY <2>3 DEF UpdatesTo
    <3>2. \A z \in Case : case'[z].creation = case[z].creation
      BY <2>1, <3>1
    <3> QED
      BY <3>2 DEF CaseInv, OneCasePerCreation
  <2> QED
    BY <1>2, <2>2, <2>3 DEF Done
<1> QED
  BY <1>1, <1>2, CaseStep

\* Every step keeps a case with an open blocker blocked or reviewed since.
LEMMA BlockersStep ==
  ASSUME CaseInv, [Next]_vars
  PROVE  BlockersReviewed'
<1>1. ASSUME NEW c \in Client, NEW x \in Case, NEW row \in CaseRow, Done(c, x, row),
             row.status \in {"active", "ready_for_review"}, OpenBlockers(row) # {}
      PROVE  ReviewedSince(row.trail)
  <2> DEFINE r == client[c].request
             n == r.expected
             e == [revision |-> n + 1, request |-> r]
  <2>1. r \in Requests
    BY <1>1, DoneLeaves
  <2>2. ~CreatesAs(r, x, row)
    <3>1. \A b \in Blocker : Absent.blockers[b] = "none"
      BY DEF Absent
    <3> QED
      BY <1>1, <3>1 DEF CreatesAs, OpenBlockers
  <2>3. UpdatesTo(r, x, row)
    BY <1>1, <2>2 DEF Done
  <2>4. /\ n \in Nat /\ n > 0 /\ Len(case[x].trail) = n /\ Len(row.trail) = n + 1
        /\ \A i \in 1 .. n : row.trail[i] = case[x].trail[i]
        /\ row.trail[n + 1] = e
    BY <2>1, <2>3, UpdateAppends
  <2>5. \/ Reviewing(e)
        \/ /\ r.action.type # "add_blocker"
           /\ case[x].status \in {"active", "ready_for_review"} /\ OpenBlockers(case[x]) # {}
    BY <1>1, <2>3 DEF UpdatesTo
  <2>6. row.trail \in Seq(Event) /\ case[x].trail \in Seq(Event)
    BY RowTyped DEF CaseRow
  <2>7. DOMAIN row.trail = 1 .. n + 1 /\ DOMAIN case[x].trail = 1 .. n
    BY <2>4, <2>6
  <2>8. r.action.type # "add_blocker" => ~Blocking(e)
    BY DEF Blocking
  <2> HIDE DEF n, e, r
  <2>9. CASE Reviewing(e)
    <3>1. n + 1 \in DOMAIN row.trail /\ Reviewing(row.trail[n + 1])
          /\ \A j \in n + 1 + 1 .. Len(row.trail) : ~Blocking(row.trail[j])
      BY <2>4, <2>7, <2>9
    <3> QED
      BY <3>1 DEF ReviewedSince
  <2>10. CASE ~Reviewing(e)
    <3>1. ReviewedSince(case[x].trail) /\ ~Blocking(e)
      BY <2>5, <2>8, <2>10 DEF CaseInv, BlockersReviewed
    <3>2. PICK i \in 1 .. n : /\ Reviewing(case[x].trail[i])
                              /\ \A j \in i + 1 .. n : ~Blocking(case[x].trail[j])
      BY <2>4, <2>7, <3>1 DEF ReviewedSince
    <3>3. i \in DOMAIN row.trail /\ Reviewing(row.trail[i])
      BY <2>4, <2>7, <3>2
    <3>4. ASSUME NEW j \in i + 1 .. n + 1 PROVE ~Blocking(row.trail[j])
      <4>1. CASE j = n + 1
        BY <2>4, <3>1, <4>1
      <4>2. CASE j # n + 1
        <5>1. j \in i + 1 .. n /\ j \in 1 .. n
          BY <2>4, <3>2, <3>4, <4>2
        <5> QED
          BY <2>4, <3>2, <5>1
      <4> QED
        BY <4>1, <4>2
    <3> QED
      BY <2>4, <3>3, <3>4 DEF ReviewedSince
  <2> QED
    BY <2>9, <2>10
<1>2. ASSUME NEW y \in Case
      PROVE  case'[y].status \in {"active", "ready_for_review"} /\ OpenBlockers(case'[y]) # {} =>
               ReviewedSince(case'[y].trail)
  <2>1. CASE case'[y] = case[y]
    BY <2>1 DEF CaseInv, BlockersReviewed
  <2>2. ASSUME NEW c \in Client, NEW x \in Case, NEW row \in CaseRow, Done(c, x, row)
        PROVE  case'[y] = case[y] \/ (y = x /\ case'[y] = row)
    <3>1. case'[x] = row /\ \A z \in Case \ {x} : case'[z] = case[z]
      BY <2>2, DoneRow
    <3> QED
      BY <3>1
  <2>3. CASE UNCHANGED case
    BY <2>1, <2>3
  <2> QED
    BY <1>1, <2>1, <2>2, <2>3, CaseStep
<1> QED
  BY <1>2 DEF BlockersReviewed, OpenBlockers, ReviewedSince, Reviewing, Blocking

\* What an answer says stays true, whatever is done later.
LEMMA RecordedStays ==
  ASSUME CaseInv, [Next]_vars, NEW a \in Answer,
         a.revision <= case[a.case].revision, case[a.case].trail[a.revision].request = a.request
  PROVE  /\ a.revision <= case'[a.case].revision
         /\ case'[a.case].trail[a.revision].request = a.request
<1> DEFINE x == a.case
<1>1. x \in Case /\ a.revision \in Nat /\ a.revision > 0
  BY DEF Answer
<1>2. /\ case'[x] \in CaseRow /\ case'[x].revision >= case[x].revision
      /\ \A i \in 1 .. case[x].revision : case'[x].trail[i] = case[x].trail[i]
  BY <1>1, CasesGrow
<1>3. case'[x].revision \in Nat /\ case[x].revision \in Nat
  BY <1>1, <1>2, RowTyped DEF CaseRow
<1> HIDE DEF x
<1>4. a.revision \in 1 .. case[x].revision
  BY <1>1, <1>3 DEF x
<1> QED
  BY <1>1, <1>2, <1>3, <1>4 DEF x

\* No step withdraws an answer, and the new one is recorded in its case.
LEMMA AnswersStep ==
  ASSUME CaseInv, [Next]_vars
  PROVE  /\ answers \subseteq answers'
         /\ AnswersRecorded'
<1>1. answers \subseteq Answer
  BY DEF CaseInv, TypeOK
<1>2. ASSUME NEW a \in answers
      PROVE  /\ a.revision <= case'[a.case].revision
             /\ case'[a.case].trail[a.revision].request = a.request
  BY <1>1, RecordedStays DEF CaseInv, AnswersRecorded
<1>3. CASE UNCHANGED answers
  BY <1>2, <1>3 DEF AnswersRecorded
<1>4. ASSUME NEW c \in Client, AnswerFromCase(c), UNCHANGED case
      PROVE  answers \subseteq answers' /\ AnswersRecorded'
  <2>1. PICK x \in CreatedBy(client[c].request) :
          answers' = answers \cup {[request |-> client[c].request, case |-> x, revision |-> 1]}
    BY <1>4 DEF AnswerFromCase
  <2>2. client[c].request \in Requests /\ client[c].request # NoRequest
    BY <1>4, CaseConstants DEF AnswerFromCase, CaseInv, Callers
  <2>3. /\ x \in Case /\ case[x].creation = client[c].request
    BY <2>1 DEF CreatedBy
  <2>4. case[x].revision \in Nat /\ 1 <= case[x].revision
        /\ case[x].trail[1].request = client[c].request
    <3>1. IsHistory(x, case[x]) /\ case[x].creation # NoRequest /\ case[x].revision \in Nat
      BY <2>2, <2>3, RowTyped DEF CaseInv, Histories
    <3> QED
      BY <2>3, <3>1 DEF IsHistory
  <2> QED
    BY <1>2, <1>4, <2>1, <2>4 DEF AnswersRecorded
<1>5. ASSUME NEW c \in Client, AnswerFromRow(c)
      PROVE  UNCHANGED answers
  <2>1. client[c].request \in Requests /\ client[c].key \in Key /\ Row(c) # NoRow
    BY <1>5, ClientTyped DEF AnswerFromRow, Looks, Live, CaseInv, Callers
  <2>2. ScopeOf(c) \in Scope
    BY <2>1, RequestTyped DEF ScopeOf, Scope
  <2>3. Row(c).answer \in answers
    BY <2>1, <2>2 DEF CaseInv, StoredAnswersAreTrue, Row
  <2> QED
    BY <1>5, <2>3 DEF AnswerFromRow
<1>6. ASSUME NEW c \in Client, NEW x \in Case, NEW row \in CaseRow, Done(c, x, row)
      PROVE  answers \subseteq answers' /\ AnswersRecorded'
  <2> DEFINE r == client[c].request
  <2>1. /\ case'[x] = row /\ row.revision \in Nat
        /\ row.trail[row.revision] = [revision |-> row.revision, request |-> r]
        /\ answers' = answers \cup {[request |-> r, case |-> x, revision |-> row.revision]}
    BY <1>6, DoneLeaves
  <2>2. /\ row.revision <= case'[x].revision /\ case'[x].trail[row.revision].request = r
    BY <2>1
  <2> HIDE DEF r
  <2> QED
    BY <1>2, <2>1, <2>2 DEF AnswersRecorded
<1> QED
  BY <1>3, <1>4, <1>5, <1>6, CaseStep DEF AnswersAgain

\* Every step keeps stored answers true (completeIdempotency).
LEMMA StoredStep ==
  ASSUME CaseInv, [Next]_vars
  PROVE  StoredAnswersAreTrue'
<1>1. ASSUME NEW s \in Scope, stored[s] # NoRow, stored'[s] = stored[s]
      PROVE  LET answer == stored'[s].answer
             IN  /\ answer \in answers'
                 /\ <<answer.request.by, answer.request.operation>> = <<s[1], s[2]>>
                 /\ case'[answer.case].revision >= answer.revision
                 /\ case'[answer.case].trail[answer.revision].request = answer.request
  <2> DEFINE a == stored[s].answer
  <2>1. /\ a \in answers /\ <<a.request.by, a.request.operation>> = <<s[1], s[2]>>
    BY <1>1 DEF CaseInv, StoredAnswersAreTrue
  <2>2. a \in Answer /\ a \in answers'
    BY <2>1, AnswersStep DEF CaseInv, TypeOK
  <2>3. a.revision <= case'[a.case].revision /\ case'[a.case].trail[a.revision].request = a.request
    BY <2>1, <2>2, RecordedStays DEF CaseInv, AnswersRecorded
  <2>4. case'[a.case].revision \in Nat /\ a.revision \in Nat
    BY <2>2, CasesGrow DEF Answer, CaseRow
  <2> QED
    BY <1>1, <2>1, <2>2, <2>3, <2>4
<1>2. ASSUME NEW c \in Client, NEW x \in Case, NEW row \in CaseRow, Done(c, x, row),
             NEW s \in Scope, stored'[s] # stored[s]
      PROVE  LET answer == stored'[s].answer
             IN  /\ answer \in answers'
                 /\ <<answer.request.by, answer.request.operation>> = <<s[1], s[2]>>
                 /\ case'[answer.case].revision >= answer.revision
                 /\ case'[answer.case].trail[answer.revision].request = answer.request
  <2> DEFINE r == client[c].request
             a == [request |-> r, case |-> x, revision |-> row.revision]
  <2>1. /\ case'[x] = row /\ row.revision \in Nat
        /\ row.trail[row.revision] = [revision |-> row.revision, request |-> r]
        /\ answers' = answers \cup {a}
    BY <1>2, DoneLeaves
  <2>2. stored' = [stored EXCEPT ![ScopeOf(c)] = [answer |-> a, expires |-> client[c].at + TTL]]
    BY <1>2 DEF Done, Completed
  <2>3. s = ScopeOf(c) /\ stored'[s].answer = a
    BY <1>2, <2>2 DEF CaseInv, TypeOK
  <2>4. s[1] = r.by /\ s[2] = r.operation
    BY <2>3 DEF ScopeOf
  <2>5. a.request = r /\ a.case = x /\ a.revision = row.revision
    OBVIOUS
  <2>6. case'[x].revision >= row.revision /\ case'[x].trail[row.revision].request = r
    BY <2>1
  <2> HIDE DEF r, a
  <2> QED
    BY <2>1, <2>3, <2>4, <2>5, <2>6
<1>3. ASSUME NEW s \in Scope, stored'[s] # NoRow
      PROVE  LET answer == stored'[s].answer
             IN  /\ answer \in answers'
                 /\ <<answer.request.by, answer.request.operation>> = <<s[1], s[2]>>
                 /\ case'[answer.case].revision >= answer.revision
                 /\ case'[answer.case].trail[answer.revision].request = answer.request
  <2>1. CASE stored'[s] = stored[s]
    BY <1>1, <1>3, <2>1
  <2>2. CASE stored'[s] # stored[s]
    <3>1. PICK c \in Client, x \in Case, row \in CaseRow : Done(c, x, row)
      BY <2>2, CaseStep
    <3> QED
      BY <1>2, <2>2, <3>1
  <2> QED
    BY <2>1, <2>2
<1> QED
  BY <1>3 DEF StoredAnswersAreTrue

\* Every step keeps what a call in progress has.
LEMMA CallersStep ==
  ASSUME CaseInv, [Next]_vars
  PROVE  Callers'
<1>1. ASSUME NEW c \in Client
      PROVE  /\ client'[c].pc # "idle" => client'[c].request \in Requests
             /\ client'[c].pc \in {"waiting", "deleting", "delaying", "inserting"} =>
                  client'[c].key # FreshKey
  <2>1. CallMoves(c)
    BY CallStep
  <2>2. /\ client[c].pc # "idle" => client[c].request \in Requests
        /\ client[c].pc \in {"waiting", "deleting", "delaying", "inserting"} =>
             client[c].key # FreshKey
    BY DEF CaseInv, Callers
  <2> QED
    BY <2>1, <2>2, IdleTyped DEF CallMoves, CallArrives, CallGoesOn
<1> QED
  BY <1>1 DEF Callers

\* Every step keeps what a GET has read a past of its case.
LEMMA ReadersStep ==
  ASSUME CaseInv, [Next]_vars
  PROVE  ReadersBehind'
<1> DEFINE Behind(g, cases) ==
             /\ g.read = 0 => g.case = NoCase
             /\ g.read > 0 => /\ g.case \in Case
                              /\ g.revision <= cases[g.case].revision
                              /\ g.status = "closed" => /\ cases[g.case].status = "closed"
                                                        /\ cases[g.case].revision = g.revision
             /\ g.read = 2 => /\ g.events >= g.revision
                              /\ g.status = "closed" => g.events = g.revision
<1>1. \A q \in Reader : reader[q] \in ReaderState /\ Behind(reader[q], case)
  BY DEF CaseInv, TypeOK, ReadersBehind
<1>2. ASSUME NEW q \in Reader, reader'[q] = reader[q] PROVE Behind(reader'[q], case')
  <2> DEFINE g == reader[q]
  <2>1. g.read \in 0 .. 2 /\ g.revision \in Nat /\ Behind(g, case)
    BY <1>1 DEF ReaderState
  <2>2. CASE g.read = 0
    BY <1>2, <2>1, <2>2
  <2>3. CASE g.read > 0
    <3>1. g.case \in Case
      BY <2>1, <2>3
    <3>2. /\ case'[g.case] \in CaseRow /\ case'[g.case].revision >= case[g.case].revision
          /\ case[g.case].status = "closed" => case'[g.case] = case[g.case]
      BY <3>1, CasesGrow
    <3>3. case'[g.case].revision \in Nat /\ case[g.case].revision \in Nat
      BY <3>1, <3>2, RowTyped DEF CaseRow
    <3> HIDE DEF g
    <3>4. g.revision <= case'[g.case].revision
      BY <2>1, <2>3, <3>2, <3>3
    <3>5. g.status = "closed" => /\ case'[g.case].status = "closed"
                                 /\ case'[g.case].revision = g.revision
      BY <2>1, <2>3, <3>2
    <3>6. Behind(g, case')
      BY <2>1, <2>3, <3>1, <3>4, <3>5
    <3> QED
      BY <1>2, <3>6 DEF g
  <2> QED
    BY <2>1, <2>2, <2>3
<1>3. ASSUME NEW p \in Reader, NEW x \in Case, Get(p, x), NEW q \in Reader
      PROVE  Behind(reader'[q], case')
  <2>1. CASE q # p
    <3>1. reader'[q] = reader[q]
      BY <1>3, <2>1, GetReads, ZenonT(60)
    <3> QED
      BY <1>2, <3>1
  <2>2. CASE q = p
    <3>1. UNCHANGED case
      BY <1>3 DEF Get
    <3>2. case[x].revision \in Nat /\ reader[q].revision \in Nat /\ Behind(reader[q], case)
      BY <1>1, RowTyped DEF ReaderState
    <3>3. CASE /\ reader[q].read = 0
               /\ reader'[q] = [read |-> 1, case |-> x, status |-> case[x].status,
                                revision |-> case[x].revision, events |-> reader[q].events]
      BY <3>1, <3>2, <3>3
    <3>4. CASE /\ reader[q].read = 1 /\ reader[q].case = x
               /\ reader'[q] = [read |-> 2, case |-> x, status |-> reader[q].status,
                                revision |-> reader[q].revision, events |-> case[x].revision]
      BY <3>1, <3>2, <3>4
    <3> QED
      BY <1>3, <2>2, <3>3, <3>4, GetReads
  <2> QED
    BY <2>1, <2>2
<1>4. ASSUME NEW p \in Reader, Respond(p), NEW q \in Reader
      PROVE  Behind(reader'[q], case')
  <2>1. CASE q # p
    BY <1>2, <1>4, <2>1 DEF Respond, CaseInv, TypeOK
  <2>2. CASE q = p
    BY <1>4, <2>2 DEF Respond, Unread, CaseInv, TypeOK
  <2> QED
    BY <2>1, <2>2
<1>5. CASE UNCHANGED reader
  BY <1>2, <1>5 DEF ReadersBehind
<1>6. ASSUME NEW q \in Reader PROVE Behind(reader'[q], case')
  <2>1. \/ UNCHANGED reader
        \/ \E p \in Reader : (\E x \in Case : Get(p, x)) \/ Respond(p)
    BY CallFrame DEF Next, vars, Retire, Tick
  <2> QED
    BY <1>2, <1>3, <1>4, <2>1
<1> QED
  BY <1>6 DEF ReadersBehind

\* Types and strengthening together are inductive.
THEOREM Shape == Spec => []CaseInv
<1>1. Init => CaseInv
  <2> SUFFICES ASSUME Init PROVE CaseInv
    OBVIOUS
  <2>1. TypeOK
    <3>1. Unread \in ReaderState
      BY DEF Unread, ReaderState, Status
    <3>2. now \in Time
      BY CaseConstants DEF Init, Time
    <3> QED
      BY <3>1, <3>2, AbsentTyped, IdleTyped DEF Init, TypeOK
  <2>2. Histories /\ OneCasePerCreation
    BY DEF Init, Histories, IsHistory, OneCasePerCreation, Absent
  <2>3. BlockersReviewed
    BY DEF Init, BlockersReviewed, Absent, OpenBlockers
  <2>4. AnswersRecorded /\ StoredAnswersAreTrue /\ Callers
    BY IdleTyped DEF Init, AnswersRecorded, StoredAnswersAreTrue, Callers, Idle
  <2>5. ReadersBehind
    BY DEF Init, ReadersBehind, Unread
  <2> QED
    BY <2>1, <2>2, <2>3, <2>4, <2>5 DEF CaseInv
<1>2. CaseInv /\ [Next]_vars => CaseInv'
  BY TypeStep, HistoriesStep, OneCaseStep, BlockersStep, AnswersStep, StoredStep, CallersStep,
     ReadersStep DEF CaseInv
<1> QED
  BY <1>1, <1>2, PTL DEF Spec

\* Every variable of the cases has its type.
THEOREM Types == Spec => []TypeOK
<1>1. CaseInv => TypeOK
  BY DEF CaseInv
<1> QED
  BY <1>1, Shape, PTL
-----------------------------------------------------------------------------
(***************************************************************************)
(* Trails, reads and keys                                                  *)
(***************************************************************************)
\* The trail accounts for every revision and every blocker of a case
\* (applyAction).
THEOREM Trails == Spec => []TrailAccounts
<1>1. CaseInv => Trail
  <2> SUFFICES ASSUME CaseInv, NEW x \in Case
               PROVE  /\ Len(case[x].trail) = case[x].revision
                      /\ \A i \in 1 .. case[x].revision :
                           /\ case[x].trail[i].revision = i
                           /\ i > 1 => case[x].trail[i].request.expected = i - 1
                      /\ case[x].status = "closed" <=>
                           /\ case[x].revision > 1
                           /\ case[x].trail[case[x].revision].request.action.type = "close_case"
    BY DEF Trail
  <2>1. IsHistory(x, case[x]) /\ case[x].revision \in Nat
    BY RowTyped DEF CaseInv, Histories
  <2>2. CASE case[x] = Absent
    BY <2>2 DEF Absent
  <2>3. CASE case[x] # Absent
    BY <2>1, <2>3 DEF IsHistory
  <2> QED
    BY <2>2, <2>3
<1>2. CaseInv => OpenBlockersHold
  BY DEF CaseInv, BlockersReviewed, ReviewedSince, OpenBlockersHold
<1> QED
  BY <1>1, <1>2, Shape, PTL DEF TrailAccounts

\* What a GET puts together is never behind the case it began with, and exact
\* once the case is closed (get, relations).
THEOREM Reads == Spec => []ReadsHoldTogether
<1>1. CaseInv => ReadsHoldTogether
  BY DEF CaseInv, ReadersBehind, ReadsHoldTogether
<1> QED
  BY <1>1, Shape, PTL

\* A request is carried out once: it has one place in the trails.
LEMMA CarriedOnce ==
  ASSUME CaseInv, NEW x \in Case, NEW y \in Case,
         NEW i \in 1 .. case[x].revision, NEW j \in 1 .. case[y].revision,
         case[x].trail[i].request = case[y].trail[j].request
  PROVE  x = y /\ i = j
<1>1. /\ case[x].revision \in Nat /\ case[y].revision \in Nat
      /\ case[x].creation # NoRequest /\ case[y].creation # NoRequest
  <2>1. ASSUME NEW z \in Case, 1 .. case[z].revision # {}
        PROVE  case[z].revision \in Nat /\ case[z].creation # NoRequest
    <3>1. Absent.revision = 0
      BY DEF Absent
    <3> QED
      BY <2>1, <3>1, RowTyped DEF CaseInv, Histories, IsHistory
  <2> QED
    BY <2>1
<1> DEFINE r == case[x].trail[i].request
<1>2. /\ IF i = 1 THEN r = case[x].creation /\ r \in Creations
         ELSE r \in Updates /\ r.case = x /\ r.expected = i - 1
      /\ IF j = 1 THEN r = case[y].creation /\ r \in Creations
         ELSE r \in Updates /\ r.case = y /\ r.expected = j - 1
  <2>1. IsHistory(x, case[x]) /\ IsHistory(y, case[y])
    BY DEF CaseInv, Histories
  <2>2. IF i = 1 THEN r = case[x].creation /\ r \in Creations
        ELSE r \in Updates /\ r.case = x /\ r.expected = i - 1
    BY <1>1, <2>1 DEF IsHistory
  <2>3. r = case[y].trail[j].request
    OBVIOUS
  <2> HIDE DEF r
  <2>4. IF j = 1 THEN r = case[y].creation /\ r \in Creations
        ELSE r \in Updates /\ r.case = y /\ r.expected = j - 1
    BY <1>1, <2>1, <2>3 DEF IsHistory
  <2> QED
    BY <2>2, <2>4
<1>3. ~(r \in Creations /\ r \in Updates)
  BY DEF Creations, Updates
<1> HIDE DEF r
<1>4. CASE i = 1
  <2>1. j = 1 /\ case[x].creation = case[y].creation
    BY <1>2, <1>3, <1>4
  <2> QED
    BY <1>1, <1>4, <2>1 DEF CaseInv, OneCasePerCreation
<1>5. CASE i # 1
  <2>1. j # 1 /\ x = y /\ i - 1 = j - 1
    BY <1>2, <1>3, <1>5
  <2> QED
    BY <2>1
<1> QED
  BY <1>4, <1>5

\* Whoever has come to work under a key has done so alone.
LEMMA ExecutionStep ==
  ASSUME CaseInv, OneExecutionPerKey, [Next]_vars
  PROVE  OneExecutionPerKey'
<1>1. ASSUME NEW c \in Client, client'[c].pc = "working"
      PROVE  \/ client[c].pc = "working" /\ client'[c] = client[c]
             \/ InsertRow(c)
             \/ ClaimFreshKey(c) /\ client'[c].key = FreshKey
  <2>1. CallMoves(c)
    BY CallStep
  <2>2. ClaimFreshKey(c) => client[c].key = FreshKey
    BY DEF ClaimFreshKey
  <2> QED
    BY <1>1, <2>1, <2>2, IdleTyped DEF CallMoves, CallArrives, CallGoesOn, InsertRow
<1>2. ASSUME NEW c \in Client, NEW d \in Client, c # d, client'[c].key # FreshKey,
             client'[c].pc = "working", client'[d].pc = "working",
             InsertRow(c), ScopeOf(c)' = ScopeOf(d)'
      PROVE  FALSE
  <2>1. /\ client[c].pc = "inserting" /\ ~IndexTaken(c)
        /\ client' = [client EXCEPT ![c].pc = "working"]
    BY <1>2 DEF InsertRow
  <2>2. /\ client'[d] = client[d]
        /\ client'[c].request = client[c].request /\ client'[c].key = client[c].key
    BY <1>2, <2>1 DEF CaseInv, TypeOK, ClientState
  <2>3. SameScope(c, d)
    BY <1>2, <2>1, <2>2 DEF SameScope, ScopeOf
  <2> QED
    BY <1>2, <2>1, <2>2, <2>3 DEF IndexTaken
<1>3. ASSUME NEW c \in Client, NEW d \in Client, SameScope(c, d)',
             client'[c].pc = "working", client'[d].pc = "working"
      PROVE  FALSE
  <2>1. /\ c # d /\ client'[c].key # FreshKey /\ ScopeOf(c)' = ScopeOf(d)'
        /\ client'[c].key = client'[d].key
    BY <1>3 DEF SameScope, ScopeOf
  <2>2. ~InsertRow(c) /\ ~InsertRow(d)
    BY <1>2, <1>3, <2>1
  <2>3. client[c].pc = "working" /\ client'[c] = client[c]
        /\ client[d].pc = "working" /\ client'[d] = client[d]
    BY <1>1, <1>3, <2>1, <2>2
  <2>4. SameScope(c, d)
    BY <2>1, <2>3 DEF SameScope, ScopeOf
  <2> QED
    BY <2>3, <2>4 DEF OneExecutionPerKey
<1> QED
  BY <1>3 DEF OneExecutionPerKey

\* Keys, stored answers and executions agree, however requests with one key
\* overlap (claimIdempotency, completeIdempotency).
THEOREM Keys == Spec => []KeysAgree
<1>1. CaseInv => OneAnswer
  <2> SUFFICES ASSUME CaseInv, NEW one \in answers, NEW two \in answers, one.request = two.request
               PROVE  one = two
    BY DEF OneAnswer
  <2>1. /\ one \in Answer /\ two \in Answer
        /\ one.revision <= case[one.case].revision /\ two.revision <= case[two.case].revision
        /\ case[one.case].trail[one.revision].request = one.request
        /\ case[two.case].trail[two.revision].request = two.request
    BY DEF CaseInv, TypeOK, AnswersRecorded
  <2>2. /\ one.case \in Case /\ two.case \in Case
        /\ one.revision \in 1 .. case[one.case].revision
        /\ two.revision \in 1 .. case[two.case].revision
    BY <2>1, RowTyped DEF Answer
  <2>3. one.case = two.case /\ one.revision = two.revision
    BY <2>1, <2>2, CarriedOnce
  <2> QED
    BY <2>1, <2>3 DEF Answer
<1>2. CaseInv => StoredAnswersAreTrue
  BY DEF CaseInv
<1>3. Init => OneExecutionPerKey
  BY IdleTyped DEF Init, OneExecutionPerKey
<1>4. CaseInv /\ OneExecutionPerKey /\ [Next]_vars => OneExecutionPerKey'
  BY ExecutionStep
<1> QED
  BY <1>1, <1>2, <1>3, <1>4, Shape, PTL DEF Spec, KeysAgree
-----------------------------------------------------------------------------
(***************************************************************************)
(* The cases implement CaseLedger                                          *)
(***************************************************************************)
\* The requests of a trail, in order.
Carries(trail) == [i \in DOMAIN trail |-> trail[i].request]

\* The refinement mapping.
LedgerOf == [x \in Case |-> Carries(case[x].trail)]

\* A request of a case that nothing was done for, or that it does not expect any
\* more, is nowhere in the ledger.
LEMMA NotCarried ==
  ASSUME CaseInv, NEW r \in Requests,
         \/ r \in Creations /\ CreatedBy(r) = {}
         \/ r \in Updates /\ r.case \in Case /\ case[r.case].revision = r.expected
  PROVE  \A y \in Case : \A i \in DOMAIN case[y].trail : case[y].trail[i].request # r
<1> SUFFICES ASSUME NEW y \in Case, NEW i \in DOMAIN case[y].trail, case[y].trail[i].request = r
             PROVE  FALSE
  OBVIOUS
<1>1. /\ case[y].trail \in Seq(Event) /\ case[y].revision \in Nat /\ IsHistory(y, case[y])
  BY RowTyped DEF CaseInv, Histories
<1>2. case[y].creation # NoRequest
  <2>1. Absent.trail = <<>>
    BY DEF Absent
  <2> QED
    BY <1>1, <2>1 DEF IsHistory
<1>3. i \in 1 .. case[y].revision
  BY <1>1, <1>2 DEF IsHistory
<1>4. IF i = 1 THEN r = case[y].creation /\ r \in Creations
      ELSE r \in Updates /\ r.case = y /\ r.expected = i - 1
  BY <1>1, <1>2, <1>3 DEF IsHistory
<1>5. ~(r \in Creations /\ r \in Updates)
  BY DEF Creations, Updates
<1>6. CASE r \in Creations /\ CreatedBy(r) = {}
  BY <1>4, <1>5, <1>6 DEF CreatedBy
<1>7. CASE r \in Updates /\ case[r.case].revision = r.expected
  BY <1>1, <1>3, <1>4, <1>5, <1>7
<1> QED
  BY <1>6, <1>7

\* Each step opens one case, adds one request to one, or adds nothing.
LEMMA LedgerStep ==
  ASSUME CaseInv, [Next]_vars
  PROVE  \/ UNCHANGED LedgerOf
         \/ \E x \in Case, r \in Requests :
              /\ \A y \in Case : \A i \in DOMAIN LedgerOf[y] : LedgerOf[y][i] # r
              /\ \/ /\ r \in Creations /\ LedgerOf[x] = <<>>
                    /\ LedgerOf' = [LedgerOf EXCEPT ![x] = <<r>>]
                 \/ /\ r \in Updates /\ LedgerOf[x] # <<>>
                    /\ LedgerOf[x][Len(LedgerOf[x])] \notin ClosingRequests
                    /\ LedgerOf' = [LedgerOf EXCEPT ![x] = Append(LedgerOf[x], r)]
<1>1. /\ LedgerOf = [x \in Case |-> LedgerOf[x]]
      /\ LedgerOf' = [x \in Case |-> Carries(case'[x].trail)]
      /\ \A x \in Case : LedgerOf[x] = Carries(case[x].trail)
  BY DEF LedgerOf, Carries
<1>2. CASE UNCHANGED case
  BY <1>2 DEF LedgerOf, Carries
<1>3. ASSUME NEW c \in Client, NEW x \in Case, NEW row \in CaseRow, Done(c, x, row)
      PROVE  \E r \in Requests :
              /\ \A y \in Case : \A i \in DOMAIN LedgerOf[y] : LedgerOf[y][i] # r
              /\ \/ /\ r \in Creations /\ LedgerOf[x] = <<>>
                    /\ LedgerOf' = [LedgerOf EXCEPT ![x] = <<r>>]
                 \/ /\ r \in Updates /\ LedgerOf[x] # <<>>
                    /\ LedgerOf[x][Len(LedgerOf[x])] \notin ClosingRequests
                    /\ LedgerOf' = [LedgerOf EXCEPT ![x] = Append(LedgerOf[x], r)]
  <2>1. PICK r \in Requests : r = client[c].request
    BY <1>3, DoneRow
  <2>2. case'[x] = row /\ \A y \in Case \ {x} : case'[y] = case[y]
    BY <1>3, DoneRow
  <2>3. LedgerOf' = [LedgerOf EXCEPT ![x] = Carries(row.trail)]
    BY <1>1, <2>2
  <2>4. CreatesAs(r, x, row) \/ UpdatesTo(r, x, row)
    BY <1>3, <2>1 DEF Done
  <2>5. ASSUME \A y \in Case : \A i \in DOMAIN case[y].trail : case[y].trail[i].request # r
        PROVE  \A y \in Case : \A i \in DOMAIN LedgerOf[y] : LedgerOf[y][i] # r
    BY <1>1, <2>5 DEF Carries
  <2>6. CASE CreatesAs(r, x, row)
    <3>1. /\ r \in Creations /\ CreatedBy(r) = {} /\ case[x] = Absent
          /\ row.trail = <<[revision |-> 1, request |-> r]>>
      BY <2>6 DEF CreatesAs, MayCreate
    <3>2. Carries(row.trail) = <<r>>
      BY <3>1 DEF Carries
    <3>3. LedgerOf[x] = <<>>
      BY <1>1, <3>1 DEF Carries, Absent
    <3> QED
      BY <2>3, <2>5, <3>1, <3>2, <3>3, NotCarried
  <2>7. CASE UpdatesTo(r, x, row)
    <3>1. r \in Updates /\ r.case = x /\ case[x].revision = r.expected
          /\ case[x].status # "closed" /\ case[x] # Absent
      BY <2>7 DEF UpdatesTo
    <3> DEFINE n == r.expected
               s == case[x].trail
               e == [revision |-> n + 1, request |-> r]
    <3>2. n \in Nat /\ n > 0 /\ s \in Seq(Event) /\ Len(s) = n /\ row.trail = Append(s, e)
      BY <2>7, <3>1, RequestTyped, RowTyped DEF UpdatesTo, Updates
    <3>3. s[n].request \notin ClosingRequests
      <4>1. IsHistory(x, case[x]) /\ case[x].creation # NoRequest
        BY <3>1, RowTyped DEF CaseInv, Histories
      <4>2. CASE n = 1
        BY <3>1, <4>1, <4>2 DEF IsHistory, ClosingRequests, Creations, Updates
      <4>3. CASE n > 1
        BY <3>1, <4>1, <4>3 DEF IsHistory, ClosingRequests
      <4> QED
        BY <3>2, <4>2, <4>3
    <3> HIDE DEF n, s
    <3>4. e \in Event
      BY <3>2 DEF Event
    <3>5. e.request = r
      OBVIOUS
    <3> HIDE DEF e
    <3>6. Carries(s) \in Seq(Requests) /\ Len(Carries(s)) = n
          /\ \A i \in 1 .. n : Carries(s)[i] = s[i].request
      <4>1. DOMAIN s = 1 .. n /\ \A i \in 1 .. n : s[i] \in Event
        BY <3>2, LenProperties, ElementOfSeq
      <4>2. \A i \in 1 .. n : s[i].request \in Requests
        BY <4>1 DEF Event
      <4>3. Carries(s) = [i \in 1 .. n |-> s[i].request]
        BY <4>1 DEF Carries
      <4>4. Carries(s) \in [1 .. n -> Requests]
        BY <4>2, <4>3
      <4>5. Carries(s) \in Seq(Requests)
        BY <3>2, <4>4, SeqDef
      <4>6. DOMAIN Carries(s) = 1 .. n
        BY <4>3
      <4>7. Len(Carries(s)) = n
        BY <3>2, <4>5, <4>6, LenProperties
      <4> QED
        BY <4>3, <4>5, <4>7
    <3>7. Carries(row.trail) = Append(Carries(s), r)
      <4>1. /\ row.trail \in Seq(Event) /\ Len(row.trail) = n + 1
            /\ row.trail[n + 1] = e /\ \A i \in 1 .. n : row.trail[i] = s[i]
        BY <3>2, <3>4
      <4>2. Carries(row.trail) = [i \in 1 .. n + 1 |-> row.trail[i].request]
        BY <3>2, <4>1 DEF Carries
      <4>3. Append(Carries(s), r) \in Seq(Requests) /\ Len(Append(Carries(s), r)) = n + 1
            /\ Append(Carries(s), r)[n + 1] = r
            /\ \A i \in 1 .. n : Append(Carries(s), r)[i] = s[i].request
        BY <3>2, <3>6
      <4>4. Append(Carries(s), r) = [i \in 1 .. n + 1 |-> Append(Carries(s), r)[i]]
        <5> DEFINE t == Append(Carries(s), r)
        <5>1. t \in Seq(Requests) /\ Len(t) = n + 1
          BY <4>3
        <5> HIDE DEF t
        <5>2. t \in [1 .. n + 1 -> Requests]
          BY <5>1, LenProperties
        <5>3. t = [i \in 1 .. n + 1 |-> t[i]]
          BY <5>2
        <5> QED
          BY <5>3 DEF t
      <4>5. \A i \in 1 .. n + 1 : row.trail[i].request = Append(Carries(s), r)[i]
        BY <3>2, <3>5, <4>1, <4>3
      <4> QED
        BY <4>2, <4>4, <4>5
    <3>8. LedgerOf[x] = Carries(s)
      BY <1>1 DEF s
    <3>9. LedgerOf[x] # <<>> /\ LedgerOf[x][Len(LedgerOf[x])] = s[n].request
      BY <3>2, <3>6, <3>8
    <3>10. \A y \in Case : \A i \in DOMAIN LedgerOf[y] : LedgerOf[y][i] # r
      BY <2>5, <3>1, NotCarried
    <3>11. s[n].request \notin ClosingRequests
      BY <3>3 DEF s, n
    <3> QED
      BY <2>3, <3>1, <3>7, <3>8, <3>9, <3>10, <3>11
  <2> QED
    BY <2>4, <2>6, <2>7
<1> QED
  BY <1>2, <1>3, CaseStep

\* The cases are the ledger of CaseLedger: executeMutation carries out no request
\* twice and nothing after a closure, and changes nothing else.
THEOREM Ledgers == Spec => ImplementsLedger
<1>1. Init => Ledger!LedgerInit
  BY DEF Init, Absent, Ledger!LedgerInit
<1>2. CaseInv /\ [Next]_vars => [Ledger!LedgerNext]_LedgerOf
  <2> SUFFICES ASSUME CaseInv, [Next]_vars
               PROVE  Ledger!LedgerNext \/ UNCHANGED LedgerOf
    OBVIOUS
  <2>1. ASSUME NEW x \in Case, NEW r \in Requests,
               \A y \in Case : \A i \in DOMAIN LedgerOf[y] : LedgerOf[y][i] # r
        PROVE  /\ LedgerOf[x] = <<>> /\ LedgerOf' = [LedgerOf EXCEPT ![x] = <<r>>] =>
                    Ledger!Open(x, r)
               /\ LedgerOf[x] # <<>> /\ LedgerOf[x][Len(LedgerOf[x])] \notin ClosingRequests
                    /\ LedgerOf' = [LedgerOf EXCEPT ![x] = Append(LedgerOf[x], r)] =>
                    Ledger!Change(x, r)
    BY <2>1 DEF Ledger!Open, Ledger!Change, Ledger!Carried, LedgerOf, Carries
  <2> QED
    BY <2>1, LedgerStep DEF Ledger!LedgerNext
<1>3. [Ledger!LedgerNext]_LedgerOf =>
        [Ledger!LedgerNext]_([x \in Case |-> [i \in DOMAIN case[x].trail |-> case[x].trail[i].request]])
  BY DEF LedgerOf, Carries
<1> QED
  BY <1>1, <1>2, <1>3, Shape, PTL DEF Spec, ImplementsLedger, Ledger!LedgerSpec
=============================================================================
