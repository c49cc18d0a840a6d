------------------------- MODULE IntegrationApi_proofs -------------------------
(***************************************************************************)
(* Proofs about the requests of the integration API: that what comes       *)
(* before the body is checked, limited and recorded (RequestGate), and     *)
(* that a request sent again under its key is answered the same            *)
(* (KeyedAnswers), for any number of calls and windows, every limit, every *)
(* lifetime of a key, and every request to every route.                    *)
(***************************************************************************)
EXTENDS RequestGate, KeyedAnswers, FiniteSetTheorems, TLAPS

(***************************************************************************)
(* The checks of the handlers: the gate comes before the body              *)
(***************************************************************************)
Words ==
  {"authentication", "gate", "body", "method", "request_id", "idempotency_key", "content_type",
   "registry", "schema", "request_id_match", "tenant", "community", "boundary", "authority",
   "credential", "query_text", "jurisdiction", "operation", "definition", "definition_tenant",
   "no_body", "path", "parameters", "filters", "urls", "pipeline"} \cup DOMAIN RolesWith
In(x, s) == \E i \in 1..Len(s) : s[i] = x
Free(s) == s \in Seq(Words) /\ ~In("gate", s)
Clean(s) == Free(s) /\ ~In("body", s)
GateFirst(s) ==
  /\ s \in Seq(Words) /\ In("gate", s)
  /\ \A i, j \in 1..Len(s) : s[i] = "gate" /\ s[j] = "body" => i < j
Guarded(s) == GateFirst(s) /\ Len(s) >= 2 /\ s[1] = "authentication"

\* A concatenation of checks consists of the checks of both, those of the second after the first.
LEMMA Joined ==
  ASSUME NEW a \in Seq(Words), NEW b \in Seq(Words)
  PROVE  /\ a \o b \in Seq(Words)
         /\ \A i \in 1..Len(a) : i \in 1..Len(a \o b) /\ (a \o b)[i] = a[i]
         /\ \A i \in 1..Len(b) : i + Len(a) \in 1..Len(a \o b) /\ (a \o b)[i + Len(a)] = b[i]
         /\ \A i \in 1..Len(a \o b) :
              \/ i \in 1..Len(a) /\ (a \o b)[i] = a[i]
              \/ i > Len(a) /\ i - Len(a) \in 1..Len(b) /\ (a \o b)[i] = b[i - Len(a)]
OBVIOUS

\* Checks without the gate stay so when they are joined.
LEMMA JoinedFree ==
  ASSUME NEW a, NEW b, Free(a), Free(b)
  PROVE  Free(a \o b)
BY Joined DEF Free, In

\* Checks without gate and body stay so when they are joined.
LEMMA JoinedClean ==
  ASSUME NEW a, NEW b, Clean(a), Clean(b)
  PROVE  Clean(a \o b)
BY Joined DEF Clean, Free, In

\* Checks after the gate leave it in front of the body.
LEMMA GateThen ==
  ASSUME NEW a, NEW b, GateFirst(a), Free(b)
  PROVE  GateFirst(a \o b)
<1> DEFINE s == a \o b
<1>1. a \in Seq(Words) /\ b \in Seq(Words)
  BY DEF GateFirst, Free
<1>2. s \in Seq(Words) /\ In("gate", s)
  BY <1>1, Joined DEF GateFirst, In
<1>3. ASSUME NEW i \in 1..Len(s), NEW j \in 1..Len(s), s[i] = "gate", s[j] = "body"
      PROVE  i < j
  <2>1. i \in 1..Len(a) /\ a[i] = "gate"
    BY <1>1, <1>3, Joined DEF Free, In
  <2>2. CASE j > Len(a)
    BY <2>1, <2>2, <1>1
  <2>3. CASE j \in 1..Len(a) /\ s[j] = a[j]
    BY <2>1, <2>3, <1>3 DEF GateFirst
  <2>4. QED  BY <2>2, <2>3, <1>1, Joined
<1>4. QED  BY <1>2, <1>3 DEF GateFirst

\* Checks in front of the gate leave it in front of the body, unless they read it.
LEMMA ThenGate ==
  ASSUME NEW a, NEW b, Clean(a), GateFirst(b)
  PROVE  GateFirst(a \o b)
<1> DEFINE s == a \o b
<1>1. a \in Seq(Words) /\ b \in Seq(Words)
  BY DEF GateFirst, Clean, Free
<1>2. s \in Seq(Words) /\ In("gate", s)
  <2>1. PICK i \in 1..Len(b) : b[i] = "gate"
    BY DEF GateFirst, In
  <2>2. i + Len(a) \in 1..Len(s) /\ s[i + Len(a)] = "gate"
    BY <1>1, <2>1, Joined
  <2>3. QED  BY <1>1, <2>2, Joined DEF In
<1>3. ASSUME NEW i \in 1..Len(s), NEW j \in 1..Len(s), s[i] = "gate", s[j] = "body"
      PROVE  i < j
  <2>1. \A k \in {i, j} : k - Len(a) \in 1..Len(b) /\ s[k] = b[k - Len(a)]
    BY <1>1, <1>3, Joined DEF Clean, Free, In
  <2>2. i - Len(a) < j - Len(a)
    BY <2>1, <1>3 DEF GateFirst
  <2>3. QED  BY <2>2, <1>1
<1>4. QED  BY <1>2, <1>3 DEF GateFirst

\* A handler that begins with authentication and meets the gate may go on with any check.
LEMMA GuardedThen ==
  ASSUME NEW a, NEW b, Guarded(a), Free(b)
  PROVE  Guarded(a \o b)
<1>1. a \in Seq(Words) /\ b \in Seq(Words) /\ Len(a) >= 2 /\ a[1] = "authentication"
  BY DEF Guarded, GateFirst, Free
<1>2. Len(a \o b) >= 2 /\ (a \o b)[1] = "authentication"
  BY <1>1
<1>3. QED  BY <1>2, GateThen DEF Guarded

\* A handler may do checks that read no body between authentication and the gate.
LEMMA EnteredThen ==
  ASSUME NEW a, NEW b, Clean(a), Len(a) >= 2, a[1] = "authentication", GateFirst(b)
  PROVE  Guarded(a \o b)
<1>1. a \in Seq(Words) /\ b \in Seq(Words)
  BY DEF Clean, GateFirst, Free
<1>2. Len(a \o b) >= 2 /\ (a \o b)[1] = "authentication"
  BY <1>1
<1>3. QED  BY <1>2, ThenGate DEF Guarded

\* The handlers of src/src/api/v1: the ones that count before they look at the permission.
LEMMA ApiGates == Guarded(QueryChecks) /\ Guarded(PackChecks) /\ Guarded(GapChecks)
<1>1. Guarded(<<"authentication", "gate">>)
  BY DEF Guarded, GateFirst, In, Words
<1>2. Free(QueryHeaders) /\ Free(PackHeaders) /\ Free(GapHeaders)
  BY DEF Free, In, QueryHeaders, PackHeaders, GapHeaders, Words, RolesWith
<1>3. Free(QueryBody) /\ Free(PackBody)
  BY DEF Free, In, QueryBody, PackBody, Words
<1>4. Free(GapBody)
  BY DEF Free, In, GapBody, Words
<1>5. QED  BY <1>1, <1>2, <1>3, <1>4, GuardedThen DEF QueryChecks, PackChecks, GapChecks

\* Search and bundle read the permission before they count (src/src/api/v1/searchEvidenceHandler.ts).
LEMMA SearchGates == Guarded(SearchChecks) /\ Guarded(BundleChecks)
<1> DEFINE search ==
      <<"authentication", "evidence_query", "method", "request_id", "gate", "content_type",
        "body", "schema", "operation">>
    bundle ==
      <<"authentication", "evidence_query", "method", "request_id", "gate", "content_type",
        "idempotency_key", "body", "schema", "operation">>
<1>1. Guarded(search)
  BY DEF Guarded, GateFirst, In, Words, RolesWith
<1>2. Guarded(bundle)
  BY DEF Guarded, GateFirst, In, Words, RolesWith
<1>3. Free(SearchIdentity)
  BY DEF Free, In, SearchIdentity, Words
<1>4. SearchChecks = search \o SearchIdentity /\ BundleChecks = bundle \o SearchIdentity
  BY DEF SearchChecks, BundleChecks
<1> HIDE DEF search, bundle
<1>5. QED  BY <1>1, <1>2, <1>3, <1>4, GuardedThen

\* What a workflow request passes first is authentication, and no body.
LEMMA WorkflowEntries ==
  ASSUME NEW permission \in DOMAIN RolesWith
  PROVE  LET entry == WorkflowEntry(permission)
         IN  Clean(entry) /\ Len(entry) >= 2 /\ entry[1] = "authentication"
BY DEF WorkflowEntry, Clean, Free, In, Words, RolesWith

\* The workflow lifecycle handler counts a request before it reads its body.
LEMMA WorkflowGates ==
  /\ Guarded(DraftChecks) /\ Guarded(ReviewChecks) /\ Guarded(ApprovalChecks)
  /\ Guarded(WorkflowReadChecks)
<1>1. GateFirst(WorkflowWrite)
  BY DEF GateFirst, In, WorkflowWrite, Words
<1>2. GateFirst(<<"no_body", "gate", "path">>)
  BY DEF GateFirst, In, Words
<1>3. Free(<<"definition", "definition_tenant">>) /\ Free(WorkflowIdentity)
  BY DEF Free, In, WorkflowIdentity, Words
<1>4. Free(<<"procedure_review">>)
  BY DEF Free, In, Words, RolesWith
<1>5. \A p \in DOMAIN RolesWith : /\ Guarded(WorkflowEntry(p) \o WorkflowWrite)
                                  /\ Guarded(WorkflowEntry(p) \o <<"no_body", "gate", "path">>)
  BY <1>1, <1>2, WorkflowEntries, EnteredThen
<1>6. {"procedure_draft", "procedure_draft_or_review", "procedure_approve", "procedure_read"}
        \subseteq DOMAIN RolesWith
  BY DEF RolesWith
<1>7. QED
  BY <1>3, <1>4, <1>5, <1>6, GuardedThen DEF DraftChecks, ReviewChecks, ApprovalChecks, WorkflowReadChecks

\* What a procedure case request passes first is authentication, and no body.
LEMMA CaseEntries ==
  ASSUME NEW permission \in DOMAIN RolesWith
  PROVE  LET entry == CaseEntry(permission)
         IN  Clean(entry) /\ Len(entry) >= 2 /\ entry[1] = "authentication"
BY DEF CaseEntry, Clean, Free, In, Words, RolesWith

\* The procedure case handler counts a request before it reads its body.
LEMMA CaseGates ==
  Guarded(CaseCreateChecks) /\ Guarded(CaseValidationChecks) /\ Guarded(CaseReadChecks)
<1>1. GateFirst(CaseWrite)
  BY DEF GateFirst, In, CaseWrite, Words
<1>2. GateFirst(<<"no_body", "gate", "path">>)
  BY DEF GateFirst, In, Words
<1>3. Free(CaseIdentity) /\ Free(<<"procedure_review">>)
  BY DEF Free, In, CaseIdentity, Words, RolesWith
<1>4. \A p \in DOMAIN RolesWith : /\ Guarded(CaseEntry(p) \o CaseWrite)
                                  /\ Guarded(CaseEntry(p) \o <<"no_body", "gate", "path">>)
  BY <1>1, <1>2, CaseEntries, EnteredThen
<1>5. {"case_write", "case_write_or_review", "case_read"} \subseteq DOMAIN RolesWith
  BY DEF RolesWith
<1>6. QED
  BY <1>3, <1>4, <1>5, GuardedThen DEF CaseCreateChecks, CaseValidationChecks, CaseReadChecks

\* The catalog handler counts a request before it reads its body.
LEMMA CatalogGates ==
  ASSUME NEW permission \in DOMAIN RolesWith
  PROVE  Guarded(CatalogListChecks(permission)) /\ Guarded(CatalogWriteChecks(permission))
<1>1. permission # "gate" /\ permission # "body" /\ permission \in Words
  BY DEF RolesWith, Words
<1>2. Guarded(CatalogListChecks(permission))
  BY <1>1 DEF Guarded, GateFirst, In, CatalogListChecks, Words
<1>3. Guarded(CatalogWriteChecks(permission))
  BY <1>1 DEF Guarded, GateFirst, In, CatalogWriteChecks, Words
<1>4. QED  BY <1>2, <1>3

\* The ingestion job handler counts a request before it reads its body.
LEMMA JobGates == Guarded(JobPostChecks) /\ Guarded(JobGetChecks)
<1>1. Guarded(JobEntry)
  BY DEF Guarded, GateFirst, In, JobEntry, Words, RolesWith
<1>2. Free(<<"method">>) /\ Free(<<"no_body", "method", "path">>)
  BY DEF Free, In, Words
<1>3. Free(JobPost)
  BY DEF Free, In, JobPost, Words
<1>4. QED  BY <1>1, <1>2, <1>3, GuardedThen DEF JobPostChecks, JobGetChecks

\* Every route begins with authentication and reads no body before consumeRateLimit let the
\* request in.
LEMMA ChecksGuarded == \A r \in Route : Guarded(ChecksOf[r])
<1>1. \A p \in {"source_read", "document_read", "document_ingest", "procedure_read", "source_write", "document_write"} :
        p \in DOMAIN RolesWith
  BY DEF RolesWith
<1>2. QED
  BY <1>1, ApiGates, SearchGates, WorkflowGates, CaseGates, CatalogGates, JobGates DEF Route, ChecksOf

(***************************************************************************)
(* The inductive invariant, in parts                                       *)
(***************************************************************************)
Began(c) == call[c].request # NoRequest
Early == {"idle", "headers", "gating"}
Unanswered == {"idle", "headers", "gating", "admitted", "entered"}
ForEach(request) == request.route \in RecordsEachRefusal
EachRefusal(c) == ForEach(call[c].request)

\* What a request passed before it reached the gate.
Cleared(request) ==
  LET second == ChecksOf[request.route][2]
  IN  /\ request \in [route: Route, role: Roles, wrong: SUBSET Check]
      /\ ~Fails(request, "authentication")
      /\ ~Fails(request, second) \/ second = "gate"

\* How far a call came, and what it holds there.
Fits(c, r, now) ==
  /\ r.phase = "idle" <=> r.request = NoRequest
  /\ r.window <= now
  /\ r.phase = "gating" => now <= r.window + 1
  /\ r.phase \in Early => ~r.admitted /\ ~r.read
  /\ r.phase \in {"admitted", "entered"} => r.admitted
  /\ r.read => r.admitted
  /\ r.admitted \/ r.phase = "gating" => Cleared(r.request)
  /\ r.phase \in Unanswered => r.status = 0 /\ r.cites = NoEvent
  /\ r.phase = "refused" => r.status \notin {0, 200, 401}
  /\ r.phase = "refused" /\ r.status # 429 => r.cites = Own(c, "answer")
  /\ r.phase = "refused" /\ r.status = 429 => r.cites = Own(c, "window")
  /\ r.phase # "answered" /\ r.status = 429 => ForEach(r.request)
Calls == \A c \in Call : Fits(c, call[c], window)

\* All the calls are for one route.
OneRoute == \A c, d \in Call : Began(c) /\ Began(d) => call[c].request.route = call[d].request.route

\* A window counts calls that went through it, and one that cannot have been deleted has
\* admitted each of them until its limit.
Through(w) == {c \in Call : call[c].phase \notin Early /\ call[c].window = w}
Live(w) == w + 2 > window
Counts ==
  /\ \A w \in 0..MaxWindow : windows[w].count <= Cardinality(Through(w))
  /\ \A w \in 0..MaxWindow : Live(w) =>
       Cardinality(AdmittedIn(w)) = IF windows[w].count <= Limit THEN windows[w].count ELSE Limit
  /\ \A w \in 0..MaxWindow : Cardinality(AdmittedIn(w)) <= Limit
  /\ \A c \in Call, w \in 0..MaxWindow :
       Refused(c) /\ call[c].window = w => Cardinality(AdmittedIn(w)) = Limit

\* An event is of a call that ended, and what an answer names is one.
Named(c) ==
  call[c].phase = "answered" =>
    call[c].cites \in events \/ (call[c].cites = NoEvent /\ call[c].status \in {401, 500})
Recorded ==
  /\ \A e \in events : call[e.of].phase \in {"answered", "lost"}
  /\ \A c \in Call : Named(c)

\* Where the window records its refusals it has the event of the first, and every refusal
\* that it answered names it.
SharedRefusal ==
  /\ \A w \in 0..MaxWindow :
       windows[w].blocked # NoEvent => \/ windows[w].blocked \in events
                                       \/ \E c \in Call : Began(c) /\ EachRefusal(c)
  /\ \A c \in Call : Refused(c) /\ ~EachRefusal(c) => call[c].cites # NoEvent
  /\ \A c \in Call, w \in 0..MaxWindow :
       /\ Refused(c) /\ ~EachRefusal(c)
       /\ call[c].window = w /\ Live(w)
       => call[c].cites = windows[w].blocked
  /\ \A c, d \in Call :
       /\ Refused(c) /\ Refused(d) /\ call[c].window = call[d].window
       /\ ~EachRefusal(c)
       => call[c].cites = call[d].cites
RefusalEvents ==
  \A e \in events : e.for = "window" /\ ~EachRefusal(e.of) => Refused(e.of) /\ call[e.of].cites = e

\* The failed authentications of a window have its event.
SharedFailure ==
  /\ \A w \in 0..MaxWindow : failures[w] # NoEvent => failures[w] \in events
  /\ \A e \in events : e.for = "answer" /\ call[e.of].status = 401 =>
       \E w \in 0..MaxWindow : failures[w] = e

GateInv ==
  /\ GateTypeOK /\ Calls /\ OneRoute /\ Counts
  /\ Recorded /\ SharedRefusal /\ RefusalEvents /\ SharedFailure

(***************************************************************************)
(* Steps of one call                                                       *)
(***************************************************************************)
Phases == {"idle", "headers", "gating", "admitted", "entered", "refused", "answered", "lost"}
Statuses == {0, 200, 400, 401, 403, 404, 409, 429, 500, 503}
Requests == [route: Route, role: Roles, wrong: SUBSET Check]
AskedField == Requests \cup {NoRequest}
Cited == Event \cup {NoEvent}

\* What every step of a call outside its window's transaction does.
Walks(c) ==
  /\ call' \in [Call -> CallState]
  /\ \A d \in Call \ {c} : call'[d] = call[d]
  /\ UNCHANGED <<windows, window>>
  /\ call'[c].phase \in Early => call[c].phase \in {"idle", "headers"}
  /\ call'[c].admitted = call[c].admitted
  /\ call'[c].window # call[c].window => call[c].phase \in Early /\ call'[c].phase \in Early
  /\ call'[c].request # call[c].request => call[c].request = NoRequest
  /\ call'[c].status = 429 =>
       call[c].status = 429 /\ call'[c].request = call[c].request /\ EachRefusal(c)
  /\ Fits(c, call'[c], window)

\* What a step of a call does to the events.
Notes(c) ==
  /\ events \subseteq events' /\ events' \subseteq Event
  /\ call[c].phase \notin {"answered", "lost"}
  /\ \A e \in events' \ events :
       /\ e.of = c /\ call'[c].phase \in {"answered", "lost"}
       /\ e.for = "window" => ForEach(call'[c].request) \/ (call'[c].status = 429 /\ call'[c].cites = e)
       /\ e.for = "answer" /\ call'[c].status = 401 => \E w \in 0..MaxWindow : failures'[w] = e
  /\ call'[c].phase = "answered" =>
       call'[c].cites \in events' \/ (call'[c].cites = NoEvent /\ call'[c].status \in {401, 500})
  /\ failures' \in [0..MaxWindow -> Event \cup {NoEvent}]
  /\ \A w \in 0..MaxWindow : failures'[w] # failures[w] => failures[w] = NoEvent /\ failures'[w] \in events'

\* The rows of calls as the records of named sets.
LEMMA RowSet ==
  CallState = [phase: Phases, request: AskedField, read: BOOLEAN, window: 0..MaxWindow,
               admitted: BOOLEAN, status: Statuses, cites: Cited]
BY DEF CallState, Phases, AskedField, Requests, Statuses, Cited

\* A step may set these three fields of a row.
LEMMA RowWith ==
  ASSUME NEW r \in CallState, NEW phase \in Phases, NEW status \in Statuses, NEW cites \in Cited
  PROVE  [r EXCEPT !.phase = phase, !.status = status, !.cites = cites] \in CallState
BY RowSet

\* A step may set these two fields of a row.
LEMMA RowAnswered ==
  ASSUME NEW r \in CallState, NEW phase \in Phases, NEW status \in Statuses
  PROVE  [r EXCEPT !.phase = phase, !.status = status] \in CallState
BY RowSet

\* Values that steps give to the fields of a row.
LEMMA RowValues ==
  /\ \A phase \in {"headers", "gating", "admitted", "entered", "refused", "answered", "lost"} : phase \in Phases
  /\ \A status \in {200, 401, 409, 429, 500} : status \in Statuses
  /\ NoEvent \in Cited
BY DEF Phases, Statuses, Cited

\* A step of one call leaves the rows of the others alone.
LEMMA CallMoved ==
  ASSUME call \in [Call -> CallState], NEW c \in Call, NEW r \in CallState,
         call' = [call EXCEPT ![c] = r]
  PROVE  /\ call' \in [Call -> CallState] /\ call'[c] = r
         /\ \A d \in Call \ {c} : call'[d] = call[d]
OBVIOUS

\* What the invariant says of one call.
LEMMA RowIs ==
  ASSUME GateInv, NEW c \in Call
  PROVE  /\ call[c] \in CallState /\ Fits(c, call[c], window)
         /\ call \in [Call -> CallState] /\ window \in 0..MaxWindow
BY DEF GateInv, GateTypeOK, Calls

\* The audit event of a call is an event.
LEMMA OwnEvent ==
  ASSUME NEW c \in Call, NEW for \in {"window", "answer"}
  PROVE  Own(c, for) \in Event /\ Own(c, for).of = c /\ Own(c, for).for = for /\ Own(c, for) # NoEvent
BY GateConstants DEF Own, Event

\* Another call's request is not touched.
LEMMA RouteStays ==
  ASSUME OneRoute, NEW c \in Call, Walks(c), call'[c].request = call[c].request
  PROVE  OneRoute'
BY DEF Walks, OneRoute, Began

\* recordAuthenticationFailure: a rejected token is answered 401 with the event of its window, the
\* first one writes it, and the call never comes near the gate.
LEMMA FailureStep ==
  ASSUME GateInv, NEW c \in Call, Unauthorized(c)
  PROVE  Walks(c) /\ Notes(c) /\ OneRoute'
<1>1. /\ call[c] \in CallState /\ Fits(c, call[c], window)
      /\ call \in [Call -> CallState] /\ window \in 0..MaxWindow
  BY RowIs
<1>2. call[c].phase = "headers"
  BY DEF Unauthorized, Unauthenticated
<1>3. failures \in [0..MaxWindow -> Event \cup {NoEvent}] /\ events \subseteq Event
  BY DEF GateInv, GateTypeOK
<1>4. \A w \in 0..MaxWindow : failures[w] # NoEvent => failures[w] \in events
  BY DEF GateInv, SharedFailure
<1>5. CASE /\ call' = [call EXCEPT ![c].phase = "answered", ![c].status = 401]
           /\ UNCHANGED <<failures, events, windows, window>>
  <2>1. PICK r \in CallState :
          /\ r = [call[c] EXCEPT !.phase = "answered", !.status = 401]
          /\ call' = [call EXCEPT ![c] = r]
    <3>1. PICK phase \in Phases, status \in Statuses : phase = "answered" /\ status = 401
      BY RowValues
    <3>2. PICK r \in CallState : r = [call[c] EXCEPT !.phase = phase, !.status = status]
      BY <1>1, RowAnswered, Zenon
    <3>3. call' = [call EXCEPT ![c].phase = phase, ![c].status = status]
      BY <1>5, <3>1
    <3>4. call' = [call EXCEPT ![c] = r]
      BY <1>1, <3>2, <3>3, Zenon
    <3>5. QED  BY <3>1, <3>2, <3>4
  <2>2. call' = [call EXCEPT ![c] = r]
    BY <2>1
  <2>3. /\ r.phase = "answered" /\ r.status = 401 /\ r.request = call[c].request
        /\ r.read = call[c].read /\ r.window = call[c].window /\ r.admitted = call[c].admitted
        /\ r.cites = call[c].cites
    BY <1>1, <2>1, RowSet
  <2>4. Fits(c, r, window)
    BY <1>1, <1>2, <2>3 DEF Fits, Early, Unanswered
  <2>5. Walks(c)
    BY <1>1, <1>2, <1>5, <2>2, <2>3, <2>4, CallMoved DEF Walks, Early
  <2>6. Notes(c)
    BY <1>1, <1>2, <1>3, <1>5, <2>2, <2>3, CallMoved DEF Notes, Fits, Unanswered
  <2>7. OneRoute'
    BY <1>1, <2>2, <2>3, <2>5, CallMoved, RouteStays DEF GateInv
  <2>8. QED  BY <2>5, <2>6, <2>7
<1>6. CASE /\ call' = [call EXCEPT ![c].phase = "answered", ![c].status = 401, ![c].cites = FailureEvent(c)]
           /\ failures' = [failures EXCEPT ![window] = FailureEvent(c)]
           /\ events' = events \cup {FailureEvent(c)}
           /\ UNCHANGED <<windows, window>>
  <2>0. PICK event \in Cited : event = FailureEvent(c) /\ event \in Event
    BY <1>1, <1>3, OwnEvent DEF FailureEvent, Cited
  <2>1. PICK r \in CallState :
          /\ r = [call[c] EXCEPT !.phase = "answered", !.status = 401, !.cites = event]
          /\ call' = [call EXCEPT ![c] = r]
    <3>1. PICK phase \in Phases, status \in Statuses : phase = "answered" /\ status = 401
      BY RowValues
    <3>2. PICK r \in CallState : r = [call[c] EXCEPT !.phase = phase, !.status = status, !.cites = event]
      BY <1>1, RowWith, Zenon
    <3>3. call' = [call EXCEPT ![c].phase = phase, ![c].status = status, ![c].cites = event]
      BY <1>6, <2>0, <3>1
    <3>4. call' = [call EXCEPT ![c] = r]
      BY <1>1, <3>2, <3>3, Zenon
    <3>5. QED  BY <3>1, <3>2, <3>4
  <2>2. call' = [call EXCEPT ![c] = r]
    BY <2>1
  <2>3. /\ r.phase = "answered" /\ r.status = 401 /\ r.request = call[c].request
        /\ r.read = call[c].read /\ r.window = call[c].window /\ r.admitted = call[c].admitted
        /\ r.cites = event
    BY <1>1, <2>1, RowSet
  <2>4. Fits(c, r, window)
    BY <1>1, <1>2, <2>3 DEF Fits, Early, Unanswered
  <2>5. Walks(c)
    BY <1>1, <1>2, <1>6, <2>2, <2>3, <2>4, CallMoved DEF Walks, Early
  <2>6. /\ failures'[window] = event /\ \A w \in 0..MaxWindow : w # window => failures'[w] = failures[w]
        /\ failures' \in [0..MaxWindow -> Event \cup {NoEvent}]
        /\ event = failures[window] \/ (event = Own(c, "answer") /\ failures[window] = NoEvent)
    BY <1>1, <1>3, <1>6, <2>0 DEF FailureEvent
  <2>7. events' = events \cup {event} /\ (event = failures[window] => event \in events)
    BY <1>1, <1>3, <1>4, <1>6, <2>0, GateConstants DEF Event
  <2>8. Notes(c)
    BY <1>1, <1>2, <1>3, <2>2, <2>3, <2>6, <2>7, CallMoved, OwnEvent DEF Notes
  <2>9. OneRoute'
    BY <1>1, <2>2, <2>3, <2>5, CallMoved, RouteStays DEF GateInv
  <2>10. QED  BY <2>5, <2>8, <2>9
<1>7. QED  BY <1>5, <1>6 DEF Unauthorized

\* A call that comes has done nothing yet.
LEMMA ArriveStep ==
  ASSUME GateInv, NEW c \in Call, Arrive(c)
  PROVE  Walks(c) /\ Notes(c) /\ OneRoute'
<1>1. /\ call[c] \in CallState /\ Fits(c, call[c], window)
      /\ call \in [Call -> CallState] /\ window \in 0..MaxWindow
  BY RowIs
<1>2. /\ call[c].phase = "idle" /\ call[c].request = NoRequest
      /\ UNCHANGED <<windows, events, failures, window>>
  BY <1>1 DEF Arrive, Fits
<1>3. PICK q \in Sends[c] :
        /\ \A d \in Call : call[d].request # NoRequest => call[d].request.route = q.route
        /\ call' = [call EXCEPT ![c].phase = "headers", ![c].request = q]
  BY DEF Arrive
<1>4. q \in AskedField /\ q # NoRequest
  BY GateConstants DEF AskedField, Requests
<1>5. PICK r \in CallState : r = [call[c] EXCEPT !.phase = "headers", !.request = q]
  BY <1>1, <1>4, RowSet DEF Phases
<1>6. call' = [call EXCEPT ![c] = r]
  BY <1>1, <1>3, <1>5
<1>7. /\ r.phase = "headers" /\ r.request = q
      /\ r.read = call[c].read /\ r.window = call[c].window /\ r.admitted = call[c].admitted
      /\ r.status = call[c].status /\ r.cites = call[c].cites
  BY <1>1, <1>5, RowSet
<1>8. Fits(c, r, window)
  BY <1>1, <1>2, <1>4, <1>7 DEF Fits, Early, Unanswered
<1>9. Walks(c)
  BY <1>1, <1>2, <1>6, <1>7, <1>8, CallMoved DEF Walks, Early, Fits, Unanswered
<1>10. Notes(c)
  BY <1>1, <1>2, <1>6, <1>7, CallMoved DEF Notes, GateInv, GateTypeOK
<1>11. OneRoute'
  BY <1>1, <1>3, <1>6, <1>7, CallMoved DEF OneRoute, Began, GateInv
<1>12. QED  BY <1>9, <1>10, <1>11

\* No body is read in front of the gate.
LEMMA Ahead1 ==
  ASSUME GateInv, NEW c \in Call, call[c].phase = "headers"
  PROVE  /\ call[c].request \in Requests
         /\ GateAt(c) \in 1..Len(Checks(c)) /\ Checks(c)[GateAt(c)] = "gate"
         /\ \A i : ~ReadsBody(c, i)
<1>1. /\ call[c] \in CallState /\ Fits(c, call[c], window)
  BY RowIs
<1>2. call[c].request \in Requests
  BY <1>1, RowSet DEF Fits, AskedField
<1>3. Guarded(Checks(c))
  BY <1>2, ChecksGuarded DEF Checks, Requests
<1>4. GateAt(c) \in 1..Len(Checks(c)) /\ Checks(c)[GateAt(c)] = "gate"
  BY <1>3 DEF GateAt, Guarded, GateFirst, In
<1>5. Len(Checks(c)) \in Nat
  BY <1>3 DEF Guarded, GateFirst
<1>6. ASSUME NEW i, ReadsBody(c, i)
      PROVE  FALSE
  <2>1. PICK j \in Ahead(c) : Checks(c)[j] = "body"
    BY <1>6 DEF ReadsBody
  <2>2. j \in 2..(GateAt(c) - 1)
    BY <2>1 DEF Ahead
  <2>3. j \in 1..Len(Checks(c)) /\ j < GateAt(c)
    BY <1>4, <1>5, <2>2
  <2>4. GateAt(c) < j
    BY <1>3, <1>4, <2>1, <2>3 DEF Guarded, GateFirst
  <2>5. QED  BY <2>2, <2>3, <2>4, <1>4, <1>5
<1>7. QED  BY <1>2, <1>4, <1>6

\* A check that fails in front of the gate refuses the call without a count; the event that the
\* refusal will name is the call's own.
LEMMA RefuseStep ==
  ASSUME GateInv, NEW c \in Call, Refuse(c)
  PROVE  Walks(c) /\ Notes(c) /\ OneRoute'
<1>1. /\ call[c] \in CallState /\ Fits(c, call[c], window)
      /\ call \in [Call -> CallState] /\ window \in 0..MaxWindow
  BY RowIs
<1>2. call[c].phase \in {"headers", "admitted"} /\ UNCHANGED <<windows, events, failures, window>>
  BY DEF Refuse, Waits
<1>3. PICK i \in Failing(c) :
        call' = [call EXCEPT ![c].phase = "refused", ![c].read = ReadsBody(c, i),
                             ![c].status = StatusOf(Checks(c)[i]), ![c].cites = Own(c, "answer")]
  BY DEF Refuse
<1>4. PICK body \in BOOLEAN : body = ReadsBody(c, i)
  BY DEF ReadsBody
<1>5. PICK status \in Statuses : status = StatusOf(Checks(c)[i]) /\ status \in {400, 403, 500, 503}
  BY DEF StatusOf, Statuses
<1>6. PICK event \in Cited : event = Own(c, "answer")
  BY OwnEvent DEF Cited
<1>7. PICK r \in CallState :
        r = [call[c] EXCEPT !.phase = "refused", !.read = body, !.status = status, !.cites = event]
  <2>1. "refused" \in Phases
    BY RowValues
  <2>2. [call[c] EXCEPT !.phase = "refused", !.read = body, !.status = status, !.cites = event] \in CallState
    BY <1>1, <1>4, <1>5, <1>6, <2>1, RowSet
  <2>3. QED  BY <2>2, Zenon
<1>8. call' = [call EXCEPT ![c] = r]
  <2>1. call' = [call EXCEPT ![c].phase = "refused", ![c].read = body,
                             ![c].status = status, ![c].cites = event]
    BY <1>3, <1>4, <1>5, <1>6, Zenon
  <2>2. QED  BY <1>1, <1>7, <2>1
<1>9. /\ r.phase = "refused" /\ r.request = call[c].request /\ r.read = body
      /\ r.window = call[c].window /\ r.admitted = call[c].admitted
      /\ r.status = status /\ r.cites = event
  BY <1>1, <1>7, RowSet
<1>10. body => call[c].admitted
  BY <1>1, <1>2, <1>4, Ahead1 DEF Fits
<1>11. Fits(c, r, window)
  BY <1>1, <1>2, <1>5, <1>6, <1>9, <1>10 DEF Fits, Early, Unanswered
<1>12. Walks(c)
  BY <1>1, <1>2, <1>5, <1>8, <1>9, <1>11, CallMoved DEF Walks, Early
<1>13. Notes(c)
  BY <1>1, <1>2, <1>8, <1>9, CallMoved DEF Notes, GateInv, GateTypeOK
<1>14. OneRoute'
  BY <1>1, <1>8, <1>9, <1>12, CallMoved, RouteStays DEF GateInv
<1>15. QED  BY <1>12, <1>13, <1>14

\* A call begins its transaction in the window of that moment.
LEMMA BeginStep ==
  ASSUME GateInv, NEW c \in Call, BeginGate(c)
  PROVE  Walks(c) /\ Notes(c) /\ OneRoute'
<1>1. /\ call[c] \in CallState /\ Fits(c, call[c], window)
      /\ call \in [Call -> CallState] /\ window \in 0..MaxWindow
  BY RowIs
<1>2. /\ call[c].phase = "headers" /\ UNCHANGED <<windows, events, failures, window>>
      /\ call[c].request \in Requests /\ ~ReadsBody(c, GateAt(c))
      /\ GateAt(c) \in 1..Len(Checks(c)) /\ Checks(c)[GateAt(c)] = "gate"
  BY Ahead1 DEF BeginGate
<1>3. PICK body \in BOOLEAN : body = ReadsBody(c, GateAt(c)) /\ ~body
  BY <1>2 DEF ReadsBody
<1>4. PICK r \in CallState : r = [call[c] EXCEPT !.phase = "gating", !.window = window, !.read = body]
  BY <1>1, RowSet DEF Phases
<1>5. call' = [call EXCEPT ![c] = r]
  BY <1>1, <1>3, <1>4 DEF BeginGate
<1>6. /\ r.phase = "gating" /\ r.request = call[c].request /\ ~r.read
      /\ r.window = window /\ r.admitted = call[c].admitted
      /\ r.status = call[c].status /\ r.cites = call[c].cites
  BY <1>1, <1>3, <1>4, RowSet
<1>7. Cleared(call[c].request)
  <2>1. Guarded(Checks(c))
    BY <1>2, ChecksGuarded DEF Checks, Requests
  <2>2. GateAt(c) \in Nat /\ GateAt(c) # 1
    BY <1>2, <2>1 DEF Guarded, GateFirst
  <2>3. ~Fails(call[c].request, "authentication") /\ Failing(c) = {} /\ Ahead(c) = 2..(GateAt(c) - 1)
    BY <1>2 DEF BeginGate, Unauthenticated, Ahead
  <2>4. CASE GateAt(c) = 2
    BY <1>2, <2>3, <2>4 DEF Cleared, Checks, Requests
  <2>5. CASE GateAt(c) # 2
    <3>1. 2 \in Ahead(c)
      BY <2>2, <2>3, <2>5, <1>2
    <3>2. ~Fails(call[c].request, Checks(c)[2])
      BY <2>3, <3>1 DEF Failing
    <3>3. QED  BY <1>2, <2>3, <3>2 DEF Cleared, Checks, Requests
  <2>6. QED  BY <2>4, <2>5
<1>8. Fits(c, r, window)
  BY <1>1, <1>2, <1>6, <1>7 DEF Fits, Early, Unanswered
<1>9. Walks(c)
  BY <1>1, <1>2, <1>5, <1>6, <1>8, CallMoved DEF Walks, Early, Fits, Unanswered
<1>10. Notes(c)
  BY <1>1, <1>2, <1>5, <1>6, CallMoved DEF Notes, GateInv, GateTypeOK
<1>11. OneRoute'
  BY <1>1, <1>5, <1>6, <1>9, CallMoved, RouteStays DEF GateInv
<1>12. QED  BY <1>9, <1>10, <1>11

\* A call that was let in reads its body.
LEMMA EnterStep ==
  ASSUME GateInv, NEW c \in Call, Enter(c)
  PROVE  Walks(c) /\ Notes(c) /\ OneRoute'
<1>1. /\ call[c] \in CallState /\ Fits(c, call[c], window)
      /\ call \in [Call -> CallState] /\ window \in 0..MaxWindow
  BY RowIs
<1>2. /\ call[c].phase = "admitted" /\ UNCHANGED <<windows, events, failures, window>>
  BY DEF Enter
<1>3. PICK body \in BOOLEAN : body = (call[c].read \/ ReadsBody(c, Len(Checks(c))))
  OBVIOUS
<1>4. PICK r \in CallState : r = [call[c] EXCEPT !.phase = "entered", !.read = body]
  BY <1>1, RowSet DEF Phases
<1>5. call' = [call EXCEPT ![c] = r]
  BY <1>1, <1>3, <1>4 DEF Enter
<1>6. /\ r.phase = "entered" /\ r.request = call[c].request
      /\ r.window = call[c].window /\ r.admitted = call[c].admitted
      /\ r.status = call[c].status /\ r.cites = call[c].cites
  BY <1>1, <1>4, RowSet
<1>7. Fits(c, r, window)
  BY <1>1, <1>2, <1>6 DEF Fits, Early, Unanswered
<1>8. Walks(c)
  BY <1>1, <1>2, <1>5, <1>6, <1>7, CallMoved DEF Walks, Early, Fits, Unanswered
<1>9. Notes(c)
  BY <1>1, <1>2, <1>5, <1>6, CallMoved DEF Notes, GateInv, GateTypeOK
<1>10. OneRoute'
  BY <1>1, <1>5, <1>6, <1>8, CallMoved, RouteStays DEF GateInv
<1>11. QED  BY <1>8, <1>9, <1>10

\* A call that passed every check is answered 200 with its event.
LEMMA SucceedStep ==
  ASSUME GateInv, NEW c \in Call, Succeed(c)
  PROVE  Walks(c) /\ Notes(c) /\ OneRoute'
<1>1. /\ call[c] \in CallState /\ Fits(c, call[c], window)
      /\ call \in [Call -> CallState] /\ window \in 0..MaxWindow
  BY RowIs
<1>2. PICK event \in Cited : event = Own(c, "answer") /\ event \in Event /\ event.of = c /\ event.for = "answer"
  BY OwnEvent DEF Cited
<1>3. /\ call[c].phase = "entered" /\ UNCHANGED <<windows, failures, window>>
      /\ events' = events \cup {event}
      /\ call' = [call EXCEPT ![c].phase = "answered", ![c].status = 200, ![c].cites = event]
  BY <1>2 DEF Succeed
<1>4. PICK r \in CallState : r = [call[c] EXCEPT !.phase = "answered", !.status = 200, !.cites = event]
  <2>1. "answered" \in Phases /\ 200 \in Statuses
    BY RowValues
  <2>2. [call[c] EXCEPT !.phase = "answered", !.status = 200, !.cites = event] \in CallState
    BY <1>1, <1>2, <2>1, RowSet
  <2>3. QED  BY <2>2, Zenon
<1>5. call' = [call EXCEPT ![c] = r]
  BY <1>1, <1>3, <1>4
<1>6. /\ r.phase = "answered" /\ r.status = 200 /\ r.request = call[c].request /\ r.read = call[c].read
      /\ r.window = call[c].window /\ r.admitted = call[c].admitted /\ r.cites = event
  BY <1>1, <1>4, RowSet
<1>7. Fits(c, r, window)
  BY <1>1, <1>3, <1>6 DEF Fits, Early, Unanswered
<1>8. Walks(c)
  BY <1>1, <1>3, <1>5, <1>6, <1>7, CallMoved DEF Walks, Early
<1>9. Notes(c)
  BY <1>1, <1>2, <1>3, <1>5, <1>6, CallMoved DEF Notes, GateInv, GateTypeOK
<1>10. OneRoute'
  BY <1>1, <1>5, <1>6, <1>8, CallMoved, RouteStays DEF GateInv
<1>11. QED  BY <1>8, <1>9, <1>10

\* An error of the transaction or of the operation behind it refuses the call; one that was let in
\* stays counted.
LEMMA ThrowStep ==
  ASSUME GateInv, NEW c \in Call, Throw(c)
  PROVE  Walks(c) /\ Notes(c) /\ OneRoute'
<1>1. /\ call[c] \in CallState /\ Fits(c, call[c], window)
      /\ call \in [Call -> CallState] /\ window \in 0..MaxWindow
  BY RowIs
<1>2. PICK event \in Cited : event = Own(c, "answer")
  BY OwnEvent DEF Cited
<1> DEFINE Thrown == {409, 500}
<1>3. PICK status \in Thrown :
        /\ status = 500 \/ call[c].phase = "entered"
        /\ call' = [call EXCEPT ![c].phase = "refused", ![c].status = status, ![c].cites = Own(c, "answer")]
  BY DEF Throw
<1>4. status \in Statuses /\ status \in {409, 500}
  BY RowValues
<1> HIDE DEF Thrown
<1>5. call' = [call EXCEPT ![c].phase = "refused", ![c].status = status, ![c].cites = event]
  BY <1>2, <1>3
<1>6. call[c].phase \in {"gating", "entered"} /\ UNCHANGED <<windows, events, failures, window>>
  BY DEF Throw
<1>7. PICK r \in CallState :
        /\ r = [call[c] EXCEPT !.phase = "refused", !.status = status, !.cites = event]
        /\ call' = [call EXCEPT ![c] = r]
  <2>0. status \in Statuses
    BY <1>4
  <2>1. PICK phase \in Phases : phase = "refused"
    BY RowValues
  <2>2. PICK r \in CallState : r = [call[c] EXCEPT !.phase = phase, !.status = status, !.cites = event]
    BY <1>1, <2>0, RowWith, Zenon
  <2>3. call' = [call EXCEPT ![c].phase = phase, ![c].status = status, ![c].cites = event]
    BY <1>5, <2>1
  <2>4. call' = [call EXCEPT ![c] = r]
    BY <1>1, <2>2, <2>3, Zenon
  <2>5. QED  BY <2>1, <2>2, <2>4
<1>8. call' = [call EXCEPT ![c] = r]
  BY <1>7
<1>9. /\ r.phase = "refused" /\ r.status = status /\ r.request = call[c].request /\ r.read = call[c].read
      /\ r.window = call[c].window /\ r.admitted = call[c].admitted /\ r.cites = event
  BY <1>1, <1>7, RowSet
<1>10. Fits(c, r, window) /\ r.status # 429
  BY <1>1, <1>2, <1>4, <1>6, <1>9 DEF Fits, Early, Unanswered
<1>11. Walks(c)
  BY <1>1, <1>6, <1>8, <1>9, <1>10, CallMoved DEF Walks, Early
<1>12. Notes(c)
  BY <1>1, <1>6, <1>10, <1>8, <1>9, CallMoved DEF Notes, GateInv, GateTypeOK
<1>13. OneRoute'
  BY <1>1, <1>8, <1>9, <1>11, CallMoved, RouteStays DEF GateInv
<1>14. QED  BY <1>11, <1>12, <1>13

\* What a refused call would name is an event of its own.
LEMMA RefusedNames ==
  ASSUME GateInv, NEW c \in Call, call[c].phase = "refused"
  PROVE  /\ call[c].cites \in Event /\ call[c].cites.of = c /\ call[c].status # 401
         /\ call[c].cites.for = "window" => EachRefusal(c)
<1>1. Fits(c, call[c], window)
  BY RowIs
<1>2. CASE call[c].status = 429
  BY <1>1, <1>2, OwnEvent DEF Fits, EachRefusal
<1>3. CASE call[c].status # 429
  BY <1>1, <1>3, OwnEvent DEF Fits
<1>4. QED  BY <1>2, <1>3

\* The refusal of a call that was over the limit is written with its event.
LEMMA RecordStep ==
  ASSUME GateInv, NEW c \in Call, RecordRefusal(c)
  PROVE  Walks(c) /\ Notes(c) /\ OneRoute'
<1>1. /\ call[c] \in CallState /\ Fits(c, call[c], window)
      /\ call \in [Call -> CallState] /\ window \in 0..MaxWindow
  BY RowIs
<1>2. /\ call[c].phase = "refused" /\ UNCHANGED <<windows, failures, window>>
      /\ events' = events \cup {call[c].cites}
      /\ call' = [call EXCEPT ![c].phase = "answered"]
  BY DEF RecordRefusal
<1>3. PICK r \in CallState : r = [call[c] EXCEPT !.phase = "answered"]
  <2>1. "answered" \in Phases
    BY RowValues
  <2>2. [call[c] EXCEPT !.phase = "answered"] \in CallState
    BY <1>1, <2>1, RowSet
  <2>3. QED  BY <2>2, Zenon
<1>4. call' = [call EXCEPT ![c] = r]
  BY <1>1, <1>2, <1>3
<1>5. /\ r.phase = "answered" /\ r.status = call[c].status /\ r.request = call[c].request
      /\ r.read = call[c].read /\ r.window = call[c].window /\ r.admitted = call[c].admitted
      /\ r.cites = call[c].cites
  BY <1>1, <1>3, RowSet
<1>6. Fits(c, r, window)
  BY <1>1, <1>2, <1>5 DEF Fits, Early, Unanswered
<1>7. Walks(c)
  BY <1>1, <1>2, <1>4, <1>5, <1>6, CallMoved DEF Walks, Early, Fits, EachRefusal
<1>8. Notes(c)
  BY <1>1, <1>2, <1>4, <1>5, CallMoved, RefusedNames DEF Notes, GateInv, GateTypeOK, EachRefusal
<1>9. OneRoute'
  BY <1>1, <1>4, <1>5, <1>7, CallMoved, RouteStays DEF GateInv
<1>10. QED  BY <1>7, <1>8, <1>9

\* When the event cannot be written the call is answered 500 and names none.
LEMMA RecordingFailsStep ==
  ASSUME GateInv, NEW c \in Call, RecordingFails(c)
  PROVE  Walks(c) /\ Notes(c) /\ OneRoute'
<1>1. /\ call[c] \in CallState /\ Fits(c, call[c], window)
      /\ call \in [Call -> CallState] /\ window \in 0..MaxWindow
  BY RowIs
<1>2. /\ call[c].phase = "refused" /\ UNCHANGED <<windows, events, failures, window>>
      /\ call' = [call EXCEPT ![c].phase = "answered", ![c].status = 500, ![c].cites = NoEvent]
  BY DEF RecordingFails
<1>3. PICK r \in CallState :
        /\ r = [call[c] EXCEPT !.phase = "answered", !.status = 500, !.cites = NoEvent]
        /\ call' = [call EXCEPT ![c] = r]
  <2>1. PICK phase \in Phases, status \in Statuses, cites \in Cited :
          phase = "answered" /\ status = 500 /\ cites = NoEvent
    BY RowValues
  <2>2. PICK r \in CallState : r = [call[c] EXCEPT !.phase = phase, !.status = status, !.cites = cites]
    BY <1>1, RowWith, Zenon
  <2>3. call' = [call EXCEPT ![c].phase = phase, ![c].status = status, ![c].cites = cites]
    BY <1>2, <2>1
  <2>4. call' = [call EXCEPT ![c] = r]
    BY <1>1, <2>2, <2>3, Zenon
  <2>5. QED  BY <2>1, <2>2, <2>4
<1>4. call' = [call EXCEPT ![c] = r]
  BY <1>3
<1>5. /\ r.phase = "answered" /\ r.status = 500 /\ r.request = call[c].request
      /\ r.read = call[c].read /\ r.window = call[c].window /\ r.admitted = call[c].admitted
      /\ r.cites = NoEvent
  BY <1>1, <1>3, RowSet
<1>6. Fits(c, r, window)
  BY <1>1, <1>2, <1>5 DEF Fits, Early, Unanswered
<1>7. Walks(c)
  BY <1>1, <1>2, <1>4, <1>5, <1>6, CallMoved DEF Walks, Early
<1>8. Notes(c)
  BY <1>1, <1>2, <1>4, <1>5, CallMoved DEF Notes, GateInv, GateTypeOK
<1>9. OneRoute'
  BY <1>1, <1>4, <1>5, <1>7, CallMoved, RouteStays DEF GateInv
<1>10. QED  BY <1>7, <1>8, <1>9

\* A process that ends loses its calls, and nothing that was committed.
LEMMA CrashStep ==
  ASSUME GateInv, NEW c \in Call, Crash(c)
  PROVE  Walks(c) /\ Notes(c) /\ OneRoute'
<1>1. /\ call[c] \in CallState /\ Fits(c, call[c], window)
      /\ call \in [Call -> CallState] /\ window \in 0..MaxWindow
  BY RowIs
<1>2. /\ call[c].phase \notin {"idle", "answered", "lost"} /\ UNCHANGED <<windows, failures, window>>
      /\ call' = [call EXCEPT ![c].phase = "lost"]
  BY DEF Crash
<1>3. PICK r \in CallState : r = [call[c] EXCEPT !.phase = "lost"]
  <2>1. "lost" \in Phases
    BY RowValues
  <2>2. [call[c] EXCEPT !.phase = "lost"] \in CallState
    BY <1>1, <2>1, RowSet
  <2>3. QED  BY <2>2, Zenon
<1>4. call' = [call EXCEPT ![c] = r]
  BY <1>1, <1>2, <1>3
<1>5. /\ r.phase = "lost" /\ r.status = call[c].status /\ r.request = call[c].request
      /\ r.read = call[c].read /\ r.window = call[c].window /\ r.admitted = call[c].admitted
      /\ r.cites = call[c].cites
  BY <1>1, <1>3, RowSet
<1>6. Fits(c, r, window)
  BY <1>1, <1>2, <1>5 DEF Fits, Early, Unanswered
<1>7. Walks(c)
  BY <1>1, <1>2, <1>4, <1>5, <1>6, CallMoved DEF Walks, Early, Fits, EachRefusal
<1>8. \/ events' = events
      \/ \E e \in Event : /\ events' = events \cup {e} /\ e.of = c
                          /\ e.for = "window" => EachRefusal(c)
                          /\ e.for = "answer" => call[c].status # 401
  <2>1. CASE call[c].phase = "refused" /\ events' = events \cup {call[c].cites}
    BY <2>1, RefusedNames
  <2>2. CASE call[c].phase = "entered" /\ events' = events \cup {Own(c, "answer")}
    BY <1>1, <2>2, OwnEvent DEF Fits, Unanswered
  <2>3. QED  BY <2>1, <2>2 DEF Crash
<1>9. Notes(c)
  BY <1>1, <1>2, <1>4, <1>5, <1>8, CallMoved DEF Notes, GateInv, GateTypeOK, EachRefusal
<1>10. OneRoute'
  BY <1>1, <1>4, <1>5, <1>7, CallMoved, RouteStays DEF GateInv
<1>11. QED  BY <1>7, <1>9, <1>10

(***************************************************************************)
(* What those steps keep                                                   *)
(***************************************************************************)
\* A step that only writes events of a call which then ends keeps each event with its answer.
LEMMA NotesKeep ==
  ASSUME GateInv, NEW c \in Call, Notes(c), \A d \in Call \ {c} : call'[d] = call[d]
  PROVE  Recorded' /\ RefusalEvents' /\ SharedFailure'
<1>1. \A e \in events : e \in Event /\ e.of \in Call \ {c}
  BY DEF GateInv, GateTypeOK, Recorded, Notes, Event
<1>2. \A e \in events' : e \in events \/ (e.of = c /\ e \in Event)
  BY DEF Notes
<1>3. Recorded'
  <2>1. \A e \in events' : call'[e.of].phase \in {"answered", "lost"}
    BY <1>1, <1>2 DEF GateInv, Recorded, Notes
  <2>2. \A d \in Call : Named(d)'
    BY DEF GateInv, Recorded, Notes, Named
  <2>3. QED  BY <2>1, <2>2 DEF Recorded
<1>4. RefusalEvents'
  BY <1>1, <1>2 DEF GateInv, RefusalEvents, Notes, EachRefusal, Refused
<1>5. \A w \in 0..MaxWindow : failures'[w] # NoEvent => failures'[w] \in events'
  BY DEF GateInv, SharedFailure, Notes
<1>6. ASSUME NEW e \in events', e.for = "answer", call'[e.of].status = 401
      PROVE  \E w \in 0..MaxWindow : failures'[w] = e
  <2>1. CASE e \in events
    <3>1. PICK w \in 0..MaxWindow : failures[w] = e
      BY <1>1, <1>6, <2>1 DEF GateInv, SharedFailure
    <3>2. e # NoEvent
      BY <1>1, <2>1, GateConstants DEF Event
    <3>3. failures'[w] = e
      BY <3>1, <3>2 DEF Notes
    <3>4. QED  BY <3>3
  <2>2. CASE e \notin events
    BY <1>6, <2>2 DEF Notes
  <2>3. QED  BY <2>1, <2>2
<1>7. QED  BY <1>3, <1>4, <1>5, <1>6 DEF SharedFailure

\* Calls can be counted.
LEMMA FiniteCounts ==
  ASSUME NEW w
  PROVE  IsFiniteSet(AdmittedIn(w)) /\ IsFiniteSet(Through(w)) /\ Cardinality(AdmittedIn(w)) \in Nat
<1>1. AdmittedIn(w) \in SUBSET Call /\ Through(w) \in SUBSET Call
  BY DEF AdmittedIn, Through
<1>2. QED  BY <1>1, FS_Subset, FS_CardinalityType, GateConstants

\* Outside its transaction a call is neither let in nor counted.
LEMMA WalkAdmits ==
  ASSUME GateInv, NEW c \in Call, Walks(c)
  PROVE  \A w : AdmittedIn(w)' = AdmittedIn(w) /\ Through(w) \subseteq Through(w)'
<1>1. Fits(c, call[c], window) /\ Fits(c, call'[c], window)
  BY RowIs DEF Walks
<1>2. call'[c].window = call[c].window \/ (~call[c].admitted /\ ~call'[c].admitted /\ call[c].phase \in Early)
  BY <1>1 DEF Walks, Fits
<1>3. \A w : AdmittedIn(w)' = AdmittedIn(w)
  BY <1>2 DEF Walks, AdmittedIn
<1>4. call[c].phase \notin Early => call'[c].phase \notin Early
  BY DEF Walks, Early
<1>5. \A w : Through(w) \subseteq Through(w)'
  BY <1>2, <1>4 DEF Walks, Through
<1>6. QED  BY <1>3, <1>5

\* Steps outside the transaction keep the counts of the windows.
LEMMA WalkCounts ==
  ASSUME GateInv, NEW c \in Call, Walks(c)
  PROVE  Counts'
<1>1. windows' = windows /\ window' = window
  BY DEF Walks
<1>2. \A w \in 0..MaxWindow : windows[w].count \in Nat
  BY DEF GateInv, GateTypeOK
<1>3. ASSUME NEW w \in 0..MaxWindow
      PROVE  windows[w].count <= Cardinality(Through(w)')
  <2>1. Through(w)' \in SUBSET Call
    BY DEF Through
  <2>2. IsFiniteSet(Through(w)')
    BY <2>1, FS_Subset, GateConstants
  <2>3. /\ Cardinality(Through(w)) <= Cardinality(Through(w)') /\ Cardinality(Through(w)) \in Nat
        /\ Cardinality(Through(w)') \in Nat
    BY <2>2, WalkAdmits, FS_Subset, FS_CardinalityType
  <2>4. QED  BY <1>2, <2>3 DEF GateInv, Counts
<1>4. ASSUME NEW d \in Call, NEW w \in 0..MaxWindow, Refused(d)', call'[d].window = w
      PROVE  Cardinality(AdmittedIn(w)') = Limit
  <2>1. Refused(d) /\ call[d].window = w
    <3>1. CASE d = c
      <4>1. Fits(c, call[c], window) /\ call[c].status = 429
        BY <1>4, <3>1, RowIs DEF Walks, Refused
      <4>2. call[c].phase \notin Early
        BY <4>1 DEF Fits, Early, Unanswered
      <4>3. QED  BY <1>4, <3>1, <4>1, <4>2 DEF Walks, Refused
    <3>2. CASE d # c
      BY <1>4, <3>2 DEF Walks, Refused
    <3>3. QED  BY <3>1, <3>2
  <2>2. QED  BY <2>1, WalkAdmits DEF GateInv, Counts
<1>5. \A w \in 0..MaxWindow :
        /\ Live(w) => Cardinality(AdmittedIn(w)') = IF windows[w].count <= Limit THEN windows[w].count ELSE Limit
        /\ Cardinality(AdmittedIn(w)') <= Limit
  BY WalkAdmits DEF GateInv, Counts
<1>6. QED  BY <1>1, <1>3, <1>4, <1>5 DEF Counts, Live

\* Steps outside the transaction keep the event that the refusals of a window share.
LEMMA WalkShares ==
  ASSUME GateInv, NEW c \in Call, Walks(c), events \subseteq events'
  PROVE  SharedRefusal'
<1>1. windows' = windows /\ window' = window
  BY DEF Walks
<1>2. \A d \in Call : Began(d) => Began(d)' /\ call'[d].request = call[d].request
  BY DEF Walks, Began
<1>3. \A d \in Call : Refused(d)' /\ ~EachRefusal(d)' => d # c /\ call'[d] = call[d]
  BY DEF Walks, Refused, EachRefusal
<1>4. \A d \in Call : Refused(d)' /\ ~EachRefusal(d)' => Refused(d) /\ ~EachRefusal(d)
  BY <1>3 DEF Refused, EachRefusal
<1>5. \A w \in 0..MaxWindow :
        windows'[w].blocked # NoEvent => \/ windows'[w].blocked \in events'
                                         \/ \E d \in Call : Began(d)' /\ EachRefusal(d)'
  BY <1>1, <1>2 DEF GateInv, SharedRefusal, EachRefusal
<1>6. ASSUME NEW d \in Call, Refused(d)', ~EachRefusal(d)'
      PROVE  /\ call'[d].cites # NoEvent
             /\ \A w \in 0..MaxWindow :
                  call'[d].window = w /\ Live(w)' => call'[d].cites = windows'[w].blocked
  BY <1>1, <1>3, <1>4, <1>6 DEF GateInv, SharedRefusal, Live
<1>7. ASSUME NEW d \in Call, NEW f \in Call, Refused(d)', Refused(f)', ~EachRefusal(d)',
             call'[d].window = call'[f].window
      PROVE  call'[d].cites = call'[f].cites
  <2>1. d # c /\ call'[d] = call[d] /\ Refused(d) /\ ~EachRefusal(d)
    BY <1>3, <1>4, <1>7
  <2>2. f # c
    <3>1. SUFFICES ASSUME f = c
                   PROVE  FALSE
      OBVIOUS
    <3>2. Refused(c) /\ EachRefusal(c)
      BY <1>7, <3>1 DEF Walks, Refused
    <3>3. Began(c) /\ Began(d)
      BY <2>1, <3>2, RowIs DEF Fits, Unanswered, Refused, Began
    <3>4. QED  BY <2>1, <3>2, <3>3 DEF GateInv, OneRoute, EachRefusal, ForEach
  <2>3. call'[f] = call[f] /\ Refused(f)
    BY <1>7, <2>2 DEF Walks, Refused
  <2>4. QED  BY <1>7, <2>1, <2>3 DEF GateInv, SharedRefusal
<1>8. QED  BY <1>5, <1>6, <1>7 DEF SharedRefusal

\* Steps outside the transaction keep the types and the rows of the calls.
LEMMA WalkTypes ==
  ASSUME GateInv, NEW c \in Call, Walks(c), Notes(c)
  PROVE  GateTypeOK' /\ Calls'
BY RowIs DEF GateInv, GateTypeOK, Calls, Walks, Notes

\* Steps outside the transaction keep the invariant.
LEMMA WalkKeeps ==
  ASSUME GateInv, NEW c \in Call, Walks(c), Notes(c), OneRoute'
  PROVE  GateInv'
<1>1. \A d \in Call \ {c} : call'[d] = call[d]
  BY DEF Walks
<1>2. events \subseteq events'
  BY DEF Notes
<1>3. QED  BY <1>1, <1>2, NotesKeep, WalkCounts, WalkShares, WalkTypes DEF GateInv

(***************************************************************************)
(* The transaction that counts                                             *)
(***************************************************************************)
WindowRow == [count: Nat, blocked: Cited]

\* The window a call counts in was not deleted, and only windows that are over are.
LEMMA CountWindow ==
  ASSUME GateInv, NEW c \in Call, ConsumeRateLimit(c), NEW w \in 0..MaxWindow, w = call[c].window
  PROVE  /\ Live(w) /\ windows[w] \in WindowRow
         /\ RequestCount(c) = windows[w].count + 1
         /\ OverLimit(c) <=> windows[w].count >= Limit
         /\ WindowAfter(c).count = windows[w].count + 1
         /\ WindowAfter(c).blocked =
              IF OverLimit(c) /\ windows[w].blocked = NoEvent THEN Own(c, "window") ELSE windows[w].blocked
         /\ WindowAfter(c) \in WindowRow
         /\ windows' \in [0..MaxWindow -> WindowRow]
         /\ windows'[w] = WindowAfter(c)
         /\ \A v \in 0..MaxWindow : Live(v) /\ v # w => windows'[v] = windows[v]
         /\ \A v \in 0..MaxWindow : v # w => windows'[v] = windows[v] \/ windows'[v] = NoWindow
<1>1. /\ Fits(c, call[c], window) /\ window \in 0..MaxWindow /\ call[c].phase = "gating"
      /\ MaxWindow \in Nat /\ Limit \in Nat
  BY RowIs, GateConstants DEF ConsumeRateLimit
<1>2. Live(w)
  BY <1>1 DEF Fits, Live
<1>3. \A v \in 0..MaxWindow : windows[v] \in WindowRow
  BY DEF GateInv, GateTypeOK, WindowRow, Cited
<1>4. NoWindow \in WindowRow
  BY DEF NoWindow, WindowRow, Cited
<1>5. /\ \A v \in 0..MaxWindow : Kept(c)[v] = windows[v] \/ (~Live(v) /\ Kept(c)[v] = NoWindow)
      /\ DOMAIN Kept(c) = 0..MaxWindow
  BY <1>1 DEF Kept, Live
<1>6. Kept(c)[w] = windows[w]
  BY <1>2, <1>5
<1>7. RequestCount(c) = windows[w].count + 1
  BY <1>6 DEF RequestCount
<1>8. OverLimit(c) <=> windows[w].count >= Limit
  BY <1>1, <1>3, <1>7 DEF OverLimit, WindowRow
<1>9. /\ WindowAfter(c).count = windows[w].count + 1
      /\ WindowAfter(c).blocked =
           IF OverLimit(c) /\ windows[w].blocked = NoEvent THEN Own(c, "window") ELSE windows[w].blocked
  BY <1>6, <1>7 DEF WindowAfter, Blocked
<1>10. WindowAfter(c) \in WindowRow
  <2>1. windows[w].count + 1 \in Nat /\ windows[w].blocked \in Cited /\ Own(c, "window") \in Cited
    BY <1>3, OwnEvent DEF WindowRow, Cited
  <2>2. RequestCount(c) \in Nat /\ Blocked(c, Kept(c)[call[c].window], OverLimit(c)) \in Cited
    BY <1>6, <1>7, <2>1 DEF Blocked
  <2>3. QED  BY <2>2 DEF WindowAfter, WindowRow
<1>11. windows' = [Kept(c) EXCEPT ![w] = WindowAfter(c)]
  BY DEF ConsumeRateLimit
<1>12. \A v \in 0..MaxWindow : windows'[v] = IF v = w THEN WindowAfter(c) ELSE Kept(c)[v]
  BY <1>5, <1>11
<1>13. windows' \in [0..MaxWindow -> WindowRow]
  <2>1. Kept(c) \in [0..MaxWindow -> WindowRow]
    BY <1>3, <1>4, <1>5 DEF Kept
  <2>2. QED  BY <1>10, <1>11, <2>1
<1>14. QED  BY <1>2, <1>3, <1>5, <1>7, <1>8, <1>9, <1>10, <1>12, <1>13

\* What the three outcomes of the transaction have in common.
Counted(c) ==
  /\ call' \in [Call -> CallState]
  /\ \A d \in Call \ {c} : call'[d] = call[d]
  /\ window' = window
  /\ call[c].phase = "gating" /\ call'[c].phase \notin Early
  /\ call'[c].window = call[c].window /\ call'[c].request = call[c].request
  /\ call'[c].admitted <=> ~OverLimit(c)
  /\ call'[c].status = IF OverLimit(c) THEN 429 ELSE 0
  /\ OverLimit(c) /\ ~EachRefusal(c) => call'[c].cites = WindowAfter(c).blocked /\ call'[c].cites # NoEvent
  /\ Fits(c, call'[c], window)
  /\ WindowAfter(c).blocked # NoEvent => WindowAfter(c).blocked \in events' \/ EachRefusal(c)

\* Where refusals share an event, the one a window names was written.
LEMMA SharedBlocked ==
  ASSUME GateInv, NEW c \in Call, NEW w \in 0..MaxWindow, call[c].phase = "gating", ~EachRefusal(c),
         windows[w].blocked # NoEvent
  PROVE  windows[w].blocked \in events
<1>1. Began(c)
  BY RowIs DEF Fits, Began
<1>2. \A d \in Call : Began(d) => ~EachRefusal(d)
  BY <1>1 DEF GateInv, OneRoute, EachRefusal, ForEach
<1>3. QED  BY <1>2 DEF GateInv, SharedRefusal

\* consumeRateLimit lets a call in.
LEMMA LetsInStep ==
  ASSUME GateInv, NEW c \in Call, ConsumeRateLimit(c), LetsIn(c)
  PROVE  Counted(c) /\ Notes(c)
<1>1. /\ call[c] \in CallState /\ Fits(c, call[c], window)
      /\ call \in [Call -> CallState] /\ window \in 0..MaxWindow
  BY RowIs
<1>2. /\ call[c].phase = "gating" /\ UNCHANGED <<events, failures, window>> /\ ~OverLimit(c)
      /\ call' = [call EXCEPT ![c].phase = "admitted", ![c].admitted = TRUE]
  BY DEF ConsumeRateLimit, LetsIn
<1>3. PICK r \in CallState : r = [call[c] EXCEPT !.phase = "admitted", !.admitted = TRUE]
  <2>1. "admitted" \in Phases
    BY RowValues
  <2>2. [call[c] EXCEPT !.phase = "admitted", !.admitted = TRUE] \in CallState
    BY <1>1, <2>1, RowSet
  <2>3. QED  BY <2>2, Zenon
<1>4. call' = [call EXCEPT ![c] = r]
  BY <1>1, <1>2, <1>3
<1>5. /\ r.phase = "admitted" /\ r.admitted /\ r.request = call[c].request /\ r.read = call[c].read
      /\ r.window = call[c].window /\ r.status = call[c].status /\ r.cites = call[c].cites
  BY <1>1, <1>3, RowSet
<1>6. Fits(c, r, window)
  BY <1>1, <1>2, <1>5 DEF Fits, Early, Unanswered
<1>7. Notes(c)
  BY <1>1, <1>2, <1>4, <1>5, CallMoved DEF Notes, GateInv, GateTypeOK
<1>8. WindowAfter(c).blocked # NoEvent => WindowAfter(c).blocked \in events \/ EachRefusal(c)
  BY <1>1, <1>2, RowSet, CountWindow, SharedBlocked
<1>9. Counted(c)
  BY <1>1, <1>2, <1>4, <1>5, <1>6, <1>8, CallMoved DEF Counted, Early, Fits, Unanswered
<1>10. QED  BY <1>7, <1>9

\* consumeRateLimit refuses a call whose handler records every refusal afterwards.
LEMMA RefusesEachStep ==
  ASSUME GateInv, NEW c \in Call, ConsumeRateLimit(c), RefusesEach(c)
  PROVE  Counted(c) /\ Notes(c)
<1>1. /\ call[c] \in CallState /\ Fits(c, call[c], window)
      /\ call \in [Call -> CallState] /\ window \in 0..MaxWindow
  BY RowIs
<1>2. PICK event \in Cited : event = Own(c, "window")
  BY OwnEvent DEF Cited
<1>3. /\ call[c].phase = "gating" /\ UNCHANGED <<events, failures, window>>
      /\ OverLimit(c) /\ EachRefusal(c)
      /\ call' = [call EXCEPT ![c].phase = "refused", ![c].status = 429, ![c].cites = event]
  BY <1>2 DEF ConsumeRateLimit, RefusesEach, EachRefusal, ForEach
<1>4. PICK r \in CallState :
        /\ r = [call[c] EXCEPT !.phase = "refused", !.status = 429, !.cites = event]
        /\ call' = [call EXCEPT ![c] = r]
  <2>1. PICK phase \in Phases, status \in Statuses : phase = "refused" /\ status = 429
    BY RowValues
  <2>2. PICK r \in CallState : r = [call[c] EXCEPT !.phase = phase, !.status = status, !.cites = event]
    BY <1>1, <1>2, RowWith, Zenon
  <2>3. call' = [call EXCEPT ![c].phase = phase, ![c].status = status, ![c].cites = event]
    BY <1>3, <2>1
  <2>4. call' = [call EXCEPT ![c] = r]
    BY <1>1, <2>2, <2>3, Zenon
  <2>5. QED  BY <2>1, <2>2, <2>4
<1>5. call' = [call EXCEPT ![c] = r]
  BY <1>4
<1>6. /\ r.phase = "refused" /\ r.status = 429 /\ r.request = call[c].request /\ r.read = call[c].read
      /\ r.window = call[c].window /\ r.admitted = call[c].admitted /\ r.cites = event
  BY <1>1, <1>4, RowSet
<1>7. Fits(c, r, window)
  BY <1>1, <1>2, <1>3, <1>6 DEF Fits, Early, Unanswered, EachRefusal
<1>8. Notes(c)
  BY <1>1, <1>3, <1>5, <1>6, CallMoved DEF Notes, GateInv, GateTypeOK
<1>9. Counted(c)
  BY <1>1, <1>3, <1>5, <1>6, <1>7, CallMoved DEF Counted, Early, Fits
<1>10. QED  BY <1>8, <1>9

\* consumeRateLimit refuses a call and writes the event of the window with its first refusal.
LEMMA RefusesOnceStep ==
  ASSUME GateInv, NEW c \in Call, ConsumeRateLimit(c), RefusesOnce(c)
  PROVE  Counted(c) /\ Notes(c)
<1>1. /\ call[c] \in CallState /\ Fits(c, call[c], window)
      /\ call \in [Call -> CallState] /\ window \in 0..MaxWindow
  BY RowIs
<1>2. PICK w \in 0..MaxWindow : w = call[c].window
  BY <1>1, RowSet
<1>3. PICK event \in Event :
        /\ event = WindowAfter(c).blocked
        /\ event = Own(c, "window") \/ (event = windows[w].blocked /\ event \in events)
  <2>1. CASE windows[w].blocked = NoEvent
    BY <1>2, <2>1, CountWindow, OwnEvent DEF RefusesOnce
  <2>2. CASE windows[w].blocked # NoEvent
    <3>1. windows[w].blocked \in events
      BY <1>2, <2>2, SharedBlocked DEF RefusesOnce, ConsumeRateLimit, EachRefusal, ForEach
    <3>2. WindowAfter(c).blocked = windows[w].blocked
      BY <1>2, <2>2, CountWindow
    <3>3. QED  BY <3>1, <3>2 DEF GateInv, GateTypeOK
  <2>3. QED  BY <2>1, <2>2
<1>4. event \in Cited /\ event # NoEvent
  BY <1>3, GateConstants DEF Cited, Event
<1>5. /\ call[c].phase = "gating" /\ UNCHANGED <<failures, window>>
      /\ OverLimit(c) /\ ~EachRefusal(c)
      /\ call' = [call EXCEPT ![c].phase = "answered", ![c].status = 429, ![c].cites = event]
      /\ events' = IF event = Own(c, "window") THEN events \cup {event} ELSE events
  BY <1>3 DEF ConsumeRateLimit, RefusesOnce, EachRefusal, ForEach
<1>6. PICK r \in CallState :
        /\ r = [call[c] EXCEPT !.phase = "answered", !.status = 429, !.cites = event]
        /\ call' = [call EXCEPT ![c] = r]
  <2>1. PICK phase \in Phases, status \in Statuses : phase = "answered" /\ status = 429
    BY RowValues
  <2>2. PICK r \in CallState : r = [call[c] EXCEPT !.phase = phase, !.status = status, !.cites = event]
    BY <1>1, <1>4, RowWith, Zenon
  <2>3. call' = [call EXCEPT ![c].phase = phase, ![c].status = status, ![c].cites = event]
    BY <1>5, <2>1
  <2>4. call' = [call EXCEPT ![c] = r]
    BY <1>1, <2>2, <2>3, Zenon
  <2>5. QED  BY <2>1, <2>2, <2>4
<1>7. call' = [call EXCEPT ![c] = r]
  BY <1>6
<1>8. /\ r.phase = "answered" /\ r.status = 429 /\ r.request = call[c].request /\ r.read = call[c].read
      /\ r.window = call[c].window /\ r.admitted = call[c].admitted /\ r.cites = event
  BY <1>1, <1>6, RowSet
<1>9. Fits(c, r, window)
  BY <1>1, <1>5, <1>8 DEF Fits, Early, Unanswered
<1>10. event \in events' /\ events \subseteq events' /\ events' \ events \subseteq {Own(c, "window")}
  BY <1>3, <1>5
<1>11. Notes(c)
  <2>1. \A e \in events' \ events : e = event /\ e.of = c /\ e.for = "window"
    BY <1>5, OwnEvent
  <2>2. events \subseteq Event /\ failures \in [0..MaxWindow -> Event \cup {NoEvent}]
    BY DEF GateInv, GateTypeOK
  <2>3. QED  BY <1>1, <1>5, <1>7, <1>8, <1>10, <2>1, <2>2, CallMoved DEF Notes
<1>12. Counted(c)
  BY <1>1, <1>3, <1>4, <1>5, <1>7, <1>8, <1>9, <1>10, CallMoved DEF Counted, Early, Fits
<1>13. QED  BY <1>11, <1>12

\* A call that is let in is one more in its window, and was not counted before.
LEMMA CountedSets ==
  ASSUME GateInv, NEW c \in Call, ConsumeRateLimit(c), Counted(c), NEW w \in 0..MaxWindow, w = call[c].window
  PROVE  /\ c \notin AdmittedIn(w) /\ c \notin Through(w)
         /\ AdmittedIn(w)' = IF OverLimit(c) THEN AdmittedIn(w) ELSE AdmittedIn(w) \cup {c}
         /\ Through(w)' = Through(w) \cup {c}
         /\ \A v \in 0..MaxWindow \ {w} : AdmittedIn(v)' = AdmittedIn(v) /\ Through(v)' = Through(v)
<1>1. call[c].phase = "gating" /\ ~call[c].admitted
  BY RowIs DEF Fits, Counted, Early
<1>2. c \notin AdmittedIn(w) /\ c \notin Through(w)
  BY <1>1 DEF AdmittedIn, Through, Early
<1>3. AdmittedIn(w)' = IF OverLimit(c) THEN AdmittedIn(w) ELSE AdmittedIn(w) \cup {c}
  BY <1>1 DEF AdmittedIn, Counted
<1>4. Through(w)' = Through(w) \cup {c}
  BY <1>1 DEF Through, Counted
<1>5. \A v \in 0..MaxWindow \ {w} : AdmittedIn(v)' = AdmittedIn(v) /\ Through(v)' = Through(v)
  BY <1>1 DEF AdmittedIn, Through, Counted
<1>6. QED  BY <1>2, <1>3, <1>4, <1>5

\* A transaction that counts keeps the counts: a window admits as many as it counted, up to Limit.
LEMMA CountedCounts ==
  ASSUME GateInv, NEW c \in Call, ConsumeRateLimit(c), Counted(c)
  PROVE  Counts' /\ windows' \in [0..MaxWindow -> WindowRow]
<1>1. PICK w \in 0..MaxWindow : w = call[c].window
  BY RowIs, RowSet
<1>2. Limit \in Nat /\ windows[w].count \in Nat /\ windows'[w].count = windows[w].count + 1
  BY <1>1, CountWindow, GateConstants DEF WindowRow
<1>3. window' = window /\ Live(w) /\ (OverLimit(c) <=> windows[w].count >= Limit)
  BY <1>1, CountWindow DEF Counted
<1>4. Cardinality(Through(w)') = Cardinality(Through(w)) + 1 /\ Cardinality(Through(w)) \in Nat
  BY <1>1, CountedSets, FiniteCounts, FS_AddElement, FS_CardinalityType
<1>5. Cardinality(AdmittedIn(w)') = Cardinality(AdmittedIn(w)) + IF OverLimit(c) THEN 0 ELSE 1
  BY <1>1, CountedSets, FiniteCounts, FS_AddElement, FS_CardinalityType
<1>6. Cardinality(AdmittedIn(w)) = IF windows[w].count <= Limit THEN windows[w].count ELSE Limit
  BY <1>3 DEF GateInv, Counts
<1>7. Cardinality(AdmittedIn(w)') = IF windows'[w].count <= Limit THEN windows'[w].count ELSE Limit
  BY <1>2, <1>3, <1>5, <1>6
<1>8. ASSUME NEW v \in 0..MaxWindow
      PROVE  windows'[v].count <= Cardinality(Through(v)')
  <2>1. CASE v = w
    BY <1>2, <1>4, <2>1 DEF GateInv, Counts
  <2>2. CASE v # w
    <3>1. Through(v)' = Through(v) /\ Cardinality(Through(v)) \in Nat
      BY <1>1, <2>2, CountedSets, FiniteCounts, FS_CardinalityType
    <3>2. windows'[v] = windows[v] \/ windows'[v] = NoWindow
      BY <1>1, <2>2, CountWindow
    <3>3. QED  BY <3>1, <3>2 DEF NoWindow, GateInv, Counts
  <2>3. QED  BY <2>1, <2>2
<1>9. ASSUME NEW v \in 0..MaxWindow
      PROVE  /\ Live(v)' => Cardinality(AdmittedIn(v)') = IF windows'[v].count <= Limit THEN windows'[v].count ELSE Limit
             /\ Cardinality(AdmittedIn(v)') <= Limit
  <2>1. CASE v = w
    BY <1>2, <1>7, <2>1
  <2>2. CASE v # w
    <3>1. AdmittedIn(v)' = AdmittedIn(v)
      BY <1>1, <2>2, CountedSets
    <3>2. Live(v)' => Live(v) /\ windows'[v] = windows[v]
      BY <1>1, <1>3, <2>2, CountWindow DEF Live
    <3>3. QED  BY <3>1, <3>2 DEF GateInv, Counts
  <2>3. QED  BY <2>1, <2>2
<1>10. ASSUME NEW d \in Call, NEW v \in 0..MaxWindow, Refused(d)', call'[d].window = v
       PROVE  Cardinality(AdmittedIn(v)') = Limit
  <2>1. CASE d = c
    BY <1>1, <1>2, <1>3, <1>7, <1>10, <2>1 DEF Counted, Refused
  <2>2. CASE d # c
    <3>1. Refused(d) /\ call[d].window = v
      BY <1>10, <2>2 DEF Counted, Refused
    <3>2. Cardinality(AdmittedIn(v)) = Limit
      BY <3>1 DEF GateInv, Counts
    <3>3. CASE v = w
      BY <1>2, <1>3, <1>5, <1>6, <3>2, <3>3
    <3>4. CASE v # w
      BY <1>1, <3>2, <3>4, CountedSets
    <3>5. QED  BY <3>3, <3>4
  <2>3. QED  BY <2>1, <2>2
<1>11. windows' \in [0..MaxWindow -> WindowRow]
  BY <1>1, CountWindow
<1>12. QED  BY <1>8, <1>9, <1>10, <1>11 DEF Counts

\* A transaction that counts keeps the event that the refusals of its window share.
LEMMA CountedShares ==
  ASSUME GateInv, NEW c \in Call, ConsumeRateLimit(c), Counted(c), Notes(c)
  PROVE  SharedRefusal'
<1>1. PICK w \in 0..MaxWindow : w = call[c].window
  BY RowIs, RowSet
<1>2. window' = window /\ Live(w) /\ windows'[w] = WindowAfter(c) /\ events \subseteq events'
  BY <1>1, CountWindow DEF Counted, Notes
<1>3. \A d \in Call : call'[d].request = call[d].request /\ call'[d].window = call[d].window
  BY DEF Counted
<1>4. Began(c)
  BY RowIs DEF Counted, Fits, Began
<1>5. ASSUME NEW v \in 0..MaxWindow, windows'[v].blocked # NoEvent
      PROVE  windows'[v].blocked \in events' \/ \E d \in Call : Began(d)' /\ EachRefusal(d)'
  <2>1. CASE v = w
    BY <1>2, <1>3, <1>4, <1>5, <2>1 DEF Counted, Began, EachRefusal
  <2>2. CASE v # w
    <3>1. windows'[v] = windows[v]
      BY <1>1, <1>5, <2>2, CountWindow DEF NoWindow
    <3>2. QED  BY <1>2, <1>3, <1>5, <3>1 DEF GateInv, SharedRefusal, Began, EachRefusal
  <2>3. QED  BY <2>1, <2>2
<1>6. \A d \in Call \ {c} : /\ Refused(d)' <=> Refused(d)
                            /\ EachRefusal(d)' <=> EachRefusal(d)
                            /\ call'[d].cites = call[d].cites
  BY DEF Counted, Refused, EachRefusal
<1>7. ASSUME NEW d \in Call, Refused(d)', ~EachRefusal(d)'
      PROVE  /\ call'[d].cites # NoEvent
             /\ \A v \in 0..MaxWindow : call'[d].window = v /\ Live(v)' => call'[d].cites = windows'[v].blocked
  <2>1. CASE d = c
    BY <1>1, <1>2, <1>3, <1>7, <2>1 DEF Counted, Refused, EachRefusal
  <2>2. CASE d # c
    <3>1. /\ call[d].cites # NoEvent
          /\ \A v \in 0..MaxWindow : call[d].window = v /\ Live(v) => call[d].cites = windows[v].blocked
      BY <1>6, <1>7, <2>2 DEF GateInv, SharedRefusal
    <3>2. ASSUME NEW v \in 0..MaxWindow, call'[d].window = v, Live(v)'
          PROVE  call[d].cites = windows'[v].blocked
      <4>1. Live(v) /\ call[d].cites = windows[v].blocked
        BY <1>2, <1>3, <3>1, <3>2 DEF Live
      <4>2. CASE v = w
        BY <1>1, <1>2, <3>1, <4>1, <4>2, CountWindow
      <4>3. CASE v # w
        BY <1>1, <4>1, <4>3, CountWindow
      <4>4. QED  BY <4>2, <4>3
    <3>3. QED  BY <1>6, <2>2, <3>1, <3>2
  <2>3. QED  BY <2>1, <2>2
<1>8. ASSUME NEW d \in Call, NEW f \in Call, Refused(d)', Refused(f)', ~EachRefusal(d)',
             call'[d].window = call'[f].window
      PROVE  call'[d].cites = call'[f].cites
  <2>1. CASE d # c /\ f # c
    BY <1>3, <1>6, <1>8, <2>1 DEF GateInv, SharedRefusal
  <2>2. CASE d = c \/ f = c
    <3>1. call'[d].window = w /\ call'[f].window = w /\ Live(w)'
      BY <1>1, <1>2, <1>3, <1>8, <2>2 DEF Live
    <3>2. ~EachRefusal(f)'
      <4>1. Began(f) /\ Began(d)
        BY <1>4, <1>6, <1>8, RowIs DEF Fits, Unanswered, Refused, Began
      <4>2. QED  BY <1>3, <1>8, <4>1 DEF GateInv, OneRoute, EachRefusal, ForEach
    <3>3. QED  BY <1>7, <1>8, <3>1, <3>2
  <2>3. QED  BY <2>1, <2>2
<1>9. QED  BY <1>5, <1>7, <1>8 DEF SharedRefusal

\* A transaction that counts keeps the invariant.
LEMMA CountedKeeps ==
  ASSUME GateInv, NEW c \in Call, ConsumeRateLimit(c), Counted(c), Notes(c)
  PROVE  GateInv'
<1>1. \A d \in Call \ {c} : call'[d] = call[d]
  BY DEF Counted
<1>2. Recorded' /\ RefusalEvents' /\ SharedFailure'
  BY <1>1, NotesKeep
<1>3. Counts' /\ windows' \in [0..MaxWindow -> WindowRow]
  BY CountedCounts
<1>4. OneRoute'
  BY DEF GateInv, OneRoute, Counted, Began
<1>5. Calls'
  BY RowIs DEF Calls, Counted
<1>6. \A v \in 0..MaxWindow : windows'[v] \in [count: 0..Cardinality(Call), blocked: Cited]
  <2>1. TAKE v \in 0..MaxWindow
  <2>2. Through(v)' \in SUBSET Call
    BY DEF Through
  <2>3. Cardinality(Through(v)') <= Cardinality(Call) /\ Cardinality(Through(v)') \in Nat
    BY <2>2, FS_Subset, FS_CardinalityType, GateConstants
  <2>4. windows'[v] \in WindowRow /\ windows'[v].count <= Cardinality(Through(v)')
    BY <1>3 DEF Counts
  <2>5. Cardinality(Call) \in Nat
    BY FS_CardinalityType, GateConstants
  <2>6. QED  BY <2>3, <2>4, <2>5 DEF WindowRow
<1>7. GateTypeOK'
  BY <1>3, <1>6 DEF GateInv, GateTypeOK, Counted, Notes, Cited
<1>8. QED  BY <1>2, <1>3, <1>4, <1>5, <1>7, CountedShares DEF GateInv

(***************************************************************************)
(* The other steps, and the theorems                                       *)
(***************************************************************************)
\* When a minute ends the counts of its window stay.
LEMMA NextWindowStep ==
  ASSUME GateInv, NextWindow
  PROVE  GateInv'
<1>1. /\ window \in 0..MaxWindow /\ window < MaxWindow /\ window' = window + 1 /\ MaxWindow \in Nat
      /\ UNCHANGED <<call, windows, events, failures>>
  BY GateConstants DEF NextWindow, GateInv, GateTypeOK
<1>2. GateTypeOK'
  BY <1>1 DEF GateInv, GateTypeOK
<1>3. ASSUME NEW c \in Call
      PROVE  Fits(c, call[c], window + 1)
  <2>1. Fits(c, call[c], window) /\ call[c].window \in 0..MaxWindow
    BY RowIs, RowSet
  <2>2. call[c].phase = "gating" => call[c].window = window
    BY DEF NextWindow
  <2>3. QED  BY <1>1, <2>1, <2>2 DEF Fits
<1>4. Calls' /\ OneRoute'
  BY <1>1, <1>3 DEF Calls, OneRoute, Began, GateInv
<1>5. \A w \in 0..MaxWindow : Live(w)' => Live(w)
  BY <1>1 DEF Live
<1>6. /\ \A w : AdmittedIn(w)' = AdmittedIn(w) /\ Through(w)' = Through(w)
      /\ \A c : (Refused(c)' <=> Refused(c)) /\ (EachRefusal(c)' <=> EachRefusal(c))
      /\ \A c : (Began(c)' <=> Began(c)) /\ (Named(c)' <=> Named(c))
  BY <1>1 DEF AdmittedIn, Through, Refused, EachRefusal, Began, Named
<1>7. Counts'
  BY <1>1, <1>5, <1>6 DEF Counts, GateInv
<1>8. SharedRefusal'
  BY <1>1, <1>5, <1>6 DEF SharedRefusal, GateInv
<1>9. Recorded' /\ RefusalEvents' /\ SharedFailure'
  BY <1>1, <1>6 DEF Recorded, RefusalEvents, SharedFailure, GateInv
<1>10. QED  BY <1>2, <1>4, <1>7, <1>8, <1>9 DEF GateInv

\* Before the first request the invariant holds.
LEMMA GateInitially == GateInit => GateInv
<1> SUFFICES ASSUME GateInit
             PROVE  GateInv
  OBVIOUS
<1>1. MaxWindow \in Nat /\ Limit \in Nat /\ Cardinality(Call) \in Nat
  BY GateConstants, FS_CardinalityType
<1>2. Idle \in CallState
  BY <1>1, RowSet, RowValues DEF Idle, Phases, Statuses, AskedField, Cited
<1>3. \A c \in Call : call[c] = Idle
  BY DEF GateInit
<1>4. GateTypeOK
  BY <1>1, <1>2 DEF GateInit, GateTypeOK, NoWindow
<1>5. Calls /\ OneRoute
  BY <1>1, <1>3 DEF GateInit, Calls, OneRoute, Began, Idle, Fits, Early, Unanswered
<1>6. \A w \in 0..MaxWindow : AdmittedIn(w) = {} /\ Through(w) = {}
  BY <1>3 DEF AdmittedIn, Through, Idle, Early
<1>7. Counts
  <2>1. \A w \in 0..MaxWindow : windows[w].count = 0
    BY DEF GateInit, NoWindow
  <2>2. \A w \in 0..MaxWindow : Cardinality(AdmittedIn(w)) = 0 /\ Cardinality(Through(w)) = 0
    BY <1>6, FS_EmptySet
  <2>3. \A c \in Call : ~Refused(c)
    BY <1>3 DEF Refused, Idle
  <2>4. QED  BY <1>1, <2>1, <2>2, <2>3 DEF Counts
<1>8. Recorded /\ RefusalEvents /\ SharedFailure
  BY <1>3 DEF GateInit, Recorded, RefusalEvents, SharedFailure, Named, Idle
<1>9. SharedRefusal
  BY <1>3 DEF GateInit, SharedRefusal, NoWindow, Refused, Idle
<1>10. QED  BY <1>4, <1>5, <1>7, <1>8, <1>9 DEF GateInv

\* Every step of a handler, of its transaction or of the clock keeps the invariant.
LEMMA GateStep == GateInv /\ [GateNext]_gateVars => GateInv'
<1> SUFFICES ASSUME GateInv, [GateNext]_gateVars
             PROVE  GateInv'
  OBVIOUS
<1>1. CASE NextWindow
  BY <1>1, NextWindowStep
<1>2. ASSUME NEW c \in Call, Arrive(c)
      PROVE  GateInv'
  BY <1>2, ArriveStep, WalkKeeps
<1>3. ASSUME NEW c \in Call, Unauthorized(c)
      PROVE  GateInv'
  BY <1>3, FailureStep, WalkKeeps
<1>4. ASSUME NEW c \in Call, Refuse(c)
      PROVE  GateInv'
  BY <1>4, RefuseStep, WalkKeeps
<1>5. ASSUME NEW c \in Call, BeginGate(c)
      PROVE  GateInv'
  BY <1>5, BeginStep, WalkKeeps
<1>6. ASSUME NEW c \in Call, ConsumeRateLimit(c)
      PROVE  GateInv'
  <2>1. CASE LetsIn(c)
    BY <1>6, <2>1, LetsInStep, CountedKeeps
  <2>2. CASE RefusesEach(c)
    BY <1>6, <2>2, RefusesEachStep, CountedKeeps
  <2>3. CASE RefusesOnce(c)
    BY <1>6, <2>3, RefusesOnceStep, CountedKeeps
  <2>4. QED  BY <1>6, <2>1, <2>2, <2>3 DEF ConsumeRateLimit
<1>7. ASSUME NEW c \in Call, Enter(c)
      PROVE  GateInv'
  BY <1>7, EnterStep, WalkKeeps
<1>8. ASSUME NEW c \in Call, Succeed(c)
      PROVE  GateInv'
  BY <1>8, SucceedStep, WalkKeeps
<1>9. ASSUME NEW c \in Call, Throw(c)
      PROVE  GateInv'
  BY <1>9, ThrowStep, WalkKeeps
<1>10. ASSUME NEW c \in Call, RecordRefusal(c)
       PROVE  GateInv'
  BY <1>10, RecordStep, WalkKeeps
<1>11. ASSUME NEW c \in Call, RecordingFails(c)
       PROVE  GateInv'
  BY <1>11, RecordingFailsStep, WalkKeeps
<1>12. ASSUME NEW c \in Call, Crash(c)
       PROVE  GateInv'
  BY <1>12, CrashStep, WalkKeeps
<1>13. CASE UNCHANGED gateVars
  <2>1. UNCHANGED <<call, windows, events, failures, window>>
    BY <1>13 DEF gateVars
  <2>2. QED
    BY <2>1 DEF GateInv, GateTypeOK, Calls, OneRoute, Counts, Recorded, SharedRefusal, RefusalEvents,
         SharedFailure, Began, Refused, EachRefusal, Named, Live, AdmittedIn, Through
<1>14. QED
  BY <1>1, <1>2, <1>3, <1>4, <1>5, <1>6, <1>7, <1>8, <1>9, <1>10, <1>11, <1>12, <1>13 DEF GateNext

\* The inductive invariant of the request gate: the counts of the windows, the calls that went
\* through them and the audit events agree, in every handler that calls consumeRateLimit.
THEOREM GateInvariant == GateSpec => []GateInv
<1>1. GateInit => GateInv
  BY GateInitially
<1>2. GateInv /\ [GateNext]_gateVars => GateInv'
  BY GateStep
<1>3. QED  BY <1>1, <1>2, PTL DEF GateSpec

\* The state of the handlers has its types.
THEOREM GateTypes == GateSpec => []GateTypeOK
<1>1. GateInv => GateTypeOK
  BY DEF GateInv
<1>2. QED  BY <1>1, GateInvariant, PTL

\* No window admits more than its limit, refuses before it is full, or has a body read that was
\* not authenticated and counted.
LEMMA UpToLimit == GateInv => AdmitsUpToLimit
<1> SUFFICES ASSUME GateInv
             PROVE  AdmitsUpToLimit
  OBVIOUS
<1>1. \A w \in 0..MaxWindow : Cardinality(AdmittedIn(w)) <= Limit
  BY DEF GateInv, Counts
<1>2. ASSUME NEW c \in Call, Refused(c)
      PROVE  Cardinality(AdmittedIn(call[c].window)) = Limit
  BY <1>2, RowIs, RowSet DEF GateInv, Counts
<1>3. ASSUME NEW c \in Call, call[c].read
      PROVE  /\ call[c].admitted /\ ~Fails(call[c].request, "authentication")
             /\ ~Fails(call[c].request, Checks(c)[2]) \/ Checks(c)[2] = "gate"
  BY <1>3, RowIs DEF Fits, Cleared, Checks
<1>4. QED  BY <1>1, <1>2, <1>3 DEF AdmitsUpToLimit

\* A set whose elements are equal has one at most.
LEMMA AtMostOne ==
  ASSUME NEW S, \A x, y \in S : x = y
  PROVE  Cardinality(S) <= 1
<1>1. CASE S = {}
  BY <1>1, FS_EmptySet
<1>2. CASE S # {}
  <2>1. PICK x \in S : S = {x}
    BY <1>2
  <2>2. QED  BY <2>1, FS_Singleton
<1>3. QED  BY <1>1, <1>2

\* Each answer names a recorded event, refusals of a window share theirs, and there is one event
\* of failed authentication in a window.
LEMMA EventsNamed == GateInv => AnswersNameEvents
<1> SUFFICES ASSUME GateInv
             PROVE  AnswersNameEvents
  OBVIOUS
<1>1. ASSUME NEW c \in Call, call[c].phase = "answered"
      PROVE  call[c].cites \in events \/ (call[c].cites = NoEvent /\ call[c].status \in {401, 500})
  BY <1>1 DEF GateInv, Recorded, Named
<1>2. ASSUME NEW c \in Call, NEW d \in Call, Refused(c), Refused(d), call[c].window = call[d].window,
             call[c].request.route \notin RecordsEachRefusal
      PROVE  call[c].cites = call[d].cites
  BY <1>2 DEF GateInv, SharedRefusal, EachRefusal, ForEach
<1>3. ASSUME NEW w \in 0..MaxWindow,
             ~\E c \in Call : call[c].request # NoRequest /\ call[c].request.route \in RecordsEachRefusal
      PROVE  Cardinality(SharedEvents(w)) <= 1
  <2>1. \A e \in SharedEvents(w) : /\ e.of \in Call /\ Refused(e.of) /\ call[e.of].cites = e
                                   /\ ~EachRefusal(e.of) /\ call[e.of].window = w
    <3>1. TAKE e \in SharedEvents(w)
    <3>2. e \in events /\ e.of \in Call /\ e.for = "window" /\ call[e.of].window = w
      BY DEF SharedEvents, GateInv, GateTypeOK, Event
    <3>3. ~EachRefusal(e.of)
      <4>1. Began(e.of)
        BY <3>2, RowIs DEF GateInv, Recorded, Fits, Began
      <4>2. QED  BY <1>3, <3>2, <4>1 DEF Began, EachRefusal, ForEach
    <3>4. QED  BY <3>2, <3>3 DEF GateInv, RefusalEvents
  <2>2. \A e, f \in SharedEvents(w) : e = f
    BY <2>1 DEF GateInv, SharedRefusal
  <2>3. QED  BY <2>2, AtMostOne
<1>4. Cardinality({e \in events : e.for = "answer" /\ call[e.of].status = 401}) <= MaxWindow + 1
  <2> DEFINE failed == {e \in events : e.for = "answer" /\ call[e.of].status = 401}
             named == {failures[w] : w \in 0..MaxWindow}
  <2>1. failed \subseteq named
    BY DEF GateInv, SharedFailure
  <2>2. failures \in Surjection(0..MaxWindow, named)
    BY DEF Surjection, GateInv, GateTypeOK
  <2>3. IsFiniteSet(0..MaxWindow) /\ Cardinality(0..MaxWindow) = MaxWindow + 1
    BY GateConstants, FS_Interval
  <2> HIDE DEF failed, named
  <2>4. IsFiniteSet(named) /\ Cardinality(named) <= MaxWindow + 1
    BY <2>2, <2>3, FS_Surjection
  <2>5. Cardinality(failed) <= Cardinality(named) /\ IsFiniteSet(failed)
    BY <2>1, <2>4, FS_Subset
  <2>6. Cardinality(failed) \in Nat /\ Cardinality(named) \in Nat /\ MaxWindow \in Nat
    BY <2>4, <2>5, FS_CardinalityType, GateConstants
  <2>7. Cardinality(failed) <= MaxWindow + 1
    BY <2>4, <2>5, <2>6
  <2>8. QED  BY <2>7 DEF failed
<1>5. QED  BY <1>1, <1>2, <1>3, <1>4 DEF AnswersNameEvents

\* Requests are counted before their body is read, a window admits up to its limit and never
\* refuses before, and every answer names an audit event that was recorded: consumeRateLimit and
\* the refusals of each handler under src/src/api/v1, for every interleaving and crash.
THEOREM Gate == GateSpec => []GateHolds
<1>1. GateInv => GateHolds
  BY UpToLimit, EventsNamed DEF GateHolds
<1>2. QED  BY <1>1, GateInvariant, PTL

(***************************************************************************)
(* The inductive invariant of the keys, in parts                           *)
(***************************************************************************)
KeyedPhases ==
  {"deleting", "inserting", "looking", "invalidating", "claimed", "committing", "outside",
   "releasing", "ended"}
Codes == {0, 200, 409, 500}
TxRow ==
  [phase: KeyedPhases, request: Sent, now: 0..Clock, until: 0..(Clock + KeyTTL),
   deleted: SUBSET Scope, locked: SUBSET Scope, inserted: BOOLEAN, released: BOOLEAN,
   entity: BOOLEAN, status: Codes, answer: Client \cup {None}]
Answer == [row: Row, at: 0..Clock]

KeyedTypes ==
  /\ Asked \subseteq Client /\ tx \in [Asked -> TxRow]
  /\ rows \subseteq Row /\ entities \subseteq Entity /\ answers \subseteq Answer
  /\ clock \in 0..Clock

\* What a transaction holds in each phase.
Shape(r, now) ==
  /\ r.now <= now
  /\ r.phase \in {"deleting", "outside", "releasing", "ended"} =>
       r.deleted = {} /\ r.locked = {} /\ ~r.inserted
  /\ r.phase \in {"outside", "releasing"} => r.request.operation = "bundle"
  /\ r.phase = "claimed" => r.inserted
  /\ r.inserted => r.phase \in {"claimed", "committing"} /\ r.until >= KeyTTL
  /\ r.phase = "committing" /\ r.inserted /\ ~r.released => r.status = 200
  /\ r.released => r.phase = "committing" /\ r.status # 200
  /\ r.entity => r.phase = "committing" /\ r.inserted /\ r.status = 200
  /\ r.status = 200 => r.phase \in {"committing", "ended"}
Shapes ==
  /\ \A c \in Asked : Shape(tx[c], clock)
  /\ \A c, d \in Asked : Operation(c) = Operation(d)

\* A scope has one row; a claim is alone, and what was there is deleted with it.
OneRow == \A row, old \in rows : ScopeOf(row.request) = ScopeOf(old.request) => row = old
Claim(c, r) ==
  LET s == ScopeOf(r.request)
  IN r.inserted => /\ ~InsertedByOther(c, s) /\ ~DeletedByOther(c, s)
                   /\ Under(s) = {} \/ s \in r.deleted
Claims == \A c \in Asked : Claim(c, tx[c])

\* What is deleted had expired or been spoiled, and nobody else deletes it or locks it.
Over(row) == row.until <= clock \/ MayGo(row)
Hold(c, r) ==
  /\ \A s \in r.deleted \cup r.locked : ~DeletedByOther(c, s)
  /\ \A s \in r.deleted : \A row \in Under(s) : Over(row)
  /\ \A s \in r.locked : Under(s) # {} /\ \A row \in Under(s) : row.spoiled
  /\ r.phase = "invalidating" =>
       LET s == ScopeOf(r.request)
       IN s \in r.locked \/ (s.operation \notin LocksRow /\ SpoiledUnder(s))
Holds == \A c \in Asked : Hold(c, tx[c])

\* An answer is kept until it expired or was spoiled, and later ones come after that.
Worked(by, r) ==
  /\ by \in Asked /\ tx[by].request.content = r.content
  /\ r.operation = "gap" =>
       \E e \in entities : e.by = by /\ e.request.operation = "gap" /\ e.request.content = r.content
Apart(x, y) ==
  \/ x = y \/ ScopeOf(x.row.request) # ScopeOf(y.row.request)
  \/ x.row.until <= y.at \/ y.row.until <= x.at
  \/ MayGo(x.row) \/ MayGo(y.row)
AnswersKept ==
  /\ \A x \in answers : Over(x.row) \/ x.row \in rows
  /\ \A row \in rows : row.by # None => \E x \in answers : x.row = row
  /\ \A x \in answers : Worked(x.row.by, x.row.request)
  /\ \A x, y \in answers : Apart(x, y)

\* Whoever is told 200 gets an answer to his request.
Reply(c, r) ==
  r.status = 200 =>
    /\ Worked(r.answer, r.request) \/ (r.entity /\ r.answer = c)
    /\ r.inserted \/ \E x \in answers : x.row.by = r.answer
    /\ r.inserted => r.answer # None
Replies == \A c \in Asked : Reply(c, tx[c])

\* No two gaps, sources or documents share an identity, those not yet committed included.
Creates(c, r) ==
  r.entity =>
    /\ \A e \in entities : ~SharesIdentity(e.request, r.request)
    /\ \A d \in Others(c) : tx[d].entity => ~SharesIdentity(r.request, tx[d].request)
Aggregates ==
  /\ \A e \in entities : e.by \in Asked /\ tx[e.by].request = e.request
  /\ \A e, f \in entities : e # f => ~SharesIdentity(e.request, f.request)
  /\ \A c \in Asked : Creates(c, tx[c])

KeyedInv ==
  /\ KeyedTypes /\ Shapes /\ OneRow /\ Claims /\ Holds /\ AnswersKept /\ Replies /\ Aggregates

(***************************************************************************)
(* Steps that change one transaction and nothing that is committed         *)
(***************************************************************************)
\* What the invariant says of one call.
LEMMA TxIs ==
  ASSUME KeyedInv, NEW c \in Asked
  PROVE  /\ tx[c] \in TxRow /\ Shape(tx[c], clock) /\ Claim(c, tx[c]) /\ Hold(c, tx[c])
         /\ Reply(c, tx[c]) /\ Creates(c, tx[c])
         /\ clock \in 0..Clock /\ tx \in [Asked -> TxRow]
         /\ tx[c].request \in Sent /\ ScopeOf(tx[c].request) \in Scope
<1>1. tx[c] \in TxRow
  BY DEF KeyedInv, KeyedTypes
<1>2. tx[c].request \in Sent
  BY <1>1 DEF TxRow
<1>3. ScopeOf(tx[c].request) \in Scope
  BY <1>2 DEF Scope, ScopeOf
<1>4. QED
  BY <1>1, <1>2, <1>3 DEF KeyedInv, KeyedTypes, Shapes, Claims, Holds, Replies, Aggregates

\* A step of one call leaves the transactions of the others alone.
LEMMA TxTurned ==
  ASSUME tx \in [Asked -> TxRow], NEW c \in Asked, NEW r \in TxRow, tx' = [tx EXCEPT ![c] = r]
  PROVE  /\ Asked' = Asked /\ tx' \in [Asked -> TxRow] /\ tx'[c] = r
         /\ \A d \in Asked \ {c} : tx'[d] = tx[d]
         /\ r.request = tx[c].request => \A d \in Asked : tx'[d].request = tx[d].request
<1>1. /\ Asked' = Asked /\ tx' \in [Asked -> TxRow] /\ tx'[c] = r
      /\ \A d \in Asked \ {c} : tx'[d] = tx[d]
  BY DEF Asked
<1>2. QED  BY <1>1

\* A step that leaves the request of its transaction leaves every request.
LEMMA TxMoved ==
  ASSUME tx \in [Asked -> TxRow], NEW c \in Asked, NEW r \in TxRow, tx' = [tx EXCEPT ![c] = r],
         r.request = tx[c].request
  PROVE  /\ Asked' = Asked /\ tx'[c] = r /\ \A d \in Asked \ {c} : tx'[d] = tx[d]
         /\ \A d \in Asked : tx'[d].request = tx[d].request
BY TxTurned

\* A transaction goes on: what it takes was free, and what it answers was worked out.
Turns(c, r) ==
  /\ c \in Asked /\ r \in TxRow /\ tx' = [tx EXCEPT ![c] = r] /\ r.request = tx[c].request
  /\ UNCHANGED <<rows, entities, answers, clock>>
  /\ Shape(r, clock) /\ Claim(c, r) /\ Hold(c, r) /\ Reply(c, r) /\ Creates(c, r)
  /\ \A s \in r.deleted \ tx[c].deleted : ~LockedByOther(c, s) /\ Under(s) # {}

\* What is worked out for a request stays so.
LEMMA WorkStays ==
  ASSUME NEW by, NEW q, Worked(by, q), Asked \subseteq Asked',
         \A d \in Asked : tx'[d].request = tx[d].request,
         \A e \in entities : \E f \in entities' : f.by = e.by /\ f.request = e.request
  PROVE  Worked(by, q)'
<1>1. by \in Asked' /\ tx'[by].request.content = q.content
  BY DEF Worked
<1>2. ASSUME q.operation = "gap"
      PROVE  \E f \in entities' : f.by = by /\ f.request.operation = "gap" /\ f.request.content = q.content
  <2>1. PICK e \in entities : e.by = by /\ e.request.operation = "gap" /\ e.request.content = q.content
    BY <1>2 DEF Worked
  <2>2. PICK f \in entities' : f.by = e.by /\ f.request = e.request
    OBVIOUS
  <2>3. QED  BY <2>1, <2>2
<1>3. QED  BY <1>1, <1>2 DEF Worked

\* No other call loses its claim, what it deletes or what it locks.
LEMMA TurnHolds ==
  ASSUME KeyedInv, NEW c, NEW r, Turns(c, r)
  PROVE  Claims' /\ Holds'
<1>1. /\ Asked' = Asked /\ tx' \in [Asked -> TxRow] /\ tx'[c] = r
      /\ \A d \in Asked \ {c} : tx'[d] = tx[d]
  BY TxTurned DEF Turns, KeyedInv, KeyedTypes
<1>2. /\ \A s : Under(s)' = Under(s)
      /\ \A s : SpoiledUnder(s)' <=> SpoiledUnder(s)
      /\ \A row : Over(row)' <=> Over(row)
  BY DEF Turns, Under, SpoiledUnder, Over, MayGo
<1>3. ASSUME NEW d \in Asked \ {c}
      PROVE  /\ tx[d].inserted => ScopeOf(tx[d].request) \notin r.deleted
             /\ tx[d].inserted /\ r.inserted => ScopeOf(tx[d].request) # ScopeOf(r.request)
             /\ r.inserted => ScopeOf(r.request) \notin tx[d].deleted
             /\ (tx[d].deleted \cup tx[d].locked) \cap r.deleted = {}
             /\ tx[d].deleted \cap (r.deleted \cup r.locked) = {}
  <2>1. /\ tx[d] \in TxRow /\ Claim(d, tx[d]) /\ Hold(d, tx[d])
        /\ tx[c] \in TxRow /\ c \in Others(d) /\ d \in Others(c)
    BY TxIs DEF Turns, Others
  <2>2. (tx[d].deleted \cup tx[d].locked) \cap r.deleted = {}
    <3>1. ASSUME NEW s \in r.deleted, s \in tx[d].deleted \cup tx[d].locked
          PROVE  FALSE
      <4>1. CASE s \in tx[c].deleted
        BY <2>1, <3>1, <4>1 DEF Hold, DeletedByOther
      <4>2. CASE s \notin tx[c].deleted
        BY <2>1, <3>1, <4>2 DEF Turns, LockedByOther
      <4>3. QED  BY <4>1, <4>2
    <3>2. QED  BY <3>1
  <2>3. tx[d].deleted \cap (r.deleted \cup r.locked) = {}
    BY <2>1 DEF Turns, Hold, DeletedByOther
  <2>4. r.inserted => ScopeOf(r.request) \notin tx[d].deleted
    BY <2>1 DEF Turns, Claim, DeletedByOther
  <2>5. tx[d].inserted /\ r.inserted => ScopeOf(tx[d].request) # ScopeOf(r.request)
    BY <2>1 DEF Turns, Claim, InsertedByOther, Mine
  <2>6. ASSUME tx[d].inserted, ScopeOf(tx[d].request) \in r.deleted
        PROVE  FALSE
    <3> DEFINE s == ScopeOf(tx[d].request)
    <3>1. CASE s \in tx[c].deleted
      BY <2>1, <2>6, <3>1 DEF Claim, DeletedByOther
    <3>2. CASE s \notin tx[c].deleted
      <4>1. Under(s) # {} /\ ~LockedByOther(c, s)
        BY <2>6, <3>2 DEF Turns
      <4>2. s \in tx[d].deleted
        BY <2>1, <2>6, <4>1 DEF Claim
      <4>3. QED  BY <2>1, <4>1, <4>2 DEF LockedByOther
    <3>3. QED  BY <3>1, <3>2
  <2>7. QED  BY <2>2, <2>3, <2>4, <2>5, <2>6
<1>4. /\ \A d \in Asked : \A s : DeletedByOther(d, s)' <=>
           \E e \in Asked \ {d} : s \in tx'[e].deleted
      /\ \A d \in Asked : \A s : InsertedByOther(d, s)' <=>
           \E e \in Asked \ {d} : tx'[e].inserted /\ ScopeOf(tx'[e].request) = s
  BY <1>1 DEF DeletedByOther, InsertedByOther, Others, Mine
<1>5. /\ \A d \in Asked : \A s : DeletedByOther(d, s) <=>
           \E e \in Asked \ {d} : s \in tx[e].deleted
      /\ \A d \in Asked : \A s : InsertedByOther(d, s) <=>
           \E e \in Asked \ {d} : tx[e].inserted /\ ScopeOf(tx[e].request) = s
  BY DEF DeletedByOther, InsertedByOther, Others, Mine
<1>6. c \in Asked /\ Claim(c, r) /\ Hold(c, r)
  BY DEF Turns
<1>7. ASSUME NEW d \in Asked
      PROVE  Claim(d, tx[d])'
  <2>1. CASE d = c
    <3>1. \A s : /\ DeletedByOther(c, s)' <=> DeletedByOther(c, s)
                 /\ InsertedByOther(c, s)' <=> InsertedByOther(c, s)
      BY <1>1, <1>4, <1>5, <1>6
    <3>2. QED  BY <1>1, <1>2, <1>6, <2>1, <3>1 DEF Claim
  <2>2. CASE d # c
    <3>1. tx'[d] = tx[d] /\ Claim(d, tx[d])
      BY <1>1, <2>2, TxIs
    <3>2. ASSUME tx[d].inserted
          PROVE  LET s == ScopeOf(tx[d].request)
                 IN ~DeletedByOther(d, s)' /\ ~InsertedByOther(d, s)'
      BY <1>1, <1>3, <1>4, <1>5, <2>2, <3>1, <3>2 DEF Claim
    <3>3. QED  BY <1>2, <3>1, <3>2 DEF Claim
  <2>3. QED  BY <2>1, <2>2
<1>8. ASSUME NEW d \in Asked
      PROVE  Hold(d, tx[d])'
  <2>1. CASE d = c
    <3>1. \A s : DeletedByOther(c, s)' <=> DeletedByOther(c, s)
      BY <1>1, <1>4, <1>5, <1>6
    <3>2. QED  BY <1>1, <1>2, <1>6, <2>1, <3>1 DEF Hold
  <2>2. CASE d # c
    <3>1. tx'[d] = tx[d] /\ Hold(d, tx[d])
      BY <1>1, <2>2, TxIs
    <3>2. \A s \in tx[d].deleted \cup tx[d].locked : ~DeletedByOther(d, s)'
      BY <1>1, <1>3, <1>4, <1>5, <2>2, <3>1 DEF Hold
    <3>3. QED  BY <1>2, <3>1, <3>2 DEF Hold
  <2>3. QED  BY <2>1, <2>2
<1>9. QED  BY <1>1, <1>7, <1>8 DEF Claims, Holds

\* Such a step keeps the invariant.
LEMMA TurnKeeps ==
  ASSUME KeyedInv, NEW c, NEW r, Turns(c, r)
  PROVE  KeyedInv'
<1>1. /\ Asked' = Asked /\ tx' \in [Asked -> TxRow] /\ tx'[c] = r /\ c \in Asked
      /\ \A d \in Asked \ {c} : tx'[d] = tx[d]
  BY TxTurned DEF Turns, KeyedInv, KeyedTypes
<1>2. \A d \in Asked : tx'[d].request = tx[d].request
  BY <1>1 DEF Turns
<1>3. rows' = rows /\ entities' = entities /\ answers' = answers /\ clock' = clock
  BY DEF Turns
<1>4. KeyedTypes'
  BY <1>1, <1>3 DEF KeyedInv, KeyedTypes
<1>5. Shapes'
  <2>1. \A d \in Asked : Shape(tx'[d], clock)
    BY <1>1, TxIs DEF Turns
  <2>2. QED  BY <1>1, <1>2, <1>3, <2>1 DEF KeyedInv, Shapes, Operation
<1>6. \A by, q : Worked(by, q) => Worked(by, q)'
  BY <1>1, <1>2, <1>3, WorkStays
<1>7. OneRow'
  BY <1>3 DEF KeyedInv, OneRow
<1>8. AnswersKept'
  <2>1. \A x, y \in answers : Apart(x, y)' <=> Apart(x, y)
    BY <1>3 DEF Apart, MayGo, SpoiledUnder
  <2>2. \A row : Over(row)' <=> Over(row)
    BY <1>3 DEF Over, MayGo, SpoiledUnder
  <2>3. \A x \in answers : Worked(x.row.by, x.row.request)'
    BY <1>6 DEF KeyedInv, AnswersKept
  <2>4. QED  BY <1>3, <2>1, <2>2, <2>3 DEF KeyedInv, AnswersKept
<1>9. Replies'
  <2>1. ASSUME NEW d \in Asked
        PROVE  Reply(d, tx[d])'
    <3>1. PICK q : q = tx'[d]
      OBVIOUS
    <3>2. Reply(d, q)
      BY <1>1, <3>1, TxIs DEF Turns
    <3>3. q.status = 200 /\ Worked(q.answer, q.request) => Worked(q.answer, q.request)'
      BY <1>6
    <3>4. q.status = 200 => /\ Worked(q.answer, q.request)' \/ (q.entity /\ q.answer = d)
                            /\ q.inserted \/ \E x \in answers : x.row.by = q.answer
                            /\ q.inserted => q.answer # None
      BY <3>2, <3>3 DEF Reply
    <3>5. Reply(d, q)'
      BY <1>3, <3>4 DEF Reply
    <3>6. QED  BY <3>1, <3>5 DEF Reply, Worked
  <2>2. QED  BY <1>1, <2>1 DEF Replies
<1>10. Aggregates'
  <2>1. ASSUME NEW d \in Asked
        PROVE  Creates(d, tx[d])'
    <3>1. \A e \in Asked : Creates(e, tx[e]) /\ Creates(c, r)
      BY TxIs DEF Turns
    <3>2. ASSUME tx'[d].entity
          PROVE  /\ \A e \in entities : ~SharesIdentity(e.request, tx'[d].request)
                 /\ \A e \in Asked \ {d} : tx'[e].entity => ~SharesIdentity(tx'[d].request, tx'[e].request)
      <4>1. CASE d = c
        BY <1>1, <3>1, <3>2, <4>1 DEF Creates, Others
      <4>2. CASE d # c
        <5>1. tx'[d] = tx[d] /\ Creates(d, tx[d])
          BY <1>1, <3>1, <4>2
        <5>2. r.entity => ~SharesIdentity(r.request, tx[d].request)
          BY <3>1, <3>2, <5>1, <4>2 DEF Creates, Others
        <5>3. r.entity => ~SharesIdentity(tx[d].request, r.request)
          BY <5>2 DEF SharesIdentity
        <5>4. QED  BY <1>1, <3>2, <5>1, <5>3 DEF Creates, Others
      <4>3. QED  BY <4>1, <4>2
    <3>3. QED  BY <1>1, <1>3, <3>2 DEF Creates, Others, SharesIdentity
  <2>2. QED  BY <1>1, <1>2, <1>3, <2>1 DEF KeyedInv, Aggregates, SharesIdentity
<1>11. QED  BY <1>4, <1>5, <1>7, <1>8, <1>9, <1>10, TurnHolds DEF KeyedInv

\* The phases and the codes a transaction goes through, by name.
LEMMA KeyedWords ==
  /\ \A phase \in {"deleting", "inserting", "looking", "invalidating", "claimed", "committing",
                   "outside", "releasing", "ended"} : phase \in KeyedPhases
  /\ \A code \in {0, 200, 409, 500} : code \in Codes
BY DEF KeyedPhases, Codes

\* A transaction that begins is one of the rows a transaction can be.
LEMMA StartRow ==
  ASSUME KeyedInv, NEW phase \in KeyedPhases, NEW q \in Sent
  PROVE  Start(phase, q) \in TxRow
<1>1. 0 \in 0..Clock /\ 0 \in 0..(Clock + KeyTTL)
  BY KeyedConstants
<1>2. 0 \in Codes /\ None \in Client \cup {None} /\ FALSE \in BOOLEAN
  BY KeyedWords
<1>3. QED  BY <1>1, <1>2 DEF Start, TxRow

\* A transaction that ended holds nothing.
LEMMA EndedRow ==
  ASSUME KeyedInv, NEW c \in Asked, NEW phase \in {"outside", "ended"}, NEW code \in Codes,
         NEW by \in Client \cup {None}
  PROVE  LET r == Ended(c, phase, code, by)
         IN  /\ r \in TxRow /\ r.request = tx[c].request /\ r.phase = phase /\ r.status = code
             /\ r.answer = by /\ r.now = 0 /\ r.deleted = {} /\ r.locked = {}
             /\ ~r.inserted /\ ~r.released /\ ~r.entity
<1>1. Start(phase, tx[c].request) \in TxRow
  BY KeyedWords, StartRow, TxIs
<1>2. Ended(c, phase, code, by) \in TxRow
  BY <1>1 DEF Ended, TxRow
<1>3. QED  BY <1>2 DEF Ended, Start

\* A row that holds nothing and says nothing asks nothing of the others.
LEMMA IdleTurns ==
  ASSUME KeyedInv, NEW c \in Asked, NEW r \in TxRow, tx' = [tx EXCEPT ![c] = r],
         r.request = tx[c].request, UNCHANGED <<rows, entities, answers, clock>>,
         Shape(r, clock), r.deleted \subseteq tx[c].deleted, r.locked = {}, ~r.inserted, ~r.entity,
         r.phase # "invalidating", Reply(c, r)
  PROVE  Turns(c, r)
<1>1. Hold(c, tx[c])
  BY TxIs
<1>2. Hold(c, r)
  BY <1>1 DEF Hold
<1>3. Claim(c, r) /\ Creates(c, r)
  BY DEF Claim, Creates
<1>4. QED  BY <1>2, <1>3 DEF Turns

\* A call that fails or whose process ends holds nothing and is answered 500.
LEMMA FailTurns ==
  ASSUME KeyedInv, NEW c \in Asked, Fail(c), UNCHANGED <<rows, entities, answers, clock>>
  PROVE  \E r : Turns(c, r)
<1>1. 500 \in Codes /\ None \in Client \cup {None}
  BY KeyedWords
<1>2. PICK r \in TxRow : r = Ended(c, "ended", 500, None)
  <2>1. Ended(c, "ended", 500, None) \in TxRow
    BY <1>1, EndedRow
  <2>2. QED  BY <2>1, Zenon
<1>3. /\ r.request = tx[c].request /\ r.phase = "ended" /\ r.status = 500 /\ r.now = 0
      /\ r.deleted = {} /\ r.locked = {} /\ ~r.inserted /\ ~r.released /\ ~r.entity
  BY <1>1, <1>2, EndedRow
<1>4. tx' = [tx EXCEPT ![c] = r]
  BY <1>2 DEF Fail
<1>5. Shape(r, clock)
  BY <1>3, TxIs DEF Shape
<1>6. Reply(c, r)
  BY <1>3 DEF Reply
<1>7. QED  BY <1>3, <1>4, <1>5, <1>6, IdleTurns

\* What is expired when the request came is expired now, and nobody else holds it.
LEMMA DeleteExpiredTurns ==
  ASSUME KeyedInv, NEW c \in Asked, DeleteExpired(c)
  PROVE  \E r : Turns(c, r)
<1>1. /\ tx[c] \in TxRow /\ Shape(tx[c], clock) /\ Reply(c, tx[c]) /\ tx[c].phase = "deleting"
      /\ clock \in 0..Clock
  BY TxIs DEF DeleteExpired
<1>2. PICK gone \in SUBSET Scope : gone = ExpiredRows(c)
  <2>1. \A row \in rows : ScopeOf(row.request) \in Scope
    BY DEF KeyedInv, KeyedTypes, Row, Scope, ScopeOf
  <2>2. QED  BY <2>1 DEF ExpiredRows
<1>3. PICK r \in TxRow : r = [tx[c] EXCEPT !.phase = "inserting", !.deleted = gone]
  <2>1. "inserting" \in KeyedPhases
    BY KeyedWords
  <2>2. ASSUME NEW q \in TxRow
        PROVE  [q EXCEPT !.phase = "inserting", !.deleted = gone] \in TxRow
    BY <2>1 DEF TxRow
  <2>3. QED  BY <1>1, <2>2, Zenon
<1>4. tx' = [tx EXCEPT ![c] = r]
  BY <1>1, <1>2, <1>3 DEF DeleteExpired
<1>5. /\ r.phase = "inserting" /\ r.deleted = gone /\ r.request = tx[c].request /\ r.now = tx[c].now
      /\ r.locked = tx[c].locked /\ r.inserted = tx[c].inserted /\ r.released = tx[c].released
      /\ r.entity = tx[c].entity /\ r.status = tx[c].status
  BY <1>1, <1>3 DEF TxRow
<1>6. ~r.inserted /\ ~r.released /\ ~r.entity /\ r.locked = {} /\ r.status # 200
  BY <1>1, <1>5 DEF Shape
<1>7. \A s \in gone : /\ ~LockedByOther(c, s) /\ ~DeletedByOther(c, s) /\ Under(s) # {}
                      /\ \A row \in Under(s) : Over(row)
  <2>1. TAKE s \in gone
  <2>2. ~LockedByOther(c, s) /\ ~DeletedByOther(c, s)
    BY <1>2 DEF DeleteExpired, LockedByOther, DeletedByOther
  <2>3. PICK old \in rows : ScopeOf(old.request) = s /\ old.until <= tx[c].now
    BY <1>2 DEF ExpiredRows
  <2>4. \A row \in Under(s) : row = old
    BY <2>3 DEF KeyedInv, OneRow, Under
  <2>5. old.until <= clock
    <3>1. old.until \in Nat /\ tx[c].now \in Nat /\ clock \in Nat /\ tx[c].now <= clock
      <4>1. old.until \in KeyTTL..(Clock + KeyTTL)
        BY DEF KeyedInv, KeyedTypes, Row
      <4>2. QED  BY <1>1, <4>1, KeyedConstants DEF Shape, TxRow
    <3>2. QED  BY <2>3, <3>1
  <2>6. Under(s) # {}
    BY <2>3 DEF Under
  <2>7. QED  BY <2>2, <2>4, <2>5, <2>6 DEF Over
<1>8. Hold(c, r)
  BY <1>5, <1>6, <1>7 DEF Hold
<1>9. Shape(r, clock)
  BY <1>1, <1>5, <1>6 DEF Shape
<1>10. Claim(c, r) /\ Reply(c, r) /\ Creates(c, r)
  BY <1>6 DEF Claim, Reply, Creates
<1>11. QED
  <2>1. Turns(c, r)
    BY <1>4, <1>5, <1>7, <1>8, <1>9, <1>10 DEF Turns, DeleteExpired
  <2>2. QED  BY <2>1

\* A claim is inserted where nobody else's is, and where there is no row left.
LEMMA InsertClaimTurns ==
  ASSUME KeyedInv, NEW c \in Asked, InsertClaim(c)
  PROVE  \E r : Turns(c, r)
<1>1. /\ tx[c] \in TxRow /\ Shape(tx[c], clock) /\ Reply(c, tx[c]) /\ tx[c].phase = "inserting"
      /\ clock \in 0..Clock /\ Hold(c, tx[c])
  BY TxIs DEF InsertClaim
<1>2. "looking" \in KeyedPhases /\ "claimed" \in KeyedPhases
  BY KeyedWords
<1>3. /\ ~tx[c].inserted /\ ~tx[c].released /\ ~tx[c].entity /\ tx[c].status # 200
  BY <1>1 DEF Shape
<1>4. CASE Seen(c) # {}
  <2>1. PICK r \in TxRow : r = [tx[c] EXCEPT !.phase = "looking"]
    <3>1. ASSUME NEW q \in TxRow
          PROVE  [q EXCEPT !.phase = "looking"] \in TxRow
      BY <1>2 DEF TxRow
    <3>2. QED  BY <1>1, <3>1, Zenon
  <2>2. tx' = [tx EXCEPT ![c] = r]
    BY <1>1, <1>4, <2>1 DEF InsertClaim, Goes
  <2>3. /\ r.phase = "looking" /\ r.deleted = tx[c].deleted /\ r.request = tx[c].request
        /\ r.now = tx[c].now /\ r.locked = tx[c].locked /\ r.inserted = tx[c].inserted
        /\ r.released = tx[c].released /\ r.entity = tx[c].entity /\ r.status = tx[c].status
    BY <1>1, <2>1 DEF TxRow
  <2>4. Shape(r, clock) /\ Claim(c, r) /\ Reply(c, r) /\ Creates(c, r)
    BY <1>1, <1>3, <2>3 DEF Shape, Claim, Reply, Creates
  <2>5. Hold(c, r)
    BY <1>1, <2>3 DEF Hold
  <2>6. Turns(c, r)
    BY <2>2, <2>3, <2>4, <2>5 DEF Turns, InsertClaim
  <2>7. QED  BY <2>6
<1>5. CASE Seen(c) = {}
  <2>1. PICK until \in 0..(Clock + KeyTTL) :
          until = KeyTTL + IF Operation(c) \in LocksRow THEN tx[c].now ELSE clock
    <3>1. tx[c].now \in 0..Clock
      BY <1>1 DEF TxRow
    <3>2. QED  BY <1>1, <3>1, KeyedConstants
  <2>2. until >= KeyTTL
    <3>1. tx[c].now \in 0..Clock
      BY <1>1 DEF TxRow
    <3>2. QED  BY <1>1, <2>1, <3>1, KeyedConstants
  <2>3. PICK r \in TxRow : r = [tx[c] EXCEPT !.phase = "claimed", !.inserted = TRUE, !.until = until]
    <3>1. ASSUME NEW q \in TxRow
          PROVE  [q EXCEPT !.phase = "claimed", !.inserted = TRUE, !.until = until] \in TxRow
      BY <1>2 DEF TxRow
    <3>2. QED  BY <1>1, <3>1, Zenon
  <2>4. tx' = [tx EXCEPT ![c] = r]
    BY <1>1, <1>5, <2>1, <2>3 DEF InsertClaim
  <2>5. /\ r.phase = "claimed" /\ r.deleted = tx[c].deleted /\ r.request = tx[c].request
        /\ r.now = tx[c].now /\ r.locked = tx[c].locked /\ r.inserted /\ r.until = until
        /\ r.released = tx[c].released /\ r.entity = tx[c].entity /\ r.status = tx[c].status
    BY <1>1, <2>3 DEF TxRow
  <2>6. Shape(r, clock) /\ Reply(c, r) /\ Creates(c, r)
    BY <1>1, <1>3, <2>2, <2>5 DEF Shape, Reply, Creates
  <2>7. Hold(c, r)
    BY <1>1, <2>5 DEF Hold
  <2>8. Claim(c, r)
    BY <1>5, <2>5 DEF Claim, Seen, InsertClaim, Mine
  <2>9. Turns(c, r)
    BY <2>4, <2>5, <2>6, <2>7, <2>8 DEF Turns, InsertClaim
  <2>10. QED  BY <2>9
<1>6. QED  BY <1>4, <1>5

\* A call is about to commit what it answers.
LEMMA AnswersRow ==
  ASSUME KeyedInv, NEW c \in Asked, NEW code \in {200, 409}, NEW by \in Client \cup {None}, Answers(c, code, by)
  PROVE  \E r \in TxRow :
           /\ tx' = [tx EXCEPT ![c] = r]
           /\ r.phase = "committing" /\ r.status = code /\ r.answer = by
           /\ r.request = tx[c].request /\ r.deleted = tx[c].deleted /\ r.locked = tx[c].locked
           /\ r.now = tx[c].now /\ r.inserted = tx[c].inserted /\ r.until = tx[c].until
           /\ r.released = tx[c].released /\ r.entity = tx[c].entity
<1>1. tx[c] \in TxRow
  BY TxIs
<1>2. "committing" \in KeyedPhases /\ code \in Codes
  BY KeyedWords
<1>3. PICK r \in TxRow : r = [tx[c] EXCEPT !.phase = "committing", !.status = code, !.answer = by]
  <2>1. [tx[c] EXCEPT !.phase = "committing", !.status = code, !.answer = by] \in TxRow
    BY <1>1, <1>2 DEF TxRow
  <2>2. QED  BY <2>1, Zenon
<1>4. tx' = [tx EXCEPT ![c] = r]
  BY <1>1, <1>3, TxIs DEF Answers, Asked
<1>5. /\ r.phase = "committing" /\ r.status = code /\ r.answer = by
      /\ r.request = tx[c].request /\ r.deleted = tx[c].deleted /\ r.locked = tx[c].locked
      /\ r.now = tx[c].now /\ r.inserted = tx[c].inserted /\ r.until = tx[c].until
      /\ r.released = tx[c].released /\ r.entity = tx[c].entity
  BY <1>1, <1>3 DEF TxRow
<1>6. QED  BY <1>4, <1>5

\* A call that found a row repeats it, refuses, or goes to delete a spoiled one.
LEMMA LookTurns ==
  ASSUME KeyedInv, NEW c \in Asked, Look(c)
  PROVE  \E r : Turns(c, r)
<1>1. /\ tx[c] \in TxRow /\ Shape(tx[c], clock) /\ tx[c].phase = "looking" /\ Hold(c, tx[c])
      /\ UNCHANGED <<rows, entities, answers, clock>> /\ ScopeOf(tx[c].request) \in Scope
  BY TxIs DEF Look
<1>2. ~tx[c].inserted /\ ~tx[c].released /\ ~tx[c].entity /\ tx[c].status # 200
  BY <1>1 DEF Shape
<1>3. CASE Fail(c)
  BY <1>1, <1>3, FailTurns
<1>4. ASSUME NEW row \in Seen(c),
             IF row.request # tx[c].request \/ row.by = None THEN Answers(c, 409, None)
             ELSE IF ~row.spoiled THEN Answers(c, 200, row.by)
             ELSE tx' = [tx EXCEPT ![c].phase = "invalidating",
                                   ![c].locked = IF Operation(c) \in LocksRow THEN {Mine(c)} ELSE {}]
      PROVE  \E r : Turns(c, r)
  <2>1. /\ row \in rows /\ ScopeOf(row.request) = Mine(c) /\ row \in Under(Mine(c))
        /\ row.by \in Client \cup {None}
    BY <1>4 DEF Seen, Under, KeyedInv, KeyedTypes, Row
  <2>2. CASE Answers(c, 409, None)
    <3>1. PICK r \in TxRow :
            /\ tx' = [tx EXCEPT ![c] = r]
            /\ r.phase = "committing" /\ r.status = 409
            /\ r.request = tx[c].request /\ r.deleted = tx[c].deleted /\ r.locked = tx[c].locked
            /\ r.now = tx[c].now /\ r.inserted = tx[c].inserted
            /\ r.released = tx[c].released /\ r.entity = tx[c].entity
      BY <2>2, AnswersRow
    <3>2. Shape(r, clock) /\ Claim(c, r) /\ Reply(c, r) /\ Creates(c, r) /\ Hold(c, r)
      BY <1>1, <1>2, <3>1 DEF Shape, Claim, Reply, Creates, Hold
    <3>3. Turns(c, r)
      BY <1>1, <3>1, <3>2 DEF Turns
    <3>4. QED  BY <3>3
  <2>3. CASE Answers(c, 200, row.by) /\ row.request = tx[c].request /\ row.by # None
    <3>1. PICK r \in TxRow :
            /\ tx' = [tx EXCEPT ![c] = r]
            /\ r.phase = "committing" /\ r.status = 200 /\ r.answer = row.by
            /\ r.request = tx[c].request /\ r.deleted = tx[c].deleted /\ r.locked = tx[c].locked
            /\ r.now = tx[c].now /\ r.inserted = tx[c].inserted
            /\ r.released = tx[c].released /\ r.entity = tx[c].entity
      BY <2>1, <2>3, AnswersRow
    <3>2. PICK x \in answers : x.row = row
      BY <2>1, <2>3 DEF KeyedInv, AnswersKept
    <3>3. Worked(row.by, row.request)
      BY <3>2 DEF KeyedInv, AnswersKept
    <3>4. Reply(c, r)
      BY <1>2, <2>3, <3>1, <3>2, <3>3 DEF Reply
    <3>5. Shape(r, clock) /\ Claim(c, r) /\ Creates(c, r) /\ Hold(c, r)
      BY <1>1, <1>2, <3>1 DEF Shape, Claim, Creates, Hold
    <3>6. Turns(c, r)
      BY <1>1, <3>1, <3>4, <3>5 DEF Turns
    <3>7. QED  BY <3>6
  <2>4. CASE /\ row.spoiled /\ row.request = tx[c].request /\ row.by # None
             /\ tx' = [tx EXCEPT ![c].phase = "invalidating",
                                 ![c].locked = IF Operation(c) \in LocksRow THEN {Mine(c)} ELSE {}]
    <3>1. PICK locks \in SUBSET Scope : locks = IF Operation(c) \in LocksRow THEN {Mine(c)} ELSE {}
      BY <1>1 DEF Mine
    <3>2. PICK r \in TxRow : r = [tx[c] EXCEPT !.phase = "invalidating", !.locked = locks]
      <4>1. "invalidating" \in KeyedPhases
        BY KeyedWords
      <4>2. ASSUME NEW q \in TxRow
            PROVE  [q EXCEPT !.phase = "invalidating", !.locked = locks] \in TxRow
        BY <4>1 DEF TxRow
      <4>3. QED  BY <1>1, <4>2, Zenon
    <3>3. tx' = [tx EXCEPT ![c] = r]
      BY <1>1, <2>4, <3>1, <3>2
    <3>4. /\ r.phase = "invalidating" /\ r.locked = locks /\ r.status = tx[c].status
          /\ r.request = tx[c].request /\ r.deleted = tx[c].deleted
          /\ r.now = tx[c].now /\ r.inserted = tx[c].inserted
          /\ r.released = tx[c].released /\ r.entity = tx[c].entity
      BY <1>1, <3>2 DEF TxRow
    <3>5. Shape(r, clock) /\ Claim(c, r) /\ Creates(c, r) /\ Reply(c, r)
      BY <1>1, <1>2, <3>4 DEF Shape, Claim, Creates, Reply
    <3>6. \A s \in locks : /\ s = Mine(c) /\ ~DeletedByOther(c, s)
                           /\ Under(s) # {} /\ \A old \in Under(s) : old.spoiled
      <4>1. ASSUME NEW s \in locks
            PROVE  s = Mine(c) /\ Operation(c) \in LocksRow
        BY <3>1
      <4>2. Operation(c) \in LocksRow => ~DeletedByOther(c, Mine(c))
        BY DEF Look, LockedByOther, DeletedByOther
      <4>3. \A old \in Under(Mine(c)) : old = row
        BY <2>1 DEF KeyedInv, OneRow, Under
      <4>4. QED  BY <2>1, <2>4, <4>1, <4>2, <4>3
    <3>7. Mine(c) \in locks \/ (Mine(c).operation \notin LocksRow /\ SpoiledUnder(Mine(c)))
      <4>1. PICK x \in answers : x.row = row
        BY <2>1, <2>4 DEF KeyedInv, AnswersKept
      <4>2. SpoiledUnder(Mine(c))
        BY <2>1, <2>4, <4>1 DEF SpoiledUnder
      <4>3. Mine(c).operation = Operation(c)
        BY DEF Mine, ScopeOf, Operation
      <4>4. QED  BY <3>1, <4>2, <4>3
    <3>8. Hold(c, r)
      <4>1. \A s \in r.deleted : ~DeletedByOther(c, s) /\ \A old \in Under(s) : Over(old)
        BY <1>1, <3>4 DEF Hold
      <4>2. QED  BY <3>4, <3>6, <3>7, <4>1 DEF Hold, Mine
    <3>9. Turns(c, r)
      BY <1>1, <3>3, <3>4, <3>5, <3>8 DEF Turns
    <3>10. QED  BY <3>9
  <2>5. QED  BY <1>4, <2>2, <2>3, <2>4
<1>5. QED  BY <1>3, <1>4 DEF Look

\* What is deleted was spoiled when it was looked up, or an answer of its key was.
LEMMA InvalidateTurns ==
  ASSUME KeyedInv, NEW c \in Asked, Invalidate(c)
  PROVE  \E r : Turns(c, r)
<1>1. /\ tx[c] \in TxRow /\ Shape(tx[c], clock) /\ tx[c].phase = "invalidating" /\ Hold(c, tx[c])
      /\ UNCHANGED <<rows, entities, answers, clock>> /\ ScopeOf(tx[c].request) \in Scope
  BY TxIs DEF Invalidate
<1>2. ~tx[c].inserted /\ ~tx[c].released /\ ~tx[c].entity /\ tx[c].status # 200
  BY <1>1 DEF Shape
<1>3. CASE Fail(c)
  BY <1>1, <1>3, FailTurns
<1>4. CASE /\ \E row \in Seen(c) : row.request = tx[c].request
           /\ tx' = [tx EXCEPT ![c].phase = "committing", ![c].deleted = @ \cup {Mine(c)}, ![c].status = 500]
  <2>1. PICK gone \in SUBSET Scope : gone = tx[c].deleted \cup {Mine(c)}
    BY <1>1 DEF TxRow, Mine
  <2>2. PICK r \in TxRow :
          /\ r = [tx[c] EXCEPT !.phase = "committing", !.deleted = gone, !.status = 500]
          /\ tx' = [tx EXCEPT ![c] = r]
    <3>1. PICK phase \in KeyedPhases, code \in Codes : phase = "committing" /\ code = 500
      BY KeyedWords
    <3>2. PICK r \in TxRow : r = [tx[c] EXCEPT !.phase = phase, !.deleted = gone, !.status = code]
      <4>1. ASSUME NEW q \in TxRow
            PROVE  [q EXCEPT !.phase = phase, !.deleted = gone, !.status = code] \in TxRow
        BY DEF TxRow
      <4>2. QED  BY <1>1, <4>1, Zenon
    <3>3. tx' = [tx EXCEPT ![c].phase = phase, ![c].deleted = gone, ![c].status = code]
      BY <1>4, <2>1, <3>1
    <3>4. tx' = [tx EXCEPT ![c] = r]
      BY <1>1, <3>2, <3>3, Zenon
    <3>5. QED  BY <3>1, <3>2, <3>4
  <2>3. tx' = [tx EXCEPT ![c] = r]
    BY <2>2
  <2>4. /\ r.phase = "committing" /\ r.deleted = gone /\ r.status = 500
        /\ r.request = tx[c].request /\ r.locked = tx[c].locked
        /\ r.now = tx[c].now /\ r.inserted = tx[c].inserted
        /\ r.released = tx[c].released /\ r.entity = tx[c].entity
    BY <1>1, <2>2 DEF TxRow
  <2>5. Shape(r, clock) /\ Claim(c, r) /\ Creates(c, r) /\ Reply(c, r)
    BY <1>1, <1>2, <2>4 DEF Shape, Claim, Creates, Reply
  <2>6. ~LockedByOther(c, Mine(c)) /\ ~DeletedByOther(c, Mine(c)) /\ Under(Mine(c)) # {}
    BY <1>4 DEF Invalidate, LockedByOther, DeletedByOther, Seen
  <2>7. \A row \in Under(Mine(c)) : Over(row)
    <3>1. CASE Mine(c) \in tx[c].locked
      BY <1>1, <3>1 DEF Hold, Over, MayGo
    <3>2. CASE Mine(c).operation \notin LocksRow /\ SpoiledUnder(Mine(c))
      <4>1. ASSUME NEW row \in Under(Mine(c))
            PROVE  ScopeOf(row.request) = Mine(c) /\ row.request.operation = Mine(c).operation
        BY DEF Under, ScopeOf
      <4>2. QED  BY <3>2, <4>1 DEF Over, MayGo
    <3>3. QED  BY <1>1, <3>1, <3>2 DEF Hold, Mine
  <2>8. Hold(c, r)
    <3>1. \A s \in gone \cup r.locked : ~DeletedByOther(c, s)
      BY <1>1, <2>1, <2>4, <2>6 DEF Hold
    <3>2. \A s \in gone : \A row \in Under(s) : Over(row)
      BY <1>1, <2>1, <2>7 DEF Hold
    <3>3. \A s \in r.locked : Under(s) # {} /\ \A row \in Under(s) : row.spoiled
      BY <1>1, <2>4 DEF Hold
    <3>4. QED  BY <2>4, <3>1, <3>2, <3>3 DEF Hold
  <2>9. Turns(c, r)
    BY <1>1, <2>1, <2>3, <2>4, <2>5, <2>6, <2>8 DEF Turns
  <2>10. QED  BY <2>9
<1>5. QED  BY <1>3, <1>4 DEF Invalidate

\* A call that has nothing to store gives its claim back with the transaction.
LEMMA ReleaseTurns ==
  ASSUME KeyedInv, NEW c \in Asked, tx[c].phase = "claimed", NEW code \in {409, 500},
         tx' = [tx EXCEPT ![c].phase = "committing", ![c].released = TRUE, ![c].status = code],
         UNCHANGED <<rows, entities, answers, clock>>
  PROVE  \E r : Turns(c, r)
<1>1. /\ tx[c] \in TxRow /\ Shape(tx[c], clock) /\ Hold(c, tx[c]) /\ Claim(c, tx[c])
      /\ tx \in [Asked -> TxRow]
  BY TxIs
<1>2. PICK r \in TxRow : r = [tx[c] EXCEPT !.phase = "committing", !.released = TRUE, !.status = code]
  <2>1. "committing" \in KeyedPhases /\ code \in Codes /\ tx[c] \in TxRow
    BY <1>1, KeyedWords
  <2>2. [tx[c] EXCEPT !.phase = "committing", !.released = TRUE, !.status = code] \in TxRow
    BY <2>1 DEF TxRow
  <2>3. QED  BY <2>2, Zenon
<1>3. tx' = [tx EXCEPT ![c] = r]
  BY <1>1, <1>2 DEF Asked
<1>4. /\ r.phase = "committing" /\ r.released /\ r.status = code
      /\ r.request = tx[c].request /\ r.deleted = tx[c].deleted /\ r.locked = tx[c].locked
      /\ r.now = tx[c].now /\ r.inserted = tx[c].inserted /\ r.until = tx[c].until
      /\ r.entity = tx[c].entity
  BY <1>1, <1>2 DEF TxRow
<1>5. ~r.entity /\ r.status # 200
  BY <1>1, <1>4 DEF Shape
<1>6. Shape(r, clock) /\ Claim(c, r) /\ Reply(c, r) /\ Creates(c, r) /\ Hold(c, r)
  BY <1>1, <1>4, <1>5 DEF Shape, Claim, Reply, Creates, Hold
<1>7. Turns(c, r)
  BY <1>3, <1>4, <1>6 DEF Turns
<1>8. QED  BY <1>7

\* An answer that was worked out is stored with the commit.
LEMMA WorkedTurns ==
  ASSUME KeyedInv, NEW c \in Asked, tx[c].phase = "claimed", NEW by \in Client,
         Worked(by, tx[c].request), Answers(c, 200, by), UNCHANGED <<rows, entities, answers, clock>>
  PROVE  \E r : Turns(c, r)
<1>1. Shape(tx[c], clock) /\ Hold(c, tx[c]) /\ Claim(c, tx[c])
  BY TxIs
<1>2. tx[c].inserted /\ ~tx[c].released /\ ~tx[c].entity
  BY <1>1 DEF Shape
<1>3. PICK r \in TxRow :
        /\ tx' = [tx EXCEPT ![c] = r]
        /\ r.phase = "committing" /\ r.status = 200 /\ r.answer = by
        /\ r.request = tx[c].request /\ r.deleted = tx[c].deleted /\ r.locked = tx[c].locked
        /\ r.now = tx[c].now /\ r.inserted = tx[c].inserted /\ r.until = tx[c].until
        /\ r.released = tx[c].released /\ r.entity = tx[c].entity
  BY AnswersRow
<1>4. Shape(r, clock) /\ Claim(c, r) /\ Creates(c, r) /\ Hold(c, r)
  BY <1>1, <1>2, <1>3 DEF Shape, Claim, Creates, Hold
<1>5. Reply(c, r)
  BY <1>2, <1>3, KeyedConstants DEF Reply
<1>6. Turns(c, r)
  BY <1>3, <1>4, <1>5 DEF Turns
<1>7. QED  BY <1>6

\* A query or a claim pack is worked out for the caller himself, or gives its claim back.
LEMMA CompilesAnswerTurns ==
  ASSUME KeyedInv, NEW c \in Asked, CompilesAnswer(c)
  PROVE  \E r : Turns(c, r)
<1>1. c \in Client /\ tx[c].phase = "claimed" /\ UNCHANGED <<rows, entities, answers, clock>>
  BY DEF CompilesAnswer, OneTransaction, KeyedInv, KeyedTypes
<1>2. Worked(c, tx[c].request)
  BY DEF Worked, CompilesAnswer, Operation
<1>3. CASE Answers(c, 200, c)
  BY <1>1, <1>2, <1>3, WorkedTurns
<1>4. CASE tx' = [tx EXCEPT ![c].phase = "committing", ![c].released = TRUE, ![c].status = 409]
  BY <1>1, <1>4, ReleaseTurns, ZenonT(30)
<1>5. QED  BY <1>3, <1>4 DEF CompilesAnswer

\* A gap, a source or a document is created where nobody has one with its identities.
LEMMA CreatesEntityTurns ==
  ASSUME KeyedInv, NEW c \in Asked, CreatesEntity(c)
  PROVE  \E r : Turns(c, r)
<1>1. /\ tx[c] \in TxRow /\ Shape(tx[c], clock) /\ Hold(c, tx[c]) /\ Claim(c, tx[c])
      /\ tx \in [Asked -> TxRow] /\ c \in Client /\ c \in Client \cup {None}
      /\ tx[c].phase = "claimed" /\ UNCHANGED <<rows, entities, answers, clock>>
  BY TxIs DEF CreatesEntity, OneTransaction, KeyedInv, KeyedTypes
<1>2. PICK r \in TxRow :
        /\ r = [tx[c] EXCEPT !.phase = "committing", !.entity = TRUE, !.status = 200, !.answer = c]
        /\ tx' = [tx EXCEPT ![c] = r]
  <2>1. PICK phase \in KeyedPhases, code \in Codes : phase = "committing" /\ code = 200
    BY KeyedWords
  <2>2. PICK r \in TxRow : r = [tx[c] EXCEPT !.phase = phase, !.entity = TRUE, !.status = code, !.answer = c]
    <3>1. ASSUME NEW q \in TxRow
          PROVE  [q EXCEPT !.phase = phase, !.entity = TRUE, !.status = code, !.answer = c] \in TxRow
      BY <1>1 DEF TxRow
    <3>2. QED  BY <1>1, <3>1, Zenon
  <2>3. tx' = [tx EXCEPT ![c].phase = phase, ![c].entity = TRUE, ![c].status = code, ![c].answer = c]
    BY <1>1, <2>1 DEF CreatesEntity
  <2>4. tx' = [tx EXCEPT ![c] = r]
    BY <1>1, <2>2, <2>3, Zenon
  <2>5. QED  BY <2>1, <2>2, <2>4
<1>3. tx' = [tx EXCEPT ![c] = r]
  BY <1>2
<1>4. /\ r.phase = "committing" /\ r.entity /\ r.status = 200 /\ r.answer = c
      /\ r.request = tx[c].request /\ r.deleted = tx[c].deleted /\ r.locked = tx[c].locked
      /\ r.now = tx[c].now /\ r.inserted = tx[c].inserted /\ r.until = tx[c].until
      /\ r.released = tx[c].released
  BY <1>1, <1>2 DEF TxRow
<1>5. Shape(r, clock) /\ Claim(c, r) /\ Hold(c, r)
  BY <1>1, <1>4 DEF Shape, Claim, Hold
<1>6. Reply(c, r)
  BY <1>1, <1>4, KeyedConstants DEF Reply, Shape
<1>7. Creates(c, r)
  <2>1. \A e \in entities : ~SharesIdentity(e.request, r.request)
    BY <1>4 DEF CreatesEntity, Known
  <2>2. \A d \in Others(c) : tx[d].entity => ~SharesIdentity(r.request, tx[d].request)
    BY <1>4 DEF CreatesEntity, EntityWaits
  <2>3. QED  BY <2>1, <2>2 DEF Creates
<1>8. Turns(c, r)
  BY <1>1, <1>3, <1>4, <1>5, <1>6, <1>7 DEF Turns
<1>9. QED  BY <1>8

\* createOrReplayGap answers with the gap that has this content.
LEMMA FindsGapTurns ==
  ASSUME KeyedInv, NEW c \in Asked, FindsGap(c)
  PROVE  \E r : Turns(c, r)
<1>1. tx[c].phase = "claimed" /\ UNCHANGED <<rows, entities, answers, clock>>
  BY DEF FindsGap, OneTransaction
<1>2. PICK e \in entities :
        /\ e.request.content = tx[c].request.content
        /\ IF e.spoiled
           THEN tx' = [tx EXCEPT ![c].phase = "committing", ![c].released = TRUE, ![c].status = 500]
           ELSE Answers(c, 200, e.by)
  BY DEF FindsGap, Known
<1>3. CASE tx' = [tx EXCEPT ![c].phase = "committing", ![c].released = TRUE, ![c].status = 500]
  BY <1>1, <1>3, ReleaseTurns
<1>4. CASE Answers(c, 200, e.by)
  <2>1. e.by \in Asked /\ tx[e.by].request = e.request /\ e.by \in Client
    BY DEF KeyedInv, Aggregates, KeyedTypes, Entity
  <2>2. e.request.operation = "gap"
    BY <2>1 DEF KeyedInv, Shapes, Operation, FindsGap
  <2>3. Worked(e.by, tx[c].request)
    BY <1>2, <2>1, <2>2 DEF Worked
  <2>4. QED  BY <1>1, <1>4, <2>1, <2>3, WorkedTurns
<1>5. QED  BY <1>2, <1>3, <1>4

\* A source or a document that exists already under other content gives the claim back.
LEMMA FindsOtherEntityTurns ==
  ASSUME KeyedInv, NEW c \in Asked, FindsOtherEntity(c)
  PROVE  \E r : Turns(c, r)
BY ReleaseTurns DEF FindsOtherEntity, OneTransaction

\* The bundle's provider fails: what was committed stays, and its release is tried.
LEMMA LeavesTurns ==
  ASSUME KeyedInv, NEW c \in Asked, tx[c].phase = "outside", Goes(c, "releasing"),
         UNCHANGED <<rows, entities, answers, clock>>
  PROVE  \E r : Turns(c, r)
<1>1. tx[c] \in TxRow /\ Shape(tx[c], clock) /\ tx \in [Asked -> TxRow]
  BY TxIs
<1>2. PICK r \in TxRow : r = [tx[c] EXCEPT !.phase = "releasing"]
  <2>1. "releasing" \in KeyedPhases
    BY KeyedWords
  <2>2. ASSUME NEW q \in TxRow
        PROVE  [q EXCEPT !.phase = "releasing"] \in TxRow
    BY <2>1 DEF TxRow
  <2>3. QED  BY <1>1, <2>2, Zenon
<1>3. tx' = [tx EXCEPT ![c] = r]
  BY <1>1, <1>2 DEF Goes, Asked
<1>4. /\ r.phase = "releasing" /\ r.request = tx[c].request /\ r.deleted = tx[c].deleted
      /\ r.locked = tx[c].locked /\ r.now = tx[c].now /\ r.inserted = tx[c].inserted
      /\ r.released = tx[c].released /\ r.entity = tx[c].entity /\ r.status = tx[c].status
  BY <1>1, <1>2 DEF TxRow
<1>5. Shape(r, clock) /\ r.locked = {} /\ ~r.inserted /\ ~r.entity
  BY <1>1, <1>4 DEF Shape
<1>6. Reply(c, r)
  BY <1>1, <1>4 DEF Shape, Reply
<1>7. QED  BY <1>3, <1>4, <1>5, <1>6, IdleTurns

(***************************************************************************)
(* Steps that commit                                                       *)
(***************************************************************************)
\* A call gives up what it holds and changes the rows that nobody else deletes or locks.
Writes(c, r) ==
  /\ c \in Asked /\ r \in TxRow /\ tx' = [tx EXCEPT ![c] = r] /\ r.request = tx[c].request
  /\ clock' = clock /\ answers \subseteq answers' /\ entities \subseteq entities'
  /\ Shape(r, clock) /\ r.deleted = {} /\ r.locked = {} /\ ~r.inserted /\ ~r.entity
  /\ r.phase # "invalidating"
  /\ \A s \in Scope : Under(s)' # Under(s) => ~LockedByOther(c, s)
  /\ \A s \in Scope : InsertedByOther(c, s) /\ Under(s) = {} => Under(s)' = {}

\* What was over stays over.
LEMMA OverStays ==
  ASSUME clock' = clock, answers \subseteq answers'
  PROVE  /\ \A row : MayGo(row) => MayGo(row)'
         /\ \A row : Over(row) => Over(row)'
         /\ \A s : SpoiledUnder(s) => SpoiledUnder(s)'
<1>1. \A s : SpoiledUnder(s) => SpoiledUnder(s)'
  BY DEF SpoiledUnder
<1>2. QED  BY <1>1 DEF MayGo, Over

\* The others keep their claims and what they hold.
LEMMA WriteHolds ==
  ASSUME KeyedInv, NEW c, NEW r, Writes(c, r)
  PROVE  Claims' /\ Holds'
<1>1. /\ Asked' = Asked /\ tx' \in [Asked -> TxRow] /\ tx'[c] = r /\ c \in Asked
      /\ \A d \in Asked \ {c} : tx'[d] = tx[d]
  BY TxTurned DEF Writes, KeyedInv, KeyedTypes
<1>2. /\ \A d \in Asked : \A s : DeletedByOther(d, s)' <=>
           \E e \in Asked \ {d} : s \in tx'[e].deleted
      /\ \A d \in Asked : \A s : InsertedByOther(d, s)' <=>
           \E e \in Asked \ {d} : tx'[e].inserted /\ ScopeOf(tx'[e].request) = s
  BY <1>1 DEF DeletedByOther, InsertedByOther, Others, Mine
<1>3. /\ \A d \in Asked : \A s : DeletedByOther(d, s) <=>
           \E e \in Asked \ {d} : s \in tx[e].deleted
      /\ \A d \in Asked : \A s : InsertedByOther(d, s) <=>
           \E e \in Asked \ {d} : tx[e].inserted /\ ScopeOf(tx[e].request) = s
  BY DEF DeletedByOther, InsertedByOther, Others, Mine
<1>4. r.deleted = {} /\ r.locked = {} /\ ~r.inserted /\ r.phase # "invalidating"
  BY DEF Writes
<1>5. ASSUME NEW d \in Asked \ {c}
      PROVE  Claim(d, tx[d])' /\ Hold(d, tx[d])'
  <2>1. /\ tx'[d] = tx[d] /\ Claim(d, tx[d]) /\ Hold(d, tx[d]) /\ ScopeOf(tx[d].request) \in Scope
        /\ tx[d] \in TxRow
    BY <1>1, TxIs
  <2>2. /\ \A s : DeletedByOther(d, s)' => DeletedByOther(d, s)
        /\ \A s : InsertedByOther(d, s)' => InsertedByOther(d, s)
    BY <1>1, <1>2, <1>3, <1>4
  <2>3. \A s \in tx[d].deleted \cup tx[d].locked : s \in Scope /\ Under(s)' = Under(s)
    <3>1. \A s \in tx[d].deleted \cup tx[d].locked : s \in Scope /\ LockedByOther(c, s)
      BY <2>1 DEF LockedByOther, Others, TxRow
    <3>2. QED  BY <3>1 DEF Writes
  <2>4. /\ \A row : Over(row) => Over(row)'
        /\ \A s : SpoiledUnder(s) => SpoiledUnder(s)'
    BY OverStays DEF Writes
  <2>5. Hold(d, tx[d])'
    <3>1. \A s \in tx[d].deleted \cup tx[d].locked : ~DeletedByOther(d, s)'
      BY <2>1, <2>2 DEF Hold
    <3>2. \A s \in tx[d].deleted : \A row \in Under(s)' : Over(row)'
      BY <2>1, <2>3, <2>4 DEF Hold
    <3>3. \A s \in tx[d].locked : Under(s)' # {} /\ \A row \in Under(s)' : row.spoiled
      BY <2>1, <2>3 DEF Hold
    <3>4. QED  BY <2>1, <2>4, <3>1, <3>2, <3>3 DEF Hold
  <2>6. Claim(d, tx[d])'
    <3>1. ASSUME tx[d].inserted
          PROVE  LET s == ScopeOf(tx[d].request)
                 IN /\ ~InsertedByOther(d, s)' /\ ~DeletedByOther(d, s)'
                    /\ Under(s)' = {} \/ s \in tx[d].deleted
      <4> DEFINE s == ScopeOf(tx[d].request)
      <4>1. ~InsertedByOther(d, s)' /\ ~DeletedByOther(d, s)'
        BY <2>1, <2>2, <3>1 DEF Claim
      <4>2. InsertedByOther(c, s)
        BY <1>1, <1>3, <3>1
      <4>3. Under(s) = {} \/ s \in tx[d].deleted
        BY <2>1, <3>1 DEF Claim
      <4>4. Under(s) = {} => Under(s)' = {}
        BY <2>1, <4>2 DEF Writes
      <4>5. QED  BY <4>1, <4>3, <4>4
    <3>2. QED  BY <2>1, <3>1 DEF Claim
  <2>7. QED  BY <2>5, <2>6
<1>6. Claim(c, tx[c])' /\ Hold(c, tx[c])'
  BY <1>1, <1>4 DEF Claim, Hold
<1>7. QED  BY <1>1, <1>5, <1>6 DEF Claims, Holds

\* A step that commits keeps the invariant when it keeps the rows, the answers and the aggregates.
LEMMA WriteKeeps ==
  ASSUME KeyedInv, NEW c, NEW r, Writes(c, r),
         rows' \subseteq Row, entities' \subseteq Entity, answers' \subseteq Answer,
         OneRow', AnswersKept', Aggregates',
         r.status = 200 => Worked(r.answer, r.request)' /\ \E x \in answers' : x.row.by = r.answer
  PROVE  KeyedInv'
<1>1. /\ Asked' = Asked /\ tx' \in [Asked -> TxRow] /\ tx'[c] = r /\ c \in Asked
      /\ \A d \in Asked \ {c} : tx'[d] = tx[d]
  BY TxTurned DEF Writes, KeyedInv, KeyedTypes
<1>2. \A d \in Asked : tx'[d].request = tx[d].request
  BY <1>1 DEF Writes
<1>3. KeyedTypes'
  BY <1>1 DEF KeyedInv, KeyedTypes, Writes
<1>4. Shapes'
  <2>1. \A d \in Asked : Shape(tx'[d], clock)
    BY <1>1, TxIs DEF Writes
  <2>2. clock' = clock
    BY DEF Writes
  <2>3. QED  BY <1>1, <1>2, <2>1, <2>2 DEF KeyedInv, Shapes, Operation
<1>5. \A by, q : Worked(by, q) => Worked(by, q)'
  <2>1. \A e \in entities : \E f \in entities' : f.by = e.by /\ f.request = e.request
    BY DEF Writes
  <2>2. QED  BY <1>1, <1>2, <2>1, WorkStays
<1>6. Replies'
  <2>1. ASSUME NEW d \in Asked
        PROVE  Reply(d, tx[d])'
    <3>1. PICK q : q = tx'[d]
      OBVIOUS
    <3>2. CASE d = c
      <4>1. Reply(d, q)'
        BY <1>1, <3>1, <3>2 DEF Reply, Writes
      <4>2. QED  BY <3>1, <4>1 DEF Reply, Worked
    <3>3. CASE d # c
      <4>1. Reply(d, q)
        BY <1>1, <3>1, <3>3, TxIs
      <4>2. q.status = 200 /\ Worked(q.answer, q.request) => Worked(q.answer, q.request)'
        BY <1>5
      <4>3. answers \subseteq answers'
        BY DEF Writes
      <4>4. q.status = 200 => /\ Worked(q.answer, q.request)' \/ (q.entity /\ q.answer = d)
                              /\ q.inserted \/ \E x \in answers' : x.row.by = q.answer
                              /\ q.inserted => q.answer # None
        BY <4>1, <4>2, <4>3 DEF Reply
      <4>5. Reply(d, q)'
        BY <4>4 DEF Reply
      <4>6. QED  BY <3>1, <4>5 DEF Reply, Worked
    <3>4. QED  BY <3>2, <3>3
  <2>2. QED  BY <1>1, <2>1 DEF Replies
<1>7. QED  BY <1>3, <1>4, <1>6, WriteHolds DEF KeyedInv

\* The rows after a transaction: those it deleted had expired or been spoiled.
LEMMA AfterCommit ==
  ASSUME KeyedInv, NEW c \in Asked, NEW by \in Client \cup {None}, rows' = RowsAfter(c, by)
  PROVE  /\ rows' \subseteq Row /\ OneRow'
         /\ \A s \in Scope : Under(s)' # Under(s) => ~LockedByOther(c, s)
         /\ \A s \in Scope : InsertedByOther(c, s) /\ Under(s) = {} => Under(s)' = {}
         /\ \A row \in rows : row \in rows' \/ Over(row)
         /\ \A row \in rows' : row \in rows \/ (tx[c].inserted /\ ~tx[c].released /\ row = Stored(c, by))
         /\ tx[c].inserted /\ ~tx[c].released =>
              /\ Stored(c, by) \in rows'
              /\ \A row \in rows : ScopeOf(row.request) = Mine(c) => Over(row)
<1>1. /\ tx[c] \in TxRow /\ Shape(tx[c], clock) /\ Hold(c, tx[c]) /\ Claim(c, tx[c])
      /\ tx[c].request \in Sent
  BY TxIs
<1>2. tx[c].inserted => Stored(c, by) \in Row /\ ScopeOf(Stored(c, by).request) = Mine(c)
  <2>1. tx[c].inserted => tx[c].until \in KeyTTL..(Clock + KeyTTL)
    <3>1. tx[c].until \in 0..(Clock + KeyTTL)
      BY <1>1 DEF TxRow
    <3>2. QED  BY <1>1, <3>1, KeyedConstants DEF Shape
  <2>2. QED  BY <1>1, <2>1 DEF Stored, Row, Mine
<1>3. rows' \subseteq Row
  BY <1>2 DEF RowsAfter, KeyedInv, KeyedTypes
<1>4. \A row \in rows' : \/ row \in rows /\ ScopeOf(row.request) \notin tx[c].deleted
                         \/ tx[c].inserted /\ ~tx[c].released /\ row = Stored(c, by)
  BY DEF RowsAfter
<1>5. \A row \in rows : ScopeOf(row.request) \notin tx[c].deleted => row \in rows'
  BY DEF RowsAfter
<1>6. tx[c].inserted /\ ~tx[c].released => Stored(c, by) \in rows'
  BY DEF RowsAfter
<1>7. tx[c].inserted => \A row \in rows : ScopeOf(row.request) = Mine(c) => Mine(c) \in tx[c].deleted
  BY <1>1 DEF Claim, Under, Mine
<1>8. OneRow'
  BY <1>2, <1>4, <1>7 DEF OneRow, KeyedInv
<1>9. \A row \in rows : ScopeOf(row.request) \in tx[c].deleted => Over(row)
  BY <1>1 DEF Hold, Under
<1>10. ASSUME NEW s \in Scope, s \notin tx[c].deleted, ~tx[c].inserted \/ s # Mine(c)
       PROVE  Under(s)' = Under(s)
  BY <1>2, <1>4, <1>5, <1>10 DEF Under
<1>11. ASSUME NEW s \in tx[c].deleted
       PROVE  ~LockedByOther(c, s)
  <2>1. ASSUME NEW d \in Others(c), s \in tx[d].deleted \cup tx[d].locked
        PROVE  FALSE
    <3>1. d \in Asked /\ Hold(d, tx[d]) /\ c \in Others(d)
      BY TxIs DEF Others
    <3>2. QED  BY <2>1, <3>1 DEF Hold, DeletedByOther
  <2>2. QED  BY <2>1 DEF LockedByOther
<1>12. ASSUME tx[c].inserted
       PROVE  ~LockedByOther(c, Mine(c))
  <2>1. ASSUME NEW d \in Others(c), Mine(c) \in tx[d].deleted \cup tx[d].locked
        PROVE  FALSE
    <3>1. d \in Asked /\ Hold(d, tx[d]) /\ Mine(c) \notin tx[d].deleted
      BY <1>1, <1>12, TxIs DEF Claim, DeletedByOther, Others, Mine
    <3>2. Under(Mine(c)) # {}
      BY <2>1, <3>1 DEF Hold
    <3>3. Mine(c) \in tx[c].deleted
      BY <1>1, <1>12, <3>2 DEF Claim, Mine
    <3>4. QED  BY <2>1, <3>3, <1>11 DEF LockedByOther
  <2>2. QED  BY <2>1 DEF LockedByOther
<1>13. ASSUME NEW s \in Scope, InsertedByOther(c, s), Under(s) = {}
       PROVE  Under(s)' = {}
  <2>1. tx[c].inserted => s # Mine(c)
    BY <1>1, <1>13 DEF Claim, Mine
  <2>2. QED  BY <1>2, <1>4, <1>13, <2>1 DEF Under
<1>14. QED  BY <1>3, <1>4, <1>5, <1>6, <1>7, <1>8, <1>9, <1>10, <1>11, <1>12, <1>13

\* An answer that is stored when those before it were over keeps them apart.
LEMMA StoresApart ==
  ASSUME KeyedInv, NEW y, clock' = clock, answers' = answers \cup {y}, y.at = clock,
         \A x \in answers : ScopeOf(x.row.request) = ScopeOf(y.row.request) => Over(x.row)
  PROVE  \A x, z \in answers' : Apart(x, z)'
<1>1. /\ \A row : MayGo(row) => MayGo(row)'
      /\ \A row : Over(row) => Over(row)'
  BY OverStays
<1>2. \A x, z \in answers : Apart(x, z)'
  BY <1>1 DEF KeyedInv, AnswersKept, Apart
<1>3. \A x \in answers : Apart(x, y)' /\ Apart(y, x)'
  BY <1>1 DEF Over, Apart
<1>4. Apart(y, y)'
  BY DEF Apart
<1>5. QED  BY <1>2, <1>3, <1>4

\* What was kept is kept when the rows that went were over.
LEMMA KeepsKept ==
  ASSUME KeyedInv, clock' = clock, answers \subseteq answers',
         Asked' = Asked, \A d \in Asked : tx'[d].request = tx[d].request, entities \subseteq entities',
         \A x \in answers : x.row \in rows => x.row \in rows' \/ Over(x.row)
  PROVE  /\ \A x \in answers : Over(x.row)' \/ x.row \in rows'
         /\ \A x \in answers : Worked(x.row.by, x.row.request)'
         /\ \A row \in rows : row.by # None => \E x \in answers' : x.row = row
<1>1. \A x \in answers : Over(x.row)' \/ x.row \in rows'
  BY OverStays DEF KeyedInv, AnswersKept
<1>2. \A x \in answers : Worked(x.row.by, x.row.request)'
  BY WorkStays DEF KeyedInv, AnswersKept
<1>3. QED  BY <1>1, <1>2 DEF KeyedInv, AnswersKept

\* The row of the call after its end.
LEMMA EndedIs ==
  ASSUME KeyedInv, NEW c \in Asked, NEW phase \in {"outside", "ended"}, NEW code \in Codes,
         NEW by \in Client \cup {None}, NEW r, r = Ended(c, phase, code, by),
         phase = "outside" => Operation(c) = "bundle", code = 200 => phase = "ended"
  PROVE  /\ r \in TxRow /\ r.request = tx[c].request /\ r.phase = phase
         /\ r.status = code /\ r.answer = by /\ Shape(r, clock)
         /\ r.deleted = {} /\ r.locked = {} /\ ~r.inserted /\ ~r.released /\ ~r.entity
         /\ r.phase # "invalidating"
<1>1. /\ r \in TxRow /\ r.request = tx[c].request /\ r.phase = phase /\ r.status = code /\ r.answer = by
      /\ r.now = 0 /\ r.deleted = {} /\ r.locked = {} /\ ~r.inserted /\ ~r.released /\ ~r.entity
  BY EndedRow
<1>2. Shape(r, clock)
  BY <1>1, TxIs DEF Shape, Operation
<1>3. QED  BY <1>1, <1>2

\* CommitClaim: the bundle's claim becomes visible before its work.
LEMMA CommitClaimKeeps ==
  ASSUME KeyedInv, NEW c \in Asked, CommitClaim(c)
  PROVE  KeyedInv'
<1>1. /\ Operation(c) = "bundle" /\ rows' = RowsAfter(c, None)
      /\ UNCHANGED <<entities, answers, clock>> /\ None \in Client \cup {None} /\ 0 \in Codes
  BY KeyedWords DEF CommitClaim
<1>2. PICK r : r = Ended(c, "outside", 0, None)
  OBVIOUS
<1>3. /\ tx' = [tx EXCEPT ![c] = r] /\ r \in TxRow /\ r.request = tx[c].request
      /\ r.status = 0 /\ Shape(r, clock)
      /\ r.deleted = {} /\ r.locked = {} /\ ~r.inserted /\ ~r.entity /\ r.phase # "invalidating"
  <2>1. tx' = [tx EXCEPT ![c] = r]
    BY <1>2 DEF CommitClaim
  <2>2. QED  BY <1>1, <1>2, <2>1, EndedIs
<1>4. /\ rows' \subseteq Row /\ OneRow'
      /\ \A s \in Scope : Under(s)' # Under(s) => ~LockedByOther(c, s)
      /\ \A s \in Scope : InsertedByOther(c, s) /\ Under(s) = {} => Under(s)' = {}
      /\ \A row \in rows : row \in rows' \/ Over(row)
      /\ \A row \in rows' : row \in rows \/ row = Stored(c, None)
  BY <1>1, AfterCommit
<1>5. Writes(c, r)
  BY <1>1, <1>3, <1>4 DEF Writes
<1>6. /\ Asked' = Asked /\ tx'[c] = r /\ \A d \in Asked \ {c} : tx'[d] = tx[d]
      /\ \A d \in Asked : tx'[d].request = tx[d].request
  BY <1>3, TxTurned DEF KeyedInv, KeyedTypes
<1>7. AnswersKept'
  <2>1. /\ \A x \in answers : Over(x.row)' \/ x.row \in rows'
        /\ \A x \in answers : Worked(x.row.by, x.row.request)'
        /\ \A row \in rows : row.by # None => \E x \in answers' : x.row = row
    BY <1>1, <1>4, <1>6, KeepsKept
  <2>2. \A x, z \in answers : Apart(x, z)'
    BY <1>1, OverStays DEF KeyedInv, AnswersKept, Apart
  <2>3. \A row \in rows' : row.by # None => row \in rows
    BY <1>4 DEF Stored
  <2>4. QED  BY <1>1, <2>1, <2>2, <2>3 DEF AnswersKept
<1>8. Aggregates'
  <2>1. \A d \in Asked : tx'[d].entity => d # c /\ tx'[d] = tx[d] /\ Creates(d, tx[d])
    BY <1>3, <1>6, TxIs
  <2>2. \A d \in Asked : Creates(d, tx[d])'
    BY <1>1, <1>6, <2>1 DEF Creates, Others, SharesIdentity
  <2>3. QED  BY <1>1, <1>6, <2>2 DEF KeyedInv, Aggregates, SharesIdentity
<1>9. QED
  BY <1>1, <1>3, <1>4, <1>5, <1>7, <1>8, WriteKeeps DEF KeyedInv, KeyedTypes

\* Commit: the row, the answer and the aggregate appear together.
LEMMA StoresKeeps ==
  ASSUME KeyedInv, NEW c \in Asked, tx[c].phase = "committing", NEW r \in TxRow,
         tx' = [tx EXCEPT ![c] = r], r.request = tx[c].request, Shape(r, clock),
         r.deleted = {}, r.locked = {}, ~r.inserted, ~r.entity, r.phase # "invalidating",
         NEW by, by = tx[c].answer, NEW q, q = tx[c].request, NEW stored, stored = Stored(c, by),
         r.status = 200 => tx[c].status = 200 /\ r.answer = by,
         rows' = RowsAfter(c, by), answers' = answers \cup Logged(c), clock' = clock,
         entities' = entities \cup
           (IF tx[c].entity THEN {[request |-> tx[c].request, by |-> c, spoiled |-> FALSE]} ELSE {})
  PROVE  KeyedInv'
<1> DEFINE stores == tx[c].inserted /\ ~tx[c].released
           new == [request |-> tx[c].request, by |-> c, spoiled |-> FALSE]
           y == [row |-> stored, at |-> clock]
<1>1. /\ tx[c] \in TxRow /\ Shape(tx[c], clock) /\ Reply(c, tx[c]) /\ Creates(c, tx[c])
      /\ clock \in 0..Clock /\ q \in Sent
      /\ by \in Client \cup {None}
  BY TxIs DEF TxRow
<1>2. /\ rows' \subseteq Row /\ OneRow'
      /\ \A s \in Scope : Under(s)' # Under(s) => ~LockedByOther(c, s)
      /\ \A s \in Scope : InsertedByOther(c, s) /\ Under(s) = {} => Under(s)' = {}
      /\ \A row \in rows : row \in rows' \/ Over(row)
      /\ \A row \in rows' : row \in rows \/ (stores /\ row = stored)
      /\ stores => /\ stored \in rows'
                   /\ \A row \in rows : ScopeOf(row.request) = Mine(c) => Over(row)
  BY <1>1, AfterCommit
<1>3. /\ Asked' = Asked /\ tx'[c] = r /\ \A d \in Asked \ {c} : tx'[d] = tx[d]
      /\ \A d \in Asked : tx'[d].request = tx[d].request
  <2>1. tx \in [Asked -> TxRow]
    BY DEF KeyedInv, KeyedTypes
  <2>2. r.request = tx[c].request
    OBVIOUS
  <2>3. QED  BY <2>1, <2>2, TxMoved
<1>4. answers' = IF stores THEN answers \cup {y} ELSE answers
  BY DEF Logged, StoredNow
<1>5. entities' = IF tx[c].entity THEN entities \cup {new} ELSE entities
  OBVIOUS
<1>6. Writes(c, r)
  BY <1>2, <1>4, <1>5 DEF Writes
<1>7. entities' \subseteq Entity
  <2>1. new \in Entity
    BY <1>1 DEF Entity, KeyedInv, KeyedTypes
  <2>2. QED  BY <1>5, <2>1 DEF KeyedInv, KeyedTypes
<1>8. tx[c].status = 200 => Worked(by, q)'
  <2>1. CASE Worked(by, q)
    BY <1>3, <1>5, <2>1, WorkStays
  <2>2. CASE tx[c].entity /\ by = c
    <3>1. new \in entities'
      BY <1>5, <2>2
    <3>2. new.by = by /\ new.request = q /\ by \in Asked' /\ tx'[by].request = q
      BY <1>3, <2>2
    <3>3. QED  BY <3>1, <3>2 DEF Worked
  <2>3. tx[c].status = 200 => Worked(by, q) \/ (tx[c].entity /\ by = c)
    BY <1>1 DEF Reply
  <2>4. QED  BY <2>1, <2>2, <2>3, Zenon
<1>9. stores => /\ tx[c].status = 200 /\ y \in Answer
                /\ y.row.by = by /\ y.row.request = q
                /\ ScopeOf(y.row.request) = Mine(c) /\ y.at = clock
  <2>1. stores => tx[c].status = 200 /\ stored \in Row
    BY <1>1, <1>2 DEF Shape
  <2>2. QED  BY <1>1, <2>1 DEF Answer, Stored, Mine
<1>10. answers' \subseteq Answer
  BY <1>4, <1>9 DEF KeyedInv, KeyedTypes
<1>11. r.status = 200 => Worked(r.answer, r.request)' /\ \E x \in answers' : x.row.by = r.answer
  <2>1. ASSUME r.status = 200
        PROVE  \E x \in answers' : x.row.by = r.answer
    <3>1. CASE stores
      BY <1>4, <1>9, <2>1, <3>1
    <3>2. CASE ~stores
      <4>1. ~tx[c].inserted
        BY <1>1, <2>1, <3>2 DEF Shape
      <4>2. QED  BY <1>1, <1>4, <2>1, <3>2, <4>1 DEF Reply
    <3>3. QED  BY <3>1, <3>2
  <2>2. QED  BY <1>8, <2>1
<1>12. AnswersKept'
  <2>1. /\ \A x \in answers : Over(x.row)' \/ x.row \in rows'
        /\ \A x \in answers : Worked(x.row.by, x.row.request)'
        /\ \A row \in rows : row.by # None => \E x \in answers' : x.row = row
    BY <1>2, <1>3, <1>4, <1>5, KeepsKept
  <2>2. \A x, z \in answers' : Apart(x, z)'
    <3>1. CASE stores
      <4>1. \A x \in answers : ScopeOf(x.row.request) = ScopeOf(y.row.request) => Over(x.row)
        BY <1>2, <1>9, <3>1 DEF KeyedInv, AnswersKept
      <4>2. answers' = answers \cup {y} /\ y.at = clock
        BY <1>4, <1>9, <3>1
      <4> HIDE DEF y
      <4>3. QED  BY <4>1, <4>2, StoresApart
    <3>2. CASE ~stores
      BY <1>4, <3>2, OverStays DEF KeyedInv, AnswersKept, Apart
    <3>3. QED  BY <3>1, <3>2
  <2>3. stores => /\ y.row \in rows' /\ y \in answers' /\ y.row = stored
                  /\ y.row.by = by /\ y.row.request = q /\ Worked(by, q)'
    BY <1>2, <1>4, <1>8, <1>9
  <2> HIDE DEF y
  <2>4. \A x \in answers' : x \in answers \/ (stores /\ x = y)
    BY <1>4
  <2>5. \A x \in answers' : Over(x.row)' \/ x.row \in rows'
    BY <2>1, <2>3, <2>4
  <2>6. \A x \in answers' : Worked(x.row.by, x.row.request)'
    BY <2>1, <2>3, <2>4
  <2>7. \A row \in rows' : row.by # None => \E x \in answers' : x.row = row
    BY <1>2, <2>1, <2>3
  <2>8. QED  BY <2>2, <2>5, <2>6, <2>7 DEF AnswersKept
<1>13. Aggregates'
  <2>1. \A e \in entities' : e \in entities \/ (tx[c].entity /\ e = new)
    BY <1>5
  <2>2. \A e \in entities' : e.by \in Asked /\ tx'[e.by].request = e.request
    BY <1>3, <2>1 DEF KeyedInv, Aggregates
  <2>3. \A e, f \in entities' : e # f => ~SharesIdentity(e.request, f.request)
    <3>1. tx[c].entity => \A e \in entities : /\ ~SharesIdentity(e.request, new.request)
                                              /\ ~SharesIdentity(new.request, e.request)
      BY <1>1 DEF Creates, SharesIdentity
    <3>2. QED  BY <2>1, <3>1 DEF KeyedInv, Aggregates
  <2>4. ASSUME NEW d \in Asked, tx'[d].entity
        PROVE  /\ \A e \in entities' : ~SharesIdentity(e.request, tx'[d].request)
               /\ \A e \in Asked \ {d} : tx'[e].entity => ~SharesIdentity(tx'[d].request, tx'[e].request)
    <3>1. d # c /\ tx'[d] = tx[d] /\ Creates(d, tx[d])
      BY <1>3, <2>4, TxIs
    <3>2. tx[c].entity => ~SharesIdentity(new.request, tx[d].request)
      BY <1>1, <2>4, <3>1 DEF Creates, Others
    <3>3. QED  BY <1>3, <2>1, <2>4, <3>1, <3>2 DEF Creates, Others
  <2>5. \A d \in Asked : Creates(d, tx[d])'
    BY <1>3, <2>4 DEF Creates, Others, SharesIdentity
  <2>6. QED  BY <1>3, <2>2, <2>3, <2>5 DEF Aggregates, SharesIdentity
<1>14. QED  BY <1>2, <1>6, <1>7, <1>10, <1>11, <1>12, <1>13, WriteKeeps

\* A commit makes what the transaction deleted, claimed and created visible at once.
LEMMA CommitKeeps ==
  ASSUME KeyedInv, NEW c \in Asked, Commit(c)
  PROVE  KeyedInv'
<1>1. /\ tx[c] \in TxRow /\ Shape(tx[c], clock) /\ tx[c].phase = "committing" /\ clock' = clock
      /\ tx[c].status \in Codes /\ tx[c].answer \in Client \cup {None}
      /\ None \in Client \cup {None} /\ 500 \in Codes
  BY TxIs, KeyedWords DEF Commit, TxRow
<1>2. CASE RollsBack(c)
  <2>1. tx[c].status # 200
    BY <1>1, <1>2 DEF RollsBack, Shape
  <2>2. PICK r : r = Ended(c, "ended", tx[c].status, None)
    OBVIOUS
  <2>3. tx' = [tx EXCEPT ![c] = r] /\ UNCHANGED <<rows, entities, answers, clock>>
    BY <1>1, <1>2, <2>2 DEF Commit
  <2>4. /\ r \in TxRow /\ r.request = tx[c].request /\ r.status = tx[c].status /\ Shape(r, clock)
        /\ r.deleted = {} /\ r.locked = {} /\ ~r.inserted /\ ~r.entity /\ r.phase # "invalidating"
    BY <1>1, <2>2, EndedIs
  <2>5. Reply(c, r)
    BY <2>1, <2>4 DEF Reply
  <2>6. Turns(c, r)
    BY <2>3, <2>4, <2>5, IdleTurns
  <2>7. QED  BY <2>6, TurnKeeps
<1>3. CASE ~RollsBack(c)
  <2>1. PICK r : /\ tx' = [tx EXCEPT ![c] = r]
                 /\ r = Ended(c, "ended", tx[c].status, tx[c].answer) \/ r = Ended(c, "ended", 500, None)
    BY <1>3 DEF Commit, Fail
  <2>2. /\ r \in TxRow /\ r.request = tx[c].request /\ Shape(r, clock)
        /\ r.deleted = {} /\ r.locked = {} /\ ~r.inserted /\ ~r.entity /\ r.phase # "invalidating"
        /\ r.status = 200 => tx[c].status = 200 /\ r.answer = tx[c].answer
    <3>1. CASE r = Ended(c, "ended", tx[c].status, tx[c].answer)
      BY <1>1, <3>1, EndedIs
    <3>2. CASE r = Ended(c, "ended", 500, None)
      BY <1>1, <3>2, EndedIs
    <3>3. QED  BY <2>1, <3>1, <3>2
  <2>3. PICK by, q, stored : by = tx[c].answer /\ q = tx[c].request /\ stored = Stored(c, by)
    OBVIOUS
  <2>4. /\ rows' = RowsAfter(c, by) /\ answers' = answers \cup Logged(c)
        /\ entities' = entities \cup
             (IF tx[c].entity THEN {[request |-> tx[c].request, by |-> c, spoiled |-> FALSE]} ELSE {})
    BY <1>3, <2>3 DEF Commit
  <2>5. r.status = 200 => tx[c].status = 200 /\ r.answer = by
    BY <2>2, <2>3
  <2>6. tx' = [tx EXCEPT ![c] = r]
    BY <2>1
  <2>7. tx[c].phase = "committing" /\ clock' = clock
    BY <1>1
  <2>8. QED  BY <2>2, <2>3, <2>4, <2>5, <2>6, <2>7, StoresKeeps, ZenonT(60)
<1>4. QED  BY <1>2, <1>3

\* The bundle's second transaction turns a claim of its request into an answer.
LEMMA CompletesKeeps ==
  ASSUME KeyedInv, NEW c \in Asked, tx[c].phase = "outside", ~LockedByOther(c, Mine(c)),
         NEW row \in Processing(c), NEW done, done = [row EXCEPT !.by = c],
         rows' = (rows \ {row}) \cup {done}, answers' = answers \cup StoredNow(done),
         UNCHANGED <<entities, clock>>,
         NEW r \in TxRow, tx' = [tx EXCEPT ![c] = r], r.request = tx[c].request, Shape(r, clock),
         r.deleted = {}, r.locked = {}, ~r.inserted, ~r.entity, r.phase # "invalidating",
         r.status = 200 => r.answer = c
  PROVE  KeyedInv'
<1> DEFINE y == [row |-> done, at |-> clock]
<1>1. /\ row \in rows /\ row \in Row /\ row.by = None /\ row.request = tx[c].request
      /\ row \in Under(Mine(c)) /\ ScopeOf(row.request) = Mine(c)
  BY DEF Processing, Under, KeyedInv, KeyedTypes
<1>2. c \in Client /\ c # None /\ clock \in 0..Clock /\ tx[c].request.operation = "bundle"
  BY TxIs, KeyedConstants DEF KeyedInv, KeyedTypes, Shape
<1>3. done \in Row /\ done.by = c /\ done.request = row.request /\ ScopeOf(done.request) = Mine(c)
  BY <1>1, <1>2 DEF Row
<1>4. answers' = answers \cup {y} /\ y \in Answer /\ y.row = done /\ y.at = clock
  BY <1>2, <1>3 DEF StoredNow, Answer
<1> HIDE DEF y
<1>5. /\ Asked' = Asked /\ tx'[c] = r /\ \A d \in Asked \ {c} : tx'[d] = tx[d]
      /\ \A d \in Asked : tx'[d].request = tx[d].request
  BY TxTurned DEF KeyedInv, KeyedTypes
<1>6. \A s : s # Mine(c) => Under(s)' = Under(s)
  BY <1>1, <1>3 DEF Under
<1>7. Writes(c, r)
  BY <1>1, <1>4, <1>6 DEF Writes
<1>8. rows' \subseteq Row /\ OneRow'
  <2>1. \A old \in rows : ScopeOf(old.request) = Mine(c) => old = row
    BY <1>1 DEF KeyedInv, OneRow
  <2>2. QED  BY <1>3, <2>1 DEF KeyedInv, KeyedTypes, OneRow
<1>9. Worked(c, r.request)'
  <2>1. c \in Asked' /\ tx'[c].request = r.request /\ r.request.operation = "bundle"
    BY <1>2, <1>5
  <2>2. QED  BY <2>1 DEF Worked
<1>10. \A x \in answers : x.row # row
  BY <1>1, KeyedConstants DEF KeyedInv, AnswersKept, Worked, KeyedTypes
<1>11. AnswersKept'
  <2>1. /\ \A x \in answers : Over(x.row)' \/ x.row \in rows'
        /\ \A x \in answers : Worked(x.row.by, x.row.request)'
        /\ \A old \in rows : old.by # None => \E x \in answers' : x.row = old
    BY <1>4, <1>5, <1>10, KeepsKept
  <2>2. \A x \in answers : ScopeOf(x.row.request) = ScopeOf(y.row.request) => Over(x.row)
    <3>1. \A old \in rows : ScopeOf(old.request) = Mine(c) => old = row
      BY <1>1 DEF KeyedInv, OneRow
    <3>2. QED  BY <1>3, <1>4, <1>10, <3>1 DEF KeyedInv, AnswersKept
  <2>3. \A x, z \in answers' : Apart(x, z)'
    BY <1>4, <2>2, StoresApart
  <2>4. \A x \in answers' : Over(x.row)' \/ x.row \in rows'
    BY <1>4, <2>1
  <2>5. \A x \in answers' : Worked(x.row.by, x.row.request)'
    <3>1. done.by = c /\ done.request = r.request
      BY <1>1, <1>3
    <3>2. QED  BY <1>4, <1>9, <2>1, <3>1
  <2>6. \A old \in rows' : old.by # None => \E x \in answers' : x.row = old
    BY <1>4, <2>1
  <2>7. QED  BY <2>3, <2>4, <2>5, <2>6 DEF AnswersKept
<1>12. Aggregates'
  <2>1. \A d \in Asked : tx'[d].entity => d # c /\ tx'[d] = tx[d] /\ Creates(d, tx[d])
    BY <1>5, TxIs
  <2>2. \A d \in Asked : Creates(d, tx[d])'
    BY <1>5, <2>1 DEF Creates, Others, SharesIdentity
  <2>3. QED  BY <1>5, <2>2 DEF KeyedInv, Aggregates, SharesIdentity
<1>13. r.status = 200 => Worked(r.answer, r.request)' /\ \E x \in answers' : x.row.by = r.answer
  <2>1. \E x \in answers' : x.row.by = c
    BY <1>3, <1>4
  <2>2. QED  BY <1>9, <2>1
<1>14. answers' \subseteq Answer /\ entities' \subseteq Entity
  BY <1>4 DEF KeyedInv, KeyedTypes
<1>15. QED  BY <1>7, <1>8, <1>11, <1>12, <1>13, <1>14, WriteKeeps

\* A bundle completes its claim if it still stands, and fails otherwise.
LEMMA CompleteBundleKeeps ==
  ASSUME KeyedInv, NEW c \in Asked, CompleteBundle(c)
  PROVE  KeyedInv'
<1>1. /\ tx[c] \in TxRow /\ Shape(tx[c], clock) /\ tx[c].phase = "outside" /\ tx \in [Asked -> TxRow]
      /\ ~LockedByOther(c, Mine(c)) /\ UNCHANGED <<entities, clock>>
      /\ c \in Client \cup {None}
  BY TxIs DEF CompleteBundle, KeyedInv, KeyedTypes
<1>2. CASE Processing(c) = {}
  <2>1. Goes(c, "releasing") /\ UNCHANGED <<rows, entities, answers, clock>>
    BY <1>2 DEF CompleteBundle
  <2>2. PICK r : Turns(c, r)
    BY <1>1, <2>1, LeavesTurns
  <2>3. QED  BY <2>2, TurnKeeps
<1>3. CASE Processing(c) # {}
  <2>1. PICK row \in Processing(c) : /\ rows' = (rows \ {row}) \cup {[row EXCEPT !.by = c]}
                                     /\ answers' = answers \cup StoredNow([row EXCEPT !.by = c])
    BY <1>3 DEF CompleteBundle
  <2>2. PICK done : done = [row EXCEPT !.by = c]
    OBVIOUS
  <2>3. CASE tx' = [tx EXCEPT ![c].phase = "ended", ![c].status = 200, ![c].answer = c]
    <3>1. PICK r \in TxRow :
            /\ r = [tx[c] EXCEPT !.phase = "ended", !.status = 200, !.answer = c]
            /\ tx' = [tx EXCEPT ![c] = r]
      <4>1. PICK phase \in KeyedPhases, code \in Codes : phase = "ended" /\ code = 200
        BY KeyedWords
      <4>2. PICK r \in TxRow : r = [tx[c] EXCEPT !.phase = phase, !.status = code, !.answer = c]
        <5>1. ASSUME NEW q \in TxRow
              PROVE  [q EXCEPT !.phase = phase, !.status = code, !.answer = c] \in TxRow
          BY <1>1 DEF TxRow
        <5>2. QED  BY <1>1, <5>1, Zenon
      <4>3. tx' = [tx EXCEPT ![c].phase = phase, ![c].status = code, ![c].answer = c]
        BY <2>3, <4>1
      <4>4. tx' = [tx EXCEPT ![c] = r]
        BY <1>1, <4>2, <4>3, Zenon
      <4>5. QED  BY <4>1, <4>2, <4>4
    <3>2. tx' = [tx EXCEPT ![c] = r]
      BY <3>1
    <3>3. /\ r.phase = "ended" /\ r.status = 200 /\ r.answer = c
          /\ r.request = tx[c].request /\ r.deleted = tx[c].deleted /\ r.locked = tx[c].locked
          /\ r.now = tx[c].now /\ r.inserted = tx[c].inserted
          /\ r.released = tx[c].released /\ r.entity = tx[c].entity
      BY <1>1, <3>1 DEF TxRow
    <3>4. /\ Shape(r, clock) /\ r.deleted = {} /\ r.locked = {} /\ ~r.inserted /\ ~r.entity
          /\ r.phase # "invalidating"
      BY <1>1, <3>3 DEF Shape
    <3>5. QED  BY <1>1, <2>1, <2>2, <3>2, <3>3, <3>4, CompletesKeeps
  <2>4. CASE tx' = [tx EXCEPT ![c].phase = "releasing"]
    <3>1. PICK r \in TxRow : r = [tx[c] EXCEPT !.phase = "releasing"]
      <4>1. "releasing" \in KeyedPhases
        BY KeyedWords
      <4>2. ASSUME NEW q \in TxRow
            PROVE  [q EXCEPT !.phase = "releasing"] \in TxRow
        BY <4>1 DEF TxRow
      <4>3. QED  BY <1>1, <4>2, Zenon
    <3>2. tx' = [tx EXCEPT ![c] = r]
      BY <1>1, <2>4, <3>1 DEF Asked
    <3>3. /\ r.phase = "releasing" /\ r.status = tx[c].status
          /\ r.request = tx[c].request /\ r.deleted = tx[c].deleted /\ r.locked = tx[c].locked
          /\ r.now = tx[c].now /\ r.inserted = tx[c].inserted
          /\ r.released = tx[c].released /\ r.entity = tx[c].entity
      BY <1>1, <3>1 DEF TxRow
    <3>4. /\ Shape(r, clock) /\ r.deleted = {} /\ r.locked = {} /\ ~r.inserted /\ ~r.entity
          /\ r.phase # "invalidating" /\ r.status # 200
      BY <1>1, <3>3 DEF Shape
    <3>5. QED  BY <1>1, <2>1, <2>2, <3>2, <3>3, <3>4, CompletesKeeps
  <2>5. QED  BY <1>3, <2>3, <2>4 DEF CompleteBundle
<1>4. QED  BY <1>2, <1>3

\* The bundle's release deletes claims only, and never an answer.
LEMMA ReleaseKeeps ==
  ASSUME KeyedInv, NEW c \in Asked, Release(c)
  PROVE  KeyedInv'
<1>1. /\ tx[c] \in TxRow /\ Shape(tx[c], clock) /\ tx[c].phase = "releasing" /\ tx \in [Asked -> TxRow]
      /\ UNCHANGED <<entities, answers, clock>>
  BY TxIs DEF Release
<1>2. PICK r \in TxRow :
        /\ r = [tx[c] EXCEPT !.phase = "ended", !.status = 500]
        /\ tx' = [tx EXCEPT ![c] = r]
  <2>1. PICK phase \in KeyedPhases, code \in Codes : phase = "ended" /\ code = 500
    BY KeyedWords
  <2>2. PICK r \in TxRow : r = [tx[c] EXCEPT !.phase = phase, !.status = code]
    <3>1. ASSUME NEW q \in TxRow
          PROVE  [q EXCEPT !.phase = phase, !.status = code] \in TxRow
      BY DEF TxRow
    <3>2. QED  BY <1>1, <3>1, Zenon
  <2>3. tx' = [tx EXCEPT ![c].phase = phase, ![c].status = code]
    BY <1>1, <2>1 DEF Release
  <2>4. tx' = [tx EXCEPT ![c] = r]
    BY <1>1, <2>2, <2>3, Zenon
  <2>5. QED  BY <2>1, <2>2, <2>4
<1>3. tx' = [tx EXCEPT ![c] = r]
  BY <1>2
<1>4. /\ r.phase = "ended" /\ r.status = 500
      /\ r.request = tx[c].request /\ r.deleted = tx[c].deleted /\ r.locked = tx[c].locked
      /\ r.now = tx[c].now /\ r.inserted = tx[c].inserted
      /\ r.released = tx[c].released /\ r.entity = tx[c].entity
  BY <1>1, <1>2 DEF TxRow
<1>5. /\ Shape(r, clock) /\ r.deleted = {} /\ r.locked = {} /\ ~r.inserted /\ ~r.entity
      /\ r.phase # "invalidating" /\ r.status # 200
  BY <1>1, <1>4 DEF Shape
<1>6. CASE UNCHANGED rows
  <2>1. Reply(c, r)
    BY <1>5 DEF Reply
  <2>2. Turns(c, r)
    BY <1>1, <1>3, <1>4, <1>5, <1>6, <2>1, IdleTurns
  <2>3. QED  BY <2>2, TurnKeeps
<1>7. CASE ~LockedByOther(c, Mine(c)) /\ rows' = rows \ Processing(c)
  <2>1. /\ Asked' = Asked /\ tx'[c] = r /\ \A d \in Asked \ {c} : tx'[d] = tx[d]
        /\ \A d \in Asked : tx'[d].request = tx[d].request
    <3>1. tx \in [Asked -> TxRow]
      BY DEF KeyedInv, KeyedTypes
    <3>2. r.request = tx[c].request
      BY <1>4
    <3>3. QED  BY <1>3, <3>1, <3>2, TxMoved
  <2>2. /\ \A s : s # Mine(c) => Under(s)' = Under(s)
        /\ \A s : Under(s) = {} => Under(s)' = {}
    BY <1>7 DEF Under, Processing
  <2>3. Writes(c, r)
    BY <1>1, <1>3, <1>4, <1>5, <1>7, <2>2 DEF Writes
  <2>4. rows' \subseteq Row /\ OneRow'
    BY <1>7 DEF KeyedInv, KeyedTypes, OneRow
  <2>5. \A x \in answers : x.row.by # None
    BY KeyedConstants DEF KeyedInv, AnswersKept, Worked, KeyedTypes
  <2>6. AnswersKept'
    <3>1. \A x \in answers : x.row \in rows => x.row \in rows'
      BY <1>7, <2>5 DEF Processing
    <3>2. /\ \A x \in answers : Over(x.row)' \/ x.row \in rows'
          /\ \A x \in answers : Worked(x.row.by, x.row.request)'
          /\ \A row \in rows : row.by # None => \E x \in answers' : x.row = row
      BY <1>1, <2>1, <3>1, KeepsKept
    <3>3. \A x, z \in answers : Apart(x, z)'
      BY <1>1, OverStays DEF KeyedInv, AnswersKept, Apart
    <3>4. QED  BY <1>1, <1>7, <3>2, <3>3 DEF AnswersKept
  <2>7. Aggregates'
    <3>1. \A d \in Asked : tx'[d].entity => d # c /\ tx'[d] = tx[d] /\ Creates(d, tx[d])
      BY <1>5, <2>1, TxIs
    <3>2. \A d \in Asked : Creates(d, tx[d])'
      BY <1>1, <2>1, <3>1 DEF Creates, Others, SharesIdentity
    <3>3. QED  BY <1>1, <2>1, <3>2 DEF KeyedInv, Aggregates, SharesIdentity
  <2>8. QED  BY <1>1, <1>5, <2>3, <2>4, <2>6, <2>7, WriteKeeps DEF KeyedInv, KeyedTypes
<1>8. QED  BY <1>6, <1>7 DEF Release

(***************************************************************************)
(* The other steps, and the theorems                                       *)
(***************************************************************************)
\* An answer that is found spoiled stays where it is.
LEMMA SpoilKeeps ==
  ASSUME KeyedInv, NEW row \in rows, Spoil(row)
  PROVE  KeyedInv'
<1>1. PICK spoiled : spoiled = [row EXCEPT !.spoiled = TRUE]
  OBVIOUS
<1>2. /\ rows' = (rows \ {row}) \cup {spoiled}
      /\ answers' = {IF x.row = row THEN [x EXCEPT !.row = spoiled] ELSE x : x \in answers}
      /\ UNCHANGED <<tx, entities, clock>> /\ row.by # None /\ ~row.spoiled
  BY <1>1 DEF Spoil, Spoilable
<1>3. /\ row \in Row /\ spoiled \in Row /\ spoiled.spoiled /\ spoiled.request = row.request
      /\ spoiled.by = row.by /\ spoiled.until = row.until
  <2>1. row \in Row
    BY DEF KeyedInv, KeyedTypes
  <2>2. QED  BY <1>1, <2>1 DEF Row
<1>4. ASSUME NEW x \in answers
      PROVE  \E z \in answers' :
               /\ z.at = x.at /\ z.row.request = x.row.request /\ z.row.by = x.row.by
               /\ z.row.until = x.row.until /\ (x.row.spoiled => z.row.spoiled)
               /\ IF x.row = row THEN z.row = spoiled ELSE z = x
  <2>1. CASE x.row = row
    <3>1. [x EXCEPT !.row = spoiled] \in answers'
      BY <1>2, <2>1
    <3>2. x \in Answer
      BY DEF KeyedInv, KeyedTypes
    <3>3. /\ [x EXCEPT !.row = spoiled].row = spoiled
          /\ [x EXCEPT !.row = spoiled].at = x.at
      BY <3>2 DEF Answer
    <3>4. QED  BY <1>3, <2>1, <3>1, <3>3
  <2>2. CASE x.row # row
    <3>1. x \in answers'
      BY <1>2, <2>2
    <3>2. QED  BY <2>2, <3>1
  <2>3. QED  BY <2>1, <2>2
<1>5. ASSUME NEW z \in answers'
      PROVE  \/ z \in answers /\ z.row # row
             \/ \E x \in answers : x.row = row /\ z.row = spoiled /\ z.at = x.at
  <2>1. PICK x \in answers : z = IF x.row = row THEN [x EXCEPT !.row = spoiled] ELSE x
    BY <1>2
  <2>2. CASE x.row = row
    <3>1. x \in Answer
      BY DEF KeyedInv, KeyedTypes
    <3>2. z.row = spoiled /\ z.at = x.at
      BY <2>1, <2>2, <3>1 DEF Answer
    <3>3. QED  BY <2>2, <3>2
  <2>3. CASE x.row # row
    BY <2>1, <2>3
  <2>4. QED  BY <2>2, <2>3
<1>6. /\ \A s : SpoiledUnder(s) => SpoiledUnder(s)'
      /\ \A old : MayGo(old) => MayGo(old)'
      /\ \A old : Over(old) => Over(old)'
  <2>1. ASSUME NEW s, SpoiledUnder(s)
        PROVE  SpoiledUnder(s)'
    <3>1. PICK x \in answers : ScopeOf(x.row.request) = s /\ x.row.spoiled
      BY <2>1 DEF SpoiledUnder
    <3>2. PICK z \in answers' : z.row.request = x.row.request /\ z.row.spoiled
      BY <1>4, <3>1
    <3>3. QED  BY <3>1, <3>2 DEF SpoiledUnder
  <2>2. QED  BY <1>2, <2>1 DEF MayGo, Over
<1>7. MayGo(spoiled)' /\ Over(spoiled)'
  BY <1>3 DEF MayGo, Over
<1>8. ASSUME NEW s
      PROVE  /\ Under(s)' = {} <=> Under(s) = {}
             /\ \A old \in Under(s)' : old = spoiled \/ old \in Under(s)
  BY <1>2, <1>3 DEF Under
<1>9. KeyedTypes'
  <2>1. answers' \subseteq Answer
    <3>1. ASSUME NEW z \in answers'
          PROVE  z \in Answer
      <4>1. PICK x \in answers : z = IF x.row = row THEN [x EXCEPT !.row = spoiled] ELSE x
        BY <1>2
      <4>2. x \in Answer
        BY DEF KeyedInv, KeyedTypes
      <4>3. QED  BY <1>3, <4>1, <4>2 DEF Answer
    <3>2. QED  BY <3>1
  <2>2. rows' \subseteq Row
    BY <1>2, <1>3 DEF KeyedInv, KeyedTypes
  <2>3. QED  BY <1>2, <2>1, <2>2 DEF KeyedInv, KeyedTypes, Asked
<1>10. Asked' = Asked /\ tx' = tx /\ clock' = clock /\ entities' = entities
  BY <1>2 DEF Asked
<1>11. Shapes'
  BY <1>10 DEF KeyedInv, Shapes, Operation
<1>12. OneRow'
  BY <1>2, <1>3 DEF KeyedInv, OneRow
<1>13. /\ \A c, s : DeletedByOther(c, s)' <=> DeletedByOther(c, s)
       /\ \A c, s : InsertedByOther(c, s)' <=> InsertedByOther(c, s)
  BY <1>10 DEF DeletedByOther, InsertedByOther, Others, Mine
<1>14. Claims'
  <2>1. ASSUME NEW c \in Asked
        PROVE  Claim(c, tx[c])'
    BY <1>8, <1>10, <1>13, TxIs DEF Claim
  <2>2. QED  BY <1>10, <2>1 DEF Claims
<1>15. Holds'
  <2>1. ASSUME NEW c \in Asked
        PROVE  Hold(c, tx[c])'
    <3>1. Hold(c, tx[c])
      BY TxIs
    <3>2. \A s \in tx[c].deleted : \A old \in Under(s)' : Over(old)'
      BY <1>6, <1>7, <1>8, <3>1 DEF Hold
    <3>3. \A s \in tx[c].locked : Under(s)' # {} /\ \A old \in Under(s)' : old.spoiled
      BY <1>3, <1>8, <3>1 DEF Hold
    <3>4. QED  BY <1>6, <1>10, <1>13, <3>1, <3>2, <3>3 DEF Hold
  <2>2. QED  BY <1>10, <2>1 DEF Holds
<1>16. \A by, q : Worked(by, q) => Worked(by, q)'
  BY <1>10, WorkStays
<1>17. AnswersKept'
  <2>1. \A z \in answers' : Over(z.row)' \/ z.row \in rows'
    BY <1>2, <1>5, <1>6 DEF KeyedInv, AnswersKept
  <2>2. ASSUME NEW old \in rows', old.by # None
        PROVE  \E z \in answers' : z.row = old
    <3>1. CASE old = spoiled
      <4>1. PICK x \in answers : x.row = row
        BY <1>2 DEF KeyedInv, AnswersKept
      <4>2. QED  BY <1>4, <3>1, <4>1
    <3>2. CASE old \in rows /\ old # row
      <4>1. PICK x \in answers : x.row = old
        BY <2>2, <3>2 DEF KeyedInv, AnswersKept
      <4>2. QED  BY <1>4, <3>2, <4>1
    <3>3. QED  BY <1>2, <3>1, <3>2
  <2>3. \A z \in answers' : Worked(z.row.by, z.row.request)'
    <3>1. ASSUME NEW z \in answers'
          PROVE  Worked(z.row.by, z.row.request)
      BY <1>3, <1>5 DEF KeyedInv, AnswersKept
    <3>2. QED  BY <1>16, <3>1
  <2>4. ASSUME NEW w \in answers', NEW z \in answers'
        PROVE  Apart(w, z)'
    <3>1. CASE w.row = spoiled \/ z.row = spoiled
      BY <1>7, <3>1 DEF Apart
    <3>2. CASE w.row # spoiled /\ z.row # spoiled
      <4>1. w \in answers /\ z \in answers
        BY <1>5, <3>2
      <4>2. Apart(w, z)
        BY <4>1 DEF KeyedInv, AnswersKept
      <4>3. QED  BY <1>6, <4>2 DEF Apart
    <3>3. QED  BY <3>1, <3>2
  <2>5. QED  BY <2>1, <2>2, <2>3, <2>4 DEF AnswersKept
<1>18. Replies'
  <2>1. ASSUME NEW c \in Asked
        PROVE  Reply(c, tx[c])'
    <3>1. PICK q : q = tx[c]
      OBVIOUS
    <3>2. Reply(c, q)
      BY <3>1, TxIs
    <3>3. (\E x \in answers : x.row.by = q.answer) => \E z \in answers' : z.row.by = q.answer
      BY <1>4
    <3>4. q.status = 200 => /\ Worked(q.answer, q.request)' \/ (q.entity /\ q.answer = c)
                            /\ q.inserted \/ \E x \in answers' : x.row.by = q.answer
                            /\ q.inserted => q.answer # None
      BY <1>16, <3>2, <3>3 DEF Reply
    <3>5. Reply(c, q)'
      BY <3>4 DEF Reply
    <3>6. QED  BY <1>10, <3>1, <3>5 DEF Reply, Worked
  <2>2. QED  BY <1>10, <2>1 DEF Replies
<1>19. Aggregates'
  BY <1>10 DEF KeyedInv, Aggregates, Creates, Others, SharesIdentity
<1>20. QED  BY <1>9, <1>11, <1>12, <1>14, <1>15, <1>17, <1>18, <1>19 DEF KeyedInv

\* A gap whose stored response is found spoiled keeps its identities and its maker.
LEMMA SpoilGapKeeps ==
  ASSUME KeyedInv, NEW e \in entities, SpoilGap(e)
  PROVE  KeyedInv'
<1>1. PICK spoiled : spoiled = [e EXCEPT !.spoiled = TRUE]
  OBVIOUS
<1>2. entities' = (entities \ {e}) \cup {spoiled} /\ UNCHANGED <<tx, rows, answers, clock>>
  BY <1>1 DEF SpoilGap
<1>3. spoiled \in Entity /\ spoiled.by = e.by /\ spoiled.request = e.request
  <2>1. e \in Entity
    BY DEF KeyedInv, KeyedTypes
  <2>2. QED  BY <1>1, <2>1 DEF Entity
<1>4. Asked' = Asked /\ tx' = tx /\ rows' = rows /\ answers' = answers /\ clock' = clock
  BY <1>2 DEF Asked
<1>5. \A by, q : Worked(by, q) => Worked(by, q)'
  <2>1. \A f \in entities : \E g \in entities' : g.by = f.by /\ g.request = f.request
    BY <1>2, <1>3
  <2>2. QED  BY <1>4, <2>1, WorkStays
<1>6. KeyedTypes' /\ Shapes' /\ OneRow'
  BY <1>2, <1>3, <1>4 DEF KeyedInv, KeyedTypes, Shapes, Operation, OneRow
<1>7. Claims' /\ Holds'
  BY <1>4 DEF KeyedInv, Claims, Holds, Claim, Hold, Under, Over, MayGo, SpoiledUnder,
    DeletedByOther, InsertedByOther, Others, Mine
<1>8. AnswersKept'
  <2>1. /\ \A x, z \in answers : Apart(x, z)' <=> Apart(x, z)
        /\ \A row : Over(row)' <=> Over(row)
    BY <1>4 DEF Apart, Over, MayGo, SpoiledUnder
  <2>2. QED  BY <1>4, <1>5, <2>1 DEF KeyedInv, AnswersKept
<1>9. Replies'
  <2>1. ASSUME NEW c \in Asked
        PROVE  Reply(c, tx[c])'
    <3>1. PICK q : q = tx[c]
      OBVIOUS
    <3>2. Reply(c, q)
      BY <3>1, TxIs
    <3>3. Reply(c, q)'
      BY <1>4, <1>5, <3>2 DEF Reply
    <3>4. QED  BY <1>4, <3>1, <3>3 DEF Reply, Worked
  <2>2. QED  BY <1>4, <2>1 DEF Replies
<1>10. Aggregates'
  <2>1. \A f \in entities' : \E g \in entities : g.by = f.by /\ g.request = f.request
    BY <1>2, <1>3
  <2>2. \A f, g \in entities' : f # g => ~SharesIdentity(f.request, g.request)
    BY <1>2, <1>3 DEF KeyedInv, Aggregates
  <2>3. \A c \in Asked : Creates(c, tx[c])'
    <3>1. TAKE c \in Asked
    <3>2. Creates(c, tx[c])
      BY TxIs
    <3>3. QED  BY <1>4, <2>1, <3>2 DEF Creates, Others, SharesIdentity
  <2>4. QED  BY <1>4, <2>1, <2>2, <2>3 DEF KeyedInv, Aggregates, SharesIdentity
<1>11. QED  BY <1>6, <1>7, <1>8, <1>9, <1>10 DEF KeyedInv

\* Time passes, and more is over.
LEMMA TickKeeps ==
  ASSUME KeyedInv, TickClock
  PROVE  KeyedInv'
<1>1. /\ clock \in 0..Clock /\ clock' = clock + 1 /\ clock < Clock /\ Clock \in Nat /\ KeyTTL \in Nat
      /\ UNCHANGED <<tx, rows, entities, answers>> /\ Asked' = Asked
  BY KeyedConstants DEF TickClock, KeyedInv, KeyedTypes, Asked
<1>2. /\ \A row : MayGo(row)' <=> MayGo(row)
      /\ \A row \in Row : Over(row) => Over(row)'
  <2>1. \A row : MayGo(row)' <=> MayGo(row)
    BY <1>1 DEF MayGo, SpoiledUnder
  <2>2. \A row \in Row : row.until \in Nat
    BY <1>1 DEF Row
  <2>3. QED  BY <1>1, <2>1, <2>2 DEF Over
<1>3. KeyedTypes' /\ OneRow'
  BY <1>1 DEF KeyedInv, KeyedTypes, OneRow
<1>4. Shapes'
  <2>1. \A c \in Asked : Shape(tx[c], clock')
    <3>1. TAKE c \in Asked
    <3>2. Shape(tx[c], clock) /\ tx[c].now \in 0..Clock
      BY TxIs DEF TxRow
    <3>3. QED  BY <1>1, <3>2 DEF Shape
  <2>2. QED  BY <1>1, <2>1 DEF KeyedInv, Shapes, Operation
<1>5. \A by, q : Worked(by, q) => Worked(by, q)'
  BY <1>1, WorkStays
<1>6. Claims'
  BY <1>1 DEF KeyedInv, Claims, Claim, Under, DeletedByOther, InsertedByOther, Others, Mine
<1>7. Holds'
  <2>1. ASSUME NEW c \in Asked
        PROVE  Hold(c, tx[c])'
    <3>1. Hold(c, tx[c])
      BY TxIs
    <3>2. \A s : Under(s)' = Under(s) /\ Under(s) \subseteq Row
      BY <1>1 DEF Under, KeyedInv, KeyedTypes
    <3>3. /\ \A s : DeletedByOther(c, s)' <=> DeletedByOther(c, s)
          /\ \A s : SpoiledUnder(s)' <=> SpoiledUnder(s)
      BY <1>1 DEF DeletedByOther, Others, SpoiledUnder
    <3>4. QED  BY <1>1, <1>2, <3>1, <3>2, <3>3 DEF Hold
  <2>2. QED  BY <1>1, <2>1 DEF Holds
<1>8. AnswersKept'
  <2>1. \A x, z \in answers : Apart(x, z)' <=> Apart(x, z)
    BY <1>1, <1>2 DEF Apart
  <2>2. \A x \in answers : x.row \in Row
    BY DEF KeyedInv, KeyedTypes, Answer
  <2>3. QED  BY <1>1, <1>2, <1>5, <2>1, <2>2 DEF KeyedInv, AnswersKept
<1>9. Replies'
  <2>1. ASSUME NEW c \in Asked
        PROVE  Reply(c, tx[c])'
    <3>1. PICK q : q = tx[c]
      OBVIOUS
    <3>2. Reply(c, q)
      BY <3>1, TxIs
    <3>3. Reply(c, q)'
      BY <1>1, <1>5, <3>2 DEF Reply
    <3>4. QED  BY <1>1, <3>1, <3>3 DEF Reply, Worked
  <2>2. QED  BY <1>1, <2>1 DEF Replies
<1>10. Aggregates'
  BY <1>1 DEF KeyedInv, Aggregates, Creates, Others, SharesIdentity
<1>11. QED  BY <1>3, <1>4, <1>6, <1>7, <1>8, <1>9, <1>10 DEF KeyedInv

\* A call that comes holds nothing.
LEMMA AskKeeps ==
  ASSUME KeyedInv, NEW c \in Client, NEW q \in Sent, Ask(c, q)
  PROVE  KeyedInv'
<1>1. PICK r : r = [Start("deleting", q) EXCEPT !.now = clock]
  OBVIOUS
<1>2. /\ r \in TxRow /\ r.phase = "deleting" /\ r.request = q /\ r.now = clock
      /\ r.deleted = {} /\ r.locked = {} /\ ~r.inserted /\ ~r.released /\ ~r.entity /\ r.status = 0
  <2>1. "deleting" \in KeyedPhases
    BY KeyedWords
  <2>2. Start("deleting", q) \in TxRow /\ clock \in 0..Clock
    BY <2>1, StartRow DEF KeyedInv, KeyedTypes
  <2>3. /\ Start("deleting", q).phase = "deleting" /\ Start("deleting", q).request = q
        /\ Start("deleting", q).deleted = {} /\ Start("deleting", q).locked = {}
        /\ ~Start("deleting", q).inserted /\ ~Start("deleting", q).released
        /\ ~Start("deleting", q).entity /\ Start("deleting", q).status = 0
    BY DEF Start
  <2>4. PICK start \in TxRow : start = Start("deleting", q)
    BY <2>2, Zenon
  <2>5. r = [start EXCEPT !.now = clock]
    BY <1>1, <2>4
  <2>6. QED  BY <2>2, <2>3, <2>4, <2>5 DEF TxRow
<1>3. /\ c \notin Asked /\ \A d \in Asked : Operation(d) = q.operation
      /\ tx' = [d \in Asked \cup {c} |-> IF d = c THEN r ELSE tx[d]]
      /\ UNCHANGED <<rows, entities, answers, clock>>
  BY <1>1 DEF Ask
<1>4. /\ Asked' = Asked \cup {c} /\ tx'[c] = r /\ \A d \in Asked : tx'[d] = tx[d]
      /\ tx' \in [Asked' -> TxRow]
  BY <1>2, <1>3 DEF Asked, KeyedInv, KeyedTypes
<1>5. KeyedTypes' /\ OneRow'
  BY <1>3, <1>4 DEF KeyedInv, KeyedTypes, OneRow
<1>6. Shape(r, clock)
  <2>1. clock <= clock
    BY DEF KeyedInv, KeyedTypes
  <2>2. QED  BY <1>2, <2>1 DEF Shape
<1>7. Shapes'
  <2>1. \A d \in Asked' : Shape(tx'[d], clock)
    BY <1>4, <1>6, TxIs
  <2>2. \A d \in Asked' : tx'[d].request.operation = q.operation
    BY <1>2, <1>3, <1>4 DEF Operation
  <2>3. QED  BY <1>3, <2>1, <2>2 DEF Shapes, Operation
<1>8. \A by, p : Worked(by, p) => Worked(by, p)'
  BY <1>3, <1>4, WorkStays
<1>9. /\ \A d \in Asked : \A s : DeletedByOther(d, s)' <=> DeletedByOther(d, s)
      /\ \A d \in Asked : \A s : InsertedByOther(d, s)' <=> InsertedByOther(d, s)
  BY <1>2, <1>3, <1>4 DEF DeletedByOther, InsertedByOther, Others, Mine
<1>10. /\ \A s : Under(s)' = Under(s) /\ (SpoiledUnder(s)' <=> SpoiledUnder(s))
       /\ \A row : Over(row)' <=> Over(row)
  BY <1>3 DEF Under, SpoiledUnder, Over, MayGo
<1>11. Claims'
  <2>1. ASSUME NEW d \in Asked'
        PROVE  Claim(d, tx[d])'
    <3>1. CASE d = c
      BY <1>2, <1>4, <3>1 DEF Claim
    <3>2. CASE d \in Asked
      <4>1. tx'[d] = tx[d] /\ Claim(d, tx[d])
        BY <1>4, <3>2, TxIs
      <4>2. QED  BY <1>9, <1>10, <3>2, <4>1 DEF Claim
    <3>3. QED  BY <1>4, <3>1, <3>2
  <2>2. QED  BY <2>1 DEF Claims
<1>12. Holds'
  <2>1. ASSUME NEW d \in Asked'
        PROVE  Hold(d, tx[d])'
    <3>1. CASE d = c
      BY <1>2, <1>4, <3>1 DEF Hold
    <3>2. CASE d \in Asked
      <4>1. tx'[d] = tx[d] /\ Hold(d, tx[d])
        BY <1>4, <3>2, TxIs
      <4>2. QED  BY <1>9, <1>10, <3>2, <4>1 DEF Hold
    <3>3. QED  BY <1>4, <3>1, <3>2
  <2>2. QED  BY <2>1 DEF Holds
<1>13. AnswersKept'
  <2>1. \A x, z \in answers : Apart(x, z)' <=> Apart(x, z)
    BY <1>3 DEF Apart, MayGo, SpoiledUnder
  <2>2. QED  BY <1>3, <1>8, <1>10, <2>1 DEF KeyedInv, AnswersKept
<1>14. Replies'
  <2>1. ASSUME NEW d \in Asked'
        PROVE  Reply(d, tx[d])'
    <3>1. PICK p : p = tx'[d]
      OBVIOUS
    <3>2. CASE d = c
      BY <1>2, <1>4, <3>2 DEF Reply
    <3>3. CASE d \in Asked
      <4>1. Reply(d, p)
        BY <1>4, <3>1, <3>3, TxIs
      <4>2. Reply(d, p)'
        BY <1>3, <1>8, <4>1 DEF Reply
      <4>3. QED  BY <3>1, <4>2 DEF Reply, Worked
    <3>4. QED  BY <1>4, <3>2, <3>3
  <2>2. QED  BY <2>1 DEF Replies
<1>15. Aggregates'
  <2>1. ASSUME NEW d \in Asked', tx'[d].entity
        PROVE  /\ \A e \in entities : ~SharesIdentity(e.request, tx'[d].request)
               /\ \A e \in Asked' \ {d} : tx'[e].entity => ~SharesIdentity(tx'[d].request, tx'[e].request)
    <3>1. d \in Asked /\ Creates(d, tx[d])
      BY <1>2, <1>4, <2>1, TxIs
    <3>2. QED  BY <1>2, <1>4, <2>1, <3>1 DEF Creates, Others
  <2>2. \A d \in Asked' : Creates(d, tx[d])'
    BY <1>3, <2>1 DEF Creates, Others, SharesIdentity
  <2>3. QED  BY <1>3, <1>4, <2>2 DEF KeyedInv, Aggregates, SharesIdentity
<1>16. QED  BY <1>5, <1>7, <1>11, <1>12, <1>13, <1>14, <1>15 DEF KeyedInv

\* Nobody has asked yet, and nothing is kept.
LEMMA KeyedInitially == KeyedInit => KeyedInv
<1> SUFFICES ASSUME KeyedInit
             PROVE  KeyedInv
  OBVIOUS
<1>1. Asked = {} /\ rows = {} /\ entities = {} /\ answers = {} /\ clock = 0
  BY DEF KeyedInit, Asked
<1>2. tx \in [Asked -> TxRow]
  BY <1>1 DEF KeyedInit, Asked
<1>3. 0 \in 0..Clock
  BY KeyedConstants
<1>4. QED
  BY <1>1, <1>2, <1>3 DEF KeyedInv, KeyedTypes, Shapes, OneRow, Claims, Holds, AnswersKept, Replies, Aggregates

\* Every step keeps the invariant, one lemma for each action.
LEMMA KeyedStep == KeyedInv /\ [KeyedNext]_keyedVars => KeyedInv'
<1> SUFFICES ASSUME KeyedInv, [KeyedNext]_keyedVars
             PROVE  KeyedInv'
  OBVIOUS
<1>1. CASE TickClock
  BY <1>1, TickKeeps
<1>2. CASE \E row \in rows : Spoil(row)
  BY <1>2, SpoilKeeps
<1>3. CASE \E e \in entities : SpoilGap(e)
  BY <1>3, SpoilGapKeeps
<1>4. CASE \E c \in Client, r \in Sent : Ask(c, r)
  BY <1>4, AskKeeps
<1>5. ASSUME NEW c \in Asked, DeleteExpired(c)
      PROVE  KeyedInv'
  BY <1>5, DeleteExpiredTurns, TurnKeeps
<1>6. ASSUME NEW c \in Asked, InsertClaim(c)
      PROVE  KeyedInv'
  BY <1>6, InsertClaimTurns, TurnKeeps
<1>7. ASSUME NEW c \in Asked, Look(c)
      PROVE  KeyedInv'
  BY <1>7, LookTurns, TurnKeeps
<1>8. ASSUME NEW c \in Asked, Invalidate(c)
      PROVE  KeyedInv'
  BY <1>8, InvalidateTurns, TurnKeeps
<1>9. ASSUME NEW c \in Asked, CompilesAnswer(c)
      PROVE  KeyedInv'
  BY <1>9, CompilesAnswerTurns, TurnKeeps
<1>10. ASSUME NEW c \in Asked, CreatesEntity(c)
       PROVE  KeyedInv'
  BY <1>10, CreatesEntityTurns, TurnKeeps
<1>11. ASSUME NEW c \in Asked, FindsGap(c)
       PROVE  KeyedInv'
  BY <1>11, FindsGapTurns, TurnKeeps
<1>12. ASSUME NEW c \in Asked, FindsOtherEntity(c)
       PROVE  KeyedInv'
  BY <1>12, FindsOtherEntityTurns, TurnKeeps
<1>13. ASSUME NEW c \in Asked, Commit(c)
       PROVE  KeyedInv'
  BY <1>13, CommitKeeps
<1>14. ASSUME NEW c \in Asked, CommitClaim(c)
       PROVE  KeyedInv'
  BY <1>14, CommitClaimKeeps
<1>15. ASSUME NEW c \in Asked, CompleteBundle(c)
       PROVE  KeyedInv'
  BY <1>15, CompleteBundleKeeps
<1>16. ASSUME NEW c \in Asked, Release(c)
       PROVE  KeyedInv'
  BY <1>16, ReleaseKeeps
<1>17. ASSUME NEW c \in Asked, ProviderFails(c)
       PROVE  KeyedInv'
  BY <1>17, LeavesTurns, TurnKeeps DEF ProviderFails
<1>18. ASSUME NEW c \in Asked, Rollback(c) \/ CrashOutside(c)
       PROVE  KeyedInv'
  BY <1>18, FailTurns, TurnKeeps DEF Rollback, CrashOutside
<1>19. CASE UNCHANGED keyedVars
  <2>1. UNCHANGED <<tx, rows, entities, answers, clock>> /\ Asked' = Asked
    BY <1>19 DEF keyedVars, Asked
  <2>2. KeyedTypes' /\ Shapes' /\ OneRow' /\ Claims'
    BY <2>1 DEF KeyedInv, KeyedTypes, Shapes, OneRow, Claims, Claim, Operation, Under, DeletedByOther,
      InsertedByOther, Others, Mine
  <2>3. Holds' /\ AnswersKept' /\ Replies' /\ Aggregates'
    BY <2>1 DEF KeyedInv, Holds, AnswersKept, Replies, Aggregates, Hold, Over, MayGo, SpoiledUnder, Apart,
      Worked, Reply, Creates, SharesIdentity, Under, DeletedByOther, Others
  <2>4. QED  BY <2>2, <2>3 DEF KeyedInv
<1>20. QED
  BY <1>1, <1>2, <1>3, <1>4, <1>5, <1>6, <1>7, <1>8, <1>9, <1>10, <1>11, <1>12, <1>13, <1>14, <1>15,
    <1>16, <1>17, <1>18, <1>19 DEF KeyedNext, Serve

\* The inductive invariant of the keyed answers: what transactions hold of the key rows,
\* which answers are kept, and what a caller is told.
THEOREM KeyedInvariant == KeyedSpec => []KeyedInv
<1>1. KeyedInit => KeyedInv
  BY KeyedInitially
<1>2. KeyedInv /\ [KeyedNext]_keyedVars => KeyedInv'
  BY KeyedStep
<1>3. QED  BY <1>1, <1>2, PTL DEF KeyedSpec

\* The transactions, the key rows and the answers are of their types: the phases the services
\* go through, the scopes they lock and the codes they answer.
THEOREM KeyedTyped == KeyedSpec => []KeyedTypeOK
<1>1. KeyedInv => KeyedTypeOK
  <2> SUFFICES ASSUME KeyedInv
               PROVE  KeyedTypeOK
    OBVIOUS
  <2>1. ASSUME NEW c \in Asked
        PROVE  /\ tx[c].phase \in {"deleting", "inserting", "looking", "invalidating", "claimed",
                                   "committing", "outside", "releasing", "ended"}
               /\ tx[c].request \in Sent
               /\ tx[c].deleted \subseteq Scope /\ tx[c].locked \subseteq Scope
               /\ tx[c].status \in {0, 200, 409, 500} /\ tx[c].answer \in Client \cup {None}
    BY TxIs DEF TxRow, KeyedPhases, Codes
  <2>2. QED  BY <2>1 DEF KeyedInv, KeyedTypes, KeyedTypeOK
<1>2. QED  BY <1>1, KeyedInvariant, PTL

\* Under one key and one content a caller gets one answer while it is kept, the answer he gets was
\* worked out for his request and committed, and no two gaps, sources or documents share an
\* identity: the idempotency the services promise (KeysHold).
THEOREM Keys == KeyedSpec => []KeysHold
<1>1. KeyedInv => OneAnswerPerKey
  <2> SUFFICES ASSUME KeyedInv
               PROVE  OneAnswerPerKey
    OBVIOUS
  <2>1. ASSUME NEW x \in answers, NEW y \in answers, x # y,
               ScopeOf(x.row.request) = ScopeOf(y.row.request)
        PROVE  \/ x.row.until <= y.at \/ y.row.until <= x.at
               \/ MayGo(x.row) \/ MayGo(y.row)
    BY <2>1 DEF KeyedInv, AnswersKept, Apart
  <2>2. ASSUME NEW c \in Succeeded
        PROVE  /\ tx[tx[c].answer].request.content = tx[c].request.content
               /\ \E x \in answers : x.row.by = tx[c].answer
    <3>1. c \in Asked /\ tx[c].status = 200 /\ tx[c].phase = "ended"
      BY DEF Succeeded
    <3>2. ~tx[c].inserted /\ ~tx[c].entity /\ Reply(c, tx[c])
      BY <3>1, TxIs DEF Shape
    <3>3. QED  BY <3>1, <3>2 DEF Reply, Worked
  <2>3. QED  BY <2>1, <2>2 DEF OneAnswerPerKey
<1>2. KeyedInv => EntitiesAreUnique
  <2> SUFFICES ASSUME KeyedInv
               PROVE  EntitiesAreUnique
    OBVIOUS
  <2>1. \A e, f \in entities : e # f => ~SharesIdentity(e.request, f.request)
    BY DEF KeyedInv, Aggregates
  <2>2. ASSUME NEW c \in Succeeded, NEW d \in Succeeded, Operation(c) = "gap",
               tx[c].request.content = tx[d].request.content
        PROVE  tx[c].answer = tx[d].answer
    <3>1. \A b \in {c, d} : b \in Asked /\ Worked(tx[b].answer, tx[b].request) /\ Operation(b) = "gap"
      <4>1. ASSUME NEW b \in {c, d}
            PROVE  b \in Asked /\ Worked(tx[b].answer, tx[b].request) /\ Operation(b) = "gap"
        <5>1. b \in Asked /\ c \in Asked /\ tx[b].status = 200 /\ tx[b].phase = "ended"
          BY DEF Succeeded
        <5>2. ~tx[b].entity /\ Reply(b, tx[b])
          BY <5>1, TxIs DEF Shape
        <5>3. Operation(b) = Operation(c)
          BY <5>1 DEF KeyedInv, Shapes
        <5>4. QED  BY <2>2, <5>1, <5>2, <5>3 DEF Reply
      <4>2. QED  BY <4>1
    <3>2. PICK e \in entities : /\ e.by = tx[c].answer /\ e.request.operation = "gap"
                                /\ e.request.content = tx[c].request.content
      BY <3>1 DEF Worked, Operation
    <3>3. PICK f \in entities : /\ f.by = tx[d].answer /\ f.request.operation = "gap"
                                /\ f.request.content = tx[d].request.content
      BY <3>1 DEF Worked, Operation
    <3>4. e.request \in Sent /\ f.request \in Sent
      BY DEF KeyedInv, KeyedTypes, Entity
    <3>5. SharesIdentity(e.request, f.request)
      BY <2>2, <3>2, <3>3, <3>4, KeyedConstants DEF SharesIdentity
    <3>6. e = f
      BY <2>1, <3>5
    <3>7. QED  BY <3>2, <3>3, <3>6
  <2>3. QED  BY <2>1, <2>2 DEF EntitiesAreUnique
<1>3. QED  BY <1>1, <1>2, KeyedInvariant, PTL DEF KeysHold
=============================================================================
