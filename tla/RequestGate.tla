------------------------------ MODULE RequestGate -----------------------------
(***************************************************************************)
(* The way of a request through an integration handler of src/src/api/v1,  *)
(* from its headers to the operation: authentication, permission, the      *)
(* request window of its principal, and the checks of headers and body, in *)
(* each handler's own order, with the audit event that every answer names. *)
(*                                                                         *)
(* A handler awaits the window's transaction, the body and the audit's     *)
(* transaction, and calls interleave there.  The window's row is locked by *)
(* the statement that counts, so a counting transaction is one action; the *)
(* window is the one of the time at which that statement began.            *)
(*                                                                         *)
(* Two designs are in use.  Half of the handlers record the refusal of a   *)
(* full window in the counting transaction, one event for the window; the  *)
(* workflow and case handlers let every refused call record its own.       *)
(***************************************************************************)
EXTENDS Naturals, Sequences, FiniteSets

CONSTANTS Call,          \* concurrent requests of one principal
          Sends,         \* what each may send: a route, a role and what is wrong with it
          Limit,         \* rateLimit
          MaxWindow,     \* bound on the clock, counted in windows
          NoRequest, NoEvent

Roles ==
  {"platform_admin", "tenant_admin", "document_manager", "researcher", "procedure_author",
   "procedure_reviewer", "procedure_approver", "case_operator", "viewer", "integration_client"}

(* The roles that are granted each permission a route asks for. *)
Readers == Roles \ {"platform_admin", "tenant_admin"}
RolesWith == [
  integration_query |-> {"platform_admin", "integration_client"},
  evidence_query |-> {"platform_admin", "tenant_admin"} \cup Readers,
  procedure_read |-> {"platform_admin", "tenant_admin"} \cup Readers,
  procedure_draft |-> {"platform_admin", "tenant_admin", "procedure_author"},
  procedure_review |-> {"platform_admin", "tenant_admin", "procedure_reviewer"},
  procedure_draft_or_review |->
    {"platform_admin", "tenant_admin", "procedure_author", "procedure_reviewer"},
  procedure_approve |-> {"platform_admin", "procedure_approver"},
  case_read |-> {"platform_admin", "tenant_admin", "researcher", "case_operator", "viewer"},
  case_write |-> {"platform_admin", "tenant_admin", "case_operator"},
  case_write_or_review |->
    {"platform_admin", "tenant_admin", "case_operator", "procedure_reviewer"},
  source_read |-> Roles \ {"case_operator"},
  source_write |-> {"platform_admin", "tenant_admin", "document_manager"},
  document_read |-> Roles,
  document_write |-> {"platform_admin", "tenant_admin", "document_manager"},
  document_ingest |-> {"platform_admin", "tenant_admin", "document_manager"}]

(* The checks of each handler, in order.  "gate" is the request window and *)
(* "body" reads and parses the body; a check of a permission has its name. *)
QueryHeaders == <<"integration_query", "method", "request_id", "idempotency_key", "content_type">>
QueryBody == <<"body", "registry", "schema", "request_id_match", "tenant", "community", "boundary">>
QueryChecks == <<"authentication", "gate">> \o QueryHeaders \o QueryBody

PackHeaders == <<"integration_query", "method", "request_id", "idempotency_key", "content_type">>
PackBody == <<"body", "registry", "schema", "request_id_match", "tenant", "boundary">>
PackChecks == <<"authentication", "gate">> \o PackHeaders \o PackBody

GapHeaders == <<"integration_query", "method", "request_id", "idempotency_key", "content_type">>
GapBody ==
  <<"body", "registry", "schema", "request_id_match", "tenant", "boundary", "authority">>
GapChecks == <<"authentication", "gate">> \o GapHeaders \o GapBody

SearchIdentity == <<"tenant", "request_id_match", "credential", "query_text", "jurisdiction">>
SearchChecks ==
  <<"authentication", "evidence_query", "method", "request_id", "gate", "content_type",
    "body", "schema", "operation">> \o SearchIdentity
BundleChecks ==
  <<"authentication", "evidence_query", "method", "request_id", "gate", "content_type",
    "idempotency_key", "body", "schema", "operation">> \o SearchIdentity

WorkflowEntry(permission) == <<"authentication", permission, "request_id", "method">>
WorkflowWrite == <<"gate", "idempotency_key", "content_type", "body", "schema">>
WorkflowIdentity == <<"request_id_match", "tenant">>
DraftChecks ==
  WorkflowEntry("procedure_draft") \o WorkflowWrite \o <<"definition", "definition_tenant">>
    \o WorkflowIdentity
ReviewChecks ==
  WorkflowEntry("procedure_draft_or_review") \o WorkflowWrite \o WorkflowIdentity
    \o <<"procedure_review">>
ApprovalChecks == WorkflowEntry("procedure_approve") \o WorkflowWrite \o WorkflowIdentity
WorkflowReadChecks == WorkflowEntry("procedure_read") \o <<"no_body", "gate", "path">>

CaseIdentity == <<"request_id_match", "tenant">>
CaseEntry(permission) == <<"authentication", permission, "request_id">>
CaseWrite ==
  <<"gate", "path", "idempotency_key", "content_type", "body", "schema", "operation">>
CaseCreateChecks == CaseEntry("case_write") \o CaseWrite \o CaseIdentity
CaseValidationChecks ==
  CaseEntry("case_write_or_review") \o CaseWrite \o CaseIdentity \o <<"procedure_review">>
CaseReadChecks == CaseEntry("case_read") \o <<"no_body", "gate", "path">>

CatalogListChecks(permission) ==
  <<"authentication", permission, "request_id", "no_body", "gate", "parameters", "filters">>
CatalogWriteChecks(permission) ==
  <<"authentication", permission, "request_id", "gate", "idempotency_key", "content_type",
    "body", "schema", "operation", "tenant", "urls">>

JobPost ==
  <<"idempotency_key", "content_type", "body", "registry", "schema", "request_id_match",
    "tenant", "pipeline">>
JobEntry == <<"authentication", "gate", "document_ingest", "request_id">>
JobPostChecks == JobEntry \o <<"method">> \o JobPost
JobGetChecks == JobEntry \o <<"no_body", "method", "path">>

ChecksOf == [query |-> QueryChecks, pack |-> PackChecks, gap |-> GapChecks,
             search |-> SearchChecks, bundle |-> BundleChecks,
             draft |-> DraftChecks, review |-> ReviewChecks, approval |-> ApprovalChecks,
             workflow_read |-> WorkflowReadChecks,
             case_create |-> CaseCreateChecks, case_validation |-> CaseValidationChecks,
             case_read |-> CaseReadChecks,
             source_list |-> CatalogListChecks("source_read"),
             document_list |-> CatalogListChecks("document_read"),
             job_list |-> CatalogListChecks("document_ingest"),
             procedure_list |-> CatalogListChecks("procedure_read"),
             source_create |-> CatalogWriteChecks("source_write"),
             document_create |-> CatalogWriteChecks("document_write"),
             job_post |-> JobPostChecks, job_get |-> JobGetChecks]
Route == DOMAIN ChecksOf
Check == UNION {{ChecksOf[r][i] : i \in 1..Len(ChecksOf[r])} : r \in Route}

(* The handlers that leave the event of a full window to each refused call. *)
RecordsEachRefusal ==
  {"draft", "review", "approval", "workflow_read", "case_create", "case_validation", "case_read"}
(* The handlers that delete the windows that are over. *)
DeletesWindows == {"query", "pack", "gap", "job_post", "job_get"}

StatusOf(check) ==
  IF check \in DOMAIN RolesWith \cup {"tenant", "credential", "definition_tenant"} THEN 403
  ELSE CASE check = "registry" -> 500
         [] check = "pipeline" -> 503
         [] OTHER -> 400

(* rateLimit is configured as a positive number of requests a minute. *)
ASSUME GateConstants ==
  /\ IsFiniteSet(Call)
  /\ Limit \in Nat \ {0} /\ MaxWindow \in Nat
  /\ \A c \in Call : \A r \in Sends[c] : r \in [route: Route, role: Roles, wrong: SUBSET Check]
  /\ NoRequest \notin UNION {Sends[c] : c \in Call}
  /\ \A c \in Call : \A for \in {"window", "answer"} : NoEvent # [of |-> c, for |-> for]

VARIABLES call, windows, events, failures, window

gateVars == <<call, windows, events, failures, window>>

Event == [of: Call, for: {"window", "answer"}]
Fails(r, check) == check \in r.wrong \/ (check \in DOMAIN RolesWith /\ r.role \notin RolesWith[check])

CallState ==
  [phase: {"idle", "headers", "gating", "admitted", "entered", "refused", "answered", "lost"},
   request: [route: Route, role: Roles, wrong: SUBSET Check] \cup {NoRequest}, read: BOOLEAN, window: 0..MaxWindow,
   admitted: BOOLEAN, status: {0, 200, 400, 401, 403, 404, 409, 429, 500, 503},
   cites: Event \cup {NoEvent}]

Idle == [phase |-> "idle", request |-> NoRequest, read |-> FALSE, window |-> 0,
         admitted |-> FALSE, status |-> 0, cites |-> NoEvent]

GateTypeOK ==
  /\ call \in [Call -> CallState]
  /\ window \in 0..MaxWindow
  /\ windows \in [0..MaxWindow -> [count: 0..Cardinality(Call), blocked: Event \cup {NoEvent}]]
  /\ events \subseteq Event
  /\ failures \in [0..MaxWindow -> Event \cup {NoEvent}]

NoWindow == [count |-> 0, blocked |-> NoEvent]

GateInit ==
  /\ call = [c \in Call |-> Idle]
  /\ windows = [w \in 0..MaxWindow |-> NoWindow]
  /\ events = {}
  /\ failures = [w \in 0..MaxWindow |-> NoEvent]
  /\ window = 0

Own(c, for) == [of |-> c, for |-> for]
Checks(c) == ChecksOf[call[c].request.route]
GateAt(c) == CHOOSE i \in 1..Len(Checks(c)) : Checks(c)[i] = "gate"

(* The checks the call meets between two of its transactions. *)
Ahead(c) ==
  IF call[c].phase = "headers" THEN 2..(GateAt(c) - 1) ELSE (GateAt(c) + 1)..Len(Checks(c))
Failing(c) == {i \in Ahead(c) : Fails(call[c].request, Checks(c)[i])}
ReadsBody(c, upTo) == \E i \in Ahead(c) : i <= upTo /\ Checks(c)[i] = "body"

-------------------------------------------------------------------------------
(* Bound: the calls of one behaviour are for one route.  Those of others   *)
(* are counted in other windows.                                           *)
Arrive(c) ==
  /\ call[c].phase = "idle"
  /\ \E r \in Sends[c] :
       /\ \A d \in Call : call[d].request # NoRequest => call[d].request.route = r.route
       /\ call' = [call EXCEPT ![c].phase = "headers", ![c].request = r]
  /\ UNCHANGED <<windows, events, failures, window>>

Waits(c) == call[c].phase \in {"headers", "admitted"}
Unauthenticated(c) == call[c].phase = "headers" /\ Fails(call[c].request, "authentication")

(* The failures of one minute share one event. *)
FailureEvent(c) == IF failures[window] = NoEvent THEN Own(c, "answer") ELSE failures[window]

(* 401: when the failure cannot be recorded, the answer is the same, with  *)
(* an identifier of its own.                                               *)
Unauthorized(c) ==
  /\ Unauthenticated(c)
  /\ \/ LET event == FailureEvent(c)
        IN /\ call' = [call EXCEPT ![c].phase = "answered", ![c].status = 401, ![c].cites = event]
           /\ failures' = [failures EXCEPT ![window] = event]
           /\ events' = events \cup {event}
     \/ /\ call' = [call EXCEPT ![c].phase = "answered", ![c].status = 401]
        /\ UNCHANGED <<failures, events>>
  /\ UNCHANGED <<windows, window>>

(* The first check that fails ends the request. *)
Refuse(c) ==
  /\ Waits(c) /\ ~Unauthenticated(c)
  /\ \E i \in Failing(c) :
       /\ \A j \in Failing(c) : i <= j
       /\ call' = [call EXCEPT ![c].phase = "refused",
                               ![c].read = ReadsBody(c, i),
                               ![c].status = StatusOf(Checks(c)[i]),
                               ![c].cites = Own(c, "answer")]
  /\ UNCHANGED <<windows, events, failures, window>>

BeginGate(c) ==
  /\ call[c].phase = "headers" /\ ~Unauthenticated(c) /\ Failing(c) = {}
  /\ call' = [call EXCEPT ![c].phase = "gating", ![c].window = window,
                          ![c].read = ReadsBody(c, GateAt(c))]
  /\ UNCHANGED <<windows, events, failures, window>>

(* A mutant: a window is deleted as soon as the next one begins. *)
KeptOneWindow(c) ==
  [w \in 0..MaxWindow |->
     IF call[c].request.route \in DeletesWindows /\ w + 1 <= window THEN NoWindow ELSE windows[w]]
Kept(c) ==
  [w \in 0..MaxWindow |->
     IF call[c].request.route \in DeletesWindows /\ w + 2 <= window THEN NoWindow ELSE windows[w]]

(* A mutant: the call is stored.                                           *)
BlockedByCall(c, counted, over) == IF over THEN c ELSE counted.blocked
(* blocked_audit_id: the event of the first call the window refuses. *)
Blocked(c, counted, over) ==
  IF over /\ counted.blocked = NoEvent THEN Own(c, "window") ELSE counted.blocked

(* consumeRateLimit: the window of the call, counted once more. *)
RequestCount(c) == Kept(c)[call[c].window].count + 1
OverLimit(c) == RequestCount(c) > Limit
WindowAfter(c) ==
  [count |-> RequestCount(c), blocked |-> Blocked(c, Kept(c)[call[c].window], OverLimit(c))]

LetsIn(c) ==
  /\ ~OverLimit(c)
  /\ call' = [call EXCEPT ![c].phase = "admitted", ![c].admitted = TRUE]
  /\ UNCHANGED events

(* The refusal has an event of its own, recorded with the answer. *)
RefusesEach(c) ==
  /\ OverLimit(c) /\ call[c].request.route \in RecordsEachRefusal
  /\ call' = [call EXCEPT ![c].phase = "refused", ![c].status = 429, ![c].cites = Own(c, "window")]
  /\ UNCHANGED events

(* The event of the window's first refusal is committed with the count. *)
RefusesOnce(c) ==
  LET blocked == WindowAfter(c).blocked
  IN /\ OverLimit(c) /\ call[c].request.route \notin RecordsEachRefusal
     /\ call' = [call EXCEPT ![c].phase = "answered", ![c].status = 429, ![c].cites = blocked]
     /\ events' = IF blocked = Own(c, "window") THEN events \cup {blocked} ELSE events

ConsumeRateLimit(c) ==
  /\ call[c].phase = "gating"
  /\ windows' = [Kept(c) EXCEPT ![call[c].window] = WindowAfter(c)]
  /\ LetsIn(c) \/ RefusesEach(c) \/ RefusesOnce(c)
  /\ UNCHANGED <<failures, window>>

Enter(c) ==
  /\ call[c].phase = "admitted" /\ Failing(c) = {}
  /\ call' = [call EXCEPT ![c].phase = "entered",
                          ![c].read = @ \/ ReadsBody(c, Len(Checks(c)))]
  /\ UNCHANGED <<windows, events, failures, window>>

(* The operation commits its event with, or before, what it answers. *)
Succeed(c) ==
  /\ call[c].phase = "entered"
  /\ call' = [call EXCEPT ![c].phase = "answered", ![c].status = 200, ![c].cites = Own(c, "answer")]
  /\ events' = events \cup {Own(c, "answer")}
  /\ UNCHANGED <<windows, failures, window>>

(* The operation refuses (with 404, 409 or 503, which go the same way), or *)
(* a transaction of the call fails.                                        *)
Throw(c) ==
  /\ call[c].phase \in {"gating", "entered"}
  /\ \E status \in {409, 500} :
       /\ status = 500 \/ call[c].phase = "entered"
       /\ call' = [call EXCEPT ![c].phase = "refused", ![c].status = status,
                               ![c].cites = Own(c, "answer")]
  /\ UNCHANGED <<windows, events, failures, window>>

(* knownErrorResponse and persistErrorAudit: the event in a transaction of *)
(* its own, then the answer that names it; without it, an uninformative    *)
(* 500 whose identifier names nothing.                                     *)
RecordRefusal(c) ==
  /\ call[c].phase = "refused"
  /\ call' = [call EXCEPT ![c].phase = "answered"]
  /\ events' = events \cup {call[c].cites}
  /\ UNCHANGED <<windows, failures, window>>

RecordingFails(c) ==
  /\ call[c].phase = "refused"
  /\ call' = [call EXCEPT ![c].phase = "answered", ![c].status = 500, ![c].cites = NoEvent]
  /\ UNCHANGED <<windows, events, failures, window>>

Crash(c) ==
  /\ call[c].phase \notin {"idle", "answered", "lost"}
  /\ call' = [call EXCEPT ![c].phase = "lost"]
  /\ \/ UNCHANGED events
     \/ /\ call[c].phase = "refused"
        /\ events' = events \cup {call[c].cites}
     \/ /\ call[c].phase = "entered"
        /\ events' = events \cup {Own(c, "answer")}
  /\ UNCHANGED <<windows, failures, window>>

(* Bound: a counting statement ends before its window is two windows old. *)
NextWindow ==
  /\ window < MaxWindow
  /\ \A c \in Call : call[c].phase = "gating" => call[c].window = window
  /\ window' = window + 1
  /\ UNCHANGED <<call, windows, events, failures>>

GateNext ==
  \/ NextWindow
  \/ \E c \in Call :
       \/ Arrive(c) \/ Unauthorized(c) \/ Refuse(c) \/ BeginGate(c) \/ ConsumeRateLimit(c)
       \/ Enter(c) \/ Succeed(c) \/ Throw(c)
       \/ RecordRefusal(c) \/ RecordingFails(c) \/ Crash(c)

GateSpec == GateInit /\ [][GateNext]_gateVars

-------------------------------------------------------------------------------
AdmittedIn(w) == {c \in Call : call[c].admitted /\ call[c].window = w}
Refused(c) == call[c].status = 429
SharedEvents(w) == {e \in events : e.for = "window" /\ call[e.of].window = w}

(* A window admits as many requests as its limit and refuses one only when *)
(* that many were admitted, whatever crashes; and no body is read for a    *)
(* caller who was not authenticated, permitted and admitted, so the bodies *)
(* read in a window never exceed the limit either.                         *)
AdmitsUpToLimit ==
  /\ \A w \in 0..MaxWindow : Cardinality(AdmittedIn(w)) <= Limit
  /\ \A c \in Call : Refused(c) => Cardinality(AdmittedIn(call[c].window)) = Limit
  /\ \A c \in Call :
       call[c].read => /\ call[c].admitted
                       /\ ~Fails(call[c].request, "authentication")
                       /\ ~Fails(call[c].request, Checks(c)[2]) \/ Checks(c)[2] = "gate"

(* The event an answer names was committed before it, except for the 401   *)
(* and the 500 that say the event could not be recorded.  Where the window *)
(* records its refusals, they share one event, however many there are, and *)
(* so do the failed authentications of one minute.                         *)
AnswersNameEvents ==
  /\ \A c \in Call :
       call[c].phase = "answered" =>
         call[c].cites \in events \/ (call[c].cites = NoEvent /\ call[c].status \in {401, 500})
  /\ \A c, d \in Call :
       /\ call[c].phase = "answered" /\ call[d].phase = "answered"
       /\ Refused(c) /\ Refused(d) /\ call[c].window = call[d].window
       /\ call[c].request.route \notin RecordsEachRefusal
       => call[c].cites = call[d].cites
  /\ \A w \in 0..MaxWindow :
       \/ \E c \in Call : call[c].request # NoRequest /\ call[c].request.route \in RecordsEachRefusal
       \/ Cardinality(SharedEvents(w)) <= 1
  /\ Cardinality({e \in events : e.for = "answer" /\ call[e.of].status = 401}) <= MaxWindow + 1

(* Who is refused, admitted and answered is decided by the window and its  *)
(* events alone, however requests overlap and wherever they crash.         *)
GateHolds == AdmitsUpToLimit /\ AnswersNameEvents
===============================================================================
