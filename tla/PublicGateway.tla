------------------------------ MODULE PublicGateway ---------------------------
(***************************************************************************)
(* The anonymous gateway of the public site (src/src/api/public/v1): the   *)
(* query, the procedure and the domain pack of a browser without           *)
(* credentials.  Two windows are in front of the first two: one of the     *)
(* whole gateway, then one of the client, counted in one transaction that  *)
(* every call of a window begins by locking the gateway's row; it is one   *)
(* action.  The window is the one of the clock when the call came to it.   *)
(*                                                                         *)
(* A query's answer commits with its event.  A procedure's event, and that *)
(* of any refusal but a full window's, is written afterwards and may fail. *)
(***************************************************************************)
EXTENDS Naturals, Sequences, FiniteSets

CONSTANTS Visit,          \* concurrent calls
          Comes,          \* what each may ask: [route, client, wrong]
          ClientLimit, GlobalLimit,
          Ceiling,        \* request_count grows no further
          KeptWindows,    \* rows older than this are deleted: a day, or four windows
          LastWindow,     \* bound on the clock, counted in windows
          Troubled,       \* bound: the calls whose transactions may fail or that may be lost
          NoVisit

VARIABLES visits,     \* the calls that came: request, phase, window, whether admitted, status
          buckets,    \* rag.public_query_rate_limits
          notes,      \* audit.events of the gateway
          present     \* the window of the clock
publicVars == <<visits, buckets, notes, present>>

Gateway == "gateway"
(* A client's key is a keyed hash of its address, and the gateway's the    *)
(* hash of a name: they differ.                                            *)
ASSUME GatewayConstants ==
  /\ ClientLimit \in Nat /\ GlobalLimit \in Nat /\ Ceiling \in Nat /\ LastWindow \in Nat
  /\ ClientLimit <= GlobalLimit /\ GlobalLimit < Ceiling
  /\ KeptWindows \in Nat /\ KeptWindows > 0
  /\ NoVisit \notin Visit /\ NoVisit # Gateway
  /\ \A v \in Visit : \A asks \in Comes[v] : asks.client # Gateway /\ asks.client # NoVisit

LimitOf(key) == IF key = Gateway THEN GlobalLimit ELSE ClientLimit
NoteOn(v, outcome, key, w) == [visit |-> v, outcome |-> outcome, key |-> key, window |-> w]
Waiting(v) == v \in DOMAIN visits /\ visits[v].phase = "gate"
Reached(v, phase) == v \in DOMAIN visits /\ visits[v].phase = phase

PublicTypeOK ==
  /\ DOMAIN visits \subseteq Visit
  /\ \A v \in DOMAIN visits :
       /\ visits[v].asks \in Comes[v]
       /\ visits[v].phase \in {"gate", "body", "search", "note", "ended"}
       /\ visits[v].window \in 0..present /\ visits[v].admitted \in BOOLEAN
       /\ visits[v].status \in {0, 200, 400, 403, 405, 429, 500, 503}
  /\ \A b \in buckets : b.count \in 1..Ceiling /\ b.note \in Visit \cup {NoVisit} /\ b.window \in 0..present
  /\ \A b, d \in buckets : b.key = d.key /\ b.window = d.window => b = d
  /\ \A n \in notes : n.visit \in DOMAIN visits /\ n.outcome \in {"blocked", "success", "error"}

PublicInit ==
  /\ visits = [v \in {} |-> NoVisit]
  /\ buckets = {} /\ notes = {}
  /\ present = 0

-------------------------------------------------------------------------------
(* The checks around the gate, in each handler's order. *)
ChecksBefore(route) ==
  <<"origin", "enabled", "method", "request_id">>
  \o IF route = "query" THEN <<>> ELSE IF route = "domain_pack" THEN <<"credentials">>
     ELSE <<"credentials", "parameters">>
ChecksAfter(route) ==
  IF route = "query" THEN <<"credentials", "content_type", "body", "schema", "message">> ELSE <<>>
Failed(checks, wrong) == {i \in 1..Len(checks) : checks[i] \in wrong}
FirstFailed(checks, wrong) == checks[CHOOSE i \in Failed(checks, wrong) : \A j \in Failed(checks, wrong) : i <= j]
StatusFor(check) ==
  CASE check = "origin" -> 403 [] check = "enabled" -> 503 [] check = "method" -> 405 [] OTHER -> 400

Moves(v, phase, status) == visits' = [visits EXCEPT ![v].phase = phase, ![v].status = status]
Ends(v) == visits' = [visits EXCEPT ![v].phase = "ended"]

Visited(asks, phase, status) ==
  [asks |-> asks, phase |-> phase, window |-> present, admitted |-> FALSE, status |-> status]

Come(v, asks) ==
  LET checks == ChecksBefore(asks.route)
      refused == Failed(checks, asks.wrong) # {}
      status == IF refused THEN StatusFor(FirstFailed(checks, asks.wrong))
                ELSE IF asks.route = "domain_pack" THEN 200 ELSE 0
      phase == IF status \in {403, 503, 200} THEN "ended" ELSE IF refused THEN "note" ELSE "gate"
  IN /\ v \notin DOMAIN visits
     /\ visits' = [u \in DOMAIN visits \cup {v} |->
                     IF u = v THEN Visited(asks, phase, status) ELSE visits[u]]
     /\ UNCHANGED <<buckets, notes, present>>

-------------------------------------------------------------------------------
(* consumeRateLimit: old rows go, then the row of this window is inserted  *)
(* or counted; the call that goes one over the limit leaves its event's id. *)
KeptBuckets(w, edge) ==
  {b \in buckets : b.window + KeptWindows > w \/ (b.window + KeptWindows = w /\ ~edge)}
CountOf(key, w) ==
  IF \E b \in buckets : b.key = key /\ b.window = w
  THEN (CHOOSE b \in buckets : b.key = key /\ b.window = w).count ELSE 0
NoteOf(key, w) ==
  IF \E b \in buckets : b.key = key /\ b.window = w
  THEN (CHOOSE b \in buckets : b.key = key /\ b.window = w).note ELSE NoVisit
CapAt(n) == IF n > Ceiling THEN Ceiling ELSE n

(* A mutant: every refused call is noted, not the first over the limit.    *)
CrossesOrOver(key, w) == CountOf(key, w) + 1 > LimitOf(key)
Crosses(key, w) == CountOf(key, w) + 1 = LimitOf(key) + 1
Counted(v, key, w) ==
  [key |-> key, window |-> w, count |-> CapAt(CountOf(key, w) + 1),
   note |-> IF Crosses(key, w) THEN v ELSE NoteOf(key, w)]
OtherBuckets(kept, row) == {b \in kept : b.key # row.key \/ b.window # row.window}
Admits(row) == row.count <= LimitOf(row.key)
BlockedNote(v, row) ==
  IF ~Admits(row) /\ row.note = v THEN {NoteOn(v, "blocked", row.key, row.window)} ELSE {}

PassGate(v) ==
  /\ Waiting(v)
  /\ \E edge \in BOOLEAN :
       LET w == visits[v].window
           kept == KeptBuckets(w, edge)
           whole == Counted(v, Gateway, w)
           own == Counted(v, visits[v].asks.client, w)
           reached == IF Admits(whole) THEN {whole, own} ELSE {whole}
           admitted == \A row \in reached : Admits(row)
       IN /\ buckets' = {b \in kept : \A row \in reached : b \in OtherBuckets(kept, row)} \cup reached
          /\ notes' = notes \cup UNION {BlockedNote(v, row) : row \in reached}
          /\ visits' = [visits EXCEPT
               ![v].admitted = admitted,
               ![v].status = IF admitted THEN 0 ELSE 429,
               ![v].phase = IF ~admitted THEN "ended"
                            ELSE IF visits[v].asks.route = "query" THEN "body" ELSE "search"]
  /\ UNCHANGED present

(* The transaction rolls back: nothing is counted and nothing recorded. *)
GateFails(v) ==
  /\ Waiting(v) /\ v \in Troubled
  /\ Moves(v, "note", 500)
  /\ UNCHANGED <<buckets, notes, present>>

ReadQuery(v) ==
  LET checks == ChecksAfter("query")
      wrong == visits[v].asks.wrong
  IN /\ Reached(v, "body")
     /\ IF Failed(checks, wrong) = {} THEN Moves(v, "search", 0)
        ELSE Moves(v, "note", StatusFor(FirstFailed(checks, wrong)))
     /\ UNCHANGED <<buckets, notes, present>>

(* The search and, for a query, the check of the answer and its event are  *)
(* one transaction.                                                        *)
SearchPublic(v) ==
  /\ Reached(v, "search")
  /\ \/ /\ visits[v].asks.route = "query"
        /\ Moves(v, "ended", 200)
        /\ notes' = notes \cup {NoteOn(v, "success", NoVisit, visits[v].window)}
     \/ /\ visits[v].asks.route = "procedure"
        /\ Moves(v, "note", 200) /\ UNCHANGED notes
     \/ v \in Troubled /\ Moves(v, "note", 500) /\ UNCHANGED notes
  /\ UNCHANGED <<buckets, present>>

(* recordAuditSafely *)
NoteOutcome(v) ==
  IF visits[v].status = 200 THEN "success" ELSE IF visits[v].status = 500 THEN "error" ELSE "blocked"
TakeNote(v) ==
  /\ Reached(v, "note")
  /\ \/ notes' = notes \cup {NoteOn(v, NoteOutcome(v), NoVisit, visits[v].window)}
     \/ v \in Troubled /\ UNCHANGED notes
  /\ Ends(v)
  /\ UNCHANGED <<buckets, present>>

(* The process ends before it answers. *)
Lose(v) ==
  /\ v \in DOMAIN visits \cap Troubled /\ visits[v].phase # "ended"
  /\ Moves(v, "ended", 0)
  /\ UNCHANGED <<buckets, notes, present>>

(* No call waits for its counting transaction until the row of its window  *)
(* may be deleted.                                                         *)
NextPublicWindow ==
  /\ present < LastWindow
  /\ \A v \in DOMAIN visits : Waiting(v) => present + 1 < visits[v].window + KeptWindows
  /\ present' = present + 1
  /\ UNCHANGED <<visits, buckets, notes>>

PublicNext ==
  \/ \E v \in Visit :
       \/ \E asks \in Comes[v] : Come(v, asks)
       \/ PassGate(v) \/ GateFails(v) \/ ReadQuery(v) \/ SearchPublic(v) \/ TakeNote(v) \/ Lose(v)
  \/ NextPublicWindow

PublicSpec == PublicInit /\ [][PublicNext]_publicVars

-------------------------------------------------------------------------------
AdmittedBy(key, w) ==
  {v \in DOMAIN visits : visits[v].admitted /\ visits[v].window = w
                         /\ key \in {Gateway, visits[v].asks.client}}
BlockedNotes(key, w) == {n \in notes : n.outcome = "blocked" /\ n.key = key /\ n.window = w}

(* However calls overlap, fail and cross windows, neither the gateway nor  *)
(* a client has more calls admitted in a window than its limit; a window   *)
(* that refused has one event of it, the one its row names, and one that   *)
(* did not has none; nothing is searched for a call that was not admitted, *)
(* and no call has two events.                                             *)
PublicWindowsHold ==
  /\ \A w \in 0..present, key \in {Gateway} \cup {visits[v].asks.client : v \in DOMAIN visits} :
       /\ Cardinality(AdmittedBy(key, w)) <= LimitOf(key)
       /\ Cardinality(BlockedNotes(key, w)) <= 1
  /\ \A b \in buckets :
       BlockedNotes(b.key, b.window) =
         IF b.count > LimitOf(b.key) THEN {NoteOn(b.note, "blocked", b.key, b.window)} ELSE {}
  /\ \A v \in DOMAIN visits :
       /\ visits[v].status = 200 /\ visits[v].asks.route # "domain_pack" => visits[v].admitted
       /\ visits[v].status = 200 /\ visits[v].asks.route = "query" => \E n \in notes : n.visit = v /\ n.outcome = "success"
       /\ Cardinality({n \in notes : n.visit = v}) <= 1
===============================================================================
