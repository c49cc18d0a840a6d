---------------------------- MODULE Answers_proofs -----------------------------
(***************************************************************************)
(* Proofs about what is answered: the gateway a public query goes through  *)
(* (PublicGateway), the pages of the catalog (CatalogPages), the evidence  *)
(* bundle of a search (SearchEvidence) and the artifacts of a procedure    *)
(* query (ProcedureEvidence), for any number of calls, clients, windows,   *)
(* entries, sections and passages, and all limits.                         *)
(***************************************************************************)
EXTENDS PublicGateway, CatalogPages, SearchEvidence, ProcedureEvidence,
        FiniteSetTheorems, TLAPS


-------------------------------------------------------------------------------
(***************************************************************************)
(* PublicGateway                                                           *)
(***************************************************************************)

Calls == UNION {Comes[v] : v \in Visit}
Keys == {Gateway} \cup {asks.client : asks \in Calls}
Phases == {"gate", "body", "search", "note", "ended"}
Statuses == {0, 200, 400, 403, 405, 429, 500, 503}
VisitRow == [asks : Calls, phase : Phases, window : Nat, admitted : BOOLEAN, status : Statuses]
BucketRow == [key : Keys, window : Nat, count : Nat, note : Visit \cup {NoVisit}]
NoteRow == [visit : Visit, outcome : {"blocked", "success", "error"}, key : Keys \cup {NoVisit}, window : Nat]

(***************************************************************************)
(* The inductive invariant, in parts                                       *)
(***************************************************************************)
Shapes ==
  /\ visits \in [DOMAIN visits -> VisitRow] /\ DOMAIN visits \subseteq Visit
  /\ IsFiniteSet(DOMAIN visits)
  /\ \A v \in DOMAIN visits : visits[v].asks \in Comes[v]
  /\ buckets \subseteq BucketRow /\ notes \subseteq NoteRow
  /\ present \in Nat

\* A bucket is the only one of its key and window, of a window that has begun, and
\* names a call that went through the gate.
Buckets ==
  /\ \A b \in buckets : b.count \in 1..Ceiling /\ b.window <= present
  /\ \A b, d \in buckets : b.key = d.key /\ b.window = d.window => b = d
  /\ \A b \in buckets : b.note # NoVisit => b.note \in DOMAIN visits /\ ~Waiting(b.note)

\* Where a call is, and what it was told.
VisitFits(v) ==
  LET c == visits[v]
  IN  /\ c.window <= present
      /\ c.phase = "gate" => ~c.admitted /\ c.status = 0 /\ present < c.window + KeptWindows
      /\ c.phase \in {"body", "search"} => c.admitted /\ c.status = 0
      /\ c.status = 200 /\ c.asks.route # "domain_pack" => c.admitted
      /\ c.status = 200 /\ c.asks.route = "query" =>
           c.phase = "ended" /\ \E n \in notes : n.visit = v /\ n.outcome = "success"
Visits == \A v \in DOMAIN visits : VisitFits(v)

\* Only a call that ended has an event, and one.
OneNote ==
  /\ \A n \in notes : n.visit \in DOMAIN visits /\ visits[n.visit].phase = "ended"
  /\ \A n, m \in notes : n.visit = m.visit => n = m

\* A window's row has counted the calls it admitted, and of a window without a row that
\* cannot have been deleted nobody was admitted and nothing noted.
HasRow(key, w) == \E b \in buckets : b.key = key /\ b.window = w
Counts ==
  /\ \A b \in buckets : Cardinality(AdmittedBy(b.key, b.window)) <= b.count
  /\ \A key \in Keys, w \in Nat :
       w + KeptWindows > present /\ ~HasRow(key, w) => AdmittedBy(key, w) = {} /\ BlockedNotes(key, w) = {}

\* No window admits more than its limit, and its row names its one refusal.
Limited ==
  /\ \A key \in Keys, w \in Nat :
       /\ Cardinality(AdmittedBy(key, w)) <= LimitOf(key)
       /\ \A n, m \in BlockedNotes(key, w) : n = m
  /\ \A b \in buckets :
       BlockedNotes(b.key, b.window) =
         IF b.count > LimitOf(b.key) THEN {NoteOn(b.note, "blocked", b.key, b.window)} ELSE {}

GatewayInv == Shapes /\ Buckets /\ Visits /\ OneNote /\ Counts /\ Limited
-----------------------------------------------------------------------------
(***************************************************************************)
(* Keys, limits and calls                                                  *)
(***************************************************************************)
\* A limit is a number below the ceiling.
LEMMA LimitIs ==
  ASSUME NEW key
  PROVE  LimitOf(key) \in Nat /\ LimitOf(key) < Ceiling /\ Ceiling \in Nat
  BY GatewayConstants DEF LimitOf

\* The keys of a call are keys, and differ.
LEMMA KeysOf ==
  ASSUME NEW v \in Visit, NEW asks \in Comes[v]
  PROVE  /\ asks \in Calls /\ asks.client \in Keys /\ Gateway \in Keys
         /\ asks.client # Gateway /\ NoVisit \notin Keys
<1>1. \A a \in Calls : a.client # Gateway /\ a.client # NoVisit
  BY GatewayConstants DEF Calls
<1> QED
  BY <1>1, GatewayConstants DEF Calls, Keys

\* The fields of a call that came.
LEMMA VisitIs ==
  ASSUME Shapes, NEW v \in DOMAIN visits
  PROVE  visits[v] \in VisitRow /\ v \in Visit /\ visits[v].asks \in Comes[v]
  BY DEF Shapes

\* What a window admitted is finitely many calls.
LEMMA AdmittedFinite ==
  ASSUME Shapes, NEW key, NEW w
  PROVE  IsFiniteSet(AdmittedBy(key, w)) /\ Cardinality(AdmittedBy(key, w)) \in Nat
<1>1. AdmittedBy(key, w) \subseteq DOMAIN visits
  BY DEF AdmittedBy
<1> QED
  BY <1>1, FS_Subset, FS_CardinalityType DEF Shapes

-----------------------------------------------------------------------------
(***************************************************************************)
(* Steps that leave the windows alone                                      *)
(***************************************************************************)
\* A call that moves on keeps what it asks, its window and whether it was admitted.
MovesOn(v, c) ==
  /\ v \in DOMAIN visits /\ visits' = [visits EXCEPT ![v] = c] /\ c \in VisitRow
  /\ c.asks = visits[v].asks /\ c.window = visits[v].window /\ c.admitted = visits[v].admitted
  /\ c.phase # "gate" /\ visits[v].phase # "ended"

\* A call that is moved, or ends, moves on.
LEMMA MoveOn ==
  ASSUME Shapes, NEW v \in DOMAIN visits, visits[v].phase # "ended",
         NEW ph \in Phases, ph # "gate", NEW st \in Statuses,
         Moves(v, ph, st)
  PROVE  \E c \in VisitRow : MovesOn(v, c) /\ c.phase = ph /\ c.status = st
<1>1. PICK o \in VisitRow : o = visits[v]
  BY VisitIs
<1>2. PICK c : c = [o EXCEPT !.phase = ph, !.status = st]
  OBVIOUS
<1>3. /\ c \in VisitRow /\ c.asks = o.asks /\ c.window = o.window /\ c.admitted = o.admitted
      /\ c.phase = ph /\ c.status = st
  BY <1>1, <1>2 DEF VisitRow
<1>4. visits' = [visits EXCEPT ![v] = c]
  BY <1>1, <1>2 DEF Moves
<1> QED
  BY <1>1, <1>3, <1>4 DEF MovesOn

\* The same for a call that only ends.
LEMMA EndOn ==
  ASSUME Shapes, NEW v \in DOMAIN visits, visits[v].phase # "ended", Ends(v)
  PROVE  \E c \in VisitRow : MovesOn(v, c) /\ c.phase = "ended" /\ c.status = visits[v].status
<1>1. PICK o \in VisitRow : o = visits[v]
  BY VisitIs
<1>2. PICK c : c = [o EXCEPT !.phase = "ended"]
  OBVIOUS
<1>3. /\ c \in VisitRow /\ c.asks = o.asks /\ c.window = o.window /\ c.admitted = o.admitted
      /\ c.phase = "ended" /\ c.status = o.status
  BY <1>1, <1>2 DEF VisitRow, Phases
<1>4. visits' = [visits EXCEPT ![v] = c]
  BY <1>1, <1>2 DEF Ends
<1> QED
  BY <1>1, <1>3, <1>4 DEF MovesOn

\* Nobody is admitted by a call that moves on.
LEMMA AdmittedSame ==
  ASSUME Shapes, NEW v, NEW c, MovesOn(v, c), NEW key, NEW w
  PROVE  AdmittedBy(key, w)' = AdmittedBy(key, w)
<1>1. /\ DOMAIN visits' = DOMAIN visits /\ visits'[v] = c
      /\ \A u \in DOMAIN visits \ {v} : visits'[u] = visits[u]
  BY DEF Shapes, MovesOn
<1>2. \A u \in DOMAIN visits : /\ visits'[u].asks = visits[u].asks
                               /\ visits'[u].window = visits[u].window
                               /\ visits'[u].admitted = visits[u].admitted
  BY <1>1 DEF MovesOn
<1> QED
  BY <1>1, <1>2 DEF AdmittedBy

\* A call that moves on and leaves at most one event, of no window, keeps the
\* invariant if it fits where it arrives.
LEMMA MoveKeeps ==
  ASSUME GatewayInv, NEW v \in DOMAIN visits, NEW c \in VisitRow, MovesOn(v, c),
         buckets' = buckets, present' = present,
         NEW o \in {"blocked", "success", "error"},
         \/ notes' = notes
         \/ notes' = notes \cup {NoteOn(v, o, NoVisit, visits[v].window)} /\ c.phase = "ended",
         c.phase \in {"body", "search"} => c.admitted /\ c.status = 0,
         c.status = 200 /\ c.asks.route # "domain_pack" => c.admitted,
         c.status = 200 /\ c.asks.route = "query" =>
           c.phase = "ended" /\ \E n \in notes' : n.visit = v /\ n.outcome = "success"
  PROVE  GatewayInv'
<1>1. Shapes /\ Buckets /\ Visits /\ OneNote /\ Counts /\ Limited
  BY DEF GatewayInv
<1>2. /\ DOMAIN visits' = DOMAIN visits /\ visits'[v] = c
      /\ \A u \in DOMAIN visits \ {v} : visits'[u] = visits[u]
      /\ visits' \in [DOMAIN visits -> VisitRow]
  BY <1>1 DEF Shapes, MovesOn
<1>3. /\ v \in Visit /\ visits[v] \in VisitRow /\ visits[v].window \in Nat
      /\ visits[v].asks \in Comes[v] /\ NoVisit \notin Keys
  BY <1>1, VisitIs, KeysOf DEF VisitRow
<1>4. PICK n0 : /\ n0 = NoteOn(v, o, NoVisit, visits[v].window)
                /\ n0 \in NoteRow /\ n0.visit = v /\ n0.key = NoVisit
  <2>1. PICK w \in Nat : w = visits[v].window
    BY <1>3
  <2>2. PICK n0 : n0 = [visit |-> v, outcome |-> o, key |-> NoVisit, window |-> w]
    OBVIOUS
  <2>3. n0 \in NoteRow
    BY <1>3, <2>2 DEF NoteRow
  <2> QED
    BY <2>1, <2>2, <2>3 DEF NoteOn
<1>5. notes' = notes \/ (notes' = notes \cup {n0} /\ c.phase = "ended")
  BY <1>4
<1>6. Shapes'
  <2>1. \A u \in DOMAIN visits' : visits'[u].asks \in Comes[u]
    BY <1>1, <1>2 DEF Shapes, MovesOn
  <2>2. notes' \subseteq NoteRow
    BY <1>1, <1>4, <1>5 DEF Shapes
  <2> QED
    BY <1>1, <1>2, <2>1, <2>2 DEF Shapes
<1>7. Buckets'
  BY <1>1, <1>2 DEF Buckets, Waiting, MovesOn
<1>8. Visits'
  <2>1. ASSUME NEW u \in DOMAIN visits, u # v PROVE VisitFits(u)'
    <3>1. VisitFits(u) /\ visits'[u] = visits[u] /\ notes \subseteq notes'
      BY <1>1, <1>2, <1>5, <2>1 DEF Visits
    <3> QED
      BY <3>1 DEF VisitFits
  <2>2. VisitFits(v)'
    BY <1>1, <1>2 DEF Visits, VisitFits, MovesOn
  <2> QED
    BY <1>2, <2>1, <2>2 DEF Visits
<1>9. OneNote'
  BY <1>1, <1>2, <1>4, <1>5 DEF OneNote, MovesOn
<1>10. \A key, w : AdmittedBy(key, w)' = AdmittedBy(key, w)
  BY <1>1, AdmittedSame
<1>11. \A key \in Keys : \A w : BlockedNotes(key, w)' = BlockedNotes(key, w)
  BY <1>3, <1>4, <1>5 DEF BlockedNotes
<1>12. \A b \in buckets : b.key \in Keys
  BY <1>1 DEF Shapes, BucketRow
<1>13. Counts'
  BY <1>1, <1>10, <1>11 DEF Counts, HasRow
<1>14. Limited'
  BY <1>1, <1>10, <1>11, <1>12 DEF Limited, LimitOf, NoteOn
<1> QED
  BY <1>6, <1>7, <1>8, <1>9, <1>13, <1>14 DEF GatewayInv

-----------------------------------------------------------------------------
(***************************************************************************)
(* The actions that leave the windows alone                                *)
(***************************************************************************)
\* What a check is answered with is none of the answers of a search.
LEMMA CheckStatus ==
  ASSUME NEW check
  PROVE  StatusFor(check) \in {400, 403, 405, 503} /\ StatusFor(check) \in Statuses
  BY DEF StatusFor, Statuses

\* The gate's transaction rolls back.
LEMMA GateFailsStep ==
  ASSUME GatewayInv, NEW v \in Visit, GateFails(v)
  PROVE  GatewayInv'
<1>1. Shapes /\ v \in DOMAIN visits /\ visits[v].phase = "gate"
  BY DEF GatewayInv, GateFails, Waiting
<1>2. Moves(v, "note", 500) /\ buckets' = buckets /\ present' = present /\ notes' = notes
  BY DEF GateFails
<1>3. PICK c \in VisitRow : MovesOn(v, c) /\ c.phase = "note" /\ c.status = 500
  BY <1>1, <1>2, MoveOn DEF Phases, Statuses
<1> QED
  BY <1>1, <1>2, <1>3, MoveKeeps

\* The rest of a query is read.
LEMMA ReadQueryStep ==
  ASSUME GatewayInv, NEW v \in Visit, ReadQuery(v)
  PROVE  GatewayInv'
<1>1. Shapes /\ Visits /\ v \in DOMAIN visits /\ visits[v].phase = "body"
  BY DEF GatewayInv, ReadQuery, Reached
<1>2. buckets' = buckets /\ present' = present /\ notes' = notes
  BY DEF ReadQuery
<1>3. visits[v].admitted
  BY <1>1 DEF Visits, VisitFits
<1>4. CASE Moves(v, "search", 0)
  <2>1. PICK c \in VisitRow : MovesOn(v, c) /\ c.phase = "search" /\ c.status = 0
    BY <1>1, <1>4, MoveOn DEF Phases, Statuses
  <2>2. c.admitted
    BY <1>3, <2>1 DEF MovesOn
  <2> QED
    BY <1>1, <1>2, <2>1, <2>2, MoveKeeps
<1>5. ASSUME NEW check, Moves(v, "note", StatusFor(check))
      PROVE  GatewayInv'
  <2>1. PICK st \in Statuses : st = StatusFor(check) /\ st # 200
    BY CheckStatus
  <2>2. PICK c \in VisitRow : MovesOn(v, c) /\ c.phase = "note" /\ c.status = st
    BY <1>1, <1>5, <2>1, MoveOn DEF Phases
  <2> QED
    BY <1>1, <1>2, <2>1, <2>2, MoveKeeps
<1> QED
  BY <1>4, <1>5 DEF ReadQuery

\* The search answers, or fails.
LEMMA SearchPublicStep ==
  ASSUME GatewayInv, NEW v \in Visit, SearchPublic(v)
  PROVE  GatewayInv'
<1>1. Shapes /\ Visits /\ v \in DOMAIN visits /\ visits[v].phase = "search"
  BY DEF GatewayInv, SearchPublic, Reached
<1>2. buckets' = buckets /\ present' = present
  BY DEF SearchPublic
<1>3. visits[v].admitted
  BY <1>1 DEF Visits, VisitFits
<1>4. CASE /\ visits[v].asks.route = "query"
           /\ Moves(v, "ended", 200)
           /\ notes' = notes \cup {NoteOn(v, "success", NoVisit, visits[v].window)}
  <2>1. PICK c \in VisitRow : MovesOn(v, c) /\ c.phase = "ended" /\ c.status = 200
    BY <1>1, <1>4, MoveOn DEF Phases, Statuses
  <2>2. c.admitted
    BY <1>3, <2>1 DEF MovesOn
  <2>3. \E n \in notes' : n.visit = v /\ n.outcome = "success"
    <3>1. PICK n : n = NoteOn(v, "success", NoVisit, visits[v].window)
      OBVIOUS
    <3>2. n.visit = v /\ n.outcome = "success"
      BY <3>1 DEF NoteOn
    <3> QED
      BY <1>4, <3>1, <3>2
  <2> QED
    BY <1>1, <1>2, <1>4, <2>1, <2>2, <2>3, MoveKeeps
<1>5. CASE visits[v].asks.route = "procedure" /\ Moves(v, "note", 200) /\ notes' = notes
  <2>1. PICK c \in VisitRow : MovesOn(v, c) /\ c.phase = "note" /\ c.status = 200
    BY <1>1, <1>5, MoveOn DEF Phases, Statuses
  <2>2. c.admitted /\ c.asks.route = "procedure"
    BY <1>3, <1>5, <2>1 DEF MovesOn
  <2> QED
    BY <1>1, <1>2, <1>5, <2>1, <2>2, MoveKeeps
<1>6. CASE Moves(v, "note", 500) /\ notes' = notes
  <2>1. PICK c \in VisitRow : MovesOn(v, c) /\ c.phase = "note" /\ c.status = 500
    BY <1>1, <1>6, MoveOn DEF Phases, Statuses
  <2> QED
    BY <1>1, <1>2, <1>6, <2>1, MoveKeeps
<1> QED
  BY <1>4, <1>5, <1>6 DEF SearchPublic

\* The event of a call that is about to be noted, if it can be written.
LEMMA TakeNoteStep ==
  ASSUME GatewayInv, NEW v \in Visit, TakeNote(v)
  PROVE  GatewayInv'
<1>1. Shapes /\ Visits /\ v \in DOMAIN visits /\ visits[v].phase = "note"
  BY DEF GatewayInv, TakeNote, Reached
<1>2. buckets' = buckets /\ present' = present /\ Ends(v)
  BY DEF TakeNote
<1>3. PICK c \in VisitRow : MovesOn(v, c) /\ c.phase = "ended" /\ c.status = visits[v].status
  BY <1>1, <1>2, EndOn
<1>4. PICK o \in {"blocked", "success", "error"} : o = NoteOutcome(v)
  BY DEF NoteOutcome
<1>5. \/ notes' = notes
      \/ notes' = notes \cup {NoteOn(v, o, NoVisit, visits[v].window)}
  BY <1>4 DEF TakeNote
<1>6. /\ c.status = 200 /\ c.asks.route # "domain_pack" => c.admitted
      /\ ~(c.status = 200 /\ c.asks.route = "query")
  BY <1>1, <1>3 DEF Visits, VisitFits, MovesOn
<1> QED
  BY <1>1, <1>2, <1>3, <1>5, <1>6, MoveKeeps

\* A call that is lost is answered by nobody.
LEMMA LoseStep ==
  ASSUME GatewayInv, NEW v \in Visit, Lose(v)
  PROVE  GatewayInv'
<1>1. Shapes /\ v \in DOMAIN visits /\ visits[v].phase # "ended"
  BY DEF GatewayInv, Lose
<1>2. Moves(v, "ended", 0) /\ buckets' = buckets /\ present' = present /\ notes' = notes
  BY DEF Lose
<1>3. PICK c \in VisitRow : MovesOn(v, c) /\ c.phase = "ended" /\ c.status = 0
  BY <1>1, <1>2, MoveOn DEF Phases, Statuses
<1> QED
  BY <1>1, <1>2, <1>3, MoveKeeps

\* A call comes: it is refused, answered with the pack, or waits for the gate.
LEMMA ComeStep ==
  ASSUME GatewayInv, NEW v \in Visit, NEW asks \in Comes[v], Come(v, asks)
  PROVE  GatewayInv'
<1>1. Shapes /\ Buckets /\ Visits /\ OneNote /\ Counts /\ Limited
  BY DEF GatewayInv
<1>2. /\ v \notin DOMAIN visits
      /\ buckets' = buckets /\ notes' = notes /\ present' = present
  BY DEF Come
<1>3. PICK c : /\ c \in VisitRow /\ visits' = [u \in DOMAIN visits \cup {v} |-> IF u = v THEN c ELSE visits[u]]
               /\ c.asks = asks /\ c.window = present /\ ~c.admitted
               /\ c.phase \in {"gate", "note", "ended"}
               /\ c.phase = "gate" => c.status = 0
               /\ c.status = 200 => c.asks.route = "domain_pack"
  <2>1. PICK status, phase :
          /\ \/ \E check : status = StatusFor(check) /\ phase \in {"note", "ended"}
             \/ status = 200 /\ asks.route = "domain_pack" /\ phase = "ended"
             \/ status = 0 /\ phase = "gate"
          /\ visits' = [u \in DOMAIN visits \cup {v} |->
                          IF u = v THEN Visited(asks, phase, status) ELSE visits[u]]
    <3>1. PICK check : check = FirstFailed(ChecksBefore(asks.route), asks.wrong)
      OBVIOUS
    <3>3. PICK status :
            status = IF Failed(ChecksBefore(asks.route), asks.wrong) # {} THEN StatusFor(check)
                     ELSE IF asks.route = "domain_pack" THEN 200 ELSE 0
      OBVIOUS
    <3>4. PICK phase :
            phase = IF status \in {403, 503, 200} THEN "ended"
                    ELSE IF Failed(ChecksBefore(asks.route), asks.wrong) # {} THEN "note" ELSE "gate"
      OBVIOUS
    <3>5. visits' = [u \in DOMAIN visits \cup {v} |->
                       IF u = v THEN Visited(asks, phase, status) ELSE visits[u]]
      BY <3>1, <3>3, <3>4 DEF Come
    <3> QED
      BY <3>3, <3>4, <3>5
  <2>2. PICK c : c = [asks |-> asks, phase |-> phase, window |-> present, admitted |-> FALSE, status |-> status]
    OBVIOUS
  <2>3. status \in Statuses /\ phase \in Phases /\ phase \in {"gate", "note", "ended"}
    BY <2>1, CheckStatus DEF Statuses, Phases
  <2>4. c \in VisitRow
    BY <1>1, <2>2, <2>3, KeysOf DEF VisitRow, Shapes
  <2>5. c.status = 200 => c.asks.route = "domain_pack"
    BY <2>1, <2>2, CheckStatus
  <2>6. visits' = [u \in DOMAIN visits \cup {v} |-> IF u = v THEN c ELSE visits[u]]
    BY <2>1, <2>2 DEF Visited
  <2>7. c.phase = "gate" => c.status = 0
    BY <2>1, <2>2
  <2> QED
    BY <2>2, <2>3, <2>4, <2>5, <2>6, <2>7
<1>4. /\ DOMAIN visits' = DOMAIN visits \cup {v} /\ visits'[v] = c
      /\ \A u \in DOMAIN visits : visits'[u] = visits[u]
      /\ visits' = [u \in DOMAIN visits' |-> visits'[u]]
  BY <1>2, <1>3
<1>5. Shapes'
  <2>1. IsFiniteSet(DOMAIN visits')
    BY <1>1, <1>4, FS_AddElement DEF Shapes
  <2>2. \A u \in DOMAIN visits' : visits'[u] \in VisitRow /\ visits'[u].asks \in Comes[u]
    BY <1>1, <1>3, <1>4 DEF Shapes
  <2>3. visits' \in [DOMAIN visits' -> VisitRow] /\ DOMAIN visits' \subseteq Visit
    BY <1>1, <1>4, <2>2 DEF Shapes
  <2> QED
    BY <1>1, <1>2, <2>1, <2>2, <2>3 DEF Shapes
<1>6. Buckets'
  BY <1>1, <1>2, <1>4 DEF Buckets, Waiting
<1>7. Visits'
  <2>1. ASSUME NEW u \in DOMAIN visits PROVE VisitFits(u)'
    <3>1. VisitFits(u) /\ visits'[u] = visits[u]
      BY <1>1, <1>4 DEF Visits
    <3> QED
      BY <1>2, <3>1 DEF VisitFits
  <2>2. VisitFits(v)'
    <3>1. present \in Nat /\ KeptWindows \in Nat /\ KeptWindows > 0
      BY <1>1, GatewayConstants DEF Shapes
    <3>2. present < present + KeptWindows
      BY <3>1
    <3> QED
      BY <1>2, <1>3, <1>4, <3>1, <3>2 DEF VisitFits
  <2> QED
    BY <1>4, <2>1, <2>2 DEF Visits
<1>8. OneNote'
  BY <1>1, <1>2, <1>4 DEF OneNote
<1>9. ASSUME NEW key, NEW w PROVE AdmittedBy(key, w)' = AdmittedBy(key, w)
  BY <1>2, <1>3, <1>4 DEF AdmittedBy
<1>10. \A key, w : BlockedNotes(key, w)' = BlockedNotes(key, w)
  BY <1>2 DEF BlockedNotes
<1>11. Counts'
  BY <1>1, <1>2, <1>9, <1>10 DEF Counts, HasRow
<1>12. Limited'
  BY <1>1, <1>2, <1>9, <1>10 DEF Limited, LimitOf, NoteOn
<1> QED
  BY <1>5, <1>6, <1>7, <1>8, <1>11, <1>12 DEF GatewayInv

\* The next window comes before the row of a waiting call may be deleted.
LEMMA WindowStep ==
  ASSUME GatewayInv, NextPublicWindow
  PROVE  GatewayInv'
<1>1. Shapes /\ Buckets /\ Visits /\ OneNote /\ Counts /\ Limited
  BY DEF GatewayInv
<1>2. /\ visits' = visits /\ buckets' = buckets /\ notes' = notes /\ present' = present + 1
      /\ \A v \in DOMAIN visits : Waiting(v) => present + 1 < visits[v].window + KeptWindows
  BY DEF NextPublicWindow
<1>3. present \in Nat /\ KeptWindows \in Nat
  BY <1>1, GatewayConstants DEF Shapes
<1>4. Shapes'
  BY <1>1, <1>2, <1>3 DEF Shapes
<1>5. Buckets'
  <2>1. \A b \in buckets : b.window \in Nat
    BY <1>1 DEF Shapes, BucketRow
  <2> QED
    BY <1>1, <1>2, <1>3, <2>1 DEF Buckets, Waiting
<1>6. Visits'
  <2>1. ASSUME NEW v \in DOMAIN visits PROVE VisitFits(v)'
    <3>1. VisitFits(v) /\ visits[v].window \in Nat
      BY <1>1, VisitIs DEF Visits, VisitRow
    <3>2. visits[v].window <= present + 1
      BY <1>3, <3>1 DEF VisitFits
    <3>3. visits[v].phase = "gate" => present + 1 < visits[v].window + KeptWindows
      BY <1>2 DEF Waiting
    <3> QED
      BY <1>2, <3>1, <3>2, <3>3 DEF VisitFits
  <2> QED
    BY <1>2, <2>1 DEF Visits
<1>7. OneNote'
  BY <1>1, <1>2 DEF OneNote
<1>8. \A key, w : /\ AdmittedBy(key, w)' = AdmittedBy(key, w)
                  /\ BlockedNotes(key, w)' = BlockedNotes(key, w)
  BY <1>2 DEF AdmittedBy, BlockedNotes
<1>9. Counts'
  <2>1. \A w \in Nat : w + KeptWindows > present + 1 => w + KeptWindows > present
    BY <1>3
  <2> QED
    BY <1>1, <1>2, <1>8, <2>1 DEF Counts, HasRow
<1>10. Limited'
  BY <1>1, <1>2, <1>8 DEF Limited, LimitOf, NoteOn
<1> QED
  BY <1>4, <1>5, <1>6, <1>7, <1>9, <1>10 DEF GatewayInv

\* Nobody has come.
LEMMA InitInv ==
  ASSUME PublicInit
  PROVE  GatewayInv
<1>1. /\ visits = [v \in {} |-> NoVisit] /\ DOMAIN visits = {}
      /\ buckets = {} /\ notes = {} /\ present = 0
  BY DEF PublicInit
<1>2. Shapes
  BY <1>1, FS_EmptySet DEF Shapes
<1>3. Buckets /\ Visits /\ OneNote
  BY <1>1 DEF Buckets, Visits, OneNote
<1>4. \A key, w : AdmittedBy(key, w) = {} /\ BlockedNotes(key, w) = {}
  BY <1>1 DEF AdmittedBy, BlockedNotes
<1>5. Counts
  BY <1>1, <1>4 DEF Counts
<1>6. Limited
  <2>1. \A key : LimitOf(key) \in Nat
    BY LimitIs
  <2>2. \A key, w : Cardinality(AdmittedBy(key, w)) = 0
    BY <1>4, FS_EmptySet
  <2> QED
    BY <1>1, <1>4, <2>1, <2>2 DEF Limited
<1> QED
  BY <1>2, <1>3, <1>5, <1>6 DEF GatewayInv

-----------------------------------------------------------------------------
(***************************************************************************)
(* A call passes the gate                                                  *)
(***************************************************************************)
\* What the row of a key counted before a call that waits is counted.
LEMMA CountedSoFar ==
  ASSUME GatewayInv, NEW v \in Visit, Waiting(v), NEW key \in Keys,
         NEW w \in Nat, w = visits[v].window
  PROVE  \E n \in Nat, m \in Visit \cup {NoVisit} :
           /\ n = CountOf(key, w) /\ m = NoteOf(key, w) /\ n <= Ceiling
           /\ m # NoVisit => m \in DOMAIN visits /\ ~Waiting(m)
           /\ Cardinality(AdmittedBy(key, w)) <= n
           /\ BlockedNotes(key, w) = IF n > LimitOf(key) THEN {NoteOn(m, "blocked", key, w)} ELSE {}
<1>1. Shapes /\ Buckets /\ Visits /\ Counts /\ Limited /\ Ceiling \in Nat /\ LimitOf(key) \in Nat
  BY LimitIs DEF GatewayInv
<1>2. CASE HasRow(key, w)
  <2>1. PICK b \in buckets : b.key = key /\ b.window = w
    BY <1>2 DEF HasRow
  <2>2. \A d \in buckets : d.key = key /\ d.window = w => d = b
    BY <1>1, <2>1 DEF Buckets
  <2>3. CountOf(key, w) = b.count /\ NoteOf(key, w) = b.note
    BY <2>1, <2>2 DEF CountOf, NoteOf
  <2>4. /\ b.count \in Nat /\ b.count <= Ceiling /\ b.note \in Visit \cup {NoVisit}
        /\ b.note # NoVisit => b.note \in DOMAIN visits /\ ~Waiting(b.note)
    BY <1>1, <2>1 DEF Shapes, Buckets, BucketRow
  <2>5. Cardinality(AdmittedBy(key, w)) <= b.count
    BY <1>1, <2>1 DEF Counts
  <2>6. BlockedNotes(key, w) = IF b.count > LimitOf(key) THEN {NoteOn(b.note, "blocked", key, w)} ELSE {}
    BY <1>1, <2>1 DEF Limited
  <2> QED
    BY <2>3, <2>4, <2>5, <2>6
<1>3. CASE ~HasRow(key, w)
  <2>1. CountOf(key, w) = 0 /\ NoteOf(key, w) = NoVisit
    BY <1>3 DEF HasRow, CountOf, NoteOf
  <2>2. v \in DOMAIN visits /\ present < w + KeptWindows /\ present \in Nat /\ KeptWindows \in Nat
    BY <1>1, GatewayConstants DEF Shapes, Visits, VisitFits, Waiting
  <2>3. AdmittedBy(key, w) = {} /\ BlockedNotes(key, w) = {}
    BY <1>1, <1>3, <2>2 DEF Counts
  <2>4. Cardinality(AdmittedBy(key, w)) = 0
    BY <2>3, FS_EmptySet
  <2> QED
    BY <1>1, <2>1, <2>3, <2>4
<1> QED
  BY <1>2, <1>3

\* What its row counts and notes with the call.
LEMMA CountedRow ==
  ASSUME GatewayInv, NEW v \in Visit, Waiting(v), NEW key \in Keys,
         NEW w \in Nat, w = visits[v].window, NEW row, row = Counted(v, key, w)
  PROVE  /\ row \in BucketRow /\ row.key = key /\ row.window = w /\ row.count \in 1..Ceiling
         /\ row.note # NoVisit => row.note \in DOMAIN visits /\ (row.note = v \/ ~Waiting(row.note))
         /\ Cardinality(AdmittedBy(key, w)) <= row.count
         /\ Admits(row) => Cardinality(AdmittedBy(key, w)) + 1 <= row.count
                           /\ row.count <= LimitOf(key)
         /\ BlockedNotes(key, w) \cup BlockedNote(v, row) =
              IF row.count > LimitOf(key) THEN {NoteOn(row.note, "blocked", key, w)} ELSE {}
         /\ BlockedNote(v, row) # {} => ~Admits(row)
<1>1. PICK n \in Nat, m \in Visit \cup {NoVisit} :
        /\ n = CountOf(key, w) /\ m = NoteOf(key, w) /\ n <= Ceiling
        /\ m # NoVisit => m \in DOMAIN visits /\ ~Waiting(m)
        /\ Cardinality(AdmittedBy(key, w)) <= n
        /\ BlockedNotes(key, w) = IF n > LimitOf(key) THEN {NoteOn(m, "blocked", key, w)} ELSE {}
  BY CountedSoFar
<1>2. PICK limit \in Nat : limit = LimitOf(key) /\ limit < Ceiling /\ Ceiling \in Nat
  BY LimitIs
<1>3. PICK a \in Nat : a = Cardinality(AdmittedBy(key, w)) /\ a <= n
  BY <1>1, AdmittedFinite DEF GatewayInv
<1>4. PICK k \in Nat : /\ k = CapAt(n + 1) /\ k \in 1..Ceiling /\ n <= k
                       /\ k <= limit => k = n + 1
                       /\ k > limit <=> n + 1 > limit
  BY <1>1, <1>2 DEF CapAt
<1>5. PICK x \in Visit \cup {NoVisit} : x = IF n + 1 = limit + 1 THEN v ELSE m
  OBVIOUS
<1>6. row = [key |-> key, window |-> w, count |-> k, note |-> x]
  BY <1>1, <1>2, <1>4, <1>5 DEF Counted, Crosses
<1>7. row \in BucketRow /\ row.key = key /\ row.window = w /\ row.count = k /\ row.note = x
  BY <1>6 DEF BucketRow
<1>8. v \in DOMAIN visits /\ NoVisit # v /\ m # v
  BY <1>1, GatewayConstants DEF Waiting
<1>9. Admits(row) <=> k <= limit
  BY <1>2, <1>7 DEF Admits
<1>10. BlockedNote(v, row) = IF k > limit /\ x = v THEN {NoteOn(v, "blocked", key, w)} ELSE {}
  BY <1>2, <1>7, <1>9 DEF BlockedNote
<1>11. CASE n > limit
  <2>1. k > limit /\ x = m
    BY <1>2, <1>4, <1>5, <1>11
  <2>2. BlockedNote(v, row) = {}
    BY <1>8, <1>10, <2>1
  <2>3. BlockedNotes(key, w) = {NoteOn(m, "blocked", key, w)}
    BY <1>1, <1>2, <1>11
  <2> QED
    BY <1>1, <1>2, <1>3, <1>4, <1>7, <1>8, <1>9, <2>1, <2>2, <2>3
<1>12. CASE n = limit
  <2>1. k > limit /\ x = v
    BY <1>2, <1>4, <1>5, <1>12
  <2>2. BlockedNote(v, row) = {NoteOn(v, "blocked", key, w)}
    BY <1>10, <2>1
  <2>3. BlockedNotes(key, w) = {}
    BY <1>1, <1>2, <1>12
  <2> QED
    BY <1>1, <1>2, <1>3, <1>4, <1>7, <1>8, <1>9, <2>1, <2>2, <2>3
<1>13. CASE n < limit
  <2>1. k <= limit /\ k = n + 1 /\ x = m
    BY <1>2, <1>4, <1>5, <1>13
  <2>2. BlockedNote(v, row) = {}
    BY <1>2, <1>10, <2>1
  <2>3. BlockedNotes(key, w) = {}
    BY <1>1, <1>2, <1>13
  <2> QED
    BY <1>1, <1>2, <1>3, <1>4, <1>7, <1>8, <1>9, <2>1, <2>2, <2>3
<1> QED
  BY <1>1, <1>2, <1>11, <1>12, <1>13

\* The rows that a call is counted in.
RowsOf(v) ==
  LET whole == Counted(v, Gateway, visits[v].window)
      own == Counted(v, visits[v].asks.client, visits[v].window)
  IN  IF Admits(whole) THEN {whole, own} ELSE {whole}
Admitted(v) == \A row \in RowsOf(v) : Admits(row)

\* They are of the gateway and, if that admits it, of the client, and one of them
\* at most refuses it.
LEMMA RowsAre ==
  ASSUME GatewayInv, NEW v \in Visit, Waiting(v), NEW w \in Nat, w = visits[v].window
  PROVE  /\ \A row \in RowsOf(v) :
              /\ row.key \in Keys /\ row = Counted(v, row.key, w)
              /\ row.key \in {Gateway, visits[v].asks.client}
         /\ \A row, r \in RowsOf(v) : row.key = r.key => row = r
         /\ Admitted(v) => \A key \in {Gateway, visits[v].asks.client} : \E row \in RowsOf(v) : row.key = key
         /\ \A row, r \in RowsOf(v) : ~Admits(row) /\ ~Admits(r) => row = r
<1>1. PICK k : k = visits[v].asks.client
  OBVIOUS
<1>2. k \in Keys /\ Gateway \in Keys /\ k # Gateway
  BY <1>1, VisitIs, KeysOf DEF GatewayInv, Waiting
<1>3. PICK whole : whole = Counted(v, Gateway, w)
  OBVIOUS
<1>4. PICK own : own = Counted(v, k, w)
  OBVIOUS
<1>5. whole.key = Gateway /\ own.key = k
  BY <1>3, <1>4 DEF Counted
<1>6. RowsOf(v) = IF Admits(whole) THEN {whole, own} ELSE {whole}
  BY <1>1, <1>3, <1>4 DEF RowsOf
<1>7. \A row \in RowsOf(v) : row = whole \/ (row = own /\ Admits(whole))
  BY <1>6
<1>8. Admitted(v) => whole \in RowsOf(v) /\ own \in RowsOf(v)
  BY <1>6 DEF Admitted
<1> QED
  BY <1>1, <1>2, <1>3, <1>4, <1>5, <1>7, <1>8

\* What the gate's transaction writes.
Passed(v, c) ==
  /\ RowsOf(v) \subseteq buckets'
  /\ \A b \in buckets' :
       \/ b \in RowsOf(v)
       \/ b \in buckets /\ \A row \in RowsOf(v) : b.key # row.key \/ b.window # row.window
  /\ \A b \in buckets :
       b.window + KeptWindows > visits[v].window =>
         b \in buckets' \/ \E row \in RowsOf(v) : b.key = row.key /\ b.window = row.window
  /\ notes' = notes \cup UNION {BlockedNote(v, row) : row \in RowsOf(v)}
  /\ visits' = [visits EXCEPT ![v] = c] /\ present' = present
  /\ c \in VisitRow /\ c.asks = visits[v].asks /\ c.window = visits[v].window
  /\ c.admitted = Admitted(v)
  /\ IF Admitted(v) THEN c.phase \in {"body", "search"} /\ c.status = 0
     ELSE c.phase = "ended" /\ c.status = 429

\* The transaction writes that.
LEMMA PassIs ==
  ASSUME GatewayInv, NEW v \in Visit, PassGate(v)
  PROVE  \E c : Passed(v, c)
<1>1. Shapes /\ v \in DOMAIN visits /\ Waiting(v) /\ present' = present
  BY DEF GatewayInv, PassGate, Waiting
<1>2. PICK edge \in BOOLEAN :
        LET w == visits[v].window
            kept == KeptBuckets(w, edge)
            whole == Counted(v, Gateway, w)
            own == Counted(v, visits[v].asks.client, w)
            reached == IF Admits(whole) THEN {whole, own} ELSE {whole}
            admitted == \A row \in reached : Admits(row)
        IN /\ buckets' = {b \in kept : \A row \in reached : b \in OtherBuckets(kept, row)} \cup reached
           /\ notes' = notes \cup UNION {BlockedNote(v, row) : row \in reached}
           /\ visits' = [visits EXCEPT
                ![v].admitted = admitted,
                ![v].status = IF admitted THEN 0 ELSE 429,
                ![v].phase = IF ~admitted THEN "ended"
                             ELSE IF visits[v].asks.route = "query" THEN "body" ELSE "search"]
  BY DEF PassGate
<1>3. PICK kept : kept = KeptBuckets(visits[v].window, edge)
  OBVIOUS
<1>4. PICK o \in VisitRow : o = visits[v]
  BY <1>1, VisitIs
<1>5. PICK st : st = IF Admitted(v) THEN 0 ELSE 429
  OBVIOUS
<1>6. PICK ph : ph = IF ~Admitted(v) THEN "ended"
                     ELSE IF visits[v].asks.route = "query" THEN "body" ELSE "search"
  OBVIOUS
<1>7. PICK a \in BOOLEAN : a = Admitted(v)
  BY DEF Admitted
<1>8. PICK c : c = [o EXCEPT !.admitted = a, !.status = st, !.phase = ph]
  OBVIOUS
<1>9. /\ buckets' = {b \in kept : \A row \in RowsOf(v) : b \in OtherBuckets(kept, row)} \cup RowsOf(v)
      /\ notes' = notes \cup UNION {BlockedNote(v, row) : row \in RowsOf(v)}
      /\ visits' = [visits EXCEPT ![v].admitted = Admitted(v), ![v].status = st, ![v].phase = ph]
  BY <1>2, <1>3, <1>5, <1>6 DEF RowsOf, Admitted
<1>10. visits' = [visits EXCEPT ![v] = c]
  BY <1>1, <1>4, <1>7, <1>8, <1>9 DEF Shapes
<1>11. /\ c \in VisitRow /\ c.asks = o.asks /\ c.window = o.window
       /\ c.admitted = a /\ c.status = st /\ c.phase = ph
  <2>1. st \in Statuses /\ ph \in Phases
    BY <1>5, <1>6 DEF Statuses, Phases
  <2> QED
    BY <1>4, <1>7, <1>8, <2>1 DEF VisitRow
<1>12. /\ kept \subseteq buckets
       /\ \A b \in buckets : b.window + KeptWindows > visits[v].window => b \in kept
  BY <1>3 DEF KeptBuckets
<1>13. \A b \in kept : \A row \in RowsOf(v) :
         b \in OtherBuckets(kept, row) <=> b.key # row.key \/ b.window # row.window
  BY DEF OtherBuckets
<1>14. /\ RowsOf(v) \subseteq buckets'
       /\ \A b \in buckets' :
            \/ b \in RowsOf(v)
            \/ b \in buckets /\ \A row \in RowsOf(v) : b.key # row.key \/ b.window # row.window
       /\ \A b \in buckets :
            b.window + KeptWindows > visits[v].window =>
              b \in buckets' \/ \E row \in RowsOf(v) : b.key = row.key /\ b.window = row.window
  BY <1>9, <1>12, <1>13
<1>15. /\ c.asks = visits[v].asks /\ c.window = visits[v].window /\ c.admitted = Admitted(v)
       /\ IF Admitted(v) THEN c.phase \in {"body", "search"} /\ c.status = 0
          ELSE c.phase = "ended" /\ c.status = 429
  BY <1>4, <1>5, <1>6, <1>7, <1>11
<1> QED
  BY <1>1, <1>9, <1>10, <1>11, <1>14, <1>15, ZenonT(60) DEF Passed

\* The call is added to what its gateway and client have admitted, or to nothing.
LEMMA PassAdmits ==
  ASSUME GatewayInv, NEW v \in Visit, Waiting(v), NEW c, Passed(v, c), NEW key, NEW w
  PROVE  AdmittedBy(key, w)' =
           IF Admitted(v) /\ w = visits[v].window /\ key \in {Gateway, visits[v].asks.client}
           THEN AdmittedBy(key, w) \cup {v} ELSE AdmittedBy(key, w)
<1>1. /\ v \in DOMAIN visits /\ DOMAIN visits' = DOMAIN visits /\ visits'[v] = c
      /\ \A u \in DOMAIN visits \ {v} : visits'[u] = visits[u]
  BY DEF GatewayInv, Shapes, Passed, Waiting
<1>2. c.asks = visits[v].asks /\ c.window = visits[v].window /\ c.admitted = Admitted(v)
  BY DEF Passed
<1>3. v \notin AdmittedBy(key, w)
  BY <1>1 DEF GatewayInv, Visits, VisitFits, Waiting, AdmittedBy
<1>4. v \in AdmittedBy(key, w)' <=>
        Admitted(v) /\ w = visits[v].window /\ key \in {Gateway, visits[v].asks.client}
  BY <1>1, <1>2 DEF AdmittedBy
<1>5. \A u \in DOMAIN visits \ {v} : u \in AdmittedBy(key, w)' <=> u \in AdmittedBy(key, w)
  BY <1>1 DEF AdmittedBy
<1>6. AdmittedBy(key, w) \subseteq DOMAIN visits /\ AdmittedBy(key, w)' \subseteq DOMAIN visits
  BY <1>1 DEF AdmittedBy
<1> QED
  BY <1>3, <1>4, <1>5, <1>6

\* The events of a window: those of a row the call is counted in gain what the
\* call notes, the others nothing.
LEMMA PassNotes ==
  ASSUME GatewayInv, NEW v \in Visit, Waiting(v), NEW c, Passed(v, c)
  PROVE  /\ \A row \in RowsOf(v) :
              BlockedNotes(row.key, row.window)' =
                BlockedNotes(row.key, row.window) \cup BlockedNote(v, row)
         /\ \A key, w : (\A row \in RowsOf(v) : row.key # key \/ row.window # w)
                          => BlockedNotes(key, w)' = BlockedNotes(key, w)
<1>1. notes' = notes \cup UNION {BlockedNote(v, row) : row \in RowsOf(v)}
  BY DEF Passed
<1>2. \A row : \A n \in BlockedNote(v, row) :
        n.outcome = "blocked" /\ n.key = row.key /\ n.window = row.window
  BY DEF BlockedNote, NoteOn
<1>3. \A row, r \in RowsOf(v) : row.key = r.key => row = r
  BY RowsAre, VisitIs DEF GatewayInv, Waiting, VisitRow
<1>4. \A row \in RowsOf(v) : BlockedNote(v, row) \subseteq notes'
  BY <1>1
<1>5. \A n \in notes' : n \in notes \/ \E row \in RowsOf(v) : n \in BlockedNote(v, row)
  BY <1>1
<1>6. notes \subseteq notes'
  BY <1>1
<1>7. ASSUME NEW row \in RowsOf(v)
      PROVE  BlockedNotes(row.key, row.window)' =
               BlockedNotes(row.key, row.window) \cup BlockedNote(v, row)
  <2>1. PICK key, w : key = row.key /\ w = row.window
    OBVIOUS
  <2>2. {n \in notes' : n.outcome = "blocked" /\ n.key = key /\ n.window = w}
          = {n \in notes : n.outcome = "blocked" /\ n.key = key /\ n.window = w} \cup BlockedNote(v, row)
    BY <1>2, <1>3, <1>4, <1>5, <1>6, <2>1
  <2>3. BlockedNotes(row.key, row.window)'
          = {n \in notes' : n.outcome = "blocked" /\ n.key = key /\ n.window = w}
    <3>1. row.key = key /\ row.window = w
      BY <2>1
    <3>2. BlockedNotes(key, w)' = {n \in notes' : n.outcome = "blocked" /\ n.key = key /\ n.window = w}
      BY DEF BlockedNotes
    <3> QED
      BY <3>1, <3>2
  <2> QED
    BY <2>1, <2>2, <2>3 DEF BlockedNotes
<1>8. ASSUME NEW key, NEW w, \A row \in RowsOf(v) : row.key # key \/ row.window # w
      PROVE  BlockedNotes(key, w)' = BlockedNotes(key, w)
  BY <1>2, <1>5, <1>6, <1>8 DEF BlockedNotes
<1> QED
  BY <1>7, <1>8

\* What is known of a row the call is counted in.
LEMMA RowFacts ==
  ASSUME GatewayInv, NEW v \in Visit, Waiting(v), NEW row \in RowsOf(v)
  PROVE  /\ row \in BucketRow /\ row.window = visits[v].window /\ row.count \in 1..Ceiling
         /\ row.key \in Keys /\ row.key \in {Gateway, visits[v].asks.client}
         /\ row.note # NoVisit => row.note \in DOMAIN visits /\ (row.note = v \/ ~Waiting(row.note))
         /\ Cardinality(AdmittedBy(row.key, row.window)) <= row.count
         /\ Admits(row) => Cardinality(AdmittedBy(row.key, row.window)) + 1 <= row.count
                           /\ row.count <= LimitOf(row.key)
         /\ BlockedNotes(row.key, row.window) \cup BlockedNote(v, row) =
              IF row.count > LimitOf(row.key)
              THEN {NoteOn(row.note, "blocked", row.key, row.window)} ELSE {}
         /\ BlockedNote(v, row) # {} => ~Admits(row)
<1>1. PICK w \in Nat : w = visits[v].window
  BY VisitIs DEF GatewayInv, Waiting, VisitRow
<1>2. PICK key \in Keys : key = row.key /\ row = Counted(v, key, w)
                          /\ key \in {Gateway, visits[v].asks.client}
  BY <1>1, RowsAre
<1>3. /\ row \in BucketRow /\ row.key = key /\ row.window = w /\ row.count \in 1..Ceiling
      /\ row.note # NoVisit => row.note \in DOMAIN visits /\ (row.note = v \/ ~Waiting(row.note))
      /\ Cardinality(AdmittedBy(key, w)) <= row.count
      /\ Admits(row) => Cardinality(AdmittedBy(key, w)) + 1 <= row.count
                        /\ row.count <= LimitOf(key)
      /\ BlockedNotes(key, w) \cup BlockedNote(v, row) =
           IF row.count > LimitOf(key) THEN {NoteOn(row.note, "blocked", key, w)} ELSE {}
      /\ BlockedNote(v, row) # {} => ~Admits(row)
  BY <1>1, <1>2, CountedRow
<1> QED
  BY <1>1, <1>2, <1>3

\* How many a window has admitted after the call: as its row has counted.
LEMMA PassCounts ==
  ASSUME GatewayInv, NEW v \in Visit, Waiting(v), NEW c, Passed(v, c)
  PROVE  /\ \A row \in RowsOf(v) :
              /\ Cardinality(AdmittedBy(row.key, row.window)') <= row.count
              /\ Cardinality(AdmittedBy(row.key, row.window)') <= LimitOf(row.key)
         /\ \A key, w : (\A row \in RowsOf(v) : row.key # key \/ row.window # w)
                          => AdmittedBy(key, w)' = AdmittedBy(key, w)
<1>1. ASSUME NEW row \in RowsOf(v)
      PROVE  /\ Cardinality(AdmittedBy(row.key, row.window)') <= row.count
             /\ Cardinality(AdmittedBy(row.key, row.window)') <= LimitOf(row.key)
  <2>1. PICK S : S = AdmittedBy(row.key, row.window)
    OBVIOUS
  <2>2. IsFiniteSet(S) /\ Cardinality(S) \in Nat
    BY <2>1, AdmittedFinite DEF GatewayInv
  <2>3. AdmittedBy(row.key, row.window)' = IF Admitted(v) THEN S \cup {v} ELSE S
    <3>1. row.window = visits[v].window /\ row.key \in {Gateway, visits[v].asks.client}
      BY RowFacts
    <3>2. AdmittedBy(row.key, row.window)' =
            IF Admitted(v) /\ row.window = visits[v].window /\ row.key \in {Gateway, visits[v].asks.client}
            THEN AdmittedBy(row.key, row.window) \cup {v} ELSE AdmittedBy(row.key, row.window)
      BY PassAdmits
    <3> QED
      BY <2>1, <3>1, <3>2
  <2>4. /\ row.count \in Nat /\ Cardinality(S) <= row.count
        /\ Admits(row) => Cardinality(S) + 1 <= row.count /\ row.count <= LimitOf(row.key)
    BY <2>1, RowFacts DEF BucketRow
  <2>5. Cardinality(S) <= LimitOf(row.key)
    <3>1. row.key \in Keys /\ row.window \in Nat
      BY RowFacts DEF BucketRow
    <3> QED
      BY <2>1, <3>1 DEF GatewayInv, Limited
  <2>6. LimitOf(row.key) \in Nat
    BY LimitIs
  <2>7. CASE ~Admitted(v)
    BY <2>3, <2>4, <2>5, <2>7
  <2>8. CASE Admitted(v)
    <3>1. Admits(row)
      BY <2>8 DEF Admitted
    <3>2. Cardinality(S \cup {v}) \in Nat /\ Cardinality(S \cup {v}) <= Cardinality(S) + 1
      <4>1. Cardinality(S \cup {v}) = IF v \in S THEN Cardinality(S) ELSE Cardinality(S) + 1
        BY <2>2, FS_AddElement
      <4>2. PICK n \in Nat : n = Cardinality(S)
        BY <2>2
      <4> QED
        BY <4>1, <4>2
    <3> QED
      BY <2>2, <2>3, <2>4, <2>6, <2>8, <3>1, <3>2
  <2> QED
    BY <2>7, <2>8
<1>2. ASSUME NEW key, NEW w, \A row \in RowsOf(v) : row.key # key \/ row.window # w
      PROVE  AdmittedBy(key, w)' = AdmittedBy(key, w)
  <2>1. PICK x \in Nat : x = visits[v].window
    BY VisitIs DEF GatewayInv, Waiting, VisitRow
  <2>2. Admitted(v) => \A k \in {Gateway, visits[v].asks.client} : \E row \in RowsOf(v) : row.key = k
    BY <2>1, RowsAre
  <2>3. \A row \in RowsOf(v) : row.window = visits[v].window
    BY RowFacts
  <2>4. ~(Admitted(v) /\ w = visits[v].window /\ key \in {Gateway, visits[v].asks.client})
    BY <1>2, <2>2, <2>3
  <2> QED
    BY <2>4, PassAdmits
<1> QED
  BY <1>1, <1>2

\* The rows and the calls keep their shape.
LEMMA PassShapes ==
  ASSUME GatewayInv, NEW v \in Visit, Waiting(v), NEW c, Passed(v, c)
  PROVE  Shapes' /\ Buckets'
<1>1. Shapes /\ Buckets /\ Visits /\ v \in DOMAIN visits
  BY DEF GatewayInv, Waiting
<1>2. /\ DOMAIN visits' = DOMAIN visits /\ visits'[v] = c /\ c.phase # "gate"
      /\ \A u \in DOMAIN visits \ {v} : visits'[u] = visits[u]
      /\ visits' \in [DOMAIN visits -> VisitRow] /\ c.asks = visits[v].asks /\ present' = present
  BY <1>1 DEF Shapes, Passed
<1>3. /\ \A b \in buckets' :
           \/ b \in RowsOf(v)
           \/ b \in buckets /\ \A row \in RowsOf(v) : b.key # row.key \/ b.window # row.window
      /\ notes' = notes \cup UNION {BlockedNote(v, row) : row \in RowsOf(v)}
  BY DEF Passed
<1>4. \A row \in RowsOf(v) :
        /\ row \in BucketRow /\ row.window = visits[v].window /\ row.count \in 1..Ceiling
        /\ row.note # NoVisit => row.note \in DOMAIN visits /\ (row.note = v \/ ~Waiting(row.note))
  BY RowFacts
<1>5. Shapes'
  <2>1. buckets' \subseteq BucketRow
    BY <1>1, <1>3, <1>4 DEF Shapes
  <2>2. notes' \subseteq NoteRow
    <3>1. ASSUME NEW row \in RowsOf(v) PROVE BlockedNote(v, row) \subseteq NoteRow
      <4>1. row.key \in Keys /\ row.window \in Nat
        BY RowFacts DEF BucketRow
      <4>2. NoteOn(v, "blocked", row.key, row.window) \in NoteRow
        BY <4>1 DEF NoteOn, NoteRow
      <4> QED
        BY <4>2 DEF BlockedNote
    <3> QED
      BY <1>1, <1>3, <3>1 DEF Shapes
  <2>3. \A u \in DOMAIN visits' : visits'[u].asks \in Comes[u]
    BY <1>1, <1>2 DEF Shapes
  <2> QED
    BY <1>1, <1>2, <2>1, <2>2, <2>3 DEF Shapes
<1>6. Buckets'
  <2>1. visits[v].window <= present
    BY <1>1 DEF Visits, VisitFits
  <2>2. \A b \in buckets' : b.count \in 1..Ceiling /\ b.window <= present
    BY <1>1, <1>3, <1>4, <2>1 DEF Buckets
  <2>3. \A b, d \in buckets' : b.key = d.key /\ b.window = d.window => b = d
    <3>1. \A row, r \in RowsOf(v) : row.key = r.key => row = r
      BY RowsAre, VisitIs DEF GatewayInv, Waiting, VisitRow
    <3> QED
      BY <1>1, <1>3, <3>1 DEF Buckets
  <2>4. \A b \in buckets' : b.note # NoVisit => b.note \in DOMAIN visits' /\ ~Waiting(b.note)'
    <3>1. \A u \in DOMAIN visits : u = v \/ ~Waiting(u) => ~Waiting(u)'
      BY <1>2 DEF Waiting
    <3>2. \A b \in buckets : b.note # NoVisit => b.note \in DOMAIN visits /\ ~Waiting(b.note)
      BY <1>1 DEF Buckets
    <3> QED
      BY <1>2, <1>3, <1>4, <3>1, <3>2
  <2> QED
    BY <1>2, <2>2, <2>3, <2>4 DEF Buckets
<1> QED
  BY <1>5, <1>6

\* The call leaves the gate, and is noted once at most.
LEMMA PassVisits ==
  ASSUME GatewayInv, NEW v \in Visit, Waiting(v), NEW c, Passed(v, c)
  PROVE  Visits' /\ OneNote'
<1>1. /\ Shapes /\ Visits /\ OneNote /\ v \in DOMAIN visits
      /\ visits[v].phase = "gate"
  BY DEF GatewayInv, Waiting
<1>2. /\ DOMAIN visits' = DOMAIN visits /\ visits'[v] = c /\ present' = present
      /\ \A u \in DOMAIN visits \ {v} : visits'[u] = visits[u]
  BY <1>1 DEF Shapes, Passed
<1>3. notes' = notes \cup UNION {BlockedNote(v, row) : row \in RowsOf(v)}
  BY DEF Passed
<1>4. Visits'
  <2>1. ASSUME NEW u \in DOMAIN visits, u # v PROVE VisitFits(u)'
    <3>1. VisitFits(u) /\ visits'[u] = visits[u] /\ notes \subseteq notes'
      BY <1>1, <1>2, <1>3, <2>1 DEF Visits
    <3> QED
      BY <1>2, <3>1 DEF VisitFits
  <2>2. VisitFits(v)'
    <3>1. /\ c.window <= present /\ c.phase # "gate" /\ c.status # 200
          /\ c.phase \in {"body", "search"} => c.admitted /\ c.status = 0
      BY <1>1 DEF Visits, VisitFits, Passed
    <3> QED
      BY <1>2, <3>1 DEF VisitFits
  <2> QED
    BY <1>2, <2>1, <2>2 DEF Visits
<1>5. OneNote'
  <2>1. \A n \in notes : n.visit \in DOMAIN visits /\ n.visit # v
    BY <1>1 DEF OneNote
  <2>2. ASSUME NEW row \in RowsOf(v), NEW n \in BlockedNote(v, row)
        PROVE  n.visit = v /\ ~Admits(row) /\ n = NoteOn(v, "blocked", row.key, row.window)
    BY <2>2 DEF BlockedNote, NoteOn
  <2>3. \A row, r \in RowsOf(v) : ~Admits(row) /\ ~Admits(r) => row = r
    BY RowsAre, VisitIs DEF GatewayInv, Waiting, VisitRow
  <2>4. \A n \in notes' : n \in notes \/ \E row \in RowsOf(v) : n \in BlockedNote(v, row)
    BY <1>3
  <2>5. \A n, m \in notes' : n.visit = m.visit => n = m
    BY <1>1, <2>1, <2>2, <2>3, <2>4 DEF OneNote
  <2>6. \A n \in notes' : n.visit \in DOMAIN visits' /\ visits'[n.visit].phase = "ended"
    <3>1. \A row \in RowsOf(v) : ~Admits(row) => c.phase = "ended"
      BY DEF Passed, Admitted
    <3> QED
      BY <1>1, <1>2, <2>1, <2>2, <2>4, <3>1 DEF OneNote
  <2> QED
    BY <2>5, <2>6 DEF OneNote
<1> QED
  BY <1>4, <1>5

\* The rows have counted what their windows admitted and note their refusals.
LEMMA PassWindows ==
  ASSUME GatewayInv, NEW v \in Visit, Waiting(v), NEW c, Passed(v, c)
  PROVE  Counts' /\ Limited'
<1>1. Shapes /\ Buckets /\ Visits /\ Counts /\ Limited /\ v \in DOMAIN visits
  BY DEF GatewayInv, Waiting
<1>2. /\ RowsOf(v) \subseteq buckets' /\ present' = present
      /\ \A b \in buckets' :
           \/ b \in RowsOf(v)
           \/ b \in buckets /\ \A row \in RowsOf(v) : b.key # row.key \/ b.window # row.window
      /\ \A b \in buckets : b.window + KeptWindows > visits[v].window =>
           b \in buckets' \/ \E row \in RowsOf(v) : b.key = row.key /\ b.window = row.window
  BY DEF Passed
<1>3. \A key, w : (\A row \in RowsOf(v) : row.key # key \/ row.window # w)
                    => /\ AdmittedBy(key, w)' = AdmittedBy(key, w)
                       /\ BlockedNotes(key, w)' = BlockedNotes(key, w)
  BY PassCounts, PassNotes
<1>4. ASSUME NEW row \in RowsOf(v)
      PROVE  /\ Cardinality(AdmittedBy(row.key, row.window)') <= row.count
             /\ Cardinality(AdmittedBy(row.key, row.window)') <= LimitOf(row.key)
             /\ BlockedNotes(row.key, row.window)' =
                  IF row.count > LimitOf(row.key)
                  THEN {NoteOn(row.note, "blocked", row.key, row.window)} ELSE {}
  BY PassCounts, PassNotes, RowFacts
<1>5. Counts'
  <2>1. ASSUME NEW b \in buckets' PROVE Cardinality(AdmittedBy(b.key, b.window)') <= b.count
    <3>1. CASE b \in RowsOf(v)
      BY <1>4, <3>1
    <3>2. CASE b \notin RowsOf(v)
      <4>1. b \in buckets /\ \A row \in RowsOf(v) : row.key # b.key \/ row.window # b.window
        BY <1>2, <3>2
      <4>2. AdmittedBy(b.key, b.window)' = AdmittedBy(b.key, b.window)
        BY <1>3, <4>1
      <4> QED
        BY <1>1, <4>1, <4>2 DEF Counts
    <3> QED
      BY <3>1, <3>2
  <2>2. ASSUME NEW key \in Keys, NEW w \in Nat, w + KeptWindows > present, ~HasRow(key, w)'
        PROVE  AdmittedBy(key, w)' = {} /\ BlockedNotes(key, w)' = {}
    <3>1. \A b \in buckets' : b.key # key \/ b.window # w
      BY <2>2 DEF HasRow
    <3>2. \A row \in RowsOf(v) : row.key # key \/ row.window # w
      BY <1>2, <3>1
    <3>3. ~HasRow(key, w)
      <4>1. SUFFICES ASSUME NEW b \in buckets, b.key = key, b.window = w
                     PROVE  FALSE
        BY DEF HasRow
      <4>2. visits[v].window \in Nat /\ visits[v].window <= present /\ present \in Nat /\ KeptWindows \in Nat
        BY <1>1, VisitIs, GatewayConstants DEF Shapes, Visits, VisitFits, VisitRow
      <4>3. b.window + KeptWindows > visits[v].window
        BY <2>2, <4>1, <4>2
      <4> QED
        BY <1>2, <3>1, <3>2, <4>1, <4>3
    <3>4. AdmittedBy(key, w) = {} /\ BlockedNotes(key, w) = {}
      BY <1>1, <2>2, <3>3 DEF Counts
    <3> QED
      BY <1>3, <3>2, <3>4
  <2> QED
    BY <1>2, <2>1, <2>2 DEF Counts
<1>6. Limited'
  <2>1. ASSUME NEW key \in Keys, NEW w \in Nat
        PROVE  /\ Cardinality(AdmittedBy(key, w)') <= LimitOf(key)
               /\ \A n, m \in BlockedNotes(key, w)' : n = m
    <3>1. CASE \E row \in RowsOf(v) : row.key = key /\ row.window = w
      <4>1. PICK row \in RowsOf(v) : row.key = key /\ row.window = w
        BY <3>1
      <4>2. /\ Cardinality(AdmittedBy(row.key, row.window)') <= LimitOf(row.key)
            /\ \A n, m \in BlockedNotes(row.key, row.window)' : n = m
        BY <1>4
      <4> QED
        BY <4>1, <4>2
    <3>2. CASE \A row \in RowsOf(v) : row.key # key \/ row.window # w
      <4>1. AdmittedBy(key, w)' = AdmittedBy(key, w) /\ BlockedNotes(key, w)' = BlockedNotes(key, w)
        BY <1>3, <3>2
      <4> QED
        BY <1>1, <4>1 DEF Limited
    <3> QED
      BY <3>1, <3>2
  <2>2. ASSUME NEW b \in buckets'
        PROVE  BlockedNotes(b.key, b.window)' =
                 IF b.count > LimitOf(b.key) THEN {NoteOn(b.note, "blocked", b.key, b.window)} ELSE {}
    <3>1. CASE b \in RowsOf(v)
      BY <1>4, <3>1
    <3>2. CASE b \notin RowsOf(v)
      <4>1. b \in buckets /\ \A row \in RowsOf(v) : row.key # b.key \/ row.window # b.window
        BY <1>2, <3>2
      <4>2. BlockedNotes(b.key, b.window)' = BlockedNotes(b.key, b.window)
        BY <1>3, <4>1
      <4> QED
        BY <1>1, <4>1, <4>2 DEF Limited
    <3> QED
      BY <3>1, <3>2
  <2> QED
    BY <2>1, <2>2 DEF Limited
<1> QED
  BY <1>5, <1>6

\* A call passes the gate.
LEMMA PassGateStep ==
  ASSUME GatewayInv, NEW v \in Visit, PassGate(v)
  PROVE  GatewayInv'
<1>1. Waiting(v)
  BY DEF PassGate
<1>2. PICK c : Passed(v, c)
  BY PassIs
<1> QED
  BY <1>1, <1>2, PassShapes, PassVisits, PassWindows DEF GatewayInv

-----------------------------------------------------------------------------
(***************************************************************************)
(* The theorems                                                            *)
(***************************************************************************)
\* Every step of the gateway keeps the invariant.
LEMMA InvStep ==
  ASSUME GatewayInv, [PublicNext]_publicVars
  PROVE  GatewayInv'
<1>1. CASE UNCHANGED publicVars
  <2>1. visits' = visits /\ buckets' = buckets /\ notes' = notes /\ present' = present
    BY <1>1 DEF publicVars
  <2>2. \A key, w : /\ AdmittedBy(key, w)' = AdmittedBy(key, w)
                    /\ BlockedNotes(key, w)' = BlockedNotes(key, w)
    BY <2>1 DEF AdmittedBy, BlockedNotes
  <2>3. Shapes' /\ Buckets' /\ OneNote'
    BY <2>1 DEF GatewayInv, Shapes, Buckets, OneNote, Waiting
  <2>4. Visits'
    BY <2>1 DEF GatewayInv, Visits, VisitFits
  <2>5. Counts' /\ Limited'
    BY <2>1, <2>2 DEF GatewayInv, Counts, Limited, HasRow
  <2> QED
    BY <2>3, <2>4, <2>5 DEF GatewayInv
<1>2. ASSUME NEW v \in Visit, NEW asks \in Comes[v], Come(v, asks) PROVE GatewayInv'
  BY <1>2, ComeStep
<1>3. ASSUME NEW v \in Visit,
             PassGate(v) \/ GateFails(v) \/ ReadQuery(v) \/ SearchPublic(v) \/ TakeNote(v) \/ Lose(v)
      PROVE  GatewayInv'
  BY <1>3, PassGateStep, GateFailsStep, ReadQueryStep, SearchPublicStep, TakeNoteStep, LoseStep
<1>4. CASE NextPublicWindow
  BY <1>4, WindowStep
<1> QED
  BY <1>1, <1>2, <1>3, <1>4 DEF PublicNext

\* The invariant of the gateway: rows, calls and events have their columns, and
\* each row has counted at least the calls its window admitted and names its one
\* refusal.
THEOREM Invariant == PublicSpec => []GatewayInv
<1>1. PublicInit => GatewayInv
  BY InitInv
<1>2. GatewayInv /\ [PublicNext]_publicVars => GatewayInv'
  BY InvStep
<1> QED
  BY <1>1, <1>2, PTL DEF PublicSpec

\* The type invariant, which says also that a window has one row of a key.
THEOREM Types == PublicSpec => []PublicTypeOK
<1>1. GatewayInv => PublicTypeOK
  <2>1. SUFFICES ASSUME GatewayInv PROVE PublicTypeOK
    OBVIOUS
  <2>2. Shapes /\ Buckets /\ Visits /\ OneNote
    BY <2>1 DEF GatewayInv
  <2>3. ASSUME NEW v \in DOMAIN visits
        PROVE  /\ visits[v].asks \in Comes[v]
               /\ visits[v].phase \in {"gate", "body", "search", "note", "ended"}
               /\ visits[v].window \in 0..present /\ visits[v].admitted \in BOOLEAN
               /\ visits[v].status \in {0, 200, 400, 403, 405, 429, 500, 503}
    BY <2>2, VisitIs DEF Shapes, Visits, VisitFits, VisitRow, Phases, Statuses
  <2>4. \A b \in buckets : b.note \in Visit \cup {NoVisit} /\ b.window \in 0..present
    BY <2>2 DEF Shapes, Buckets, BucketRow
  <2>5. \A n \in notes : n.outcome \in {"blocked", "success", "error"}
    BY <2>2 DEF Shapes, NoteRow
  <2> QED
    BY <2>2, <2>3, <2>4, <2>5 DEF PublicTypeOK, Shapes, Buckets, OneNote
<1> QED
  BY <1>1, Invariant, PTL

\* For any number of calls that overlap, fail and cross windows: neither limit is
\* exceeded, a window that refused has one event of it, nothing is searched for a call
\* that was not admitted, and no call has two events.
THEOREM Windows == PublicSpec => []PublicWindowsHold
<1>1. GatewayInv => PublicWindowsHold
  <2>1. SUFFICES ASSUME GatewayInv PROVE PublicWindowsHold
    OBVIOUS
  <2>2. Shapes /\ Visits /\ OneNote /\ Limited
    BY <2>1 DEF GatewayInv
  <2>3. ASSUME NEW S, \A n, m \in S : n = m PROVE Cardinality(S) <= 1
    <3>1. CASE S = {}
      BY <3>1, FS_EmptySet
    <3>2. CASE S # {}
      <4>1. PICK n : S = {n}
        BY <2>3, <3>2
      <4>2. Cardinality({n}) = 1
        BY FS_Singleton
      <4> QED
        BY <4>1, <4>2
    <3> QED
      BY <3>1, <3>2
  <2>4. ASSUME NEW w \in 0..present, NEW key \in {Gateway} \cup {visits[v].asks.client : v \in DOMAIN visits}
        PROVE  Cardinality(AdmittedBy(key, w)) <= LimitOf(key) /\ Cardinality(BlockedNotes(key, w)) <= 1
    <3>1. key \in Keys
      BY <2>2, VisitIs, KeysOf DEF Keys
    <3>2. w \in Nat
      BY <2>2 DEF Shapes
    <3> QED
      BY <2>2, <2>3, <3>1, <3>2 DEF Limited
  <2>5. ASSUME NEW v \in DOMAIN visits PROVE Cardinality({n \in notes : n.visit = v}) <= 1
    BY <2>2, <2>3 DEF OneNote
  <2>6. \A v \in DOMAIN visits :
          /\ visits[v].status = 200 /\ visits[v].asks.route # "domain_pack" => visits[v].admitted
          /\ visits[v].status = 200 /\ visits[v].asks.route = "query" =>
               \E n \in notes : n.visit = v /\ n.outcome = "success"
    BY <2>2 DEF Visits, VisitFits
  <2>7. \A b \in buckets :
          BlockedNotes(b.key, b.window) =
            IF b.count > LimitOf(b.key) THEN {NoteOn(b.note, "blocked", b.key, b.window)} ELSE {}
    BY <2>2 DEF Limited
  <2>8. \A w \in 0..present, key \in {Gateway} \cup {visits[v].asks.client : v \in DOMAIN visits} :
          /\ Cardinality(AdmittedBy(key, w)) <= LimitOf(key)
          /\ Cardinality(BlockedNotes(key, w)) <= 1
    BY <2>4
  <2>9. \A v \in DOMAIN visits :
          /\ visits[v].status = 200 /\ visits[v].asks.route # "domain_pack" => visits[v].admitted
          /\ visits[v].status = 200 /\ visits[v].asks.route = "query" =>
               \E n \in notes : n.visit = v /\ n.outcome = "success"
          /\ Cardinality({n \in notes : n.visit = v}) <= 1
    BY <2>5, <2>6
  <2> QED
    BY <2>7, <2>8, <2>9 DEF PublicWindowsHold
<1> QED
  BY <1>1, Invariant, PTL

-------------------------------------------------------------------------------
(***************************************************************************)
(* CatalogPages                                                            *)
(***************************************************************************)

EntryRow == [id : EntryId, at : Microsecond, matches : BOOLEAN]
OneRowPerId(S) == \A e, f \in S : e.id = f.id => e = f
EntrySet(S) == IsFiniteSet(S) /\ S \subseteq EntryRow /\ OneRowPerId(S)

\* (created_at, id) orders the entries, each before the other or the same one.
LEMMA LessThanOrders ==
  ASSUME NEW S, EntrySet(S)
  PROVE  /\ \A e, f \in S : e = f \/ LessThan(e, f) \/ LessThan(f, e)
         /\ \A e \in S : ~LessThan(e, e)
         /\ \A e, f \in S : LessThan(e, f) => ~LessThan(f, e)
         /\ \A e, f, g \in S : LessThan(e, f) /\ LessThan(f, g) => LessThan(e, g)
<1>1. \A e \in S : e.at \in Nat /\ e.id \in Nat
  BY CatalogConstants DEF EntrySet, EntryRow
<1>2. \A e, f \in S : e.id = f.id => e = f
  BY DEF EntrySet, OneRowPerId
<1>3. QED  BY <1>1, <1>2 DEF LessThan

\* A subset of the entries orders them alike.
LEMMA SubsetOrders ==
  ASSUME NEW S, EntrySet(S), NEW T \in SUBSET S
  PROVE  EntrySet(T)
<1>1. IsFiniteSet(T)
  BY FS_Subset DEF EntrySet
<1>2. QED  BY <1>1 DEF EntrySet, OneRowPerId

\* Of two entries the newer one has the lower rank, and ranks are below the number of entries.
LEMMA Ranks ==
  ASSUME NEW S, EntrySet(S)
  PROVE  /\ \A e \in S : Rank(e, S) \in Nat /\ Rank(e, S) < Cardinality(S)
         /\ \A e, f \in S : LessThan(e, f) => Rank(f, S) < Rank(e, S)
<1> DEFINE Newer(e) == {f \in S : LessThan(e, f)}
<1>1. IsFiniteSet(S)
  BY DEF EntrySet
<1>2. \A T \in SUBSET S : IsFiniteSet(T) /\ Cardinality(T) \in Nat
  BY <1>1, FS_Subset, FS_CardinalityType
<1>3. ASSUME NEW T \in SUBSET S, NEW U \in SUBSET T, U # T
      PROVE  Cardinality(U) < Cardinality(T)
  <2>1. IsFiniteSet(T) /\ IsFiniteSet(U) /\ Cardinality(T) \in Nat /\ Cardinality(U) \in Nat
    BY <1>2
  <2>2. Cardinality(U) <= Cardinality(T) /\ Cardinality(U) # Cardinality(T)
    BY <1>3, <2>1, FS_Subset
  <2>3. QED  BY <2>1, <2>2
<1>4. ASSUME NEW e \in S PROVE Rank(e, S) \in Nat /\ Rank(e, S) < Cardinality(S)
  <2>1. Newer(e) \in SUBSET S /\ e \notin Newer(e)
    BY LessThanOrders
  <2>2. Newer(e) # S
    BY <2>1
  <2>3. QED  BY <1>2, <1>3, <2>1, <2>2 DEF Rank
<1>5. ASSUME NEW e \in S, NEW f \in S, LessThan(e, f) PROVE Rank(f, S) < Rank(e, S)
  <2>1. Newer(f) \in SUBSET Newer(e)
    BY <1>5, LessThanOrders
  <2>2. f \in Newer(e) /\ f \notin Newer(f)
    BY <1>5, LessThanOrders
  <2>3. Newer(f) # Newer(e) /\ Newer(e) \in SUBSET S
    BY <2>2
  <2>4. QED  BY <1>3, <2>1, <2>3 DEF Rank
<1>6. QED  BY <1>4, <1>5

\* Every rank is that of one entry.
LEMMA RankBijection ==
  ASSUME NEW S, EntrySet(S)
  PROVE  /\ Cardinality(S) \in Nat
         /\ [e \in S |-> Rank(e, S)] \in Bijection(S, 0..(Cardinality(S) - 1))
<1> DEFINE n == Cardinality(S)
           rank == [e \in S |-> Rank(e, S)]
<1>1. IsFiniteSet(S) /\ n \in Nat
  BY FS_CardinalityType DEF EntrySet
<1>2. \A e \in S : Rank(e, S) \in Nat /\ Rank(e, S) < n
  BY Ranks
<1> HIDE DEF n
<1>3. rank \in [S -> 0..(n - 1)]
  BY <1>1, <1>2
<1>4. \A e, f \in S : Rank(e, S) = Rank(f, S) => e = f
  BY <1>2, Ranks, LessThanOrders
<1>5. rank \in Injection(S, 0..(n - 1))
  BY <1>3, <1>4 DEF Injection, IsInjective
<1>6. IsFiniteSet(0..(n - 1)) /\ Cardinality(0..(n - 1)) = n
  BY <1>1, FS_Interval
<1>7. rank \in Surjection(S, 0..(n - 1))
  BY <1>1, <1>5, <1>6, FS_Injection DEF n
<1>8. QED  BY <1>1, <1>5, <1>7 DEF Bijection, n

\* LIMIT n: either all entries, or n of them.
LEMMA PageFull ==
  ASSUME NEW S, EntrySet(S), NEW n \in Nat, FirstOf(S, n) # S
  PROVE  Cardinality(FirstOf(S, n)) = n
<1> DEFINE m == Cardinality(S)
           rank == [e \in S |-> Rank(e, S)]
           P == FirstOf(S, n)
           part == [e \in P |-> rank[e]]
<1>1. rank \in Bijection(S, 0..(m - 1)) /\ m \in Nat
  BY RankBijection
<1>2. P \in SUBSET S /\ \A e \in S : e \in P <=> rank[e] < n
  BY DEF FirstOf
<1>3. n < m
  <2>1. PICK e \in S : e \notin P
    BY <1>2
  <2>2. rank[e] \in 0..(m - 1) /\ ~(rank[e] < n)
    BY <1>1, <1>2, <2>1 DEF Bijection, Injection
  <2>3. QED  BY <1>1, <2>2
<1> HIDE DEF m, rank, P
<1>4. /\ rank \in [S -> 0..(m - 1)]
      /\ \A e, f \in S : rank[e] = rank[f] => e = f
      /\ \A i \in 0..(m - 1) : \E e \in S : rank[e] = i
  BY <1>1 DEF Bijection, Injection, Surjection, IsInjective
<1>5. part \in [P -> 0..(n - 1)]
  <2>1. \A e \in P : rank[e] \in 0..(n - 1)
    BY <1>1, <1>2, <1>4
  <2>2. QED  BY <2>1
<1>6. \A e, f \in P : part[e] = part[f] => e = f
  BY <1>2, <1>4
<1>7. \A i \in 0..(n - 1) : \E e \in P : part[e] = i
  <2>1. SUFFICES ASSUME NEW i \in 0..(n - 1) PROVE \E e \in P : part[e] = i
    OBVIOUS
  <2>2. i \in 0..(m - 1) /\ i < n
    BY <1>1, <1>3
  <2>3. PICK e \in S : rank[e] = i
    BY <1>4, <2>2
  <2>4. QED  BY <1>2, <2>2, <2>3
<1>8. part \in Bijection(P, 0..(n - 1))
  BY <1>5, <1>6, <1>7 DEF Bijection, Injection, Surjection, IsInjective
<1>9. IsFiniteSet(P)
  BY <1>2, SubsetOrders DEF EntrySet
<1>10. Cardinality(0..(n - 1)) = Cardinality(P)
  BY <1>8, <1>9, FS_Bijection DEF ExistsBijection
<1>11. Cardinality(0..(n - 1)) = n
  BY FS_Interval
<1>12. QED  BY <1>10, <1>11 DEF P

\* What a page leaves out is behind all that it has.
LEMMA PageFirst ==
  ASSUME NEW S, EntrySet(S), NEW n \in Nat, NEW e \in S, e \notin FirstOf(S, n), NEW f \in FirstOf(S, n)
  PROVE  LessThan(e, f)
<1>1. /\ f \in S /\ Rank(f, S) \in Nat /\ Rank(e, S) \in Nat
      /\ Rank(f, S) < n /\ ~(Rank(e, S) < n)
  BY Ranks DEF FirstOf
<1>2. e # f /\ ~LessThan(f, e)
  BY <1>1, Ranks
<1>3. QED  BY <1>1, <1>2, LessThanOrders

\* A page that has entries has a last one.
LEMMA PageLast ==
  ASSUME NEW S, EntrySet(S), S # {}
  PROVE  \E e \in S : \A f \in S \ {e} : LessThan(e, f)
<1> DEFINE n == Cardinality(S)
           rank == [e \in S |-> Rank(e, S)]
<1>1. rank \in Bijection(S, 0..(n - 1)) /\ n \in Nat
  BY RankBijection
<1>2. n # 0
  BY FS_EmptySet DEF EntrySet
<1>3. n - 1 \in 0..(n - 1)
  BY <1>1, <1>2
<1>4. PICK e \in S : rank[e] = n - 1
  BY <1>1, <1>3 DEF Bijection, Surjection
<1>5. ASSUME NEW f \in S, f # e PROVE LessThan(e, f)
  <2>1. Rank(f, S) \in Nat /\ Rank(f, S) < n /\ Rank(e, S) = n - 1
    BY <1>4, Ranks
  <2>2. ~LessThan(f, e)
    BY <1>1, <2>1, Ranks
  <2>3. QED  BY <1>5, <2>2, LessThanOrders
<1>6. QED  BY <1>5

\* iso(): a time in milliseconds is not later, is a time of its own, and two times
\* with the earlier one not before the milliseconds of the later have the same.
LEMMA Milliseconds ==
  ASSUME NEW s \in Nat, NEW t \in Nat
  PROVE  /\ Milli(s) \in Nat /\ Milli(s) <= s
         /\ t <= s /\ Milli(s) <= t => Milli(t) = Milli(s)
<1> DEFINE p == PerMilli
           q == s \div p
           r == t \div p
<1>1. p \in Nat /\ p > 0
  BY CatalogConstants
<1>2. q \in Nat /\ r \in Nat
  BY <1>1
<1>3. q * p <= s /\ s < q * p + p
  BY <1>1
<1>4. r * p <= t /\ t < r * p + p
  BY <1>1
<1>5. Milli(s) = q * p /\ Milli(t) = r * p
  BY DEF Milli
<1> HIDE DEF p, q, r
<1>6. q * p \in Nat /\ r * p \in Nat
  BY <1>1, <1>2
<1>7. ASSUME t <= s, q * p <= t PROVE q = r
  <2>1. ASSUME q > r PROVE FALSE
    <3>1. q * p >= (r + 1) * p
      BY <1>1, <1>2, <2>1
    <3>2. (r + 1) * p = r * p + p
      BY <1>1, <1>2
    <3>3. QED  BY <1>1, <1>2, <1>4, <1>6, <1>7, <3>1, <3>2
  <2>2. ASSUME r > q PROVE FALSE
    <3>1. r * p >= (q + 1) * p
      BY <1>1, <1>2, <2>2
    <3>2. (q + 1) * p = q * p + p
      BY <1>1, <1>2
    <3>3. QED  BY <1>1, <1>2, <1>3, <1>4, <1>6, <1>7, <3>1, <3>2
  <2>3. QED  BY <1>2, <2>1, <2>2
<1>8. QED  BY <1>3, <1>5, <1>6, <1>7

CursorRow == [at : Microsecond, id : EntryId \cup {0}]
WalkRow ==
  [phase : {"before", "walking", "over"}, cursor : CursorRow, seen : SUBSET EntryId, owed : SUBSET EntryId,
   twice : BOOLEAN, cuts : SUBSET Microsecond]

\* The rows have their columns, an id has one row, and the application's clock counts
\* milliseconds.
CatalogShapes ==
  /\ collection \in Collections
  /\ EntrySet(entries)
  /\ collection \in DatedByApplication => \A e \in entries : Milli(e.at) = e.at
  /\ walk \in WalkRow

\* The walk is ahead of its cursor: nothing it has seen is behind the cursor still.
WalkAhead ==
  /\ ~walk.twice
  /\ walk.phase = "before" => walk.cursor = NoCursor /\ walk.seen = {} /\ walk.owed = {}
  /\ walk.phase = "walking" => walk.cursor # NoCursor
  /\ walk.seen \subseteq {e.id : e \in entries}
  /\ walk.phase = "walking" => \A e \in entries : e.id \in walk.seen => ~LessThan(e, walk.cursor)

\* What it owes and has not seen is behind the cursor, or was passed over with the
\* milliseconds of one.
PassedOver(e) == collection \notin DatedByApplication /\ Milli(e.at) \in walk.cuts
WalkOwes ==
  /\ \A id \in walk.owed : \E e \in entries : e.id = id /\ e.matches
  /\ \A e \in entries :
       e.id \in walk.owed \ walk.seen =>
         (walk.phase = "walking" /\ LessThan(e, walk.cursor)) \/ PassedOver(e)

CatalogInv == CatalogShapes /\ WalkAhead /\ WalkOwes

\* The queries behind the cursor: with no row more than the limit the page has all there
\* was, and with one more it has a last entry, behind which is all that it leaves out.
LEMMA PageRead ==
  ASSUME NEW B, EntrySet(B), NEW n \in Nat \ {0}
  PROVE  LET found == FirstOf(B, n + 1)
             page == FirstOf(found, n)
         IN  /\ page \subseteq B /\ IsFiniteSet(found)
             /\ ~(Cardinality(found) > n) => page = B
             /\ Cardinality(found) > n =>
                  \E last \in page :
                    /\ CursorOf(page) = [at |-> Milli(last.at), id |-> last.id]
                    /\ \A e \in page : e = last \/ LessThan(last, e)
                    /\ \A e \in B \ page : LessThan(e, last)
<1> DEFINE found == FirstOf(B, n + 1)
           page == FirstOf(found, n)
<1>1. found \in SUBSET B /\ EntrySet(found)
  BY SubsetOrders DEF FirstOf
<1>2. page \in SUBSET found /\ EntrySet(page)
  BY <1>1, SubsetOrders DEF FirstOf
<1>3. /\ IsFiniteSet(found) /\ Cardinality(found) \in Nat /\ Cardinality(page) \in Nat
      /\ IsFiniteSet(page) /\ Cardinality(page) <= Cardinality(found)
      /\ page # found => Cardinality(page) # Cardinality(found)
  BY <1>1, <1>2, FS_Subset, FS_CardinalityType DEF EntrySet
<1>4. found # B => Cardinality(found) = n + 1
  BY PageFull
<1>5. page # found => Cardinality(page) = n
  BY <1>1, PageFull
<1>6. ASSUME NEW e \in B, e \notin page, NEW f \in page PROVE LessThan(e, f)
  <2>1. CASE e \in found
    BY <1>1, <1>6, <2>1, PageFirst
  <2>2. CASE e \notin found
    BY <1>2, <2>2, PageFirst
  <2>3. QED  BY <2>1, <2>2
<1> HIDE DEF found, page
<1>7. ~(Cardinality(found) > n) => page = B
  BY <1>3, <1>4, <1>5
<1>8. ASSUME Cardinality(found) > n
      PROVE  \E last \in page :
               /\ CursorOf(page) = [at |-> Milli(last.at), id |-> last.id]
               /\ \A e \in page : e = last \/ LessThan(last, e)
               /\ \A e \in B \ page : LessThan(e, last)
  <2>1. page # {}
    BY <1>3, <1>5, <1>8, FS_EmptySet
  <2>2. \E e \in page : \A f \in page \ {e} : LessThan(e, f)
    BY <1>2, <2>1, PageLast
  <2> DEFINE last == CHOOSE e \in page : \A f \in page \ {e} : LessThan(e, f)
  <2>3. last \in page /\ \A f \in page \ {last} : LessThan(last, f)
    BY <2>2
  <2>4. CursorOf(page) = [at |-> Milli(last.at), id |-> last.id]
    BY DEF CursorOf
  <2> HIDE DEF last
  <2>5. QED  BY <1>6, <2>3, <2>4
<1>9. QED  BY <1>1, <1>2, <1>3, <1>7, <1>8 DEF found, page

\* What is behind the cursor of a page is behind its last entry, and the other way round
\* but for the entries of the very millisecond.
LEMMA CursorCuts ==
  ASSUME NEW e \in EntryRow, NEW last \in EntryRow,
         NEW cursor, cursor = [at |-> Milli(last.at), id |-> last.id]
  PROVE  /\ LessThan(e, cursor) => LessThan(e, last)
         /\ LessThan(e, last) => LessThan(e, cursor) \/ Milli(e.at) = cursor.at
         /\ LessThan(e, last) /\ Milli(last.at) = last.at => LessThan(e, cursor)
<1>1. e.at \in Nat /\ e.id \in Nat /\ last.at \in Nat /\ last.id \in Nat
  BY CatalogConstants DEF EntryRow
<1>2. cursor.at = Milli(last.at) /\ cursor.id = last.id
  OBVIOUS
<1>3. cursor.at \in Nat /\ cursor.at <= last.at
  BY <1>1, <1>2, Milliseconds
<1>4. e.at <= last.at /\ cursor.at <= e.at => Milli(e.at) = cursor.at
  BY <1>1, <1>2, Milliseconds
<1>5. LessThan(e, cursor) => LessThan(e, last)
  BY <1>1, <1>2, <1>3 DEF LessThan
<1>6. LessThan(e, last) => LessThan(e, cursor) \/ Milli(e.at) = cursor.at
  BY <1>1, <1>2, <1>3, <1>4 DEF LessThan
<1>7. LessThan(e, last) /\ Milli(last.at) = last.at => LessThan(e, cursor)
  BY <1>2 DEF LessThan
<1>8. QED  BY <1>5, <1>6, <1>7

\* Entries behind a cursor are behind what it is behind.
LEMMA BehindOn ==
  ASSUME NEW e \in EntryRow, NEW f \in EntryRow, NEW cursor \in CursorRow, LessThan(e, f), LessThan(f, cursor)
  PROVE  LessThan(e, cursor)
<1>1. /\ e.at \in Nat /\ e.id \in Nat /\ f.at \in Nat /\ f.id \in Nat
      /\ cursor.at \in Nat /\ cursor.id \in Nat
  BY CatalogConstants DEF EntryRow, CursorRow
<1>2. QED  BY <1>1 DEF LessThan

\* A page is read: what it shows was not seen, and what is behind its cursor was
\* all seen but what is owed no more.
LEMMA ReadPageStep ==
  ASSUME CatalogInv, NEW n \in PageLimit, ReadPage(n)
  PROVE  CatalogInv'
<1> DEFINE c == walk.cursor
           B == Behind(c)
           found == FirstOf(B, n + 1)
           page == FirstOf(found, n)
           ids == {e.id : e \in page}
           more == Cardinality(found) > n
           next == IF more THEN CursorOf(page) ELSE c
           owed == IF walk.phase = "before" THEN {e.id : e \in {f \in entries : f.matches}} ELSE walk.owed
           cuts == IF more THEN walk.cuts \cup {CursorOf(page).at} ELSE walk.cuts
<1>1. /\ walk' = [phase |-> IF more THEN "walking" ELSE "over", cursor |-> next, cuts |-> cuts,
                  seen |-> walk.seen \cup ids, owed |-> owed, twice |-> walk.twice \/ walk.seen \cap ids # {}]
      /\ walk.phase # "over" /\ entries' = entries /\ collection' = collection
  BY DEF ReadPage
<1>2. /\ walk.phase \in {"before", "walking", "over"} /\ c \in CursorRow
      /\ walk.seen \in SUBSET EntryId /\ walk.owed \in SUBSET EntryId
      /\ walk.twice \in BOOLEAN /\ walk.cuts \in SUBSET Microsecond
  BY DEF CatalogInv, CatalogShapes, WalkRow
<1>3. EntrySet(entries) /\ entries \subseteq EntryRow /\ OneRowPerId(entries)
  BY DEF CatalogInv, CatalogShapes, EntrySet
<1>4. B \in SUBSET entries /\ EntrySet(B)
  BY <1>3, SubsetOrders DEF Behind
<1>5. n \in Nat \ {0}
  BY CatalogConstants
<1>6. /\ \A e \in entries : e.id \in walk.seen /\ walk.phase = "walking" => ~LessThan(e, c)
      /\ walk.phase = "walking" => c # NoCursor
      /\ walk.phase = "before" => c = NoCursor /\ walk.seen = {} /\ walk.owed = {}
      /\ walk.seen \subseteq {e.id : e \in entries} /\ ~walk.twice
  BY DEF CatalogInv, WalkAhead
<1>7. \A e \in entries : e \in B <=> e.matches /\ (c = NoCursor \/ LessThan(e, c))
  BY DEF Behind
<1>8. /\ \A id \in walk.owed : \E e \in entries : e.id = id /\ e.matches
      /\ \A e \in entries :
           e.id \in walk.owed \ walk.seen => (walk.phase = "walking" /\ LessThan(e, c)) \/ PassedOver(e)
  BY DEF CatalogInv, WalkOwes
<1>9. /\ page \subseteq B
      /\ ~more => page = B
      /\ more => \E last \in page :
                  /\ CursorOf(page) = [at |-> Milli(last.at), id |-> last.id]
                  /\ \A e \in page : e = last \/ LessThan(last, e)
                  /\ \A e \in B \ page : LessThan(e, last)
  BY <1>4, <1>5, PageRead
<1>10. collection \in DatedByApplication => \A e \in entries : Milli(e.at) = e.at
  BY DEF CatalogInv, CatalogShapes
<1> HIDE DEF c, B, found, page, more
<1>11. walk.seen \cap ids = {}
  <2>1. ASSUME NEW e \in page, e.id \in walk.seen PROVE FALSE
    <3>1. e \in entries /\ (c = NoCursor \/ LessThan(e, c)) /\ walk.phase = "walking"
      BY <1>1, <1>2, <1>4, <1>6, <1>7, <1>9, <2>1
    <3>2. QED  BY <1>6, <2>1, <3>1
  <2>2. QED  BY <2>1
<1>12. ids \in SUBSET EntryId /\ ids \subseteq {e.id : e \in entries}
  BY <1>3, <1>4, <1>9 DEF EntryRow
<1>13. owed \in SUBSET EntryId
  BY <1>2, <1>3 DEF EntryRow
<1>14. \A id \in owed : \E e \in entries : e.id = id /\ e.matches
  BY <1>8
\* Each entry that is owed and was not seen is among those that the page chose from,
\* or had been passed over.
<1>15. ASSUME NEW e \in entries, e.id \in owed, e.id \notin walk.seen
       PROVE  e \in B \/ PassedOver(e)
  <2>1. PICK f \in entries : f.id = e.id /\ f.matches
    BY <1>14, <1>15
  <2>2. f = e
    BY <1>3, <2>1 DEF OneRowPerId
  <2>3. CASE walk.phase = "before"
    BY <1>6, <1>7, <2>1, <2>2, <2>3
  <2>4. CASE walk.phase # "before"
    <3>1. e.id \in walk.owed \ walk.seen
      BY <1>15, <2>4
    <3>2. LessThan(e, c) \/ PassedOver(e)
      BY <1>8, <3>1
    <3>3. QED  BY <1>7, <2>1, <2>2, <3>2
  <2>5. QED  BY <2>3, <2>4
<1> HIDE DEF ids, owed
<1>16. CASE ~more
  <2>1. walk' = [phase |-> "over", cursor |-> c, cuts |-> walk.cuts,
                 seen |-> walk.seen \cup ids, owed |-> owed, twice |-> FALSE]
    BY <1>1, <1>6, <1>11, <1>16
  <2>2. walk' \in WalkRow
    BY <1>2, <1>12, <1>13, <2>1 DEF WalkRow
  <2>3. CatalogShapes'
    BY <1>1, <2>2 DEF CatalogInv, CatalogShapes, EntrySet, OneRowPerId
  <2>4. WalkAhead'
    BY <1>1, <1>6, <1>12, <2>1 DEF WalkAhead
  <2>5. ASSUME NEW e \in entries, e.id \in owed, e.id \notin walk.seen \cup ids
        PROVE  PassedOver(e)
    BY <1>9, <1>15, <1>16, <2>5 DEF ids
  <2>6. WalkOwes'
    <3>1. \A e \in entries : PassedOver(e) => PassedOver(e)'
      BY <1>1, <2>1 DEF PassedOver
    <3>2. /\ entries' = entries /\ walk'.owed = owed /\ walk'.seen = walk.seen \cup ids
      BY <1>1, <2>1
    <3>3. \A e \in entries : e.id \in walk'.owed \ walk'.seen => PassedOver(e)'
      BY <2>5, <3>1, <3>2
    <3>4. QED  BY <1>14, <3>2, <3>3 DEF WalkOwes
  <2>7. QED  BY <2>3, <2>4, <2>6 DEF CatalogInv
<1>17. CASE more
  <2>1. PICK last \in page :
          /\ CursorOf(page) = [at |-> Milli(last.at), id |-> last.id]
          /\ \A e \in page : e = last \/ LessThan(last, e)
          /\ \A e \in B \ page : LessThan(e, last)
    BY <1>9, <1>17
  <2>2. last \in entries /\ last \in EntryRow /\ last \in B
    BY <1>3, <1>4, <1>9
  <2> DEFINE d == CursorOf(page)
  <2>3. /\ d \in CursorRow /\ d # NoCursor /\ d.at \in Microsecond
        /\ d = [at |-> Milli(last.at), id |-> last.id]
    <3>1. Milli(last.at) \in Microsecond /\ last.id \in EntryId /\ last.id # 0
      BY <2>2, CatalogConstants DEF EntryRow
    <3>2. QED  BY <2>1, <3>1 DEF CursorRow, NoCursor
  <2> HIDE DEF d
  <2>4. walk' = [phase |-> "walking", cursor |-> d, cuts |-> walk.cuts \cup {d.at},
                 seen |-> walk.seen \cup ids, owed |-> owed, twice |-> FALSE]
    BY <1>1, <1>6, <1>11, <1>17 DEF d
  <2>5. walk' \in WalkRow
    BY <1>2, <1>12, <1>13, <2>3, <2>4 DEF WalkRow
  <2>6. CatalogShapes'
    BY <1>1, <2>5 DEF CatalogInv, CatalogShapes, EntrySet, OneRowPerId
  <2>7. ASSUME NEW e \in entries, e.id \in walk.seen \cup ids
        PROVE  ~LessThan(e, d)
    <3>1. e \in EntryRow /\ (LessThan(e, d) => LessThan(e, last))
      BY <1>3, <2>2, <2>3, CursorCuts
    <3>2. CASE e.id \in ids
      <4>1. e \in page
        BY <1>3, <1>4, <1>9, <3>2 DEF ids, OneRowPerId
      <4>2. e = last \/ LessThan(last, e)
        BY <2>1, <4>1
      <4>3. ~LessThan(e, last)
        BY <1>3, <2>2, <4>2, LessThanOrders
      <4>4. QED  BY <3>1, <4>3
    <3>3. CASE e.id \in walk.seen
      <4>1. walk.phase = "walking" /\ c # NoCursor /\ ~LessThan(e, c)
        BY <1>1, <1>2, <1>6, <3>3
      <4>2. LessThan(last, c)
        BY <1>7, <2>2, <4>1
      <4>3. ~LessThan(e, last)
        BY <1>2, <2>2, <3>1, <4>1, <4>2, BehindOn
      <4>4. QED  BY <3>1, <4>3
    <3>4. QED  BY <2>7, <3>2, <3>3
  <2>8. WalkAhead'
    <3>1. walk'.seen \subseteq {e.id : e \in entries}
      BY <1>6, <1>12, <2>4
    <3>2. QED  BY <1>1, <2>3, <2>4, <2>7, <3>1 DEF WalkAhead
  <2>9. ASSUME NEW e \in entries, e.id \in owed, e.id \notin walk.seen \cup ids
        PROVE  LessThan(e, d) \/ PassedOver(e)'
    <3>1. CASE PassedOver(e)
      BY <1>1, <2>4, <3>1 DEF PassedOver
    <3>2. CASE e \in B
      <4>1. e \in EntryRow /\ e \notin page
        BY <1>3, <2>9 DEF ids
      <4>2. LessThan(e, last)
        BY <2>1, <3>2, <4>1
      <4>3. CASE collection \in DatedByApplication
        BY <1>10, <2>2, <2>3, <4>1, <4>2, <4>3, CursorCuts
      <4>4. CASE collection \notin DatedByApplication
        <5>1. LessThan(e, d) \/ Milli(e.at) = d.at
          BY <2>2, <2>3, <4>1, <4>2, CursorCuts
        <5>2. walk'.cuts = walk.cuts \cup {d.at} /\ collection' = collection
          BY <1>1, <2>4
        <5>3. QED  BY <4>4, <5>1, <5>2 DEF PassedOver
      <4>5. QED  BY <4>3, <4>4
    <3>3. QED  BY <1>15, <2>9, <3>1, <3>2
  <2>10. WalkOwes'
    <3>1. /\ entries' = entries /\ walk'.owed = owed /\ walk'.seen = walk.seen \cup ids
          /\ walk'.phase = "walking" /\ walk'.cursor = d
      BY <1>1, <2>4
    <3>2. \A e \in entries : e.id \in walk'.owed \ walk'.seen => LessThan(e, d) \/ PassedOver(e)'
      BY <2>9, <3>1
    <3>3. QED  BY <1>14, <3>1, <3>2 DEF WalkOwes
  <2>11. QED  BY <2>6, <2>8, <2>10 DEF CatalogInv
<1>18. QED  BY <1>16, <1>17

\* An entry that is added during a walk is owed nothing.
LEMMA AddStep ==
  ASSUME CatalogInv, NEW id \in EntryId, NEW at \in Stamp, NEW matches \in BOOLEAN, Add(id, at, matches)
  PROVE  CatalogInv'
<1> DEFINE new == [id |-> id, at |-> at, matches |-> matches]
<1>1. /\ entries' = entries \cup {new} /\ walk' = walk /\ collection' = collection
      /\ id \notin {e.id : e \in entries}
  BY DEF Add
<1>2. IsFiniteSet(entries) /\ entries \subseteq EntryRow /\ OneRowPerId(entries)
  BY DEF CatalogInv, CatalogShapes, EntrySet
<1>3. at \in Microsecond /\ (collection \in DatedByApplication => Milli(at) = at)
  <2>1. CASE collection \in DatedByApplication
    <3>1. PICK t \in Microsecond : at = Milli(t)
      BY <2>1 DEF Stamp
    <3>2. t \in Nat /\ Milli(t) \in Nat
      BY <3>1, CatalogConstants
    <3>3. Milli(t) <= t /\ Milli(t) <= Milli(t)
      BY <3>2, Milliseconds
    <3>4. Milli(Milli(t)) = Milli(t)
      BY <3>2, <3>3, Milliseconds
    <3>5. QED  BY <3>1, <3>4, CatalogConstants
  <2>2. CASE collection \notin DatedByApplication
    BY <2>2 DEF Stamp
  <2>3. QED  BY <2>1, <2>2
<1>4. new \in EntryRow /\ new.id = id /\ new.at = at
  BY <1>3 DEF EntryRow
<1> HIDE DEF new
<1>5. EntrySet(entries')
  <2>1. IsFiniteSet(entries \cup {new})
    BY <1>2, FS_AddElement
  <2>2. OneRowPerId(entries \cup {new})
    BY <1>1, <1>2, <1>4 DEF OneRowPerId
  <2>3. QED  BY <1>1, <1>2, <1>4, <2>1, <2>2 DEF EntrySet
<1>6. CatalogShapes'
  BY <1>1, <1>3, <1>4, <1>5 DEF CatalogInv, CatalogShapes, EntrySet, OneRowPerId
<1>7. id \notin walk.seen /\ id \notin walk.owed
  BY <1>1 DEF CatalogInv, WalkAhead, WalkOwes
<1>8. WalkAhead'
  BY <1>1, <1>4, <1>7 DEF CatalogInv, WalkAhead
<1>9. \A e \in entries : PassedOver(e) => PassedOver(e)'
  BY <1>1 DEF PassedOver
<1>10. WalkOwes'
  BY <1>1, <1>4, <1>7, <1>9 DEF CatalogInv, WalkOwes
<1>11. QED  BY <1>6, <1>8, <1>10 DEF CatalogInv

\* An entry that leaves the filter is owed no more, and one that enters it never was.
LEMMA ChangeStep ==
  ASSUME CatalogInv, NEW e \in entries, Change(e)
  PROVE  CatalogInv'
<1> DEFINE new == [e EXCEPT !.matches = ~@]
           owed == IF e.matches THEN walk.owed \ {e.id} ELSE walk.owed
<1>1. IsFiniteSet(entries) /\ entries \subseteq EntryRow /\ OneRowPerId(entries) /\ walk \in WalkRow
  BY DEF CatalogInv, CatalogShapes, EntrySet
<1>2. /\ entries' = (entries \ {e}) \cup {new} /\ collection' = collection
      /\ walk' = [walk EXCEPT !.owed = owed]
  BY DEF Change
<1>3. new \in EntryRow /\ new.id = e.id /\ new.at = e.at
  BY <1>1 DEF EntryRow
<1>4. owed \in SUBSET EntryId /\ owed \subseteq walk.owed
  BY <1>1 DEF WalkRow
<1>5. /\ walk' \in WalkRow /\ walk'.phase = walk.phase /\ walk'.cursor = walk.cursor /\ walk'.seen = walk.seen
      /\ walk'.owed = owed /\ walk'.twice = walk.twice /\ walk'.cuts = walk.cuts
  BY <1>1, <1>2, <1>4 DEF WalkRow
<1> HIDE DEF new
<1>6. EntrySet(entries')
  <2>1. IsFiniteSet((entries \ {e}) \cup {new})
    BY <1>1, FS_RemoveElement, FS_AddElement
  <2>2. OneRowPerId((entries \ {e}) \cup {new})
    BY <1>1, <1>3 DEF OneRowPerId
  <2>3. QED  BY <1>1, <1>2, <1>3, <2>1, <2>2 DEF EntrySet
<1>7. CatalogShapes'
  BY <1>2, <1>3, <1>5, <1>6 DEF CatalogInv, CatalogShapes, EntrySet, OneRowPerId
<1>8. {f.id : f \in entries'} = {f.id : f \in entries}
  BY <1>2, <1>3
<1>9. LessThan(new, walk.cursor) <=> LessThan(e, walk.cursor)
  BY <1>3 DEF LessThan
<1>10. WalkAhead'
  <2>1. \A f \in entries' : (f \in entries \/ f = new)
    BY <1>2
  <2>2. walk.phase = "walking" => \A f \in entries' : f.id \in walk.seen => ~LessThan(f, walk.cursor)
    BY <1>3, <1>9, <2>1 DEF CatalogInv, WalkAhead
  <2>3. QED  BY <1>4, <1>5, <1>8, <2>2 DEF CatalogInv, WalkAhead
\* An entry that is owed passes the filters before the change and after.
<1>11. \A id \in walk.owed : \E f \in entries : f.id = id /\ f.matches
  BY DEF CatalogInv, WalkOwes
<1>12. e.id \notin owed
  BY <1>1, <1>11 DEF OneRowPerId
<1> HIDE DEF owed
<1>13. \A id \in owed : \E f \in entries' : f.id = id /\ f.matches
  BY <1>2, <1>4, <1>11, <1>12
<1>14. ASSUME NEW f \in entries', f.id \in owed \ walk.seen
       PROVE  (walk.phase = "walking" /\ LessThan(f, walk.cursor)) \/ PassedOver(f)'
  <2>1. f \in entries /\ f.id \in walk.owed \ walk.seen
    BY <1>2, <1>3, <1>4, <1>12, <1>14
  <2>2. PassedOver(f) => PassedOver(f)'
    BY <1>2, <1>5 DEF PassedOver
  <2>3. QED  BY <2>1, <2>2 DEF CatalogInv, WalkOwes
<1>15. WalkOwes'
  BY <1>5, <1>13, <1>14 DEF WalkOwes
<1>16. QED  BY <1>7, <1>10, <1>15 DEF CatalogInv

\* The collection is empty and no walk has begun.
LEMMA CatalogInitially == CatalogInit => CatalogInv
<1> SUFFICES ASSUME CatalogInit PROVE CatalogInv
  OBVIOUS
<1>1. entries = {} /\ EntrySet({})
  BY FS_EmptySet DEF CatalogInit, EntrySet, OneRowPerId
<1>2. walk \in WalkRow
  BY CatalogConstants DEF CatalogInit, WalkRow, CursorRow, NoCursor
<1>3. QED  BY <1>1, <1>2 DEF CatalogInit, CatalogInv, CatalogShapes, WalkAhead, WalkOwes

\* Every page, addition and change keeps the invariant.
LEMMA CatalogStep == CatalogInv /\ [CatalogNext]_catalogVars => CatalogInv'
<1> SUFFICES ASSUME CatalogInv, [CatalogNext]_catalogVars PROVE CatalogInv'
  OBVIOUS
<1>1. CASE CatalogNext
  BY <1>1, ReadPageStep, AddStep, ChangeStep DEF CatalogNext
<1>2. CASE UNCHANGED catalogVars
  BY <1>2 DEF catalogVars, CatalogInv, CatalogShapes, EntrySet, OneRowPerId, WalkAhead, WalkOwes, PassedOver
<1>3. QED  BY <1>1, <1>2

\* The invariant holds of every walk, whatever entries writers add and change meanwhile.
THEOREM CatalogInvariant == CatalogSpec => []CatalogInv
<1>1. CatalogInit => CatalogInv
  BY CatalogInitially
<1>2. CatalogInv /\ [CatalogNext]_catalogVars => CatalogInv'
  BY CatalogStep
<1>3. QED  BY <1>1, <1>2, PTL DEF CatalogSpec

\* Collections, entries and walks have their types in every behaviour.
THEOREM CatalogTypes == CatalogSpec => []CatalogTypeOK
<1>1. CatalogInv => CatalogTypeOK
  BY DEF CatalogInv, CatalogShapes, CatalogTypeOK, EntrySet, EntryRow, WalkRow, CursorRow
<1>2. QED  BY <1>1, CatalogInvariant, PTL

\* A walk through a collection (listSources, listDocuments, listIngestionJobs,
\* listProcedures) shows no entry twice and, by its end, each entry that was there and
\* passed its filters all along; only where the database dates the entries may those of
\* the millisecond in which a page ended be passed over.
THEOREM Walks == CatalogSpec => []WalkShowsAll
<1>1. CatalogInv => WalkShowsAll
  <2>1. SUFFICES ASSUME CatalogInv, walk.phase = "over", NEW id \in walk.owed \ walk.seen
                 PROVE  collection \notin DatedByApplication /\ Milli(DatedAt(id)) \in walk.cuts
    BY DEF CatalogInv, WalkAhead, WalkShowsAll
  <2>2. \E e \in entries : e.id = id
    BY <2>1 DEF CatalogInv, WalkOwes
  <2> DEFINE e == CHOOSE e \in entries : e.id = id
  <2>3. e \in entries /\ e.id = id
    BY <2>2
  <2>4. DatedAt(id) = e.at
    BY DEF DatedAt
  <2> HIDE DEF e
  <2>5. PassedOver(e)
    BY <2>1, <2>3 DEF CatalogInv, WalkOwes
  <2>6. QED  BY <2>4, <2>5 DEF PassedOver
<1>2. QED  BY <1>1, CatalogInvariant, PTL

-------------------------------------------------------------------------------
(***************************************************************************)
(* SearchEvidence                                                          *)
(***************************************************************************)

\* What BuildBundle makes of the sections that were found.
SourceOf(i) == [version |-> Version(i), authority |-> AuthorityStatus(Version(i))]
MadeBundle ==
  [sources |-> {SourceOf(i) : i \in Found}, citations |-> {CitationOf(i) : i \in Found},
   claims |-> OrdinaryClaims \cup ConflictClaims, contradictions |-> VersionConflicts]

\* The inductive invariant of a search: a bundle is what its results make.
SearchInv ==
  /\ corpus \in Corpora /\ register \in Registers /\ request \in Requests
  /\ search \in [phase : {"prepare", "search", "build", "built", "unavailable"}, prepared : BOOLEAN,
                 results : SUBSET (1..Len(corpus)), bundle : {NoBundle, MadeBundle}]
  /\ search.phase = "built" => search.bundle = MadeBundle
  /\ search.phase # "built" => search.bundle = NoBundle

\* A function of its elements that tells them apart counts a finite set.
LEMMA CountedBy ==
  ASSUME NEW S, IsFiniteSet(S), NEW f, \A x, y \in S : f[x] = f[y] => x = y
  PROVE  Cardinality({f[x] : x \in S}) = Cardinality(S)
<1> DEFINE T == {f[x] : x \in S}
           g == [x \in S |-> f[x]]
<1>1. g \in [S -> T] /\ \A x \in S : g[x] = f[x]
  OBVIOUS
<1>2. \A t \in T : \E x \in S : g[x] = t
  OBVIOUS
<1> HIDE DEF g, T
<1>3. g \in Bijection(S, T)
  BY <1>1, <1>2 DEF Bijection, Injection, Surjection, IsInjective
<1>4. ExistsBijection(S, T)
  BY <1>3 DEF ExistsBijection
<1>5. Cardinality(T) = Cardinality(S)
  BY <1>4, FS_Bijection
<1>6. QED  BY <1>5 DEF T

\* What a function makes of the elements of a finite set is finite.
LEMMA FiniteImage ==
  ASSUME NEW S, IsFiniteSet(S), NEW f
  PROVE  IsFiniteSet({f[x] : x \in S})
<1> DEFINE T == {f[x] : x \in S}
           g == [x \in S |-> f[x]]
<1>1. g \in [S -> T] /\ \A t \in T : \E x \in S : g[x] = t
  OBVIOUS
<1> HIDE DEF g, T
<1>2. g \in Surjection(S, T)
  BY <1>1 DEF Surjection
<1>3. IsFiniteSet(T)
  BY <1>2, FS_Surjection
<1>4. QED  BY <1>3 DEF T

\* Sections in conflict were found.
LEMMA ConflictsFound ==
  /\ Conflicting \subseteq Found
  /\ \A refs \in VersionConflicts : Cardinality(refs) >= 2 /\ refs \subseteq Conflicting
BY DEF Conflicting, VersionConflicts, KeptSections

\* A claim cites a section that was found, and says what it says.
LEMMA ClaimsOf ==
  /\ \A c \in OrdinaryClaims :
       /\ c.cites \in Found /\ c.cites \notin Conflicting /\ c.status = "supported"
       /\ c = [cites |-> c.cites, status |-> c.status, text |-> corpus[c.cites].text]
       /\ EvidenceStatus(Version(c.cites)) = "supported"
  /\ \A c \in ConflictClaims :
       /\ c.cites \in Conflicting /\ c.status = "inferred_for_review"
       /\ c = [cites |-> c.cites, status |-> c.status, text |-> corpus[c.cites].text]
  /\ {c.cites : c \in ConflictClaims} = Conflicting
<1>1. \A c \in OrdinaryClaims :
        \E i \in Found : /\ EvidenceStatus(Version(i)) = "supported" /\ i \notin Conflicting
                         /\ c = [cites |-> i, status |-> "supported", text |-> corpus[i].text]
  BY DEF OrdinaryClaims
<1>2. \A c \in ConflictClaims :
        \E i \in Conflicting : c = [cites |-> i, status |-> "inferred_for_review", text |-> corpus[i].text]
  BY DEF ConflictClaims
<1>3. \A i \in Conflicting :
        [cites |-> i, status |-> "inferred_for_review", text |-> corpus[i].text] \in ConflictClaims
  BY DEF ConflictClaims
<1>4. {c.cites : c \in ConflictClaims} = Conflicting
  <2>1. \A c \in ConflictClaims : c.cites \in Conflicting
    BY <1>2
  <2>2. \A i \in Conflicting : \E c \in ConflictClaims : c.cites = i
    BY <1>3
  <2>3. QED  BY <2>1, <2>2
<1>5. QED  BY <1>1, <1>2, <1>4

\* A bundle names each version once and claims each status of a section once.
LEMMA BundleCounts ==
  ASSUME SearchInv
  PROVE  LET b == MadeBundle
         IN  /\ Cardinality({s.version : s \in b.sources}) = Cardinality(b.sources)
             /\ Cardinality({<<c.cites, c.status>> : c \in b.claims}) = Cardinality(b.claims)
<1>1. IsFiniteSet(Found)
  <2>1. Len(corpus) \in Nat /\ Found \subseteq 1..Len(corpus)
    BY SearchConstants DEF SearchInv, Found
  <2>2. IsFiniteSet(1..Len(corpus))
    BY <2>1, FS_Interval
  <2>3. QED  BY <2>1, <2>2, FS_Subset
<1>2. MadeBundle.sources = {SourceOf(i) : i \in Found} /\ MadeBundle.claims = OrdinaryClaims \cup ConflictClaims
  BY DEF MadeBundle
<1>3. Cardinality({s.version : s \in MadeBundle.sources}) = Cardinality(MadeBundle.sources)
  <2> DEFINE of == [i \in Found |-> SourceOf(i)]
             S == {of[i] : i \in Found}
             f == [s \in S |-> s.version]
  <2>1. MadeBundle.sources = S
    BY <1>2
  <2>2. IsFiniteSet(S)
    BY <1>1, FiniteImage
  <2>3. \A s \in S : s = [version |-> s.version, authority |-> AuthorityStatus(s.version)]
    BY DEF SourceOf
  <2> HIDE DEF S
  <2>4. {f[s] : s \in S} = {s.version : s \in S} /\ \A s \in S : f[s] = s.version
    OBVIOUS
  <2> HIDE DEF f
  <2>5. \A s, t \in S : f[s] = f[t] => s = t
    BY <2>3, <2>4
  <2>6. Cardinality({f[s] : s \in S}) = Cardinality(S)
    BY <2>2, <2>5, CountedBy
  <2>7. QED  BY <2>1, <2>4, <2>6
<1>4. Cardinality({<<c.cites, c.status>> : c \in MadeBundle.claims}) = Cardinality(MadeBundle.claims)
  <2> DEFINE S == OrdinaryClaims \cup ConflictClaims
             plain == [i \in Found |-> [cites |-> i, status |-> "supported", text |-> corpus[i].text]]
             review == [i \in Found |-> [cites |-> i, status |-> "inferred_for_review", text |-> corpus[i].text]]
             f == [c \in S |-> <<c.cites, c.status>>]
  <2>1. IsFiniteSet({plain[i] : i \in Found}) /\ IsFiniteSet({review[i] : i \in Found})
    BY <1>1, FiniteImage
  <2>2. OrdinaryClaims \subseteq {plain[i] : i \in Found} /\ ConflictClaims \subseteq {review[i] : i \in Found}
    BY ConflictsFound DEF OrdinaryClaims, ConflictClaims
  <2>3. IsFiniteSet(OrdinaryClaims) /\ IsFiniteSet(ConflictClaims)
    BY <2>1, <2>2, FS_Subset
  <2>4. IsFiniteSet(S)
    BY <2>3, FS_Union
  <2>5. \A c \in S : c = [cites |-> c.cites, status |-> c.status, text |-> corpus[c.cites].text]
    BY ClaimsOf
  <2> HIDE DEF S
  <2>6. {f[c] : c \in S} = {<<c.cites, c.status>> : c \in S} /\ \A c \in S : f[c] = <<c.cites, c.status>>
    OBVIOUS
  <2> HIDE DEF f
  <2>7. \A c, d \in S : f[c] = f[d] => c = d
    <3> SUFFICES ASSUME NEW c \in S, NEW d \in S, f[c] = f[d]  PROVE c = d
      OBVIOUS
    <3>1. c.cites = d.cites /\ c.status = d.status
      BY <2>6
    <3>2. QED  BY <2>5, <3>1
  <2>8. Cardinality({f[c] : c \in S}) = Cardinality(S)
    BY <2>4, <2>7, CountedBy
  <2>9. MadeBundle.claims = S
    BY <1>2 DEF S
  <2>10. QED  BY <2>6, <2>8, <2>9
<1>5. QED  BY <1>3, <1>4

\* What is claimed as it stands is a citation of an authority in force.
LEMMA SupportedCited ==
  ASSUME NEW i, EvidenceStatus(Version(i)) = "supported"
  PROVE  CitationOf(i).status = "supported" /\ Official(CitationOf(i).authority)
<1>1. Official(AuthorityStatus(Version(i)))
  BY DEF EvidenceStatus
<1>2. CitationOf(i).authority = AuthorityStatus(Version(i)) /\ CitationOf(i).status = "supported"
  BY DEF CitationOf
<1>3. QED  BY <1>1, <1>2

\* The bundle a search makes passes the checks of its own replay.
LEMMA MadeValid ==
  ASSUME SearchInv
  PROVE  /\ ValidStoredBundle(MadeBundle)
         /\ \A c, d \in MadeBundle.claims : c.cites = d.cites => c = d
<1> DEFINE b == MadeBundle
<1>1. /\ b.sources = {SourceOf(i) : i \in Found} /\ b.citations = {CitationOf(i) : i \in Found}
      /\ b.claims = OrdinaryClaims \cup ConflictClaims /\ b.contradictions = VersionConflicts
  BY DEF MadeBundle
<1> HIDE DEF b
<1>2. CitationsHold(b)
  <2> SUFFICES ASSUME NEW i \in Found
               PROVE  \E s \in b.sources : s.version = CitationOf(i).version /\ s.authority = CitationOf(i).authority
    BY <1>1 DEF CitationsHold
  <2>1. SourceOf(i) \in b.sources
    BY <1>1
  <2>2. SourceOf(i).version = CitationOf(i).version /\ SourceOf(i).authority = CitationOf(i).authority
    BY DEF SourceOf, CitationOf
  <2>3. QED  BY <2>1, <2>2
<1>3. ASSUME NEW c \in b.claims  PROVE ClaimHolds(b, c)
  <2>1. c.cites \in Found /\ c.text = corpus[c.cites].text
    BY <1>1, ClaimsOf, ConflictsFound
  <2>2. \/ c.status = "supported" /\ EvidenceStatus(Version(c.cites)) = "supported"
        \/ c.status = "inferred_for_review"
    BY <1>1, ClaimsOf
  <2> DEFINE cited == CitationOf(c.cites)
  <2>3. cited \in b.citations
    BY <1>1, <2>1
  <2>4. cited.section = c.cites /\ cited.text = corpus[c.cites].text
    BY DEF CitationOf
  <2>5. c.status = "supported" => cited.status = "supported" /\ Official(cited.authority)
    BY <2>2, SupportedCited
  <2> HIDE DEF cited
  <2>6. QED  BY <2>1, <2>2, <2>3, <2>4, <2>5 DEF ClaimHolds
<1>4. ContradictionsHold(b)
  <2>1. {d \in b.claims : d.status = "inferred_for_review"} = ConflictClaims
    BY <1>1, ClaimsOf
  <2>2. {c.cites : c \in {d \in b.claims : d.status = "inferred_for_review"}} = Conflicting
    BY <2>1, ClaimsOf
  <2>3. Conflicting = UNION b.contradictions
    BY <1>1 DEF Conflicting
  <2>4. QED  BY <1>1, <2>2, <2>3, ConflictsFound DEF ContradictionsHold
<1>5. ValidStoredBundle(b)
  BY <1>2, <1>3, <1>4, BundleCounts DEF ValidStoredBundle, b
<1>6. ASSUME NEW c \in b.claims, NEW d \in b.claims, c.cites = d.cites  PROVE c = d
  <2>1. c.status = d.status
    BY <1>1, <1>6, ClaimsOf
  <2>2. /\ c = [cites |-> c.cites, status |-> c.status, text |-> corpus[c.cites].text]
        /\ d = [cites |-> d.cites, status |-> d.status, text |-> corpus[d.cites].text]
    BY <1>1, ClaimsOf
  <2>3. QED  BY <1>6, <2>1, <2>2
<1>7. QED  BY <1>5, <1>6 DEF b

\* The bundle of a search is that of its results and of what the register says.
LEMMA MadeKept ==
  ASSUME UNCHANGED <<corpus, register>>, search'.results = search.results
  PROVE  MadeBundle' = MadeBundle
<1>1. Found' = Found /\ \A i : Version(i)' = Version(i) /\ Slot(i)' = Slot(i)
  BY DEF Found, Version, Slot
<1>2. \A v : AuthorityStatus(v)' = AuthorityStatus(v) /\ TemporalStatus(v)' = TemporalStatus(v)
  BY DEF AuthorityStatus, TemporalStatus
<1>3. \A v : EvidenceStatus(v)' = EvidenceStatus(v)
  BY <1>2 DEF EvidenceStatus
<1>4. \A i : SourceOf(i)' = SourceOf(i) /\ CitationOf(i)' = CitationOf(i)
  BY <1>1, <1>2, <1>3 DEF SourceOf, CitationOf
<1>5. \A place : KeptSections(place)' = KeptSections(place)
  BY <1>1 DEF KeptSections
<1>6. VersionConflicts' = VersionConflicts
  BY <1>1, <1>5 DEF VersionConflicts
<1>7. Conflicting' = Conflicting
  BY <1>6 DEF Conflicting
<1>8. OrdinaryClaims' = OrdinaryClaims /\ ConflictClaims' = ConflictClaims
  BY <1>1, <1>3, <1>7 DEF OrdinaryClaims, ConflictClaims
<1>9. QED  BY <1>1, <1>4, <1>6, <1>8 DEF MadeBundle

\* The bundle of a search is what BuildBundle makes of the sections it found.
THEOREM SearchInvariant == SearchSpec => []SearchInv
<1>1. SearchInit => SearchInv
  <2> SUFFICES ASSUME SearchInit  PROVE SearchInv
    OBVIOUS
  <2>1. search = [phase |-> "prepare", prepared |-> FALSE, results |-> {}, bundle |-> NoBundle]
    BY DEF SearchInit
  <2>2. QED  BY <2>1 DEF SearchInit, SearchInv
<1>2. SearchInv /\ [SearchNext]_searchVars => SearchInv'
  <2> SUFFICES ASSUME SearchInv, [SearchNext]_searchVars  PROVE SearchInv'
    OBVIOUS
  <2> DEFINE SearchRow(bundles) ==
               [phase : {"prepare", "search", "build", "built", "unavailable"}, prepared : BOOLEAN,
                results : SUBSET (1..Len(corpus)), bundle : bundles]
  <2>1. search \in SearchRow({NoBundle, MadeBundle})
    BY DEF SearchInv
  <2>2. CASE PrepareSearch
    <3>1. /\ UNCHANGED <<corpus, register, request>> /\ search.bundle = NoBundle
          /\ search' \in SearchRow({NoBundle}) /\ search'.phase # "built" /\ search'.bundle = NoBundle
      <4>1. Semantic \in BOOLEAN
        BY DEF Semantic
      <4>2. /\ UNCHANGED <<corpus, register, request>> /\ search.phase = "prepare"
            /\ \/ search' = [search EXCEPT !.phase = "search", !.prepared = Semantic]
               \/ search' = [search EXCEPT !.phase = "unavailable"]
        BY <2>2 DEF PrepareSearch
      <4>3. search.bundle = NoBundle
        BY <4>2 DEF SearchInv
      <4> HIDE DEF SearchRow
      <4>4. CASE search' = [search EXCEPT !.phase = "search", !.prepared = Semantic]
        <5>1. PICK ready \in BOOLEAN : search' = [search EXCEPT !.phase = "search", !.prepared = ready]
          BY <4>1, <4>4, Zenon
        <5>2. QED  BY <2>1, <4>2, <4>3, <5>1 DEF SearchRow
      <4>5. CASE search' = [search EXCEPT !.phase = "unavailable"]
        BY <2>1, <4>2, <4>3, <4>5 DEF SearchRow
      <4>6. QED  BY <4>2, <4>3, <4>4, <4>5
    <3>2. QED  BY <3>1 DEF SearchInv
  <2>3. CASE ExecuteSearch
    <3>1. /\ UNCHANGED <<corpus, register, request>> /\ search.bundle = NoBundle
          /\ search' \in SearchRow({NoBundle}) /\ search'.phase # "built" /\ search'.bundle = NoBundle
      BY <2>1, <2>3 DEF ExecuteSearch, SearchInv
    <3>2. QED  BY <3>1 DEF SearchInv
  <2>4. CASE BuildBundle
    <3>1. /\ UNCHANGED <<corpus, register, request>>
          /\ search' = [search EXCEPT !.phase = "built", !.bundle = MadeBundle]
      BY <2>4 DEF BuildBundle, MadeBundle, SourceOf
    <3> DEFINE made == MadeBundle
    <3> HIDE DEF made
    <3>2. /\ search' \in SearchRow({made}) /\ search'.phase = "built" /\ search'.bundle = made
          /\ search'.results = search.results
      <4>1. search' = [search EXCEPT !.phase = "built", !.bundle = made]
        BY <3>1 DEF made
      <4>2. QED  BY <2>1, <4>1
    <3>3. MadeBundle' = MadeBundle
      BY <3>1, <3>2, MadeKept
    <3>4. QED  BY <3>1, <3>2, <3>3 DEF SearchInv, made
  <2>5. CASE UNCHANGED searchVars
    <3>1. UNCHANGED <<corpus, register, request, search>>
      BY <2>5 DEF searchVars
    <3>2. MadeBundle' = MadeBundle
      BY <3>1, MadeKept
    <3>3. QED  BY <3>1, <3>2 DEF SearchInv
  <2>6. QED  BY <2>2, <2>3, <2>4, <2>5 DEF SearchNext
<1>3. QED  BY <1>1, <1>2, PTL DEF SearchSpec

\* A search keeps its type: its results and its claims are sections of the corpus.
THEOREM SearchTypes == SearchSpec => []SearchTypeOK
<1>1. SearchInv => SearchTypeOK
  <2> SUFFICES ASSUME SearchInv  PROVE SearchTypeOK
    OBVIOUS
  <2>1. search.results \subseteq 1..Len(corpus) /\ search.bundle \in {NoBundle, MadeBundle}
        /\ search.phase \in {"prepare", "search", "build", "built", "unavailable"}
    BY DEF SearchInv
  <2>2. NoBundle.claims = {} /\ MadeBundle.claims = OrdinaryClaims \cup ConflictClaims
    BY DEF NoBundle, MadeBundle
  <2>3. \A c \in search.bundle.claims : c.cites \in Found
    BY <2>1, <2>2, ClaimsOf, ConflictsFound
  <2>4. QED  BY <2>1, <2>3, SearchConstants DEF SearchInv, SearchTypeOK, Found
<1>2. QED  BY <1>1, SearchInvariant, PTL

\* A stored bundle passes the checks its replay makes and speaks of no section twice,
\* whatever the corpus, the register and the request.
THEOREM Bundles == SearchSpec => []BundleReplays
<1>1. SearchInv => BundleReplays
  BY MadeValid DEF SearchInv, BundleReplays
<1>2. QED  BY <1>1, SearchInvariant, PTL

-------------------------------------------------------------------------------
(***************************************************************************)
(* ProcedureEvidence                                                       *)
(***************************************************************************)

\* What composeProcedureWorkflow makes of a retrieval.
Composed ==
  [composed |-> TRUE, matched |-> [k \in Step |-> FirstMatching(k)], status |-> [k \in Step |-> ComposedStatus(k)],
   gaps |-> GeneralGaps, open |-> PartialGaps]

\* Each artifact is what its mapper makes of the workflow there is.
ProcedureInv ==
  /\ retrieved \in Retrievals /\ asked \in Asks
  /\ workflow \in {NotComposed, Composed}
  /\ DOMAIN artifacts \subseteq {"workflow", "assessment", "bundle", "pack"}
  /\ DOMAIN artifacts # {} => workflow = Composed
  /\ Answered("workflow") => artifacts["workflow"] = WorkflowArtifact
  /\ Answered("assessment") => artifacts["assessment"] = Assessment
  /\ Answered("bundle") => artifacts["bundle"] = EvidenceBundle
  /\ Answered("pack") => artifacts["pack"] = ClaimPack

\* The passages of a conflict may be cited, one of each version.
LEMMA ConflictsCited ==
  ASSUME NEW c \in DocumentConflicts
  PROVE  /\ c \subseteq Citable /\ c \subseteq InConflict
         /\ \A i, j \in c : retrieved[i].version = retrieved[j].version => i = j
<1>1. PICK place : c = FirstOfVersion(place)
  BY DEF DocumentConflicts
<1>2. c \subseteq Citable /\ Citable \subseteq Nat
  BY <1>1 DEF FirstOfVersion, Citable
<1>3. ASSUME NEW i \in c, NEW j \in c, retrieved[i].version = retrieved[j].version  PROVE i = j
  <2>1. i <= j /\ j <= i
    BY <1>1, <1>3 DEF FirstOfVersion
  <2>2. QED  BY <1>2, <2>1
<1>4. QED  BY <1>2, <1>3 DEF InConflict

\* What is said of a step: nothing that is cited; a conflict; or what its citations are.
LEMMA StatusOf ==
  ASSUME NEW k \in Step
  PROVE  /\ StepStatus(k) \in ProcedureStatus
         /\ StepStatus(k) = "missing_evidence" <=> StepRefs(k) = {}
         /\ StepStatus(k) \in {"supported", "comparative_reference"} =>
              StepRefs(k) # {} /\ StepRefs(k) \cap InConflict = {}
         /\ StepStatus(k) = "supported" => \E i \in StepRefs(k) : CitationStatus(i) = "supported"
BY DEF StepStatus, ProcedureStatus

\* A citation that supports a step is of an official source.
LEMMA OfficialOnly ==
  ASSUME NEW i, CitationStatus(i) = "supported"
  PROVE  retrieved[i].official
<1>1. SourceAuthority(i) \in {"official_target_jurisdiction", "official_national"}
  BY DEF CitationStatus
<1>2. QED  BY <1>1 DEF SourceAuthority

\* A step cites what matched it and may be cited.
LEMMA RefsCited ==
  ASSUME NEW k
  PROVE  StepRefs(k) \subseteq Citable /\ StepRefs(k) \subseteq workflow.matched[k]
BY DEF StepRefs

\* The claims of a bundle: of a step, or of a passage in conflict.
LEMMA ClaimsMade ==
  /\ \A c \in StepClaims : /\ DOMAIN c = {"of", "refs", "status"} /\ c.of \in Step
                           /\ c.refs = StepRefs(c.of) /\ c.status = StepStatus(c.of)
                           /\ StepRefs(c.of) # {} /\ StepRefs(c.of) \cap InConflict = {}
  /\ \A k \in Step : StepRefs(k) # {} /\ StepRefs(k) \cap InConflict = {} =>
       \E c \in StepClaims : c.of = k /\ c.status = StepStatus(k)
  /\ \A c \in PassageClaims : /\ DOMAIN c = {"passage", "refs", "status"} /\ c.status = "inferred_for_review"
                              /\ \E i \in InConflict : c.refs = {i}
  /\ \A i \in InConflict : \E c \in PassageClaims : c.refs = {i} /\ c.status = "inferred_for_review"
<1>1. \A c \in StepClaims :
        \E k \in Step : /\ StepRefs(k) # {} /\ StepRefs(k) \cap InConflict = {}
                        /\ c = [of |-> k, refs |-> StepRefs(k), status |-> StepStatus(k)]
  BY DEF StepClaims
<1>2. \A k \in Step : StepRefs(k) # {} /\ StepRefs(k) \cap InConflict = {} =>
        [of |-> k, refs |-> StepRefs(k), status |-> StepStatus(k)] \in StepClaims
  BY DEF StepClaims
<1>3. \A c \in PassageClaims :
        \E i \in InConflict : c = [passage |-> i, refs |-> {i}, status |-> "inferred_for_review"]
  BY DEF PassageClaims
<1>4. \A i \in InConflict : [passage |-> i, refs |-> {i}, status |-> "inferred_for_review"] \in PassageClaims
  BY DEF PassageClaims
<1>5. ASSUME NEW c \in StepClaims
      PROVE  /\ DOMAIN c = {"of", "refs", "status"} /\ c.of \in Step
             /\ c.refs = StepRefs(c.of) /\ c.status = StepStatus(c.of)
             /\ StepRefs(c.of) # {} /\ StepRefs(c.of) \cap InConflict = {}
  <2>1. PICK k \in Step : /\ StepRefs(k) # {} /\ StepRefs(k) \cap InConflict = {}
                          /\ c = [of |-> k, refs |-> StepRefs(k), status |-> StepStatus(k)]
    BY <1>1
  <2>2. DOMAIN c = {"of", "refs", "status"} /\ c.of = k /\ c.refs = StepRefs(k) /\ c.status = StepStatus(k)
    BY <2>1
  <2>3. QED  BY <2>1, <2>2
<1>6. ASSUME NEW k \in Step, StepRefs(k) # {}, StepRefs(k) \cap InConflict = {}
      PROVE  \E c \in StepClaims : c.of = k /\ c.status = StepStatus(k)
  BY <1>2, <1>6
<1>7. ASSUME NEW c \in PassageClaims
      PROVE  /\ DOMAIN c = {"passage", "refs", "status"} /\ c.status = "inferred_for_review"
             /\ \E i \in InConflict : c.refs = {i}
  BY <1>3
<1>8. ASSUME NEW i \in InConflict
      PROVE  \E c \in PassageClaims : c.refs = {i} /\ c.status = "inferred_for_review"
  BY <1>4
<1>9. QED  BY <1>5, <1>6, <1>7, <1>8

\* The gaps of a bundle that name a step are those of the steps without evidence.
LEMMA GapsNamed ==
  LET missing == EvidenceBundle.missing
  IN  /\ \A k \in Step : StepStatus(k) = "missing_evidence" => [step |-> k] \in missing
      /\ \A g \in missing : "step" \in DOMAIN g => g.step \in Step /\ StepStatus(g.step) = "missing_evidence"
      /\ Citable = {} => missing # {}
<1> DEFINE named == NamedGaps \cup {[step |-> k] : k \in UnsupportedSteps} \cup ConflictGaps \cup ProvenanceGap
           missing == EvidenceBundle.missing
<1>1. missing = OrNothingFound(named)
  BY DEF EvidenceBundle
<1>2. \A k \in Step : StepStatus(k) = "missing_evidence" => [step |-> k] \in named
  BY DEF UnsupportedSteps
<1>3. ASSUME NEW g \in named, "step" \in DOMAIN g
      PROVE  g.step \in Step /\ StepStatus(g.step) = "missing_evidence"
  <2>1. /\ \A h \in NamedGaps : DOMAIN h = {"item"} \/ DOMAIN h = {"passage"}
        /\ \A h \in ConflictGaps : DOMAIN h = {"conflict"}
        /\ \A h \in ProvenanceGap : DOMAIN h = {"provenance"}
    BY DEF NamedGaps, ConflictGaps, ProvenanceGap
  <2>2. PICK k \in UnsupportedSteps : g = [step |-> k]
    BY <1>3, <2>1
  <2>3. QED  BY <2>2 DEF UnsupportedSteps
<1> HIDE DEF named, missing
<1>4. \/ missing = named /\ (Citable = {} => named # {})
      \/ named = {} /\ missing = {[evidence |-> "none"]}
  <2>1. CASE Citable = {} /\ named = {}
    BY <1>1, <2>1 DEF OrNothingFound
  <2>2. CASE ~(Citable = {} /\ named = {})
    <3>1. missing = named
      BY <1>1, <2>2, Zenon DEF OrNothingFound
    <3>2. QED  BY <2>2, <3>1
  <2>3. QED  BY <2>1, <2>2
<1>5. \A g \in {[evidence |-> "none"]} : "step" \notin DOMAIN g
  OBVIOUS
<1>6. Citable = {} => missing # {}
  BY <1>4
<1>7. \A k \in Step : StepStatus(k) = "missing_evidence" => [step |-> k] \in missing
  BY <1>2, <1>4
<1>8. \A g \in missing : "step" \in DOMAIN g => g.step \in Step /\ StepStatus(g.step) = "missing_evidence"
  BY <1>3, <1>4, <1>5
<1>9. QED  BY <1>6, <1>7, <1>8 DEF missing

\* A conflict has one passage of each version it is between.
LEMMA VersionsCounted ==
  ASSUME ProcedureInv, NEW c \in DocumentConflicts
  PROVE  Cardinality({retrieved[i].version : i \in c}) = Cardinality(c)
<1> DEFINE f == [i \in c |-> retrieved[i].version]
<1>1. IsFiniteSet(c)
  <2>1. Len(retrieved) \in Nat /\ Citable \subseteq 1..Len(retrieved)
    BY ProcedureConstants DEF ProcedureInv, Citable
  <2>2. IsFiniteSet(1..Len(retrieved))
    BY <2>1, FS_Interval
  <2>3. c \subseteq 1..Len(retrieved)
    BY <2>1, ConflictsCited
  <2>4. QED  BY <2>2, <2>3, FS_Subset
<1>2. {f[i] : i \in c} = {retrieved[i].version : i \in c} /\ \A i \in c : f[i] = retrieved[i].version
  OBVIOUS
<1> HIDE DEF f
<1>3. \A i, j \in c : f[i] = f[j] => i = j
  BY <1>2, ConflictsCited
<1>4. Cardinality({f[i] : i \in c}) = Cardinality(c)
  BY <1>1, <1>3, CountedBy
<1>5. QED  BY <1>2, <1>4

\* The steps a bundle claims, those it misses and those it disputes.
LEMMA StepsOf ==
  ASSUME artifacts["bundle"] = EvidenceBundle
  PROVE  /\ ClaimedSteps = {k \in Step : StepRefs(k) # {} /\ StepRefs(k) \cap InConflict = {}}
         /\ MissingSteps = {k \in Step : StepRefs(k) = {}}
         /\ DisputedSteps = {k \in Step : StepRefs(k) \cap InConflict # {}}
<1>1. /\ Bundled.claims = StepClaims \cup PassageClaims /\ Bundled.contradictions = DocumentConflicts
      /\ Bundled.missing = EvidenceBundle.missing
  BY DEF Bundled, EvidenceBundle
<1>2. {d \in Bundled.claims : "of" \in DOMAIN d} = StepClaims
  BY <1>1, ClaimsMade
<1>3. ClaimedSteps = {k \in Step : StepRefs(k) # {} /\ StepRefs(k) \cap InConflict = {}}
  <2>1. ClaimedSteps = {c.of : c \in StepClaims}
    BY <1>2 DEF ClaimedSteps
  <2>2. \A k : k \in ClaimedSteps => k \in Step /\ StepRefs(k) # {} /\ StepRefs(k) \cap InConflict = {}
    BY <2>1, ClaimsMade
  <2>3. \A k \in Step : StepRefs(k) # {} /\ StepRefs(k) \cap InConflict = {} => k \in ClaimedSteps
    BY <2>1, ClaimsMade
  <2>4. QED  BY <2>2, <2>3
<1>4. MissingSteps = {k \in Step : StepRefs(k) = {}}
  <2>1. MissingSteps = {g.step : g \in {h \in EvidenceBundle.missing : "step" \in DOMAIN h}}
    BY <1>1 DEF MissingSteps
  <2>2. \A k : k \in MissingSteps => k \in Step /\ StepStatus(k) = "missing_evidence"
    BY <2>1, GapsNamed
  <2>3. \A k \in Step : StepStatus(k) = "missing_evidence" => k \in MissingSteps
    <3> SUFFICES ASSUME NEW k \in Step, StepStatus(k) = "missing_evidence"  PROVE k \in MissingSteps
      OBVIOUS
    <3>1. [step |-> k] \in EvidenceBundle.missing
      BY GapsNamed
    <3>2. "step" \in DOMAIN [step |-> k] /\ [step |-> k].step = k
      OBVIOUS
    <3>3. QED  BY <2>1, <3>1, <3>2
  <2>4. QED  BY <2>2, <2>3, StatusOf
<1>5. DisputedSteps = {k \in Step : StepRefs(k) \cap InConflict # {}}
  BY <1>1, ConflictsCited DEF DisputedSteps, StepRefs, InConflict
<1>6. QED  BY <1>3, <1>4, <1>5

\* Every step of a bundle is accounted for once.
LEMMA AccountedFor ==
  ASSUME ProcedureInv
  PROVE  StepsAccountedFor
<1> SUFFICES ASSUME Answered("bundle")  PROVE StepsAccountedFor
  BY DEF StepsAccountedFor
<1>1. artifacts["bundle"] = EvidenceBundle
  BY DEF ProcedureInv
<1>2. /\ Bundled.claims = StepClaims \cup PassageClaims /\ Bundled.contradictions = DocumentConflicts
      /\ Bundled.missing = EvidenceBundle.missing /\ Bundled.citations = Citable
  BY <1>1 DEF Bundled, EvidenceBundle
<1>3. ClaimedSteps \cup MissingSteps \cup DisputedSteps = Step
  BY <1>1, StepsOf
<1>4. ClaimedSteps \cap MissingSteps = {} /\ DisputedSteps \cap (ClaimedSteps \cup MissingSteps) = {}
  BY <1>1, StepsOf
<1>5. ASSUME NEW c \in Bundled.contradictions
      PROVE  /\ Cardinality({retrieved[i].version : i \in c}) = Cardinality(c)
             /\ \A i \in c : \E d \in Bundled.claims : d.refs = {i} /\ d.status = "inferred_for_review"
  <2>1. c \in DocumentConflicts
    BY <1>2
  <2>2. Cardinality({retrieved[i].version : i \in c}) = Cardinality(c)
    BY <2>1, VersionsCounted
  <2>3. c \subseteq InConflict
    BY <2>1, ConflictsCited
  <2>4. QED  BY <1>2, <2>2, <2>3, ClaimsMade
<1>6. ASSUME NEW d \in Bundled.claims
      PROVE  /\ d.refs # {} /\ d.refs \subseteq Bundled.citations
             /\ d.status = "supported" => \E i \in d.refs : retrieved[i].official
  <2>1. CASE d \in StepClaims
    <3>1. d.of \in Step /\ d.refs = StepRefs(d.of) /\ d.status = StepStatus(d.of) /\ d.refs # {}
      BY <2>1, ClaimsMade
    <3>2. d.refs \subseteq Citable
      BY <3>1, RefsCited
    <3>3. d.status = "supported" => \E i \in d.refs : CitationStatus(i) = "supported"
      BY <3>1, StatusOf
    <3>4. QED  BY <1>2, <3>1, <3>2, <3>3, OfficialOnly
  <2>2. CASE d \in PassageClaims
    <3>1. PICK i \in InConflict : d.refs = {i}
      BY <2>2, ClaimsMade
    <3>2. d.status = "inferred_for_review"
      BY <2>2, ClaimsMade
    <3>3. InConflict \subseteq Citable
      BY ConflictsCited DEF InConflict
    <3>4. QED  BY <1>2, <3>1, <3>2, <3>3
  <2>3. QED  BY <1>2, <2>1, <2>2
<1>7. Bundled.citations = {} => Bundled.missing # {}
  BY <1>2, GapsNamed
<1>8. QED  BY <1>3, <1>4, <1>5, <1>6, <1>7 DEF StepsAccountedFor

\* The workflow, the assessment and the pack say what the bundle says.
LEMMA OthersAgree ==
  ASSUME ProcedureInv
  PROVE  ArtifactsAgree
<1>1. /\ Answered("bundle") => artifacts["bundle"] = EvidenceBundle
      /\ Answered("workflow") => artifacts["workflow"] = WorkflowArtifact
      /\ Answered("assessment") => artifacts["assessment"] = Assessment
      /\ Answered("pack") => artifacts["pack"] = ClaimPack
  BY DEF ProcedureInv
<1>2. Answered("bundle") =>
        /\ Bundled.claims = StepClaims \cup PassageClaims /\ Bundled.contradictions = DocumentConflicts
        /\ Bundled.citations = Citable
  BY <1>1 DEF Bundled, EvidenceBundle
<1>3. ASSUME Answered("bundle"), Answered("workflow"), NEW c \in Bundled.claims, "of" \in DOMAIN c
      PROVE  artifacts["workflow"].steps[c.of] = c.status
  <2>1. c \in StepClaims
    BY <1>2, <1>3, ClaimsMade
  <2>2. c.of \in Step /\ c.status = StepStatus(c.of)
    BY <2>1, ClaimsMade
  <2>3. artifacts["workflow"].steps = [k \in Step |-> StepStatus(k)]
    BY <1>1, <1>3 DEF WorkflowArtifact
  <2>4. QED  BY <2>2, <2>3
<1>4. ASSUME Answered("bundle"), Answered("assessment")
      PROVE  /\ \A k \in Step \ artifacts["assessment"].blocked :
                  \E c \in Bundled.claims : "of" \in DOMAIN c /\ c.of = k /\ c.status = "supported"
             /\ \A d \in artifacts["assessment"].missing : d.status # "supported"
  <2>1. /\ artifacts["assessment"].blocked = {k \in Step : WorkflowArtifact.steps[k] # "supported" \/ StepDocuments[k] # {}}
        /\ artifacts["assessment"].missing = Requirements
    BY <1>1, <1>4 DEF Assessment, WorkflowArtifact
  <2>2. WorkflowArtifact.steps = [k \in Step |-> StepStatus(k)]
    BY DEF WorkflowArtifact
  <2>3. ASSUME NEW k \in Step \ artifacts["assessment"].blocked
        PROVE  \E c \in Bundled.claims : "of" \in DOMAIN c /\ c.of = k /\ c.status = "supported"
    <3>1. StepStatus(k) = "supported"
      BY <2>1, <2>2, <2>3
    <3>2. StepRefs(k) # {} /\ StepRefs(k) \cap InConflict = {}
      BY <3>1, StatusOf
    <3>3. PICK c \in StepClaims : c.of = k /\ c.status = StepStatus(k)
      BY <3>2, ClaimsMade
    <3>4. "of" \in DOMAIN c
      BY ClaimsMade
    <3>5. QED  BY <1>2, <1>4, <3>1, <3>3, <3>4
  <2>4. ASSUME NEW d \in Requirements  PROVE d.status # "supported"
    BY DEF Requirements
  <2>5. QED  BY <2>1, <2>3, <2>4
<1>5. ASSUME Answered("bundle"), Answered("pack")
      PROVE  IF artifacts["pack"].refused
             THEN \/ Bundled.contradictions # {}
                  \/ \A c \in Bundled.claims : c.status = "inferred_for_review"
             ELSE /\ Bundled.contradictions = {}
                  /\ artifacts["pack"].claims \subseteq Bundled.claims
                  /\ artifacts["pack"].citations \subseteq Bundled.citations
                  /\ \A i \in artifacts["pack"].citations :
                       \E k \in Step : i \in workflow.matched[k] /\ StepStatus(k) # "inferred_for_review"
  <2> DEFINE claims == {c \in StepClaims \cup PassageClaims : c.status \in {"supported", "comparative_reference"}}
             pack == artifacts["pack"]
  <2>1. pack = IF DocumentConflicts # {} \/ claims = {} THEN [refused |-> TRUE]
               ELSE [refused |-> FALSE, claims |-> claims, citations |-> UNION {c.refs : c \in claims}]
    BY <1>1, <1>5 DEF ClaimPack, EvidenceBundle
  <2>2. \A c \in StepClaims \cup PassageClaims : c \in claims \/ c.status = "inferred_for_review"
    <3> SUFFICES ASSUME NEW c \in StepClaims \cup PassageClaims, c.status # "inferred_for_review"
                 PROVE  c.status \in {"supported", "comparative_reference"}
      OBVIOUS
    <3>1. c.of \in Step /\ c.status = StepStatus(c.of) /\ StepRefs(c.of) # {}
      BY ClaimsMade
    <3>2. QED  BY <3>1, StatusOf DEF ProcedureStatus
  <2>3. ASSUME NEW c \in claims, NEW i \in c.refs
        PROVE  /\ i \in Citable
               /\ \E k \in Step : i \in workflow.matched[k] /\ StepStatus(k) # "inferred_for_review"
    <3>1. c \in StepClaims /\ c.status # "inferred_for_review"
      BY ClaimsMade
    <3>2. c.of \in Step /\ c.status = StepStatus(c.of) /\ c.refs = StepRefs(c.of)
      BY <3>1, ClaimsMade
    <3>3. QED  BY <2>3, <3>1, <3>2, RefsCited
  <2>4. claims \subseteq StepClaims \cup PassageClaims
    OBVIOUS
  <2> HIDE DEF claims
  <2>5. CASE DocumentConflicts # {} \/ claims = {}
    <3>1. pack.refused
      BY <2>1, <2>5
    <3>2. QED  BY <1>2, <1>5, <2>2, <2>5, <3>1
  <2>6. CASE ~(DocumentConflicts # {} \/ claims = {})
    <3>1. pack = [refused |-> FALSE, claims |-> claims, citations |-> UNION {c.refs : c \in claims}]
      BY <2>1, <2>6, Zenon
    <3>2. ~pack.refused /\ pack.claims = claims /\ pack.citations = UNION {c.refs : c \in claims}
      BY <3>1
    <3> HIDE DEF pack
    <3>3. ASSUME NEW i \in pack.citations
          PROVE  /\ i \in Citable
                 /\ \E k \in Step : i \in workflow.matched[k] /\ StepStatus(k) # "inferred_for_review"
      BY <2>3, <3>2
    <3>4. QED  BY <1>2, <1>5, <2>4, <2>6, <3>2, <3>3 DEF pack
  <2>7. QED  BY <2>5, <2>6
<1>6. QED  BY <1>3, <1>4, <1>5, AccountedFor DEF ArtifactsAgree

\* A mapper only reads: what there is to map is as before.
LEMMA ArtifactsKept ==
  ASSUME UNCHANGED <<retrieved, asked, workflow>>
  PROVE  /\ WorkflowArtifact' = WorkflowArtifact /\ Assessment' = Assessment
         /\ EvidenceBundle' = EvidenceBundle /\ ClaimPack' = ClaimPack /\ Composed' = Composed
<1>1. Citable' = Citable
  BY DEF Citable
<1>2. DocumentConflicts' = DocumentConflicts
  <2>1. \A place : FirstOfVersion(place)' = FirstOfVersion(place)
    BY <1>1 DEF FirstOfVersion, Place
  <2>2. QED  BY <1>1, <2>1 DEF DocumentConflicts, Place
<1>3. InConflict' = InConflict
  BY <1>2 DEF InConflict
<1>4. \A i : CitationStatus(i)' = CitationStatus(i)
  BY DEF CitationStatus, SourceAuthority
<1>5. \A k : StepRefs(k)' = StepRefs(k)
  BY <1>1 DEF StepRefs
<1>6. \A k : StepStatus(k)' = StepStatus(k)
  BY <1>3, <1>4, <1>5 DEF StepStatus
<1>7. Requirements' = Requirements
  BY <1>6 DEF Requirements
<1>8. NamedGaps' = NamedGaps /\ ConflictGaps' = ConflictGaps /\ ProvenanceGap' = ProvenanceGap
  BY <1>1, <1>2 DEF NamedGaps, ConflictGaps, ProvenanceGap
<1>9. \A gaps : OrNothingFound(gaps)' = OrNothingFound(gaps)
  BY <1>1 DEF OrNothingFound
<1>10. WorkflowArtifact' = WorkflowArtifact
  BY <1>1, <1>6, <1>7, <1>8 DEF WorkflowArtifact, OrNothingFound
<1>11. Assessment' = Assessment
  BY <1>5, <1>10 DEF Assessment
<1>12. EvidenceBundle' = EvidenceBundle
  BY <1>1, <1>2, <1>3, <1>5, <1>6, <1>8
  DEF EvidenceBundle, StepClaims, PassageClaims, UnsupportedSteps, OrNothingFound
<1>13. ClaimPack' = ClaimPack
  BY <1>12 DEF ClaimPack
<1>14. Composed' = Composed
  BY DEF Composed, FirstMatching, ComposedStatus, GeneralGaps, Levels, PartialGaps
<1>15. QED  BY <1>10, <1>11, <1>12, <1>13, <1>14

\* One more artifact is answered, made of the workflow there is.
LEMMA MapsStep ==
  ASSUME ProcedureInv, NEW type \in {"workflow", "assessment", "bundle", "pack"}, NEW artifact,
         MapArtifact(type, artifact),
         type = "workflow" => artifact = WorkflowArtifact, type = "assessment" => artifact = Assessment,
         type = "bundle" => artifact = EvidenceBundle, type = "pack" => artifact = ClaimPack
  PROVE  ProcedureInv'
<1>1. /\ UNCHANGED <<retrieved, asked, workflow>> /\ workflow.composed
      /\ artifacts' = [t \in DOMAIN artifacts \cup {type} |-> IF t = type THEN artifact ELSE artifacts[t]]
  BY DEF MapArtifact
<1>2. workflow = Composed
  BY <1>1 DEF ProcedureInv, NotComposed
<1>3. /\ WorkflowArtifact' = WorkflowArtifact /\ Assessment' = Assessment
      /\ EvidenceBundle' = EvidenceBundle /\ ClaimPack' = ClaimPack /\ Composed' = Composed
  BY <1>1, ArtifactsKept
<1>4. DOMAIN artifacts' = DOMAIN artifacts \cup {type}
  BY <1>1
<1>5. \A t \in DOMAIN artifacts' :
        artifacts'[t] = IF t = type THEN artifact ELSE artifacts[t]
  BY <1>1
<1>6. \A t : t \in DOMAIN artifacts' => t = type \/ t \in DOMAIN artifacts
  BY <1>4
<1>7. /\ "workflow" \in DOMAIN artifacts' => artifacts'["workflow"] = WorkflowArtifact
      /\ "assessment" \in DOMAIN artifacts' => artifacts'["assessment"] = Assessment
      /\ "bundle" \in DOMAIN artifacts' => artifacts'["bundle"] = EvidenceBundle
      /\ "pack" \in DOMAIN artifacts' => artifacts'["pack"] = ClaimPack
  BY <1>5, <1>6 DEF ProcedureInv, Answered
<1>8. QED  BY <1>1, <1>2, <1>3, <1>4, <1>7 DEF ProcedureInv, Answered

\* A workflow is composed while nothing is mapped.
LEMMA ComposesStep ==
  ASSUME ProcedureInv, ComposeProcedureWorkflow
  PROVE  ProcedureInv'
<1>1. UNCHANGED <<retrieved, asked, artifacts>> /\ workflow' = Composed /\ ~workflow.composed
  BY DEF ComposeProcedureWorkflow, Composed
<1>2. DOMAIN artifacts = {}
  BY <1>1 DEF ProcedureInv, Composed
<1>3. Composed' = Composed
  BY <1>1 DEF Composed, FirstMatching, ComposedStatus, GeneralGaps, Levels, PartialGaps
<1>4. QED  BY <1>1, <1>2, <1>3 DEF ProcedureInv, Answered

\* Every artifact of a procedure query is what its mapper makes of the one
\* workflow that was composed for it.
THEOREM ProcedureInvariant == ProcedureSpec => []ProcedureInv
<1>1. ASSUME ProcedureInit  PROVE ProcedureInv
  BY <1>1 DEF ProcedureInit, ProcedureInv, Answered
<1>2. ASSUME ProcedureInv, [ProcedureNext]_procedureVars  PROVE ProcedureInv'
  <2>1. CASE ComposeProcedureWorkflow
    BY <1>2, <2>1, ComposesStep
  <2>2. CASE MapProcedureWorkflow
    BY <1>2, <2>2, MapsStep DEF MapProcedureWorkflow
  <2>3. CASE MapProcedureAssessment
    BY <1>2, <2>3, MapsStep DEF MapProcedureAssessment
  <2>4. CASE MapEvidenceBundle
    BY <1>2, <2>4, MapsStep DEF MapEvidenceBundle
  <2>5. CASE MapClaimPack
    BY <1>2, <2>5, MapsStep DEF MapClaimPack
  <2>6. CASE UNCHANGED procedureVars
    <3>1. UNCHANGED <<retrieved, asked, workflow>> /\ artifacts' = artifacts
      BY <2>6 DEF procedureVars
    <3>2. QED  BY <1>2, <3>1, ArtifactsKept DEF ProcedureInv, Answered
  <2>7. QED  BY <1>2, <2>1, <2>2, <2>3, <2>4, <2>5, <2>6 DEF ProcedureNext
<1>3. QED  BY <1>1, <1>2, PTL DEF ProcedureSpec

\* The state of a procedure query keeps its type: its workflow matches passages
\* that were retrieved, and its answers are the four artifacts.
THEOREM ProcedureTypes == ProcedureSpec => []ProcedureTypeOK
<1>1. ASSUME ProcedureInv  PROVE ProcedureTypeOK
  <2>1. \A i \in 1..Len(retrieved) : retrieved[i].matches \subseteq Step
    BY <1>1, ProcedureConstants DEF ProcedureInv, Step
  <2>2. workflow.composed => \A k \in Step : workflow.matched[k] \subseteq 1..Len(retrieved)
    <3>1. CASE workflow = NotComposed
      BY <3>1 DEF NotComposed
    <3>2. CASE workflow = Composed
      <4>1. workflow.matched = [k \in Step |-> FirstMatching(k)]
        BY <3>2 DEF Composed
      <4>2. \A k \in Step : FirstMatching(k) \subseteq 1..Len(retrieved)
        BY DEF FirstMatching, FirstFew
      <4>3. QED  BY <4>1, <4>2
    <3>3. QED  BY <1>1, <3>1, <3>2 DEF ProcedureInv
  <2>3. "workflow" \in DOMAIN artifacts => \A k \in Step : artifacts["workflow"].steps[k] \in ProcedureStatus
    BY <1>1, StatusOf DEF ProcedureInv, Answered, WorkflowArtifact
  <2>4. QED  BY <1>1, <2>1, <2>2, <2>3 DEF ProcedureInv, ProcedureTypeOK
<1>2. QED  BY <1>1, ProcedureInvariant, PTL

\* The four artifacts of one procedure query agree: a step has one status in the
\* workflow and in its claim, the assessment blocks what the bundle does not
\* support, and a pack claims nothing that is contradicted.
THEOREM Artifacts == ProcedureSpec => []ArtifactsAgree
<1>1. ProcedureInv => ArtifactsAgree
  BY OthersAgree
<1>2. QED  BY <1>1, ProcedureInvariant, PTL
===============================================================================
