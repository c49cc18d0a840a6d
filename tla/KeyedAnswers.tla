------------------------------ MODULE KeyedAnswers ----------------------------
(***************************************************************************)
(* Idempotency keys of the query, claim pack, evidence gap, catalog and    *)
(* evidence bundle operations (src/src/api/v1, catalog, searchEvidence).   *)
(*                                                                         *)
(* All of them claim a key with the same three statements: DELETE the      *)
(* expired rows of the principal, INSERT ... ON CONFLICT DO NOTHING, and,  *)
(* when that inserted nothing, SELECT.  Each statement sees what is        *)
(* committed when it begins and waits for the rows another transaction has *)
(* deleted or inserted.  Four operations do everything in that transaction; *)
(* the bundle commits its claim, calls the embedding provider outside any  *)
(* transaction and stores the answer in a second one.                      *)
(*                                                                         *)
(* A gap and a catalog source or document also have identities that are    *)
(* unique in their tables: the aggregate.                                  *)
(***************************************************************************)
EXTENDS Naturals, FiniteSets

CONSTANTS Client,      \* concurrent calls, each sent once; a retry is another call
          Sent,        \* the requests: operation, key, content, identities of the aggregate
          KeyTTL,      \* lifetime of a row
          Clock,       \* bound on the clock, which starts at 0
          None

(* A gap that is asked for again is found by an identity of its own: its   *)
(* content holds its identifiers.                                          *)
ASSUME KeyedConstants ==
  /\ None \notin Client
  /\ KeyTTL \in Nat /\ Clock \in Nat
  /\ \A r, q \in Sent :
       r.operation = "gap" /\ q.operation = "gap" /\ r.content = q.content
       => r.identities \cap q.identities # {}

Scope == {[operation |-> r.operation, key |-> r.key] : r \in Sent}
ScopeOf(r) == [operation |-> r.operation, key |-> r.key]

(* Operations whose SELECT of the row is FOR UPDATE. *)
LocksRow == {"catalog", "bundle"}

VARIABLES tx,       \* the calls that came, and what their open transactions hold
          rows,     \* the committed rows of the idempotency tables
          entities, \* committed gaps, sources and documents
          answers,  \* history: the answers that were ever stored under a key
          clock

keyedVars == <<tx, rows, entities, answers, clock>>

Row == [request: Sent, by: Client \cup {None}, until: KeyTTL..(Clock + KeyTTL), spoiled: BOOLEAN]
Entity == [request: Sent, by: Client, spoiled: BOOLEAN]
Asked == DOMAIN tx

Start(phase, r) ==
  [phase |-> phase, request |-> r, now |-> 0, until |-> 0, deleted |-> {}, locked |-> {},
   inserted |-> FALSE, released |-> FALSE, entity |-> FALSE, status |-> 0, answer |-> None]

KeyedTypeOK ==
  /\ Asked \subseteq Client
  /\ \A c \in Asked :
       /\ tx[c].phase \in {"deleting", "inserting", "looking", "invalidating", "claimed",
                           "committing", "outside", "releasing", "ended"}
       /\ tx[c].request \in Sent
       /\ tx[c].deleted \subseteq Scope /\ tx[c].locked \subseteq Scope
       /\ tx[c].status \in {0, 200, 409, 500} /\ tx[c].answer \in Client \cup {None}
  /\ rows \subseteq Row
  /\ entities \subseteq Entity
  /\ clock \in 0..Clock

KeyedInit ==
  /\ tx = [c \in {} |-> Start("ended", None)]
  /\ rows = {}
  /\ entities = {}
  /\ answers = {}
  /\ clock = 0

Mine(c) == ScopeOf(tx[c].request)
Operation(c) == tx[c].request.operation
Others(c) == Asked \ {c}
DeletedByOther(c, s) == \E d \in Others(c) : s \in tx[d].deleted
LockedByOther(c, s) == \E d \in Others(c) : s \in tx[d].deleted \cup tx[d].locked
InsertedByOther(c, s) == \E d \in Others(c) : tx[d].inserted /\ Mine(d) = s
Under(s) == {row \in rows : ScopeOf(row.request) = s}   \* at most one: the primary key
Seen(c) == IF Mine(c) \in tx[c].deleted THEN {} ELSE Under(Mine(c))
ExpiredRows(c) ==
  {ScopeOf(row.request) :
     row \in {old \in rows : old.request.operation = Operation(c) /\ old.until <= tx[c].now}}

Goes(c, phase) == tx' = [tx EXCEPT ![c].phase = phase]
Answers(c, status, by) ==
  tx' = [tx EXCEPT ![c].phase = "committing", ![c].status = status, ![c].answer = by]
(* The end of a transaction gives up what it held. *)
Ended(c, phase, status, by) ==
  [Start(phase, tx[c].request) EXCEPT !.status = status, !.answer = by]
(* A transaction is rolled back and the call answers, if at all, that it   *)
(* failed.  The transaction that records this releases a claim that is gone. *)
Fail(c) == tx' = [tx EXCEPT ![c] = Ended(c, "ended", 500, None)]

-------------------------------------------------------------------------------
(* Bound: the calls of one behaviour are for one operation.  The           *)
(* operations have tables of their own.                                    *)
Ask(c, r) ==
  /\ c \notin Asked
  /\ \A d \in Asked : Operation(d) = r.operation
  /\ tx' = [d \in Asked \cup {c} |->
              IF d = c THEN [Start("deleting", r) EXCEPT !.now = clock] ELSE tx[d]]
  /\ UNCHANGED <<rows, entities, answers, clock>>

DeleteExpired(c) ==
  /\ tx[c].phase = "deleting"
  /\ \A s \in ExpiredRows(c) : ~LockedByOther(c, s)
  /\ tx' = [tx EXCEPT ![c].phase = "inserting", ![c].deleted = ExpiredRows(c)]
  /\ UNCHANGED <<rows, entities, answers, clock>>

(* The catalog and the bundle date a row with the application's clock, read *)
(* when the request came; the others with the database's.                   *)
InsertClaim(c) ==
  LET s == Mine(c)
  IN /\ tx[c].phase = "inserting"
     /\ ~InsertedByOther(c, s) /\ ~DeletedByOther(c, s)
     /\ IF Seen(c) # {}
        THEN Goes(c, "looking")
        ELSE tx' = [tx EXCEPT ![c].phase = "claimed", ![c].inserted = TRUE,
                              ![c].until = KeyTTL + IF Operation(c) \in LocksRow THEN tx[c].now ELSE clock]
     /\ UNCHANGED <<rows, entities, answers, clock>>

Look(c) ==
  LET locks == Operation(c) \in LocksRow
  IN /\ tx[c].phase = "looking"
     /\ locks => ~LockedByOther(c, Mine(c))
     /\ \/ Seen(c) = {} /\ Fail(c)
        \/ \E row \in Seen(c) :
             IF row.request # tx[c].request \/ row.by = None THEN Answers(c, 409, None)
             ELSE IF ~row.spoiled THEN Answers(c, 200, row.by)
             ELSE tx' = [tx EXCEPT ![c].phase = "invalidating",
                                   ![c].locked = IF locks THEN {Mine(c)} ELSE {}]
     /\ UNCHANGED <<rows, entities, answers, clock>>

(* A stored answer that no longer passes its checks, or a claim pack whose *)
(* validity is over, is deleted, and the caller is told to ask again.      *)
Invalidate(c) ==
  LET s == Mine(c)
  IN /\ tx[c].phase = "invalidating"
     /\ ~LockedByOther(c, s)
     /\ IF \E row \in Seen(c) : row.request = tx[c].request
        THEN tx' = [tx EXCEPT ![c].phase = "committing", ![c].deleted = @ \cup {s}, ![c].status = 500]
        ELSE Fail(c)
     /\ UNCHANGED <<rows, entities, answers, clock>>

(* --- the work, in the transaction that holds the claim --- *)
SharesIdentity(r, q) == r.identities \cap q.identities # {}
EntityWaits(c) ==
  \E d \in Others(c) : tx[d].entity /\ SharesIdentity(tx[c].request, tx[d].request)
Known(c) == {e \in entities : SharesIdentity(e.request, tx[c].request)}
OneTransaction(c) == tx[c].phase = "claimed" /\ Operation(c) # "bundle"

CompilesAnswer(c) ==
  /\ OneTransaction(c) /\ Operation(c) \in {"query", "pack"}
  /\ \/ Answers(c, 200, c)
     \/ /\ Operation(c) = "pack"   \* no claim that can be cited
        /\ tx' = [tx EXCEPT ![c].phase = "committing", ![c].released = TRUE, ![c].status = 409]
  /\ UNCHANGED <<rows, entities, answers, clock>>

CreatesEntity(c) ==
  /\ OneTransaction(c) /\ Operation(c) \in {"gap", "catalog"}
  /\ ~EntityWaits(c) /\ Known(c) = {}
  /\ tx' = [tx EXCEPT ![c].phase = "committing", ![c].entity = TRUE,
                      ![c].status = 200, ![c].answer = c]
  /\ UNCHANGED <<rows, entities, answers, clock>>

(* createOrReplayGap: the gap is answered as it was the first time. *)
FindsGap(c) ==
  /\ OneTransaction(c) /\ Operation(c) = "gap" /\ ~EntityWaits(c)
  /\ \E e \in Known(c) :
       /\ Known(c) = {e} /\ e.request.content = tx[c].request.content
       /\ IF e.spoiled
          THEN tx' = [tx EXCEPT ![c].phase = "committing", ![c].released = TRUE, ![c].status = 500]
          ELSE Answers(c, 200, e.by)
  /\ UNCHANGED <<rows, entities, answers, clock>>

FindsOtherEntity(c) ==
  /\ OneTransaction(c) /\ Operation(c) \in {"gap", "catalog"} /\ ~EntityWaits(c) /\ Known(c) # {}
  /\ Operation(c) = "gap" => ~\E e \in Known(c) : /\ Known(c) = {e}
                                                  /\ e.request.content = tx[c].request.content
  /\ tx' = [tx EXCEPT ![c].phase = "committing", ![c].released = TRUE, ![c].status = 409]
  /\ UNCHANGED <<rows, entities, answers, clock>>

(* --- commit --- *)
Stored(c, by) ==
  [request |-> tx[c].request, by |-> by, until |-> tx[c].until, spoiled |-> FALSE]
StoredNow(row) == {[row |-> row, at |-> clock]}
RowsAfter(c, by) ==
  {row \in rows : ScopeOf(row.request) \notin tx[c].deleted}
    \cup IF tx[c].inserted /\ ~tx[c].released THEN {Stored(c, by)} ELSE {}
Logged(c) ==
  IF tx[c].inserted /\ ~tx[c].released THEN StoredNow(Stored(c, tx[c].answer)) ELSE {}

(* A refusal of the catalog and the bundle is thrown: it rolls back. *)
RollsBack(c) ==
  \/ tx[c].status = 409 /\ Operation(c) \in LocksRow
  \/ Operation(c) = "catalog" /\ tx[c].released

(* The connection may be lost after the commit: the call then believes it  *)
(* failed.                                                                 *)
Commit(c) ==
  /\ tx[c].phase = "committing"
  /\ IF RollsBack(c)
     THEN /\ tx' = [tx EXCEPT ![c] = Ended(c, "ended", tx[c].status, None)]
          /\ UNCHANGED <<rows, entities, answers>>
     ELSE /\ \/ tx' = [tx EXCEPT ![c] = Ended(c, "ended", tx[c].status, tx[c].answer)]
             \/ Fail(c)
          /\ rows' = RowsAfter(c, tx[c].answer)
          /\ answers' = answers \cup Logged(c)
          /\ entities' = entities \cup
               (IF tx[c].entity THEN {[request |-> tx[c].request, by |-> c, spoiled |-> FALSE]}
                ELSE {})
  /\ UNCHANGED clock

(* --- the bundle's claim, provider call and second transaction --- *)
CommitClaim(c) ==
  /\ tx[c].phase = "claimed" /\ Operation(c) = "bundle"
  /\ rows' = RowsAfter(c, None)
  /\ tx' = [tx EXCEPT ![c] = Ended(c, "outside", 0, None)]
  /\ UNCHANGED <<entities, answers, clock>>

(* A mutant: the state of the row is not compared. *)
ProcessingOrDone(c) == {row \in Under(Mine(c)) : row.request = tx[c].request}
Processing(c) == {row \in Under(Mine(c)) : row.by = None /\ row.request = tx[c].request}

CompleteBundle(c) ==
  /\ tx[c].phase = "outside" /\ ~LockedByOther(c, Mine(c))
  /\ IF Processing(c) # {}
     THEN /\ \E row \in Processing(c) :
               /\ rows' = (rows \ {row}) \cup {[row EXCEPT !.by = c]}
               /\ answers' = answers \cup StoredNow([row EXCEPT !.by = c])
          /\ \/ tx' = [tx EXCEPT ![c].phase = "ended", ![c].status = 200, ![c].answer = c]
             \/ tx' = [tx EXCEPT ![c].phase = "releasing"]
     ELSE Goes(c, "releasing") /\ UNCHANGED <<rows, answers>>
  /\ UNCHANGED <<entities, clock>>

ProviderFails(c) ==
  /\ tx[c].phase = "outside"
  /\ Goes(c, "releasing")
  /\ UNCHANGED <<rows, entities, answers, clock>>

(* What is released is any claim of the same request under the key. *)
Release(c) ==
  /\ tx[c].phase = "releasing"
  /\ \/ /\ ~LockedByOther(c, Mine(c))
        /\ rows' = rows \ Processing(c)
     \/ UNCHANGED rows   \* the transaction fails, which is ignored
  /\ tx' = [tx EXCEPT ![c].phase = "ended", ![c].status = 500]
  /\ UNCHANGED <<entities, answers, clock>>

(* --- failure --- *)
InTransaction(c) ==
  tx[c].phase \in {"deleting", "inserting", "looking", "invalidating", "claimed", "committing"}

(* An error, a lost connection or the end of the process. *)
Rollback(c) == InTransaction(c) /\ Fail(c) /\ UNCHANGED <<rows, entities, answers, clock>>

CrashOutside(c) ==
  /\ tx[c].phase \in {"outside", "releasing"} /\ Fail(c)
  /\ UNCHANGED <<rows, entities, answers, clock>>

(* An answer is checked again before it is repeated: its contract, its     *)
(* evidence, and for a claim pack the days it is valid.                    *)
Spoilable(row) == row.by # None /\ ~row.spoiled
Spoil(row) ==
  /\ Spoilable(row)
  /\ LET spoiled == [row EXCEPT !.spoiled = TRUE]
     IN /\ rows' = (rows \ {row}) \cup {spoiled}
        /\ answers' = {IF x.row = row THEN [x EXCEPT !.row = spoiled] ELSE x : x \in answers}
  /\ UNCHANGED <<tx, entities, clock>>

SpoilGap(e) ==
  /\ e.request.operation = "gap" /\ ~e.spoiled
  /\ entities' = (entities \ {e}) \cup {[e EXCEPT !.spoiled = TRUE]}
  /\ UNCHANGED <<tx, rows, answers, clock>>

TickClock ==
  /\ clock < Clock
  /\ clock' = clock + 1
  /\ UNCHANGED <<tx, rows, entities, answers>>

Serve(c) ==
  \/ DeleteExpired(c) \/ InsertClaim(c) \/ Look(c) \/ Invalidate(c)
  \/ CompilesAnswer(c) \/ CreatesEntity(c) \/ FindsGap(c) \/ FindsOtherEntity(c) \/ Commit(c)
  \/ CommitClaim(c) \/ CompleteBundle(c) \/ Release(c)

KeyedNext ==
  \/ TickClock
  \/ \E row \in rows : Spoil(row)
  \/ \E e \in entities : SpoilGap(e)
  \/ \E c \in Client, r \in Sent : Ask(c, r)
  \/ \E c \in Asked : Serve(c) \/ ProviderFails(c) \/ Rollback(c) \/ CrashOutside(c)

KeyedSpec == KeyedInit /\ [][KeyedNext]_keyedVars

-------------------------------------------------------------------------------
Succeeded == {c \in Asked : tx[c].status = 200 /\ tx[c].phase = "ended"}

(* Under one key a second answer is stored only after the row of the first *)
(* expired or was found spoiled, whichever calls overlapped, failed after  *)
(* their commit, released or completed another call's claim; and whoever   *)
(* is told 200 gets the answer that was worked out for his own request.    *)
(* Where the row is not locked when it is looked up, a call that found a   *)
(* spoiled answer may delete one that has taken its place since: after     *)
(* one answer was spoiled there, no later one is certain to be kept.       *)
SpoiledUnder(s) == \E x \in answers : ScopeOf(x.row.request) = s /\ x.row.spoiled
MayGo(row) ==
  \/ row.spoiled
  \/ row.request.operation \notin LocksRow /\ SpoiledUnder(ScopeOf(row.request))
OneAnswerPerKey ==
  /\ \A x, y \in answers :
       x # y /\ ScopeOf(x.row.request) = ScopeOf(y.row.request)
         => \/ x.row.until <= y.at \/ y.row.until <= x.at
            \/ MayGo(x.row) \/ MayGo(y.row)
  /\ \A c \in Succeeded :
       /\ tx[tx[c].answer].request.content = tx[c].request.content
       /\ \E x \in answers : x.row.by = tx[c].answer

(* A gap request is answered alike for good, under any key and after its   *)
(* key expired; and no two gaps, sources or documents share an identity.   *)
EntitiesAreUnique ==
  /\ \A e, f \in entities : e # f => ~SharesIdentity(e.request, f.request)
  /\ \A c, d \in Succeeded :
       /\ Operation(c) = "gap" /\ tx[c].request.content = tx[d].request.content
       => tx[c].answer = tx[d].answer

(* A key has one answer and an identity one entity, however the requests   *)
(* that claim them overlap, expire and fail.                               *)
KeysHold == OneAnswerPerKey /\ EntitiesAreUnique
===============================================================================
