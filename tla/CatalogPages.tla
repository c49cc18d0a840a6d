------------------------------ MODULE CatalogPages ----------------------------
(***************************************************************************)
(* Walking a collection of the catalog page by page                        *)
(* (src/src/catalog/repository.ts, src/src/api/v1/catalogHandler.ts) while *)
(* entries are added and change.  A page is the first entries, newest      *)
(* first, behind the cursor; its last entry makes the next cursor, whose   *)
(* time went through a JavaScript Date: milliseconds.                      *)
(*                                                                         *)
(* Sources and documents are dated by the application's clock, a Date too; *)
(* jobs and procedures by the database, in microseconds.  Any time may be  *)
(* that of a new entry: it was taken before the entry was committed.       *)
(***************************************************************************)
EXTENDS Naturals, FiniteSets, FiniteSetsExt

CONSTANTS EntryId,       \* ids, numbers because the second key orders them
          Microsecond,   \* times, from 0
          PerMilli,      \* microseconds in a millisecond
          PageLimit,     \* limits a caller may ask for
          Collections    \* the collections of the run

DatedByApplication == {"source_list", "document_list"}

VARIABLES collection, entries,
          walk   \* the caller's: phase, cursor, what it has seen, and, as history, what was
                 \* there and matched its filters all along and the times of its cursors
catalogVars == <<collection, entries, walk>>

Milli(t) == (t \div PerMilli) * PerMilli   \* iso(): the driver's Date, then toISOString

ASSUME CatalogConstants ==
  /\ EntryId \subseteq Nat \ {0} /\ PageLimit \subseteq Nat \ {0} /\ PerMilli \in Nat \ {0}
  /\ Microsecond \subseteq Nat /\ 0 \in Microsecond /\ \A t \in Microsecond : Milli(t) \in Microsecond

Stamp == IF collection \in DatedByApplication THEN {Milli(t) : t \in Microsecond} ELSE Microsecond
NoCursor == [at |-> 0, id |-> 0]   \* no cursor

CatalogTypeOK ==
  /\ collection \in Collections
  /\ \A e \in entries : e.id \in EntryId /\ e.at \in Microsecond /\ e.matches \in BOOLEAN
  /\ walk.phase \in {"before", "walking", "over"}
  /\ walk.cuts \subseteq Microsecond
  /\ walk.seen \subseteq EntryId /\ walk.owed \subseteq EntryId /\ walk.twice \in BOOLEAN
  /\ walk.cursor.at \in Microsecond /\ walk.cursor.id \in EntryId \cup {0}

CatalogInit ==
  /\ collection \in Collections
  /\ entries = {}
  /\ walk = [phase |-> "before", cursor |-> NoCursor, seen |-> {}, owed |-> {}, twice |-> FALSE,
             cuts |-> {}]

(* (created_at, id) < (cursor.created_at, cursor.id) *)
LessThan(e, key) == e.at < key.at \/ (e.at = key.at /\ e.id < key.id)

(* A mutant: entries of the cursor's very time are taken as seen.          *)
BehindTime(cursor) == {e \in entries : e.matches /\ (cursor = NoCursor \/ e.at < cursor.at)}
Behind(cursor) == {e \in entries : e.matches /\ (cursor = NoCursor \/ LessThan(e, cursor))}
Rank(e, set) == Cardinality({f \in set : LessThan(e, f)})   \* how many are newer
FirstOf(set, n) == {e \in set : Rank(e, set) < n}           \* ORDER BY ... DESC LIMIT n
CursorOf(page) ==
  LET last == CHOOSE e \in page : \A f \in page \ {e} : LessThan(e, f)
  IN [at |-> Milli(last.at), id |-> last.id]

(* A page of n entries; a cursor only when one more was found. *)
ReadPage(n) ==
  LET found == FirstOf(Behind(walk.cursor), n + 1)
      page == FirstOf(found, n)
      ids == {e.id : e \in page}
      more == Cardinality(found) > n
  IN /\ walk.phase # "over"
     /\ walk' = [phase |-> IF more THEN "walking" ELSE "over",
                 cursor |-> IF more THEN CursorOf(page) ELSE walk.cursor,
                 cuts |-> IF more THEN walk.cuts \cup {CursorOf(page).at} ELSE walk.cuts,
                 seen |-> walk.seen \cup ids,
                 owed |-> IF walk.phase = "before"
                          THEN {e.id : e \in {f \in entries : f.matches}} ELSE walk.owed,
                 twice |-> walk.twice \/ walk.seen \cap ids # {}]
     /\ UNCHANGED <<collection, entries>>

Add(id, at, matches) ==
  /\ id \notin {e.id : e \in entries}
  /\ entries' = entries \cup {[id |-> id, at |-> at, matches |-> matches]}
  /\ UNCHANGED <<collection, walk>>

(* The status a filter asks for changes: an entry that leaves the filter   *)
(* during a walk is owed no more.                                          *)
Change(e) ==
  /\ entries' = (entries \ {e}) \cup {[e EXCEPT !.matches = ~@]}
  /\ walk' = [walk EXCEPT !.owed = IF e.matches THEN @ \ {e.id} ELSE @]
  /\ UNCHANGED collection

CatalogNext ==
  \/ \E n \in PageLimit : ReadPage(n)
  \/ walk.phase # "over" /\ \E id \in EntryId, at \in Stamp, matches \in BOOLEAN : Add(id, at, matches)
  \/ walk.phase # "over" /\ \E e \in entries : Change(e)

CatalogSpec == CatalogInit /\ [][CatalogNext]_catalogVars

-------------------------------------------------------------------------------
DatedAt(id) == (CHOOSE e \in entries : e.id = id).at

(* A walk shows no entry twice, and by its end each entry that was there,  *)
(* and passed its filters, from its first page on: the keyset pagination   *)
(* of docs/api/catalog-v1.md, under writers.  Where the database dates the *)
(* entries, those of the very millisecond in which a page ended may be     *)
(* passed over, and no other.                                              *)
WalkShowsAll ==
  /\ ~walk.twice
  /\ walk.phase = "over" =>
       \A id \in walk.owed \ walk.seen :
         collection \notin DatedByApplication /\ Milli(DatedAt(id)) \in walk.cuts
===============================================================================
