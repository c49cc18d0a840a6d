----------------------------- MODULE SearchEvidence ---------------------------
(***************************************************************************)
(* The evidence bundle: what a search finds, how it is classified, the     *)
(* bundle made of it and the checks a stored bundle must pass to be        *)
(* replayed (src/src/searchEvidence, src/src/api/v1/searchEvidenceHandler.ts). *)
(*                                                                         *)
(* The corpus is the sections a query matches, best score first: scores    *)
(* only order them.  A section is its place in that sequence, and a        *)
(* search's results are a set of places, listed from the first.  A section *)
(* too long for a chunk is stored as several, with one label and page.     *)
(***************************************************************************)
EXTENDS Naturals, Sequences, FiniteSets

CONSTANTS Corpora,     \* sequences of [version, label, text, modes]
          Registers,   \* what the register may know of each version: version -> attributes
          DocumentOf,  \* version -> document
          Requests     \* [mode, authorities, temporals]: a search and its filters

(* A corpus is finite, and the register knows each version in it.          *)
ASSUME SearchConstants ==
  \A c \in Corpora :
    /\ Len(c) \in Nat
    /\ \A r \in Registers : \A i \in 1..Len(c) : c[i].version \in DOMAIN r

VARIABLES corpus, register, request,
          search   \* phase, whether a query vector was made, results, bundle
searchVars == <<corpus, register, request, search>>

NoBundle == [sources |-> {}, citations |-> {}, claims |-> {}, contradictions |-> {}]

SearchTypeOK ==
  /\ request \in Requests
  /\ \A i \in 1..Len(corpus) : corpus[i].version \in DOMAIN register
  /\ search.phase \in {"prepare", "search", "build", "built", "unavailable"}
  /\ search.results \subseteq 1..Len(corpus)
  /\ \A c \in search.bundle.claims : c.cites \in 1..Len(corpus)

SearchInit ==
  /\ corpus \in Corpora /\ register \in Registers /\ request \in Requests
  /\ search = [phase |-> "prepare", prepared |-> FALSE, results |-> {}, bundle |-> NoBundle]

-------------------------------------------------------------------------------
(* Classification. *)
AuthorityStatus(v) ==
  LET a == register[v]
  IN IF a.validated /\ a.official /\ a.forTarget /\ a.relation = "target" /\ a.targetRequested
     THEN "official_target_jurisdiction"
     ELSE IF a.validated /\ a.official /\ a.relation = "national" THEN "official_national"
     ELSE IF a.relation = "comparative" \/ (a.relation # "national" /\ ~a.sourceRequested)
     THEN "comparative" ELSE "unknown"

(* Stored dates against as_of_date: "none", "past" (not after it), "future". *)
TemporalStatus(v) ==
  CASE register[v].repeal = "past" -> "expired"
    [] register[v].repeal # "past" /\ register[v].effective = "future" -> "future"
    [] register[v].repeal # "past" /\ register[v].effective = "past" -> "current"
    [] OTHER -> "undetermined"

Official(authority) == authority \in {"official_target_jurisdiction", "official_national"}
EvidenceStatus(v) ==
  IF Official(AuthorityStatus(v)) /\ TemporalStatus(v) = "current" THEN "supported"
  ELSE IF AuthorityStatus(v) = "comparative" /\ TemporalStatus(v) \in {"current", "undetermined"}
  THEN "comparative_reference" ELSE "validation_required"

-------------------------------------------------------------------------------
(* The search.  A semantic part needs its query vector before anything is  *)
(* searched: no mode falls back to another.                                *)
Semantic == request.mode \in {"semantic", "hybrid"}
ExecutedModes == IF request.mode = "hybrid" THEN {"keyword", "phrase", "semantic"} ELSE {request.mode}

PrepareSearch ==
  /\ search.phase = "prepare"
  /\ \/ search' = [search EXCEPT !.phase = "search", !.prepared = Semantic]
     \/ Semantic /\ search' = [search EXCEPT !.phase = "unavailable"]
  /\ UNCHANGED <<corpus, register, request>>

Passes(v) ==
  /\ request.authorities = {} \/ AuthorityStatus(v) \in request.authorities
  /\ request.temporals = {} \/ TemporalStatus(v) \in request.temporals

(* What one mode finds of the published, indexed corpus. *)
Finds(mode, i) == mode \in corpus[i].modes

(* Each section once, however many modes found it. *)
ExecuteSearch ==
  /\ search.phase = "search"
  /\ search' = [search EXCEPT !.phase = "build",
       !.results = {i \in 1..Len(corpus) :
                      (\E mode \in ExecutedModes : Finds(mode, i)) /\ Passes(corpus[i].version)}]
  /\ UNCHANGED <<corpus, register, request>>

-------------------------------------------------------------------------------
(* The bundle. *)
Found == search.results
Version(i) == corpus[i].version
Slot(i) == <<DocumentOf[Version(i)], corpus[i].label>>

(* Of the sections of one version in one place, a Map keeps the last.      *)
KeptSections(slot) ==
  {i \in Found : Slot(i) = slot
                 /\ \A j \in Found : Slot(j) = slot /\ Version(j) = Version(i) => j <= i}
VersionConflicts ==
  {c \in {KeptSections(Slot(i)) : i \in Found} :
     Cardinality(c) >= 2 /\ Cardinality({corpus[i].text : i \in c}) >= 2}
Conflicting == UNION VersionConflicts

(* A mutant: citations in conflict have their ordinary claims as well.     *)
OrdinaryClaimsOfAll ==
  {[cites |-> i, status |-> "supported", text |-> corpus[i].text] :
     i \in {j \in Found : EvidenceStatus(Version(j)) = "supported"}}
OrdinaryClaims ==
  {[cites |-> i, status |-> "supported", text |-> corpus[i].text] :
     i \in {j \in Found : EvidenceStatus(Version(j)) = "supported" /\ j \notin Conflicting}}
ConflictClaims ==
  {[cites |-> i, status |-> "inferred_for_review", text |-> corpus[i].text] : i \in Conflicting}
CitationOf(i) ==
  [section |-> i, version |-> Version(i), text |-> corpus[i].text,
   authority |-> AuthorityStatus(Version(i)),
   status |-> IF EvidenceStatus(Version(i)) = "validation_required"
              THEN "inferred_for_review" ELSE EvidenceStatus(Version(i))]

BuildBundle ==
  /\ search.phase = "build"
  /\ search' = [search EXCEPT !.phase = "built",
       !.bundle = [sources |-> {[version |-> Version(i), authority |-> AuthorityStatus(Version(i))] : i \in Found},
                   citations |-> {CitationOf(i) : i \in Found},
                   claims |-> OrdinaryClaims \cup ConflictClaims,
                   contradictions |-> VersionConflicts]]
  /\ UNCHANGED <<corpus, register, request>>

SearchNext == PrepareSearch \/ ExecuteSearch \/ BuildBundle
SearchSpec == SearchInit /\ [][SearchNext]_searchVars

-------------------------------------------------------------------------------
(* What a stored bundle must satisfy to be replayed. *)
CitationsHold(b) ==
  \A c \in b.citations : \E s \in b.sources : s.version = c.version /\ s.authority = c.authority
ClaimHolds(b, claim) ==
  \E c \in b.citations :
    /\ c.section = claim.cites /\ c.text = claim.text
    /\ \/ claim.status = "supported" /\ c.status = "supported" /\ Official(c.authority)
       \/ claim.status = "inferred_for_review"
ContradictionsHold(b) ==
  LET inferred == {c.cites : c \in {d \in b.claims : d.status = "inferred_for_review"}}
  IN /\ \A refs \in b.contradictions : Cardinality(refs) >= 2 /\ refs \subseteq inferred
     /\ inferred \subseteq UNION b.contradictions
ValidStoredBundle(b) ==
  /\ Cardinality({s.version : s \in b.sources}) = Cardinality(b.sources)
  /\ Cardinality({<<c.cites, c.status>> : c \in b.claims}) = Cardinality(b.claims)
  /\ CitationsHold(b) /\ (\A c \in b.claims : ClaimHolds(b, c)) /\ ContradictionsHold(b)

(* A bundle the service has just made passes the checks its own replay     *)
(* makes, and speaks of no section twice: otherwise a retry of the same    *)
(* request deletes the answer and fails with replay_invalid.               *)
BundleReplays ==
  search.phase = "built" =>
    /\ ValidStoredBundle(search.bundle)
    /\ \A c, d \in search.bundle.claims : c.cites = d.cites => c = d

(* docs/api/search-evidence-v1.md: where versions of one document differ,  *)
(* no version wins silently: none of their excerpts there is a supported   *)
(* claim.                                                                  *)
NoVersionWins ==
  \A claim \in search.bundle.claims :
    claim.status = "supported" =>
      \A i \in Found : Slot(i) = Slot(claim.cites) /\ Version(i) # Version(claim.cites)
                         => corpus[i].text = claim.text
===============================================================================
