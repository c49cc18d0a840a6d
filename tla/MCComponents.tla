-------------------------- MODULE MCComponents ----------------------------------
(***************************************************************************)
(* The components that share no state: of the integration API and the      *)
(* site, the request gate, the idempotency keys, the sessions of people    *)
(* and their identity provider, the public gateway, the catalog's pages,   *)
(* the search's bundle and the artifacts of a procedure query; the vectors *)
(* of a tenant; of the operators' tools, the document library, the         *)
(* acquisition of pages, the corpus runs, the workers that extract PDFs    *)
(* and the staging runner.  A behaviour is of one of them, chosen at the   *)
(* start; the state of the others stays as it was.                         *)
(***************************************************************************)
EXTENDS RequestGate, KeyedAnswers, HumanSessions, IdentityProvider, PublicGateway,
        CatalogPages, MCSearchEvidence, ProcedureEvidence, TenantVectors,
        OperatorTools, StagingRun, TLC

CONSTANTS one, two, three
VARIABLE part

(* One call with any single fault and one that is perfect, on a route that *)
(* shares the event of a window and deletes old windows, one that shares   *)
(* it and keeps them, and one that records every refusal; two that are not *)
(* authenticated; and three perfect ones where the event is shared.        *)
Faults(route) == {ChecksOf[route][i] : i \in 1..Len(ChecksOf[route])} \ {"gate"}
Perfect(who) == {[route |-> r, role |-> who, wrong |-> {}] : r \in Route}
OneFault ==
  UNION {{[route |-> r, role |-> "platform_admin", wrong |-> {f}] : f \in Faults(r)} : r \in Route}
Unauthentic == {q \in OneFault : q.wrong = {"authentication"}}
Contended == {"job_get"}
OfEachDesign == {"job_get", "source_list", "draft"}
On(routes, requests) == {q \in requests : q.route \in routes}
GateRequests ==
  one :> (Perfect("platform_admin") \cup On(Route \ Contended, OneFault \cup Perfect("viewer")))
  @@ two :> (On(OfEachDesign, Perfect("platform_admin")) \cup On({"query"}, Unauthentic))
  @@ three :> On(Contended, Perfect("platform_admin"))

(* The same key for two contents; two gaps with one identity in common and *)
(* the same source, each under two keys.                                   *)
Request(operation, key, content, identities) ==
  [operation |-> operation, key |-> key, content |-> content, identities |-> identities]
KeyedRequests ==
  {Request(o, 1, n, {}) : o \in {"pack", "bundle"}, n \in {1, 2}}
  \cup {Request("gap", k, n, {0, n}) : k, n \in {1, 2}}
  \cup {Request("catalog", k, 1, {0}) : k \in {1, 2}}

(* One client with a fault of each kind in front of the gate and behind    *)
(* it, calls without a window, and calls of two clients and two routes.    *)
Visiting(route, client, wrong) == [route |-> route, client |-> client, wrong |-> wrong]
SiteVisits ==
  1 :> ({Visiting("query", "c1", w) : w \in {{}, {"origin"}, {"message"}}}
        \cup {Visiting("domain_pack", "c1", w) : w \in {{}, {"credentials"}}})
  @@ 2 :> {Visiting("query", "c1", {})}
  @@ 3 :> {Visiting("procedure", "c2", {})}
  @@ 4 :> {Visiting("query", "c1", {})}

(* Three steps; passages of two versions in one place that agree or not,   *)
(* national, of Mixco, unofficial, and one that may not be cited.          *)
Passage(document, version, label, text, level, matches) ==
  [document |-> document, version |-> version, label |-> label, text |-> text, level |-> level,
   matches |-> matches, citable |-> TRUE, municipality |-> "target", official |-> TRUE, national |-> FALSE]
Unofficial(matches) ==
  [Passage(4, 5, "q", "z", "context", matches) EXCEPT !.municipality = "none", !.official = FALSE]
Passages ==
  {Passage(1, 1, "p", "x", "primary", {1}), Passage(1, 2, "p", "y", "primary", {1, 2}),
   Passage(1, 2, "p", "x", "primary", {2}),
   [Passage(2, 3, "q", "x", "national", {1, 2}) EXCEPT !.municipality = "none", !.national = TRUE],
   [Passage(3, 4, "q", "x", "comparative", {2}) EXCEPT !.municipality = "mixco"],
   Unofficial({}), Unofficial({3}),
   [Passage(1, 1, "q", "w", "primary", {3}) EXCEPT !.citable = FALSE]}
RetrievedPassages == {<<>>} \cup UNION {[1..n -> Passages] : n \in 1..3}
MCAsks == {[target |-> TRUE, wants |-> {}], [target |-> TRUE, wants |-> {"deadline"}],
           [target |-> FALSE, wants |-> {}]}
MCStepDocuments == <<{"d1"}, {"d1", "d2"}, {}>>

(* One algorithm was replaced by the other with the key.                   *)
MCAlgorithmOf == "k1" :> "RS256" @@ "k2" :> "ES256"
MCTokens == {[key |-> k, claims |-> TRUE] : k \in {"k1", "k2", "stranger"}} \cup {[key |-> "k1", claims |-> FALSE]}

(* Two versions meet on two chunks, in opposite orders; one is published   *)
(* a second time with another text and without one of its chunks.          *)
Prepared(k, text) == [chunk |-> k, text |-> text]
MCVersionOf == 1 :> "v" @@ 2 :> "w" @@ 3 :> "v" @@ 4 :> "w"
MCBatchesOf ==
  1 :> << <<Prepared("k1", "x"), Prepared("k2", "x")>> >>
  @@ 2 :> << <<Prepared("k3", "x")>>, <<Prepared("k2", "x"), Prepared("k1", "x")>> >>
  @@ 3 :> << <<Prepared("k1", "y")>>, <<Prepared("k3", "x")>> >>
  @@ 4 :> << <<Prepared("k3", "y")>> >>

(* Of two contents the scanner learns to know the first after an hour.     *)
MCKnownAt == "x" :> 1 @@ "y" :> 9

(* Pages met directly or behind a redirection, on the host that was asked, *)
(* another that is allowed, one that is not, an address that is not        *)
(* public, one redirection too many, a refused answer and a sick page.     *)
MCPlanOf == 1 :> <<"s", "t">> @@ 2 :> <<"t", "s">>
MCChains ==
  {<<Hop("a", "u1", TRUE, "p")>>, <<Hop("a", "u1", TRUE, "z")>>, <<Hop("a", "u1", FALSE, "p")>>,
   <<Hop("a", "u1", TRUE, "redirect"), Hop("a", "u2", TRUE, "p")>>,
   <<Hop("a", "u1", TRUE, "redirect"), Hop("b", "u3", TRUE, "q")>>,
   <<Hop("c", "u4", TRUE, "q")>>, <<Hop("b", "u3", TRUE, "q")>>, <<Hop("b", "u3", TRUE, "refused")>>,
   <<Hop("a", "u1", TRUE, "redirect"), Hop("a", "u2", TRUE, "redirect"), Hop("a", "u5", TRUE, "q")>>}

(* Two pages one of which is blank, both too long together, a page that is *)
(* too long before it is normalised, no text, and text that JSON swells.   *)
PdfPage(raw, text, json) == [raw |-> raw, text |-> text, json |-> json]
OpenedPdf(those) == [input |-> "pdf", opens |-> "yes", pages |-> those]
PdfInputs ==
  {[OpenedPdf(<<>>) EXCEPT !.input = "input_empty"], [OpenedPdf(<<>>) EXCEPT !.opens = "encrypted"]}
  \cup {OpenedPdf(those) : those \in
          {<<PdfPage(2, 1, 2), PdfPage(1, 0, 0)>>, <<PdfPage(2, 2, 2), PdfPage(2, 2, 2)>>,
           <<PdfPage(3, 1, 1)>>, <<PdfPage(1, 0, 0)>>, <<PdfPage(2, 2, 5)>>}}

(* TLC evaluates a definition once, but one that stands for a constant     *)
(* each time.                                                              *)
MCSends == GateRequests
MCSent == KeyedRequests
MCComes == SiteVisits
MCRetrievals == RetrievedPassages
MCDocument == PdfInputs

-------------------------------------------------------------------------------
(* While another part runs, those whose start is a choice of data have one, *)
(* and of those whose state is large there is what the invariants look at. *)
NoSearch ==
  /\ corpus = <<>> /\ register = CHOOSE r \in MCRegisters : TRUE
  /\ request = CHOOSE q \in MCRequests : TRUE
  /\ search = [phase |-> "prepare", prepared |-> FALSE, results |-> {}, bundle |-> NoBundle]
NoCatalog ==
  /\ collection = "source_list" /\ entries = {}
  /\ walk = [phase |-> "before", cursor |-> NoCursor, seen |-> {}, owed |-> {}, twice |-> FALSE,
             cuts |-> {}]
NoProcedure ==
  /\ retrieved = <<>> /\ asked = CHOOSE q \in MCAsks : TRUE
  /\ workflow = NotComposed /\ artifacts = [t \in {} |-> {}]
NoCorpus ==
  /\ extracted = {} /\ queued = <<>> /\ acceptance = <<>> /\ corpusJobs = <<>> /\ vectorsOf = <<>>
  /\ operational = <<>> /\ corpusFiles = [f \in FileNames |-> NoEntries] /\ corpusRuns = <<>>
  /\ backfill = NoneYet /\ together = FALSE /\ backfilled = {} /\ lastReplaced = "inventory"
NoVectors ==
  /\ vectorRows = [k \in Chunk |-> NoRow] /\ written = [p \in Publication |-> <<>>] /\ locker = <<>>
  /\ publications = <<>> /\ lastPublished = [v \in Versions |-> NoPublication]
NoStaging ==
  /\ databases = <<>> /\ role = NoRun /\ staging = [r \in StagingRuns |-> [receipt |-> "none"]]
  /\ overlapped = FALSE /\ trespassed = FALSE
NoProvider ==
  /\ keys = {} /\ lastKept = <<>> /\ moment = 0 /\ rotations = 0 /\ discoveryCache = <<>>
  /\ jwksCache = <<>> /\ exchanges = [x \in TokenExchange |-> [phase |-> "none", token |-> NoToken]]
NoLibrary ==
  /\ files = <<>> /\ record = [hash |-> NoBytes, status |-> "verified"] /\ manifest = NoBytes
  /\ vectors = [bytes |-> NoBytes] /\ command = NoCommand
  /\ hour = 0 /\ tampers = 0 /\ crashes = 0 /\ strayed = FALSE
NoPages == published = <<>> /\ inventory = [s \in Source |-> NotAcquired] /\ acquiring = <<>>

Init ==
  /\ part \in {"gate", "keys", "people", "provider", "site", "catalog", "search", "procedure", "vectors",
               "documents", "pages", "corpus", "pdfs", "staging"}
  /\ GateInit /\ KeyedInit /\ HumanInit /\ PublicInit /\ PdfInit
  /\ IF part = "provider" THEN ProviderInit ELSE NoProvider
  /\ IF part = "catalog" THEN CatalogInit ELSE NoCatalog
  /\ IF part = "search" THEN SearchInit ELSE NoSearch
  /\ IF part = "procedure" THEN ProcedureInit ELSE NoProcedure
  /\ IF part = "vectors" THEN VectorInit ELSE NoVectors
  /\ IF part = "staging" THEN StagingInit ELSE NoStaging
  /\ IF part = "documents" THEN LibraryInit ELSE NoLibrary
  /\ IF part = "corpus" THEN CorpusInit ELSE NoCorpus
  /\ IF part = "pages" THEN HtmlInit ELSE NoPages

(* Callers, visits, exchanges and runs that differ in nothing but their    *)
(* name come in order; of two logins the first to be called back is 1.     *)
InOrder(those) == \A n \in those : 1..n \subseteq those
(* A bound: three calls send at most two different requests.  Keys and     *)
(* contents differ in nothing but their name: the first call has the first. *)
TwoRequests == Cardinality({tx'[d].request : d \in DOMAIN tx'}) <= 2
FirstAsked(r) == r.key = 1 /\ r.content = 1
Started == {r \in CorpusRun : corpusRuns'[r].phase # "before"}
Extracted == {e \in Extraction : extraction'[e].phase # "idle"}
Requested == {x \in TokenExchange : exchanges'[x].phase # "none"}
(* A bound: after the first moment, time passes while no more than one     *)
(* exchange is under way; in one moment two may overlap in any order.      *)
Exchanging == {x \in TokenExchange : exchanges[x].phase \in HeadersAwaited \cup BodyAwaited \cup {"verifying"}}

Api == <<gateVars, keyedVars, humanVars, providerVars, publicVars>>
Data == <<catalogVars, searchVars, procedureVars>>
Tools == <<vectorVars, libraryVars, htmlVars, corpusVars, pdfVars, stagingVars>>

ApiStep ==
  \/ /\ part = "gate" /\ GateNext
     /\ (call'[three].phase # "idle" => call'[one].phase # "idle" /\ call'[two].phase # "idle")
     /\ UNCHANGED <<keyedVars, humanVars, providerVars, publicVars>>
  \/ /\ part = "keys" /\ KeyedNext /\ InOrder(DOMAIN tx') /\ TwoRequests
     /\ (1 \in DOMAIN tx' => FirstAsked(tx'[1].request))
     /\ UNCHANGED <<gateVars, humanVars, providerVars, publicVars>>
  \/ /\ part = "people" /\ HumanNext /\ InOrder(DOMAIN http') /\ (1 \in DOMAIN http' => http'[1].state = 1)
     /\ UNCHANGED <<gateVars, keyedVars, providerVars, publicVars>>
  \/ /\ part = "provider" /\ ProviderNext /\ InOrder(Requested)
     /\ (moment' # moment /\ moment > 0 => Cardinality(Exchanging) <= 1)
     /\ UNCHANGED <<gateVars, keyedVars, humanVars, publicVars>>
  \/ /\ part = "site" /\ PublicNext /\ (4 \in DOMAIN visits' => 2 \in DOMAIN visits')
     /\ UNCHANGED <<gateVars, keyedVars, humanVars, providerVars>>
DataStep ==
  \/ part = "catalog" /\ CatalogNext /\ UNCHANGED <<searchVars, procedureVars>>
  \/ part = "search" /\ SearchNext /\ UNCHANGED <<catalogVars, procedureVars>>
  \/ part = "procedure" /\ ProcedureNext /\ UNCHANGED <<catalogVars, searchVars>>
ToolStep ==
  \/ part = "vectors" /\ VectorNext /\ UNCHANGED <<libraryVars, htmlVars, corpusVars, pdfVars, stagingVars>>
  \/ part = "documents" /\ LibraryNext /\ UNCHANGED <<vectorVars, htmlVars, corpusVars, pdfVars, stagingVars>>
  \/ part = "pages" /\ HtmlNext /\ UNCHANGED <<vectorVars, libraryVars, corpusVars, pdfVars, stagingVars>>
  \/ part = "corpus" /\ CorpusNext /\ InOrder(Started) /\ UNCHANGED <<vectorVars, libraryVars, htmlVars, pdfVars, stagingVars>>
  \/ part = "pdfs" /\ PdfNext /\ InOrder(Extracted) /\ UNCHANGED <<vectorVars, libraryVars, htmlVars, corpusVars, stagingVars>>
  \/ part = "staging" /\ StagingNext /\ UNCHANGED <<vectorVars, libraryVars, htmlVars, corpusVars, pdfVars>>
Next ==
  /\ UNCHANGED part
  /\ \/ ApiStep /\ UNCHANGED <<Data, Tools>>
     \/ DataStep /\ UNCHANGED <<Api, Tools>>
     \/ ToolStep /\ UNCHANGED <<Api, Data>>

(* The state of every part has its type: what the gate stores as the event *)
(* of a window or of a minute is an event, what a row names as the author  *)
(* of its answer is a call, what a token was rotated into is a token, what *)
(* the index holds was the artifact of a record.                           *)
TypeOK ==
  CASE part = "gate" -> GateTypeOK
    [] part = "keys" -> KeyedTypeOK
    [] part = "people" -> HumanTypeOK
    [] part = "provider" -> ProviderTypeOK
    [] part = "site" -> PublicTypeOK
    [] part = "catalog" -> CatalogTypeOK
    [] part = "search" -> SearchTypeOK
    [] part = "procedure" -> ProcedureTypeOK
    [] part = "vectors" -> VectorTypeOK
    [] part = "documents" -> LibraryTypeOK
    [] part = "pages" -> HtmlTypeOK
    [] part = "corpus" -> CorpusTypeOK
    [] part = "pdfs" -> PdfTypeOK
    [] OTHER -> StagingTypeOK
===============================================================================
