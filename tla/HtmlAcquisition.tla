---------------------------- MODULE HtmlAcquisition ----------------------------
(***************************************************************************)
(* The acquisition of the official pages of a source pack                  *)
(* (src/src/sources/htmlAcquisition.ts and src/src/cli/                    *)
(* acquireSourcePackHtml.ts).  A run takes the sources of its plan one     *)
(* after the other: the page is fetched, scanned and extracted, and the    *)
(* page and its sections are published under the page's hash, never over   *)
(* another file; the inventory file is replaced at the end, if enough      *)
(* sources succeeded.  Runs may overlap and end between any two steps.     *)
(*                                                                         *)
(* What a fetch meets is a chain of hops: the URL that is asked and its    *)
(* host, whether all addresses of the host are public, and the answer: a   *)
(* redirection, a page, or something that is refused (a status, a media    *)
(* type, a charset, a size, a network failure).  The hash of a page is the *)
(* page.                                                                   *)
(***************************************************************************)
EXTENDS Naturals, FiniteSets, SequencesExt

CONSTANTS Run, Source,
          PlanOf,       \* the sources of a run's plan, in order
          Hosts,        \* hosts the source pack and the connector both allow
          Chains,       \* what a fetch may meet
          Sick,         \* pages the scanner knows
          MaxRedirects, MinimumSuccessful, NoPage

ASSUME HtmlConstants == \A r \in Run : \A i \in 1..Len(PlanOf[r]) : PlanOf[r][i] \in Source

VARIABLES published,  \* page and sections under the path of a source and a hash
          inventory,  \* what each record names as its artifact, and as its final URL
          acquiring   \* of each run
htmlVars == <<published, inventory, acquiring>>

Hop(host, url, public, answer) == [host |-> host, url |-> url, public |-> public, answer |-> answer]
Pages == {Last(chain).answer : chain \in Chains} \ {"redirect", "refused"}
PathOf == Source \X Pages
Named == [page : Pages \cup {NoPage}, url : {Last(chain).url : chain \in Chains} \cup {NoPage}]
NotAcquired == [page |-> NoPage, url |-> NoPage]

HtmlTypeOK ==
  /\ published \in [PathOf -> [html : Pages \cup {NoPage}, sections : Named]]
  /\ inventory \in [Source -> Named]
  /\ \A r \in Run : /\ acquiring[r].phase \in {"before", "fetch", "html", "sections", "ended"}
                    /\ acquiring[r].found \in [Source -> Named]
                    /\ acquiring[r].base \in [Source -> Named]

(* acquireSourcePackHtml of a run that has not read the inventory.         *)
Unstarted == [phase |-> "before", next |-> 1, now |-> NotAcquired,
              found |-> [s \in Source |-> NotAcquired], base |-> [s \in Source |-> NotAcquired]]
HtmlInit ==
  /\ published = [p \in PathOf |-> [html |-> NoPage, sections |-> NotAcquired]]
  /\ inventory = [s \in Source |-> NotAcquired]
  /\ acquiring = [r \in Run |-> Unstarted]

-------------------------------------------------------------------------------
(* fetchHtml: every hop is checked before it is asked (validateUrl), a     *)
(* redirection stays on the host of the first, and there are not too many. *)
HopAllowed(chain, i) == chain[i].host \in Hosts /\ chain[i].public /\ chain[i].host = chain[1].host
Fetched(chain) ==
  /\ Len(chain) <= MaxRedirects + 1
  /\ \A i \in 1..Len(chain) : HopAllowed(chain, i) /\ (i < Len(chain) <=> chain[i].answer = "redirect")
  /\ Last(chain).answer \in Pages

CurrentSource(r) == PlanOf[r][acquiring[r].next]
InPhase(r, phase) == acquiring[r].phase = phase /\ (phase # "before" => acquiring[r].next <= Len(PlanOf[r]))
RunMoves(r, run) == acquiring' = [acquiring EXCEPT ![r] = run]
NextSource(r) == [acquiring[r] EXCEPT !.phase = "fetch", !.next = @ + 1, !.now = NotAcquired]

(* The CLI reads the inventory; bindSources.                               *)
Begins(r) ==
  /\ InPhase(r, "before")
  /\ RunMoves(r, [Unstarted EXCEPT !.phase = "fetch", !.base = inventory])
  /\ UNCHANGED <<published, inventory>>

(* A page that was fetched, is clean and has enough text.                  *)
Fetches(r, chain) ==
  /\ InPhase(r, "fetch") /\ Fetched(chain) /\ Last(chain).answer \notin Sick
  /\ RunMoves(r, [acquiring[r] EXCEPT !.phase = "html",
                                   !.now = [page |-> Last(chain).answer, url |-> Last(chain).url]])
  /\ UNCHANGED <<published, inventory>>

(* blocked(): a source that fails keeps the record it has, whatever of it  *)
(* was published.                                                          *)
Blocks(r) ==
  /\ acquiring[r].phase \in {"fetch", "html", "sections"} /\ acquiring[r].next <= Len(PlanOf[r])
  /\ RunMoves(r, NextSource(r))
  /\ UNCHANGED <<published, inventory>>

(* immutableWrite: a file that is there is used if it is the same, and     *)
(* the link of a new one replaces nothing.                                 *)
SnapshotPath(r) == <<CurrentSource(r), acquiring[r].now.page>>
Agrees(found, content, none) == found \in {none, content}
PublishesHtml(r) ==
  /\ InPhase(r, "html")
  /\ Agrees(published[SnapshotPath(r)].html, acquiring[r].now.page, NoPage)
  /\ published' = [published EXCEPT ![SnapshotPath(r)].html = acquiring[r].now.page]
  /\ RunMoves(r, [acquiring[r] EXCEPT !.phase = "sections"])
  /\ UNCHANGED inventory


(* A mutant: sections that are there are taken as they are.                *)
SectionsReused(found, content) == TRUE
SectionsAgree(found, content) == Agrees(found, content, NotAcquired)

(* The sections' file names the final URL besides what the page says.      *)
PublishesSections(r) ==
  /\ InPhase(r, "sections")
  /\ SectionsAgree(published[SnapshotPath(r)].sections, acquiring[r].now)
  /\ published' = [published EXCEPT ![SnapshotPath(r)].sections =
                     IF @ = NotAcquired THEN acquiring[r].now ELSE @]
  /\ RunMoves(r, [NextSource(r) EXCEPT !.found[CurrentSource(r)] = acquiring[r].now])
  /\ UNCHANGED inventory

(* The receipt, and the whole inventory as it was read with the records of *)
(* the sources that succeeded, if the receipt passes.                      *)
Successful(r) == {s \in Source : acquiring[r].found[s] # NotAcquired}
Enough(r) == Cardinality(Successful(r)) >= MinimumSuccessful
EndsRun(r) ==
  /\ acquiring[r].phase = "fetch" /\ acquiring[r].next > Len(PlanOf[r])
  /\ inventory' = IF Enough(r)
                  THEN [s \in Source |-> IF s \in Successful(r) THEN acquiring[r].found[s] ELSE acquiring[r].base[s]]
                  ELSE inventory
  /\ RunMoves(r, [Unstarted EXCEPT !.phase = "ended"])
  /\ UNCHANGED published

(* The process ends; what it published stays.                              *)
Dies(r) ==
  /\ acquiring[r].phase \notin {"before", "ended"}
  /\ RunMoves(r, [Unstarted EXCEPT !.phase = "ended"])
  /\ UNCHANGED <<published, inventory>>

HtmlNext ==
  \E r \in Run : \/ Begins(r) \/ Blocks(r) \/ PublishesHtml(r) \/ PublishesSections(r) \/ EndsRun(r) \/ Dies(r)
                 \/ \E chain \in Chains : Fetches(r, chain)
HtmlSpec == HtmlInit /\ [][HtmlNext]_htmlVars

-------------------------------------------------------------------------------
(* A record names a page that no scanner refused, whose bytes are under    *)
(* its hash, with the sections that were extracted of it, fetched from the *)
(* URL the record gives: also when runs overlap, end early, or find a page *)
(* again where an earlier run, which met another redirection, left it.     *)
SnapshotsHold ==
  \A s \in Source :
    LET named == inventory[s]
    IN named # NotAcquired =>
         /\ named.page \notin Sick
         /\ published[<<s, named.page>>] = [html |-> named.page, sections |-> named]
===============================================================================
