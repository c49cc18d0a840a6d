--------------------------- MODULE MCSearchEvidence ---------------------------
EXTENDS SearchEvidence

(* Two versions of one document in one place with one text or two, a       *)
(* section of a version elsewhere, and another document.                   *)
Everywhere == {"keyword", "phrase", "semantic"}
Hit == [version: {1, 2}, label: {"p"}, text: {"x", "y"}, modes: {Everywhere}]
       \cup [version: {1, 3}, label: {"q"}, text: {"x"}, modes: {{"semantic"}}]
MCCorpora == {<<>>} \cup {<<h>> : h \in Hit} \cup [1..3 -> Hit]

(* Official and in force; national and repealed; of another place and      *)
(* undated; not validated and not yet in force.                            *)
Attributes(validated, official, relation, here, effective, repeal) ==
  [validated |-> validated, official |-> official, forTarget |-> here, relation |-> relation,
   targetRequested |-> TRUE, sourceRequested |-> here, effective |-> effective, repeal |-> repeal]
MCAttributes ==
  {Attributes(TRUE, TRUE, "target", TRUE, "past", "none"),
   Attributes(TRUE, TRUE, "national", FALSE, "past", "past"),
   Attributes(TRUE, FALSE, "comparative", FALSE, "none", "none"),
   Attributes(FALSE, TRUE, "target", TRUE, "future", "none")}
MCRegisters == {r \in [1..3 -> MCAttributes] : r[3].relation = "target"}
MCDocumentOf == <<1, 1, 2>>
MCRequests ==
  {[mode |-> "keyword", authorities |-> {}, temporals |-> {}],
   [mode |-> "hybrid", authorities |-> {}, temporals |-> {"current", "undetermined"}],
   [mode |-> "semantic", authorities |-> {"official_target_jurisdiction"}, temporals |-> {}]}
===============================================================================
