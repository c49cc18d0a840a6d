---------------------------- MODULE ProcedureEvidence --------------------------
(***************************************************************************)
(* What a procedure query answers with: the workflow composed of the steps *)
(* of a template and the passages that match them (src/src/procedure), and *)
(* the four artifacts that are mapped from it (src/src/api/v1/mapper.ts):  *)
(* the workflow, the assessment, the evidence bundle and the claim pack.   *)
(*                                                                         *)
(* Retrieved passages are a sequence in the order of their citation ids; a *)
(* passage is its place in it and says which steps its text matches.  The  *)
(* composer classifies a passage by the domain pack (level), the mapper by *)
(* the stored record; the two are independent.                             *)
(***************************************************************************)
EXTENDS Naturals, Sequences, FiniteSets

CONSTANTS Retrievals,      \* the sequences of passages a retrieval may return
          Asks,            \* requests: [target, wants]
          StepDocuments,   \* the documents each step of the template requires
          MatchLimit,      \* passages a step keeps
          GapLimit         \* unsupported steps the composed gaps name

(* A retrieval is finite, and a passage matches steps of the template.     *)
ASSUME ProcedureConstants ==
  \A r \in Retrievals :
    Len(r) \in Nat /\ \A i \in 1..Len(r) : r[i].matches \subseteq 1..Len(StepDocuments)

VARIABLES retrieved, asked,
          workflow,    \* the composed workflow, or nothing yet
          artifacts    \* the artifacts mapped so far, by response type
procedureVars == <<retrieved, asked, workflow, artifacts>>

Step == 1..Len(StepDocuments)
NotComposed == [composed |-> FALSE]
ProcedureStatus == {"supported", "comparative_reference", "inferred_for_review", "missing_evidence"}

ProcedureTypeOK ==
  /\ asked \in Asks
  /\ \A i \in 1..Len(retrieved) : retrieved[i].matches \subseteq Step
  /\ workflow.composed => \A k \in Step : workflow.matched[k] \subseteq 1..Len(retrieved)
  /\ DOMAIN artifacts \subseteq {"workflow", "assessment", "bundle", "pack"}
  /\ "workflow" \in DOMAIN artifacts => \A k \in Step : artifacts["workflow"].steps[k] \in ProcedureStatus

ProcedureInit ==
  /\ retrieved \in Retrievals /\ asked \in Asks
  /\ workflow = NotComposed
  /\ artifacts = [t \in {} |-> {}]

-------------------------------------------------------------------------------
(* Composition. *)
FirstFew(those, limit) == {i \in those : Cardinality({j \in those : j < i}) < limit}
FirstMatching(k) == FirstFew({i \in 1..Len(retrieved) : k \in retrieved[i].matches}, MatchLimit)

ComposedStatus(k) ==
  IF FirstMatching(k) = {} THEN "insufficient"
  ELSE IF \E i \in FirstMatching(k) : retrieved[i].level \in {"primary", "national"} THEN "supported"
  ELSE "inferred"

Levels == {retrieved[i].level : i \in 1..Len(retrieved)}
GeneralGaps ==
  (IF "primary" \notin Levels THEN {"local_source"} ELSE {})
  \cup (IF "comparative" \in Levels THEN {"external_reference"} ELSE {})
  \cup asked.wants
  \cup (IF retrieved = <<>> THEN {"required_documents"} ELSE {})

PartialGaps ==
  IF retrieved = <<>> THEN {} ELSE FirstFew({k \in Step : ComposedStatus(k) = "insufficient"}, GapLimit)

ComposeProcedureWorkflow ==
  /\ ~workflow.composed
  /\ workflow' = [composed |-> TRUE, matched |-> [k \in Step |-> FirstMatching(k)],
                  status |-> [k \in Step |-> ComposedStatus(k)],
                  gaps |-> GeneralGaps, open |-> PartialGaps]
  /\ UNCHANGED <<retrieved, asked, artifacts>>

-------------------------------------------------------------------------------
(* Citations.  One needs a complete identity, an address and a document    *)
(* that is active, processed and public.                                   *)
Citable == {i \in 1..Len(retrieved) : retrieved[i].citable}

SourceAuthority(i) ==
  LET r == retrieved[i]
  IN CASE r.municipality = "mixco" -> "comparative"
       [] r.municipality = "target" ->
            IF r.official /\ asked.target THEN "official_target_jurisdiction" ELSE "comparative"
       [] r.municipality \in {"none", "other"} /\ r.national /\ r.official -> "official_national"
       [] r.municipality = "other" /\ ~(r.national /\ r.official) -> "comparative"
       [] OTHER -> "contextual"

CitationStatus(i) ==
  CASE SourceAuthority(i) \in {"official_target_jurisdiction", "official_national"} -> "supported"
    [] SourceAuthority(i) = "comparative" -> "comparative_reference"
    [] OTHER -> "inferred_for_review"

(* One passage of each version in a place, the first; a conflict when they *)
(* are of two versions and do not say the same.                            *)
Place(i) == <<retrieved[i].document, retrieved[i].label>>
FirstOfVersion(place) ==
  {i \in Citable : Place(i) = place
     /\ \A j \in Citable : Place(j) = place /\ retrieved[j].version = retrieved[i].version => i <= j}
DocumentConflicts ==
  {c \in {FirstOfVersion(Place(i)) : i \in Citable} :
     Cardinality(c) >= 2 /\ Cardinality({retrieved[i].text : i \in c}) >= 2}
InConflict == UNION DocumentConflicts

StepRefs(k) == workflow.matched[k] \cap Citable
StepStatus(k) ==
  LET refs == StepRefs(k)
      statuses == {CitationStatus(i) : i \in refs}
  IN IF refs = {} THEN "missing_evidence"
     ELSE IF refs \cap InConflict # {} THEN "inferred_for_review"
     ELSE IF "supported" \in statuses THEN "supported"
     ELSE IF "comparative_reference" \in statuses THEN "comparative_reference"
     ELSE "inferred_for_review"

ConflictGaps == {[conflict |-> c] : c \in DocumentConflicts}
ProvenanceGap == IF Citable # 1..Len(retrieved) THEN {[provenance |-> TRUE]} ELSE {}
NamedGaps == {[item |-> g] : g \in workflow.gaps} \cup {[passage |-> k] : k \in workflow.open}
OrNothingFound(gaps) == IF Citable = {} /\ gaps = {} THEN {[evidence |-> "none"]} ELSE gaps

(* A required document is never better than a step says; of several steps  *)
(* that require it the last one says it.                                   *)
RequiredBy(d) == {k \in Step : d \in StepDocuments[k]}
LastOf(steps) == CHOOSE k \in steps : \A j \in steps : j <= k
Requirements ==
  {[document |-> d,
    status |-> LET s == StepStatus(LastOf(RequiredBy(d)))
               IN IF s = "supported" THEN "inferred_for_review" ELSE s] :
     d \in UNION {StepDocuments[k] : k \in Step}}

-------------------------------------------------------------------------------
(* The artifacts. *)
WorkflowArtifact ==
  [steps |-> [k \in Step |-> StepStatus(k)], requirements |-> Requirements, citations |-> Citable,
   gaps |-> OrNothingFound(NamedGaps \cup ConflictGaps \cup ProvenanceGap)]

Assessment ==
  [blocked |-> {k \in Step : WorkflowArtifact.steps[k] # "supported" \/ StepDocuments[k] # {}},
   completed |-> {}, missing |-> WorkflowArtifact.requirements,
   refs |-> WorkflowArtifact.citations \cup UNION {StepRefs(k) : k \in Step}]

(* A mutant: a claim of a step in conflict is supported.                    *)
StepClaimsInConflict ==
  {[of |-> k, refs |-> StepRefs(k), status |-> StepStatus(k)] : k \in {j \in Step : StepRefs(j) # {}}}
StepClaims ==
  {[of |-> k, refs |-> StepRefs(k), status |-> StepStatus(k)] :
     k \in {j \in Step : StepRefs(j) # {} /\ StepRefs(j) \cap InConflict = {}}}
PassageClaims == {[passage |-> i, refs |-> {i}, status |-> "inferred_for_review"] : i \in InConflict}
UnsupportedSteps == {k \in Step : StepStatus(k) = "missing_evidence"}

EvidenceBundle ==
  [claims |-> StepClaims \cup PassageClaims, citations |-> Citable,
   contradictions |-> DocumentConflicts,
   missing |-> OrNothingFound(NamedGaps \cup {[step |-> k] : k \in UnsupportedSteps}
                              \cup ConflictGaps \cup ProvenanceGap)]

(* No pack while anything needs review, or when nothing is left to claim.  *)
ClaimPack ==
  LET claims == {c \in EvidenceBundle.claims : c.status \in {"supported", "comparative_reference"}}
  IN IF EvidenceBundle.contradictions # {} \/ claims = {}
     THEN [refused |-> TRUE]
     ELSE [refused |-> FALSE, claims |-> claims, citations |-> UNION {c.refs : c \in claims}]

Answered(type) == type \in DOMAIN artifacts
MapArtifact(type, artifact) ==
  /\ workflow.composed /\ ~Answered(type)
  /\ artifacts' = [t \in DOMAIN artifacts \cup {type} |-> IF t = type THEN artifact ELSE artifacts[t]]
  /\ UNCHANGED <<retrieved, asked, workflow>>

MapProcedureWorkflow == MapArtifact("workflow", WorkflowArtifact)
MapProcedureAssessment == MapArtifact("assessment", Assessment)
MapEvidenceBundle == MapArtifact("bundle", EvidenceBundle)
MapClaimPack == MapArtifact("pack", ClaimPack)

ProcedureNext ==
  \/ ComposeProcedureWorkflow
  \/ MapProcedureWorkflow \/ MapProcedureAssessment \/ MapEvidenceBundle \/ MapClaimPack
ProcedureSpec == ProcedureInit /\ [][ProcedureNext]_procedureVars

-------------------------------------------------------------------------------
Bundled == artifacts["bundle"]
ClaimedSteps == {c.of : c \in {d \in Bundled.claims : "of" \in DOMAIN d}}
MissingSteps == {g.step : g \in {h \in Bundled.missing : "step" \in DOMAIN h}}
DisputedSteps ==
  {k \in Step : \E c \in Bundled.contradictions : c \cap workflow.matched[k] # {}}

(* In a bundle each step is accounted for once: by a claim on its          *)
(* citations, by an entry of what is missing, or by a contradiction in     *)
(* which every side is a claim to review.                                  *)
StepsAccountedFor ==
  Answered("bundle") =>
    /\ ClaimedSteps \cup MissingSteps \cup DisputedSteps = Step
    /\ ClaimedSteps \cap MissingSteps = {} /\ DisputedSteps \cap (ClaimedSteps \cup MissingSteps) = {}
    /\ \A c \in Bundled.contradictions :
         /\ Cardinality({retrieved[i].version : i \in c}) = Cardinality(c)
         /\ \A i \in c : \E d \in Bundled.claims : d.refs = {i} /\ d.status = "inferred_for_review"
    /\ \A d \in Bundled.claims :
         /\ d.refs # {} /\ d.refs \subseteq Bundled.citations
         /\ d.status = "supported" => \E i \in d.refs : retrieved[i].official
    /\ Bundled.citations = {} => Bundled.missing # {}

(* The four artifacts of one query agree: the workflow's status of a step  *)
(* is that of its claim, the assessment blocks a step the bundle does not  *)
(* support and completes nothing, and a pack claims what the bundle claims *)
(* with the same citations, only while nothing is contradicted.            *)
ArtifactsAgree ==
  /\ StepsAccountedFor
  /\ Answered("bundle") /\ Answered("workflow") =>
       \A c \in Bundled.claims : "of" \in DOMAIN c => artifacts["workflow"].steps[c.of] = c.status
  /\ Answered("bundle") /\ Answered("assessment") =>
       /\ \A k \in Step \ artifacts["assessment"].blocked :
            \E c \in Bundled.claims : "of" \in DOMAIN c /\ c.of = k /\ c.status = "supported"
       /\ \A d \in artifacts["assessment"].missing : d.status # "supported"
  /\ Answered("bundle") /\ Answered("pack") =>
       IF artifacts["pack"].refused
       THEN \/ Bundled.contradictions # {}
            \/ \A c \in Bundled.claims : c.status = "inferred_for_review"
       ELSE /\ Bundled.contradictions = {}
            /\ artifacts["pack"].claims \subseteq Bundled.claims
            /\ artifacts["pack"].citations \subseteq Bundled.citations
            /\ \A i \in artifacts["pack"].citations :
                 \E k \in Step : i \in workflow.matched[k] /\ StepStatus(k) # "inferred_for_review"
===============================================================================
