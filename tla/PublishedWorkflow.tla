-------------------------- MODULE PublishedWorkflow -------------------------
(***************************************************************************)
(* What the workflow lifecycle promises to those who use procedures: a     *)
(* procedure has at most one published version, a version stops being      *)
(* published only because another one takes its place in the same step or  *)
(* because it is archived, and a version that has been replaced or         *)
(* archived is never published again.                                      *)
(*                                                                         *)
(* WorkflowLifecycle implements this specification.                        *)
(***************************************************************************)
CONSTANTS Procedure, Version, NoVersion

VARIABLES published,   \* the approved version of each procedure, or NoVersion
          replaced,    \* the superseded versions
          archived     \* the archived versions

publicationVars == <<published, replaced, archived>>

PublicationInit ==
  /\ published = [p \in Procedure |-> NoVersion]
  /\ replaced = {}
  /\ archived = {}

\* v is not, and has never been, published.
Unpublished(v) == v \notin replaced \cup archived /\ \A p \in Procedure : published[p] # v

Publish(p, v) ==
  /\ published[p] = NoVersion
  /\ Unpublished(v)
  /\ published' = [published EXCEPT ![p] = v]
  /\ UNCHANGED <<replaced, archived>>

Replace(p, v) ==
  /\ published[p] # NoVersion
  /\ Unpublished(v)
  /\ published' = [published EXCEPT ![p] = v]
  /\ replaced' = replaced \cup {published[p]}
  /\ UNCHANGED archived

Retire(v) ==
  /\ v \notin archived
  /\ archived' = archived \cup {v}
  /\ replaced' = replaced \ {v}
  /\ published' = [p \in Procedure |-> IF published[p] = v THEN NoVersion ELSE published[p]]

PublicationNext ==
  \/ \E p \in Procedure, v \in Version : Publish(p, v) \/ Replace(p, v)
  \/ \E v \in Version : Retire(v)

PublicationSpec == PublicationInit /\ [][PublicationNext]_publicationVars
=============================================================================
