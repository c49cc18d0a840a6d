------------------------- MODULE MCWorkflowLifecycle ------------------------
\* Small tenants: two versions of one or two procedures, principals that hold
\* one role or several.
EXTENDS WorkflowLifecycle, TLC

CONSTANTS ann, rob, pat

Req(by, operation, key) ==
  [by |-> by, operation |-> operation, key |-> key, procedure |-> NoProcedure,
   version |-> NoVersion, decision |-> "none", replacement |-> NoVersion]

Draft(by, p, key) == [Req(by, "create", key) EXCEPT !.procedure = p]
On(by, operation, v, key) == [Req(by, operation, key) EXCEPT !.version = v]
Opinion(by, v, decision, key) == [On(by, "review", v, key) EXCEPT !.decision = decision]
Succeed(by, u, v, key) == [On(by, "supersede", u, key) EXCEPT !.replacement = v]

\* Ann writes, Rob reviews, Pat approves; Rob may approve and Ann review as well.
Governance ==
  {Draft(ann, p, FreshKey) : p \in Procedure} \cup
  UNION {{On(ann, "submit", v, FreshKey), On(pat, "archive", v, FreshKey),
          On(pat, "approve", v, FreshKey), On(rob, "approve", v, FreshKey),
          Opinion(ann, v, "recommended_for_approval", FreshKey)} \cup
         {Opinion(rob, v, d, FreshKey) : d \in Decision} \cup
         {Succeed(pat, v, u, k) : u \in Version, k \in Key \cup {FreshKey}}
         : v \in Version}

\* Every operation once per version and role.
Course ==
  {Draft(ann, p, FreshKey) : p \in Procedure} \cup
  UNION {{On(ann, "submit", v, FreshKey), On(pat, "archive", v, FreshKey),
          On(pat, "approve", v, FreshKey)} \cup
         {Opinion(rob, v, d, FreshKey) : d \in Decision} \cup
         {Succeed(pat, v, u, FreshKey) : u \in Version \ {v}}
         : v \in Version}

\* One key for drafts, successions and archivals, and successions that lock the
\* same versions in opposite orders.
Contended ==
  {Draft(ann, p, k) : p \in Procedure, k \in Key \cup {FreshKey}} \cup
  UNION {{Succeed(pat, u, v, k) : v \in Version \ {u}, k \in Key \cup {FreshKey}}
         : u \in Version} \cup
  {On(pat, "archive", v, k) : v \in Version, k \in Key}

\* Ann wrote two versions, Rob recommended them, Pat approved one.
Underway ==
  LET p == CHOOSE p \in Procedure : TRUE
      u == CHOOSE v \in Version : TRUE
      Written(status, n) == [status |-> status, procedure |-> p, number |-> n, creator |-> ann,
                             successor |-> NoVersion]
      recommended == [v \in Version |-> [by |-> rob, decision |-> "recommended_for_approval", at |-> 0]]
  IN  /\ version = [v \in Version |-> IF v = u THEN Written("approved", 1) ELSE Written("in_review", 2)]
      /\ latest = recommended
      /\ newest = recommended
      /\ approval = [v \in Version |-> IF v = u THEN pat ELSE Nobody]
      /\ stored = [s \in Scope |-> NoRow]
      /\ client = [c \in Client |-> Idle]
      /\ reader = [q \in Reader |-> Unread]
      /\ now = 0

\* Requests that find the versions of a procedure absent, or under way.
RequestSpec == (Init \/ Underway) /\ [][Next]_vars /\ Fairness

Symmetry == Permutations(Version) \cup Permutations(Client)
=============================================================================
