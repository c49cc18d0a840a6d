--------------------------- MODULE MCProcedureCases --------------------------
\* Two requests for one case key, and updates of two principals that expect the
\* same revisions of the case.
EXTENDS ProcedureCases, TLC

CONSTANTS ann, rob, x1, y1, w1, s1, s2, b1, q1, d1, d2, k1

Steps == [w \in WorkflowVersion |-> <<s1>>]

Create(by, w) == [operation |-> "create", by |-> by, caseKey |-> y1, workflow |-> w]
On(by, n, action) ==
  [operation |-> "update", by |-> by, case |-> x1, expected |-> n, action |-> action]
Reports(s, state) == [type |-> "set_step_state", step |-> s, state |-> state]
Records(state, d) ==
  [type |-> "record_document", requirement |-> q1, state |-> state, document |-> d]
Resolves(b) == [type |-> "resolve_blocker", blocker |-> b]
Judges(v) == [type |-> "set_validation_state", validation |-> v]
Does(type) == [type |-> type]

Sent(requests, keys) == {[request |-> r, key |-> k] : r \in requests, k \in keys}

\* Every action, at every revision it is interesting at.
Course ==
  Sent({Create(ann, w1), Create(rob, w1),
        On(ann, 1, Does("add_blocker")), On(ann, 1, Reports(s1, "blocked")),
        On(ann, 1, Reports(s2, "in_progress")), On(rob, 1, Records("received", d1)),
        On(rob, 1, Records("requested", d2)), On(rob, 1, Records("requested", NoDocument)),
        On(ann, 2, Resolves(b1)), On(ann, 2, Reports(s1, "in_progress")),
        On(ann, 2, Reports(s1, "ready_for_review")), On(rob, 2, Judges("in_review")),
        On(ann, 3, Resolves(b1)), On(ann, 3, Reports(s1, "in_progress")),
        On(rob, 3, Judges("changes_required")), On(ann, 3, Does("close_case")),
        On(ann, 4, Does("set_follow_up")), On(ann, 4, Does("close_case")),
        On(ann, 5, Does("append_note"))},
       {FreshKey})

\* Requests under one key: repeated, reused for other requests, and for one case.
Keyed ==
  Sent({Create(ann, w1)}, {k1, FreshKey}) \cup
  Sent({On(ann, 1, Does("append_note")), On(ann, 2, Does("close_case"))}, {k1})

Overtaking == Sent({Create(ann, w1)}, {FreshKey}) \cup
  Sent({On(ann, 1, Does("append_note")), On(ann, 2, Does("append_note"))}, {k1})

Symmetry == Permutations(Client)
=============================================================================
