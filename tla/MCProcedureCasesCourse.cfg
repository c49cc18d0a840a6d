SPECIFICATION Spec
CONSTANTS
  ann = ann
  rob = rob
  x1 = x1
  y1 = y1
  w1 = w1
  s1 = s1
  s2 = s2
  b1 = b1
  q1 = q1
  d1 = d1
  d2 = d2
  k1 = k1
  Client = {c1}
  Reader = {g1}
  Principal = {ann, rob}
  Key = {k1}
  FreshKey = FreshKey
  Case = {x1}
  CaseKey = {y1}
  WorkflowVersion = {w1}
  Step = {s1, s2}
  StepsOf <- Steps
  Blocker = {b1}
  Requirement = {q1}
  Document = {d1, d2}
  KnownDocument = {d1}
  NoDocument = NoDocument
  Calls <- Course
  TTL = 1
  MaxTime = 0
  NoCase = NoCase
  NoRequest = NoRequest
  NoRow = NoRow
SYMMETRY Symmetry
INVARIANTS
  TypeOK
  TrailAccounts
  ReadsHoldTogether
PROPERTIES
  ImplementsLedger
