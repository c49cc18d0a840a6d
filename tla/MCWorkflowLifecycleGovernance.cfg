SPECIFICATION Spec
CONSTANTS
  ann = ann
  rob = rob
  pat = pat
  Client = {a, b}
  Reader = {q}
  Principal = {ann, rob, pat}
  Procedure = {p1}
  Version = {v1, v2}
  Key = {k1}
  FreshKey = FreshKey
  Requests <- Governance
  TTL = 1
  MaxTime = 0
  LookupOverlap = 1
  NoVersion = NoVersion
  NoProcedure = NoProcedure
  Nobody = Nobody
  NoRequest = NoRequest
  NoRow = NoRow
  NoReview = NoReview
INVARIANTS
  TypeOK
  VersionsFit
  ReadsShowEvidence
PROPERTIES
  LockedRowsStay
  ImplementsPublication
SYMMETRY Symmetry
CHECK_DEADLOCK FALSE
