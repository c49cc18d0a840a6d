SPECIFICATION Spec
CONSTANTS
  ann = ann
  rob = rob
  pat = pat
  Client = {a, b}
  Reader = {}
  Principal = {ann, rob, pat}
  Procedure = {p1}
  Version = {v1}
  Key = {}
  FreshKey = FreshKey
  Requests <- Course
  TTL = 1
  MaxTime = 1
  LookupOverlap = 1
  NoVersion = NoVersion
  NoProcedure = NoProcedure
  Nobody = Nobody
  NoRequest = NoRequest
  NoRow = NoRow
  NoReview = NoReview
PROPERTIES
  ApprovalNeedsLatestReview
SYMMETRY Symmetry
CHECK_DEADLOCK FALSE
