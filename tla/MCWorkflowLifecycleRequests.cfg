SPECIFICATION RequestSpec
CONSTANTS
  ann = ann
  rob = rob
  pat = pat
  Client = {a, b}
  Reader = {}
  Principal = {ann, rob, pat}
  Procedure = {p1}
  Version = {v1, v2}
  Key = {k1}
  FreshKey = FreshKey
  Requests <- Contended
  TTL = 1
  MaxTime = 1
  LookupOverlap = 1
  NoVersion = NoVersion
  NoProcedure = NoProcedure
  Nobody = Nobody
  NoRequest = NoRequest
  NoRow = NoRow
  NoReview = NoReview
PROPERTIES
  ReplaysHold
  RequestsEnd
CHECK_DEADLOCK FALSE
