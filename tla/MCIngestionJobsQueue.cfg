SPECIFICATION Spec
CONSTANTS
  v1 = v1
  v2 = v2
  c1 = c1
  c2 = c2
  k1 = k1
  k2 = k2
  w1 = w1
  w2 = w2
  NoScan = NoScan
  NoJob = NoJob
  NoRequest = NoRequest
  Version = {v1}
  ScanId = {s1}
  Job = {j1, j2, j3}
  Client = {a, b, c}
  Worker = {w1, w2}
  Config = {c1, c2}
  Key = {k1, k2}
  Requests <- CollidingRequests
  Profile <- Profiles
  Retirable = {}
  MaxAttempts = 2
  LeaseTicks = 1
  RetryDelay <- Delays
INVARIANTS
  QueueConsistent
  VectorsOfProcessedJob
PROPERTIES
  ImplementsContract
SYMMETRY Symmetry
CHECK_DEADLOCK FALSE
