SPECIFICATION FairSpec
CONSTANTS
  v1 = v1
  v2 = v2
  c1 = c1
  c2 = c2
  k1 = k1
  k2 = k2
  w1 = w1
  w2 = w2
  NoScan = NoScan
  NoJob = NoJob
  NoRequest = NoRequest
  Version = {v1}
  ScanId = {s1, s2}
  Job = {j1}
  Client = {a}
  Worker = {w1, w2}
  Config = {c1, c2}
  Key = {k1, k2}
  Requests <- OneJob
  Profile <- Profiles
  Retirable = {v1}
  MaxAttempts = 2
  LeaseTicks = 2
  RetryDelay <- Delays
INVARIANTS
  TypeOK
  LeasesHold
PROPERTIES
  PublishedUnderCurrentAcceptance
  LeaseHistory
  JobsSettle
CHECK_DEADLOCK FALSE
