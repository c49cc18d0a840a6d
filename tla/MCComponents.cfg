INIT Init
NEXT Next
CONSTANTS
  one = one
  two = two
  three = three
  Call = {one, two, three}
  Sends <- MCSends
  Limit = 1
  MaxWindow = 2
  NoRequest = NoRequest
  NoEvent = NoEvent
  Client = {1, 2, 3}
  Sent <- MCSent
  KeyTTL = 1
  Clock = 1
  None = None
  HumanRequest = {1, 2, 3}
  Login = {1, 2}
  LoginTTL = 1
  SessionTTL = 2
  CodeTTL = 1
  Skew = 1
  MaxToken = 3
  LastTick = 1
  Nobody = Nobody
  Visit = {1, 2, 3, 4}
  Comes <- MCComes
  ClientLimit = 1
  GlobalLimit = 2
  Ceiling = 3
  KeptWindows = 2
  LastWindow = 2
  Troubled = {1}
  NoVisit = NoVisit
  EntryId = {1, 2, 3}
  Microsecond = {0, 1, 2, 3}
  PerMilli = 2
  PageLimit = {1, 2}
  Collections = {"source_list", "document_list", "ingestion_job_list", "procedure_list"}
  Corpora <- MCCorpora
  Registers <- MCRegisters
  DocumentOf <- MCDocumentOf
  Requests <- MCRequests
  Retrievals <- MCRetrievals
  Asks <- MCAsks
  StepDocuments <- MCStepDocuments
  MatchLimit = 2
  GapLimit = 1
  TokenExchange = {1, 2}
  Key = {"k1", "k2"}
  Stranger = "stranger"
  AlgorithmOf <- MCAlgorithmOf
  Tokens <- MCTokens
  AllowedAlgorithms = {"RS256", "ES256"}
  DiscoveryTTL = 1
  JwksTTL = 1
  Slow = 1
  LastMoment = 3
  MaxRotations = 1
  NoToken = NoToken
  Publication = {1, 2, 3, 4}
  VersionOf <- MCVersionOf
  BatchesOf <- MCBatchesOf
  NoRow = NoRow
  NoPublication = NoPublication
  Bytes = {"x", "y"}
  KnownAt <- MCKnownAt
  NoBytes = NoBytes
  MaxAge = 1
  LastHour = 3
  MaxTampers = 1
  MaxCrashes = 1
  Run = {1, 2}
  Source = {"s", "t"}
  PlanOf <- MCPlanOf
  Hosts = {"a", "b"}
  Chains <- MCChains
  Sick = {"z"}
  MaxRedirects = 1
  MinimumSuccessful = 1
  NoPage = NoPage
  CorpusRun = {1, 2}
  Pdf = {1, 2}
  OtherVersion = 2
  Textless = {2}
  MaxScan = 2
  Extraction = {1, 2}
  Document <- MCDocument
  NoPdf = NoPdf
  MaxPages = 2
  MaxPageText = 2
  MaxTotalText = 3
  MaxOutput = 4
  MaxConcurrency = 1
  StagingRuns = {1, 2}
  Database = {1, 2}
  WithReset = {2}
  CleansExisting = {2}
  NoRun = NoRun
INVARIANTS
  TypeOK
  GateHolds
  KeysHold
  OneSessionPerLogin
  ProviderKeysHold
  PublicWindowsHold
  WalkShowsAll
  BundleReplays
  ArtifactsAgree
  GenerationsHold
  FilesHold
  ReceiptsHold
CHECK_DEADLOCK FALSE
