SPECIFICATION FairSpec
CONSTANTS
  o1 = o1
  o2 = o2
  v1 = v1
  None = None
  Object <- Rivals
  Version = {v1}
  VersionOf <- RivalVersion
  Inspector = {i1, i2}
  MaxGeneration = 2
  MaxAge = 1
  MaxTime = 2
INVARIANTS
  TypeOK
  OneAcceptedPerVersion
  AcceptedOnCurrentCleanScan
PROPERTIES
  SupersededOnlyByAccepted
  DecisionIsFinal
  InspectionEnds
  ImplementsContract
CHECK_DEADLOCK FALSE
