SPECIFICATION FairSpec
CONSTANTS
  RIDs = {1}
  CrashThreshold = 1
  NoStateThreshold = 1
  ApiFails = TRUE
  CloneFails = FALSE
  Lossy = FALSE
PROPERTY WaitsEnd
CHECK_DEADLOCK FALSE
