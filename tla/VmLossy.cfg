SPECIFICATION Spec
CONSTANTS
  RIDs = {1, 2}
  CrashThreshold = 2
  NoStateThreshold = 2
  ApiFails = FALSE
  CloneFails = TRUE
  Lossy = TRUE
INVARIANT NoKnownLeak
PROPERTIES DispositionSpec 
CHECK_DEADLOCK FALSE
