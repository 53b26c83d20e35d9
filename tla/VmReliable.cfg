SPECIFICATION Spec
CONSTANTS
  RIDs = {1, 2}
  CrashThreshold = 2
  NoStateThreshold = 2
  ApiFails = TRUE
  CloneFails = FALSE
  Lossy = FALSE
INVARIANTS TypeOK VmKept BootedWithNic OnlyCancelHidesFailure
CHECK_DEADLOCK FALSE
