SPECIFICATION Spec
CONSTANTS
  RIDs = {1, 2, 3}
  MaxAttempts = 3
  MaxRIDAttempts = 2
  Lossy = TRUE
INVARIANTS NoKnownLeak KeptUnlessCancelled OnlyCancelHidesFailure
PROPERTIES DispositionSpec ForeignOnlyIfLost
CHECK_DEADLOCK FALSE
