SPECIFICATION FairSpec
CONSTANTS
  Builds = {b1, b2, b3}
  MaxId = 2
  ListFails = TRUE
  Lossy = TRUE
INVARIANT IsoStays
PROPERTIES OnlyFailedCleared ClearedErrorFailsNoBuild BuildEnds
CHECK_DEADLOCK FALSE
