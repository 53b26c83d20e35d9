SPECIFICATION Spec
CONSTANTS
  Builds = {b1, b2}
  MaxId = 3
  ListFails = FALSE
  Lossy = FALSE
INVARIANT NilIsLookedAt
CHECK_DEADLOCK FALSE
