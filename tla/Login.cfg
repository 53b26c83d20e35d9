SPECIFICATION FairSpec
CONSTANT MaxAttempts <- FiveAttempts
INVARIANTS WaitsForSylve OneLateLogin SecondSessionOnlyIfLost
PROPERTY LoginEnds
CHECK_DEADLOCK FALSE
