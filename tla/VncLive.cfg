SPECIFICATION FairSpec
CONSTANTS
  MaxConn = 2
  Commands = 1
  Viewers = {}
PROPERTIES RunReturns CancelEndsGoroutines
CHECK_DEADLOCK FALSE
