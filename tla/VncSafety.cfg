SPECIFICATION Spec
CONSTANTS
  MaxConn = 3
  Commands = 2
  Viewers = {v1}
INVARIANTS TypeOK OneDriver NoOrphan CleanStop
PROPERTIES RetryOnNewer SlotSpec
CHECK_DEADLOCK FALSE
