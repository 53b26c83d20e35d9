SPECIFICATION Spec
CONSTANT MaxAttempts <- FiveAttempts
INVARIANT UnreachableIsWaitedFor
CHECK_DEADLOCK FALSE
