SPECIFICATION Spec
CONSTANT MaxRequests = 3
INVARIANT WaitingIsQueued
CHECK_DEADLOCK FALSE
