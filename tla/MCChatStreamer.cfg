\* Three attempts, two pieces a response, every kind of error.
SPECIFICATION Spec
CONSTANTS
    MaxAttempts = 3
    BaseDelay = 1
    Factor = 2
    CapDelay = 3
    JitterExtra = 1
    MaxPieces = 2
    Errors <- MCErrors
INVARIANTS
    FatalErrorIsNotRetried
    RetryAfterIsWaited
    ReplyIsWhatTheDriverHolds
PROPERTIES
    StopEndsTheRequests
    Returns
    ImplementsContract
