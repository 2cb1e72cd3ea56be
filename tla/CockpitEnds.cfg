\* One question to the operator, in either of two turns.
SPECIFICATION Spec
CONSTANTS
    MaxTurns = 2
    MaxRounds = 0
    MaxPieces = 0
    MaxRequests = 1
PROPERTIES
    ShutdownCompletes
    BusyEnds
CHECK_DEADLOCK FALSE
