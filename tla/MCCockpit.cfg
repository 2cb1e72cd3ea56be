\* Two turns, with one round or retry beyond their first requests; no questions.
SPECIFICATION Spec
CONSTANTS
    MaxTurns = 2
    MaxRounds = 1
    MaxPieces = 1
    MaxRequests = 0
INVARIANTS
    EventsKeepTheirOrder
    AnswerFollowsItsQuestion
    OneTurnAtATime
PROPERTY ShutdownStopsTheTurn
CHECK_DEADLOCK FALSE
