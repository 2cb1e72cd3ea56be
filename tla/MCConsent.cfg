\* Four requests: two can time out in front of one that waits.
SPECIFICATION Spec
CONSTANT MaxRequests = 4
INVARIANTS
    AllowIsApproved
    AcceptedIsNotDenied
PROPERTY EveryRequestIsAnswered
CHECK_DEADLOCK FALSE
