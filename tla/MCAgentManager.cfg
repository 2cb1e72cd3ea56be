\* Two spawns, under one name or two, a sub-agent that feeds its parent through
\* the manager, and two other calls.  Handles of automatic agents are dropped.
SPECIFICATION Spec
CONSTANTS
    Ids = {"a", "b"}
    Parents = {"a"}
    Callers = {c1}
    Dropped = {"auto"}
    MaxSpawns = 2
    MaxCalls = 2
    MaxFeedback = 1
INVARIANTS
    EndIsOfItsOwnThread
    AnnouncedIsRecorded
    WaitingHasAReason
PROPERTY EveryCallReturns
CHECK_DEADLOCK FALSE
