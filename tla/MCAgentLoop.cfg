\* Two turns, each of one round or, for an agent that approves by itself, two;
\* a tool, a failed write, a death of the process.
SPECIFICATION Spec
CONSTANTS
    MaxIterations = 1
    MaxIdleTurns = 2
    MaxTurns = 2
    MaxRounds = 2
    MaxTools = 1
    MaxInjections = 2
    MaxFailures = 1
    MaxCrashes = 1
INVARIANTS
    SentIsStored
    SystemPromptOnce
    DoneIsOfThisTurn
    ToolsAreRecorded
    InjectionsInOrder
    StopEndsTheLoop
PROPERTY TurnEnds
CHECK_DEADLOCK FALSE
