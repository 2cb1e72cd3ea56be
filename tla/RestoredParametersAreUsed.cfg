\* One agent that opens a session twice, with one model and with another.
SPECIFICATION Spec
CONSTANTS
    User = {u1}
    Session = {s1}
    Model = {m1, m2}
    Tool = {t1}
    NoTool = NoTool
    MaxMessages = 0
    MaxFailures = 0
    MaxOpens = 2
INVARIANT RestoredParametersAreUsed
CHECK_DEADLOCK FALSE
