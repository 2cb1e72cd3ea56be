\* Two agents, on one session or two; two messages, a failure.
SPECIFICATION Spec
CONSTANTS
    User = {u1, u2}
    Session = {s1, s2}
    Model = {m1}
    Tool = {t1}
    NoTool = NoTool
    MaxMessages = 2
    MaxFailures = 1
    MaxOpens = 2
INVARIANTS
    IdNamesItsMessage
    AFailureCostsTwoCalls
    EveryReferenceIsMet
    SchemaIsWhole
PROPERTY ImplementsSessionLog
SYMMETRY Symmetry
CHECK_DEADLOCK FALSE
