\* Every text of up to nine bytes, cut with no room, with room for tags alone and
\* with room for tags, hint and some bytes; blocks of none, of less than a cluster
\* and of several, and a cap between them.  An unsaved message cannot be read.
SPECIFICATION Spec
CONSTANTS
    Limits = {0, 3, 8}
    MaxRead = 3
    Blocks = {0, 1, 2, 5}
    TagBytes = 1
    HintBytes = 1
    MaxBytes = 9
INVARIANTS
    CutFits
    BlocksAreWhole
PROPERTIES
    NothingIsSkipped
    EveryReadAdvances
CHECK_DEADLOCK FALSE
