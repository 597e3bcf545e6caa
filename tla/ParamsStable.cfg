SPECIFICATION Spec
CONSTANTS
    DelayBase = 2
    InitSize = 4
    MinSize = 3
    BlockChanges <- UpToTwo
    MaxGap = 1
    MaxRound = 8
    MaxChanges = 2
CHECK_DEADLOCK FALSE
INVARIANTS ParamsAreStable
