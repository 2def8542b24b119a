\* computeVisible in every position of two small files.
CONSTANTS
    N = 4
    Modes <- TwoModes
    OnelineRows <- Uneven4
    OtherRows <- Uneven4b
    Pos <- MCPos
    Width = {}
    Throws = {3}
    Cols = 1
    Calls <- MCReachableCalls
    MaxNegative = 2
    MaxStartLine = 6
    MaxHeight = 4
SPECIFICATION Spec
INVARIANT LoopComputesLayout
PROPERTY LoopTerminates
\* The call returns.
CHECK_DEADLOCK FALSE
