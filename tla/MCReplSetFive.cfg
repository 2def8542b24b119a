CONSTANTS
    A = A
    B = B
    C = C
    D = D
    E = E
    Nodes = {A, B, C, D, E}
    Electable = {A, B, C, D, E}
    MaxTerm = 3
    MaxLen = 4
    WriteTerms = {}
SPECIFICATION LaggingSpec
INVARIANT RollbackStopsAtCommitPoint
CHECK_DEADLOCK FALSE
