CONSTANTS
    Nodes = {n1, n2, n3}
    Electable = {n1, n2, n3}
    MaxTerm = 2
    MaxLen = 1
    WriteTerms = {}
SPECIFICATION Spec
INVARIANT OnePrimaryPerTerm
CHECK_DEADLOCK FALSE
