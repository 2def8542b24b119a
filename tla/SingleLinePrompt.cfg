\* Characters of one to three bytes, every sequence of editing keys.
CONSTANTS
    Widths = {1, 2, 3}
    MaxEntered = 7
SPECIFICATION Spec
INVARIANTS ColumnIsInsideText BytesKeepKeyOrder
