\* Searches typed, repeated and deferred while the file loads, in two renderings
\* and with rows longer than the window is wide.
CONSTANTS
    N = 6
    Modes <- TwoModes
    OnelineRows <- Uniform6
    OtherRows <- Uneven6
    Pos <- MCPos
    Width <- MCWidth
    Throws = {4}
    Cols = 1
    Batch = 2
    Heights = {4}
    Patterns <- MCPatterns
    MQLPatterns <- MCMQLPatterns
    ValidPatterns <- MCValidPatterns
    Matches <- MCMatches
    Users <- SearchUsers
    MaxStartLine = 12
    MaxLater = 2
SPECIFICATION FairSpec
INVARIANTS SearchIsPending LoaderRunsUntilComplete HangsOnlyPastTheEnd
PROPERTIES SearchEnds JumpToEndIsServed JumpLandsOnGoal OnscreenMatchGetsCursor
\* The program stops, and idles when the run allows no further input.
CHECK_DEADLOCK FALSE
