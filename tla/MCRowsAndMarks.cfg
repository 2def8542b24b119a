\* Documents of one to four rows in two renderings, a document that is no log
\* line, windows of two and three lines; marks in the window of three lines.
CONSTANTS
    N = 4
    Modes <- TwoModes
    OnelineRows <- Uneven4
    OtherRows <- Uniform4
    Pos <- MCPos
    Width <- MCWidth
    Throws = {3}
    Cols = 1
    Batch = 2
    Heights = {2, 3}
    Patterns = {}
    MQLPatterns = {}
    ValidPatterns = {}
    Matches <- MCMatches
    Users <- ScrollOrMarkUsers
    MaxStartLine = 6
    MaxLater = 1
SPECIFICATION Spec
CONSTRAINT MarksWithinBounds
INVARIANTS LayoutIsFresh ClicksHitDrawnDocs IndicesAreLoaded TabsAreInverse
PROPERTIES DragMakesPreviewPermanent PageDownIsContiguous PageUpIsContiguous
\* The program stops, and idles when the run allows no further input.
CHECK_DEADLOCK FALSE
