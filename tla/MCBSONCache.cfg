\* Every small file, well formed or not.
CONSTANTS
    Files <- MCFiles
    MaxDocs = 2
    MaxBytes = 9
    MaxChain = 4
    MaxObjSize = 3
    LengthBytes = 2
SPECIFICATION FairSpec
INVARIANTS TypeOK DocsArePrefixOfFile CompleteIffAllSeen WellFormedFileIsSafe
PROPERTIES LoadingOnlyExtends LoadingFinishes LoadToReturns
\* After an exception or a fault the process is gone.
CHECK_DEADLOCK FALSE
