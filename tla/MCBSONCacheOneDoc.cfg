\* Files of one document are included in the claim.
CONSTANTS
    Files <- MCFiles
    MaxDocs = 2
    MaxBytes = 9
    MaxChain = 4
    MaxObjSize = 3
    LengthBytes = 2
SPECIFICATION FairSpec
INVARIANT AnyWellFormedFileIsSafe
\* After an exception or a fault the process is gone.
CHECK_DEADLOCK FALSE
