\* Three lockers, two of them in one partition.
CONSTANTS
    Lockers = {1, 2, 3}
    NumPartitions = 2
    Priorities = {FALSE, TRUE}
    MaxRecursion = 2
    PriorityNesters = {1}
SPECIFICATION BoundedSpec
INVARIANTS NoConflictingGrants CountsMatchLists PartitionedMeansIntent NobodyWaitsForNothing
PROPERTY WaitersAreServed
\* Two conversions can wait for each other, and a corrupt state is the last one.
CHECK_DEADLOCK FALSE
