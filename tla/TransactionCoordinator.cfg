\* Three shards, so that one of them can be neither coordinator nor the one that
\* refuses, and three failovers, so that a recovering coordinator fails over again.
CONSTANTS
    Shards = {"A", "B", "C"}
    Coord = "A"
    MaxFailovers = 3
SPECIFICATION FairSpec
INVARIANTS AnswersAreTrue OneDecisionIsSent PreparedIsRemembered
PROPERTIES ImplementsAtomicCommit InDoubtIsResolved
\* The transaction ends.
CHECK_DEADLOCK FALSE
