\* Elections of a fresh set; one more election after two diverging primaries,
\* with clients writing in its term.
CONSTANTS
    A = A
    B = B
    C = C
    Nodes = {A, B, C}
    Electable = {A, B, C}
    MaxTerm = 3
    MaxLen = 3
    WriteTerms = {3}
SPECIFICATION BoundedSpec
VIEW RelevantState
INVARIANTS
    TypeOK OnePrimaryUnlessVoteWentBack
    PrimaryHasCommittedEntries CommitPointIsCommitted RollbackKeepsCommitted
\* The bounds stop the set.
CHECK_DEADLOCK FALSE
