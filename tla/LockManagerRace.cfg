\* Two lockers that convert and give up.
CONSTANTS
    Lockers = {1, 2}
    NumPartitions = 2
    Priorities = {FALSE}
    MaxRecursion = 2
SPECIFICATION Spec
INVARIANT ReleasedRequestsAreUnreferenced
CHECK_DEADLOCK FALSE
