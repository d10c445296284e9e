\* A goal m:g of a rule is not among the references of g.
SPECIFICATION RequestsSpec
CONSTANTS
    Files <- MCFiles
    None = None
INVARIANT EveryGoalIsReferenced
CHECK_DEADLOCK FALSE
