SPECIFICATION Spec
CONSTANTS
    Rank <- SmallRank
    Graphs <- SmallGraphSet
    Outputs <- SmallOutputs
CHECK_DEADLOCK FALSE
INVARIANTS
    EveryImportResolves
