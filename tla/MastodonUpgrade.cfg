SPECIFICATION FairSpec
CONSTANTS
    SecondGuest = TRUE
    FaultSets = {{"exit", "partial", "conflict", "drop"}, {"exit", "conflict", "restart", "checkout"}, {"exit", "partial", "conflict", "drop", "restart"}}
    MaxRuns = 3
INVARIANTS ServesThroughPool CodeFitsSchema OutcomeHonest
PROPERTIES LocalChangesKept ProtectedBeforeChange RunsEnd
CHECK_DEADLOCK FALSE
