SPECIFICATION FairSpec
CONSTANTS
    MaxCalls = 3
    MaxExecCalls = 2
    LocalConcurrency = 1
INVARIANTS Inv PendingIsSomewhere NoCommandIsForgotten
PROPERTIES EndIsFinal UsesLimiter CallsAreAnswered
CHECK_DEADLOCK FALSE
