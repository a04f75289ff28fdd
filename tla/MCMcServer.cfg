SPECIFICATION Spec
CONSTANTS
    MaximumRetainedBytes = 4
    TimeToLive = 2
    MaxTime = 3
    Calls = {c1, c2}
    Streams <- MCStreams
    LegacyTools = FALSE
    MaxCommands = 3
    MaxIssued = 2
SYMMETRY CallSymmetry
INVARIANTS Inv AnswersAreTrue ReadableUntilExpiry RefusedOnlyWhenFull
CHECK_DEADLOCK FALSE
