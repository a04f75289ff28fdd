SPECIFICATION FairSpec
CONSTANTS
    NumSteps = 4
    RunStatuses = {"success", "failed"}
INVARIANTS Inv DependenciesFirst NeverStuck AnsweredOnce SkipsOnlyDescendants RecursionComputesSets
PROPERTIES EventuallyAnswered ImplementsContract
CHECK_DEADLOCK FALSE
