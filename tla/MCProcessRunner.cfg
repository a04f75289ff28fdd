SPECIFICATION Spec
CONSTANTS
    Commands = {c1, c2}
    MaximumConcurrency = 1
    Behaviours <- MCAnything
SYMMETRY CommandSymmetry
INVARIANTS Inv AnswersAreComplete
PROPERTIES AbortedIsNeverSpawned NothingAfterTheAnswer
CHECK_DEADLOCK FALSE
