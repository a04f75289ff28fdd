SPECIFICATION FairSpec
CONSTANTS
    Commands = {c1, c2}
    MaximumConcurrency = 1
    Behaviours <- MCTrees
PROPERTIES UsesLimiter EveryCommandSettles TerminatedTreesEnd ShutdownEnds
CHECK_DEADLOCK FALSE
