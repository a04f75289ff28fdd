SPECIFICATION Spec
CONSTANTS
    Commands = {c1}
    MaximumConcurrency = 1
    Behaviours <- MCDaemon
INVARIANTS NoTreeOutlivesServer
CHECK_DEADLOCK FALSE
