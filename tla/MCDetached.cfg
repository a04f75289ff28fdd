SPECIFICATION FairSpec
CONSTANTS
    Commands = {c1}
    MaximumConcurrency = 1
    Behaviours <- MCEscaper
PROPERTIES ParentExitAnswers
CHECK_DEADLOCK FALSE
