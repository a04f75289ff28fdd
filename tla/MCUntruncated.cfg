SPECIFICATION Spec
CONSTANT Cases <- MCBroken
INVARIANTS UntruncatedIsWhole
CHECK_DEADLOCK FALSE
