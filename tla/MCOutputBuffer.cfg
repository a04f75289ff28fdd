SPECIFICATION Spec
CONSTANT Cases <- MCCases
INVARIANTS Inv TextFits
CHECK_DEADLOCK FALSE
