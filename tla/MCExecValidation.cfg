SPECIFICATION Spec
CONSTANTS
    Ids = {a, b, c}
    Unknown = unknown
    MaxSteps = 3
    MaxDependencies = 2
    BatchSizes = {2, 3}
    Values = {2, 13}
SYMMETRY IdSymmetry
INVARIANTS Inv AcceptsExactlyAcyclic DefaultsAreAccepted
CHECK_DEADLOCK FALSE
