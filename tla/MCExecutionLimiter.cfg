SPECIFICATION FairSpec
CONSTANTS
    Clients = {c1, c2, c3, c4}
    MaximumConcurrency = 2
INVARIANTS Inv
PROPERTIES AbortedNeverGranted NoGrantAfterShutdown NoOvertaking NoStarvation
