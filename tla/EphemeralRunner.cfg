SPECIFICATION Spec
CONSTANTS
    PropagationTimeout = 24
    Lags <- MCLags
    SgAttempts = 5
    EniLag = 4
    MaxFaults = 3
INVARIANTS
    TypeOK
    HandoffIsComplete
    CleanUpLeavesNothing
PROPERTIES
    Terminates
    HandoffIsTornDown
CHECK_DEADLOCK FALSE
