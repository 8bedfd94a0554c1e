SPECIFICATION Spec
CONSTANTS
    PropagationTimeout = 24
    Lags <- MCLags
    SgAttempts = 5
    EniLag = 4
    MaxFaults = 3
INVARIANT TeardownAlwaysRuns
CHECK_DEADLOCK FALSE
