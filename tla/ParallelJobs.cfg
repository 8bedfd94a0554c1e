SPECIFICATION Spec
CONSTANTS
    N = 3
    Token <- MCToken
    MaxReuse = 2
INVARIANTS
    TypeOK
    ReapedOnce
    FailuresNamed
PROPERTIES
    ImplementsBatch
CHECK_DEADLOCK FALSE
