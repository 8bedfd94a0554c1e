SPECIFICATION Spec
CONSTANTS
    Templates <- MCTemplates
    STREAMS = 2
    COUNT = 2
    Seeds <- MCSeeds
    OrderSeed = 11
    Mult = 3
    MAXINT = 31
INVARIANTS
    StreamsAreComplete
    OncePerQuery
    ReferencesAgree
