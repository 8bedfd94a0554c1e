SPECIFICATION Spec
CONSTANTS
    Plays <- MCPlays
    Attempts = 2
    MaxDisturbances = 1
INVARIANT TypeOK
PROPERTIES
    SuccessIsTrue
    GoalIsReached
