CONSTANTS
    MaxReviews = 2 MaxWorkers = 2
    Life = 1
    MaxTime = 3 MaxReorgs = 1 MaxOthers = 1 MaxFaults = 1
SPECIFICATION StoriesSpec
INVARIANTS TrainingTypeOK SettledIsTrue
PROPERTIES ReleasedIsOver HoldsAreReleased
CHECK_DEADLOCK FALSE
