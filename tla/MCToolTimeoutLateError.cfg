\* No caller's deadline at all is one that lies beyond the clock: 99.
CONSTANTS
    N = 1
    Durations <- MCDurations
    DefaultTimeout = 2
    CallerDeadlines = {99}
    MaxEnterTime = 1
    MaxTime = 3
SPECIFICATION Spec
INVARIANT HandlerErrorSurvives
CHECK_DEADLOCK FALSE
