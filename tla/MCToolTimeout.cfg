\* No caller's deadline at all is one that lies beyond the clock: 99.
CONSTANTS
    N = 3
    Durations <- MCDurations
    DefaultTimeout = 2
    CallerDeadlines = {1, 99}
    MaxEnterTime = 1
    MaxTime = 3
SPECIFICATION Spec
INVARIANTS TypeOK HonestBlame NoBareContextError ContextsReleased
PROPERTIES SettledIsFinal BoundedCallEnds
CHECK_DEADLOCK FALSE
