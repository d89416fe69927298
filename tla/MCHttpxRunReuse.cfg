CONSTANTS
    Conns = {c1, c2}
    Timeouts <- MCTimeouts
    DefaultShutdownTimeout = 5
    MaxRuns = 2
    OwnerMayShutdown = FALSE
SPECIFICATION Spec
INVARIANT NilMeansGracefulShutdown
CHECK_DEADLOCK FALSE
