CONSTANTS
    Conns = {c1, c2}
    Timeouts <- MCTimeouts
    DefaultShutdownTimeout = 5
    MaxRuns = 2
    OwnerMayShutdown = TRUE
SPECIFICATION Spec
INVARIANTS TypeOK CleanShutdownIsDrained FailureSurfaces NothingLeftBehind
PROPERTIES OnlyNegativeTimeoutSkipsGrace CancelledRunReturns ServeReturnEndsRun ImplementsContract
CHECK_DEADLOCK FALSE
