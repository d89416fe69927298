CONSTANTS
    Outputs = {"own", "file", "audit"}
    OptionLists <- MCMirrored
    Levels = {0}
    FrontSize = 1
    MaxAttrs = 1
    MaxLoggers = 2
SPECIFICATION Spec
INVARIANT TraceIdIsTopLevel
CHECK_DEADLOCK FALSE
