CONSTANTS
    Outputs = {"own", "file", "audit"}
    OptionLists <- MCOptionLists
    Levels <- MCLevels
    FrontSize = 1
    MaxAttrs = 2
    MaxLoggers = 3
SPECIFICATION Spec
INVARIANTS TypeOK NoCrosstalk EverySinkReached
PROPERTY ErrorsAreJoined
CHECK_DEADLOCK FALSE
