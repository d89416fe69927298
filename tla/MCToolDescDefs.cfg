CONSTANTS
    Names = {1, 2, 3}
    Summaries <- MCSummaries
    Details <- MCDetails
    RawTools <- MCRawTools
    Values <- MCValues
    Keys <- MCKeys
    NoParams <- MCNoParams
    MaxNesting = 8
    nesting <- Levels
    ParamSchemas <- MCSchemas
    Budgets <- MCBudgets
    SummaryMax = 2
    MaxTools = 1
    DefNames = {"description"}
    Header <- MCHeader
    DocTools = 0
    DocSchemas <- MCDocSchemas
    MaxAsserts = 0
SPECIFICATION DocSpec
INVARIANT EveryDescriptionCapped
CHECK_DEADLOCK FALSE
