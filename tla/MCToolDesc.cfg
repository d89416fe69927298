CONSTANTS
    Names = {1, 2, 3}
    Summaries <- MCSummaries
    Details <- MCDetails
    RawTools <- MCRawTools
    Values <- MCValues
    Keys <- MCKeys
    NoParams <- MCNoParams
    MaxNesting = 8
    nesting <- Levels
    ParamSchemas <- MCSchemas
    Budgets <- MCBudgets
    SummaryMax = 2
    MaxTools = 3
    DefNames = {"a"}
    Header <- MCHeader
    DocTools = 2
    DocSchemas <- MCDocSchemas
    MaxAsserts = 2
SPECIFICATION DocSpec
INVARIANTS TypeOK ReportIsExact DescribedToolsFit EveryDescriptionCapped ParamsInOrder PageReadsBack AssertIsExact
PROPERTIES PageIsStable
CHECK_DEADLOCK FALSE
