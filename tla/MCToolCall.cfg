CONSTANTS
    Calls = {1, 2}
    Stacks <- MCStacks
    Answers <- MCAnswers
    DefaultLimit = 6
    RejectionSize = 3
    TimeoutSize = 2
SPECIFICATION Spec
INVARIANTS TypeOK NothingOversized ResultIsExact
CHECK_DEADLOCK FALSE
