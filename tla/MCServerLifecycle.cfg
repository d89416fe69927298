CONSTANTS
    Calls = {c1, c2}
    Setups <- MCSetups
    DefaultShutdownTimeout = 2
    ProbePeriod = 2
SPECIFICATION Spec
INVARIANTS TypeOK NoCallCut NoCallRefused SpansExported
PROPERTY ExitsInTime
