SPECIFICATION Spec
CONSTANTS
    Rebase = {TRUE, FALSE}
    MaxFaults = 3
INVARIANTS
    RetainedDataSafe
    OthersSeeSettledHost
PROPERTIES
    OutcomesAreTrue
    RollbackEnds
