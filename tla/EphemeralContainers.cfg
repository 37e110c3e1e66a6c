SPECIFICATION FairSpec
CONSTANTS
    Ttl = {2}
    Grace = 1
    MaxFaults = 2
CHECK_DEADLOCK FALSE
INVARIANTS
    NothingOutlivesTheRun
    RunningMeansUsable
PROPERTIES
    RenewalIsAllOrNothing
    RunEnds
