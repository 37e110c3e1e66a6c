SPECIFICATION FairSpec
CONSTANTS
    Cap = 2
    Redacted = 1
    MaxOutput = 4
INVARIANTS
    CountersAreTruthful
PROPERTIES
    ExecutionSettles
CHECK_DEADLOCK FALSE
