SPECIFICATION FairSpec
CONSTANTS
    CrashLimit = 1
    Epochs = {1, 2}
    MaxAttempts = 1
    MaxPolicy = 2
    MaxDefinition = 0
    MaxSupervisor = 3
    MaxRestarts = 1
    MaxFaults = 1
    MaxAutostarts = 1
    FenceValues = {TRUE, FALSE}
PROPERTIES
    StopEndsTheProcess
    BrokerServesAgain
CHECK_DEADLOCK FALSE
