SPECIFICATION Spec
CONSTANTS
    CrashLimit = 2
    Epochs = {1, 2}
    MaxAttempts = 2
    MaxPolicy = 2
    MaxDefinition = 0
    MaxSupervisor = 3
    MaxRestarts = 1
    MaxFaults = 1
    MaxAutostarts = 1
    FenceValues = {}
INVARIANTS
    AttemptsConsistent
    ProcessUnderControl
PROPERTIES
    ImplementsStore
CHECK_DEADLOCK FALSE
