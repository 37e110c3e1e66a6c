SPECIFICATION FairSpec
CONSTANTS
    Target = {1, 2, 3, 4}
    Workloads <- AllWorkloads
    MinReserve = 1
    MaxReserve = 2
    ColdStart = 2
    Recent = 2
    LaunchBatch = 2
    MaxFaults = 1
INVARIANTS
    HostWithinLimits
    FairShare
PROPERTIES
    WaitsAreExplained
    QueueDrains
