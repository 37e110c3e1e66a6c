SPECIFICATION Spec
CONSTANTS
    a = a
    b = b
    c = c
    a1 = a1
    a2 = a2
    b1 = b1
    c1 = c1
    Op = {o1, o2}
    Name <- ChainNames
    Row <- ChainRows
    NameOf <- ChainNameOf
    Deps <- ChainDeps
    Plan <- ChainPlans
    Required <- ChainRequired
    Package <- ChainPackages
    Claim <- AllClaims
SYMMETRY OpSymmetry
INVARIANTS
    TypeOK
    TerminalRunSettled
    DependencyOrder
    ReconciledRunsProgress
    ConclusionMatchesMeasurement
PROPERTIES
    RunsKeepContract
