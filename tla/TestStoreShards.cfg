SPECIFICATION Spec
CONSTANTS
    a = a
    b = b
    c = c
    a1 = a1
    a2 = a2
    b1 = b1
    c1 = c1
    Op = {o1, o2, o3}
    Name <- ShardNames
    Row <- ShardRows
    NameOf <- ShardNameOf
    Deps <- ShardDeps
    Plan <- ShardPlans
    Required <- ShardRequired
    Package <- ShardPackages
    Claim <- ShardClaims
SYMMETRY OpSymmetry
INVARIANTS
    OneActiveRunPerFingerprint
    AttestedShardsPassed
    JournalBindsOperation
    EvidenceUsedOnce
