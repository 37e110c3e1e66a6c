SPECIFICATION FairSpec
CONSTANTS
    a = a
    b = b
    a1 = a1
    b1 = b1
    Name <- OneName
    Row <- OneRow
    NameOf <- OneNameOf
    Deps <- OneDeps
    Outcome = {"partial", "pass", "fail", "late"}
    MaxFaults = 2
INVARIANTS
    ConclusionsSound
PROPERTIES
    UnitStartsOnce
    EvidenceOutlivesTheExecution
    
