SPECIFICATION Spec
CONSTANTS
    a = a
    b = b
    a1 = a1
    b1 = b1
    Name <- TwoNames
    Row <- TwoRows
    NameOf <- TwoNameOf
    Deps <- TwoDeps
    Outcome = {"pass", "fail", "contested"}
    MaxFaults = 1
INVARIANTS
    UnitsMatchRun
PROPERTIES
    RunKeepsContract
