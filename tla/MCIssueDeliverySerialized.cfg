SPECIFICATION Spec
CONSTANTS
    c1 = c1
    c2 = c2
    c3 = c3
    p1 = p1
    p2 = p2
    Call = {c1, c2, c3}
    Process = {p1, p2}
    ProcessOf <- MCProcessOf
    NoCall = NoCall
CHECK_DEADLOCK FALSE
INVARIANTS
    RegistrySerializes
