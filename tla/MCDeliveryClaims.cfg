SPECIFICATION Spec
CONSTANTS
    Contender = {c1, c2, c3, c4}
    NoToken = NoToken
SYMMETRY Symmetry
CHECK_DEADLOCK FALSE
INVARIANTS
    TypeOK
    NoDuplicateRun
    ClaimKeepsDoorClosed
    AtomicClosedForAReason
PROPERTIES
    ImplementsClaimRegister
