SPECIFICATION Spec
CHECK_DEADLOCK FALSE
CONSTANTS
    f1 = f1
    f2 = f2
    committed = committed
    edited = edited
    File <- MCFile
    Content <- MCContent
    Committed = committed
    Policy <- MCPolicy
    MaxAttempts = 2
    MaxRepeats = 1
    MaxRuns = 2
INVARIANTS
    TypeOK
    ChangesAuthorized
    RiskGated
    VerifiedAsTested
    CompletedIsVerified
PROPERTIES
    ImplementsLifecycle
    RunEnds
