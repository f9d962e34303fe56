SPECIFICATION Spec
CONSTANTS
    a1 = a1
    a2 = a2
    a3 = a3
    a4 = a4
    b = b
    c = c
    repoA = repoA
    repoB = repoB
    repoC = repoC
    Job = {a1, a2, a3, a4, b, c}
    Repository = {repoA, repoB, repoC}
    RepositoryOf <- MCRepositoryOf
    MaxConcurrent = 2
    MaxQueued = 2
    MaxConcurrentPerRepository = 1
INVARIANTS
    TypeOK
    QuotasRespected
    WorkConserving
    QueueBounded
PROPERTIES
    NoUnfairOvertaking
    EveryQueuedJobStarts
    ImplementsAdmissionControl
