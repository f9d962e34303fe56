SPECIFICATION Spec
CONSTANTS
    l1 = l1
    l2 = l2
    l3 = l3
    repoA = repoA
    repoB = repoB
    Lease = {l1, l2, l3}
    Repository = {repoA, repoB}
    RepositoryOf <- MCRepositoryOf
    MaxActive = 2
    MaxActivePerRepository = 1
    MaxCrashes = 1
INVARIANTS
    TypeOK
    WithinQuota
    CleanupPath
    StopShared
    AbortHonest
PROPERTIES
    EverySandboxStops
    ImplementsSandboxPool
