SPECIFICATION Spec
CONSTANTS
    t1 = t1
    t2 = t2
    t3 = t3
    alice = alice
    repo = repo
    Clean = Clean
    None = None
    Misread = Misread
    Task = {t1, t2, t3}
    Repository = {repo}
    RepositoryOf <- MCRepositoryOf
    Reviewer = {alice}
    MaxConcurrent = 2
    MaxQueued = 1
    MaxConcurrentPerRepository = 1
    MaxEvents = 2
    MaxFaults = 1
SYMMETRY Symmetry
CHECK_DEADLOCK FALSE
INVARIANT SnapshotExact
