--------------------------- MODULE MCTaskScheduler ---------------------------
(***************************************************************************)
(* Four jobs of one repository and one of each of two others, two slots    *)
(* and one slot per repository: a repository can fill the queue with jobs  *)
(* it may not start while a slot is free, and both limits can bind.        *)
(***************************************************************************)
EXTENDS TaskScheduler

CONSTANTS a1, a2, a3, a4, b, c, repoA, repoB, repoC

MCRepositoryOf ==
    [j \in {a1, a2, a3, a4, b, c} |-> CASE j = b -> repoB [] j = c -> repoC [] OTHER -> repoA]

=============================================================================
