---------------------------- MODULE MCRunnerPool -----------------------------
(***************************************************************************)
(* Two acquire() calls for one repository and one for another, against     *)
(* limits that let two sandboxes exist, one per repository: each quota can *)
(* refuse, and two leases can be in any two phases at once.                *)
(***************************************************************************)
EXTENDS RunnerPool

CONSTANTS l1, l2, l3, repoA, repoB

MCRepositoryOf == [l \in {l1, l2, l3} |-> IF l = l3 THEN repoB ELSE repoA]

=============================================================================
