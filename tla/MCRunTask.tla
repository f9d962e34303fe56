------------------------------ MODULE MCRunTask ------------------------------
(***************************************************************************)
(* Tasks that share one repository's checkout, one slot per repository,    *)
(* and one place in the queue.                                             *)
(***************************************************************************)
EXTENDS RunTask, TLC

CONSTANTS t1, t2, t3, alice, repo

Symmetry == Permutations(Task)

MCRepositoryOf == [t \in Task |-> repo]

=============================================================================
