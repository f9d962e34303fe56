-------------------------- MODULE MCDeliveryClaims ---------------------------
(***************************************************************************)
(* Four deliveries of one event: one can own and release, one be slow from *)
(* before that release, and two contend after it.                          *)
(***************************************************************************)
EXTENDS DeliveryClaims, TLC

Symmetry == Permutations(Contender)

=============================================================================
