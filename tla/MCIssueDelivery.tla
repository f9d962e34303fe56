-------------------------- MODULE MCIssueDelivery ---------------------------
(***************************************************************************)
(* Two deliveries of one event to one process and one to another.          *)
(***************************************************************************)
EXTENDS IssueDelivery, TLC

CONSTANTS c1, c2, c3, p1, p2

MCProcessOf == c1 :> p1 @@ c2 :> p1 @@ c3 :> p2

=============================================================================
