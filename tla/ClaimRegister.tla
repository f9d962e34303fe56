---------------------------- MODULE ClaimRegister -----------------------------
(***************************************************************************)
(* What DeliveryClaimStore of packages/api/src/control-plane.ts promises   *)
(* for one delivery: a register that one caller at a time holds, with the  *)
(* outcome its holder recorded.  DeliveryClaims implements it, and         *)
(* IssueDelivery is built over it.                                         *)
(*                                                                         *)
(* A caller may be refused although nobody holds the claim ("under a       *)
(* pathological interleaving every contender may lose"), and a forgetful   *)
(* driver, one without setItemIfAbsent, may lose a recorded outcome.       *)
(***************************************************************************)
CONSTANTS
    Contender,  \* callers
    NoHolder    \* nobody's claim stands

VARIABLES
    forgetful,  \* whether the driver may lose a recorded outcome
    holder,     \* whose claim stands
    outcome,    \* "none", or "recorded" by the holder
    answer      \* what a caller that may not run was told

rvars == <<forgetful, holder, outcome, answer>>

Init ==
    /\ forgetful \in BOOLEAN
    /\ holder = NoHolder
    /\ outcome = "none"
    /\ answer = [c \in Contender |-> "none"]

\* claim(), answered { claimed: true }
Claim(c) ==
    /\ holder = NoHolder
    /\ holder' = c
    /\ UNCHANGED <<forgetful, outcome, answer>>

\* claim(), answered with the recorded outcome or with null.
Refuse(c) ==
    /\ answer[c] = "none"
    /\ holder # c
    /\ answer' = [answer EXCEPT ![c] = IF outcome = "recorded" THEN "replayed" ELSE "ignored"]
    /\ UNCHANGED <<forgetful, holder, outcome>>

\* complete(): only the holder records, once.
Record(c) ==
    /\ holder = c
    /\ outcome = "none"
    /\ outcome' = "recorded"
    /\ UNCHANGED <<forgetful, holder, answer>>

\* release(): only an unfinished claim is discarded.
Release(c) ==
    /\ holder = c
    /\ outcome = "none"
    /\ holder' = NoHolder
    /\ UNCHANGED <<forgetful, outcome, answer>>

Forget ==
    /\ forgetful
    /\ outcome = "recorded"
    /\ outcome' = "none"
    /\ UNCHANGED <<forgetful, holder, answer>>

Next == Forget \/ \E c \in Contender : Claim(c) \/ Refuse(c) \/ Record(c) \/ Release(c)

Spec == Init /\ [][Next]_rvars

=============================================================================
