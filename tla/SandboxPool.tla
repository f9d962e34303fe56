----------------------------- MODULE SandboxPool ------------------------------
(***************************************************************************)
(* What RunnerPool of packages/runner/src/sandbox.ts promises the calls of *)
(* acquire() and the provider's bill: a call takes a slot within the       *)
(* quotas, keeps it until its sandbox is known to be down, and is answered *)
(* once and truly.  How a stop is shared, retried or timed is left open.   *)
(***************************************************************************)
EXTENDS Integers, FiniteSets

CONSTANTS Lease, Repository, RepositoryOf, MaxActive, MaxActivePerRepository

VARIABLES
    taken,    \* the calls that occupy a slot
    up,       \* the sandboxes that run at the provider
    orphans,  \* the sandboxes whose pool died
    closed,   \* whether the pool was disposed
    answer    \* what each call was told

svars == <<taken, up, orphans, closed, answer>>

\* The sandboxes that are coming up: their calls wait for them.
Coming == {l \in taken \ up : answer[l] = "none"}

MayTake(l) ==
    /\ Cardinality(taken) < MaxActive
    /\ Cardinality({k \in taken : RepositoryOf[k] = RepositoryOf[l]}) < MaxActivePerRepository

Init ==
    /\ taken = {} /\ up = {} /\ orphans = {}
    /\ closed = FALSE
    /\ answer = [l \in Lease |-> "none"]

Take(l) ==
    /\ answer[l] = "none" /\ l \notin taken \union orphans
    /\ ~closed
    /\ MayTake(l)
    /\ taken' = taken \union {l}
    /\ UNCHANGED <<up, orphans, closed, answer>>

\* Nothing came up: the slot is free again.
Miss(l) ==
    /\ l \in Coming
    /\ taken' = taken \ {l}
    /\ answer' = [answer EXCEPT ![l] = "failed"]
    /\ UNCHANGED <<up, orphans, closed>>

\* The sandbox is up; the call gets it unless the pool was disposed meanwhile.
ComeUp(l) ==
    /\ l \in Coming
    /\ up' = up \union {l}
    /\ answer' = IF closed THEN answer ELSE [answer EXCEPT ![l] = "leased"]
    /\ UNCHANGED <<taken, orphans, closed>>

\* A call that still waits for a sandbox that is up is one the disposal refuses.
Refusable(l) == l \in taken \ Coming /\ (answer[l] = "none" => closed)

\* The sandbox is known to be down, and only now is its slot free.
GiveBack(l) ==
    /\ Refusable(l)
    /\ taken' = taken \ {l}
    /\ up' = up \ {l}
    /\ answer' = IF answer[l] = "none" THEN [answer EXCEPT ![l] = "disposed"] ELSE answer
    /\ UNCHANGED <<orphans, closed>>

\* Nobody knows whether the sandbox is down: the slot stays taken.
Linger(l) ==
    /\ Refusable(l)
    /\ up' \in {up, up \ {l}}
    /\ answer' = IF answer[l] = "none" THEN [answer EXCEPT ![l] = "disposedStillLive"] ELSE answer
    /\ UNCHANGED <<taken, orphans, closed>>

Close == closed' = TRUE /\ UNCHANGED <<taken, up, orphans, answer>>

\* The process dies; what runs or comes up and is not stopped by a request under way is orphaned.
Die ==
    /\ \E more \in SUBSET Coming, gone \in SUBSET (taken \ Coming) :
        /\ up' = (up \union more) \ gone
        /\ orphans' = orphans \union ((up \union Coming) \ gone)
    /\ taken' = {}
    /\ closed' = FALSE
    /\ UNCHANGED answer

Next ==
    \/ Close
    \/ Die
    \/ \E l \in Lease : Take(l) \/ Miss(l) \/ ComeUp(l) \/ GiveBack(l) \/ Linger(l)

Spec == Init /\ [][Next]_svars

=============================================================================
