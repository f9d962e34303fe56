----------------------------- MODULE RunnerPool ------------------------------
(***************************************************************************)
(* RunnerPool of packages/runner/src/sandbox.ts: leases of hosted          *)
(* sandboxes with a global and a per-repository quota, an expiry timer per *)
(* lease, provider stops shared by concurrent release() calls, retries of  *)
(* failed stops, and disposal that races acquire() calls in flight.        *)
(*                                                                         *)
(* A member of Lease is one acquire() call, the lease it makes and the     *)
(* sandbox behind it.  provider.provision() and provider.stop() are the    *)
(* only awaits, so an action is what runs between two of them: a call up   *)
(* to its await, or the settlement of a provider call with the             *)
(* continuations of everyone who awaits it.                                *)
(***************************************************************************)
EXTENDS Integers, FiniteSets

CONSTANTS
    Lease,                   \* acquire() calls
    Repository,
    RepositoryOf,            \* SandboxRequest.repository of each call
    MaxActive,               \* RunnerPoolOptions.maxActive
    MaxActivePerRepository,  \* RunnerPoolOptions.maxActivePerRepository
    MaxCrashes               \* bound: how often the process dies

ASSUME PoolAssumption ==
    /\ RepositoryOf \in [Lease -> Repository]
    /\ MaxActive \in Nat \ {0}
    /\ MaxActivePerRepository \in Nat \ {0}
    /\ MaxCrashes \in Nat

VARIABLES
    leases,        \* this.leases
    provisioning,  \* acquire() calls that await provider.provision()
    pending,       \* acquire() calls counted by pendingTotal and pendingByRepository
    stopping,      \* the keys of this.stopping
    waiters,       \* the call sites that act on the outcome of the stop of each lease
    stops,         \* provider.stop() calls in flight per lease
    timer,         \* this.expiryTimers, with what the timer was armed for
    disposed,      \* this.disposed
    overdue,       \* leases past their expiresAt
    answer,        \* what each acquire() call returned or threw
    live,          \* sandboxes that run at the provider
    lost,          \* sandboxes whose owning process died
    crashes        \* how often the process died

vars == <<leases, provisioning, pending, stopping, waiters, stops, timer, disposed, overdue,
          answer, live, lost, crashes>>

\* The call sites of release() that act when the stop they await fails: they arm its retry.  A
\* lease's holder and sweepExpired() only pass the failure on.
Retrying == {"expiry", "dispose", "acquire"}

Answer == {"none", "leased", "failed", "disposed", "disposedStillLive"}

Of(r, S) == {l \in S : RepositoryOf[l] = r}

-----------------------------------------------------------------------------

Init ==
    /\ leases = {}
    /\ provisioning = {}
    /\ pending = {}
    /\ stopping = {}
    /\ waiters = [l \in Lease |-> {}]
    /\ stops = [l \in Lease |-> 0]
    /\ timer = [l \in Lease |-> "none"]
    /\ disposed = FALSE
    /\ overdue = {}
    /\ answer = [l \in Lease |-> "none"]
    /\ live = {}
    /\ lost = {}
    /\ crashes = 0

\* Mutant: overlapping acquires are not counted.
MutAcquire(l) ==
    /\ answer[l] = "none" /\ l \notin pending \union lost
    /\ ~disposed
    /\ Cardinality(leases) < MaxActive
    /\ Cardinality(Of(RepositoryOf[l], leases)) < MaxActivePerRepository
    /\ pending' = pending \union {l}
    /\ provisioning' = provisioning \union {l}
    /\ UNCHANGED <<leases, stopping, waiters, stops, timer, disposed, overdue, answer, live,
                   lost, crashes>>

\* acquire() up to the provisioning it awaits: the reservation precedes the await.  A call that
\* a quota or the disposal refuses throws and changes nothing.
Acquire(l) ==
    /\ answer[l] = "none" /\ l \notin pending \union lost
    /\ ~disposed
    /\ Cardinality(leases) + Cardinality(pending) < MaxActive
    /\ Cardinality(Of(RepositoryOf[l], leases)) + Cardinality(Of(RepositoryOf[l], pending))
         < MaxActivePerRepository
    /\ pending' = pending \union {l}
    /\ provisioning' = provisioning \union {l}
    /\ UNCHANGED <<leases, stopping, waiters, stops, timer, disposed, overdue, answer, live,
                   lost, crashes>>

\* provider.provision() rejects: only the reservation is undone.
ProvisionFails(l) ==
    /\ l \in provisioning
    /\ provisioning' = provisioning \ {l}
    /\ pending' = pending \ {l}
    /\ answer' = [answer EXCEPT ![l] = "failed"]
    /\ UNCHANGED <<leases, stopping, waiters, stops, timer, disposed, overdue, live, lost,
                   crashes>>

\* provider.provision() resolves: the lease is tracked, its expiry armed, its reservation dropped.
ProvisionLeases(l) ==
    /\ l \in provisioning
    /\ ~disposed
    /\ provisioning' = provisioning \ {l}
    /\ leases' = leases \union {l}
    /\ live' = live \union {l}
    /\ timer' = [timer EXCEPT ![l] = "expiry"]
    /\ pending' = pending \ {l}
    /\ answer' = [answer EXCEPT ![l] = "leased"]
    /\ UNCHANGED <<stopping, waiters, stops, disposed, overdue, lost, crashes>>

\* Mutant: every release() starts a stop of its own.
MutReleaseAll(S, C) ==
    /\ stopping' = stopping \union S
    /\ stops' = [l \in Lease |-> IF l \in S THEN stops[l] + 1 ELSE stops[l]]
    /\ waiters' = [l \in Lease |-> IF l \in S THEN waiters[l] \union C ELSE waiters[l]]

\* release(l) up to the stop it awaits, for every l in S, with the call sites C (at most one) that
\* act on its failure: a stop in flight is shared, otherwise one starts.
ReleaseAll(S, C) ==
    /\ stopping' = stopping \union S
    /\ stops' = [l \in Lease |-> IF l \in S \ stopping THEN stops[l] + 1 ELSE stops[l]]
    /\ waiters' = [l \in Lease |-> IF l \in S THEN waiters[l] \union C ELSE waiters[l]]

\* Mutants: acquire() arms no retry of its own stop; it throws without awaiting that stop.
MutAbortNoRetry(l) ==
    /\ l \in provisioning
    /\ disposed
    /\ provisioning' = provisioning \ {l}
    /\ leases' = leases \union {l}
    /\ live' = live \union {l}
    /\ ReleaseAll({l}, {})
    /\ UNCHANGED <<pending, timer, disposed, overdue, answer, lost, crashes>>

MutAbortNoWait(l) ==
    /\ l \in provisioning
    /\ disposed
    /\ provisioning' = provisioning \ {l}
    /\ leases' = leases \union {l}
    /\ live' = live \union {l}
    /\ ReleaseAll({l}, {"acquire"})
    /\ answer' = [answer EXCEPT ![l] = "disposed"]
    /\ UNCHANGED <<pending, timer, disposed, overdue, lost, crashes>>

\* provider.provision() resolves after dispose(): acquire() stops the sandbox before it throws,
\* and keeps its reservation meanwhile.
ProvisionAborts(l) ==
    /\ l \in provisioning
    /\ disposed
    /\ provisioning' = provisioning \ {l}
    /\ leases' = leases \union {l}
    /\ live' = live \union {l}
    /\ ReleaseAll({l}, {"acquire"})
    /\ UNCHANGED <<pending, timer, disposed, overdue, answer, lost, crashes>>

\* release() by the lease's holder, or by anyone who read its id from snapshot().
Release(l) ==
    /\ l \in leases
    /\ ReleaseAll({l}, {})
    /\ UNCHANGED <<leases, provisioning, pending, timer, disposed, overdue, answer, live, lost,
                   crashes>>

\* The clock passes expiresAt.
DeadlinePasses(l) ==
    /\ l \in leases \ overdue
    /\ overdue' = overdue \union {l}
    /\ UNCHANGED <<leases, provisioning, pending, stopping, waiters, stops, timer, disposed,
                   answer, live, lost, crashes>>

\* Mutant: a failed automatic stop is not tried again.
MutTimerFires(l) ==
    /\ timer[l] = "retry" \/ (timer[l] = "expiry" /\ l \in overdue)
    /\ timer' = [timer EXCEPT ![l] = "none"]
    /\ ReleaseAll({l} \cap leases, {})
    /\ UNCHANGED <<leases, provisioning, pending, disposed, overdue, answer, live, lost, crashes>>

\* The callback of scheduleExpiry(): for an expiry timer at the deadline, for a retry after
\* expiryRetryMs.
TimerFires(l) ==
    /\ timer[l] = "retry" \/ (timer[l] = "expiry" /\ l \in overdue)
    /\ timer' = [timer EXCEPT ![l] = "none"]
    /\ ReleaseAll({l} \cap leases, {"expiry"})
    /\ UNCHANGED <<leases, provisioning, pending, disposed, overdue, answer, live, lost, crashes>>

\* sweepExpired()
Sweep ==
    /\ leases \cap overdue # {}
    /\ ReleaseAll(leases \cap overdue, {})
    /\ UNCHANGED <<leases, provisioning, pending, timer, disposed, overdue, answer, live, lost,
                   crashes>>

\* dispose(), the first time or again.
Dispose ==
    /\ disposed' = TRUE
    /\ timer' = [l \in Lease |-> "none"]
    /\ ReleaseAll(leases, {"dispose"})
    /\ UNCHANGED <<leases, provisioning, pending, overdue, answer, live, lost, crashes>>

\* Mutant: the settled stop stays in this.stopping.
MutStopSucceeds(l) ==
    /\ stops[l] > 0
    /\ stops' = [stops EXCEPT ![l] = @ - 1]
    /\ waiters' = [waiters EXCEPT ![l] = {}]
    /\ leases' = leases \ {l}
    /\ timer' = [timer EXCEPT ![l] = "none"]
    /\ overdue' = overdue \ {l}
    /\ live' = live \ {l}
    /\ pending' = pending \ {l}
    /\ answer' = [answer EXCEPT ![l] = IF "acquire" \in waiters[l] THEN "disposed" ELSE @]
    /\ UNCHANGED <<stopping, provisioning, disposed, lost, crashes>>

\* provider.stop() resolves: every release() that awaits it goes on, the lease is forgotten.
StopSucceeds(l) ==
    /\ stops[l] > 0
    /\ stops' = [stops EXCEPT ![l] = @ - 1]
    /\ stopping' = stopping \ {l}
    /\ waiters' = [waiters EXCEPT ![l] = {}]
    /\ leases' = leases \ {l}
    /\ timer' = [timer EXCEPT ![l] = "none"]
    /\ overdue' = overdue \ {l}
    /\ live' = live \ {l}
    /\ pending' = pending \ {l}
    /\ answer' = [answer EXCEPT ![l] = IF "acquire" \in waiters[l] THEN "disposed" ELSE @]
    /\ UNCHANGED <<provisioning, disposed, lost, crashes>>

\* Mutant: the lease is forgotten whatever the stop answers.
MutStopFails(l) ==
    /\ stops[l] > 0
    /\ stops' = [stops EXCEPT ![l] = @ - 1]
    /\ stopping' = stopping \ {l}
    /\ waiters' = [waiters EXCEPT ![l] = {}]
    /\ live' \in {live, live \ {l}}
    /\ leases' = leases \ {l}
    /\ timer' = [timer EXCEPT ![l] = "none"]
    /\ pending' = pending \ {l}
    /\ answer' =
         [answer EXCEPT ![l] = IF "acquire" \in waiters[l] THEN "disposedStillLive" ELSE @]
    /\ UNCHANGED <<provisioning, disposed, overdue, lost, crashes>>

\* provider.stop() rejects, with the sandbox stopped nevertheless (the answer was lost) or not:
\* the lease stays, and the call sites that retry arm the retry timer.
StopFails(l) ==
    /\ stops[l] > 0
    /\ stops' = [stops EXCEPT ![l] = @ - 1]
    /\ stopping' = stopping \ {l}
    /\ waiters' = [waiters EXCEPT ![l] = {}]
    /\ live' \in {live, live \ {l}}
    /\ timer' = [timer EXCEPT ![l] = IF waiters[l] # {} THEN "retry" ELSE @]
    /\ pending' = pending \ {l}
    /\ answer' =
         [answer EXCEPT ![l] = IF "acquire" \in waiters[l] THEN "disposedStillLive" ELSE @]
    /\ UNCHANGED <<leases, provisioning, disposed, overdue, lost, crashes>>

\* The process dies and a new one starts with an empty pool.  Stops in flight may still reach the
\* provider, and sandboxes being provisioned may or may not come up.
Crash ==
    /\ crashes < MaxCrashes
    /\ crashes' = crashes + 1
    /\ \E up \in SUBSET provisioning, down \in SUBSET stopping :
        /\ live' = (live \union up) \ down
        /\ lost' = lost \union ((live \union provisioning) \ down)
    /\ leases' = {}
    /\ provisioning' = {}
    /\ pending' = {}
    /\ stopping' = {}
    /\ waiters' = [l \in Lease |-> {}]
    /\ stops' = [l \in Lease |-> 0]
    /\ timer' = [l \in Lease |-> "none"]
    /\ disposed' = FALSE
    /\ UNCHANGED <<overdue, answer>>

Next ==
    \/ Sweep
    \/ Dispose
    \/ Crash
    \/ \E l \in Lease :
        \/ Acquire(l)
        \/ ProvisionFails(l)
        \/ ProvisionLeases(l)
        \/ ProvisionAborts(l)
        \/ Release(l)
        \/ DeadlinePasses(l)
        \/ TimerFires(l)
        \/ StopSucceeds(l)
        \/ StopFails(l)

\* Time passes, timers fire, the provider answers; a stop that is tried again and again succeeds
\* one day (the retry loop is unbounded because nothing less is assumed of the provider).
Fairness ==
    \A l \in Lease :
        /\ WF_vars(DeadlinePasses(l))
        /\ WF_vars(TimerFires(l))
        /\ WF_vars(StopSucceeds(l) \/ StopFails(l))
        /\ SF_vars(StopSucceeds(l))

SafetySpec == Init /\ [][Next]_vars

Spec == SafetySpec /\ Fairness

-----------------------------------------------------------------------------

TypeOK ==
    /\ leases \in SUBSET Lease
    /\ provisioning \in SUBSET pending
    /\ pending \in SUBSET Lease
    /\ stopping \in SUBSET leases
    /\ waiters \in [Lease -> SUBSET Retrying]
    /\ stops \in [Lease -> Nat]
    /\ timer \in [Lease -> {"none", "expiry", "retry"}]
    /\ disposed \in BOOLEAN
    /\ overdue \in SUBSET Lease
    /\ answer \in [Lease -> Answer]
    /\ live \in SUBSET Lease
    /\ lost \in SUBSET Lease
    /\ crashes \in 0..MaxCrashes

\* The sandboxes of this process that exist or may come to exist: never more than the quotas, in
\* all and per repository, whatever is in flight (acquire, release, dispose).
WithinQuota ==
    LET sandboxes == (live \ lost) \union provisioning
    IN  /\ Cardinality(sandboxes) <= MaxActive
        /\ \A r \in Repository : Cardinality(Of(r, sandboxes)) <= MaxActivePerRepository

\* A sandbox the pool no longer tracks does not run: a failed stop, a shared stop or a disposal
\* during provisioning never drops a lease whose sandbox is up.
NoSandboxForgotten == live \ lost \subseteq leases

\* Every tracked lease will be stopped without help from outside: its stop is in flight, its retry
\* is armed, or, unless the pool is disposed, its expiry is armed.
CleanupPath ==
    \A l \in leases :
        \/ l \in stopping
        \/ timer[l] = "retry"
        \/ (timer[l] = "expiry" /\ ~disposed)

\* Concurrent release(), sweep, expiry and dispose calls share one provider stop per lease.
StopShared == \A l \in Lease : stops[l] = (IF l \in stopping THEN 1 ELSE 0)

\* An acquire() that reports the disposal, and nothing else, left no sandbox behind.
AbortHonest == \A l \in Lease : answer[l] = "disposed" => l \notin live

\* No sandbox of a process that keeps running runs forever.
EverySandboxStops == \A l \in Lease : l \in live ~> (l \notin live \/ l \in lost)

-----------------------------------------------------------------------------
\* The specification the pool implements: a lease, or a provisioning that may become one, is a slot.

Slots ==
    INSTANCE SandboxPool WITH
        taken <- leases \union provisioning, up <- live, orphans <- lost, closed <- disposed

\* Reservations, shared stops, timers and retries together keep the promise: a slot is taken within
\* the quotas, given back only once its sandbox is known to be down, and every call answered truly.
ImplementsSandboxPool == Slots!Spec

=============================================================================
