-------------------------- MODULE RunnerPoolProofs ---------------------------
(***************************************************************************)
(* Theorems about RunnerPool for any number of acquire() calls, quotas and *)
(* crashes.  The invariant adds to the properties what makes them          *)
(* inductive: exactly the unfinished acquire() calls have no answer, the   *)
(* leases and the provisionings together respect the quotas, and a stop in *)
(* flight without an armed timer is awaited by a call that retries it.     *)
(***************************************************************************)
EXTENDS RunnerPool, FiniteSetTheorems, TLAPS

\* Every sandbox of this process: tracked, or being provisioned.
Claimed == leases \union provisioning

Unanswered ==
    /\ \A l \in pending : answer[l] = "none"
    /\ \A l \in leases : IF l \in pending THEN "acquire" \in waiters[l] ELSE answer[l] # "none"
    /\ leases \cap provisioning = {}

\* Timers belong to leases, and so do the calls that await a stop.
OnlyForLeases ==
    \A l \in Lease :
        /\ timer[l] # "none" => l \in leases
        /\ waiters[l] # {} => l \in stopping
        /\ "acquire" \in waiters[l] => answer[l] = "none"

\* CleanupPath, with the reason why a stop in flight is enough.
CleanupSecured ==
    \A l \in leases :
        \/ l \in stopping /\ waiters[l] # {}
        \/ timer[l] = "retry"
        \/ (timer[l] = "expiry" /\ ~disposed)

QuotaSecured ==
    /\ IsFiniteSet(Claimed)
    /\ IsFiniteSet(pending)
    /\ Cardinality(Claimed) <= MaxActive
    /\ \A r \in Repository : Cardinality(Of(r, Claimed)) <= MaxActivePerRepository

IInv ==
    /\ TypeOK
    /\ Unanswered
    /\ OnlyForLeases
    /\ CleanupSecured
    /\ QuotaSecured
    /\ NoSandboxForgotten
    /\ StopShared
    /\ AbortHonest

-----------------------------------------------------------------------------

\* The quotas bound every subset of the claimed sandboxes.
LEMMA QuotaShrinks ==
    ASSUME NEW S, NEW T, T \subseteq S, IsFiniteSet(S), NEW n \in Nat, NEW m \in Nat,
           Cardinality(S) <= n,
           \A r \in Repository : Cardinality(Of(r, S)) <= m
    PROVE  /\ IsFiniteSet(T)
           /\ Cardinality(T) <= n
           /\ \A r \in Repository : Cardinality(Of(r, T)) <= m
<1>1. IsFiniteSet(T) /\ Cardinality(T) <= Cardinality(S)
  BY FS_Subset
<1>2. Cardinality(T) <= n
  BY <1>1, FS_CardinalityType
<1>3. ASSUME NEW r \in Repository
      PROVE  Cardinality(Of(r, T)) <= m
  <2>1. Of(r, T) \subseteq Of(r, S) /\ Of(r, S) \subseteq S
    BY DEF Of
  <2>2. IsFiniteSet(Of(r, S))
    BY <2>1, FS_Subset
  <2>3. IsFiniteSet(Of(r, T)) /\ Cardinality(Of(r, T)) <= Cardinality(Of(r, S))
    BY <2>1, <2>2, FS_Subset
  <2> QED
    BY <2>2, <2>3, FS_CardinalityType
<1> QED
  BY <1>1, <1>2, <1>3

\* A union with one more member is at most one larger than its parts together.
LEMMA UnionBound ==
    ASSUME NEW A, IsFiniteSet(A), NEW B, IsFiniteSet(B), NEW x
    PROVE  /\ IsFiniteSet(A \union B \union {x})
           /\ Cardinality(A \union B \union {x}) <= Cardinality(A) + Cardinality(B) + 1
<1>1. /\ IsFiniteSet(A \union B)
      /\ Cardinality(A \union B) = Cardinality(A) + Cardinality(B) - Cardinality(A \cap B)
  BY FS_Union
<1>2. Cardinality(A \cap B) \in Nat
  BY FS_Intersection, FS_CardinalityType
<1>3. /\ Cardinality(A) \in Nat /\ Cardinality(B) \in Nat
      /\ Cardinality(A \union B) \in Nat
  BY <1>1, FS_CardinalityType
<1>4. /\ IsFiniteSet(A \union B \union {x})
      /\ Cardinality(A \union B \union {x}) =
           IF x \in A \union B THEN Cardinality(A \union B) ELSE Cardinality(A \union B) + 1
  BY <1>1, FS_AddElement
<1> QED
  BY <1>1, <1>2, <1>3, <1>4

\* A step that claims nothing new keeps the quotas.
LEMMA QuotaKept ==
    ASSUME IInv, Claimed' \subseteq Claimed, pending' \subseteq pending
    PROVE  QuotaSecured'
<1>1. IsFiniteSet(pending')
  BY FS_Subset DEF IInv, QuotaSecured
<1>2. MaxActive \in Nat /\ MaxActivePerRepository \in Nat
  BY PoolAssumption
<1>3. /\ IsFiniteSet(Claimed')
      /\ Cardinality(Claimed') <= MaxActive
      /\ \A r \in Repository : Cardinality(Of(r, Claimed')) <= MaxActivePerRepository
  BY <1>2, QuotaShrinks DEF IInv, QuotaSecured
<1> QED
  BY <1>1, <1>3 DEF QuotaSecured, Of

-----------------------------------------------------------------------------

LEMMA InitIInv == Init => IInv
<1> SUFFICES ASSUME Init PROVE IInv
  OBVIOUS
<1> USE PoolAssumption DEF Init
<1>1. TypeOK
  <2>1. /\ waiters \in [Lease -> SUBSET Retrying]
        /\ stops \in [Lease -> Nat]
        /\ timer \in [Lease -> {"none", "expiry", "retry"}]
        /\ answer \in [Lease -> Answer]
    BY DEF Answer
  <2>2. crashes \in 0..MaxCrashes
    OBVIOUS
  <2> QED
    BY <2>1, <2>2 DEF TypeOK
<1>2. Unanswered /\ OnlyForLeases /\ CleanupSecured
  BY DEF Unanswered, OnlyForLeases, CleanupSecured
<1>3. QuotaSecured
  <2>1. Claimed = {} /\ \A r \in Repository : Of(r, {}) = {}
    BY DEF Claimed, Of
  <2> QED
    BY <2>1, FS_EmptySet DEF QuotaSecured
<1>4. NoSandboxForgotten /\ StopShared /\ AbortHonest
  BY DEF NoSandboxForgotten, StopShared, AbortHonest
<1> QED
  BY <1>1, <1>2, <1>3, <1>4 DEF IInv

LEMMA AcquireIInv ==
    ASSUME IInv, NEW l \in Lease, Acquire(l)
    PROVE  IInv'
<1> USE PoolAssumption DEF IInv, Acquire
<1>1. TypeOK' /\ Unanswered'
  BY DEF TypeOK, Unanswered
<1>2. OnlyForLeases' /\ CleanupSecured'
  BY DEF OnlyForLeases, CleanupSecured, TypeOK
<1>3. QuotaSecured'
  <2>1. /\ IsFiniteSet(leases) /\ IsFiniteSet(pending)
        /\ provisioning \subseteq pending
    BY FS_Subset DEF QuotaSecured, Claimed, TypeOK
  <2>2. Claimed' \subseteq leases \union pending \union {l}
    BY <2>1 DEF Claimed
  <2>3. /\ IsFiniteSet(leases \union pending \union {l})
        /\ Cardinality(leases \union pending \union {l})
             <= Cardinality(leases) + Cardinality(pending) + 1
    BY <2>1, UnionBound
  <2>4. /\ IsFiniteSet(Claimed')
        /\ Cardinality(Claimed') <= Cardinality(leases \union pending \union {l})
    BY <2>2, <2>3, FS_Subset
  <2>5. /\ Cardinality(leases) \in Nat /\ Cardinality(pending) \in Nat
        /\ Cardinality(Claimed') \in Nat
        /\ Cardinality(leases \union pending \union {l}) \in Nat
    BY <2>1, <2>3, <2>4, FS_CardinalityType
  <2>6. Cardinality(Claimed') <= MaxActive
    BY <2>3, <2>4, <2>5
  <2>7. IsFiniteSet(pending')
    BY <2>1, FS_AddElement
  <2>8. ASSUME NEW r \in Repository
        PROVE  Cardinality(Of(r, Claimed)') <= MaxActivePerRepository
    <3>1. CASE r = RepositoryOf[l]
      <4> DEFINE A == Of(r, leases)
                 B == Of(r, pending)
      <4>1. IsFiniteSet(A) /\ IsFiniteSet(B)
        BY <2>1, FS_Subset DEF Of
      <4>2. Of(r, Claimed)' \subseteq A \union B \union {l}
        BY <2>1 DEF Of, Claimed
      <4>3. /\ IsFiniteSet(A \union B \union {l})
            /\ Cardinality(A \union B \union {l}) <= Cardinality(A) + Cardinality(B) + 1
        BY <4>1, UnionBound
      <4>4. /\ IsFiniteSet(Of(r, Claimed)')
            /\ Cardinality(Of(r, Claimed)') <= Cardinality(A \union B \union {l})
        BY <4>2, <4>3, FS_Subset
      <4>5. /\ Cardinality(A) \in Nat /\ Cardinality(B) \in Nat
            /\ Cardinality(Of(r, Claimed)') \in Nat
            /\ Cardinality(A \union B \union {l}) \in Nat
        BY <4>1, <4>3, <4>4, FS_CardinalityType
      <4>6. Cardinality(A) + Cardinality(B) < MaxActivePerRepository
        BY <3>1
      <4> QED
        BY <4>3, <4>4, <4>5, <4>6
    <3>2. CASE r # RepositoryOf[l]
      <4>1. Of(r, Claimed)' = Of(r, Claimed)
        BY <3>2 DEF Of, Claimed
      <4> QED
        BY <4>1 DEF QuotaSecured
    <3> QED
      BY <3>1, <3>2
  <2> QED
    BY <2>4, <2>6, <2>7, <2>8 DEF QuotaSecured
<1>4. NoSandboxForgotten' /\ StopShared' /\ AbortHonest'
  BY DEF NoSandboxForgotten, StopShared, AbortHonest
<1> QED
  BY <1>1, <1>2, <1>3, <1>4

LEMMA ProvisionIInv ==
    ASSUME IInv, NEW l \in Lease,
           ProvisionFails(l) \/ ProvisionLeases(l) \/ ProvisionAborts(l)
    PROVE  IInv'
<1> USE DEF IInv
<1>1. l \in provisioning /\ l \in pending /\ l \notin leases /\ answer[l] = "none"
  BY DEF ProvisionFails, ProvisionLeases, ProvisionAborts, TypeOK, Unanswered
<1>2. TypeOK'
  BY <1>1 DEF TypeOK, ProvisionFails, ProvisionLeases, ProvisionAborts, ReleaseAll, Retrying,
              Answer
<1>3. Claimed' \subseteq Claimed /\ pending' \subseteq pending
  BY <1>1 DEF Claimed, ProvisionFails, ProvisionLeases, ProvisionAborts
<1>4. QuotaSecured'
  BY <1>3, QuotaKept
<1>5. CASE ProvisionFails(l)
  <2>1. Unanswered' /\ CleanupSecured'
    BY <1>5, <1>1 DEF ProvisionFails, Unanswered, CleanupSecured, TypeOK
  <2>3. l \notin stopping
    BY <1>1 DEF OnlyForLeases, TypeOK
  <2>4. OnlyForLeases'
    BY <1>5, <1>1 DEF ProvisionFails, OnlyForLeases, TypeOK
  <2>2. NoSandboxForgotten' /\ StopShared' /\ AbortHonest'
    BY <1>5 DEF ProvisionFails, NoSandboxForgotten, StopShared, AbortHonest, TypeOK
  <2> QED
    BY <1>2, <1>4, <2>1, <2>2, <2>4
<1>6. CASE ProvisionLeases(l)
  <2>1. Unanswered'
    BY <1>6, <1>1 DEF ProvisionLeases, Unanswered, TypeOK
  <2>4. OnlyForLeases'
    BY <1>6, <1>1 DEF ProvisionLeases, OnlyForLeases, TypeOK
  <2>5. CleanupSecured'
    BY <1>6, <1>1 DEF ProvisionLeases, CleanupSecured, TypeOK
  <2>2. NoSandboxForgotten' /\ StopShared' /\ AbortHonest'
    BY <1>6, <1>1 DEF ProvisionLeases, NoSandboxForgotten, StopShared, AbortHonest, TypeOK
  <2> QED
    BY <1>2, <1>4, <2>1, <2>2, <2>4, <2>5
<1>7. CASE ProvisionAborts(l)
  <2>1. Unanswered' /\ OnlyForLeases' /\ CleanupSecured'
    BY <1>7, <1>1 DEF ProvisionAborts, ReleaseAll, Unanswered, OnlyForLeases, CleanupSecured,
                      TypeOK
  <2>2. NoSandboxForgotten' /\ StopShared' /\ AbortHonest'
    BY <1>7, <1>1 DEF ProvisionAborts, ReleaseAll, NoSandboxForgotten, StopShared, AbortHonest,
                      TypeOK
  <2> QED
    BY <1>2, <1>4, <2>1, <2>2
<1> QED
  BY <1>5, <1>6, <1>7

\* Every call that starts or shares stops: the ids in S are tracked, and C acts on a failure.
LEMMA ReleaseKeeps ==
    ASSUME IInv, NEW S \in SUBSET leases, NEW C \in SUBSET {"expiry", "dispose"},
           ReleaseAll(S, C),
           UNCHANGED <<leases, provisioning, pending, overdue, answer, live, lost, crashes>>
    PROVE  /\ stopping' \in SUBSET leases' /\ stops' \in [Lease -> Nat]
           /\ waiters' \in [Lease -> SUBSET Retrying]
           /\ \A l \in Lease : waiters'[l] # {} => l \in stopping'
           /\ \A l \in Lease : "acquire" \in waiters'[l] => answer'[l] = "none"
           /\ Unanswered' /\ QuotaSecured' /\ NoSandboxForgotten' /\ StopShared' /\ AbortHonest'
<1> USE DEF IInv, ReleaseAll
<1>1. /\ stopping' \in SUBSET leases' /\ stops' \in [Lease -> Nat]
      /\ waiters' \in [Lease -> SUBSET Retrying]
  <2>1. stopping' \in SUBSET leases'
    BY DEF TypeOK
  <2>2. stops' \in [Lease -> Nat]
    BY DEF TypeOK
  <2>3. C \in SUBSET Retrying
    BY DEF Retrying
  <2>4. waiters' \in [Lease -> SUBSET Retrying]
    BY <2>3 DEF TypeOK
  <2> QED
    BY <2>1, <2>2, <2>4
<1>2. \A l \in Lease : /\ waiters'[l] # {} => l \in stopping'
                       /\ "acquire" \in waiters'[l] => answer'[l] = "none"
  BY DEF TypeOK, OnlyForLeases
<1>3. Claimed' = Claimed /\ pending' = pending
  BY DEF Claimed
<1>4. QuotaSecured'
  BY <1>3, QuotaKept
<1>5. Unanswered'
  <2>1. \A l \in Lease : waiters[l] \subseteq waiters'[l]
    BY DEF TypeOK
  <2> QED
    BY <2>1 DEF Unanswered, TypeOK
<1>6. NoSandboxForgotten' /\ AbortHonest'
  BY DEF NoSandboxForgotten, AbortHonest
<1>7. StopShared'
  BY DEF StopShared, TypeOK
<1> QED
  BY <1>1, <1>2, <1>4, <1>5, <1>6, <1>7

LEMMA ReleaseIInv ==
    ASSUME IInv,
           \/ \E l \in Lease : Release(l) \/ TimerFires(l)
           \/ Sweep
           \/ Dispose
    PROVE  IInv'
<1>1. ASSUME NEW l \in Lease, Release(l) PROVE IInv'
  <2>1. ReleaseAll({l}, {}) /\ {l} \in SUBSET leases /\ timer' = timer /\ disposed' = disposed
        /\ UNCHANGED <<leases, provisioning, pending, overdue, answer, live, lost, crashes>>
    BY <1>1 DEF Release
  <2>2. /\ stopping' \in SUBSET leases' /\ stops' \in [Lease -> Nat]
        /\ waiters' \in [Lease -> SUBSET Retrying]
        /\ \A k \in Lease : waiters'[k] # {} => k \in stopping'
        /\ \A k \in Lease : "acquire" \in waiters'[k] => answer'[k] = "none"
        /\ Unanswered' /\ QuotaSecured' /\ NoSandboxForgotten' /\ StopShared' /\ AbortHonest'
    BY <2>1, ReleaseKeeps
  <2>3. TypeOK' /\ OnlyForLeases' /\ CleanupSecured'
    BY <2>1, <2>2 DEF IInv, TypeOK, OnlyForLeases, CleanupSecured, ReleaseAll
  <2> QED
    BY <2>2, <2>3 DEF IInv
<1>2. ASSUME NEW l \in Lease, TimerFires(l) PROVE IInv'
  <2>1. /\ ReleaseAll({l}, {"expiry"}) /\ {l} \in SUBSET leases
        /\ timer' = [timer EXCEPT ![l] = "none"] /\ disposed' = disposed
        /\ UNCHANGED <<leases, provisioning, pending, overdue, answer, live, lost, crashes>>
    <3>1. l \in leases
      BY <1>2 DEF TimerFires, IInv, OnlyForLeases
    <3>2. {l} \cap leases = {l}
      BY <3>1
    <3> QED
      BY <1>2, <3>1, <3>2 DEF TimerFires
  <2>2. /\ stopping' \in SUBSET leases' /\ stops' \in [Lease -> Nat]
        /\ waiters' \in [Lease -> SUBSET Retrying]
        /\ \A k \in Lease : waiters'[k] # {} => k \in stopping'
        /\ \A k \in Lease : "acquire" \in waiters'[k] => answer'[k] = "none"
        /\ Unanswered' /\ QuotaSecured' /\ NoSandboxForgotten' /\ StopShared' /\ AbortHonest'
    BY <2>1, ReleaseKeeps
  <2>3. TypeOK' /\ OnlyForLeases' /\ CleanupSecured'
    BY <2>1, <2>2 DEF IInv, TypeOK, OnlyForLeases, CleanupSecured, ReleaseAll
  <2> QED
    BY <2>2, <2>3 DEF IInv
<1>3. ASSUME Sweep PROVE IInv'
  <2>1. /\ ReleaseAll(leases \cap overdue, {}) /\ leases \cap overdue \in SUBSET leases
        /\ timer' = timer /\ disposed' = disposed
        /\ UNCHANGED <<leases, provisioning, pending, overdue, answer, live, lost, crashes>>
    BY <1>3 DEF Sweep
  <2>2. /\ stopping' \in SUBSET leases' /\ stops' \in [Lease -> Nat]
        /\ waiters' \in [Lease -> SUBSET Retrying]
        /\ \A k \in Lease : waiters'[k] # {} => k \in stopping'
        /\ \A k \in Lease : "acquire" \in waiters'[k] => answer'[k] = "none"
        /\ Unanswered' /\ QuotaSecured' /\ NoSandboxForgotten' /\ StopShared' /\ AbortHonest'
    BY <2>1, ReleaseKeeps
  <2>3. TypeOK' /\ OnlyForLeases' /\ CleanupSecured'
    BY <2>1, <2>2 DEF IInv, TypeOK, OnlyForLeases, CleanupSecured, ReleaseAll
  <2> QED
    BY <2>2, <2>3 DEF IInv
<1>4. ASSUME Dispose PROVE IInv'
  <2>1. /\ ReleaseAll(leases, {"dispose"})
        /\ timer' = [k \in Lease |-> "none"] /\ disposed' = TRUE
        /\ UNCHANGED <<leases, provisioning, pending, overdue, answer, live, lost, crashes>>
    BY <1>4 DEF Dispose
  <2>2. /\ stopping' \in SUBSET leases' /\ stops' \in [Lease -> Nat]
        /\ waiters' \in [Lease -> SUBSET Retrying]
        /\ \A k \in Lease : waiters'[k] # {} => k \in stopping'
        /\ \A k \in Lease : "acquire" \in waiters'[k] => answer'[k] = "none"
        /\ Unanswered' /\ QuotaSecured' /\ NoSandboxForgotten' /\ StopShared' /\ AbortHonest'
    BY <2>1, ReleaseKeeps
  <2>3. TypeOK' /\ OnlyForLeases' /\ CleanupSecured'
    BY <2>1, <2>2 DEF IInv, TypeOK, OnlyForLeases, CleanupSecured, ReleaseAll
  <2> QED
    BY <2>2, <2>3 DEF IInv
<1> QED
  BY <1>1, <1>2, <1>3, <1>4

LEMMA StopIInv ==
    ASSUME IInv, NEW l \in Lease, StopSucceeds(l) \/ StopFails(l)
    PROVE  IInv'
<1> USE DEF IInv
<1>1. stops[l] = 1 /\ l \in stopping /\ l \in leases
  BY DEF StopSucceeds, StopFails, StopShared, TypeOK
<1>2. Claimed' \subseteq Claimed /\ pending' \subseteq pending
  BY DEF Claimed, StopSucceeds, StopFails
<1>3. QuotaSecured'
  BY <1>2, QuotaKept
<1>4. CASE StopSucceeds(l)
  <2>1. TypeOK'
    <3>1. /\ stops' \in [Lease -> Nat] /\ waiters' \in [Lease -> SUBSET Retrying]
          /\ timer' \in [Lease -> {"none", "expiry", "retry"}]
      BY <1>1, <1>4 DEF StopSucceeds, TypeOK
    <3>2. answer' \in [Lease -> Answer]
      BY <1>4 DEF StopSucceeds, TypeOK, Answer
    <3>3. /\ provisioning' \in SUBSET pending' /\ stopping' \in SUBSET leases'
      BY <1>1, <1>4 DEF StopSucceeds, TypeOK, Unanswered
    <3> QED
      BY <1>4, <3>1, <3>2, <3>3 DEF StopSucceeds, TypeOK
  <2>2. Unanswered' /\ OnlyForLeases' /\ CleanupSecured'
    BY <1>1, <1>4 DEF StopSucceeds, Unanswered, OnlyForLeases, CleanupSecured, TypeOK
  <2>3. NoSandboxForgotten' /\ StopShared' /\ AbortHonest'
    BY <1>1, <1>4 DEF StopSucceeds, NoSandboxForgotten, StopShared, AbortHonest, TypeOK
  <2> QED
    BY <1>3, <2>1, <2>2, <2>3
<1>5. CASE StopFails(l)
  <2>1. TypeOK'
    <3>1. /\ stops' \in [Lease -> Nat] /\ waiters' \in [Lease -> SUBSET Retrying]
          /\ timer' \in [Lease -> {"none", "expiry", "retry"}]
      BY <1>1, <1>5 DEF StopFails, TypeOK
    <3>2. answer' \in [Lease -> Answer]
      BY <1>5 DEF StopFails, TypeOK, Answer
    <3>3. /\ provisioning' \in SUBSET pending' /\ stopping' \in SUBSET leases'
      BY <1>1, <1>5 DEF StopFails, TypeOK, Unanswered
    <3> QED
      BY <1>5, <3>1, <3>2, <3>3 DEF StopFails, TypeOK
  <2>2. Unanswered' /\ OnlyForLeases' /\ CleanupSecured'
    BY <1>1, <1>5 DEF StopFails, Unanswered, OnlyForLeases, CleanupSecured, TypeOK
  <2>3. NoSandboxForgotten' /\ StopShared' /\ AbortHonest'
    BY <1>1, <1>5 DEF StopFails, NoSandboxForgotten, StopShared, AbortHonest, TypeOK
  <2> QED
    BY <1>3, <2>1, <2>2, <2>3
<1> QED
  BY <1>4, <1>5

LEMMA CrashIInv ==
    ASSUME IInv, Crash
    PROVE  IInv'
<1> USE PoolAssumption DEF IInv
<1>1. PICK up \in SUBSET provisioning, down \in SUBSET stopping :
        /\ live' = (live \union up) \ down
        /\ lost' = lost \union ((live \union provisioning) \ down)
  BY DEF Crash
<1>2. TypeOK'
  <2>1. /\ waiters' \in [Lease -> SUBSET Retrying]
        /\ stops' \in [Lease -> Nat]
        /\ timer' \in [Lease -> {"none", "expiry", "retry"}]
    BY DEF Crash
  <2>2. crashes' \in 0..MaxCrashes
    BY DEF Crash, TypeOK
  <2>3. live' \in SUBSET Lease /\ lost' \in SUBSET Lease
    BY <1>1 DEF TypeOK
  <2>4. disposed' \in BOOLEAN /\ overdue' \in SUBSET Lease /\ answer' \in [Lease -> Answer]
    BY DEF Crash, TypeOK
  <2>5. leases' = {} /\ provisioning' = {} /\ pending' = {} /\ stopping' = {}
    BY DEF Crash
  <2> QED
    BY <2>1, <2>2, <2>3, <2>4, <2>5 DEF TypeOK
<1>3. Unanswered' /\ OnlyForLeases' /\ CleanupSecured'
  BY DEF Crash, Unanswered, OnlyForLeases, CleanupSecured
<1>4. QuotaSecured'
  <2>1. Claimed' \subseteq Claimed /\ pending' \subseteq pending
    BY DEF Crash, Claimed
  <2> QED
    BY <2>1, QuotaKept
<1>5. NoSandboxForgotten'
  BY <1>1 DEF NoSandboxForgotten
<1>6. StopShared'
  BY DEF Crash, StopShared
<1>7. AbortHonest'
  BY <1>1 DEF Crash, AbortHonest, Unanswered, TypeOK
<1> QED
  BY <1>2, <1>3, <1>4, <1>5, <1>6, <1>7

LEMMA DeadlineIInv ==
    ASSUME IInv, NEW l \in Lease, DeadlinePasses(l)
    PROVE  IInv'
BY DEF DeadlinePasses, IInv, TypeOK, Unanswered, OnlyForLeases, CleanupSecured, QuotaSecured,
       Claimed, NoSandboxForgotten, StopShared, AbortHonest

LEMMA NextIInv == IInv /\ [Next]_vars => IInv'
<1> SUFFICES ASSUME IInv, [Next]_vars PROVE IInv'
  OBVIOUS
<1>1. CASE Next
  BY <1>1, AcquireIInv, ProvisionIInv, ReleaseIInv, StopIInv, CrashIInv, DeadlineIInv DEF Next
<1>2. CASE UNCHANGED vars
  BY <1>2 DEF vars, IInv, TypeOK, Unanswered, OnlyForLeases, CleanupSecured, QuotaSecured,
              Claimed, NoSandboxForgotten, StopShared, AbortHonest
<1> QED
  BY <1>1, <1>2

-----------------------------------------------------------------------------

\* The inductive invariant holds in every reachable state.
THEOREM PoolInvariant == Spec => []IInv
BY InitIInv, NextIInv, PTL DEF Spec, SafetySpec

\* Type correctness.
THEOREM TypeCorrect == Spec => []TypeOK
<1>1. IInv => TypeOK
  BY DEF IInv
<1> QED
  BY <1>1, PoolInvariant, PTL

\* The quotas bound the sandboxes of this process, provisioned or about to be (acquire()).
THEOREM QuotasHold == Spec => []WithinQuota
<1>1. IInv => WithinQuota
  <2> SUFFICES ASSUME IInv PROVE WithinQuota
    OBVIOUS
  <2>1. (live \ lost) \union provisioning \subseteq Claimed
    BY DEF IInv, NoSandboxForgotten, Claimed
  <2>2. MaxActive \in Nat /\ MaxActivePerRepository \in Nat
    BY PoolAssumption
  <2> QED
    BY <2>1, <2>2, QuotaShrinks DEF IInv, QuotaSecured, WithinQuota
<1> QED
  BY <1>1, PoolInvariant, PTL

\* No sandbox runs that the pool does not track (release(), dispose()).
THEOREM NothingForgotten == Spec => []NoSandboxForgotten
<1>1. IInv => NoSandboxForgotten
  BY DEF IInv
<1> QED
  BY <1>1, PoolInvariant, PTL

\* Every tracked lease is being stopped or has a timer armed that will stop it.
THEOREM CleanupGuaranteed == Spec => []CleanupPath
<1>1. IInv => CleanupPath
  BY DEF IInv, CleanupSecured, CleanupPath
<1> QED
  BY <1>1, PoolInvariant, PTL

\* At most one provider stop per lease is in flight.
THEOREM OneStopAtATime == Spec => []StopShared
<1>1. IInv => StopShared
  BY DEF IInv
<1> QED
  BY <1>1, PoolInvariant, PTL

\* acquire() reports a clean abort only when its sandbox is gone.
THEOREM AbortsAreHonest == Spec => []AbortHonest
<1>1. IInv => AbortHonest
  BY DEF IInv
<1> QED
  BY <1>1, PoolInvariant, PTL

-----------------------------------------------------------------------------
\* Reservations, disposal, and what a call and its sandbox may do once.

\* Every reservation counted is a call that still awaits the provider: its provisioning, or the
\* stop of a sandbox that came up after dispose().
ReservationsAwaited ==
    pending = provisioning \union {l \in Lease : "acquire" \in waiters[l]}

\* Such a stop is awaited only in a disposed pool, and dispose() leaves no expiry timer.
AfterDisposal ==
    /\ \A l \in Lease : "acquire" \in waiters[l] => disposed
    /\ \A l \in Lease : timer[l] = "expiry" => ~disposed

PInv == IInv /\ ReservationsAwaited /\ AfterDisposal

\* While the pool takes calls, what acquire() compares with the quotas is the number of sandboxes
\* that run or come up: leases and reservations never count one twice, so a refusal is justified.
RefusalsJustified ==
    ~disposed =>
        /\ Cardinality(leases) + Cardinality(pending) = Cardinality(Claimed)
        /\ \A r \in Repository :
             Cardinality(Of(r, leases)) + Cardinality(Of(r, pending)) = Cardinality(Of(r, Claimed))

\* A disposed pool only drains: it claims nothing new, and what it tracks is being stopped or has
\* its retry armed.
DisposedOnlyDrains ==
    [][disposed /\ disposed' =>
         /\ Claimed' \subseteq Claimed
         /\ provisioning' \subseteq provisioning
         /\ \A l \in leases' : l \in stopping' \/ timer'[l] = "retry"]_vars

\* An acquire() call settles once, and its sandbox comes up at most once, while the call awaits it.
SettlesOnce ==
    [][\A l \in Lease :
         /\ answer[l] # "none" => answer'[l] = answer[l]
         /\ l \in live' \ live => l \in provisioning /\ l \notin provisioning']_vars

\* Calls that start or share stops, and what they leave alone.
LEMMA ReleasingSteps ==
    ASSUME PInv, NEW S, NEW C \in SUBSET {"expiry", "dispose"}, ReleaseAll(S, C),
           UNCHANGED <<provisioning, pending>>
    PROVE  /\ ReservationsAwaited'
           /\ \A l \in Lease : "acquire" \in waiters'[l] <=> "acquire" \in waiters[l]
<1>1. \A l \in Lease : "acquire" \in waiters'[l] <=> "acquire" \in waiters[l]
  BY DEF ReleaseAll
<1> QED
  BY <1>1 DEF PInv, ReservationsAwaited

LEMMA NextPInv == PInv /\ [Next]_vars => PInv'
<1> SUFFICES ASSUME PInv, [Next]_vars PROVE PInv'
  OBVIOUS
<1>1. IInv' /\ TypeOK /\ IInv
  BY NextIInv DEF PInv, IInv
<1> USE DEF PInv, TypeOK
<1>2. ASSUME NEW l \in Lease, Acquire(l) PROVE ReservationsAwaited' /\ AfterDisposal'
  BY <1>1, <1>2 DEF Acquire, ReservationsAwaited, AfterDisposal
<1>3. ASSUME NEW l \in Lease, ProvisionFails(l) \/ ProvisionLeases(l)
      PROVE  ReservationsAwaited' /\ AfterDisposal'
  <2>1. l \in pending /\ l \in provisioning /\ l \notin leases
    BY <1>1, <1>3 DEF ProvisionFails, ProvisionLeases, IInv, Unanswered
  <2>2. waiters[l] = {}
    BY <1>1, <2>1 DEF IInv, OnlyForLeases
  <2> QED
    BY <1>1, <1>3, <2>1, <2>2 DEF ProvisionFails, ProvisionLeases, ReservationsAwaited, AfterDisposal
<1>4. ASSUME NEW l \in Lease, ProvisionAborts(l) PROVE ReservationsAwaited' /\ AfterDisposal'
  <2>1. \A k \in Lease : "acquire" \in waiters'[k] <=> ("acquire" \in waiters[k] \/ k = l)
    BY <1>1, <1>4 DEF ProvisionAborts, ReleaseAll
  <2>2. /\ l \in provisioning /\ provisioning' = provisioning \ {l} /\ pending' = pending
        /\ disposed /\ disposed' = disposed /\ timer' = timer
    BY <1>4 DEF ProvisionAborts
  <2> QED
    BY <1>1, <2>1, <2>2 DEF ReservationsAwaited, AfterDisposal
<1>5. ASSUME NEW l \in Lease, Release(l) \/ TimerFires(l) PROVE ReservationsAwaited' /\ AfterDisposal'
  <2>1. \/ ReleaseAll({l}, {}) /\ timer' = timer
        \/ ReleaseAll({l} \cap leases, {"expiry"}) /\ timer' = [timer EXCEPT ![l] = "none"]
    BY <1>5 DEF Release, TimerFires
  <2>2. UNCHANGED <<provisioning, pending, disposed>>
    BY <1>5 DEF Release, TimerFires
  <2>3. /\ ReservationsAwaited'
        /\ \A k \in Lease : "acquire" \in waiters'[k] <=> "acquire" \in waiters[k]
    BY <2>1, <2>2, ReleasingSteps
  <2>4. \A k \in Lease : timer'[k] = "expiry" => timer[k] = "expiry"
    BY <1>1, <2>1
  <2> QED
    BY <2>2, <2>3, <2>4 DEF AfterDisposal
<1>6. ASSUME Sweep PROVE ReservationsAwaited' /\ AfterDisposal'
  BY <1>6, ReleasingSteps DEF Sweep, AfterDisposal
<1>7. ASSUME Dispose PROVE ReservationsAwaited' /\ AfterDisposal'
  BY <1>7, ReleasingSteps DEF Dispose, AfterDisposal
<1>8. ASSUME NEW l \in Lease, StopSucceeds(l) \/ StopFails(l)
      PROVE  ReservationsAwaited' /\ AfterDisposal'
  <2>1. l \in leases /\ l \notin provisioning
    BY <1>1, <1>8 DEF StopSucceeds, StopFails, IInv, StopShared, Unanswered
  <2>2. /\ waiters' = [waiters EXCEPT ![l] = {}] /\ pending' = pending \ {l}
        /\ UNCHANGED <<provisioning, disposed>>
        /\ \A k \in Lease : timer'[k] = "expiry" => timer[k] = "expiry"
    BY <1>1, <1>8 DEF StopSucceeds, StopFails
  <2>3. ReservationsAwaited'
    BY <1>1, <2>1, <2>2 DEF ReservationsAwaited
  <2> QED
    BY <1>1, <2>2, <2>3 DEF AfterDisposal
<1>9. ASSUME Crash PROVE ReservationsAwaited' /\ AfterDisposal'
  BY <1>9 DEF Crash, ReservationsAwaited, AfterDisposal
<1>10. ASSUME NEW l \in Lease, DeadlinePasses(l) PROVE ReservationsAwaited' /\ AfterDisposal'
  BY <1>10 DEF DeadlinePasses, ReservationsAwaited, AfterDisposal
<1>11. CASE UNCHANGED vars
  BY <1>1, <1>11 DEF vars, ReservationsAwaited, AfterDisposal
<1> QED
  BY <1>1, <1>2, <1>3, <1>4, <1>5, <1>6, <1>7, <1>8, <1>9, <1>10, <1>11 DEF Next

\* With it: a reservation never outlives its call, and a disposed pool arms no expiry
\* (acquire()'s catch and finally, dispose()).
THEOREM ReservationsReturned == Spec => []PInv
<1>1. Init => PInv
  <2>1. Init => IInv
    BY InitIInv
  <2>2. Init => ReservationsAwaited /\ AfterDisposal
    BY DEF Init, ReservationsAwaited, AfterDisposal
  <2> QED
    BY <2>1, <2>2 DEF PInv
<1> QED
  BY <1>1, NextPInv, PTL DEF Spec, SafetySpec

LEMMA CountsAgree == PInv => RefusalsJustified
<1> SUFFICES ASSUME PInv, ~disposed PROVE RefusalsJustified
  BY DEF RefusalsJustified
<1>1. pending = provisioning /\ leases \cap pending = {} /\ Claimed = leases \union pending
  BY DEF PInv, ReservationsAwaited, AfterDisposal, IInv, Unanswered, Claimed
<1>2. IsFiniteSet(leases) /\ IsFiniteSet(pending)
  BY <1>1, FS_Subset DEF PInv, IInv, QuotaSecured
<1>3. ASSUME NEW A, NEW B, IsFiniteSet(A), IsFiniteSet(B), A \cap B = {}
      PROVE  Cardinality(A) + Cardinality(B) = Cardinality(A \union B)
  <2>1. Cardinality(A \union B) = Cardinality(A) + Cardinality(B) - Cardinality({})
    BY <1>3, FS_Union
  <2>2. Cardinality(A) \in Nat /\ Cardinality(B) \in Nat /\ Cardinality({}) = 0
    BY <1>3, FS_CardinalityType, FS_EmptySet
  <2> QED
    BY <2>1, <2>2
<1>4. Cardinality(leases) + Cardinality(pending) = Cardinality(Claimed)
  BY <1>1, <1>2, <1>3
<1>5. ASSUME NEW r \in Repository
      PROVE  Cardinality(Of(r, leases)) + Cardinality(Of(r, pending)) = Cardinality(Of(r, Claimed))
  <2>1. IsFiniteSet(Of(r, leases)) /\ IsFiniteSet(Of(r, pending))
    <3>1. Of(r, leases) \subseteq leases /\ Of(r, pending) \subseteq pending
      BY DEF Of
    <3> QED
      BY <1>2, <3>1, FS_Subset
  <2>2. /\ Of(r, leases) \cap Of(r, pending) = {}
        /\ Of(r, Claimed) = Of(r, leases) \union Of(r, pending)
    BY <1>1 DEF Of
  <2> QED
    BY <1>3, <2>1, <2>2
<1> QED
  BY <1>4, <1>5 DEF RefusalsJustified

\* acquire() refuses for a quota only when sandboxes that exist or are coming up fill it.
THEOREM RefusalsAreJustified == Spec => []RefusalsJustified
BY CountsAgree, ReservationsReturned, PTL

\* dispose() is final for the process: no call in flight or later makes the pool grow again.
THEOREM DisposalIsFinal == Spec => DisposedOnlyDrains
<1>1. PInv /\ PInv' /\ [Next]_vars =>
        [disposed /\ disposed' =>
           /\ Claimed' \subseteq Claimed
           /\ provisioning' \subseteq provisioning
           /\ \A l \in leases' : l \in stopping' \/ timer'[l] = "retry"]_vars
  <2> SUFFICES ASSUME PInv, PInv', Next, disposed, disposed'
               PROVE  /\ Claimed' \subseteq Claimed
                      /\ provisioning' \subseteq provisioning
                      /\ \A l \in leases' : l \in stopping' \/ timer'[l] = "retry"
    OBVIOUS
  <2>1. \A l \in leases' : l \in stopping' \/ timer'[l] = "retry"
    BY DEF PInv, IInv, CleanupSecured
  <2>2. Claimed' \subseteq Claimed /\ provisioning' \subseteq provisioning
    BY DEF Next, Acquire, ProvisionFails, ProvisionLeases, ProvisionAborts, Release, DeadlinePasses,
       TimerFires, Sweep, Dispose, StopSucceeds, StopFails, Crash, Claimed
  <2> QED
    BY <2>1, <2>2
<1> QED
  BY <1>1, ReservationsReturned, NextPInv, PTL DEF Spec, SafetySpec, DisposedOnlyDrains

\* No late answer of the provider settles a call again or brings a stopped sandbox back.
THEOREM CallsSettleOnce == Spec => SettlesOnce
<1>1. PInv /\ [Next]_vars =>
        [\A l \in Lease :
           /\ answer[l] # "none" => answer'[l] = answer[l]
           /\ l \in live' \ live => l \in provisioning /\ l \notin provisioning']_vars
  <2> SUFFICES ASSUME PInv, Next, NEW k \in Lease
               PROVE  /\ answer[k] # "none" => answer'[k] = answer[k]
                      /\ k \in live' \ live => k \in provisioning /\ k \notin provisioning'
    OBVIOUS
  <2>0. TypeOK /\ Unanswered /\ OnlyForLeases
    BY DEF PInv, IInv
  <2>1. ASSUME NEW l \in Lease, ProvisionFails(l) \/ ProvisionLeases(l)
        PROVE  /\ answer[k] # "none" => answer'[k] = answer[k]
               /\ k \in live' \ live => k \in provisioning /\ k \notin provisioning'
    <3>1. l \in provisioning /\ l \in pending /\ answer[l] = "none"
      BY <2>0, <2>1 DEF ProvisionFails, ProvisionLeases, TypeOK, Unanswered
    <3> QED
      BY <2>0, <2>1, <3>1 DEF ProvisionFails, ProvisionLeases, TypeOK
  <2>2. ASSUME NEW l \in Lease, StopSucceeds(l) \/ StopFails(l)
        PROVE  /\ answer[k] # "none" => answer'[k] = answer[k]
               /\ k \in live' \ live => k \in provisioning /\ k \notin provisioning'
    BY <2>0, <2>2 DEF StopSucceeds, StopFails, TypeOK, OnlyForLeases
  <2>3. ASSUME Crash \/ Sweep \/ Dispose
               \/ \E l \in Lease : Acquire(l) \/ ProvisionAborts(l) \/ Release(l)
                                   \/ DeadlinePasses(l) \/ TimerFires(l)
        PROVE  /\ answer[k] # "none" => answer'[k] = answer[k]
               /\ k \in live' \ live => k \in provisioning /\ k \notin provisioning'
    BY <2>3 DEF Crash, Sweep, Dispose, Acquire, ProvisionAborts, Release, DeadlinePasses, TimerFires
  <2> QED
    BY <2>1, <2>2, <2>3 DEF Next
<1> QED
  BY <1>1, ReservationsReturned, PTL DEF Spec, SafetySpec, SettlesOnce

-----------------------------------------------------------------------------
\* The pool implements SandboxPool.

\* Only a waiting call's sandbox comes up, a refused call still waits for a sandbox that is up, and
\* the sandboxes a dead process left are none of this one's.
SandboxesSorted ==
    /\ provisioning \cap live = {}
    /\ \A l \in Lease : "acquire" \in waiters[l] => l \in live
    /\ lost \cap Claimed = {}

RefInv == PInv /\ SandboxesSorted

LEMMA InitRefInv == Init => RefInv /\ Slots!Init
<1> SUFFICES ASSUME Init PROVE RefInv /\ Slots!Init
  OBVIOUS
<1>1. IInv
  BY InitIInv
<1>2. ReservationsAwaited /\ AfterDisposal /\ SandboxesSorted
  BY DEF Init, ReservationsAwaited, AfterDisposal, SandboxesSorted, Claimed
<1>3. Slots!Init
  BY DEF Init, Slots!Init
<1> QED
  BY <1>1, <1>2, <1>3 DEF RefInv, PInv

\* A stop that settles belongs to a lease, which waits for it just if it is unanswered.
LEMMA SettlingStop ==
    ASSUME RefInv, NEW l \in Lease, stops[l] > 0
    PROVE  /\ l \in leases /\ l \notin provisioning /\ l \notin lost
           /\ answer[l] = "none" <=> "acquire" \in waiters[l]
           /\ answer[l] = "none" => disposed /\ l \in live
<1>1. TypeOK /\ Unanswered /\ OnlyForLeases /\ StopShared /\ ReservationsAwaited /\ AfterDisposal
  BY DEF RefInv, PInv, IInv
<1>2. l \in leases /\ l \notin provisioning
  BY <1>1 DEF StopShared, TypeOK, Unanswered
<1>3. answer[l] = "none" <=> "acquire" \in waiters[l]
  BY <1>1, <1>2 DEF Unanswered, OnlyForLeases
<1> QED
  BY <1>1, <1>2, <1>3 DEF RefInv, SandboxesSorted, Claimed, AfterDisposal

\* Calls that start or share stops bring nothing up or down.
LEMMA ReleasingKeepsSorted ==
    ASSUME RefInv, NEW S, NEW C \in SUBSET {"expiry", "dispose"}, ReleaseAll(S, C),
           UNCHANGED <<leases, provisioning, live, lost>>
    PROVE  SandboxesSorted'
<1>1. \A l \in Lease : "acquire" \in waiters'[l] <=> "acquire" \in waiters[l]
  BY DEF ReleaseAll
<1> QED
  BY <1>1 DEF RefInv, SandboxesSorted, Claimed

LEMMA NextRefInv == RefInv /\ [Next]_vars => RefInv'
<1> SUFFICES ASSUME RefInv, [Next]_vars PROVE SandboxesSorted'
  BY NextPInv DEF RefInv
<1>0. TypeOK /\ Unanswered /\ OnlyForLeases /\ NoSandboxForgotten /\ SandboxesSorted
  BY DEF RefInv, PInv, IInv
<1>1. ASSUME NEW l \in Lease, Acquire(l) PROVE SandboxesSorted'
  <2>1. l \notin lost /\ l \notin pending /\ l \notin leases
    BY <1>0, <1>1 DEF Acquire, Unanswered
  <2> QED
    BY <1>0, <1>1, <2>1 DEF Acquire, SandboxesSorted, Claimed, NoSandboxForgotten
<1>2. ASSUME NEW l \in Lease, ProvisionFails(l) \/ ProvisionLeases(l) PROVE SandboxesSorted'
  BY <1>0, <1>2 DEF ProvisionFails, ProvisionLeases, SandboxesSorted, Claimed, TypeOK
<1>3. ASSUME NEW l \in Lease, ProvisionAborts(l) PROVE SandboxesSorted'
  <2>1. \A k \in Lease : "acquire" \in waiters'[k] => "acquire" \in waiters[k] \/ k = l
    BY <1>3 DEF ProvisionAborts, ReleaseAll
  <2> QED
    BY <1>0, <1>3, <2>1 DEF ProvisionAborts, SandboxesSorted, Claimed
<1>4. ASSUME Sweep \/ Dispose \/ \E l \in Lease : Release(l) \/ TimerFires(l)
      PROVE  SandboxesSorted'
  BY <1>4, ReleasingKeepsSorted DEF Sweep, Dispose, Release, TimerFires
<1>5. ASSUME NEW l \in Lease, StopSucceeds(l) \/ StopFails(l) PROVE SandboxesSorted'
  <2>1. l \in leases /\ l \notin provisioning
    BY <1>5, SettlingStop DEF StopSucceeds, StopFails
  <2>2. /\ waiters' = [waiters EXCEPT ![l] = {}] /\ UNCHANGED <<provisioning, lost>>
        /\ leases' \subseteq leases /\ live' \in {live, live \ {l}}
    BY <1>5 DEF StopSucceeds, StopFails
  <2> QED
    BY <1>0, <2>1, <2>2 DEF SandboxesSorted, Claimed, TypeOK
<1>6. ASSUME Crash PROVE SandboxesSorted'
  BY <1>6 DEF Crash, SandboxesSorted, Claimed
<1>7. ASSUME (\E l \in Lease : DeadlinePasses(l)) \/ UNCHANGED vars PROVE SandboxesSorted'
  BY <1>0, <1>7 DEF DeadlinePasses, vars, SandboxesSorted, Claimed
<1> QED
  BY <1>1, <1>2, <1>3, <1>4, <1>5, <1>6, <1>7 DEF Next

-----------------------------------------------------------------------------

\* A call that awaits provision() is one whose sandbox is coming up, and there are no others.
LEMMA ComingIsProvisioning ==
    ASSUME RefInv
    PROVE  Slots!Coming = provisioning
<1>1. TypeOK /\ Unanswered /\ OnlyForLeases /\ SandboxesSorted /\ ReservationsAwaited
  BY DEF RefInv, PInv, IInv
<1>2. ASSUME NEW l \in leases, answer[l] = "none" PROVE l \in live
  BY <1>1, <1>2 DEF Unanswered, SandboxesSorted, TypeOK
<1>3. ASSUME NEW l \in provisioning PROVE answer[l] = "none" /\ l \notin live
  BY <1>1 DEF Unanswered, SandboxesSorted, TypeOK
<1> QED
  BY <1>2, <1>3 DEF Slots!Coming

\* What acquire() compares with its quotas is what SandboxPool counts.
LEMMA AcquireTakes ==
    ASSUME RefInv, NEW l \in Lease, Acquire(l)
    PROVE  Slots!Take(l)
<1>1. \A T : Slots!Cardinality(T) = Cardinality(T)
  BY DEF Slots!Cardinality, Cardinality
<1>2. /\ Cardinality(leases) + Cardinality(pending) = Cardinality(Claimed)
      /\ \A r \in Repository :
           Cardinality(Of(r, leases)) + Cardinality(Of(r, pending)) = Cardinality(Of(r, Claimed))
  BY CountsAgree DEF RefInv, Acquire, RefusalsJustified
<1>3. /\ Cardinality(Claimed) < MaxActive
      /\ Cardinality(Of(RepositoryOf[l], Claimed)) < MaxActivePerRepository
  BY <1>2, PoolAssumption DEF Acquire
<1>4. Slots!MayTake(l)
  BY <1>1, <1>3 DEF Slots!MayTake, Of, Claimed
<1>5. l \notin leases /\ l \notin provisioning
  BY DEF Acquire, RefInv, PInv, IInv, Unanswered, TypeOK
<1> QED
  BY <1>4, <1>5 DEF Acquire, Slots!Take

LEMMA ProvisionSettles ==
    ASSUME RefInv, NEW l \in Lease, ProvisionFails(l) \/ ProvisionLeases(l) \/ ProvisionAborts(l)
    PROVE  Slots!Miss(l) \/ Slots!ComeUp(l)
<1>1. l \in Slots!Coming /\ l \notin leases
  BY ComingIsProvisioning
  DEF ProvisionFails, ProvisionLeases, ProvisionAborts, RefInv, PInv, IInv, Unanswered
<1>2. CASE ProvisionFails(l)
  BY <1>1, <1>2 DEF ProvisionFails, Slots!Miss
<1>3. CASE ProvisionLeases(l)
  BY <1>1, <1>3 DEF ProvisionLeases, Slots!ComeUp
<1>4. CASE ProvisionAborts(l)
  BY <1>1, <1>4 DEF ProvisionAborts, Slots!ComeUp
<1> QED
  BY <1>2, <1>3, <1>4

LEMMA StopSettles ==
    ASSUME RefInv, NEW l \in Lease, StopSucceeds(l) \/ StopFails(l)
    PROVE  Slots!GiveBack(l) \/ Slots!Linger(l)
<1>1. /\ l \in leases /\ l \notin provisioning
      /\ answer[l] = "none" <=> "acquire" \in waiters[l]
      /\ answer[l] = "none" => disposed
      /\ answer \in [Lease -> Answer]
  BY SettlingStop DEF StopSucceeds, StopFails, RefInv, PInv, IInv, TypeOK
<1>2. Slots!Refusable(l)
  BY <1>1, ComingIsProvisioning DEF Slots!Refusable
<1>3. CASE StopSucceeds(l)
  <2>1. answer' = IF answer[l] = "none" THEN [answer EXCEPT ![l] = "disposed"] ELSE answer
    BY <1>1, <1>3 DEF StopSucceeds
  <2> QED
    BY <1>1, <1>2, <1>3, <2>1 DEF StopSucceeds, Slots!GiveBack
<1>4. CASE StopFails(l)
  <2>1. answer' = IF answer[l] = "none" THEN [answer EXCEPT ![l] = "disposedStillLive"] ELSE answer
    BY <1>1, <1>4 DEF StopFails
  <2> QED
    BY <1>1, <1>2, <1>4, <2>1 DEF StopFails, Slots!Linger
<1> QED
  BY <1>3, <1>4

LEMMA CrashDies ==
    ASSUME RefInv, Crash
    PROVE  Slots!Die
<1>1. Slots!Coming = provisioning
  BY ComingIsProvisioning
<1>2. stopping \subseteq (leases \union provisioning) \ provisioning
  BY DEF RefInv, PInv, IInv, TypeOK, Unanswered
<1>3. PICK more \in SUBSET provisioning, gone \in SUBSET stopping :
        /\ live' = (live \union more) \ gone
        /\ lost' = lost \union ((live \union provisioning) \ gone)
  BY DEF Crash
<1> QED
  BY <1>1, <1>2, <1>3 DEF Crash, Slots!Die

\* Every step of the pool is a step of SandboxPool or none.
LEMMA StepIsSandboxPool == RefInv /\ [Next]_vars => [Slots!Next]_Slots!svars
<1> SUFFICES ASSUME RefInv, [Next]_vars PROVE [Slots!Next]_Slots!svars
  OBVIOUS
<1>1. ASSUME NEW l \in Lease, Acquire(l) PROVE Slots!Next
  BY <1>1, AcquireTakes DEF Slots!Next
<1>2. ASSUME NEW l \in Lease, ProvisionFails(l) \/ ProvisionLeases(l) \/ ProvisionAborts(l)
      PROVE  Slots!Next
  BY <1>2, ProvisionSettles DEF Slots!Next
<1>3. ASSUME NEW l \in Lease, StopSucceeds(l) \/ StopFails(l) PROVE Slots!Next
  BY <1>3, StopSettles DEF Slots!Next
<1>4. CASE Crash
  BY <1>4, CrashDies DEF Slots!Next
<1>5. CASE Dispose
  BY <1>5 DEF Dispose, Slots!Close, Slots!Next
<1>6. CASE Sweep \/ (\E l \in Lease : Release(l) \/ DeadlinePasses(l) \/ TimerFires(l)) \/ UNCHANGED vars
  BY <1>6 DEF Sweep, Release, DeadlinePasses, TimerFires, vars, Slots!svars
<1> QED
  BY <1>1, <1>2, <1>3, <1>4, <1>5, <1>6 DEF Next

\* The reservations, shared stops, timers, retries and the disposal of RunnerPool implement the
\* slots of SandboxPool (acquire(), release(), dispose(), scheduleExpiry()).
THEOREM PoolIsSandboxPool == Spec => ImplementsSandboxPool
BY InitRefInv, NextRefInv, StepIsSandboxPool, PTL
   DEF Spec, SafetySpec, ImplementsSandboxPool, Slots!Spec

=============================================================================
