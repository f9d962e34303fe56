------------------------- MODULE TaskSchedulerProofs -------------------------
(***************************************************************************)
(* Theorems about TaskScheduler for any jobs, repositories and limits.     *)
(* The inductive invariant ties the counters of the code to the jobs that  *)
(* really hold a slot and says when the queue may exceed its bound: only   *)
(* inside drain(), by the one job that drain() cannot fail to start.       *)
(***************************************************************************)
EXTENDS TaskScheduler, FiniteSetTheorems, SequenceTheorems, WellFoundedInduction, TLAPS

\* A job is in one place: queued once, running, or settled.
JobsApart ==
    /\ \A i, k \in 1..Len(queue) : queue[i] = queue[k] => i = k
    /\ Queued \cap Holding = {}
    /\ running \cap settled = {}

\* active and activeByRepository count the jobs that hold a slot.
CountersExact ==
    /\ IsFiniteSet(Holding)
    /\ active = Cardinality(Holding)
    /\ \A r \in Repository : activeByRepository[r] = Cardinality(HoldingOf(r))

\* Above its bound by one, the queue ends in the job schedule() let past it.
OverflowStartable ==
    \/ Len(queue) <= MaxQueued
    \/ /\ draining
       /\ Len(queue) = MaxQueued + 1
       /\ HasImmediateCapacity(RepositoryOf[queue[Len(queue)]])

IInv ==
    /\ TypeOK
    /\ JobsApart
    /\ CountersExact
    /\ OverflowStartable
    /\ WorkConserving

-----------------------------------------------------------------------------

\* HoldingOf(r) gains j exactly when r is the repository of j.
LEMMA HoldingOfGains ==
    ASSUME NEW H, IsFiniteSet(H), NEW j \in Job, j \notin H, NEW r \in Repository
    PROVE  LET Of(S) == {k \in S : RepositoryOf[k] = r}
           IN  Cardinality(Of(H \union {j})) =
                 IF RepositoryOf[j] = r THEN Cardinality(Of(H)) + 1 ELSE Cardinality(Of(H))
<1> DEFINE Of(S) == {k \in S : RepositoryOf[k] = r}
<1>1. IsFiniteSet(Of(H))
  <2>1. Of(H) \subseteq H
    OBVIOUS
  <2> QED
    BY <2>1, FS_Subset
<1>2. CASE RepositoryOf[j] = r
  <2>1. Of(H \union {j}) = Of(H) \union {j}
    BY <1>2
  <2>2. j \notin Of(H)
    OBVIOUS
  <2> QED
    BY <1>1, <1>2, <2>1, <2>2, FS_AddElement
<1>3. CASE RepositoryOf[j] # r
  <2>1. Of(H \union {j}) = Of(H)
    BY <1>3
  <2> QED
    BY <1>3, <2>1
<1> QED
  BY <1>2, <1>3

\* queue.splice(i, 1) leaves a queue, one shorter, of the same jobs without the i-th.
LEMMA WithoutPositionProperties ==
    ASSUME queue \in Seq(Job), NEW i \in 1..Len(queue)
    PROVE  /\ WithoutPosition(i) \in Seq(Job)
           /\ Len(WithoutPosition(i)) = Len(queue) - 1
           /\ \A k \in 1..(Len(queue) - 1) :
                WithoutPosition(i)[k] = IF k < i THEN queue[k] ELSE queue[k + 1]
<1>1. \A k \in 1..(Len(queue) - 1) : (IF k < i THEN queue[k] ELSE queue[k + 1]) \in Job
  OBVIOUS
<1>2. Len(queue) - 1 \in Nat
  OBVIOUS
<1> QED
  BY <1>1, <1>2 DEF WithoutPosition

-----------------------------------------------------------------------------

LEMMA InitIInv == Init => IInv
<1> SUFFICES ASSUME Init PROVE IInv
  OBVIOUS
<1> USE SchedulerAssumption DEF Init
<1>1. Holding = {} /\ \A r \in Repository : HoldingOf(r) = {}
  BY DEF Holding, HoldingOf
<1>2. TypeOK
  <2>1. queue \in Seq(Job)
    OBVIOUS
  <2>2. 0 \in 0..MaxConcurrent /\ 0 \in 0..MaxConcurrentPerRepository
    OBVIOUS
  <2>3. activeByRepository \in [Repository -> 0..MaxConcurrentPerRepository]
    BY <2>2
  <2> QED
    BY <2>1, <2>2, <2>3 DEF TypeOK
<1>3. JobsApart
  BY DEF JobsApart, Queued, Holding
<1>4. CountersExact
  BY <1>1, FS_EmptySet DEF CountersExact
<1>5. OverflowStartable /\ WorkConserving
  BY DEF OverflowStartable, WorkConserving
<1> QED
  BY <1>2, <1>3, <1>4, <1>5 DEF IInv

LEMMA ScheduleIInv ==
    ASSUME IInv, NEW j \in Job, Schedule(j)
    PROVE  IInv'
<1> USE SchedulerAssumption DEF IInv, Schedule
<1>1. TypeOK'
  BY DEF TypeOK
<1>2. Holding' = Holding /\ \A r \in Repository : HoldingOf(r)' = HoldingOf(r)
  BY DEF Holding, HoldingOf
<1>3. /\ Len(queue') = Len(queue) + 1
      /\ queue'[Len(queue')] = j
      /\ \A k \in 1..Len(queue) : queue'[k] = queue[k]
  BY DEF TypeOK
<1>4. JobsApart'
  BY <1>2, <1>3 DEF JobsApart, Queued, TypeOK
<1>5. CountersExact'
  BY <1>2 DEF CountersExact
<1>6. OverflowStartable'
  BY <1>3 DEF OverflowStartable, HasImmediateCapacity, BelowRepositoryQuota, TypeOK
<1>7. WorkConserving'
  BY DEF WorkConserving
<1> QED
  BY <1>1, <1>4, <1>5, <1>6, <1>7

LEMMA DrainStartIInv ==
    ASSUME IInv, DrainStart
    PROVE  IInv'
<1> USE SchedulerAssumption DEF IInv
<1>1. PICK i \in 1..Len(queue) :
        /\ Eligible(i)
        /\ queue' = WithoutPosition(i)
        /\ activeByRepository' = [activeByRepository EXCEPT ![RepositoryOf[queue[i]]] = @ + 1]
        /\ running' = running \union {queue[i]}
  BY DEF DrainStart
<1> DEFINE j == queue[i]
<1>2. /\ draining /\ draining'
      /\ active < MaxConcurrent
      /\ active' = active + 1
      /\ settled' = settled
  BY DEF DrainStart
<1>3. queue \in Seq(Job) /\ j \in Job /\ RepositoryOf[j] \in Repository
  BY DEF TypeOK
<1>4. /\ queue' \in Seq(Job)
      /\ Len(queue') = Len(queue) - 1
      /\ \A k \in 1..(Len(queue) - 1) : queue'[k] = IF k < i THEN queue[k] ELSE queue[k + 1]
  BY <1>1, <1>3, WithoutPositionProperties
<1>5. TypeOK'
  BY <1>1, <1>2, <1>3, <1>4 DEF TypeOK, Eligible, BelowRepositoryQuota
<1>6. j \in Queued /\ j \notin Holding /\ Holding' = Holding \union {j}
  BY <1>1, <1>2, <1>3 DEF JobsApart, Queued, Holding
<1>7. JobsApart'
  <2>1. ASSUME NEW k \in 1..Len(queue'), NEW l \in 1..Len(queue'), queue'[k] = queue'[l]
        PROVE  k = l
    <3> DEFINE from(n) == IF n < i THEN n ELSE n + 1
    <3>1. /\ queue[from(k)] = queue[from(l)]
          /\ from(k) \in 1..Len(queue)
          /\ from(l) \in 1..Len(queue)
      BY <1>3, <1>4, <2>1
    <3>2. from(k) = from(l)
      BY <3>1 DEF JobsApart
    <3> QED
      BY <1>4, <3>2
  <2>2. \A k \in 1..Len(queue') : queue'[k] \in Queued /\ queue'[k] # j
    BY <1>3, <1>4 DEF JobsApart, Queued
  <2>3. Queued' \subseteq Queued \ {j}
    BY <1>4, <2>2 DEF Queued
  <2> QED
    BY <1>1, <1>2, <1>6, <2>1, <2>3 DEF JobsApart, Holding
<1>8. CountersExact'
  <2>1. IsFiniteSet(Holding') /\ active' = Cardinality(Holding')
    BY <1>2, <1>6, FS_AddElement DEF CountersExact
  <2>2. ASSUME NEW r \in Repository
        PROVE  activeByRepository'[r] = Cardinality(HoldingOf(r)')
    <3>1. Cardinality(HoldingOf(r)') =
            IF RepositoryOf[j] = r THEN Cardinality(HoldingOf(r)) + 1
                                   ELSE Cardinality(HoldingOf(r))
      BY <1>3, <1>6, HoldingOfGains DEF HoldingOf, CountersExact
    <3> QED
      BY <1>1, <1>3, <3>1 DEF CountersExact, TypeOK
  <2> QED
    BY <2>1, <2>2 DEF CountersExact
<1>9. OverflowStartable'
  BY <1>3, <1>4 DEF OverflowStartable
<1>10. WorkConserving'
  BY <1>2 DEF WorkConserving
<1> QED
  BY <1>5, <1>7, <1>8, <1>9, <1>10

LEMMA DrainStopIInv ==
    ASSUME IInv, DrainStop
    PROVE  IInv'
<1> USE SchedulerAssumption DEF IInv, DrainStop
<1>1. TypeOK'
  BY DEF TypeOK
<1>2. JobsApart' /\ CountersExact'
  BY DEF JobsApart, CountersExact, Queued, Holding, HoldingOf
<1>3. OverflowStartable'
  <2>1. SUFFICES ASSUME Len(queue) = MaxQueued + 1,
                        HasImmediateCapacity(RepositoryOf[queue[Len(queue)]])
                 PROVE  FALSE
    BY DEF OverflowStartable
  <2>2. Eligible(Len(queue)) /\ active < MaxConcurrent
    BY <2>1 DEF HasImmediateCapacity, Eligible
  <2> QED
    BY <2>1, <2>2 DEF TypeOK
<1>4. WorkConserving'
  <2>1. active < MaxConcurrent => \A i \in DOMAIN queue : ~Eligible(i)
    BY DEF TypeOK
  <2> QED
    BY <2>1 DEF WorkConserving, Eligible, BelowRepositoryQuota
<1> QED
  BY <1>1, <1>2, <1>3, <1>4

LEMMA SettleIInv ==
    ASSUME IInv, NEW j \in Job, Settle(j)
    PROVE  IInv'
<1> USE SchedulerAssumption DEF IInv, Settle
<1>1. TypeOK'
  BY DEF TypeOK
<1>2. Holding' = Holding /\ \A r \in Repository : HoldingOf(r)' = HoldingOf(r)
  BY DEF Holding, HoldingOf
<1>3. JobsApart'
  BY <1>2 DEF JobsApart, Queued
<1>4. CountersExact'
  BY <1>2 DEF CountersExact
<1>5. OverflowStartable' /\ WorkConserving'
  BY DEF OverflowStartable, WorkConserving, Eligible, BelowRepositoryQuota,
         HasImmediateCapacity
<1> QED
  BY <1>1, <1>3, <1>4, <1>5

LEMMA FinallyIInv ==
    ASSUME IInv, NEW j \in Job, Finally(j)
    PROVE  IInv'
<1> USE SchedulerAssumption DEF IInv, Finally
<1>1. RepositoryOf[j] \in Repository
  OBVIOUS
<1>2. j \in Holding /\ Holding' = Holding \ {j}
  BY DEF JobsApart, Holding
<1>3. IsFiniteSet(Holding') /\ Holding = Holding' \union {j} /\ j \notin Holding'
  BY <1>2, FS_RemoveElement DEF CountersExact
<1>4. CountersExact'
  <2>1. active' = Cardinality(Holding')
    BY <1>2, FS_RemoveElement DEF CountersExact
  <2>2. ASSUME NEW r \in Repository
        PROVE  activeByRepository'[r] = Cardinality(HoldingOf(r)')
    <3>1. Cardinality(HoldingOf(r)) =
            IF RepositoryOf[j] = r THEN Cardinality(HoldingOf(r)') + 1
                                   ELSE Cardinality(HoldingOf(r)')
      BY <1>3, HoldingOfGains DEF HoldingOf
    <3>2. IsFiniteSet(HoldingOf(r)')
      <4>1. HoldingOf(r)' \subseteq Holding'
        BY DEF HoldingOf
      <4> QED
        BY <1>3, <4>1, FS_Subset
    <3>3. Cardinality(HoldingOf(r)') \in Nat
      BY <3>2, FS_CardinalityType
    <3> QED
      BY <1>1, <3>1, <3>3 DEF CountersExact, TypeOK
  <2> QED
    BY <1>3, <2>1, <2>2 DEF CountersExact
<1>5. TypeOK'
  <2>1. active' \in Nat
    BY <1>3, <1>4, FS_CardinalityType DEF CountersExact
  <2>2. activeByRepository'[RepositoryOf[j]] \in Nat
    <3>1. HoldingOf(RepositoryOf[j])' \subseteq Holding'
      BY DEF HoldingOf
    <3> QED
      BY <1>1, <1>3, <1>4, <3>1, FS_Subset, FS_CardinalityType DEF CountersExact
  <2>3. activeByRepository'[RepositoryOf[j]] = activeByRepository[RepositoryOf[j]] - 1
    BY <1>1 DEF TypeOK
  <2> QED
    BY <1>1, <2>1, <2>2, <2>3 DEF TypeOK
<1>6. JobsApart'
  BY <1>2 DEF JobsApart, Queued, Holding
<1>7. OverflowStartable' /\ WorkConserving'
  BY DEF OverflowStartable, WorkConserving
<1> QED
  BY <1>4, <1>5, <1>6, <1>7

LEMMA NextIInv == IInv /\ [Next]_vars => IInv'
<1> SUFFICES ASSUME IInv, [Next]_vars PROVE IInv'
  OBVIOUS
<1>1. CASE Next
  BY <1>1, ScheduleIInv, DrainStartIInv, DrainStopIInv, SettleIInv, FinallyIInv DEF Next
<1>2. CASE UNCHANGED vars
  BY <1>2 DEF vars, IInv, TypeOK, JobsApart, CountersExact, OverflowStartable, WorkConserving,
              Queued, Holding, HoldingOf, Eligible, BelowRepositoryQuota, HasImmediateCapacity
<1> QED
  BY <1>1, <1>2

\* The inductive invariant holds in every reachable state.
THEOREM SchedulerInvariant == Spec => []IInv
BY InitIInv, NextIInv, PTL DEF Spec, SafetySpec

\* Type correctness; with it the counters never leave 0..limit (drain, finally callback).
THEOREM TypeCorrect == Spec => []TypeOK
<1>1. IInv => TypeOK
  BY DEF IInv
<1> QED
  BY <1>1, SchedulerInvariant, PTL

\* The jobs that hold a slot never exceed the global limit nor a repository's.
THEOREM QuotasHold == Spec => []QuotasRespected
<1>1. IInv => QuotasRespected
  BY SchedulerAssumption DEF IInv, TypeOK, CountersExact, QuotasRespected
<1> QED
  BY <1>1, SchedulerInvariant, PTL

\* After drain() returned, no queued job could have started.
THEOREM NoSlotWasted == Spec => []WorkConserving
<1>1. IInv => WorkConserving
  BY DEF IInv
<1> QED
  BY <1>1, SchedulerInvariant, PTL

\* The queue is within maxQueued whenever drain() is not executing.
THEOREM QueueStaysBounded == Spec => []QueueBounded
<1>1. IInv => QueueBounded
  BY DEF IInv, OverflowStartable, QueueBounded
<1> QED
  BY <1>1, SchedulerInvariant, PTL

\* A job overtakes only jobs of other repositories that are at their quota.
THEOREM OvertakingIsFair == Spec => NoUnfairOvertaking
<1>1. IInv /\ [Next]_vars =>
        [\A i \in DOMAIN queue :
           queue[i] \in running' =>
             \A k \in 1..(i - 1) :
               RepositoryOf[queue[k]] # RepositoryOf[queue[i]] /\ ~Eligible(k)]_vars
  <2> SUFFICES ASSUME IInv, Next, NEW i \in DOMAIN queue, queue[i] \in running',
                      NEW k \in 1..(i - 1)
               PROVE  RepositoryOf[queue[k]] # RepositoryOf[queue[i]] /\ ~Eligible(k)
    OBVIOUS
  <2>1. i \in 1..Len(queue) /\ queue[i] \notin running
    BY DEF IInv, TypeOK, JobsApart, Queued, Holding
  <2>2. DrainStart
    BY <2>1 DEF Next, Schedule, Settle, Finally, DrainStop
  <2>3. PICK p \in 1..Len(queue) :
          /\ Eligible(p)
          /\ \A l \in 1..(p - 1) : ~Eligible(l)
          /\ running' = running \union {queue[p]}
    BY <2>2 DEF DrainStart
  <2>4. p = i
    BY <2>1, <2>3 DEF IInv, JobsApart
  <2> QED
    BY <2>3, <2>4 DEF Eligible
<1> QED
  BY <1>1, SchedulerInvariant, PTL DEF Spec, SafetySpec, NoUnfairOvertaking

-----------------------------------------------------------------------------
\* What rules out starvation, in safety form: a job that waits has somebody to wait for, and
\* while it waits it only moves forward.

\* Outside drain() every queued job is held up by jobs that hold slots now: they are all the
\* slots there are, or all those of the job's repository.  Nobody waits for a slot that leaked.
WaitersHaveHolders ==
    ~draining =>
        \A i \in DOMAIN queue :
            \/ Holding # {} /\ Cardinality(Holding) = MaxConcurrent
            \/ /\ HoldingOf(RepositoryOf[queue[i]]) # {}
               /\ Cardinality(HoldingOf(RepositoryOf[queue[i]])) = MaxConcurrentPerRepository

\* push() and splice() keep the order of the jobs that stay: none moves past another and none
\* moves away from the head, so a job that arrives later is never served in its place.
KeepsArrivalOrder ==
    [][\A i, k \in DOMAIN queue, l, m \in DOMAIN queue' :
         i < k /\ queue'[l] = queue[i] /\ queue'[m] = queue[k] => l < m /\ l <= i]_vars

\* The invariant leaves no queued job without a holder that keeps it waiting.
LEMMA HoldersFollow == IInv => WaitersHaveHolders
<1> SUFFICES ASSUME IInv, ~draining, NEW i \in DOMAIN queue
             PROVE  \/ Holding # {} /\ Cardinality(Holding) = MaxConcurrent
                    \/ /\ HoldingOf(RepositoryOf[queue[i]]) # {}
                       /\ Cardinality(HoldingOf(RepositoryOf[queue[i]])) = MaxConcurrentPerRepository
  BY DEF WaitersHaveHolders
<1> DEFINE r == RepositoryOf[queue[i]]
<1>1. r \in Repository
  BY SchedulerAssumption DEF IInv, TypeOK
<1>2. active = Cardinality(Holding) /\ activeByRepository[r] = Cardinality(HoldingOf(r))
  BY <1>1 DEF IInv, CountersExact
<1>3. active \in 0..MaxConcurrent /\ activeByRepository[r] \in 0..MaxConcurrentPerRepository
  BY <1>1 DEF IInv, TypeOK
<1>4. active = MaxConcurrent \/ activeByRepository[r] = MaxConcurrentPerRepository
  BY <1>3, SchedulerAssumption DEF IInv, WorkConserving, Eligible, BelowRepositoryQuota
<1>5. active = MaxConcurrent => Holding # {}
  BY <1>2, FS_EmptySet, SchedulerAssumption
<1>6. activeByRepository[r] = MaxConcurrentPerRepository => HoldingOf(r) # {}
  BY <1>2, FS_EmptySet, SchedulerAssumption
<1> QED BY <1>2, <1>4, <1>5, <1>6

\* A queued job waits only for jobs that are running, or settled with their finally callback
\* due: never for a slot that nobody is going to give back (drain, finally).
THEOREM WaitersAreHeldUp == Spec => []WaitersHaveHolders
BY HoldersFollow, SchedulerInvariant, PTL

\* The queue is in arrival order, through every push() and every splice().
THEOREM ArrivalOrderKept == Spec => KeepsArrivalOrder
<1>1. IInv /\ IInv' /\ [Next]_vars =>
        [\A i, k \in DOMAIN queue, l, m \in DOMAIN queue' :
           i < k /\ queue'[l] = queue[i] /\ queue'[m] = queue[k] => l < m /\ l <= i]_vars
  <2> SUFFICES ASSUME IInv, IInv', Next,
                      NEW i \in DOMAIN queue, NEW k \in DOMAIN queue,
                      NEW l \in DOMAIN queue', NEW m \in DOMAIN queue',
                      i < k, queue'[l] = queue[i], queue'[m] = queue[k]
               PROVE  l < m /\ l <= i
    OBVIOUS
  <2>1. queue \in Seq(Job) /\ queue' \in Seq(Job)
    BY DEF IInv, TypeOK
  <2>2. i \in 1..Len(queue) /\ k \in 1..Len(queue) /\ l \in 1..Len(queue') /\ m \in 1..Len(queue')
    BY <2>1
  <2>3. \A a, b \in 1..Len(queue) : queue[a] = queue[b] => a = b
    BY DEF IInv, JobsApart
  <2>4. CASE queue' = queue
    BY <2>2, <2>3, <2>4
  <2>5. ASSUME NEW j \in Job, Schedule(j) PROVE l < m /\ l <= i
    <3>1. /\ Len(queue') = Len(queue) + 1
          /\ queue'[Len(queue) + 1] = j
          /\ \A a \in 1..Len(queue) : queue'[a] = queue[a]
      BY <2>1, <2>5 DEF Schedule
    <3>2. \A a, b \in 1..Len(queue') : queue'[a] = queue'[b] => a = b
      BY DEF IInv, JobsApart
    <3>3. l = i /\ m = k
      <4>1. queue'[i] = queue[i] /\ queue'[k] = queue[k]
        BY <2>2, <3>1
      <4>2. i \in 1..Len(queue') /\ k \in 1..Len(queue')
        BY <2>1, <2>2, <3>1
      <4> QED BY <2>2, <3>2, <4>1, <4>2
    <3> QED BY <2>2, <3>3
  <2>6. CASE DrainStart
    <3>1. PICK p \in 1..Len(queue) : queue' = WithoutPosition(p)
      BY <2>6 DEF DrainStart
    <3>2. /\ Len(queue') = Len(queue) - 1
          /\ \A a \in 1..(Len(queue) - 1) :
               queue'[a] = IF a < p THEN queue[a] ELSE queue[a + 1]
      BY <2>1, <3>1, WithoutPositionProperties
    <3>3. i = IF l < p THEN l ELSE l + 1
      BY <2>1, <2>2, <2>3, <3>2
    <3>4. k = IF m < p THEN m ELSE m + 1
      BY <2>1, <2>2, <2>3, <3>2
    <3> QED BY <2>1, <2>2, <3>1, <3>3, <3>4
  <2> QED BY <2>4, <2>5, <2>6 DEF Next, DrainStop, Settle, Finally
<1> QED
  BY <1>1, InitIInv, NextIInv, PTL DEF Spec, SafetySpec, KeepsArrivalOrder

-----------------------------------------------------------------------------
\* The refinement.  drain() starts at most one job each time it is called, so schedule() is one
\* arrival and the finally callback one departure.

\* Inside drain() one start exhausts what is there: the last slot, the last job that fits, or the
\* last place of the only repository whose jobs fit.
OneStartLeft ==
    draining /\ active < MaxConcurrent =>
        \/ active + 1 = MaxConcurrent
        \/ \A i, k \in 1..Len(queue) : Eligible(i) /\ Eligible(k) /\ i # k =>
              /\ RepositoryOf[queue[i]] = RepositoryOf[queue[k]]
              /\ activeByRepository[RepositoryOf[queue[i]]] + 1 = MaxConcurrentPerRepository

RInv == IInv /\ OneStartLeft

\* The position drain() would start, and that there is none.
First(i) ==
    /\ draining /\ active < MaxConcurrent
    /\ i \in 1..Len(queue)
    /\ Eligible(i) /\ \A k \in 1..(i - 1) : ~Eligible(k)

NoneFits == draining /\ active < MaxConcurrent => \A i \in 1..Len(queue) : ~Eligible(i)

LEMMA SmallestOf ==
    ASSUME NEW T, T \subseteq Nat, T # {}
    PROVE  \E i \in T : \A k \in T : ~(k < i)
<1>1. \E i \in T : \A k \in T : ~(<<k, i>> \in OpToRel(<, Nat))
  BY WFMin, NatLessThanWellFounded, Zenon
<1> QED BY <1>1, Zenon DEF OpToRel

LEMMA NextPositionIsFirst ==
    ASSUME queue \in Seq(Job), NEW i, First(i)
    PROVE  NextPosition = i
<1>1. i \in DOMAIN queue /\ Eligible(i) /\ \A k \in 1..(i - 1) : ~Eligible(k)
  BY DEF First
<1>2. \A m \in DOMAIN queue : Eligible(m) /\ (\A k \in 1..(m - 1) : ~Eligible(k)) => m = i
  BY <1>1
<1> QED BY <1>1, <1>2 DEF NextPosition, First

LEMMA NextPositionIsNone ==
    ASSUME queue \in Seq(Job), NoneFits
    PROVE  NextPosition = 0
BY DEF NextPosition, NoneFits

LEMMA FirstExists ==
    ASSUME queue \in Seq(Job), ~NoneFits
    PROVE  \E i : First(i)
<1> DEFINE T == {i \in 1..Len(queue) : Eligible(i)}
<1>1. T \subseteq Nat /\ T # {}
  BY DEF NoneFits
<1> HIDE DEF T
<1>2. PICK i \in T : \A k \in T : ~(k < i)
  BY <1>1, SmallestOf
<1>3. i \in 1..Len(queue) /\ Eligible(i)
  BY <1>2 DEF T
<1>4. ASSUME NEW k \in 1..(i - 1) PROVE ~Eligible(k)
  BY <1>2, <1>3 DEF T
<1> QED BY <1>3, <1>4 DEF First, NoneFits

\* What NextPosition is, before a step and after it.
PositionFacts ==
    /\ \A i : First(i) => NextPosition = i
    /\ NoneFits => NextPosition = 0
    /\ ~NoneFits => \E i : First(i)

LEMMA PositionKnown == queue \in Seq(Job) => PositionFacts
BY NextPositionIsFirst, NextPositionIsNone, FirstExists DEF PositionFacts

LEMMA PositionKnownNext == (queue \in Seq(Job) => PositionFacts)'
BY PositionKnown, PTL

\* Both modules count with the operator of FiniteSets.
LEMMA OneCardinality == \A T : Admission!Cardinality(T) = Cardinality(T)
BY DEF Admission!Cardinality, Cardinality

\* The counters say whether a job may join the jobs that hold a slot.
LEMMA MayJoinCounted ==
    ASSUME NEW S, NEW total, NEW count, NEW j \in Job,
           total = Cardinality(S),
           \A r \in Repository : count[r] = Cardinality({i \in S : RepositoryOf[i] = r})
    PROVE  Admission!MayJoin(j, S) <=>
             total < MaxConcurrent /\ count[RepositoryOf[j]] < MaxConcurrentPerRepository
<1>1. count[RepositoryOf[j]] = Cardinality({i \in S : RepositoryOf[i] = RepositoryOf[j]})
  BY SchedulerAssumption
<1> QED BY <1>1, OneCardinality DEF Admission!MayJoin

\* Taking a position out of the queue, in the words of both modules.
LEMMA SpliceIsRemoval ==
    ASSUME queue \in Seq(Job), NEW i \in 1..Len(queue)
    PROVE  WithoutPosition(i) = SubSeq(queue, 1, i - 1) \o SubSeq(queue, i + 1, Len(queue))
<1> DEFINE before == SubSeq(queue, 1, i - 1)
           after == SubSeq(queue, i + 1, Len(queue))
<1>1. /\ before \in Seq(Job) /\ Len(before) = i - 1
      /\ \A k \in 1..(i - 1) : before[k] = queue[k]
  OBVIOUS
<1>2. /\ after \in Seq(Job) /\ Len(after) = Len(queue) - i
      /\ \A k \in 1..(Len(queue) - i) : after[k] = queue[i + k]
  OBVIOUS
<1>3. /\ before \o after \in Seq(Job)
      /\ Len(before \o after) = Len(queue) - 1
      /\ \A k \in 1..(Len(queue) - 1) :
           (before \o after)[k] = IF k < i THEN queue[k] ELSE queue[k + 1]
  <2> HIDE DEF before, after
  <2>1. /\ before \o after \in Seq(Job)
        /\ Len(before \o after) = Len(before) + Len(after)
        /\ \A k \in 1..(Len(before) + Len(after)) :
             (before \o after)[k] = IF k <= Len(before) THEN before[k] ELSE after[k - Len(before)]
    BY <1>1, <1>2, ConcatProperties
  <2> QED BY <1>1, <1>2, <2>1
<1>4. /\ WithoutPosition(i) \in Seq(Job)
      /\ Len(WithoutPosition(i)) = Len(queue) - 1
      /\ \A k \in 1..(Len(queue) - 1) :
           WithoutPosition(i)[k] = IF k < i THEN queue[k] ELSE queue[k + 1]
  BY WithoutPositionProperties
<1> QED BY <1>3, <1>4, SeqEqual

\* drain() returns, or pauses after its only start, with nothing left that fits.
LEMMA StartLeavesNone ==
    ASSUME RInv, DrainStart
    PROVE  NoneFits'
<1> USE SchedulerAssumption
<1>1. PICK i \in 1..Len(queue) :
        /\ Eligible(i)
        /\ queue' = WithoutPosition(i)
        /\ activeByRepository' = [activeByRepository EXCEPT ![RepositoryOf[queue[i]]] = @ + 1]
  BY DEF DrainStart
<1>2. draining /\ active < MaxConcurrent /\ active' = active + 1 /\ active \in Nat
  BY DEF DrainStart, RInv, IInv, TypeOK
<1>3. /\ queue \in Seq(Job)
      /\ Len(queue') = Len(queue) - 1
      /\ \A k \in 1..Len(queue') : queue'[k] = IF k < i THEN queue[k] ELSE queue[k + 1]
  BY <1>1, WithoutPositionProperties DEF RInv, IInv, TypeOK
<1> SUFFICES ASSUME active' < MaxConcurrent, NEW k \in 1..Len(queue')
             PROVE  ~(activeByRepository'[RepositoryOf[queue'[k]]] < MaxConcurrentPerRepository)
  BY DEF NoneFits, Eligible, BelowRepositoryQuota
<1>4. active + 1 # MaxConcurrent
  BY <1>2
<1>5. PICK m \in 1..Len(queue) : m # i /\ queue'[k] = queue[m]
  BY <1>3
<1>6. RepositoryOf[queue[m]] \in Repository /\ RepositoryOf[queue[i]] \in Repository
  BY <1>3, <1>5
<1>7. activeByRepository[RepositoryOf[queue[m]]] \in Nat
  BY <1>6 DEF RInv, IInv, TypeOK
<1>8. CASE Eligible(m)
  <2>1. /\ RepositoryOf[queue[i]] = RepositoryOf[queue[m]]
        /\ activeByRepository[RepositoryOf[queue[i]]] + 1 = MaxConcurrentPerRepository
    BY <1>1, <1>2, <1>4, <1>5, <1>8 DEF RInv, OneStartLeft
  <2>2. activeByRepository'[RepositoryOf[queue[m]]] = MaxConcurrentPerRepository
    BY <1>1, <1>6, <2>1 DEF RInv, IInv, TypeOK
  <2> QED BY <1>5, <2>2
<1>9. CASE ~Eligible(m)
  <2>1. ~(activeByRepository[RepositoryOf[queue[m]]] < MaxConcurrentPerRepository)
    BY <1>9 DEF Eligible, BelowRepositoryQuota
  <2>2. activeByRepository'[RepositoryOf[queue[m]]] >= activeByRepository[RepositoryOf[queue[m]]]
    BY <1>1, <1>6, <1>7 DEF RInv, IInv, TypeOK
  <2>3. activeByRepository'[RepositoryOf[queue[m]]] \in Nat
    BY <1>1, <1>6, <1>7 DEF RInv, IInv, TypeOK
  <2> QED BY <1>5, <1>7, <2>1, <2>2, <2>3
<1> QED BY <1>8, <1>9

\* What is said of a state inside drain() that is not inside one needs no proof.
LEMMA QuietOneStart ==
    ASSUME ~draining
    PROVE  OneStartLeft /\ NoneFits
BY DEF OneStartLeft, NoneFits

LEMMA NoneFitsOneStart ==
    ASSUME NoneFits
    PROVE  OneStartLeft
BY DEF OneStartLeft, NoneFits

\* A scheduled job joins a queue none of whose jobs fit.
LEMMA ScheduleOneStart ==
    ASSUME RInv, NEW j \in Job, Schedule(j)
    PROVE  /\ OneStartLeft'
           /\ HasImmediateCapacity(RepositoryOf[j]) => First(Len(queue))'
           /\ ~HasImmediateCapacity(RepositoryOf[j]) => NoneFits'
<1>1. /\ queue \in Seq(Job) /\ queue' \in Seq(Job)
      /\ Len(queue') = Len(queue) + 1 /\ Len(queue) \in Nat
      /\ queue'[Len(queue) + 1] = j
      /\ \A k \in 1..Len(queue) : queue'[k] = queue[k]
      /\ UNCHANGED <<active, activeByRepository>> /\ draining' /\ ~draining
  BY DEF Schedule, RInv, IInv, TypeOK
<1>2. active < MaxConcurrent => \A k \in 1..Len(queue) : ~Eligible(k)'
  BY <1>1 DEF RInv, IInv, WorkConserving, Eligible, BelowRepositoryQuota
<1>3. Eligible(Len(queue))' <=> BelowRepositoryQuota(RepositoryOf[j])
  BY <1>1 DEF Eligible, BelowRepositoryQuota
<1>4. active' < MaxConcurrent =>
        \A k \in 1..Len(queue') : Eligible(k)' => k = Len(queue')
  BY <1>1, <1>2
<1>5. OneStartLeft'
  BY <1>1, <1>4 DEF OneStartLeft, Eligible, BelowRepositoryQuota
<1>6. ASSUME HasImmediateCapacity(RepositoryOf[j])
      PROVE  First(Len(queue))'
  <2>1. active' < MaxConcurrent /\ Eligible(Len(queue))'
    BY <1>1, <1>3, <1>6 DEF HasImmediateCapacity
  <2>2. \A k \in 1..Len(queue) : ~Eligible(k)'
    BY <1>1, <1>2, <2>1
  <2> QED BY <1>1, <2>1, <2>2 DEF First, Eligible, BelowRepositoryQuota
<1>7. ASSUME ~HasImmediateCapacity(RepositoryOf[j])
      PROVE  NoneFits'
  BY <1>1, <1>3, <1>4, <1>7 DEF NoneFits, HasImmediateCapacity, Eligible, BelowRepositoryQuota
<1> QED BY <1>5, <1>6, <1>7

\* The finally callback frees one slot of one repository.
LEMMA FinallyOneStart ==
    ASSUME RInv, NEW j \in Job, Finally(j)
    PROVE  OneStartLeft'
<1> USE SchedulerAssumption
<1>1. /\ ~draining /\ draining' /\ active' = active - 1 /\ UNCHANGED queue
      /\ activeByRepository' = [activeByRepository EXCEPT ![RepositoryOf[j]] = @ - 1]
  BY DEF Finally
<1>2. /\ queue \in Seq(Job) /\ active \in 0..MaxConcurrent
      /\ activeByRepository \in [Repository -> 0..MaxConcurrentPerRepository]
      /\ RepositoryOf[j] \in Repository
  BY DEF RInv, IInv, TypeOK
<1>3. CASE active = MaxConcurrent
  BY <1>1, <1>2, <1>3 DEF OneStartLeft
<1>4. CASE active < MaxConcurrent
  <2>1. \A i \in 1..Len(queue) :
          ~(activeByRepository[RepositoryOf[queue[i]]] < MaxConcurrentPerRepository)
    BY <1>1, <1>2, <1>4 DEF RInv, IInv, WorkConserving, Eligible, BelowRepositoryQuota
  <2>2. ASSUME NEW i \in 1..Len(queue), Eligible(i)'
        PROVE  /\ RepositoryOf[queue[i]] = RepositoryOf[j]
               /\ activeByRepository'[RepositoryOf[j]] + 1 = MaxConcurrentPerRepository
    <3>1. queue[i] \in Job /\ RepositoryOf[queue[i]] \in Repository
      BY <1>2
    <3>2. activeByRepository'[RepositoryOf[queue[i]]] < MaxConcurrentPerRepository
      BY <1>1, <2>2 DEF Eligible, BelowRepositoryQuota
    <3>3. activeByRepository[RepositoryOf[queue[i]]] = MaxConcurrentPerRepository
      BY <1>2, <2>1, <3>1
    <3>4. RepositoryOf[queue[i]] = RepositoryOf[j]
      BY <1>1, <1>2, <3>1, <3>2, <3>3
    <3> QED BY <1>1, <1>2, <3>3, <3>4
  <2> QED BY <1>1, <2>2 DEF OneStartLeft, Eligible, BelowRepositoryQuota
<1> QED BY <1>2, <1>3, <1>4

LEMMA NextRInv == RInv /\ [Next]_vars => RInv'
<1> SUFFICES ASSUME RInv, [Next]_vars PROVE RInv'
  OBVIOUS
<1>1. IInv'
  BY NextIInv DEF RInv
<1>2. ASSUME NEW j \in Job, Schedule(j) PROVE OneStartLeft'
  BY <1>2, ScheduleOneStart
<1>3. ASSUME NEW j \in Job, Finally(j) PROVE OneStartLeft'
  BY <1>3, FinallyOneStart
<1>4. ASSUME NEW j \in Job, Settle(j) PROVE OneStartLeft'
  BY <1>4 DEF Settle, OneStartLeft
<1>5. CASE DrainStart
  BY <1>1, <1>5, StartLeavesNone DEF RInv, NoneFits, OneStartLeft
<1>6. CASE DrainStop
  BY <1>1, <1>6 DEF DrainStop, OneStartLeft, RInv
<1>7. CASE UNCHANGED vars
  <2>1. (\A i \in 1..Len(queue) : Eligible(i)' <=> Eligible(i))
    BY <1>7 DEF vars, Eligible, BelowRepositoryQuota
  <2> QED BY <1>1, <1>7, <2>1 DEF vars, RInv, OneStartLeft
<1> QED BY <1>1, <1>2, <1>3, <1>4, <1>5, <1>6, <1>7 DEF RInv, Next

LEMMA InitRInv == Init => RInv /\ Admission!Init
<1> SUFFICES ASSUME Init PROVE RInv /\ Admission!Init
  OBVIOUS
<1>1. IInv
  BY InitIInv
<1>2. OneStartLeft /\ NoneFits
  BY QuietOneStart DEF Init
<1>3. NextPosition = 0
  BY <1>1, <1>2, PositionKnown DEF IInv, TypeOK, PositionFacts
<1>4. Admission!Init
  BY <1>3 DEF Init, Admission!Init, AbstractWaiting, AbstractServed, Holding
<1> QED BY <1>1, <1>2, <1>4 DEF RInv

\* A scheduled job arrives: it is served when it has immediate capacity, else it waits.
LEMMA ScheduleArrives ==
    ASSUME RInv, NEW j \in Job, Schedule(j)
    PROVE  Admission!ArriveServed(j) \/ Admission!ArriveWaiting(j)
<1>1. /\ queue \in Seq(Job) /\ queue' = Append(queue, j) /\ queue' \in Seq(Job)
      /\ Len(queue') = Len(queue) + 1 /\ Len(queue) \in Nat
      /\ ~draining /\ UNCHANGED <<running, settled>>
      /\ j \notin Queued \union Holding
      /\ Len(queue) < MaxQueued \/ HasImmediateCapacity(RepositoryOf[j])
  BY DEF Schedule, RInv, IInv, TypeOK
<1>2. Holding' = Holding
  BY <1>1 DEF Holding
<1>3. AbstractWaiting = queue /\ AbstractServed = Holding
  BY <1>1, QuietOneStart, PositionKnown DEF PositionFacts, AbstractWaiting, AbstractServed
<1>4. Admission!New(j)
  BY <1>1, <1>3 DEF Admission!New, Queued
<1>5. Admission!MayJoin(j, Holding) <=> HasImmediateCapacity(RepositoryOf[j])
  BY MayJoinCounted DEF RInv, IInv, CountersExact, HoldingOf, HasImmediateCapacity,
                        BelowRepositoryQuota
<1>6. CASE HasImmediateCapacity(RepositoryOf[j])
  <2>1. NextPosition' = Len(queue) + 1
    BY <1>1, <1>6, ScheduleOneStart, PositionKnownNext DEF PositionFacts
  <2>2. AbstractWaiting' = queue
    <3>1. AbstractWaiting' = [k \in 1..Len(queue) |->
                                IF k < Len(queue) + 1 THEN queue'[k] ELSE queue'[k + 1]]
      BY <1>1, <2>1 DEF AbstractWaiting, WithoutPosition
    <3>2. \A k \in 1..Len(queue) : queue'[k] = queue[k]
      BY <1>1
    <3>3. AbstractWaiting' = [k \in 1..Len(queue) |-> queue[k]]
      BY <1>1, <3>1, <3>2
    <3>4. queue = [k \in 1..Len(queue) |-> queue[k]]
      BY <1>1
    <3> QED BY <3>3, <3>4
  <2>3. AbstractServed' = Holding \union {j}
    BY <1>1, <1>2, <2>1 DEF AbstractServed
  <2> QED BY <1>3, <1>4, <1>5, <1>6, <2>2, <2>3 DEF Admission!ArriveServed
<1>7. CASE ~HasImmediateCapacity(RepositoryOf[j])
  <2>1. NextPosition' = 0
    BY <1>1, <1>7, ScheduleOneStart, PositionKnownNext DEF PositionFacts
  <2>2. AbstractWaiting' = Append(queue, j) /\ AbstractServed' = Holding
    BY <1>1, <1>2, <2>1 DEF AbstractWaiting, AbstractServed
  <2> QED BY <1>1, <1>3, <1>4, <1>5, <1>7, <2>2 DEF Admission!ArriveWaiting
<1> QED BY <1>6, <1>7

\* The finally callback departs: the job drain() starts next, if any, takes its slot.
LEMMA FinallyDeparts ==
    ASSUME RInv, NEW j \in Job, Finally(j)
    PROVE  Admission!DepartIdle(j) \/ Admission!DepartHandover(j)
<1>1. /\ queue \in Seq(Job) /\ queue' = queue
      /\ ~draining /\ draining'
      /\ j \in Holding /\ Holding' = Holding \ {j}
  BY DEF Finally, RInv, IInv, TypeOK, JobsApart, Holding
<1>2. AbstractWaiting = queue /\ AbstractServed = Holding
  BY <1>1, QuietOneStart, PositionKnown DEF PositionFacts, AbstractWaiting, AbstractServed
<1>3. CountersExact'
  BY FinallyIInv DEF RInv, IInv
<1>4. ASSUME NEW k \in 1..Len(queue)
      PROVE  Admission!MayJoin(queue[k], Holding \ {j}) <=> active' < MaxConcurrent /\ Eligible(k)'
  <2>1. queue[k] \in Job
    BY <1>1
  <2>2. \A r \in Repository :
          activeByRepository'[r] = Cardinality({i \in Holding \ {j} : RepositoryOf[i] = r})
    BY <1>1, <1>3 DEF CountersExact, HoldingOf
  <2>3. active' = Cardinality(Holding \ {j})
    BY <1>1, <1>3 DEF CountersExact
  <2>4. Admission!MayJoin(queue[k], Holding \ {j}) <=>
          /\ active' < MaxConcurrent
          /\ activeByRepository'[RepositoryOf[queue[k]]] < MaxConcurrentPerRepository
    <3>1. activeByRepository'[RepositoryOf[queue[k]]] =
            Cardinality({i \in Holding \ {j} : RepositoryOf[i] = RepositoryOf[queue[k]]})
      BY <2>1, <2>2, SchedulerAssumption
    <3>2. Admission!MayJoin(queue[k], Holding \ {j}) <=>
            /\ Cardinality(Holding \ {j}) < MaxConcurrent
            /\ Cardinality({i \in Holding \ {j} : RepositoryOf[i] = RepositoryOf[queue[k]]})
                 < MaxConcurrentPerRepository
      BY OneCardinality DEF Admission!MayJoin
    <3> QED BY <2>3, <3>1, <3>2
  <2>5. Eligible(k)' <=>
          activeByRepository'[RepositoryOf[queue[k]]] < MaxConcurrentPerRepository
    BY <1>1 DEF Eligible, BelowRepositoryQuota
  <2> QED BY <2>4, <2>5
<1>5. DOMAIN queue = 1..Len(queue)
  BY <1>1
<1>6. CASE NoneFits'
  <2>1. NextPosition' = 0
    BY <1>1, <1>6, PositionKnownNext DEF PositionFacts
  <2>2. AbstractWaiting' = queue /\ AbstractServed' = Holding \ {j}
    BY <1>1, <2>1 DEF AbstractWaiting, AbstractServed
  <2>3. \A k \in 1..Len(queue) : ~(active' < MaxConcurrent /\ Eligible(k)')
    BY <1>1, <1>6 DEF NoneFits, Eligible, BelowRepositoryQuota
  <2> QED BY <1>1, <1>2, <1>4, <1>5, <2>2, <2>3 DEF Admission!DepartIdle
<1>7. CASE ~NoneFits'
  <2>1. PICK i : First(i)'
    BY <1>1, <1>7, PositionKnownNext DEF PositionFacts
  <2>2. NextPosition' = i
    BY <1>1, <2>1, PositionKnownNext DEF PositionFacts
  <2>3. /\ active' < MaxConcurrent /\ i \in 1..Len(queue)
        /\ Eligible(i)' /\ \A k \in 1..(i - 1) : ~Eligible(k)'
    BY <1>1, <2>1 DEF First, Eligible, BelowRepositoryQuota
  <2>4. Admission!MayJoin(queue[i], Holding \ {j})
    BY <1>4, <2>3
  <2>5. ASSUME NEW k \in 1..(i - 1) PROVE ~Admission!MayJoin(queue[k], Holding \ {j})
    <3>1. k \in 1..Len(queue)
      BY <1>1, <2>3
    <3> QED BY <1>4, <2>3, <3>1
  <2>6. AbstractServed' = (Holding \ {j}) \union {queue[i]}
    BY <1>1, <2>2, <2>3 DEF AbstractServed
  <2>7. AbstractWaiting' = SubSeq(queue, 1, i - 1) \o SubSeq(queue, i + 1, Len(queue))
    <3>1. AbstractWaiting' = WithoutPosition(i)
      BY <1>1, <2>2, <2>3 DEF AbstractWaiting, WithoutPosition
    <3> QED BY <1>1, <2>3, <3>1, SpliceIsRemoval
  <2> QED BY <1>1, <1>2, <1>5, <2>3, <2>4, <2>5, <2>6, <2>7 DEF Admission!DepartHandover
<1> QED BY <1>6, <1>7

\* An iteration of drain() that starts a job carries out what the arrival or departure decided.
LEMMA StartStutters ==
    ASSUME RInv, DrainStart
    PROVE  UNCHANGED <<AbstractWaiting, AbstractServed>>
<1>1. PICK i \in 1..Len(queue) :
        /\ Eligible(i) /\ \A k \in 1..(i - 1) : ~Eligible(k)
        /\ queue' = WithoutPosition(i)
        /\ running' = running \union {queue[i]}
  BY DEF DrainStart
<1>2. queue \in Seq(Job) /\ queue' \in Seq(Job)
  BY <1>1, WithoutPositionProperties DEF RInv, IInv, TypeOK
<1>3. First(i)
  BY <1>1 DEF First, DrainStart
<1>4. NextPosition = i /\ i # 0
  BY <1>2, <1>3, PositionKnown DEF PositionFacts
<1>5. NextPosition' = 0
  BY <1>2, StartLeavesNone, PositionKnownNext DEF PositionFacts
<1>6. AbstractWaiting' = AbstractWaiting
  BY <1>1, <1>4, <1>5 DEF AbstractWaiting
<1>7. AbstractServed' = AbstractServed
  BY <1>1, <1>4, <1>5 DEF AbstractServed, Holding, DrainStart
<1> QED BY <1>6, <1>7

\* A step outside these changes neither who waits nor who is served.
LEMMA OthersStutter ==
    ASSUME RInv, DrainStop \/ (\E j \in Job : Settle(j)) \/ UNCHANGED vars
    PROVE  UNCHANGED <<AbstractWaiting, AbstractServed>>
<1>1. CASE UNCHANGED vars
  BY <1>1 DEF vars, AbstractWaiting, AbstractServed, NextPosition, WithoutPosition, Holding,
              Eligible, BelowRepositoryQuota
<1>2. CASE DrainStop \/ \E j \in Job : Settle(j)
  <2>1. NoneFits /\ NoneFits'
    BY <1>2 DEF DrainStop, Settle, NoneFits
  <2>2. queue \in Seq(Job) /\ queue' = queue /\ Holding' = Holding
    BY <1>2 DEF DrainStop, Settle, RInv, IInv, TypeOK, Holding
  <2>3. NextPosition = 0 /\ NextPosition' = 0
    BY <2>1, <2>2, PositionKnown, PositionKnownNext DEF PositionFacts
  <2> QED BY <2>2, <2>3 DEF AbstractWaiting, AbstractServed
<1> QED BY <1>1, <1>2

\* Every step of the scheduler is an arrival, a departure or nothing to who waits and is served.
LEMMA StepIsAdmission == RInv /\ [Next]_vars => [Admission!Next]_Admission!avars
<1> SUFFICES ASSUME RInv, [Next]_vars PROVE [Admission!Next]_Admission!avars
  OBVIOUS
<1>1. ASSUME NEW j \in Job, Schedule(j) PROVE Admission!Next
  BY <1>1, ScheduleArrives DEF Admission!Next
<1>2. ASSUME NEW j \in Job, Finally(j) PROVE Admission!Next
  BY <1>2, FinallyDeparts DEF Admission!Next
<1> QED BY <1>1, <1>2, StartStutters, OthersStutter DEF Next, Admission!avars

\* schedule() and the finally callback, with the drain() they run, implement admission control with
\* single-step arrivals and departures, for any jobs, repositories and limits.
THEOREM SchedulerIsAdmissionControl == Spec => ImplementsAdmissionControl
BY InitRInv, NextRInv, StepIsAdmission, PTL
   DEF Spec, SafetySpec, ImplementsAdmissionControl, Admission!Spec

=============================================================================
