---------------------------- MODULE TaskScheduler ----------------------------
(***************************************************************************)
(* TaskScheduler of packages/api/src/control-plane.ts: a bounded queue of  *)
(* task runs with a global concurrency limit and a limit per repository.   *)
(*                                                                         *)
(* A job is one call of schedule().  schedule() pushes the job and calls   *)
(* drain(); a job that ends first settles the promise its caller awaits    *)
(* and only in a later microtask runs the finally callback that gives the  *)
(* slot back and drains again.  drain() is a synchronous loop: while it    *)
(* runs, nothing else does.  `draining` is its program counter, DrainStart *)
(* one iteration that starts a job, DrainStop its exit.                    *)
(***************************************************************************)
EXTENDS Integers, Sequences, FiniteSets

CONSTANTS
    Job,                        \* identities of schedule() calls, reusable once finished
    Repository,                 \* the repositories jobs belong to
    RepositoryOf,               \* the repository argument of each call
    MaxConcurrent,              \* SchedulerOptions.maxConcurrent
    MaxQueued,                  \* SchedulerOptions.maxQueued
    MaxConcurrentPerRepository  \* SchedulerOptions.maxConcurrentPerRepository

ASSUME SchedulerAssumption ==
    /\ RepositoryOf \in [Job -> Repository]
    /\ MaxConcurrent \in Nat \ {0}
    /\ MaxQueued \in Nat \ {0}
    /\ MaxConcurrentPerRepository \in Nat \ {0}

VARIABLES
    queue,               \* the queued jobs, oldest first
    active,              \* how many jobs hold a slot
    activeByRepository,  \* the same per repository (an absent key is 0)
    running,             \* jobs whose run() is in progress
    settled,             \* jobs whose promise is settled but whose finally callback is not run
    draining             \* TRUE while drain()'s loop is executing

vars == <<queue, active, activeByRepository, running, settled, draining>>

Queued == {queue[i] : i \in DOMAIN queue}

\* The jobs that occupy a slot: started, and not yet past their finally callback.
Holding == running \union settled

HoldingOf(r) == {j \in Holding : RepositoryOf[j] = r}

\* Mutant: an off-by-one in the quota test.
MutBelowRepositoryQuota(r) == activeByRepository[r] <= MaxConcurrentPerRepository

BelowRepositoryQuota(r) == activeByRepository[r] < MaxConcurrentPerRepository

\* Mutant: the global limit alone decides.
MutHasImmediateCapacity(r) == active < MaxConcurrent

\* Whether a new job of repository r would start synchronously in drain().
HasImmediateCapacity(r) == active < MaxConcurrent /\ BelowRepositoryQuota(r)

\* What findIndex() accepts at position i of the queue.
Eligible(i) == BelowRepositoryQuota(RepositoryOf[queue[i]])

\* queue.splice(i, 1)
WithoutPosition(i) ==
    [k \in 1..(Len(queue) - 1) |-> IF k < i THEN queue[k] ELSE queue[k + 1]]

-----------------------------------------------------------------------------

Init ==
    /\ queue = <<>>
    /\ active = 0
    /\ activeByRepository = [r \in Repository |-> 0]
    /\ running = {}
    /\ settled = {}
    /\ draining = FALSE

\* schedule(): refused with TaskQueueQuotaError (no step) unless the guard holds.
Schedule(j) ==
    /\ ~draining
    /\ j \notin Queued \union Holding
    /\ Len(queue) < MaxQueued \/ HasImmediateCapacity(RepositoryOf[j])
    /\ queue' = Append(queue, j)
    /\ draining' = TRUE
    /\ UNCHANGED <<active, activeByRepository, running, settled>>

\* Mutant: the newest eligible job starts.
MutDrainStart ==
    /\ draining
    /\ active < MaxConcurrent
    /\ \E i \in 1..Len(queue) :
        /\ Eligible(i)
        /\ \A k \in (i + 1)..Len(queue) : ~Eligible(k)
        /\ queue' = WithoutPosition(i)
        /\ activeByRepository' = [activeByRepository EXCEPT ![RepositoryOf[queue[i]]] = @ + 1]
        /\ running' = running \union {queue[i]}
    /\ active' = active + 1
    /\ UNCHANGED <<settled, draining>>

\* One iteration of drain(): the oldest job whose repository is below its quota starts.
DrainStart ==
    /\ draining
    /\ active < MaxConcurrent
    /\ \E i \in 1..Len(queue) :
        /\ Eligible(i)
        /\ \A k \in 1..(i - 1) : ~Eligible(k)
        /\ queue' = WithoutPosition(i)
        /\ activeByRepository' = [activeByRepository EXCEPT ![RepositoryOf[queue[i]]] = @ + 1]
        /\ running' = running \union {queue[i]}
    /\ active' = active + 1
    /\ UNCHANGED <<settled, draining>>

\* Mutant: only the head of the queue is looked at.
MutDrainStop ==
    /\ draining
    /\ active < MaxConcurrent /\ queue # <<>> => ~Eligible(1)
    /\ draining' = FALSE
    /\ UNCHANGED <<queue, active, activeByRepository, running, settled>>

\* drain() returns: no slot, or findIndex() found no job.
DrainStop ==
    /\ draining
    /\ active < MaxConcurrent => \A i \in 1..Len(queue) : ~Eligible(i)
    /\ draining' = FALSE
    /\ UNCHANGED <<queue, active, activeByRepository, running, settled>>

\* run() returned or threw: resolve(await run()) or reject(error).  The slot is still held.
Settle(j) ==
    /\ ~draining
    /\ j \in running
    /\ running' = running \ {j}
    /\ settled' = settled \union {j}
    /\ UNCHANGED <<queue, active, activeByRepository, draining>>

\* Mutants: the finally callback can run again; it does not drain.
MutFinallyTwice(j) ==
    /\ ~draining
    /\ j \in settled
    /\ active' = active - 1
    /\ activeByRepository' = [activeByRepository EXCEPT ![RepositoryOf[j]] = @ - 1]
    /\ draining' = TRUE
    /\ UNCHANGED <<queue, running, settled>>

MutFinallyNoDrain(j) ==
    /\ ~draining
    /\ j \in settled
    /\ settled' = settled \ {j}
    /\ active' = active - 1
    /\ activeByRepository' = [activeByRepository EXCEPT ![RepositoryOf[j]] = @ - 1]
    /\ UNCHANGED <<queue, running, draining>>

\* The finally callback of job.start(): gives the slot back and drains.
Finally(j) ==
    /\ ~draining
    /\ j \in settled
    /\ settled' = settled \ {j}
    /\ active' = active - 1
    /\ activeByRepository' = [activeByRepository EXCEPT ![RepositoryOf[j]] = @ - 1]
    /\ draining' = TRUE
    /\ UNCHANGED <<queue, running>>

Next ==
    \/ DrainStart
    \/ DrainStop
    \/ \E j \in Job : Schedule(j) \/ Settle(j) \/ Finally(j)

\* drain() is straight-line code and the finally callback a microtask, so both run on; that
\* run() ends is what the command and model timeouts of the runner and the agent are for.
\* Settle and Finally are strongly fair because drain() only pauses the event loop: a callback
\* that is due stays due across it.  Nobody is obliged to call schedule().
Fairness ==
    /\ WF_vars(DrainStart)
    /\ WF_vars(DrainStop)
    /\ \A j \in Job : SF_vars(Settle(j)) /\ SF_vars(Finally(j))

SafetySpec == Init /\ [][Next]_vars

Spec == SafetySpec /\ Fairness

-----------------------------------------------------------------------------

TypeOK ==
    /\ queue \in Seq(Job)
    /\ active \in 0..MaxConcurrent
    /\ activeByRepository \in [Repository -> 0..MaxConcurrentPerRepository]
    /\ running \in SUBSET Job
    /\ settled \in SUBSET Job
    /\ draining \in BOOLEAN

\* The slots really occupied never exceed the global limit, nor any repository's limit: counted
\* over the jobs themselves, so a counter that drifts from them breaks it (drain, finally).
QuotasRespected ==
    /\ Cardinality(Holding) <= MaxConcurrent
    /\ \A r \in Repository : Cardinality(HoldingOf(r)) <= MaxConcurrentPerRepository

\* Outside drain() no queued job could start: every slot is taken, or every queued job's
\* repository is at its quota.  It is what makes hasImmediateCapacity() speak for the NEW job.
WorkConserving ==
    ~draining /\ active < MaxConcurrent => \A i \in DOMAIN queue : ~Eligible(i)

\* schedule() lets a job past a full queue when it has immediate capacity; the queue must be back
\* within maxQueued when drain() returns, so it must be that job, not another, that starts.
QueueBounded == ~draining => Len(queue) <= MaxQueued

\* A job overtakes an older one only while the older one's repository is at its quota; in
\* particular the jobs of one repository start in the order they were scheduled.
NoUnfairOvertaking ==
    [][\A i \in DOMAIN queue :
         queue[i] \in running' =>
           \A k \in 1..(i - 1) : RepositoryOf[queue[k]] # RepositoryOf[queue[i]] /\ ~Eligible(k)]_vars

\* Every accepted job starts: neither limit starves a job while others keep arriving.
EveryQueuedJobStarts == \A j \in Job : j \in Queued ~> j \in running

-----------------------------------------------------------------------------
\* The specification drain() implements: arrivals and departures as single steps.  A job that
\* the executing drain() is about to start is already running there.

\* The position drain() starts next, or 0 when its loop is at its exit.
NextPosition ==
    IF draining /\ active < MaxConcurrent /\ \E i \in DOMAIN queue : Eligible(i)
    THEN CHOOSE i \in DOMAIN queue : Eligible(i) /\ \A k \in 1..(i - 1) : ~Eligible(k)
    ELSE 0

AbstractWaiting == IF NextPosition = 0 THEN queue ELSE WithoutPosition(NextPosition)

AbstractServed ==
    Holding \union (IF NextPosition = 0 THEN {} ELSE {queue[NextPosition]})

Admission == INSTANCE AdmissionControl WITH waiting <- AbstractWaiting, served <- AbstractServed

\* schedule() and the finally callback, with the loop they run, are one arrival or one departure
\* of the admission control specification.
ImplementsAdmissionControl == Admission!Spec

=============================================================================
