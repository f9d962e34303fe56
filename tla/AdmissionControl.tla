-------------------------- MODULE AdmissionControl ---------------------------
(***************************************************************************)
(* What a bounded scheduler with a per-repository quota promises, with     *)
(* every arrival and every departure a single step: at most MaxQueued jobs *)
(* wait, no job that could be served waits, a departure hands its slot to  *)
(* the oldest job that may take it.  TaskScheduler implements it.          *)
(***************************************************************************)
EXTENDS Integers, Sequences, FiniteSets

CONSTANTS Job, Repository, RepositoryOf, MaxConcurrent, MaxQueued, MaxConcurrentPerRepository

VARIABLES
    waiting,  \* the jobs that wait, oldest first
    served    \* the jobs that hold a slot

avars == <<waiting, served>>

\* Whether job j may be given a slot next to the set S of served jobs.
MayJoin(j, S) ==
    /\ Cardinality(S) < MaxConcurrent
    /\ Cardinality({k \in S : RepositoryOf[k] = RepositoryOf[j]}) < MaxConcurrentPerRepository

Init == waiting = <<>> /\ served = {}

New(j) == j \notin served /\ \A i \in DOMAIN waiting : waiting[i] # j

ArriveServed(j) ==
    /\ New(j)
    /\ MayJoin(j, served)
    /\ served' = served \union {j}
    /\ UNCHANGED waiting

ArriveWaiting(j) ==
    /\ New(j)
    /\ ~MayJoin(j, served)
    /\ Len(waiting) < MaxQueued
    /\ waiting' = Append(waiting, j)
    /\ UNCHANGED served

\* j leaves and nobody who waits may take the slot.
DepartIdle(j) ==
    /\ j \in served
    /\ \A i \in DOMAIN waiting : ~MayJoin(waiting[i], served \ {j})
    /\ served' = served \ {j}
    /\ UNCHANGED waiting

\* j leaves and the oldest job that may take the slot takes it.
DepartHandover(j) ==
    /\ j \in served
    /\ \E i \in DOMAIN waiting :
        /\ MayJoin(waiting[i], served \ {j})
        /\ \A k \in 1..(i - 1) : ~MayJoin(waiting[k], served \ {j})
        /\ served' = (served \ {j}) \union {waiting[i]}
        /\ waiting' = SubSeq(waiting, 1, i - 1) \o SubSeq(waiting, i + 1, Len(waiting))

Next ==
    \E j \in Job :
        ArriveServed(j) \/ ArriveWaiting(j) \/ DepartIdle(j) \/ DepartHandover(j)

Spec == Init /\ [][Next]_avars

=============================================================================
