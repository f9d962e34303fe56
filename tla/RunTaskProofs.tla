---------------------------- MODULE RunTaskProofs ----------------------------
(***************************************************************************)
(* Theorems about RunTask for any tasks, repositories, limits and numbers  *)
(* of events and faults.  The invariant follows every copy of a record     *)
(* that is stored or on its way to be: a copy that carries a result        *)
(* carries the final one, and none without it is under way by then.        *)
(***************************************************************************)
EXTENDS RunTask, FiniteSetTheorems, SequenceTheorems, TLAPS

BeforeResult == {"idle", "creating", "waiting", "starting", "preparing", "running"}

InSlot == {"starting", "preparing", "running", "snapshot", "releasing", "unwinding", "draining", "finishing"}

\* No other task can write where a task works.
Exclusive == hosted \/ MaxConcurrentPerRepository = 1

\* The catch block adds one event, no write is due for an event that is not there.
EventsCounted ==
    \A t \in Task :
        /\ eventsDue[t] <= record[t].events
        /\ pc[t] \notin {"catching", "rejected"} => record[t].events <= MaxEvents

\* A task that is in its slot's code is served, those in the queue wait, each once.
SlotsRight ==
    /\ IsFiniteSet(served)
    /\ \A t \in Task : pc[t] \in InSlot => t \in served
    /\ \A i \in 1..Len(waiting) : pc[waiting[i]] = "waiting"
    /\ \A i, k \in 1..Len(waiting) : waiting[i] = waiting[k] => i = k
    /\ MaxConcurrentPerRepository = 1 =>
         \A t, u \in served : RepositoryOf[t] = RepositoryOf[u] => t = u

\* What the sandbox of a call may be where the call is: it runs while the agent does and until it
\* is released, and outlives the run only behind a failure that came before the agent ran, or
\* behind a release that failed.
LeaseAt(sandbox, at, status, res) ==
    /\ sandbox \in {"live", "unstopped"} =>
         at \in {"running", "snapshot", "releasing", "unwinding", "catching", "rejected"}
    /\ sandbox = "unstopped" => at \in {"catching", "rejected"}
    /\ sandbox \in {"live", "unstopped"} /\ at \in {"catching", "rejected"} =>
         status = "failed" /\ (res = None \/ sandbox = "unstopped")

LeasesUsed ==
    \A t \in Task :
        /\ LeaseAt(lease[t], pc[t], record[t].status, result[t])
        /\ lease[t] = "expired" => faults > 0

\* The result and the snapshot are there from the await that returns them on, and agree.
ResultsAgree ==
    \A t \in Task :
        /\ pc[t] \in BeforeResult => result[t] = None
        /\ pc[t] \in BeforeResult \union {"snapshot"} => snapshot[t] = None
        /\ pc[t] \in {"snapshot", "releasing", "draining", "finishing", "returned"} => result[t] # None
        /\ pc[t] = "snapshot" /\ Exclusive => result[t].tree = checkout[Place(t)]
        /\ snapshot[t] # None /\ Exclusive =>
             /\ result[t] # None
             /\ snapshot[t] = result[t].tree \/ (snapshot[t] = Misread /\ faults > 0)

\* What a copy x of a record says, given the call's result, snapshot, record and place.
Faithful(x, res, snap, rec, at) ==
    /\ x.result = None => x.snapshot = None /\ x.status # "needs-human"
    /\ x.result # None =>
         /\ x.result = res /\ x.snapshot = snap
         /\ rec.result # None
         /\ at \in {"finishing", "returned"} => x.status = res.state /\ x.events = rec.events

\* The copies of the record of t: in memory, stored, or on their way to be stored.
Copies(t) ==
    {record[t]} \union ({stored[t], eventSave[t]} \ {None})
        \union {deciding[v].record : v \in {w \in Reviewer : deciding[w] # None /\ deciding[w].task = t}}

CopiesFaithful ==
    \A t \in Task : \A x \in Copies(t) : Faithful(x, result[t], snapshot[t], record[t], pc[t])

\* Decisions are about results.
DecisionsOnResults ==
    \A v \in Reviewer : deciding[v] # None => deciding[v].record.result # None

\* With the result in the record no event write is in flight, and when the call has returned the
\* result is stored.
ResultsSettled ==
    \A t \in Task :
        /\ record[t].result # None =>
             /\ eventSave[t] = None
             /\ pc[t] \in {"finishing", "returned", "catching", "rejected"}
        /\ pc[t] \in {"finishing", "returned"} => record[t].result # None
        /\ pc[t] = "returned" => stored[t] # None /\ stored[t].result # None

IInv ==
    /\ TypeOK
    /\ EventsCounted
    /\ SlotsRight
    /\ LeasesUsed
    /\ ResultsAgree
    /\ CopiesFaithful
    /\ DecisionsOnResults
    /\ ResultsSettled

-----------------------------------------------------------------------------
\* What the four ways to change a record change.

LEMMA CaughtRecord ==
    ASSUME TypeOK, NEW t \in Task, record[t].events <= MaxEvents, Caught(t)
    PROVE  /\ record' \in [Task -> Record]
           /\ pc' = [pc EXCEPT ![t] = "catching"]
           /\ \A u \in Task : u # t => record'[u] = record[u]
           /\ record'[t].events = record[t].events + 1
           /\ record'[t].result = record[t].result
           /\ record'[t].snapshot = record[t].snapshot
           /\ record'[t].status = "failed"
<1> DEFINE new == [record[t] EXCEPT !.status = "failed", !.events = @ + 1]
<1>1. record[t] \in Record
  BY DEF TypeOK
<1>2. record[t].events + 1 \in 0..(MaxEvents + 1)
  BY <1>1, RunTaskAssumption DEF Record
<1>3. /\ new \in Record
      /\ new.events = record[t].events + 1 /\ new.status = "failed"
      /\ new.result = record[t].result /\ new.snapshot = record[t].snapshot
  BY <1>1, <1>2 DEF Record, TerminalState
<1>4. record' = [record EXCEPT ![t] = new]
  BY DEF Caught
<1> QED
  BY <1>3, <1>4 DEF Caught, TypeOK

LEMMA StartedRecord ==
    ASSUME TypeOK, NEW t \in Task, Started(t, pc)
    PROVE  /\ record' \in [Task -> Record]
           /\ pc' = [pc EXCEPT ![t] = "starting"]
           /\ \A u \in Task : u # t => record'[u] = record[u]
           /\ record'[t].events = record[t].events
           /\ record'[t].result = record[t].result
           /\ record'[t].snapshot = record[t].snapshot
           /\ record'[t].status = "running"
<1> DEFINE new == [record[t] EXCEPT !.status = "running"]
<1>1. record[t] \in Record
  BY DEF TypeOK
<1>2. /\ new \in Record
      /\ new.events = record[t].events /\ new.status = "running"
      /\ new.result = record[t].result /\ new.snapshot = record[t].snapshot
  BY <1>1 DEF Record, TerminalState
<1>3. record' = [record EXCEPT ![t] = new]
  BY DEF Started
<1> QED
  BY <1>2, <1>3 DEF Started, TypeOK

LEMMA EmitRecord ==
    ASSUME TypeOK, NEW t \in Task, Emit(t)
    PROVE  /\ record' \in [Task -> Record]
           /\ \A u \in Task : u # t => record'[u] = record[u]
           /\ record'[t].events = record[t].events + 1
           /\ record'[t].result = record[t].result
           /\ record'[t].snapshot = record[t].snapshot
           /\ record'[t].status = record[t].status
<1> DEFINE new == [record[t] EXCEPT !.events = @ + 1]
<1>1. record[t] \in Record
  BY DEF TypeOK
<1>2. record[t].events + 1 \in 0..(MaxEvents + 1)
  BY <1>1, RunTaskAssumption DEF Record, Emit
<1>3. /\ new \in Record
      /\ new.events = record[t].events + 1 /\ new.status = record[t].status
      /\ new.result = record[t].result /\ new.snapshot = record[t].snapshot
  BY <1>1, <1>2 DEF Record
<1>4. record' = [record EXCEPT ![t] = new]
  BY DEF Emit
<1> QED
  BY <1>3, <1>4 DEF TypeOK

LEMMA FinishingRecord ==
    ASSUME TypeOK, NEW t \in Task, result[t] # None, Finishing(t)
    PROVE  /\ record' \in [Task -> Record]
           /\ pc' = [pc EXCEPT ![t] = "finishing"]
           /\ \A u \in Task : u # t => record'[u] = record[u]
           /\ record'[t].events = record[t].events
           /\ record'[t].result = result[t]
           /\ record'[t].snapshot = snapshot[t]
           /\ record'[t].status = result[t].state
<1> DEFINE new == [record[t] EXCEPT !.status = result[t].state, !.result = result[t], !.snapshot = snapshot[t]]
<1>1. record[t] \in Record /\ result[t] \in TaskResult /\ snapshot[t] \in Snapshot
  BY DEF TypeOK
<1>2. /\ new \in Record
      /\ new.events = record[t].events /\ new.status = result[t].state
      /\ new.result = result[t] /\ new.snapshot = snapshot[t]
  BY <1>1 DEF Record, TaskResult
<1>3. record' = [record EXCEPT ![t] = new]
  BY DEF Finishing
<1> QED
  BY <1>2, <1>3 DEF Finishing, TypeOK

\* What the scheduler's handover does to the queue.
LEMMA Without ==
    ASSUME NEW w \in Seq(Task), NEW i \in 1..Len(w)
    PROVE  LET rest == SubSeq(w, 1, i - 1) \o SubSeq(w, i + 1, Len(w))
           IN  /\ rest \in Seq(Task)
               /\ Len(rest) = Len(w) - 1
               /\ \A k \in 1..(Len(w) - 1) : rest[k] = IF k < i THEN w[k] ELSE w[k + 1]
<1> DEFINE front == SubSeq(w, 1, i - 1)
           back == SubSeq(w, i + 1, Len(w))
<1>0. /\ Len(w) \in Nat /\ 1 \in Int /\ i - 1 \in Int /\ i + 1 \in Int /\ Len(w) \in Int
      /\ \A k \in 1..Len(w) : w[k] \in Task
  OBVIOUS
<1>1. /\ front \in Seq(Task) /\ Len(front) = i - 1
      /\ \A k \in 1..(i - 1) : front[k] = w[k]
  <2>1. \A k \in 1..(i - 1) : w[k] \in Task
    BY <1>0
  <2>2. /\ front \in Seq(Task)
        /\ Len(front) = IF 1 <= i - 1 THEN (i - 1) - 1 + 1 ELSE 0
        /\ \A k \in 1..((i - 1) - 1 + 1) : front[k] = w[1 + k - 1]
    BY <1>0, <2>1, SubSeqProperties
  <2> HIDE DEF front
  <2> QED
    BY <2>2
<1>2. /\ back \in Seq(Task) /\ Len(back) = Len(w) - i
      /\ \A k \in 1..(Len(w) - i) : back[k] = w[i + k]
  <2>1. \A k \in (i + 1)..Len(w) : w[k] \in Task
    BY <1>0
  <2>2. /\ back \in Seq(Task)
        /\ Len(back) = IF i + 1 <= Len(w) THEN Len(w) - (i + 1) + 1 ELSE 0
        /\ \A k \in 1..(Len(w) - (i + 1) + 1) : back[k] = w[(i + 1) + k - 1]
    BY <1>0, <2>1, SubSeqProperties
  <2> HIDE DEF back
  <2> QED
    BY <1>0, <2>2
<1>3. /\ front \o back \in Seq(Task)
      /\ Len(front \o back) = Len(front) + Len(back)
      /\ \A k \in 1..Len(front) + Len(back) :
           (front \o back)[k] = IF k <= Len(front) THEN front[k] ELSE back[k - Len(front)]
  BY <1>1, <1>2, ConcatProperties, Zenon
<1> HIDE DEF front, back
<1>4. ASSUME NEW k \in 1..(Len(w) - 1)
      PROVE  (front \o back)[k] = IF k < i THEN w[k] ELSE w[k + 1]
  <2>1. CASE k < i
    BY <1>1, <1>2, <1>3, <2>1
  <2>2. CASE ~(k < i)
    <3>1. k - (i - 1) \in 1..(Len(w) - i) /\ i + (k - (i - 1)) = k + 1
      BY <1>0, <2>2
    <3>2. (front \o back)[k] = back[k - (i - 1)]
      BY <1>0, <1>1, <1>2, <1>3, <2>2
    <3>3. back[k - (i - 1)] = w[i + (k - (i - 1))]
      BY <1>2, <3>1
    <3> QED
      BY <2>2, <3>1, <3>2, <3>3
  <2> QED
    BY <2>1, <2>2
<1>5. Len(front) + Len(back) = Len(w) - 1
  BY <1>0, <1>1, <1>2
<1> QED
  BY <1>3, <1>4, <1>5 DEF front, back

-----------------------------------------------------------------------------

LEMMA InitIInv == Init => IInv
<1> SUFFICES ASSUME Init PROVE IInv
  OBVIOUS
<1> USE RunTaskAssumption DEF Init, Admission!Init
<1>1. NewRecord \in Record
  BY DEF NewRecord, Record, Snapshot
<1>2. TypeOK
  <2>1. waiting \in Seq(Task)
    OBVIOUS
  <2>2. 0 \in 0..MaxEvents /\ 0 \in 0..MaxFaults
    OBVIOUS
  <2> QED
    BY <1>1, <2>1, <2>2 DEF TypeOK, Snapshot
<1>3. EventsCounted
  BY DEF EventsCounted, NewRecord
<1>4. SlotsRight
  BY FS_EmptySet DEF SlotsRight, InSlot
<1>5. LeasesUsed /\ ResultsAgree
  BY DEF LeasesUsed, LeaseAt, ResultsAgree
<1>6. CopiesFaithful /\ DecisionsOnResults
  BY DEF CopiesFaithful, DecisionsOnResults, Copies, Faithful, NewRecord
<1>7. ResultsSettled
  BY DEF ResultsSettled, NewRecord
<1> QED
  BY <1>2, <1>3, <1>4, <1>5, <1>6, <1>7 DEF IInv

-----------------------------------------------------------------------------
\* Types, and how many events a record has.

\* The catch block keeps the types and the count of events.
LEMMA CaughtKeeps ==
    ASSUME TypeOK, EventsCounted, NEW t \in Task, pc[t] \notin {"catching", "rejected"},
           Caught(t), eventsDue' = eventsDue
    PROVE  /\ record' \in [Task -> Record]
           /\ pc' = [pc EXCEPT ![t] = "catching"]
           /\ EventsCounted'
<1>1. record[t].events <= MaxEvents
  BY DEF EventsCounted
<1>2. /\ record' \in [Task -> Record]
      /\ pc' = [pc EXCEPT ![t] = "catching"]
      /\ \A u \in Task : u # t => record'[u] = record[u]
      /\ record'[t].events = record[t].events + 1
  BY <1>1, CaughtRecord
<1>3. ASSUME NEW u \in Task
      PROVE  /\ eventsDue'[u] <= record'[u].events
             /\ pc'[u] \notin {"catching", "rejected"} => record'[u].events <= MaxEvents
  <2>1. CASE u = t
    <3>1. eventsDue[t] \in Nat /\ record[t].events \in Nat /\ eventsDue[t] <= record[t].events
      BY RunTaskAssumption DEF TypeOK, Record, EventsCounted
    <3>2. pc'[t] = "catching"
      BY <1>2 DEF TypeOK
    <3> QED
      BY <1>2, <2>1, <3>1, <3>2
  <2>2. CASE u # t
    BY <1>2, <2>2 DEF TypeOK, EventsCounted
  <2> QED
    BY <2>1, <2>2
<1> QED
  BY <1>2, <1>3 DEF EventsCounted

LEMMA StartedKeeps ==
    ASSUME TypeOK, EventsCounted, NEW t \in Task, pc[t] \notin {"catching", "rejected"},
           Started(t, pc), eventsDue' = eventsDue
    PROVE  /\ record' \in [Task -> Record]
           /\ pc' = [pc EXCEPT ![t] = "starting"]
           /\ EventsCounted'
<1>1. /\ record' \in [Task -> Record]
      /\ pc' = [pc EXCEPT ![t] = "starting"]
      /\ \A u \in Task : record'[u].events = record[u].events
      /\ \A u \in Task : u # t => pc'[u] = pc[u]
  BY StartedRecord DEF TypeOK
<1> QED
  BY <1>1 DEF EventsCounted

\* The handover serves the i-th waiting task.
LEMMA Handover ==
    ASSUME TypeOK, SlotsRight, NEW t \in Task, Admission!DepartHandover(t)
    PROVE  \E i \in 1..Len(waiting) :
             /\ waiting[i] \in Task /\ pc[waiting[i]] = "waiting"
             /\ Admission!MayJoin(waiting[i], served \ {t})
             /\ served' = (served \ {t}) \union {waiting[i]}
             /\ waiting' \in Seq(Task)
             /\ Len(waiting') = Len(waiting) - 1
             /\ \A k \in 1..(Len(waiting) - 1) :
                  waiting'[k] = IF k < i THEN waiting[k] ELSE waiting[k + 1]
<1>1. PICK i \in DOMAIN waiting :
        /\ Admission!MayJoin(waiting[i], served \ {t})
        /\ served' = (served \ {t}) \union {waiting[i]}
        /\ waiting' = SubSeq(waiting, 1, i - 1) \o SubSeq(waiting, i + 1, Len(waiting))
  BY DEF Admission!DepartHandover
<1>2. i \in 1..Len(waiting) /\ waiting \in Seq(Task) /\ waiting[i] \in Task /\ pc[waiting[i]] = "waiting"
  BY DEF TypeOK, SlotsRight
<1>3. /\ waiting' \in Seq(Task)
      /\ Len(waiting') = Len(waiting) - 1
      /\ \A k \in 1..(Len(waiting) - 1) : waiting'[k] = IF k < i THEN waiting[k] ELSE waiting[k + 1]
  BY <1>1, <1>2, Without
<1> QED
  BY <1>1, <1>2, <1>3

\* What serving, queueing and leaving do to the scheduler's state.
LEMMA SchedulerType ==
    ASSUME TypeOK, SlotsRight, NEW t \in Task,
           Admission!ArriveServed(t) \/ Admission!ArriveWaiting(t)
             \/ Admission!DepartIdle(t) \/ Admission!DepartHandover(t)
    PROVE  waiting' \in Seq(Task) /\ served' \in SUBSET Task
<1>1. CASE Admission!ArriveServed(t)
  BY <1>1 DEF Admission!ArriveServed, TypeOK
<1>2. CASE Admission!ArriveWaiting(t)
  BY <1>2 DEF Admission!ArriveWaiting, TypeOK
<1>3. CASE Admission!DepartIdle(t)
  BY <1>3 DEF Admission!DepartIdle, TypeOK
<1>4. CASE Admission!DepartHandover(t)
  <2>1. \E i \in 1..Len(waiting) :
          waiting[i] \in Task /\ served' = (served \ {t}) \union {waiting[i]} /\ waiting' \in Seq(Task)
    BY <1>4, Handover
  <2> QED
    BY <2>1 DEF TypeOK
<1> QED
  BY <1>1, <1>2, <1>3, <1>4

LEMMA FaultType ==
    ASSUME TypeOK, Fault
    PROVE  faults' \in 0..MaxFaults /\ hosted' \in BOOLEAN
BY RunTaskAssumption DEF Fault, TypeOK

\* A failed store operation leaves a record, or none, where there was one.
LEMMA PerhapsStoredType ==
    ASSUME TypeOK, NEW t \in Task, NEW value \in Record, PerhapsStored(t, value)
    PROVE  stored' \in [Task -> Record \union {None}]
BY DEF PerhapsStored, TypeOK

LEMMA NextType == TypeOK /\ EventsCounted /\ SlotsRight /\ ResultsAgree /\ Next => TypeOK' /\ EventsCounted'
<1> SUFFICES ASSUME TypeOK, EventsCounted, SlotsRight, ResultsAgree, Next PROVE TypeOK' /\ EventsCounted'
  OBVIOUS
<1> USE RunTaskAssumption DEF scheduler, eventWrites, run, environment
<1>1. ASSUME NEW t \in Task, Call(t) PROVE TypeOK' /\ EventsCounted'
  BY <1>1 DEF Call, TypeOK, EventsCounted
<1>2. ASSUME NEW t \in Task, Enqueue(t) PROVE TypeOK' /\ EventsCounted'
  <2>1. waiting' \in Seq(Task) /\ served' \in SUBSET Task
    BY <1>2, SchedulerType DEF Enqueue, TypeOK
  <2>2. pc[t] \notin {"catching", "rejected"} /\ eventsDue' = eventsDue
    BY <1>2 DEF Enqueue
  <2>3. CASE Started(t, pc)
    BY <1>2, <2>1, <2>2, <2>3, StartedKeeps DEF Enqueue, TypeOK
  <2>4. CASE pc' = [pc EXCEPT ![t] = "waiting"] /\ UNCHANGED record
    BY <1>2, <2>1, <2>2, <2>4 DEF Enqueue, TypeOK, EventsCounted
  <2>5. CASE Caught(t)
    BY <1>2, <2>1, <2>2, <2>5, CaughtKeeps DEF Enqueue, TypeOK
  <2> QED
    BY <1>2, <2>3, <2>4, <2>5 DEF Enqueue
<1>3. ASSUME NEW t \in Task, CreateFails(t) PROVE TypeOK' /\ EventsCounted'
  <2>1. stored' \in [Task -> Record \union {None}]
    BY <1>3, PerhapsStoredType DEF CreateFails, TypeOK
  <2> QED
    BY <1>3, <2>1, FaultType DEF CreateFails, TypeOK, EventsCounted
<1>4. ASSUME NEW t \in Task, RunningSaved(t) PROVE TypeOK' /\ EventsCounted'
  BY <1>4 DEF RunningSaved, TypeOK, EventsCounted
<1>5. ASSUME NEW t \in Task, RunningSaveFails(t) PROVE TypeOK' /\ EventsCounted'
  <2>1. stored' \in [Task -> Record \union {None}]
    BY <1>5, PerhapsStoredType DEF RunningSaveFails, TypeOK
  <2>2. pc[t] \notin {"catching", "rejected"} /\ Caught(t) /\ eventsDue' = eventsDue
    BY <1>5 DEF RunningSaveFails
  <2> QED
    BY <1>5, <2>1, <2>2, CaughtKeeps, FaultType DEF RunningSaveFails, TypeOK
<1>6. ASSUME NEW t \in Task, Prepare(t) PROVE TypeOK' /\ EventsCounted'
  BY <1>6 DEF Prepare, TypeOK, EventsCounted
<1>7. ASSUME NEW t \in Task, PrepareFails(t) PROVE TypeOK' /\ EventsCounted'
  <2>1. pc[t] \notin {"catching", "rejected"} /\ Caught(t) /\ eventsDue' = eventsDue
    BY <1>7 DEF PrepareFails
  <2> QED
    BY <1>7, <2>1, CaughtKeeps, FaultType DEF PrepareFails, TypeOK
<1>8. ASSUME NEW t \in Task, Emit(t) PROVE TypeOK' /\ EventsCounted'
  <2>1. /\ record[t].events \in Nat /\ record[t].events < MaxEvents
        /\ eventsDue[t] \in Nat /\ eventsDue[t] <= record[t].events
    BY <1>8 DEF Emit, TypeOK, EventsCounted, Record
  <2>2. record' \in [Task -> Record]
    BY <1>8, EmitRecord
  <2>3. eventSave' \in [Task -> Record \union {None}] /\ eventsDue' \in [Task -> 0..MaxEvents]
    <3>1. eventsDue[t] + 1 \in 0..MaxEvents /\ record'[t] \in Record
      BY <2>1, <2>2
    <3> QED
      BY <1>8, <3>1 DEF Emit, TypeOK
  <2>4. TypeOK'
    BY <1>8, <2>2, <2>3 DEF Emit, TypeOK
  <2>5. eventsDue'[t] <= eventsDue[t] + 1 /\ \A u \in Task : u # t => eventsDue'[u] = eventsDue[u]
    BY <1>8, <2>1 DEF Emit, TypeOK
  <2>6. pc' = pc /\ record'[t].events = record[t].events + 1 /\ \A u \in Task : u # t => record'[u] = record[u]
    BY <1>8, EmitRecord DEF Emit
  <2>7. eventsDue'[t] \in Nat
    BY <2>3
  <2>8. EventsCounted'
    BY <2>1, <2>5, <2>6, <2>7 DEF EventsCounted
  <2> QED
    BY <2>4, <2>8
<1>9. ASSUME NEW t \in Task, EventSaved(t) PROVE TypeOK' /\ EventsCounted'
  <2>1. eventsDue[t] \in 0..MaxEvents /\ record[t].events \in Nat /\ eventSave[t] \in Record
    BY <1>9 DEF EventSaved, TypeOK, Record
  <2>2. TypeOK'
    <3>1. eventsDue[t] > 0 => eventsDue[t] - 1 \in 0..MaxEvents
      BY <2>1
    <3>2. eventsDue' \in [Task -> 0..MaxEvents] /\ eventSave' \in [Task -> Record \union {None}]
      <4>1. CASE eventsDue[t] > 0
        <5>1. /\ eventSave' = [eventSave EXCEPT ![t] = record[t]]
              /\ eventsDue' = [eventsDue EXCEPT ![t] = @ - 1]
          BY <1>9, <2>1, <4>1 DEF EventSaved
        <5>2. record[t] \in Record
          BY DEF TypeOK
        <5> QED
          BY <3>1, <4>1, <5>1, <5>2 DEF TypeOK
      <4>2. CASE eventsDue[t] = 0
        <5>1. eventSave' = [eventSave EXCEPT ![t] = None] /\ eventsDue' = eventsDue
          BY <1>9, <2>1, <4>2 DEF EventSaved
        <5> QED
          BY <5>1 DEF TypeOK
      <4> QED
        BY <2>1, <4>1, <4>2
    <3> QED
      BY <1>9, <2>1, <3>2 DEF EventSaved, TypeOK
  <2>3. eventsDue'[t] <= eventsDue[t] /\ eventsDue'[t] \in Nat /\ \A u \in Task : u # t => eventsDue'[u] = eventsDue[u]
    BY <1>9, <2>1 DEF EventSaved, TypeOK
  <2>4. record' = record /\ pc' = pc /\ eventsDue[t] <= record[t].events
    BY <1>9 DEF EventSaved, EventsCounted
  <2> QED
    BY <2>1, <2>2, <2>3, <2>4 DEF EventsCounted
<1>10. ASSUME NEW t \in Task, EventSaveFails(t) PROVE TypeOK' /\ EventsCounted'
  <2>1. eventSave[t] \in Record /\ \A u \in Task : record[u].events \in Nat
    BY <1>10 DEF EventSaveFails, TypeOK, Record
  <2>2. stored' \in [Task -> Record \union {None}]
    BY <1>10, <2>1, PerhapsStoredType DEF EventSaveFails
  <2>3. 0 \in 0..MaxEvents
    OBVIOUS
  <2>4. TypeOK'
    BY <1>10, <2>2, <2>3, FaultType DEF EventSaveFails, TypeOK
  <2>5. EventsCounted'
    BY <1>10, <2>1 DEF EventSaveFails, TypeOK, EventsCounted
  <2> QED
    BY <2>4, <2>5
<1>11. ASSUME NEW t \in Task, Edit(t) PROVE TypeOK' /\ EventsCounted'
  <2>1. Place(t) \in Task \union Repository
    BY DEF Place
  <2> QED
    BY <1>11, <2>1 DEF Edit, TypeOK, EventsCounted
<1>12. ASSUME NEW t \in Task, LeaseExpires(t) PROVE TypeOK' /\ EventsCounted'
  BY <1>12, FaultType DEF LeaseExpires, TypeOK, EventsCounted
<1>13. ASSUME NEW t \in Task, AgentEnds(t) PROVE TypeOK' /\ EventsCounted'
  <2>1. Place(t) \in Task \union Repository
    BY DEF Place
  <2>2. checkout[Place(t)] \in Task \union {Clean}
    BY <2>1 DEF TypeOK
  <2>3. Outcomes(t) \subseteq TaskResult
    BY <2>2 DEF Outcomes, TaskResult, TerminalState
  <2> QED
    BY <1>13, <2>3 DEF AgentEnds, TypeOK, EventsCounted
<1>14. ASSUME NEW t \in Task, SnapshotTaken(t) PROVE TypeOK' /\ EventsCounted'
  <2>1. Place(t) \in Task \union Repository
    BY DEF Place
  <2> QED
    BY <1>14, <2>1 DEF SnapshotTaken, Snapshot, TypeOK, EventsCounted
<1>15. ASSUME NEW t \in Task, SnapshotMisreads(t) \/ SnapshotFails(t) PROVE TypeOK' /\ EventsCounted'
  <2>1. hosted' \in BOOLEAN /\ faults' \in 0..MaxFaults
    BY <1>15, FaultType DEF SnapshotMisreads, SnapshotFails, Unreachable, TypeOK
  <2> QED
    BY <1>15, <2>1 DEF SnapshotMisreads, SnapshotFails, Snapshot, TypeOK, EventsCounted
<1>16. ASSUME NEW t \in Task, Release(t) PROVE TypeOK' /\ EventsCounted'
  <2>1. CASE UNCHANGED record /\ pc' = [pc EXCEPT ![t] = "draining"] /\ pc[t] = "releasing"
    BY <1>16, <2>1 DEF Release, TypeOK, EventsCounted
  <2>2. CASE pc[t] = "unwinding" /\ Caught(t)
    <3>1. pc[t] \notin {"catching", "rejected"} /\ eventsDue' = eventsDue
      BY <1>16, <2>2 DEF Release
    <3> QED
      BY <1>16, <2>2, <3>1, CaughtKeeps DEF Release, TypeOK
  <2> QED
    BY <1>16, <2>1, <2>2 DEF Release
<1>17. ASSUME NEW t \in Task, ReleaseFails(t) PROVE TypeOK' /\ EventsCounted'
  <2>1. pc[t] \notin {"catching", "rejected"} /\ Caught(t) /\ eventsDue' = eventsDue
    BY <1>17 DEF ReleaseFails
  <2> QED
    BY <1>17, <2>1, CaughtKeeps, FaultType DEF ReleaseFails, TypeOK
<1>18. ASSUME NEW t \in Task, EventsWritten(t) PROVE TypeOK' /\ EventsCounted'
  <2>1. result[t] # None
    BY <1>18 DEF EventsWritten, ResultsAgree
  <2> QED
    BY <1>18, <2>1, FinishingRecord DEF EventsWritten, TypeOK, EventsCounted
<1>19. ASSUME NEW t \in Task, EventsRejected(t) PROVE TypeOK' /\ EventsCounted'
  <2>1. pc[t] \notin {"catching", "rejected"} /\ Caught(t) /\ eventsDue' = eventsDue
    BY <1>19 DEF EventsRejected
  <2> QED
    BY <1>19, <2>1, CaughtKeeps DEF EventsRejected, TypeOK
<1>20. ASSUME NEW t \in Task, ResultSaved(t) PROVE TypeOK' /\ EventsCounted'
  BY <1>20 DEF ResultSaved, TypeOK, EventsCounted
<1>21. ASSUME NEW t \in Task, ResultSaveFails(t) PROVE TypeOK' /\ EventsCounted'
  <2>1. stored' \in [Task -> Record \union {None}]
    BY <1>21, PerhapsStoredType DEF ResultSaveFails, TypeOK
  <2>2. pc[t] \notin {"catching", "rejected"} /\ Caught(t) /\ eventsDue' = eventsDue
    BY <1>21 DEF ResultSaveFails
  <2> QED
    BY <1>21, <2>1, <2>2, CaughtKeeps, FaultType DEF ResultSaveFails, TypeOK
<1>22. ASSUME NEW t \in Task, FailureSaved(t) PROVE TypeOK' /\ EventsCounted'
  BY <1>22 DEF FailureSaved, TypeOK, EventsCounted
<1>23. ASSUME NEW t \in Task, FailureSaveFails(t) PROVE TypeOK' /\ EventsCounted'
  <2>1. stored' \in [Task -> Record \union {None}]
    BY <1>23, PerhapsStoredType DEF FailureSaveFails, TypeOK
  <2> QED
    BY <1>23, <2>1, FaultType DEF FailureSaveFails, TypeOK, EventsCounted
<1>24. ASSUME NEW t \in Task, LeaveSlot(t) PROVE TypeOK' /\ EventsCounted'
  <2>1. waiting' \in Seq(Task) /\ served' \in SUBSET Task
    BY <1>24, SchedulerType DEF LeaveSlot
  <2>2. CASE UNCHANGED <<pc, record>>
    BY <1>24, <2>1, <2>2 DEF LeaveSlot, TypeOK, EventsCounted
  <2>3. CASE \E u \in served' \ served : Started(u, pc)
    <3>1. PICK u \in served' \ served : Started(u, pc)
      BY <2>3
    <3>2. Admission!DepartHandover(t)
      BY <1>24, <3>1 DEF LeaveSlot, Admission!DepartIdle
    <3>3. u \in Task /\ pc[u] = "waiting"
      BY <3>1, <3>2, Handover
    <3> QED
      BY <1>24, <2>1, <3>1, <3>3, StartedKeeps DEF LeaveSlot, TypeOK
  <2> QED
    BY <1>24, <2>2, <2>3 DEF LeaveSlot
<1>25. ASSUME NEW v \in Reviewer, NEW t \in Task, Decide(v, t) PROVE TypeOK' /\ EventsCounted'
  <2>1. stored[t] \in Record /\ v \in Reviewer
    BY <1>25 DEF Decide, TypeOK
  <2>2. [stored[t] EXCEPT !.approval = v] \in Record
    BY <2>1 DEF Record
  <2> QED
    BY <1>25, <2>2 DEF Decide, TypeOK, EventsCounted
<1>26. ASSUME NEW v \in Reviewer, DecisionSaved(v) PROVE TypeOK' /\ EventsCounted'
  <2>1. deciding[v] \in [task : Task, record : Record]
    BY <1>26 DEF DecisionSaved, TypeOK
  <2> QED
    BY <1>26, <2>1 DEF DecisionSaved, TypeOK, EventsCounted
<1>27. ASSUME NEW v \in Reviewer, DecisionSaveFails(v) PROVE TypeOK' /\ EventsCounted'
  <2>1. deciding[v] \in [task : Task, record : Record]
    BY <1>27 DEF DecisionSaveFails, TypeOK
  <2>2. stored' \in [Task -> Record \union {None}]
    BY <1>27, <2>1, PerhapsStoredType DEF DecisionSaveFails
  <2> QED
    BY <1>27, <2>1, <2>2, FaultType DEF DecisionSaveFails, TypeOK, EventsCounted
<1> QED
  BY <1>1, <1>2, <1>3, <1>4, <1>5, <1>6, <1>7, <1>8, <1>9, <1>10, <1>11, <1>12, <1>13, <1>14, <1>15, <1>16, <1>17, <1>18, <1>19, <1>20, <1>21, <1>22, <1>23, <1>24, <1>25, <1>26, <1>27 DEF Next, Step

-----------------------------------------------------------------------------
\* The control flow of one call.

\* snapshotChangedFiles() returns.
SnapshotRead(t) == SnapshotTaken(t) \/ SnapshotMisreads(t)

Moves(t) ==
    \/ Call(t) \/ CreateFails(t) \/ RunningSaved(t) \/ RunningSaveFails(t)
    \/ Prepare(t) \/ PrepareFails(t) \/ AgentEnds(t)
    \/ SnapshotRead(t) \/ SnapshotFails(t) \/ Release(t) \/ ReleaseFails(t)
    \/ EventsWritten(t) \/ EventsRejected(t) \/ ResultSaved(t) \/ ResultSaveFails(t)
    \/ FailureSaved(t) \/ FailureSaveFails(t)

Stays(t) == Emit(t) \/ EventSaved(t) \/ EventSaveFails(t) \/ Edit(t) \/ LeaseExpires(t)

Decides(v) == (\E t \in Task : Decide(v, t)) \/ DecisionSaved(v) \/ DecisionSaveFails(v)

\* Where a call may go by itself.
Edges ==
    {<<"idle", "creating">>, <<"creating", "rejected">>,
     <<"starting", "preparing">>, <<"starting", "catching">>,
     <<"preparing", "running">>, <<"preparing", "catching">>,
     <<"running", "snapshot">>, <<"running", "releasing">>,
     <<"snapshot", "releasing">>, <<"snapshot", "unwinding">>,
     <<"releasing", "draining">>, <<"releasing", "catching">>, <<"unwinding", "catching">>,
     <<"draining", "finishing">>, <<"draining", "catching">>,
     <<"finishing", "returned">>, <<"finishing", "catching">>, <<"catching", "rejected">>}

LEMMA NextCases ==
    ASSUME Next
    PROVE  \/ \E t \in Task : Enqueue(t) \/ LeaveSlot(t) \/ Moves(t) \/ Stays(t)
           \/ \E v \in Reviewer : Decides(v)
BY DEF Next, Step, Moves, SnapshotRead, Stays, Decides

LEMMA MovesAlongEdges ==
    ASSUME TypeOK, NEW t \in Task, Moves(t)
    PROVE  /\ UNCHANGED <<scheduler, eventSave, eventsDue, eventsLost, deciding>>
           /\ \A u \in Task : u # t => pc'[u] = pc[u]
           /\ <<pc[t], pc'[t]>> \in Edges
<1> USE DEF scheduler, eventWrites, run, environment
<1>1. CASE Call(t)
  BY <1>1 DEF Call, TypeOK, Edges
<1>2. CASE CreateFails(t)
  BY <1>2 DEF CreateFails, TypeOK, Edges
<1>3. CASE RunningSaved(t)
  BY <1>3 DEF RunningSaved, TypeOK, Edges
<1>4. CASE RunningSaveFails(t)
  BY <1>4 DEF RunningSaveFails, Caught, TypeOK, Edges
<1>5. CASE Prepare(t)
  BY <1>5 DEF Prepare, TypeOK, Edges
<1>6. CASE PrepareFails(t)
  BY <1>6 DEF PrepareFails, Caught, TypeOK, Edges
<1>7. CASE AgentEnds(t)
  BY <1>7 DEF AgentEnds, TypeOK, Edges
<1>8. CASE SnapshotRead(t)
  BY <1>8 DEF SnapshotRead, SnapshotTaken, SnapshotMisreads, TypeOK, Edges
<1>9. CASE SnapshotFails(t)
  BY <1>9 DEF SnapshotFails, TypeOK, Edges
<1>10. CASE Release(t)
  BY <1>10 DEF Release, Caught, TypeOK, Edges
<1>11. CASE ReleaseFails(t)
  BY <1>11 DEF ReleaseFails, Caught, TypeOK, Edges
<1>12. CASE EventsWritten(t)
  BY <1>12 DEF EventsWritten, Finishing, TypeOK, Edges
<1>13. CASE EventsRejected(t)
  BY <1>13 DEF EventsRejected, Caught, TypeOK, Edges
<1>14. CASE ResultSaved(t)
  BY <1>14 DEF ResultSaved, TypeOK, Edges
<1>15. CASE ResultSaveFails(t)
  BY <1>15 DEF ResultSaveFails, Caught, TypeOK, Edges
<1>16. CASE FailureSaved(t)
  BY <1>16 DEF FailureSaved, TypeOK, Edges
<1>17. CASE FailureSaveFails(t)
  BY <1>17 DEF FailureSaveFails, TypeOK, Edges
<1> QED
  BY <1>1, <1>2, <1>3, <1>4, <1>5, <1>6, <1>7, <1>8, <1>9, <1>10, <1>11, <1>12, <1>13, <1>14, <1>15, <1>16, <1>17 DEF Moves

-----------------------------------------------------------------------------
\* The scheduler's slots and the leases.

LEMMA SlotsStable ==
    ASSUME TypeOK, SlotsRight, UNCHANGED scheduler,
           \A u \in Task : pc'[u] = pc[u] \/ <<pc[u], pc'[u]>> \in Edges
    PROVE  SlotsRight'
<1>1. \A u \in Task : /\ pc'[u] \in InSlot => pc[u] \in InSlot
                      /\ pc[u] = "waiting" => pc'[u] = "waiting"
  BY DEF Edges, InSlot
<1>2. waiting' = waiting /\ served' = served /\ \A i \in 1..Len(waiting) : waiting[i] \in Task
  BY DEF scheduler, TypeOK
<1> QED
  BY <1>1, <1>2 DEF SlotsRight

\* A task that joins is, with a quota of one, the only one of its repository.
LEMMA JoinsAlone ==
    ASSUME NEW S, IsFiniteSet(S), NEW j, Admission!MayJoin(j, S), MaxConcurrentPerRepository = 1
    PROVE  \A k \in S : RepositoryOf[k] # RepositoryOf[j]
<1>1. Cardinality({k \in S : RepositoryOf[k] = RepositoryOf[j]}) < 1
  <2>1. Admission!Cardinality({k \in S : RepositoryOf[k] = RepositoryOf[j]}) < 1
    BY DEF Admission!MayJoin
  <2> QED
    BY <2>1 DEF Cardinality, Admission!Cardinality
<1> DEFINE same == {k \in S : RepositoryOf[k] = RepositoryOf[j]}
<1>2. IsFiniteSet(same)
  BY FS_Subset
<1>3. Cardinality(same) \in Nat
  BY <1>2, FS_CardinalityType
<1>4. Cardinality(same) < 1
  BY <1>1
<1> HIDE DEF same
<1>5. Cardinality(same) = 0
  BY <1>3, <1>4
<1>6. same = {}
  BY <1>2, <1>5, FS_EmptySet
<1> QED
  BY <1>6 DEF same

LEMMA EnqueueSlots ==
    ASSUME TypeOK, SlotsRight, NEW t \in Task, Enqueue(t)
    PROVE  SlotsRight'
<1>1. pc[t] = "creating" /\ \A i \in 1..Len(waiting) : waiting[i] \in Task /\ waiting[i] # t
  BY DEF Enqueue, SlotsRight, TypeOK
<1>2. CASE Admission!ArriveServed(t) /\ Started(t, pc)
  <2>1. /\ waiting' = waiting /\ served' = served \union {t}
        /\ Admission!MayJoin(t, served) /\ IsFiniteSet(served) /\ served \subseteq Task
    BY <1>2 DEF Admission!ArriveServed, SlotsRight, TypeOK
  <2>2. IsFiniteSet(served')
    BY <2>1, FS_AddElement
  <2>3. \A u \in Task : pc'[u] = IF u = t THEN "starting" ELSE pc[u]
    BY <1>2 DEF Started, TypeOK
  <2>4. MaxConcurrentPerRepository = 1 => \A k \in served : RepositoryOf[k] # RepositoryOf[t]
    BY <2>1, JoinsAlone
  <2>5. MaxConcurrentPerRepository = 1 =>
          \A u, k \in served' : RepositoryOf[u] = RepositoryOf[k] => u = k
    BY <2>1, <2>4 DEF SlotsRight
  <2> QED
    BY <1>1, <2>1, <2>2, <2>3, <2>5 DEF SlotsRight
<1>3. CASE Admission!ArriveWaiting(t) /\ pc' = [pc EXCEPT ![t] = "waiting"]
  <2>1. waiting' = Append(waiting, t) /\ served' = served /\ waiting \in Seq(Task)
    BY <1>3 DEF Admission!ArriveWaiting, TypeOK
  <2>2. /\ Len(waiting') = Len(waiting) + 1 /\ waiting'[Len(waiting) + 1] = t
        /\ \A i \in 1..Len(waiting) : waiting'[i] = waiting[i]
    BY <2>1
  <2>3. \A u \in Task : pc'[u] = IF u = t THEN "waiting" ELSE pc[u]
    BY <1>3 DEF TypeOK
  <2>4. \A i \in 1..Len(waiting') : pc'[waiting'[i]] = "waiting"
    BY <1>1, <2>1, <2>2, <2>3 DEF SlotsRight
  <2>5. \A i, k \in 1..Len(waiting') : waiting'[i] = waiting'[k] => i = k
    BY <1>1, <2>1, <2>2 DEF SlotsRight
  <2>6. \A u \in Task : pc'[u] \in InSlot => u \in served'
    BY <2>1, <2>3 DEF SlotsRight, InSlot
  <2> QED
    BY <2>1, <2>4, <2>5, <2>6 DEF SlotsRight
<1>4. CASE Caught(t) /\ UNCHANGED scheduler
  <2>1. \A u \in Task : pc'[u] = IF u = t THEN "catching" ELSE pc[u]
    BY <1>4 DEF Caught, TypeOK
  <2>2. waiting' = waiting /\ served' = served
    BY <1>4 DEF scheduler
  <2> QED
    BY <1>1, <2>1, <2>2 DEF SlotsRight, InSlot
<1> QED
  BY <1>2, <1>3, <1>4 DEF Enqueue

LEMMA LeaveSlotSlots ==
    ASSUME TypeOK, SlotsRight, NEW t \in Task, LeaveSlot(t)
    PROVE  SlotsRight'
<1>1. /\ t \in served /\ pc[t] \notin InSlot /\ pc[t] # "waiting"
      /\ IsFiniteSet(served \ {t}) /\ served \ {t} \subseteq Task
  BY FS_RemoveElement DEF LeaveSlot, Settled, SlotsRight, InSlot, TypeOK
<1>2. CASE Admission!DepartIdle(t) /\ UNCHANGED <<pc, record>>
  <2>1. served' = served \ {t} /\ waiting' = waiting
    BY <1>2 DEF Admission!DepartIdle
  <2> QED
    BY <1>1, <1>2, <2>1 DEF SlotsRight
<1>3. CASE Admission!DepartHandover(t) /\ \E u \in served' \ served : Started(u, pc)
  <2>1. PICK i \in 1..Len(waiting) :
          /\ waiting[i] \in Task /\ pc[waiting[i]] = "waiting"
          /\ Admission!MayJoin(waiting[i], served \ {t})
          /\ served' = (served \ {t}) \union {waiting[i]}
          /\ waiting' \in Seq(Task)
          /\ Len(waiting') = Len(waiting) - 1
          /\ \A k \in 1..(Len(waiting) - 1) :
               waiting'[k] = IF k < i THEN waiting[k] ELSE waiting[k + 1]
    BY <1>3, Handover
  <2>2. \A u \in Task : pc'[u] = IF u = waiting[i] THEN "starting" ELSE pc[u]
    BY <1>3, <2>1 DEF Started, TypeOK
  <2>3. IsFiniteSet(served')
    BY <1>1, <2>1, FS_AddElement
  <2>4. MaxConcurrentPerRepository = 1 =>
          \A k \in served \ {t} : RepositoryOf[k] # RepositoryOf[waiting[i]]
    BY <1>1, <2>1, JoinsAlone
  <2>5. MaxConcurrentPerRepository = 1 =>
          \A u, k \in served' : RepositoryOf[u] = RepositoryOf[k] => u = k
    BY <2>1, <2>4 DEF SlotsRight
  <2>6. \A u \in Task : pc'[u] \in InSlot => u \in served'
    BY <1>1, <2>1, <2>2 DEF SlotsRight
  <2>7. Len(waiting) \in Nat /\ \A k \in 1..Len(waiting) : waiting[k] \in Task
    BY DEF TypeOK
  <2>8. \A k \in 1..Len(waiting') : pc'[waiting'[k]] = "waiting"
    <3> SUFFICES ASSUME NEW k \in 1..Len(waiting') PROVE pc'[waiting'[k]] = "waiting"
      OBVIOUS
    <3>1. PICK m \in 1..Len(waiting) : m # i /\ waiting'[k] = waiting[m]
      BY <2>1, <2>7
    <3> QED
      BY <2>1, <2>2, <2>7, <3>1 DEF SlotsRight
  <2>9. \A k, m \in 1..Len(waiting') : waiting'[k] = waiting'[m] => k = m
    BY <2>1, <2>7 DEF SlotsRight
  <2> QED
    BY <2>3, <2>5, <2>6, <2>8, <2>9 DEF SlotsRight
<1> QED
  BY <1>2, <1>3 DEF LeaveSlot, Admission!DepartIdle

LEMMA NextSlots == TypeOK /\ SlotsRight /\ Next => SlotsRight'
<1> SUFFICES ASSUME TypeOK, SlotsRight, Next PROVE SlotsRight'
  OBVIOUS
<1> USE DEF scheduler, eventWrites, run, environment
<1>1. ASSUME NEW t \in Task, Moves(t) PROVE SlotsRight'
  BY <1>1, MovesAlongEdges, SlotsStable
<1>2. ASSUME NEW t \in Task, Stays(t) PROVE SlotsRight'
  <2>1. UNCHANGED scheduler /\ pc' = pc
    BY <1>2 DEF Stays, Emit, EventSaved, EventSaveFails, Edit, LeaseExpires
  <2> QED
    BY <2>1, SlotsStable
<1>3. ASSUME NEW v \in Reviewer, Decides(v) PROVE SlotsRight'
  <2>1. UNCHANGED scheduler /\ pc' = pc
    BY <1>3 DEF Decides, Decide, DecisionSaved, DecisionSaveFails
  <2> QED
    BY <2>1, SlotsStable
<1> QED
  BY <1>1, <1>2, <1>3, NextCases, EnqueueSlots, LeaveSlotSlots

\* It is one that waits that starts when a slot comes back.
LEMMA WaiterStarts ==
    ASSUME TypeOK, SlotsRight, NEW t \in Task, LeaveSlot(t)
    PROVE  UNCHANGED <<pc, record>> \/ \E u \in Task : pc[u] = "waiting" /\ Started(u, pc)
<1> SUFFICES ASSUME Admission!DepartHandover(t), NEW u \in served' \ served, Started(u, pc)
             PROVE  u \in Task /\ pc[u] = "waiting"
  BY DEF LeaveSlot
<1>1. PICK i \in 1..Len(waiting) :
        /\ waiting[i] \in Task /\ pc[waiting[i]] = "waiting"
        /\ served' = (served \ {t}) \union {waiting[i]}
  BY Handover
<1> QED
  BY <1>1

\* Faults are only ever counted up.
LEMMA FaultsCounted ==
    ASSUME TypeOK, Next
    PROVE  /\ faults \in Nat /\ faults' \in Nat
           /\ faults' = faults \/ faults' = faults + 1
<1> USE DEF environment, Fault
<1>1. faults \in Nat
  BY RunTaskAssumption DEF TypeOK
<1>2. ASSUME NEW t \in Task, Moves(t) PROVE faults' = faults \/ faults' = faults + 1
  BY <1>2 DEF Moves, Call, CreateFails, RunningSaved, RunningSaveFails, Prepare, PrepareFails,
     AgentEnds, SnapshotRead, SnapshotTaken, SnapshotMisreads, SnapshotFails, Unreachable, Release,
     ReleaseFails, EventsWritten, EventsRejected, ResultSaved, ResultSaveFails, FailureSaved,
     FailureSaveFails
<1>3. ASSUME NEW t \in Task, Stays(t) \/ Enqueue(t) \/ LeaveSlot(t)
      PROVE  faults' = faults \/ faults' = faults + 1
  BY <1>3 DEF Stays, Emit, EventSaved, EventSaveFails, Edit, LeaseExpires, Enqueue, LeaveSlot
<1>4. ASSUME NEW v \in Reviewer, Decides(v) PROVE faults' = faults \/ faults' = faults + 1
  BY <1>4 DEF Decides, Decide, DecisionSaved, DecisionSaveFails
<1>5. faults' = faults \/ faults' = faults + 1
  BY <1>2, <1>3, <1>4, NextCases
<1> QED
  BY <1>1, <1>5

\* What a call's own step does to its sandbox.
LEMMA MovesLease ==
    ASSUME TypeOK, EventsCounted, LeasesUsed, ResultsAgree, NEW t \in Task, Moves(t)
    PROVE  /\ LeaseAt(lease'[t], pc'[t], record'[t].status, result'[t])
           /\ lease'[t] = "expired" => lease[t] = "expired"
           /\ \A u \in Task : u # t => /\ lease'[u] = lease[u] /\ pc'[u] = pc[u]
                                      /\ record'[u].status = record[u].status
                                      /\ result'[u] = result[u]
<1> USE DEF scheduler, eventWrites, run, environment
<1>1. /\ \A u \in Task : u # t => pc'[u] = pc[u]
      /\ <<pc[t], pc'[t]>> \in Edges
  BY MovesAlongEdges
<1>2. /\ LeaseAt(lease[t], pc[t], record[t].status, result[t])
      /\ pc[t] \in BeforeResult => result[t] = None
      /\ pc[t] \notin {"catching", "rejected"} => record[t].events <= MaxEvents
  BY DEF LeasesUsed, ResultsAgree, EventsCounted
<1>3. ASSUME Caught(t), pc[t] \notin {"catching", "rejected"}
      PROVE  /\ record'[t].status = "failed" /\ pc'[t] = "catching"
             /\ \A u \in Task : u # t => record'[u] = record[u]
  BY <1>2, <1>3, CaughtRecord DEF TypeOK
<1>4. CASE Prepare(t)
  BY <1>1, <1>4 DEF Prepare, TypeOK, LeaseAt
<1>5. CASE PrepareFails(t)
  <2>1. /\ pc[t] = "preparing" /\ Caught(t) /\ UNCHANGED result
        /\ lease'[t] \in {lease[t], "live"} /\ \A u \in Task : u # t => lease'[u] = lease[u]
    BY <1>5 DEF PrepareFails, TypeOK
  <2> QED
    BY <1>1, <1>2, <1>3, <2>1 DEF LeaseAt, BeforeResult
<1>6. CASE Release(t)
  <2>1. /\ lease'[t] = (IF lease[t] = "live" THEN "none" ELSE lease[t])
        /\ UNCHANGED result /\ pc[t] \in {"releasing", "unwinding"}
        /\ \A u \in Task : u # t => lease'[u] = lease[u]
        /\ Caught(t) \/ UNCHANGED record
    BY <1>6 DEF Release, TypeOK
  <2> QED
    BY <1>1, <1>2, <1>3, <2>1 DEF LeaseAt
<1>7. CASE ReleaseFails(t)
  <2>1. /\ lease'[t] = "unstopped" /\ UNCHANGED result /\ Caught(t)
        /\ pc[t] \in {"releasing", "unwinding"} /\ \A u \in Task : u # t => lease'[u] = lease[u]
    BY <1>7 DEF ReleaseFails, TypeOK
  <2> QED
    BY <1>1, <1>3, <2>1 DEF LeaseAt
<1>8. CASE AgentEnds(t) \/ SnapshotRead(t) \/ SnapshotFails(t)
  <2>1. /\ UNCHANGED <<lease, record>> /\ pc[t] \in {"running", "snapshot"}
        /\ pc'[t] \notin {"catching", "rejected"}
        /\ \A u \in Task : u # t => result'[u] = result[u]
    BY <1>8 DEF AgentEnds, SnapshotRead, SnapshotTaken, SnapshotMisreads, SnapshotFails, TypeOK
  <2>2. pc'[t] \in {"running", "snapshot", "releasing", "unwinding"}
    BY <1>1, <2>1 DEF Edges
  <2> QED
    BY <1>1, <1>2, <2>1, <2>2 DEF LeaseAt
<1>9. CASE EventsWritten(t)
  <2>1. /\ pc[t] = "draining" /\ pc'[t] = "finishing" /\ UNCHANGED <<lease, result>>
        /\ \A u \in Task : u # t => record'[u] = record[u]
    BY <1>9 DEF EventsWritten, Finishing, TypeOK
  <2> QED
    BY <1>1, <1>2, <2>1 DEF LeaseAt
<1>10. CASE RunningSaveFails(t) \/ EventsRejected(t) \/ ResultSaveFails(t)
  <2>1. /\ pc[t] \in {"starting", "draining", "finishing"} /\ Caught(t)
        /\ UNCHANGED <<lease, result>>
    BY <1>10 DEF RunningSaveFails, EventsRejected, ResultSaveFails
  <2> QED
    BY <1>1, <1>2, <1>3, <2>1 DEF LeaseAt
<1>11. CASE Call(t) \/ CreateFails(t) \/ RunningSaved(t) \/ ResultSaved(t) \/ FailureSaved(t)
              \/ FailureSaveFails(t)
  <2>1. /\ UNCHANGED <<lease, result, record>>
        /\ pc[t] \in {"idle", "creating", "starting", "finishing", "catching"}
    BY <1>11 DEF Call, CreateFails, RunningSaved, ResultSaved, FailureSaved, FailureSaveFails
  <2> QED
    BY <1>1, <1>2, <2>1 DEF LeaseAt, Edges
<1> QED
  BY <1>4, <1>5, <1>6, <1>7, <1>8, <1>9, <1>10, <1>11 DEF Moves

\* The sandbox of a call that neither moves nor loses its sandbox.
LEMMA LeasesStable ==
    ASSUME LeasesUsed, UNCHANGED <<lease, result>>, faults > 0 => faults' > 0,
           \A u \in Task :
             \/ pc'[u] = pc[u] /\ record'[u].status = record[u].status
             \/ pc[u] \in {"creating", "waiting"}
    PROVE  LeasesUsed'
BY DEF LeasesUsed, LeaseAt

LEMMA NextLeases ==
    TypeOK /\ EventsCounted /\ SlotsRight /\ LeasesUsed /\ ResultsAgree /\ Next => LeasesUsed'
<1> SUFFICES ASSUME TypeOK, EventsCounted, SlotsRight, LeasesUsed, ResultsAgree, Next
             PROVE  LeasesUsed'
  OBVIOUS
<1> USE DEF scheduler, eventWrites, run, environment
<1>0. /\ faults > 0 => faults' > 0
      /\ faults \in Nat /\ faults' = faults + 1 => faults' > 0
  BY FaultsCounted
<1>1. ASSUME NEW t \in Task, Moves(t) PROVE LeasesUsed'
  BY <1>0, <1>1, MovesLease DEF LeasesUsed
<1>2. ASSUME NEW t \in Task, LeaseExpires(t) PROVE LeasesUsed'
  <2>1. /\ lease'[t] = "expired" /\ faults' > 0 /\ UNCHANGED <<pc, record, result>>
        /\ \A u \in Task : u # t => lease'[u] = lease[u]
    BY <1>0, <1>2, FaultsCounted DEF LeaseExpires, Fault, TypeOK
  <2> QED
    BY <1>0, <2>1 DEF LeasesUsed, LeaseAt
<1>3. ASSUME NEW t \in Task, Stays(t), ~LeaseExpires(t) PROVE LeasesUsed'
  <2>1. UNCHANGED <<pc, lease, result>>
    BY <1>3 DEF Stays, Emit, EventSaved, EventSaveFails, Edit
  <2>2. \A u \in Task : record'[u].status = record[u].status
    BY <1>3, EmitRecord DEF Stays, EventSaved, EventSaveFails, Edit
  <2> QED
    BY <1>0, <2>1, <2>2, LeasesStable
<1>4. ASSUME NEW t \in Task, Enqueue(t) PROVE LeasesUsed'
  <2>1. /\ pc[t] = "creating" /\ UNCHANGED <<lease, result>>
        /\ \A u \in Task : u # t => pc'[u] = pc[u] /\ record'[u] = record[u]
    BY <1>4 DEF Enqueue, Started, Caught, TypeOK
  <2> QED
    BY <1>0, <2>1, LeasesStable
<1>5. ASSUME NEW t \in Task, LeaveSlot(t) PROVE LeasesUsed'
  <2>0. UNCHANGED <<lease, result>>
    BY <1>5 DEF LeaveSlot
  <2>1. CASE UNCHANGED <<pc, record>>
    BY <1>0, <2>0, <2>1, LeasesStable
  <2>2. CASE \E u \in Task : pc[u] = "waiting" /\ Started(u, pc)
    <3>1. PICK u \in Task : pc[u] = "waiting" /\ Started(u, pc)
      BY <2>2
    <3>2. \A k \in Task : k # u => pc'[k] = pc[k] /\ record'[k] = record[k]
      BY <3>1 DEF Started, TypeOK
    <3> QED
      BY <1>0, <2>0, <3>1, <3>2, LeasesStable
  <2> QED
    BY <1>5, <2>1, <2>2, WaiterStarts
<1>6. ASSUME NEW v \in Reviewer, Decides(v) PROVE LeasesUsed'
  <2>1. UNCHANGED <<pc, record, lease, result>>
    BY <1>6 DEF Decides, Decide, DecisionSaved, DecisionSaveFails
  <2> QED
    BY <1>0, <2>1, LeasesStable
<1> QED
  BY <1>1, <1>2, <1>3, <1>4, <1>5, <1>6, NextCases

-----------------------------------------------------------------------------
\* What the run returned, and its snapshot.

\* Where a call gets with the result and the snapshot it has.
LEMMA ResultsStable ==
    ASSUME TypeOK, ResultsAgree, UNCHANGED <<hosted, checkout, result, snapshot>>,
           faults > 0 => faults' > 0,
           \A u \in Task :
             \/ pc'[u] = pc[u]
             \/ <<pc[u], pc'[u]>> \in Edges /\ pc[u] # "running"
             \/ pc[u] \in {"creating", "waiting"} /\ pc'[u] \in {"waiting", "starting", "catching"}
    PROVE  ResultsAgree'
<1>1. \A u \in Task :
        /\ pc'[u] \in BeforeResult => pc[u] \in BeforeResult
        /\ pc'[u] = "snapshot" => pc[u] = "snapshot"
        /\ pc'[u] \in {"snapshot", "releasing", "draining", "finishing", "returned"}
             => pc[u] \in {"snapshot", "releasing", "draining", "finishing", "returned"}
  BY DEF Edges, BeforeResult
<1>2. \A u \in Task : Place(u)' = Place(u)
  BY DEF Place
<1> QED
  BY <1>1, <1>2 DEF ResultsAgree, Exclusive

\* With one task per place nobody edits what another task reads.
LEMMA EditResults ==
    ASSUME TypeOK, SlotsRight, ResultsAgree, NEW t \in Task, Edit(t)
    PROVE  ResultsAgree'
<1> USE DEF eventWrites, environment
<1>1. /\ pc[t] = "running" /\ checkout' = [checkout EXCEPT ![Place(t)] = t]
      /\ UNCHANGED <<hosted, faults, pc, result, snapshot>>
  BY DEF Edit
<1>2. ASSUME NEW u \in Task, pc[u] = "snapshot", Exclusive
      PROVE  checkout'[Place(u)] = checkout[Place(u)]
  <2>1. t \in served /\ u \in served /\ u # t
    BY <1>1, <1>2 DEF SlotsRight, InSlot
  <2>2. ~hosted => RepositoryOf[u] # RepositoryOf[t]
    BY <1>2, <2>1 DEF SlotsRight, Exclusive
  <2>3. Place(u) # Place(t)
    BY <2>1, <2>2 DEF Place
  <2>4. Place(u) \in Task \union Repository
    BY RunTaskAssumption DEF Place
  <2> QED
    BY <1>1, <2>3, <2>4 DEF TypeOK
<1>3. \A u \in Task : Place(u)' = Place(u)
  BY <1>1 DEF Place
<1> QED
  BY <1>1, <1>2, <1>3 DEF ResultsAgree, Exclusive

LEMMA NextResults == TypeOK /\ SlotsRight /\ LeasesUsed /\ ResultsAgree /\ Next => ResultsAgree'
<1> SUFFICES ASSUME TypeOK, SlotsRight, LeasesUsed, ResultsAgree, Next PROVE ResultsAgree'
  OBVIOUS
<1> USE DEF scheduler, eventWrites, run, environment
<1>0. faults > 0 => faults' > 0
  BY FaultsCounted
<1>1. ASSUME NEW t \in Task, AgentEnds(t) PROVE ResultsAgree'
  <2>1. PICK r \in Outcomes(t) :
          /\ pc[t] = "running"
          /\ result' = [result EXCEPT ![t] = r]
          /\ pc' = [pc EXCEPT ![t] = IF r.tree # None THEN "snapshot" ELSE "releasing"]
          /\ UNCHANGED <<environment, checkout, snapshot>>
    BY <1>1 DEF AgentEnds
  <2>2. checkout[Place(t)] \in Task \union {Clean}
    BY RunTaskAssumption DEF TypeOK, Place
  <2>3. r \in TaskResult /\ (r.tree # None => r.tree = checkout[Place(t)])
    BY <2>1, <2>2 DEF Outcomes, TaskResult, TerminalState
  <2>4. r # None
    BY <2>3, NoneAssumption
  <2>5. snapshot'[t] = None /\ \A u \in Task : Place(u)' = Place(u)
    BY <2>1 DEF ResultsAgree, BeforeResult, Place
  <2>6. result'[t] = r /\ pc'[t] = IF r.tree # None THEN "snapshot" ELSE "releasing"
    BY <2>1 DEF TypeOK
  <2>7. \A u \in Task : u # t => result'[u] = result[u] /\ pc'[u] = pc[u]
    BY <2>1 DEF TypeOK
  <2> QED
    BY <2>1, <2>3, <2>4, <2>5, <2>6, <2>7 DEF ResultsAgree, Exclusive, BeforeResult
<1>2. ASSUME NEW t \in Task, SnapshotTaken(t) PROVE ResultsAgree'
  <2>1. /\ pc[t] = "snapshot" /\ pc'[t] = "releasing" /\ snapshot'[t] = checkout[Place(t)]
        /\ \A u \in Task : u # t => snapshot'[u] = snapshot[u] /\ pc'[u] = pc[u]
        /\ UNCHANGED <<environment, checkout, result>>
    BY <1>2 DEF SnapshotTaken, TypeOK
  <2>2. \A u \in Task : Place(u)' = Place(u)
    BY <2>1 DEF Place
  <2> QED
    BY <2>1, <2>2 DEF ResultsAgree, Exclusive, BeforeResult
<1>2a. ASSUME NEW t \in Task, SnapshotMisreads(t) PROVE ResultsAgree'
  <2>1. /\ pc[t] = "snapshot" /\ pc'[t] = "releasing" /\ snapshot'[t] = Misread
        /\ \A u \in Task : u # t => snapshot'[u] = snapshot[u] /\ pc'[u] = pc[u]
        /\ UNCHANGED <<hosted, checkout, result>>
    BY <1>2a DEF SnapshotMisreads, Unreachable, Fault, TypeOK
  <2>2. \A u \in Task : Place(u)' = Place(u)
    BY <2>1 DEF Place
  <2>3. faults' > 0
    BY <1>0, <1>2a, FaultsCounted DEF SnapshotMisreads, Unreachable, Fault, LeasesUsed
  <2> QED
    BY <2>1, <2>2, <2>3 DEF ResultsAgree, Exclusive, BeforeResult
<1>3. ASSUME NEW t \in Task, Moves(t), ~AgentEnds(t), ~SnapshotRead(t) PROVE ResultsAgree'
  <2>1. pc[t] # "running" /\ UNCHANGED <<hosted, checkout, result, snapshot>>
    BY <1>3 DEF Moves, Call, CreateFails, RunningSaved, RunningSaveFails, Prepare, PrepareFails,
       SnapshotFails, Release, ReleaseFails, EventsWritten, EventsRejected, ResultSaved,
       ResultSaveFails, FailureSaved, FailureSaveFails, Fault, Unreachable
  <2> QED
    BY <1>0, <1>3, <2>1, MovesAlongEdges, ResultsStable
<1>4. ASSUME NEW t \in Task, Stays(t) PROVE ResultsAgree'
  <2>1. CASE Edit(t)
    BY <2>1, EditResults
  <2>2. CASE UNCHANGED <<hosted, pc, checkout, result, snapshot>>
    BY <1>0, <2>2, ResultsStable
  <2> QED
    BY <1>4, <2>1, <2>2 DEF Stays, Emit, EventSaved, EventSaveFails, LeaseExpires, Fault
<1>5. ASSUME NEW t \in Task, Enqueue(t) PROVE ResultsAgree'
  <2>1. /\ UNCHANGED <<hosted, checkout, result, snapshot>>
        /\ pc[t] = "creating" /\ pc'[t] \in {"waiting", "starting", "catching"}
        /\ \A u \in Task : u # t => pc'[u] = pc[u]
    BY <1>5 DEF Enqueue, Started, Caught, TypeOK
  <2> QED
    BY <1>0, <2>1, ResultsStable
<1>6. ASSUME NEW t \in Task, LeaveSlot(t) PROVE ResultsAgree'
  <2>1. UNCHANGED <<hosted, checkout, result, snapshot>>
    BY <1>6 DEF LeaveSlot
  <2>2. CASE UNCHANGED pc
    BY <1>0, <2>1, <2>2, ResultsStable
  <2>3. CASE \E u \in Task : pc[u] = "waiting" /\ Started(u, pc)
    <3>1. PICK u \in Task : pc[u] = "waiting" /\ pc' = [pc EXCEPT ![u] = "starting"]
      BY <2>3 DEF Started
    <3>2. pc'[u] = "starting" /\ \A k \in Task : k # u => pc'[k] = pc[k]
      BY <3>1 DEF TypeOK
    <3> QED
      BY <1>0, <2>1, <3>1, <3>2, ResultsStable
  <2> QED
    BY <1>6, <2>2, <2>3, WaiterStarts
<1>7. ASSUME NEW v \in Reviewer, Decides(v) PROVE ResultsAgree'
  <2>1. UNCHANGED <<hosted, pc, checkout, result, snapshot>>
    BY <1>7 DEF Decides, Decide, DecisionSaved, DecisionSaveFails, Fault
  <2> QED
    BY <1>0, <2>1, ResultsStable
<1> QED
  BY <1>1, <1>2, <1>3, <1>4, <1>5, <1>6, <1>7, <1>2a, NextCases DEF SnapshotRead

-----------------------------------------------------------------------------
\* The copies of a record.

Final == {"finishing", "returned", "catching", "rejected"}

\* The call u goes on with the result and the snapshot it has.
Onward(u) ==
    /\ result'[u] = result[u] /\ snapshot'[u] = snapshot[u]
    /\ record'[u].result = record[u].result /\ record'[u].snapshot = record[u].snapshot
    /\ record'[u].status \in {record[u].status, "running", "failed"}
    /\ pc'[u] \in {"finishing", "returned"} =>
         pc[u] \in {"finishing", "returned"} /\ record'[u] = record[u]
    /\ pc[u] \in Final => pc'[u] \in Final

\* What is stored for u, and what is about to be, was a copy of its record before.
Carried(u) ==
    /\ stored'[u] = stored[u] \/ stored'[u] \in Copies(u)
    /\ eventSave'[u] # None =>
         \/ eventSave[u] # None /\ eventSave'[u] \in Copies(u)
         \/ pc[u] = "running" /\ eventSave'[u] = record'[u]

LEMMA CaughtOnward ==
    ASSUME TypeOK, EventsCounted, UNCHANGED <<result, snapshot>>,
           NEW t \in Task, pc[t] \notin {"catching", "rejected"}, Caught(t)
    PROVE  \A u \in Task : Onward(u)
<1>1. record[t].events <= MaxEvents
  BY DEF EventsCounted
<1>2. /\ pc' = [pc EXCEPT ![t] = "catching"]
      /\ \A u \in Task : u # t => record'[u] = record[u]
      /\ record'[t].result = record[t].result
      /\ record'[t].snapshot = record[t].snapshot
      /\ record'[t].status = "failed"
  BY <1>1, CaughtRecord
<1>3. pc'[t] = "catching" /\ \A u \in Task : u # t => pc'[u] = pc[u]
  BY <1>2 DEF TypeOK
<1> QED
  BY <1>2, <1>3 DEF Onward, Final

LEMMA StartedOnward ==
    ASSUME TypeOK, UNCHANGED <<result, snapshot>>,
           NEW t \in Task, pc[t] \notin Final, Started(t, pc)
    PROVE  \A u \in Task : Onward(u)
<1>1. /\ pc' = [pc EXCEPT ![t] = "starting"]
      /\ \A u \in Task : u # t => record'[u] = record[u]
      /\ record'[t].result = record[t].result
      /\ record'[t].snapshot = record[t].snapshot
      /\ record'[t].status = "running"
  BY StartedRecord
<1>2. pc'[t] = "starting" /\ \A u \in Task : u # t => pc'[u] = pc[u]
  BY <1>1 DEF TypeOK
<1> QED
  BY <1>1, <1>2 DEF Onward

LEMMA QuietOnward ==
    ASSUME UNCHANGED <<record, result, snapshot>>,
           \A u \in Task :
             \/ pc'[u] = pc[u]
             \/ <<pc[u], pc'[u]>> \in Edges /\ pc'[u] # "finishing"
             \/ pc[u] = "creating" /\ pc'[u] = "waiting"
    PROVE  \A u \in Task : Onward(u)
<1>1. \A u \in Task :
        /\ pc'[u] \in {"finishing", "returned"} => pc[u] \in {"finishing", "returned"}
        /\ pc[u] \in Final => pc'[u] \in Final
  BY DEF Edges, Final
<1> QED
  BY <1>1 DEF Onward

\* Every step but three: the run returns, its changes are read, its result joins the record.
LEMMA NextOnward ==
    ASSUME TypeOK, EventsCounted, SlotsRight, Next,
           \A t \in Task : ~AgentEnds(t) /\ ~SnapshotRead(t) /\ ~EventsWritten(t)
    PROVE  \A u \in Task : Onward(u)
<1> USE DEF scheduler, eventWrites, run, environment
<1>1. ASSUME NEW t \in Task, Moves(t) PROVE \A u \in Task : Onward(u)
  <2>1. UNCHANGED <<result, snapshot>>
    BY <1>1 DEF Moves, Call, CreateFails, RunningSaved, RunningSaveFails, Prepare, PrepareFails,
       SnapshotFails, Release, ReleaseFails, EventsRejected, ResultSaved,
       ResultSaveFails, FailureSaved, FailureSaveFails
  <2>2. CASE Caught(t)
    <3>1. pc[t] \notin {"catching", "rejected"}
      BY <2>2, <1>1, MovesAlongEdges DEF Caught, TypeOK, Edges
    <3> QED
      BY <2>1, <2>2, <3>1, CaughtOnward
  <2>3. CASE UNCHANGED record /\ pc[t] # "draining"
    <3>1. pc'[t] # "finishing"
      BY <1>1, <2>3, MovesAlongEdges DEF Edges
    <3> QED
      BY <1>1, <2>1, <2>3, <3>1, MovesAlongEdges, QuietOnward
  <2>4. Caught(t) \/ (UNCHANGED record /\ pc[t] # "draining")
    BY <1>1 DEF Moves, Call, CreateFails, RunningSaved, RunningSaveFails, Prepare, PrepareFails,
       SnapshotFails, Release, ReleaseFails, EventsRejected, ResultSaved,
       ResultSaveFails, FailureSaved, FailureSaveFails
  <2> QED
    BY <2>2, <2>3, <2>4
<1>2. ASSUME NEW t \in Task, Stays(t) PROVE \A u \in Task : Onward(u)
  <2>1. CASE Emit(t)
    <3>1. pc' = pc /\ pc[t] = "running" /\ UNCHANGED <<result, snapshot>>
      BY <2>1 DEF Emit
    <3> QED
      BY <2>1, <3>1, EmitRecord DEF Onward
  <2>2. CASE UNCHANGED <<pc, record, result, snapshot>>
    BY <2>2, QuietOnward
  <2> QED
    BY <1>2, <2>1, <2>2 DEF Stays, EventSaved, EventSaveFails, Edit, LeaseExpires
<1>3. ASSUME NEW t \in Task, Enqueue(t) PROVE \A u \in Task : Onward(u)
  <2>1. pc[t] = "creating" /\ UNCHANGED <<result, snapshot>>
    BY <1>3 DEF Enqueue
  <2>2. CASE Started(t, pc)
    BY <2>1, <2>2, StartedOnward DEF Final
  <2>3. CASE Caught(t)
    BY <2>1, <2>3, CaughtOnward
  <2>4. CASE pc' = [pc EXCEPT ![t] = "waiting"] /\ UNCHANGED record
    <3>1. pc'[t] = "waiting" /\ \A u \in Task : u # t => pc'[u] = pc[u]
      BY <2>4 DEF TypeOK
    <3> QED
      BY <2>1, <2>4, <3>1, QuietOnward
  <2> QED
    BY <1>3, <2>2, <2>3, <2>4 DEF Enqueue
<1>4. ASSUME NEW t \in Task, LeaveSlot(t) PROVE \A u \in Task : Onward(u)
  <2>1. UNCHANGED <<result, snapshot>>
    BY <1>4 DEF LeaveSlot
  <2>2. CASE UNCHANGED <<pc, record>>
    BY <2>1, <2>2, QuietOnward
  <2>3. CASE \E u \in Task : pc[u] = "waiting" /\ Started(u, pc)
    BY <2>1, <2>3, StartedOnward DEF Final
  <2> QED
    BY <1>4, <2>2, <2>3, WaiterStarts
<1>5. ASSUME NEW v \in Reviewer, Decides(v) PROVE \A u \in Task : Onward(u)
  <2>1. UNCHANGED <<pc, record, result, snapshot>>
    BY <1>5 DEF Decides, Decide, DecisionSaved, DecisionSaveFails
  <2> QED
    BY <2>1, QuietOnward
<1> QED
  BY <1>1, <1>2, <1>3, <1>4, <1>5, NextCases

\* A store operation on a copy of the record of t, answered or failed.
LEMMA SavesCopy ==
    ASSUME TypeOK, UNCHANGED eventSave, NEW t \in Task, NEW x \in Copies(t),
           PerhapsStored(t, x)
    PROVE  \A u \in Task : Carried(u)
<1>1. stored'[t] \in {stored[t], x} /\ \A u \in Task : u # t => stored'[u] = stored[u]
  BY DEF PerhapsStored, TypeOK
<1>2. \A u \in Task : eventSave'[u] # None => eventSave'[u] \in Copies(u)
  BY DEF Copies
<1> QED
  BY <1>1, <1>2 DEF Carried

LEMMA NextCarried ==
    ASSUME TypeOK, Next
    PROVE  \A u \in Task : Carried(u)
<1> USE DEF scheduler, eventWrites, run, environment
<1>1. ASSUME UNCHANGED <<stored, eventSave>> PROVE \A u \in Task : Carried(u)
  BY <1>1 DEF Carried, Copies
<1>2. ASSUME NEW t \in Task, UNCHANGED eventSave, PerhapsStored(t, record[t])
      PROVE  \A u \in Task : Carried(u)
  <2>1. record[t] \in Copies(t)
    BY DEF Copies
  <2> QED
    BY <1>2, <2>1, SavesCopy
<1>3. ASSUME NEW t \in Task, Moves(t) PROVE \A u \in Task : Carried(u)
  <2>1. \/ UNCHANGED <<stored, eventSave>>
        \/ UNCHANGED eventSave /\ PerhapsStored(t, record[t])
    BY <1>3 DEF Moves, Call, CreateFails, RunningSaved, RunningSaveFails, Prepare, PrepareFails, AgentEnds,
       SnapshotRead, SnapshotTaken, SnapshotMisreads, SnapshotFails, Release, ReleaseFails, EventsWritten,
       EventsRejected, ResultSaved, ResultSaveFails, FailureSaved, FailureSaveFails, PerhapsStored
  <2> QED
    BY <1>1, <1>2, <2>1
<1>4. ASSUME NEW t \in Task, Enqueue(t) PROVE \A u \in Task : Carried(u)
  BY <1>2, <1>4 DEF Enqueue, PerhapsStored
<1>5. ASSUME NEW t \in Task, LeaveSlot(t) PROVE \A u \in Task : Carried(u)
  BY <1>1, <1>5 DEF LeaveSlot
<1>6. ASSUME NEW t \in Task, Emit(t) PROVE \A u \in Task : Carried(u)
  <2>1. /\ pc[t] = "running" /\ UNCHANGED stored
        /\ eventSave'[t] \in {eventSave[t], record'[t]}
        /\ \A u \in Task : u # t => eventSave'[u] = eventSave[u]
    BY <1>6 DEF Emit, TypeOK
  <2> QED
    BY <2>1 DEF Carried, Copies
<1>7. ASSUME NEW t \in Task, EventSaved(t) \/ EventSaveFails(t) PROVE \A u \in Task : Carried(u)
  <2>1. /\ eventSave[t] # None
        /\ stored'[t] \in {stored[t], eventSave[t]} /\ eventSave'[t] \in {record[t], None}
        /\ \A u \in Task : u # t => stored'[u] = stored[u] /\ eventSave'[u] = eventSave[u]
    BY <1>7 DEF EventSaved, EventSaveFails, PerhapsStored, TypeOK
  <2> QED
    BY <2>1 DEF Carried, Copies
<1>8. ASSUME NEW t \in Task, Edit(t) \/ LeaseExpires(t) PROVE \A u \in Task : Carried(u)
  BY <1>1, <1>8 DEF Edit, LeaseExpires
<1>9. ASSUME NEW v \in Reviewer, NEW t \in Task, Decide(v, t) PROVE \A u \in Task : Carried(u)
  BY <1>1, <1>9 DEF Decide
<1>10. ASSUME NEW v \in Reviewer, DecisionSaved(v) \/ DecisionSaveFails(v)
       PROVE  \A u \in Task : Carried(u)
  <2>1. deciding[v] # None /\ deciding[v].task \in Task /\ UNCHANGED eventSave
    BY <1>10 DEF DecisionSaved, DecisionSaveFails, TypeOK
  <2>2. PerhapsStored(deciding[v].task, deciding[v].record)
    BY <1>10 DEF DecisionSaved, DecisionSaveFails, PerhapsStored
  <2>3. deciding[v].record \in Copies(deciding[v].task)
    BY <2>1 DEF Copies
  <2> QED
    BY <2>1, <2>2, <2>3, SavesCopy
<1> QED
  BY <1>3, <1>4, <1>5, <1>6, <1>7, <1>8, <1>9, <1>10, NextCases DEF Stays, Decides

\* Once the record has its result every copy on its way has it too.
LEMMA CopiesHaveResult ==
    ASSUME DecisionsOnResults, ResultsSettled, NEW t \in Task, record[t].result # None,
           NEW x \in Copies(t), x # stored[t]
    PROVE  x.result # None
BY DEF Copies, DecisionsOnResults, ResultsSettled

\* While it has none, no copy has.
LEMMA CopiesLackResult ==
    ASSUME CopiesFaithful, NEW t \in Task, record[t].result = None, NEW x \in Copies(t)
    PROVE  /\ x.result = None /\ x.snapshot = None /\ x.status # "needs-human"
           /\ \A res, snap, rec, at : Faithful(x, res, snap, rec, at)
BY DEF CopiesFaithful, Faithful

\* The copies after a step that decides nothing.
LEMMA CopiesCarried ==
    ASSUME NEW u \in Task, Carried(u),
           \A v \in Reviewer : deciding'[v] = deciding[v] \/ deciding'[v] = None
    PROVE  Copies(u)' \subseteq Copies(u) \union {record'[u]}
<1>1. stored'[u] # None => stored'[u] \in Copies(u)
  BY DEF Carried, Copies
<1>2. eventSave'[u] # None => eventSave'[u] \in Copies(u) \union {record'[u]}
  BY DEF Carried
<1>3. ASSUME NEW v \in Reviewer, deciding'[v] # None, deciding'[v].task = u
      PROVE  deciding'[v].record \in Copies(u)
  BY <1>3 DEF Copies
<1> QED
  BY <1>1, <1>2, <1>3 DEF Copies

\* The record that goes on stays faithful, and so do its copies.
LEMMA OnwardFaithful ==
    ASSUME CopiesFaithful, NEW u \in Task, Onward(u), NEW x \in Copies(u) \union {record'[u]}
    PROVE  Faithful(x, result'[u], snapshot'[u], record'[u], pc'[u])
<1>1. record[u] \in Copies(u)
  BY DEF Copies
<1>2. CASE x \in Copies(u)
  BY <1>2 DEF CopiesFaithful, Faithful, Onward
<1>3. CASE x = record'[u]
  <2>1. Faithful(record[u], result[u], snapshot[u], record[u], pc[u])
    BY <1>1 DEF CopiesFaithful
  <2>2. x.result = record[u].result /\ x.snapshot = record[u].snapshot
    BY <1>3 DEF Onward
  <2>3. x.status = "needs-human" => record[u].status = "needs-human"
    BY <1>3 DEF Onward
  <2> QED
    BY <1>3, <2>1, <2>2, <2>3 DEF Faithful, Onward
<1> QED
  BY <1>2, <1>3

LEMMA NextCopies == IInv /\ Next => CopiesFaithful'
<1> SUFFICES ASSUME IInv, Next PROVE CopiesFaithful'
  OBVIOUS
<1> USE DEF scheduler, eventWrites, run, environment
<1>0. /\ TypeOK /\ EventsCounted /\ SlotsRight /\ ResultsAgree
      /\ CopiesFaithful /\ DecisionsOnResults /\ ResultsSettled
  BY DEF IInv
<1>1. \A u \in Task : Carried(u)
  BY <1>0, NextCarried
<1>2. ASSUME NEW v \in Reviewer, NEW t \in Task, Decide(v, t) PROVE CopiesFaithful'
  <2>1. /\ stored[t] # None /\ stored[t] \in Record /\ stored[t] \in Copies(t)
        /\ deciding' = [deciding EXCEPT ![v] = [task |-> t, record |-> [stored[t] EXCEPT !.approval = v]]]
        /\ UNCHANGED <<pc, record, stored, eventSave, result, snapshot>>
    BY <1>0, <1>2 DEF Decide, TypeOK, Copies
  <2> DEFINE new == [stored[t] EXCEPT !.approval = v]
  <2>2. /\ new.result = stored[t].result /\ new.snapshot = stored[t].snapshot
        /\ new.status = stored[t].status /\ new.events = stored[t].events
    BY <2>1 DEF Record
  <2>3. Faithful(new, result[t], snapshot[t], record[t], pc[t])
    BY <1>0, <2>1, <2>2 DEF CopiesFaithful, Faithful
  <2> HIDE DEF new
  <2>4. deciding'[v] = [task |-> t, record |-> new] /\ \A w \in Reviewer : w # v => deciding'[w] = deciding[w]
    BY <1>0, <2>1 DEF new, TypeOK
  <2>5. \A u \in Task : Copies(u)' \subseteq Copies(u) \union (IF u = t THEN {new} ELSE {})
    BY <2>1, <2>4 DEF Copies
  <2> QED
    BY <1>0, <2>1, <2>3, <2>5 DEF CopiesFaithful
<1>3. ASSUME NEW t \in Task, AgentEnds(t) \/ SnapshotRead(t)
      PROVE  \A u \in Task : \A x \in Copies(u) \union {record'[u]} :
               Faithful(x, result'[u], snapshot'[u], record'[u], pc'[u])
  <2>1. /\ pc[t] \in {"running", "snapshot"} /\ record' = record
        /\ \A u \in Task : u # t => result'[u] = result[u] /\ snapshot'[u] = snapshot[u] /\ pc'[u] = pc[u]
    BY <1>0, <1>3 DEF AgentEnds, SnapshotRead, SnapshotTaken, SnapshotMisreads, TypeOK
  <2>2. record[t].result = None
    BY <1>0, <2>1 DEF ResultsSettled
  <2>3. \A u \in Task : record'[u] \in Copies(u)
    BY <2>1 DEF Copies
  <2> QED
    BY <1>0, <2>1, <2>2, <2>3, CopiesLackResult DEF CopiesFaithful
<1>4. ASSUME NEW t \in Task, EventsWritten(t)
      PROVE  \A u \in Task : \A x \in Copies(u) \union {record'[u]} :
               Faithful(x, result'[u], snapshot'[u], record'[u], pc'[u])
  <2>1. pc[t] = "draining" /\ Finishing(t) /\ UNCHANGED <<result, snapshot>>
    BY <1>4 DEF EventsWritten
  <2>2. result[t] # None /\ record[t].result = None
    BY <1>0, <2>1 DEF ResultsAgree, ResultsSettled
  <2>3. /\ pc' = [pc EXCEPT ![t] = "finishing"]
        /\ \A u \in Task : u # t => record'[u] = record[u]
        /\ record'[t].result = result[t] /\ record'[t].snapshot = snapshot[t]
        /\ record'[t].status = result[t].state
    BY <1>0, <2>1, <2>2, FinishingRecord
  <2>4. Faithful(record'[t], result'[t], snapshot'[t], record'[t], pc'[t])
    BY <2>1, <2>2, <2>3 DEF Faithful
  <2>5. ASSUME NEW u \in Task, u # t
        PROVE  record'[u] \in Copies(u) /\ pc'[u] = pc[u]
    BY <1>0, <2>3, <2>5 DEF Copies, TypeOK
  <2> QED
    BY <1>0, <2>1, <2>2, <2>3, <2>4, <2>5, CopiesLackResult DEF CopiesFaithful
<1>5. ASSUME \A t \in Task : ~AgentEnds(t) /\ ~SnapshotRead(t) /\ ~EventsWritten(t)
      PROVE  \A u \in Task : \A x \in Copies(u) \union {record'[u]} :
               Faithful(x, result'[u], snapshot'[u], record'[u], pc'[u])
  BY <1>0, <1>5, NextOnward, OnwardFaithful
<1>6. \A u \in Task : \A x \in Copies(u) \union {record'[u]} :
        Faithful(x, result'[u], snapshot'[u], record'[u], pc'[u])
  BY <1>3, <1>4, <1>5
<1>7. CASE \A v \in Reviewer : deciding'[v] = deciding[v] \/ deciding'[v] = None
  BY <1>1, <1>6, <1>7, CopiesCarried DEF CopiesFaithful
<1>8. ASSUME NEW v \in Reviewer, DecisionSaved(v) \/ DecisionSaveFails(v)
      PROVE  \A w \in Reviewer : deciding'[w] = deciding[w] \/ deciding'[w] = None
  BY <1>0, <1>8 DEF DecisionSaved, DecisionSaveFails, TypeOK
<1>9. ASSUME NEW t \in Task, Moves(t) \/ Enqueue(t) \/ LeaveSlot(t) \/ Stays(t)
      PROVE  UNCHANGED deciding
  BY <1>0, <1>9, MovesAlongEdges
     DEF Enqueue, LeaveSlot, Stays, Emit, EventSaved, EventSaveFails, Edit, LeaseExpires
<1> QED
  BY <1>2, <1>7, <1>8, <1>9, NextCases DEF Decides

LEMMA NextDecisions == IInv /\ Next => DecisionsOnResults'
<1> SUFFICES ASSUME IInv, Next PROVE DecisionsOnResults'
  OBVIOUS
<1> USE DEF scheduler, eventWrites, run, environment
<1>0. TypeOK /\ CopiesFaithful /\ DecisionsOnResults
  BY DEF IInv
<1>1. ASSUME NEW v \in Reviewer, NEW t \in Task, Decide(v, t) PROVE DecisionsOnResults'
  <2>1. /\ stored[t] \in Record /\ stored[t] \in Copies(t) /\ stored[t].status = "needs-human"
        /\ deciding' = [deciding EXCEPT ![v] = [task |-> t, record |-> [stored[t] EXCEPT !.approval = v]]]
    BY <1>0, <1>1 DEF Decide, TypeOK, Copies
  <2>2. stored[t].result # None
    BY <1>0, <2>1 DEF CopiesFaithful, Faithful
  <2>3. [stored[t] EXCEPT !.approval = v].result = stored[t].result
    BY <2>1 DEF Record
  <2> QED
    BY <1>0, <2>1, <2>2, <2>3 DEF DecisionsOnResults, TypeOK
<1>2. ASSUME NEW v \in Reviewer, DecisionSaved(v) \/ DecisionSaveFails(v) PROVE DecisionsOnResults'
  BY <1>0, <1>2 DEF DecisionSaved, DecisionSaveFails, DecisionsOnResults, TypeOK
<1>3. ASSUME NEW t \in Task, Moves(t) \/ Enqueue(t) \/ LeaveSlot(t) \/ Stays(t)
      PROVE  DecisionsOnResults'
  <2>1. UNCHANGED deciding
    BY <1>0, <1>3, MovesAlongEdges
       DEF Enqueue, LeaveSlot, Stays, Emit, EventSaved, EventSaveFails, Edit, LeaseExpires
  <2> QED
    BY <1>0, <2>1 DEF DecisionsOnResults
<1> QED
  BY <1>1, <1>2, <1>3, NextCases DEF Decides

\* A call that goes on, and whose result is not saved in this step.
LEMMA OnwardSettled ==
    ASSUME TypeOK, DecisionsOnResults, ResultsSettled, NEW u \in Task, Onward(u), Carried(u),
           pc'[u] = "returned" => pc[u] = "returned"
    PROVE  /\ record'[u].result # None =>
                /\ eventSave'[u] = None
                /\ pc'[u] \in Final
           /\ pc'[u] \in {"finishing", "returned"} => record'[u].result # None
           /\ pc'[u] = "returned" => stored'[u] # None /\ stored'[u].result # None
<1>1. record[u].result # None => eventSave[u] = None /\ pc[u] \in Final
  BY DEF ResultsSettled, Final
<1>2. record'[u].result # None => eventSave'[u] = None /\ pc'[u] \in Final
  BY <1>1 DEF Onward, Carried, Final
<1>3. pc'[u] \in {"finishing", "returned"} => record'[u].result # None
  BY DEF Onward, ResultsSettled
<1>4. ASSUME pc[u] = "returned" PROVE stored'[u] # None /\ stored'[u].result # None
  <2>1. record[u].result # None /\ stored[u] # None /\ stored[u].result # None
    BY <1>4 DEF ResultsSettled
  <2>2. CASE stored'[u] = stored[u]
    BY <2>1, <2>2
  <2>3. CASE stored'[u] \in Copies(u) /\ stored'[u] # stored[u]
    <3>1. stored'[u] # None
      BY <2>1, <2>3, NoneAssumption DEF Copies, TypeOK
    <3> QED
      BY <2>1, <2>3, <3>1, CopiesHaveResult
  <2> QED
    BY <2>2, <2>3 DEF Carried
<1> QED
  BY <1>2, <1>3, <1>4

LEMMA NextSettled == IInv /\ Next => ResultsSettled'
<1> SUFFICES ASSUME IInv, Next PROVE ResultsSettled'
  OBVIOUS
<1> USE DEF scheduler, eventWrites, run, environment
<1>0. /\ TypeOK /\ EventsCounted /\ SlotsRight /\ ResultsAgree
      /\ CopiesFaithful /\ DecisionsOnResults /\ ResultsSettled
  BY DEF IInv
<1>1. \A u \in Task : Carried(u)
  BY <1>0, NextCarried
<1>2. ASSUME NEW t \in Task, AgentEnds(t) \/ SnapshotRead(t) PROVE ResultsSettled'
  <2>1. /\ pc[t] \in {"running", "snapshot"} /\ pc'[t] \in {"snapshot", "releasing"}
        /\ UNCHANGED <<record, stored, eventSave>>
        /\ \A u \in Task : u # t => pc'[u] = pc[u]
    BY <1>0, <1>2 DEF AgentEnds, SnapshotRead, SnapshotTaken, SnapshotMisreads, TypeOK
  <2> QED
    BY <1>0, <2>1 DEF ResultsSettled
<1>3. ASSUME NEW t \in Task, EventsWritten(t) PROVE ResultsSettled'
  <2>1. /\ pc[t] = "draining" /\ Finishing(t) /\ result[t] # None
        /\ eventSave[t] = None /\ UNCHANGED <<stored, eventSave>>
    BY <1>0, <1>3 DEF EventsWritten, ResultsAgree
  <2>2. /\ pc'[t] = "finishing" /\ record'[t].result # None
        /\ \A u \in Task : u # t => pc'[u] = pc[u] /\ record'[u] = record[u]
    BY <1>0, <2>1, FinishingRecord DEF TypeOK
  <2> QED
    BY <1>0, <2>1, <2>2 DEF ResultsSettled
<1>4. ASSUME NEW t \in Task, ResultSaved(t) PROVE ResultsSettled'
  <2>1. /\ pc[t] = "finishing" /\ pc'[t] = "returned" /\ stored'[t] = record[t]
        /\ UNCHANGED <<record, eventSave>> /\ record[t] # None
        /\ \A u \in Task : u # t => pc'[u] = pc[u] /\ stored'[u] = stored[u]
    BY <1>0, <1>4, NoneAssumption DEF ResultSaved, TypeOK
  <2> QED
    BY <1>0, <2>1 DEF ResultsSettled
<1>5. CASE \A t \in Task : ~AgentEnds(t) /\ ~SnapshotRead(t) /\ ~EventsWritten(t) /\ ~ResultSaved(t)
  <2>1. \A u \in Task : Onward(u)
    BY <1>0, <1>5, NextOnward
  <2>2. \A u \in Task : pc'[u] = "returned" => pc[u] = "returned"
    <3>1. ASSUME NEW t \in Task, Moves(t) PROVE \A u \in Task : pc'[u] = "returned" => pc[u] = "returned"
      <4>1. pc[t] # "finishing" \/ Caught(t)
        BY <1>5, <3>1 DEF Moves, Call, CreateFails, RunningSaved, RunningSaveFails, Prepare, PrepareFails,
           SnapshotFails, Release, ReleaseFails, EventsRejected, ResultSaveFails, FailureSaved,
           FailureSaveFails
      <4>2. pc'[t] # "returned"
        BY <1>0, <3>1, <4>1, MovesAlongEdges DEF Edges, Caught, TypeOK
      <4> QED
        BY <1>0, <3>1, <4>2, MovesAlongEdges
    <3>2. ASSUME NEW t \in Task, Enqueue(t) PROVE \A u \in Task : pc'[u] = "returned" => pc[u] = "returned"
      BY <1>0, <3>2 DEF Enqueue, Started, Caught, TypeOK
    <3>3. ASSUME NEW t \in Task, LeaveSlot(t) PROVE \A u \in Task : pc'[u] = "returned" => pc[u] = "returned"
      BY <1>0, <3>3, WaiterStarts DEF Started, TypeOK
    <3>4. ASSUME NEW t \in Task, Stays(t) PROVE pc' = pc
      BY <3>4 DEF Stays, Emit, EventSaved, EventSaveFails, Edit, LeaseExpires
    <3>5. ASSUME NEW v \in Reviewer, Decides(v) PROVE pc' = pc
      BY <3>5 DEF Decides, Decide, DecisionSaved, DecisionSaveFails
    <3> QED
      BY <3>1, <3>2, <3>3, <3>4, <3>5, NextCases
  <2> QED
    BY <1>0, <1>1, <2>1, <2>2, OnwardSettled DEF ResultsSettled, Final
<1> QED
  BY <1>2, <1>3, <1>4, <1>5

-----------------------------------------------------------------------------
\* The invariant, and what it is for.

LEMMA StutterIInv == IInv /\ UNCHANGED vars => IInv'
BY DEF vars, scheduler, eventWrites, run, environment, IInv, TypeOK, EventsCounted, SlotsRight,
   LeasesUsed, LeaseAt, ResultsAgree, Exclusive, Place, CopiesFaithful, Copies, DecisionsOnResults,
   ResultsSettled

\* The invariant holds in every reachable state.
THEOREM Invariant == Spec => []IInv
<1>1. IInv /\ Next => IInv'
  BY NextType, NextSlots, NextLeases, NextResults, NextCopies, NextDecisions, NextSettled DEF IInv
<1> QED
  BY <1>1, InitIInv, StutterIInv, PTL DEF Spec

\* Every variable of a run keeps its type, for any tasks, limits and numbers of events and
\* faults: no event write is due that no event asked for.
THEOREM TypeCorrect == Spec => []TypeOK
BY Invariant, PTL DEF IInv

\* A run that returned left its result, its snapshot and all its events in the store
\* (operations.ts: the await of eventWrites before the final save).
THEOREM ReturnedIsStoredHolds == Spec => []ReturnedIsStored
<1>1. IInv => ReturnedIsStored
  <2> SUFFICES ASSUME IInv, NEW t \in Task, pc[t] = "returned"
               PROVE  /\ stored[t] # None
                      /\ stored[t].status = result[t].state
                      /\ stored[t].result = result[t]
                      /\ stored[t].snapshot = snapshot[t]
                      /\ stored[t].events = record[t].events
    BY DEF ReturnedIsStored
  <2>1. stored[t] # None /\ stored[t].result # None
    BY DEF IInv, ResultsSettled
  <2>2. Faithful(stored[t], result[t], snapshot[t], record[t], pc[t])
    BY <2>1 DEF IInv, CopiesFaithful, Copies
  <2> QED
    BY <2>1, <2>2 DEF Faithful
<1> QED
  BY <1>1, Invariant, PTL

\* With a sandbox of its own, or one task per repository at a time, nobody else's writes get into
\* a stored snapshot: it is what the run reported on, unless an operation failed or a sandbox was
\* gone and exists() took that for a deletion.
THEOREM SnapshotUndisturbedHolds == Spec => []SnapshotUndisturbed
<1>1. IInv => SnapshotUndisturbed
  <2> SUFFICES ASSUME IInv, hosted \/ MaxConcurrentPerRepository = 1,
                      NEW t \in Task, stored[t] # None, stored[t].snapshot # None
               PROVE  \/ stored[t].snapshot = stored[t].result.tree
                      \/ stored[t].snapshot = Misread /\ faults > 0
    BY DEF SnapshotUndisturbed
  <2>1. Faithful(stored[t], result[t], snapshot[t], record[t], pc[t])
    BY DEF IInv, CopiesFaithful, Copies
  <2>2. stored[t].result = result[t] /\ stored[t].snapshot = snapshot[t]
    BY <2>1 DEF Faithful
  <2> QED
    BY <2>2 DEF IInv, ResultsAgree, Exclusive
<1> QED
  BY <1>1, Invariant, PTL

\* A sandbox that runs without a slot belongs to a call that failed, before its agent ran or in
\* its release: every other way out of the run stops it first.
THEOREM LeaseReturnedHolds == Spec => []LeaseReturned
<1>1. IInv => LeaseReturned
  <2> SUFFICES ASSUME IInv, NEW t \in Task, Up(t), t \notin served
               PROVE  record[t].status = "failed" /\ (result[t] = None \/ lease[t] = "unstopped")
    BY DEF LeaseReturned
  <2>1. LeaseAt(lease[t], pc[t], record[t].status, result[t])
    BY DEF IInv, LeasesUsed
  <2>2. pc[t] \notin InSlot
    BY DEF IInv, SlotsRight
  <2> QED
    BY <2>1, <2>2 DEF LeaseAt, Up, InSlot
<1> QED
  BY <1>1, Invariant, PTL

\* No write of the run, late or failed, and no decision of a reviewer loses a stored result.
THEOREM EvidenceKeptHolds == Spec => EvidenceKept
<1>1. IInv /\ [Next]_vars =>
        \A t \in Task :
          stored[t] # None /\ stored[t].result # None =>
            stored'[t] # None /\ stored'[t].result = stored[t].result
  <2> SUFFICES ASSUME IInv, [Next]_vars, NEW t \in Task, stored[t] # None, stored[t].result # None
               PROVE  stored'[t] # None /\ stored'[t].result = stored[t].result
    OBVIOUS
  <2>1. CASE stored'[t] = stored[t]
    BY <2>1
  <2>2. CASE Next /\ stored'[t] # stored[t]
    <3>1. stored'[t] \in Copies(t) /\ stored[t] \in Copies(t) /\ stored'[t] # None
      BY <2>2, NextCarried, NoneAssumption DEF IInv, TypeOK, Carried, Copies
    <3>2. \A x \in Copies(t) : x.result # None => x.result = result[t] /\ record[t].result # None
      BY DEF IInv, CopiesFaithful, Faithful
    <3>3. stored'[t].result # None
      BY <2>2, <3>1, <3>2, CopiesHaveResult DEF IInv
    <3> QED
      BY <3>1, <3>2, <3>3
  <2> QED
    BY <2>1, <2>2 DEF vars
<1> QED
  BY <1>1, Invariant, PTL DEF Spec, EvidenceKept

-----------------------------------------------------------------------------
\* Whom a waiting task waits for: what the scheduler promises, in terms of the calls.

OfRepository(S, r) == {k \in S : RepositoryOf[k] = r}

\* Admission!MayJoin, with this module's words.
Fits(t, S) ==
    /\ Cardinality(S) < MaxConcurrent
    /\ Cardinality(OfRepository(S, RepositoryOf[t])) < MaxConcurrentPerRepository

\* The places of a call that holds a slot: its run, and the catch block and the end of run().
HoldingSlot == InSlot \union {"catching", "returned", "rejected"}

QuotasKept ==
    /\ Cardinality(served) <= MaxConcurrent
    /\ \A r \in Repository : Cardinality(OfRepository(served, r)) <= MaxConcurrentPerRepository

NobodyPassedOver == \A i \in 1..Len(waiting) : ~Fits(waiting[i], served)

\* The scheduler serves nobody who does not run, and queues everybody who waits.
Placed ==
    \A t \in Task :
        /\ t \in served => pc[t] \in HoldingSlot
        /\ pc[t] = "waiting" => \E i \in 1..Len(waiting) : waiting[i] = t

WInv == QuotasKept /\ NobodyPassedOver /\ Placed

\* The tasks inside the function given to schedule() are within both limits; the sandboxes that
\* run, those left behind included, exceed the limit by one for each failure at most.
RunsWithinLimits ==
    LET inside == {t \in Task : pc[t] \in InSlot}
    IN  /\ Cardinality(inside) <= MaxConcurrent
        /\ \A r \in Repository :
             Cardinality(OfRepository(inside, r)) <= MaxConcurrentPerRepository
        /\ Cardinality({t \in Task : Up(t)}) <= MaxConcurrent + faults

\* A waiting task waits for others that are all running or on their way out: those in all the
\* slots, or all that its repository may have.
WaitersHaveRunners ==
    \A t \in Task :
        pc[t] = "waiting" =>
            LET own == OfRepository(served, RepositoryOf[t])
            IN  /\ \A u \in served : pc[u] \in HoldingSlot
                /\ \/ served # {} /\ Cardinality(served) = MaxConcurrent
                   \/ own # {} /\ Cardinality(own) = MaxConcurrentPerRepository

LEMMA MayJoinIsFits ==
    ASSUME NEW t, NEW S
    PROVE  Admission!MayJoin(t, S) <=> Fits(t, S)
<1>1. \A T : Admission!Cardinality(T) = Cardinality(T)
  BY DEF Admission!Cardinality, Cardinality
<1> QED
  BY <1>1 DEF Admission!MayJoin, Fits, OfRepository

\* T has one more task than S, in the repository of t.
CountedOneMore(T, S, t) ==
    /\ Cardinality(S) \in Nat
    /\ Cardinality(T) = Cardinality(S) + 1
    /\ \A r : /\ Cardinality(OfRepository(S, r)) \in Nat
              /\ Cardinality(OfRepository(T, r)) =
                   IF RepositoryOf[t] = r THEN Cardinality(OfRepository(S, r)) + 1
                                          ELSE Cardinality(OfRepository(S, r))

\* One more task counts once, in its own repository.
LEMMA OneMore ==
    ASSUME NEW S, IsFiniteSet(S), NEW t, t \notin S, NEW T, T = S \union {t}
    PROVE  IsFiniteSet(T) /\ CountedOneMore(T, S, t)
<1>1. /\ IsFiniteSet(T) /\ Cardinality(S) \in Nat
      /\ Cardinality(T) = Cardinality(S) + 1
  BY FS_AddElement, FS_CardinalityType
<1>2. ASSUME NEW r
      PROVE  /\ Cardinality(OfRepository(S, r)) \in Nat
             /\ Cardinality(OfRepository(T, r)) =
                  IF RepositoryOf[t] = r THEN Cardinality(OfRepository(S, r)) + 1
                                         ELSE Cardinality(OfRepository(S, r))
  <2>1. OfRepository(S, r) \subseteq S /\ t \notin OfRepository(S, r)
    BY DEF OfRepository
  <2>2. IsFiniteSet(OfRepository(S, r))
    BY <2>1, FS_Subset
  <2>3. OfRepository(T, r) =
          IF RepositoryOf[t] = r THEN OfRepository(S, r) \union {t} ELSE OfRepository(S, r)
    BY DEF OfRepository
  <2>4. Cardinality(OfRepository(S, r)) \in Nat
    BY <2>2, FS_CardinalityType
  <2>5. Cardinality(OfRepository(S, r) \union {t}) = Cardinality(OfRepository(S, r)) + 1
    BY <2>1, <2>2, FS_AddElement
  <2> QED
    BY <2>3, <2>4, <2>5
<1> QED
  BY <1>1, <1>2 DEF CountedOneMore

\* A task served at once leaves the quotas kept and nobody who could be served.
LEMMA ServedAtOnce ==
    ASSUME TypeOK, SlotsRight, WInv, NEW t \in Task, t \notin served, Fits(t, served),
           served' = served \union {t}, waiting' = waiting
    PROVE  QuotasKept' /\ NobodyPassedOver'
<1>1. /\ Cardinality(served) \in Nat
      /\ Cardinality(served') = Cardinality(served) + 1
      /\ \A r : /\ Cardinality(OfRepository(served, r)) \in Nat
                /\ Cardinality(OfRepository(served', r)) =
                     IF RepositoryOf[t] = r THEN Cardinality(OfRepository(served, r)) + 1
                                            ELSE Cardinality(OfRepository(served, r))
  <2>1. CountedOneMore(served', served, t)
    BY OneMore DEF SlotsRight
  <2> QED
    BY <2>1 DEF CountedOneMore
<1>2. QuotasKept'
  <2>1. Cardinality(served') <= MaxConcurrent
    BY <1>1, RunTaskAssumption DEF Fits
  <2>2. ASSUME NEW r \in Repository
        PROVE  Cardinality(OfRepository(served', r)) <= MaxConcurrentPerRepository
    <3>1. CASE RepositoryOf[t] = r
      <4>1. Cardinality(OfRepository(served', r)) = Cardinality(OfRepository(served, r)) + 1
        BY <1>1, <3>1
      <4>2. Cardinality(OfRepository(served, r)) < MaxConcurrentPerRepository
        BY <3>1 DEF Fits
      <4>3. Cardinality(OfRepository(served, r)) \in Nat
        BY <1>1
      <4> QED
        BY <4>1, <4>2, <4>3, RunTaskAssumption
    <3>2. CASE RepositoryOf[t] # r
      BY <1>1, <3>2 DEF WInv, QuotasKept
    <3> QED
      BY <3>1, <3>2
  <2> QED
    BY <2>1, <2>2 DEF QuotasKept
<1>3. ASSUME NEW i \in 1..Len(waiting)
      PROVE  ~Fits(waiting[i], served')
  <2>1. ~Fits(waiting[i], served)
    BY DEF WInv, NobodyPassedOver
  <2> QED
    BY <1>1, <2>1, RunTaskAssumption DEF Fits
<1>4. NobodyPassedOver'
  BY <1>3 DEF NobodyPassedOver, Fits
<1> QED
  BY <1>2, <1>4

\* A slot handed over: the task that takes it leaves the others where they were.
LEMMA HandedOver ==
    ASSUME TypeOK, SlotsRight, WInv, NEW t \in served, NEW i \in 1..Len(waiting),
           waiting[i] \in Task, waiting[i] \notin served, Fits(waiting[i], served \ {t}),
           served' = (served \ {t}) \union {waiting[i]}, waiting' \in Seq(Task),
           Len(waiting') = Len(waiting) - 1,
           \A k \in 1..(Len(waiting) - 1) : waiting'[k] = IF k < i THEN waiting[k] ELSE waiting[k + 1]
    PROVE  QuotasKept' /\ NobodyPassedOver'
<1> DEFINE rest == served \ {t}
           w == waiting[i]
<1>1. IsFiniteSet(rest) /\ served = rest \union {t} /\ t \notin rest /\ w \notin rest
  BY FS_RemoveElement DEF SlotsRight
<1> HIDE DEF rest
<1>2. /\ Cardinality(rest) \in Nat
      /\ Cardinality(served) = Cardinality(rest) + 1
      /\ Cardinality(served') = Cardinality(rest) + 1
      /\ \A r : /\ Cardinality(OfRepository(rest, r)) \in Nat
                /\ Cardinality(OfRepository(served, r)) =
                     IF RepositoryOf[t] = r THEN Cardinality(OfRepository(rest, r)) + 1
                                            ELSE Cardinality(OfRepository(rest, r))
                /\ Cardinality(OfRepository(served', r)) =
                     IF RepositoryOf[w] = r THEN Cardinality(OfRepository(rest, r)) + 1
                                            ELSE Cardinality(OfRepository(rest, r))
  <2>1. served' = rest \union {w}
    BY DEF rest
  <2>2. CountedOneMore(served, rest, t) /\ CountedOneMore(served', rest, w)
    BY <1>1, <2>1, OneMore
  <2> QED
    BY <2>2 DEF CountedOneMore
<1>3. /\ Cardinality(rest) < MaxConcurrent
      /\ Cardinality(OfRepository(rest, RepositoryOf[w])) < MaxConcurrentPerRepository
  BY DEF Fits, rest
<1>4. QuotasKept'
  <2>1. Cardinality(served') <= MaxConcurrent
    BY <1>2, <1>3, RunTaskAssumption
  <2>2. ASSUME NEW r \in Repository
        PROVE  Cardinality(OfRepository(served', r)) <= MaxConcurrentPerRepository
    <3>0. Cardinality(OfRepository(rest, r)) \in Nat
      BY <1>2
    <3>1. CASE RepositoryOf[w] = r
      <4>1. Cardinality(OfRepository(served', r)) = Cardinality(OfRepository(rest, r)) + 1
        BY <1>2, <3>1
      <4>2. Cardinality(OfRepository(rest, r)) < MaxConcurrentPerRepository
        BY <1>3, <3>1
      <4> QED
        BY <3>0, <4>1, <4>2, RunTaskAssumption
    <3>2. CASE RepositoryOf[w] # r
      <4>1. Cardinality(OfRepository(served, r)) <= MaxConcurrentPerRepository
        BY DEF WInv, QuotasKept
      <4>2. Cardinality(OfRepository(served', r)) = Cardinality(OfRepository(rest, r))
        BY <1>2, <3>2
      <4>3. \/ Cardinality(OfRepository(served, r)) = Cardinality(OfRepository(rest, r)) + 1
            \/ Cardinality(OfRepository(served, r)) = Cardinality(OfRepository(rest, r))
        BY <1>2
      <4> QED
        BY <3>0, <4>1, <4>2, <4>3, RunTaskAssumption
    <3> QED
      BY <3>1, <3>2
  <2> QED
    BY <2>1, <2>2 DEF QuotasKept
<1>5. ASSUME NEW m \in 1..Len(waiting)
      PROVE  ~Fits(waiting[m], served')
  <2> DEFINE r == RepositoryOf[waiting[m]]
  <2>1. ~Fits(waiting[m], served) /\ ~Fits(w, served)
    BY DEF WInv, NobodyPassedOver
  <2>2. SUFFICES ASSUME Cardinality(served') < MaxConcurrent
                 PROVE  ~(Cardinality(OfRepository(served', r)) < MaxConcurrentPerRepository)
    BY DEF Fits
  <2>3. /\ ~(Cardinality(OfRepository(served, r)) < MaxConcurrentPerRepository)
        /\ ~(Cardinality(OfRepository(served, RepositoryOf[w])) < MaxConcurrentPerRepository)
    BY <1>2, <2>1, <2>2 DEF Fits
  <2>4. RepositoryOf[w] = RepositoryOf[t]
    BY <1>2, <1>3, <2>3
  <2> HIDE DEF r, w
  <2> QED
    BY <1>2, <2>3, <2>4
<1>6. NobodyPassedOver'
  <2>1. ASSUME NEW k \in 1..Len(waiting')
        PROVE  \E m \in 1..Len(waiting) : waiting'[k] = waiting[m]
    <3>1. Len(waiting) \in Nat /\ k \in 1..Len(waiting) /\ k + 1 \in 1..Len(waiting)
      BY DEF TypeOK
    <3> QED
      BY <3>1
  <2> QED
    BY <1>5, <2>1 DEF NobodyPassedOver, Fits
<1> QED
  BY <1>4, <1>6

\* A task leaves: the queue and the quotas after it.
LEMMA LeaveSlotWaits ==
    ASSUME TypeOK, SlotsRight, WInv, NEW t \in Task, LeaveSlot(t)
    PROVE  WInv'
<1>1. t \in served /\ pc[t] \notin InSlot
  BY DEF LeaveSlot, Settled, InSlot
<1>2. CASE Admission!DepartIdle(t) /\ UNCHANGED <<pc, record>>
  <2>1. served' = served \ {t} /\ waiting' = waiting /\ pc' = pc
    BY <1>2 DEF Admission!DepartIdle
  <2>2. CountedOneMore(served, served', t)
    <3>1. IsFiniteSet(served') /\ t \notin served' /\ served = served' \union {t}
      BY <1>1, <2>1, FS_RemoveElement DEF SlotsRight
    <3> QED
      BY <3>1, OneMore
  <2>3. QuotasKept'
    <3>1. Cardinality(served') <= MaxConcurrent
      BY <2>2, RunTaskAssumption DEF WInv, QuotasKept, CountedOneMore
    <3>2. ASSUME NEW r \in Repository
          PROVE  Cardinality(OfRepository(served', r)) <= MaxConcurrentPerRepository
      <4>1. Cardinality(OfRepository(served, r)) <= MaxConcurrentPerRepository
        BY DEF WInv, QuotasKept
      <4>2. /\ Cardinality(OfRepository(served', r)) \in Nat
            /\ \/ Cardinality(OfRepository(served, r)) = Cardinality(OfRepository(served', r)) + 1
               \/ Cardinality(OfRepository(served, r)) = Cardinality(OfRepository(served', r))
        BY <2>2 DEF CountedOneMore
      <4> QED
        BY <4>1, <4>2, RunTaskAssumption
    <3> QED
      BY <3>1, <3>2 DEF QuotasKept
  <2>4. \A i \in 1..Len(waiting) : ~Fits(waiting[i], served')
    <3>1. \A i \in DOMAIN waiting : ~Admission!MayJoin(waiting[i], served \ {t})
      BY <1>2 DEF Admission!DepartIdle
    <3>2. \A i \in DOMAIN waiting : ~Fits(waiting[i], served \ {t})
      BY <3>1, MayJoinIsFits
    <3>3. DOMAIN waiting = 1..Len(waiting)
      BY DEF TypeOK
    <3>4. \A i \in 1..Len(waiting) : ~Fits(waiting[i], served \ {t})
      BY <3>2, <3>3
    <3> QED
      BY <2>1, <3>4
  <2>5. NobodyPassedOver'
    BY <2>1, <2>4 DEF NobodyPassedOver, Fits
  <2>6. Placed'
    BY <2>1 DEF WInv, Placed
  <2> QED
    BY <2>3, <2>5, <2>6 DEF WInv
<1>3. CASE Admission!DepartHandover(t) /\ \E u \in served' \ served : Started(u, pc)
  <2>1. PICK i \in 1..Len(waiting) :
          /\ waiting[i] \in Task /\ pc[waiting[i]] = "waiting"
          /\ Admission!MayJoin(waiting[i], served \ {t})
          /\ served' = (served \ {t}) \union {waiting[i]}
          /\ waiting' \in Seq(Task)
          /\ Len(waiting') = Len(waiting) - 1
          /\ \A k \in 1..(Len(waiting) - 1) :
               waiting'[k] = IF k < i THEN waiting[k] ELSE waiting[k + 1]
    BY <1>3, Handover
  <2>2. waiting[i] \notin served
    BY <2>1 DEF WInv, Placed, HoldingSlot, InSlot
  <2>3. Fits(waiting[i], served \ {t})
    BY <2>1, MayJoinIsFits
  <2>4. QuotasKept' /\ NobodyPassedOver'
    BY <1>1, <2>1, <2>2, <2>3, HandedOver
  <2>5. \A u \in Task : pc'[u] = IF u = waiting[i] THEN "starting" ELSE pc[u]
    BY <1>3, <2>1 DEF Started, TypeOK
  <2>6. ASSUME NEW u \in Task, pc'[u] = "waiting"
        PROVE  \E k \in 1..Len(waiting') : waiting'[k] = u
    <3>1. pc[u] = "waiting" /\ u # waiting[i]
      BY <2>5, <2>6
    <3>2. PICK m \in 1..Len(waiting) : waiting[m] = u
      BY <3>1 DEF WInv, Placed
    <3>3. Len(waiting) \in Nat /\ m # i
      BY <3>1, <3>2 DEF TypeOK
    <3>4. CASE m < i
      BY <2>1, <3>2, <3>3, <3>4
    <3>5. CASE i < m
      <4>1. m - 1 \in 1..Len(waiting') /\ ~(m - 1 < i) /\ (m - 1) + 1 = m
        BY <2>1, <3>3, <3>5
      <4>2. waiting'[m - 1] = waiting[m]
        BY <2>1, <4>1
      <4> QED
        BY <3>2, <4>1, <4>2
    <3> QED
      BY <3>3, <3>4, <3>5
  <2>7. \A u \in served' : u \in Task => pc'[u] \in HoldingSlot
    BY <2>1, <2>5 DEF WInv, Placed, HoldingSlot, InSlot
  <2> QED
    BY <2>4, <2>6, <2>7 DEF WInv, Placed
<1> QED
  BY <1>2, <1>3 DEF LeaveSlot, Admission!DepartIdle

\* A task arrives.
LEMMA EnqueueWaits ==
    ASSUME TypeOK, SlotsRight, WInv, NEW t \in Task, Enqueue(t)
    PROVE  WInv'
<1>1. pc[t] = "creating" /\ t \notin served
  BY DEF Enqueue, WInv, Placed, HoldingSlot, InSlot
<1>2. CASE Admission!ArriveServed(t) /\ Started(t, pc)
  <2>1. waiting' = waiting /\ served' = served \union {t} /\ Fits(t, served)
    BY <1>2, MayJoinIsFits DEF Admission!ArriveServed
  <2>2. QuotasKept' /\ NobodyPassedOver'
    BY <1>1, <2>1, ServedAtOnce
  <2>3. \A u \in Task : pc'[u] = IF u = t THEN "starting" ELSE pc[u]
    BY <1>2 DEF Started, TypeOK
  <2>4. Placed'
    BY <2>1, <2>3 DEF WInv, Placed, HoldingSlot, InSlot
  <2> QED
    BY <2>2, <2>4 DEF WInv
<1>3. CASE Admission!ArriveWaiting(t) /\ pc' = [pc EXCEPT ![t] = "waiting"]
  <2>1. waiting' = Append(waiting, t) /\ served' = served /\ ~Fits(t, served)
    BY <1>3, MayJoinIsFits DEF Admission!ArriveWaiting
  <2>2. /\ Len(waiting') = Len(waiting) + 1 /\ Len(waiting) \in Nat
        /\ waiting'[Len(waiting) + 1] = t
        /\ \A i \in 1..Len(waiting) : waiting'[i] = waiting[i]
    BY <2>1 DEF TypeOK
  <2>3. \A u \in Task : pc'[u] = IF u = t THEN "waiting" ELSE pc[u]
    BY <1>3 DEF TypeOK
  <2>4. QuotasKept'
    BY <2>1 DEF WInv, QuotasKept
  <2>5. ASSUME NEW i \in 1..Len(waiting')
        PROVE  ~Fits(waiting'[i], served')
    BY <2>1, <2>2 DEF WInv, NobodyPassedOver
  <2>6. NobodyPassedOver'
    BY <2>5 DEF NobodyPassedOver, Fits
  <2>7. ASSUME NEW u \in Task, pc'[u] = "waiting"
        PROVE  \E k \in 1..Len(waiting') : waiting'[k] = u
    BY <2>2, <2>3, <2>7 DEF WInv, Placed
  <2>8. \A u \in served' : u \in Task => pc'[u] \in HoldingSlot
    BY <1>1, <2>1, <2>3 DEF WInv, Placed
  <2> QED
    BY <2>4, <2>6, <2>7, <2>8 DEF WInv, Placed
<1>4. CASE Caught(t) /\ UNCHANGED scheduler
  <2>1. \A u \in Task : pc'[u] = IF u = t THEN "catching" ELSE pc[u]
    BY <1>4 DEF Caught, TypeOK
  <2>2. waiting' = waiting /\ served' = served
    BY <1>4 DEF scheduler
  <2>3. QuotasKept' /\ NobodyPassedOver'
    BY <2>2 DEF WInv, QuotasKept, NobodyPassedOver, Fits
  <2>4. Placed'
    BY <2>1, <2>2 DEF WInv, Placed, HoldingSlot
  <2> QED
    BY <2>3, <2>4 DEF WInv
<1> QED
  BY <1>2, <1>3, <1>4 DEF Enqueue

\* Inside its code a task that is served stays so, and nobody joins or leaves the queue.
LEMMA OthersWait ==
    ASSUME TypeOK, WInv, UNCHANGED scheduler,
           \A u \in Task : pc'[u] = pc[u] \/ <<pc[u], pc'[u]>> \in Edges
    PROVE  WInv'
<1>1. waiting' = waiting /\ served' = served
  BY DEF scheduler
<1>2. \A u \in Task : /\ pc[u] \in HoldingSlot => pc'[u] \in HoldingSlot
                      /\ pc'[u] = "waiting" => pc[u] = "waiting"
  BY DEF Edges, HoldingSlot, InSlot
<1>3. QuotasKept' /\ NobodyPassedOver'
  BY <1>1 DEF WInv, QuotasKept, NobodyPassedOver, Fits
<1>4. Placed'
  BY <1>1, <1>2 DEF WInv, Placed
<1> QED
  BY <1>3, <1>4 DEF WInv

LEMMA NextWaits == TypeOK /\ SlotsRight /\ WInv /\ [Next]_vars => WInv'
<1> SUFFICES ASSUME TypeOK, SlotsRight, WInv, [Next]_vars PROVE WInv'
  OBVIOUS
<1>1. ASSUME NEW t \in Task, Moves(t) PROVE WInv'
  BY <1>1, MovesAlongEdges, OthersWait
<1>2. ASSUME NEW t \in Task, Stays(t) PROVE WInv'
  <2>1. UNCHANGED scheduler /\ pc' = pc
    BY <1>2 DEF Stays, Emit, EventSaved, EventSaveFails, Edit, LeaseExpires, scheduler
  <2> QED
    BY <2>1, OthersWait
<1>3. ASSUME NEW v \in Reviewer, Decides(v) PROVE WInv'
  <2>1. UNCHANGED scheduler /\ pc' = pc
    BY <1>3 DEF Decides, Decide, DecisionSaved, DecisionSaveFails, scheduler
  <2> QED
    BY <2>1, OthersWait
<1>4. CASE UNCHANGED vars
  BY <1>4, OthersWait DEF vars
<1> QED
  BY <1>1, <1>2, <1>3, <1>4, NextCases, EnqueueWaits, LeaveSlotWaits

LEMMA InitWaits == Init => WInv
<1> SUFFICES ASSUME Init PROVE WInv
  OBVIOUS
<1> USE DEF Init, Admission!Init
<1>1. QuotasKept
  <2>1. \A r : OfRepository(served, r) = {}
    BY DEF OfRepository
  <2>2. Cardinality(served) = 0 /\ \A r : Cardinality(OfRepository(served, r)) = 0
    BY <2>1, FS_EmptySet
  <2> QED
    BY <2>2, RunTaskAssumption DEF QuotasKept
<1>2. NobodyPassedOver /\ Placed
  BY DEF NobodyPassedOver, Placed
<1> QED
  BY <1>1, <1>2 DEF WInv

\* Nobody waits who could be served, nobody is served who does not run, and nobody waits outside
\* the queue: whatever fails, a slot that is given up reaches the scheduler.
THEOREM SlotsAccounted == Spec => []WInv
BY Invariant, InitWaits, NextWaits, PTL DEF Spec, IInv

\* The sandboxes that run for calls which have left the run: released in vain, or never.
LeftBehind == {t \in Task : Up(t) /\ pc[t] \in {"catching", "rejected"}}

LeaksPaid == IsFiniteSet(LeftBehind) /\ Cardinality(LeftBehind) <= faults

\* A step leaves at most one sandbox behind, and only if something fails in it.
LEMMA OneLeakPerFault ==
    ASSUME IInv, Next
    PROVE  \/ LeftBehind' \subseteq LeftBehind
           \/ \E t \in Task : LeftBehind' \subseteq LeftBehind \union {t} /\ faults' = faults + 1
<1> USE DEF scheduler, eventWrites, run, environment
<1>0. TypeOK /\ EventsCounted /\ SlotsRight /\ LeasesUsed /\ ResultsAgree
  BY DEF IInv
<1>1. ASSUME NEW t \in Task, Moves(t)
      PROVE  \/ LeftBehind' \subseteq LeftBehind
             \/ LeftBehind' \subseteq LeftBehind \union {t} /\ faults' = faults + 1
  <2>1. LeftBehind' \subseteq LeftBehind \union {t}
    BY <1>0, <1>1, MovesLease DEF LeftBehind, Up
  <2>2. CASE Fault
    BY <2>1, <2>2 DEF Fault
  <2>3. CASE pc'[t] \notin {"catching", "rejected"}
    BY <2>1, <2>3 DEF LeftBehind
  <2>4. CASE Release(t)
    <3>1. lease'[t] \notin {"live", "unstopped"}
      BY <1>0, <2>4 DEF Release, LeasesUsed, LeaseAt, TypeOK
    <3> QED
      BY <2>1, <3>1 DEF LeftBehind, Up
  <2>5. CASE EventsRejected(t)
    <3>1. lease'[t] \notin {"live", "unstopped"}
      BY <1>0, <2>5 DEF EventsRejected, LeasesUsed, LeaseAt
    <3> QED
      BY <2>1, <3>1 DEF LeftBehind, Up
  <2>6. CASE FailureSaved(t)
    <3>1. pc[t] = "catching" /\ UNCHANGED lease
      BY <2>6 DEF FailureSaved
    <3> QED
      BY <2>1, <3>1 DEF LeftBehind, Up
  <2>7. \/ Fault \/ pc'[t] \notin {"catching", "rejected"} \/ Release(t) \/ EventsRejected(t)
        \/ FailureSaved(t)
    BY <1>0, <1>1 DEF Moves, Call, CreateFails, RunningSaved, RunningSaveFails, Prepare, PrepareFails,
       AgentEnds, SnapshotRead, SnapshotTaken, SnapshotMisreads, SnapshotFails, ReleaseFails,
       EventsWritten, Finishing, ResultSaved, ResultSaveFails, FailureSaveFails, TypeOK
  <2> QED
    BY <2>2, <2>3, <2>4, <2>5, <2>6, <2>7
<1>2. ASSUME NEW t \in Task, Stays(t) PROVE LeftBehind' \subseteq LeftBehind
  BY <1>0, <1>2 DEF Stays, Emit, EventSaved, EventSaveFails, Edit, LeaseExpires, LeftBehind, Up, TypeOK
<1>3. ASSUME NEW t \in Task, Enqueue(t) PROVE LeftBehind' \subseteq LeftBehind
  <2>1. /\ pc[t] = "creating" /\ UNCHANGED lease
        /\ \A u \in Task : u # t => pc'[u] = pc[u]
    BY <1>0, <1>3 DEF Enqueue, Started, Caught, TypeOK
  <2>2. lease[t] \notin {"live", "unstopped"}
    BY <1>0, <2>1 DEF LeasesUsed, LeaseAt
  <2> QED
    BY <2>1, <2>2 DEF LeftBehind, Up
<1>4. ASSUME NEW t \in Task, LeaveSlot(t) PROVE LeftBehind' \subseteq LeftBehind
  <2>1. UNCHANGED lease
    BY <1>4 DEF LeaveSlot
  <2>2. \A u \in Task : pc'[u] \in {pc[u], "starting"}
    BY <1>0, <1>4, WaiterStarts DEF Started, TypeOK
  <2> QED
    BY <2>1, <2>2 DEF LeftBehind, Up
<1>5. ASSUME NEW v \in Reviewer, Decides(v) PROVE LeftBehind' \subseteq LeftBehind
  BY <1>5 DEF Decides, Decide, DecisionSaved, DecisionSaveFails, LeftBehind, Up
<1> QED
  BY <1>1, <1>2, <1>3, <1>4, <1>5, NextCases

\* No failure leaves two sandboxes behind, so there are at most as many as failures.
LEMMA LeaksArePaid == Spec => []LeaksPaid
<1>1. Init => LeaksPaid
  <2> SUFFICES ASSUME Init PROVE LeaksPaid
    OBVIOUS
  <2>1. LeftBehind = {} /\ faults = 0
    BY DEF Init, LeftBehind, Up
  <2> QED
    BY <2>1, FS_EmptySet DEF LeaksPaid
<1>2. IInv /\ LeaksPaid /\ [Next]_vars => LeaksPaid'
  <2> SUFFICES ASSUME IInv, LeaksPaid, [Next]_vars PROVE LeaksPaid'
    OBVIOUS
  <2>1. IsFiniteSet(LeftBehind) /\ Cardinality(LeftBehind) \in Nat /\ Cardinality(LeftBehind) <= faults
    BY FS_CardinalityType DEF LeaksPaid
  <2>2. CASE UNCHANGED vars
    BY <2>1, <2>2 DEF vars, run, environment, LeaksPaid, LeftBehind, Up
  <2>3. CASE Next /\ LeftBehind' \subseteq LeftBehind
    <3>1. IsFiniteSet(LeftBehind') /\ Cardinality(LeftBehind') <= Cardinality(LeftBehind)
      BY <2>1, <2>3, FS_Subset
    <3>2. Cardinality(LeftBehind') \in Nat
      BY <3>1, FS_CardinalityType
    <3>3. faults \in Nat /\ faults' \in Nat /\ faults' >= faults
      BY <2>3, FaultsCounted DEF IInv
    <3>4. Cardinality(LeftBehind') <= faults'
      BY <2>1, <3>1, <3>2, <3>3
    <3> QED
      BY <3>1, <3>4 DEF LeaksPaid
  <2>4. CASE Next /\ \E t \in Task : LeftBehind' \subseteq LeftBehind \union {t} /\ faults' = faults + 1
    <3>1. PICK t \in Task : LeftBehind' \subseteq LeftBehind \union {t} /\ faults' = faults + 1
      BY <2>4
    <3> DEFINE T == LeftBehind \union {t}
    <3>2. IsFiniteSet(T) /\ Cardinality(T) <= Cardinality(LeftBehind) + 1
      BY <2>1, FS_AddElement
    <3>3. IsFiniteSet(LeftBehind') /\ Cardinality(LeftBehind') <= Cardinality(T)
      BY <3>1, <3>2, FS_Subset
    <3>4. Cardinality(T) \in Nat /\ Cardinality(LeftBehind') \in Nat
      BY <3>2, <3>3, FS_CardinalityType
    <3>5. faults \in Nat
      BY <2>4, FaultsCounted DEF IInv
    <3> HIDE DEF T
    <3>6. Cardinality(LeftBehind') <= faults'
      BY <2>1, <3>1, <3>2, <3>3, <3>4, <3>5
    <3> QED
      BY <3>3, <3>6 DEF LeaksPaid
  <2> QED
    BY <2>2, <2>3, <2>4, OneLeakPerFault
<1> QED
  BY <1>1, <1>2, Invariant, PTL DEF Spec

\* However many tasks there are and whatever fails in them, the runs in progress stay within the
\* global limit and each repository's, and a failure leaves at most one sandbox running beyond
\* its slot (operations.ts: schedule(), acquire() and the finally block).
THEOREM RunsStayWithinLimits == Spec => []RunsWithinLimits
<1>1. IInv /\ WInv /\ LeaksPaid => RunsWithinLimits
  <2> SUFFICES ASSUME IInv, WInv, LeaksPaid PROVE RunsWithinLimits
    OBVIOUS
  <2> DEFINE inside == {t \in Task : pc[t] \in InSlot}
             up == {t \in Task : Up(t)}
  <2>1. inside \subseteq served /\ IsFiniteSet(served)
    BY DEF IInv, SlotsRight
  <2>2. Cardinality(served) \in Nat /\ Cardinality(served) <= MaxConcurrent
    BY <2>1, FS_CardinalityType DEF WInv, QuotasKept
  <2>3. IsFiniteSet(inside) /\ Cardinality(inside) <= Cardinality(served)
    BY <2>1, FS_Subset
  <2>4. Cardinality(inside) \in Nat
    BY <2>3, FS_CardinalityType
  <2>5. Cardinality(inside) <= MaxConcurrent
    BY <2>2, <2>3, <2>4, RunTaskAssumption
  <2>5a. Cardinality(up) <= MaxConcurrent + faults
    <3>1. up \subseteq inside \union LeftBehind
      BY DEF IInv, LeasesUsed, LeaseAt, LeftBehind, Up, InSlot
    <3>2. /\ IsFiniteSet(LeftBehind) /\ Cardinality(LeftBehind) \in Nat
          /\ Cardinality(LeftBehind) <= faults
      BY FS_CardinalityType DEF LeaksPaid
    <3>3. /\ IsFiniteSet(inside \union LeftBehind)
          /\ Cardinality(inside \union LeftBehind) <= Cardinality(inside) + Cardinality(LeftBehind)
      <4>1. IsFiniteSet(inside \union LeftBehind) /\ IsFiniteSet(inside \cap LeftBehind)
        BY <2>3, <3>2, FS_Union, FS_Intersection
      <4>2. /\ Cardinality(inside \cap LeftBehind) \in Nat
            /\ Cardinality(inside \union LeftBehind)
                 = Cardinality(inside) + Cardinality(LeftBehind) - Cardinality(inside \cap LeftBehind)
        BY <2>3, <3>2, <4>1, FS_Union, FS_CardinalityType
      <4> QED
        BY <2>4, <3>2, <4>1, <4>2
    <3>4. IsFiniteSet(up) /\ Cardinality(up) <= Cardinality(inside \union LeftBehind)
      BY <3>1, <3>3, FS_Subset
    <3>5. Cardinality(up) \in Nat /\ Cardinality(inside \union LeftBehind) \in Nat
      BY <3>3, <3>4, FS_CardinalityType
    <3>6. faults \in Nat /\ MaxConcurrent \in Nat
      BY RunTaskAssumption DEF IInv, TypeOK
    <3> HIDE DEF inside, up
    <3> QED
      BY <2>4, <2>5, <3>2, <3>3, <3>4, <3>5, <3>6
  <2>6. ASSUME NEW r \in Repository
        PROVE  Cardinality(OfRepository(inside, r)) <= MaxConcurrentPerRepository
    <3>1. OfRepository(inside, r) \subseteq OfRepository(served, r)
      BY <2>1 DEF OfRepository
    <3>2. OfRepository(served, r) \subseteq served
      BY DEF OfRepository
    <3>3. IsFiniteSet(OfRepository(served, r))
      BY <2>1, <3>2, FS_Subset
    <3>4. /\ IsFiniteSet(OfRepository(inside, r))
          /\ Cardinality(OfRepository(inside, r)) <= Cardinality(OfRepository(served, r))
      BY <3>1, <3>3, FS_Subset
    <3>5. /\ Cardinality(OfRepository(inside, r)) \in Nat
          /\ Cardinality(OfRepository(served, r)) \in Nat
      BY <3>3, <3>4, FS_CardinalityType
    <3>6. Cardinality(OfRepository(served, r)) <= MaxConcurrentPerRepository
      BY DEF WInv, QuotasKept
    <3> QED
      BY <3>4, <3>5, <3>6, RunTaskAssumption
  <2> QED
    BY <2>5, <2>6, <2>5a DEF RunsWithinLimits
<1> QED
  BY <1>1, Invariant, SlotsAccounted, LeaksArePaid, PTL

\* A task that waits is held up by tasks that run or are on their way out, never by a slot that
\* leaked or by one that idles.
THEOREM WaitersAreHeldUp == Spec => []WaitersHaveRunners
<1>1. IInv /\ WInv => WaitersHaveRunners
  <2> SUFFICES ASSUME IInv, WInv, NEW t \in Task, pc[t] = "waiting"
               PROVE  LET own == OfRepository(served, RepositoryOf[t])
                      IN  /\ \A u \in served : pc[u] \in HoldingSlot
                          /\ \/ served # {} /\ Cardinality(served) = MaxConcurrent
                             \/ own # {} /\ Cardinality(own) = MaxConcurrentPerRepository
    BY DEF WaitersHaveRunners
  <2> DEFINE r == RepositoryOf[t]
             own == OfRepository(served, r)
  <2>1. \A u \in served : pc[u] \in HoldingSlot
    BY DEF IInv, TypeOK, WInv, Placed
  <2>2. ~Fits(t, served) /\ r \in Repository
    BY RunTaskAssumption DEF WInv, Placed, NobodyPassedOver
  <2>3. IsFiniteSet(served) /\ IsFiniteSet(own)
    <3>1. own \subseteq served
      BY DEF OfRepository
    <3> QED
      BY <3>1, FS_Subset DEF IInv, SlotsRight
  <2>4. Cardinality(served) \in Nat /\ Cardinality(own) \in Nat
    BY <2>3, FS_CardinalityType
  <2>5. Cardinality(served) <= MaxConcurrent /\ Cardinality(own) <= MaxConcurrentPerRepository
    BY <2>2 DEF WInv, QuotasKept
  <2>6. Cardinality(served) = MaxConcurrent \/ Cardinality(own) = MaxConcurrentPerRepository
    BY <2>2, <2>4, <2>5, RunTaskAssumption DEF Fits
  <2>7. /\ Cardinality(served) = MaxConcurrent => served # {}
        /\ Cardinality(own) = MaxConcurrentPerRepository => own # {}
    BY FS_EmptySet, RunTaskAssumption
  <2> QED
    BY <2>1, <2>6, <2>7
<1> QED
  BY <1>1, Invariant, SlotsAccounted, PTL

-----------------------------------------------------------------------------
\* The chain of event writes, and how far a call can go.

BeforeRun == {"idle", "creating", "waiting", "starting"}

\* From the save of the running record to the await of the event writes.
WhileWriting == {"preparing", "running", "snapshot", "releasing", "unwinding", "draining"}

\* Writes are due only behind one in flight, none is in flight on a rejected chain, and while the
\* chain is not rejected the newest event is stored, in flight or due.
ChainOf(at, rec, kept, save, due, lost) ==
    /\ at \in BeforeRun => save = None /\ due = 0 /\ ~lost
    /\ due > 0 => save # None
    /\ lost => save = None
    /\ at \in WhileWriting /\ ~lost =>
         \/ due > 0
         \/ save # None /\ save.events = rec.events
         \/ save = None /\ kept # None /\ kept.events = rec.events

\* No event of a run is passed over: what a reader of the stored record misses is on its way.
EventsFollowed ==
    \A t \in Task :
        ChainOf(pc[t], record[t], stored[t], eventSave[t], eventsDue[t], eventsLost[t])

\* How far a call has come.
Rank(at) ==
    CASE at = "idle" -> 0
      [] at = "creating" -> 1
      [] at = "waiting" -> 2
      [] at = "starting" -> 3
      [] at = "preparing" -> 4
      [] at = "running" -> 5
      [] at = "snapshot" -> 6
      [] at \in {"releasing", "unwinding"} -> 7
      [] at = "draining" -> 8
      [] at = "finishing" -> 9
      [] at = "catching" -> 10
      [] at \in {"returned", "rejected"} -> 11

\* A call never goes back, so it passes at most eleven awaits, and a call that ended stays ended.
CallsOnlyAdvance ==
    [][\A t \in Task : pc'[t] # pc[t] => Rank(pc[t]) < Rank(pc'[t])]_vars

\* What the steps of a call do to its own chain and to the others'.
LEMMA MovesChain ==
    ASSUME TypeOK, NEW t \in Task, Moves(t)
    PROVE  /\ \A u \in Task : u # t => record'[u] = record[u] /\ stored'[u] = stored[u]
           /\ \/ pc'[t] \notin WhileWriting
              \/ pc[t] = "starting" /\ record'[t] = record[t] /\ stored'[t] = record[t]
              \/ pc[t] \in WhileWriting /\ record'[t] = record[t] /\ stored'[t] = stored[t]
           /\ pc'[t] \in BeforeRun => pc[t] \in BeforeRun
<1> USE DEF scheduler, eventWrites, run, environment
<1>1. CASE Call(t) \/ CreateFails(t)
  BY <1>1 DEF Call, CreateFails, PerhapsStored, BeforeRun, WhileWriting, TypeOK
<1>2. CASE RunningSaved(t)
  BY <1>2 DEF RunningSaved, BeforeRun, WhileWriting, TypeOK
<1>3. CASE Prepare(t) \/ AgentEnds(t) \/ SnapshotRead(t) \/ SnapshotFails(t)
  BY <1>3 DEF Prepare, AgentEnds, SnapshotRead, SnapshotTaken, SnapshotMisreads, SnapshotFails,
     BeforeRun, WhileWriting, TypeOK
<1>4. ASSUME Caught(t)
      PROVE  /\ pc'[t] = "catching" /\ \A u \in Task : u # t => record'[u] = record[u]
  BY <1>4 DEF Caught, TypeOK
<1>5. CASE RunningSaveFails(t) \/ PrepareFails(t) \/ ReleaseFails(t) \/ EventsRejected(t)
             \/ ResultSaveFails(t)
  BY <1>4, <1>5 DEF RunningSaveFails, PrepareFails, ReleaseFails, EventsRejected, ResultSaveFails,
     PerhapsStored, BeforeRun, WhileWriting, TypeOK
<1>6. CASE Release(t)
  BY <1>4, <1>6 DEF Release, BeforeRun, WhileWriting, TypeOK
<1>7. CASE EventsWritten(t) \/ ResultSaved(t) \/ FailureSaved(t) \/ FailureSaveFails(t)
  BY <1>7 DEF EventsWritten, Finishing, ResultSaved, FailureSaved, FailureSaveFails,
     PerhapsStored, BeforeRun, WhileWriting, TypeOK
<1> QED
  BY <1>1, <1>2, <1>3, <1>5, <1>6, <1>7 DEF Moves

\* A reported event and a write that ends.
LEMMA StaysChain ==
    ASSUME TypeOK, EventsFollowed, NEW t \in Task, Stays(t)
    PROVE  EventsFollowed'
<1> USE DEF scheduler, eventWrites, run, environment
<1>0. \A u \in Task :
        ChainOf(pc[u], record[u], stored[u], eventSave[u], eventsDue[u], eventsLost[u])
  BY DEF EventsFollowed
<1>1. CASE Edit(t) \/ LeaseExpires(t)
  <2>1. UNCHANGED <<pc, record, stored, eventSave, eventsDue, eventsLost>>
    BY <1>1 DEF Edit, LeaseExpires
  <2> QED
    BY <2>1, <1>0 DEF EventsFollowed
<1>2. CASE Emit(t)
  <2>1. /\ pc[t] = "running" /\ UNCHANGED <<pc, stored, eventsLost>>
        /\ record'[t] \in Record
        /\ \A u \in Task : u # t =>
             record'[u] = record[u] /\ eventSave'[u] = eventSave[u] /\ eventsDue'[u] = eventsDue[u]
    BY <1>2, EmitRecord DEF Emit, TypeOK
  <2>2. \/ eventsLost[t] /\ eventSave'[t] = eventSave[t] /\ eventsDue'[t] = eventsDue[t]
        \/ /\ ~eventsLost[t] /\ eventSave[t] = None
           /\ eventSave'[t] = record'[t] /\ eventsDue'[t] = eventsDue[t]
        \/ eventSave[t] # None /\ eventSave'[t] = eventSave[t] /\ eventsDue'[t] = eventsDue[t] + 1
    BY <1>2 DEF Emit, TypeOK
  <2>3. record'[t] # None /\ eventsDue[t] \in Nat
    BY <2>1, NoneAssumption, RunTaskAssumption DEF TypeOK
  <2>4. ChainOf(pc'[t], record'[t], stored'[t], eventSave'[t], eventsDue'[t], eventsLost'[t])
    BY <1>0, <2>1, <2>2, <2>3 DEF ChainOf, BeforeRun
  <2> QED
    BY <1>0, <2>1, <2>4 DEF EventsFollowed
<1>3. CASE EventSaved(t)
  <2>1. /\ eventSave[t] # None /\ stored'[t] = eventSave[t]
        /\ UNCHANGED <<pc, record, eventsLost>>
        /\ \A u \in Task : u # t =>
             stored'[u] = stored[u] /\ eventSave'[u] = eventSave[u] /\ eventsDue'[u] = eventsDue[u]
        /\ \/ eventsDue[t] > 0 /\ eventSave'[t] = record[t] /\ eventsDue'[t] = eventsDue[t] - 1
           \/ eventsDue[t] = 0 /\ eventSave'[t] = None /\ eventsDue'[t] = eventsDue[t]
    BY <1>3 DEF EventSaved, TypeOK
  <2>2. record[t] # None /\ eventsDue[t] \in Nat
    BY NoneAssumption, RunTaskAssumption DEF TypeOK
  <2>3. ChainOf(pc'[t], record'[t], stored'[t], eventSave'[t], eventsDue'[t], eventsLost'[t])
    BY <1>0, <2>1, <2>2 DEF ChainOf
  <2> QED
    BY <1>0, <2>1, <2>3 DEF EventsFollowed
<1>4. CASE EventSaveFails(t)
  <2>1. /\ eventSave[t] # None /\ eventSave'[t] = None /\ eventsDue'[t] = 0 /\ eventsLost'[t]
        /\ UNCHANGED <<pc, record>>
        /\ \A u \in Task : u # t =>
             /\ stored'[u] = stored[u] /\ eventSave'[u] = eventSave[u]
             /\ eventsDue'[u] = eventsDue[u] /\ eventsLost'[u] = eventsLost[u]
    BY <1>4 DEF EventSaveFails, PerhapsStored, TypeOK
  <2>2. ChainOf(pc'[t], record'[t], stored'[t], eventSave'[t], eventsDue'[t], eventsLost'[t])
    BY <1>0, <2>1 DEF ChainOf
  <2> QED
    BY <1>0, <2>1, <2>2 DEF EventsFollowed
<1> QED
  BY <1>1, <1>2, <1>3, <1>4 DEF Stays

\* A decision is about a task whose event writes are over.
LEMMA DecidesChain ==
    ASSUME IInv, EventsFollowed, NEW v \in Reviewer, Decides(v)
    PROVE  EventsFollowed'
<1> USE DEF scheduler, eventWrites, run, environment
<1>1. UNCHANGED <<pc, record, eventSave, eventsDue, eventsLost>>
  BY DEF Decides, Decide, DecisionSaved, DecisionSaveFails
<1>2. ASSUME NEW u \in Task, stored'[u] # stored[u]
      PROVE  pc[u] \in Final
  <2>1. deciding[v] # None /\ deciding[v].task = u
    BY <1>2 DEF Decides, Decide, DecisionSaved, DecisionSaveFails, PerhapsStored, IInv, TypeOK
  <2>2. deciding[v].record \in Copies(u) /\ deciding[v].record.result # None
    BY <2>1 DEF Copies, IInv, DecisionsOnResults
  <2>3. record[u].result # None
    BY <2>2, CopiesLackResult DEF IInv
  <2> QED
    BY <2>3 DEF IInv, ResultsSettled, Final
<1>3. ASSUME NEW u \in Task
      PROVE  ChainOf(pc'[u], record'[u], stored'[u], eventSave'[u], eventsDue'[u], eventsLost'[u])
  <2>1. ChainOf(pc[u], record[u], stored[u], eventSave[u], eventsDue[u], eventsLost[u])
    BY DEF EventsFollowed
  <2> QED
    BY <1>1, <1>2, <2>1 DEF ChainOf, Final, BeforeRun, WhileWriting
<1> QED
  BY <1>3 DEF EventsFollowed

LEMMA NextFollowed == IInv /\ EventsFollowed /\ [Next]_vars => EventsFollowed'
<1> SUFFICES ASSUME IInv, EventsFollowed, [Next]_vars PROVE EventsFollowed'
  OBVIOUS
<1> USE DEF scheduler, eventWrites, run, environment
<1>0. /\ TypeOK /\ SlotsRight
      /\ \A u \in Task :
           ChainOf(pc[u], record[u], stored[u], eventSave[u], eventsDue[u], eventsLost[u])
  BY DEF EventsFollowed, IInv
<1>1. ASSUME NEW t \in Task, Moves(t) PROVE EventsFollowed'
  <2>1. /\ UNCHANGED <<eventSave, eventsDue, eventsLost>>
        /\ \A u \in Task : u # t => pc'[u] = pc[u]
    BY <1>0, <1>1, MovesAlongEdges
  <2>2. ChainOf(pc'[t], record'[t], stored'[t], eventSave'[t], eventsDue'[t], eventsLost'[t])
    <3>1. record[t] # None
      BY <1>0, NoneAssumption DEF TypeOK
    <3>2. eventsDue[t] \in Nat
      BY <1>0, RunTaskAssumption DEF TypeOK
    <3>3. "starting" \in BeforeRun
      BY DEF BeforeRun
    <3> QED
      BY <1>0, <1>1, <2>1, <3>1, <3>2, <3>3, MovesChain DEF ChainOf
  <2> QED
    BY <1>0, <1>1, <2>1, <2>2, MovesChain DEF EventsFollowed
<1>2. ASSUME NEW t \in Task, Enqueue(t) PROVE EventsFollowed'
  <2>1. /\ UNCHANGED <<eventSave, eventsDue, eventsLost>>
        /\ pc[t] = "creating" /\ pc'[t] \in {"starting", "waiting", "catching"}
        /\ \A u \in Task : u # t => pc'[u] = pc[u] /\ record'[u] = record[u] /\ stored'[u] = stored[u]
    BY <1>0, <1>2 DEF Enqueue, Started, Caught, TypeOK
  <2>2. ChainOf(pc'[t], record'[t], stored'[t], eventSave'[t], eventsDue'[t], eventsLost'[t])
    BY <1>0, <2>1 DEF ChainOf, BeforeRun, WhileWriting
  <2> QED
    BY <1>0, <2>1, <2>2 DEF EventsFollowed
<1>3. ASSUME NEW t \in Task, LeaveSlot(t) PROVE EventsFollowed'
  <2>1. UNCHANGED <<stored, eventSave, eventsDue, eventsLost>>
    BY <1>3 DEF LeaveSlot
  <2>2. CASE UNCHANGED <<pc, record>>
    BY <1>0, <2>1, <2>2 DEF EventsFollowed
  <2>3. ASSUME NEW u \in Task, pc[u] = "waiting", Started(u, pc) PROVE EventsFollowed'
    <3>1. /\ pc'[u] = "starting"
          /\ \A w \in Task : w # u => pc'[w] = pc[w] /\ record'[w] = record[w]
      BY <1>0, <2>3 DEF Started, TypeOK
    <3>2. ChainOf(pc'[u], record'[u], stored'[u], eventSave'[u], eventsDue'[u], eventsLost'[u])
      BY <1>0, <2>1, <2>3, <3>1 DEF ChainOf, BeforeRun, WhileWriting
    <3> QED
      BY <1>0, <2>1, <3>1, <3>2 DEF EventsFollowed
  <2> QED
    BY <1>0, <1>3, <2>2, <2>3, WaiterStarts
<1>4. CASE UNCHANGED vars
  BY <1>0, <1>4 DEF vars, EventsFollowed
<1> QED
  BY <1>0, <1>1, <1>2, <1>3, <1>4, NextCases, StaysChain, DecidesChain

\* Until the run awaits its event writes, the newest event is stored, in flight, or due behind a
\* write in flight, unless a write failed and the whole chain is rejected (operations.ts:
\* onEvent(), persistEvents() and the await of eventWrites).
THEOREM NoEventPassedOver == Spec => []EventsFollowed
<1>1. Init => EventsFollowed
  BY DEF Init, EventsFollowed, ChainOf, WhileWriting
<1> QED
  BY <1>1, Invariant, NextFollowed, PTL DEF Spec

\* A call of runTask() only moves forward, to its result or its rejection; neither a failure nor
\* a late write brings an ended call back.
THEOREM CallsAdvance == Spec => CallsOnlyAdvance
<1>1. IInv /\ [Next]_vars =>
        [\A t \in Task : pc'[t] # pc[t] => Rank(pc[t]) < Rank(pc'[t])]_vars
  <2> SUFFICES ASSUME IInv, Next, NEW u \in Task, pc'[u] # pc[u]
               PROVE  Rank(pc[u]) < Rank(pc'[u])
    OBVIOUS
  <2>0. TypeOK /\ SlotsRight
    BY DEF IInv
  <2>1. \A e \in Edges : Rank(e[1]) < Rank(e[2])
    BY DEF Edges, Rank
  <2>2. ASSUME NEW t \in Task, Moves(t) PROVE Rank(pc[u]) < Rank(pc'[u])
    <3>1. <<pc[u], pc'[u]>> \in Edges
      BY <2>0, <2>2, MovesAlongEdges
    <3> QED
      BY <2>1, <3>1
  <2>3. ASSUME NEW t \in Task, Enqueue(t) PROVE Rank(pc[u]) < Rank(pc'[u])
    <3>1. pc[u] = "creating" /\ pc'[u] \in {"starting", "waiting", "catching"}
      BY <2>0, <2>3 DEF Enqueue, Started, Caught, TypeOK
    <3> QED
      BY <3>1 DEF Rank
  <2>4. ASSUME NEW t \in Task, LeaveSlot(t) PROVE Rank(pc[u]) < Rank(pc'[u])
    <3>1. pc[u] = "waiting" /\ pc'[u] = "starting"
      BY <2>0, <2>4, WaiterStarts DEF Started, TypeOK
    <3> QED
      BY <3>1 DEF Rank
  <2>5. ASSUME NEW t \in Task, Stays(t) PROVE FALSE
    BY <2>5 DEF Stays, Emit, EventSaved, EventSaveFails, Edit, LeaseExpires
  <2>6. ASSUME NEW v \in Reviewer, Decides(v) PROVE FALSE
    BY <2>6 DEF Decides, Decide, DecisionSaved, DecisionSaveFails
  <2> QED
    BY <2>2, <2>3, <2>4, <2>5, <2>6, NextCases
<1> QED
  BY <1>1, Invariant, PTL DEF Spec, CallsOnlyAdvance

=============================================================================
