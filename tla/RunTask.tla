------------------------------ MODULE RunTask -------------------------------
(***************************************************************************)
(* runTask() and decideApproval() of packages/api/src/operations.ts: the   *)
(* record of a task from its call to its result, the slot it runs in, the  *)
(* lease of its sandbox, the chain of event writes and the snapshot.       *)
(*                                                                         *)
(* An action is what a call does between two awaits.  A store operation    *)
(* takes effect when it is answered; one that fails may have taken effect. *)
(* save() serialises the record when it is called.  The scheduler is its   *)
(* abstract specification, AdmissionControl.                               *)
(***************************************************************************)
EXTENDS Integers, Sequences, FiniteSets

CONSTANTS
    Task,                        \* calls of runTask()
    Repository,                  \* the repositories (checkout paths) of the tasks
    RepositoryOf,                \* input.repository
    Reviewer,                    \* calls of decideApproval(), and the decision each brings
    MaxConcurrent,               \* SchedulerOptions
    MaxQueued,
    MaxConcurrentPerRepository,
    MaxEvents,                   \* bound: the events a run reports
    MaxFaults,                   \* bound: operations that fail and leases that expire
    Clean,                       \* a checkout without changes
    Misread,                     \* a snapshot with a deletion where the run left a file
    None                         \* undefined

ASSUME RunTaskAssumption ==
    /\ RepositoryOf \in [Task -> Repository]
    /\ MaxConcurrent \in Nat \ {0}
    /\ MaxQueued \in Nat \ {0}
    /\ MaxConcurrentPerRepository \in Nat \ {0}
    /\ MaxEvents \in Nat
    /\ MaxFaults \in Nat

VARIABLES
    hosted,     \* whether the deployment has a runnerPool
    faults,     \* how many faults there were
    waiting,    \* the scheduler: tasks in its queue, oldest first
    served,     \* the scheduler: tasks that hold a slot
    pc,         \* the await each call is at
    record,     \* the in-memory record of each call
    stored,     \* the stored record of each task
    eventSave,  \* the record an event write in flight carries
    eventsDue,  \* event writes chained behind it
    eventsLost, \* TRUE once an event write failed: the chain is rejected
    lease,      \* the sandbox of each task: up while "live", or "unstopped" by a failed release
    checkout,   \* who changed each checkout or sandbox last
    result,     \* what agent.run() returned
    snapshot,   \* what snapshotChangedFiles() returned
    deciding    \* the record each decideApproval() is about to save

scheduler == <<waiting, served>>
eventWrites == <<eventSave, eventsDue, eventsLost>>
run == <<lease, checkout, result, snapshot>>
environment == <<hosted, faults>>
vars == <<environment, scheduler, pc, record, stored, eventWrites, run, deciding>>

Admission == INSTANCE AdmissionControl WITH Job <- Task

TerminalState == {"completed", "needs-human", "failed"}

TaskResult == [state : TerminalState, tree : Task \union {None}]

\* What snapshotChangedFiles() returned: the content that one task left, or a misreading of it.
Snapshot == Task \union {None, Clean, Misread}

Record ==
    [status : {"queued", "running"} \union TerminalState,
     events : 0..(MaxEvents + 1),
     result : TaskResult \union {None},
     snapshot : Snapshot,
     approval : Reviewer \union {None}]

ASSUME NoneAssumption == None \notin TaskResult \union Record

ASSUME MisreadAssumption == Misread \notin Task \union {None, Clean}

NewRecord == [status |-> "queued", events |-> 0, result |-> None, snapshot |-> None, approval |-> None]

\* Where a task works: in its own sandbox, or in the checkout its repository's tasks share.
Place(t) == IF hosted THEN t ELSE RepositoryOf[t]

Fault == faults < MaxFaults /\ faults' = faults + 1 /\ UNCHANGED hosted

\* Whether a sandbox runs for the task.
Up(t) == lease[t] \in {"live", "unstopped"}

\* A file of the run cannot be reached: the operation fails, or its sandbox is gone.
Unreachable(t) ==
    \/ Fault
    \/ lease[t] = "expired" /\ UNCHANGED environment

\* What a store operation that failed may have done.
PerhapsStored(t, value) == stored' \in {stored, [stored EXCEPT ![t] = value]}

\* The catch block up to the save it awaits.
Caught(t) ==
    /\ record' = [record EXCEPT ![t].status = "failed", ![t].events = @ + 1]
    /\ pc' = [pc EXCEPT ![t] = "catching"]

\* run() starts when the scheduler serves a task, up to the save of the running record.
Started(t, pcs) ==
    /\ record' = [record EXCEPT ![t].status = "running"]
    /\ pc' = [pcs EXCEPT ![t] = "starting"]

-----------------------------------------------------------------------------

Init ==
    /\ hosted \in BOOLEAN
    /\ faults = 0
    /\ Admission!Init
    /\ pc = [t \in Task |-> "idle"]
    /\ record = [t \in Task |-> NewRecord]
    /\ stored = [t \in Task |-> None]
    /\ eventSave = [t \in Task |-> None]
    /\ eventsDue = [t \in Task |-> 0]
    /\ eventsLost = [t \in Task |-> FALSE]
    /\ lease = [t \in Task |-> "none"]
    /\ checkout = [p \in Task \union Repository |-> Clean]
    /\ result = [t \in Task |-> None]
    /\ snapshot = [t \in Task |-> None]
    /\ deciding = [v \in Reviewer |-> None]

\* runTask() is called and awaits the save of the queued record.
Call(t) ==
    /\ pc[t] = "idle"
    /\ pc' = [pc EXCEPT ![t] = "creating"]
    /\ UNCHANGED <<environment, scheduler, record, stored, eventWrites, run, deciding>>

\* The queued record is saved and the scheduler serves the task, queues it, or throws
\* TaskQueueQuotaError.
Enqueue(t) ==
    /\ pc[t] = "creating"
    /\ stored' = [stored EXCEPT ![t] = record[t]]
    /\ \/ Admission!ArriveServed(t) /\ Started(t, pc)
       \/ Admission!ArriveWaiting(t) /\ pc' = [pc EXCEPT ![t] = "waiting"] /\ UNCHANGED record
       \/ /\ ~Admission!MayJoin(t, served)
          /\ Len(waiting) >= MaxQueued
          /\ Caught(t)
          /\ UNCHANGED scheduler
    /\ UNCHANGED <<environment, eventWrites, run, deciding>>

\* The save is outside the try block: the call is rejected and no failure is recorded.
CreateFails(t) ==
    /\ pc[t] = "creating"
    /\ Fault
    /\ PerhapsStored(t, record[t])
    /\ pc' = [pc EXCEPT ![t] = "rejected"]
    /\ UNCHANGED <<scheduler, record, eventWrites, run, deciding>>

RunningSaved(t) ==
    /\ pc[t] = "starting"
    /\ stored' = [stored EXCEPT ![t] = record[t]]
    /\ pc' = [pc EXCEPT ![t] = "preparing"]
    /\ UNCHANGED <<environment, scheduler, record, eventWrites, run, deciding>>

RunningSaveFails(t) ==
    /\ pc[t] = "starting"
    /\ Fault
    /\ PerhapsStored(t, record[t])
    /\ Caught(t)
    /\ UNCHANGED <<scheduler, eventWrites, run, deciding>>

\* loadConfig() and acquire() succeed, the runner, the model and the agent are built.
Prepare(t) ==
    /\ pc[t] = "preparing"
    /\ lease' = [lease EXCEPT ![t] = IF hosted THEN "live" ELSE "none"]
    /\ pc' = [pc EXCEPT ![t] = "running"]
    /\ UNCHANGED <<environment, scheduler, record, stored, eventWrites, checkout, result, snapshot, deciding>>

\* loadConfig() or acquire() rejects, or building throws: the try block whose finally releases
\* the lease is not entered yet, so the sandbox runs on until the pool's expiry timer stops it.
PrepareFails(t) ==
    /\ pc[t] = "preparing"
    /\ Fault
    /\ \/ UNCHANGED lease
       \/ hosted /\ lease' = [lease EXCEPT ![t] = "live"]
    /\ Caught(t)
    /\ UNCHANGED <<scheduler, stored, eventWrites, checkout, result, snapshot, deciding>>

\* onEvent(): the event joins the record, and its write the chain.  An idle chain saves at once,
\* a rejected one no more.
Emit(t) ==
    /\ pc[t] = "running"
    /\ record[t].events < MaxEvents
    /\ record' = [record EXCEPT ![t].events = @ + 1]
    /\ \/ eventsLost[t] /\ UNCHANGED <<eventSave, eventsDue>>
       \/ /\ ~eventsLost[t] /\ eventSave[t] = None
          /\ eventSave' = [eventSave EXCEPT ![t] = record'[t]]
          /\ UNCHANGED eventsDue
       \/ /\ eventSave[t] # None
          /\ eventsDue' = [eventsDue EXCEPT ![t] = @ + 1]
          /\ UNCHANGED eventSave
    /\ UNCHANGED <<environment, scheduler, pc, stored, eventsLost, run, deciding>>

\* Mutant: a write is taken off the chain although none is due.
MutEventSaved(t) ==
    /\ eventSave[t] # None
    /\ stored' = [stored EXCEPT ![t] = eventSave[t]]
    /\ eventSave' = [eventSave EXCEPT ![t] = None]
    /\ eventsDue' = [eventsDue EXCEPT ![t] = @ - 1]
    /\ UNCHANGED <<environment, scheduler, pc, record, eventsLost, run, deciding>>

\* An event write lands and the next one, if any, saves the record as it is by then.
EventSaved(t) ==
    /\ eventSave[t] # None
    /\ stored' = [stored EXCEPT ![t] = eventSave[t]]
    /\ \/ /\ eventsDue[t] > 0
          /\ eventSave' = [eventSave EXCEPT ![t] = record[t]]
          /\ eventsDue' = [eventsDue EXCEPT ![t] = @ - 1]
       \/ /\ eventsDue[t] = 0
          /\ eventSave' = [eventSave EXCEPT ![t] = None]
          /\ UNCHANGED eventsDue
    /\ UNCHANGED <<environment, scheduler, pc, record, eventsLost, run, deciding>>

\* An event write fails: the chain is rejected and the writes behind it are skipped.  The host
\* survives the rejection, which nobody handles before the run ends.
EventSaveFails(t) ==
    /\ eventSave[t] # None
    /\ Fault
    /\ PerhapsStored(t, eventSave[t])
    /\ eventSave' = [eventSave EXCEPT ![t] = None]
    /\ eventsDue' = [eventsDue EXCEPT ![t] = 0]
    /\ eventsLost' = [eventsLost EXCEPT ![t] = TRUE]
    /\ UNCHANGED <<scheduler, pc, record, run, deciding>>

\* The agent writes into its checkout.
Edit(t) ==
    /\ pc[t] = "running"
    /\ lease[t] # "expired"
    /\ checkout' = [checkout EXCEPT ![Place(t)] = t]
    /\ UNCHANGED <<environment, scheduler, pc, record, stored, eventWrites, lease, result, snapshot, deciding>>

\* The sandbox is stopped at its deadline, whatever the run is doing.
LeaseExpires(t) ==
    /\ Up(t)
    /\ Fault
    /\ lease' = [lease EXCEPT ![t] = "expired"]
    /\ UNCHANGED <<scheduler, pc, record, stored, eventWrites, checkout, result, snapshot, deciding>>

\* What agent.run() may return: a failed run lists no changes, a run whose sandbox is gone
\* sees none, any other lists those its checkout has.
Outcomes(t) ==
    LET tree == checkout[Place(t)]
        seen == IF lease[t] = "expired" \/ tree = Clean THEN {None} ELSE {None, tree}
    IN  [state : {"failed"}, tree : {None}] \union [state : TerminalState \ {"failed"}, tree : seen]

\* agent.run() catches its own errors and always returns.
AgentEnds(t) ==
    /\ pc[t] = "running"
    /\ record[t].events = MaxEvents
    /\ \E r \in Outcomes(t) :
        /\ result' = [result EXCEPT ![t] = r]
        /\ pc' = [pc EXCEPT ![t] = IF r.tree # None THEN "snapshot" ELSE "releasing"]
    /\ UNCHANGED <<environment, scheduler, record, stored, eventWrites, lease, checkout, snapshot, deciding>>

\* Every changed file is read, or found deleted, as the run left it.
SnapshotTaken(t) ==
    /\ pc[t] = "snapshot"
    /\ lease[t] # "expired"
    /\ snapshot' = [snapshot EXCEPT ![t] = checkout[Place(t)]]
    /\ pc' = [pc EXCEPT ![t] = "releasing"]
    /\ UNCHANGED <<environment, scheduler, record, stored, eventWrites, lease, checkout, result, deciding>>

\* A changed file cannot be reached when exists() looks for it: exists() answers false whatever
\* the error, and the snapshot succeeds with a deletion in the file's place.
SnapshotMisreads(t) ==
    /\ pc[t] = "snapshot"
    /\ Unreachable(t)
    /\ snapshot' = [snapshot EXCEPT ![t] = Misread]
    /\ pc' = [pc EXCEPT ![t] = "releasing"]
    /\ UNCHANGED <<scheduler, record, stored, eventWrites, lease, checkout, result, deciding>>

\* Mutant: the lease is released only when the snapshot succeeds.
MutSnapshotFails(t) ==
    /\ pc[t] = "snapshot"
    /\ Unreachable(t)
    /\ Caught(t)
    /\ UNCHANGED <<scheduler, stored, eventWrites, run, deciding>>

\* exists() found the file and readBytes() cannot read it, or the boundary of a sandbox rejects:
\* the error passes through the finally block.
SnapshotFails(t) ==
    /\ pc[t] = "snapshot"
    /\ Unreachable(t)
    /\ pc' = [pc EXCEPT ![t] = "unwinding"]
    /\ UNCHANGED <<scheduler, record, stored, eventWrites, run, deciding>>

\* The finally block, and the error that passes through it if there is one.
Release(t) ==
    /\ lease' = [lease EXCEPT ![t] = IF @ = "live" THEN "none" ELSE @]
    /\ \/ pc[t] = "releasing" /\ pc' = [pc EXCEPT ![t] = "draining"] /\ UNCHANGED record
       \/ pc[t] = "unwinding" /\ Caught(t)
    /\ UNCHANGED <<environment, scheduler, stored, eventWrites, checkout, result, snapshot, deciding>>

\* The provider does not stop the sandbox: it runs on, its lease is still tracked by the pool, and
\* the call is rejected.
ReleaseFails(t) ==
    /\ pc[t] \in {"releasing", "unwinding"}
    /\ Fault
    /\ lease[t] = "live"
    /\ lease' = [lease EXCEPT ![t] = "unstopped"]
    /\ Caught(t)
    /\ UNCHANGED <<scheduler, stored, eventWrites, checkout, result, snapshot, deciding>>

\* record.status, result, evidence and snapshot are set and the final save begins.
Finishing(t) ==
    /\ record' = [record EXCEPT ![t].status = result[t].state,
                                ![t].result = result[t],
                                ![t].snapshot = snapshot[t]]
    /\ pc' = [pc EXCEPT ![t] = "finishing"]

\* Mutant: the event writes are not awaited.
MutEventsWritten(t) ==
    /\ pc[t] = "draining"
    /\ Finishing(t)
    /\ UNCHANGED <<environment, scheduler, stored, eventWrites, run, deciding>>

\* await eventWrites: every event is written.
EventsWritten(t) ==
    /\ pc[t] = "draining"
    /\ eventSave[t] = None /\ ~eventsLost[t]
    /\ Finishing(t)
    /\ UNCHANGED <<environment, scheduler, stored, eventWrites, run, deciding>>

\* await eventWrites: one was lost, and the run's result with it.
EventsRejected(t) ==
    /\ pc[t] = "draining"
    /\ eventsLost[t]
    /\ Caught(t)
    /\ UNCHANGED <<environment, scheduler, stored, eventWrites, run, deciding>>

ResultSaved(t) ==
    /\ pc[t] = "finishing"
    /\ stored' = [stored EXCEPT ![t] = record[t]]
    /\ pc' = [pc EXCEPT ![t] = "returned"]
    /\ UNCHANGED <<environment, scheduler, record, eventWrites, run, deciding>>

ResultSaveFails(t) ==
    /\ pc[t] = "finishing"
    /\ Fault
    /\ PerhapsStored(t, record[t])
    /\ Caught(t)
    /\ UNCHANGED <<scheduler, eventWrites, run, deciding>>

\* The catch block ends and runTask() rejects.
FailureSaved(t) ==
    /\ pc[t] = "catching"
    /\ stored' = [stored EXCEPT ![t] = record[t]]
    /\ pc' = [pc EXCEPT ![t] = "rejected"]
    /\ UNCHANGED <<environment, scheduler, record, eventWrites, run, deciding>>

FailureSaveFails(t) ==
    /\ pc[t] = "catching"
    /\ Fault
    /\ PerhapsStored(t, record[t])
    /\ pc' = [pc EXCEPT ![t] = "rejected"]
    /\ UNCHANGED <<scheduler, record, eventWrites, run, deciding>>

-----------------------------------------------------------------------------

\* Mutant: only agent.run() is scheduled; the slot is free while the snapshot is read.
MutSettled(t) == t \in served /\ pc[t] \in {"snapshot", "catching", "returned", "rejected"}

\* The function given to schedule() returned or threw.
Settled(t) == t \in served /\ pc[t] \in {"catching", "returned", "rejected"}

\* The scheduler's finally callback: the slot comes back, and a waiting task may start in it.
LeaveSlot(t) ==
    /\ Settled(t)
    /\ \/ Admission!DepartIdle(t) /\ UNCHANGED <<pc, record>>
       \/ Admission!DepartHandover(t) /\ \E u \in served' \ served : Started(u, pc)
    /\ UNCHANGED <<environment, stored, eventWrites, run, deciding>>

\* Mutant: any record can be decided.
MutDecide(v, t) ==
    /\ deciding[v] = None
    /\ stored[t] # None
    /\ deciding' = [deciding EXCEPT ![v] = [task |-> t, record |-> [stored[t] EXCEPT !.approval = v]]]
    /\ UNCHANGED <<environment, scheduler, pc, record, stored, eventWrites, run>>

\* decideApproval(): the record is read and awaits a human; the save with the decision begins.
Decide(v, t) ==
    /\ deciding[v] = None
    /\ stored[t] # None
    /\ stored[t].status = "needs-human"
    /\ deciding' = [deciding EXCEPT ![v] = [task |-> t, record |-> [stored[t] EXCEPT !.approval = v]]]
    /\ UNCHANGED <<environment, scheduler, pc, record, stored, eventWrites, run>>

DecisionSaved(v) ==
    /\ deciding[v] # None
    /\ stored' = [stored EXCEPT ![deciding[v].task] = deciding[v].record]
    /\ deciding' = [deciding EXCEPT ![v] = None]
    /\ UNCHANGED <<environment, scheduler, pc, record, eventWrites, run>>

DecisionSaveFails(v) ==
    /\ deciding[v] # None
    /\ Fault
    /\ PerhapsStored(deciding[v].task, deciding[v].record)
    /\ deciding' = [deciding EXCEPT ![v] = None]
    /\ UNCHANGED <<scheduler, pc, record, eventWrites, run>>

\* What runTask() does for t while nobody has to wait for anybody else.
Step(t) ==
    \/ Enqueue(t) \/ CreateFails(t)
    \/ RunningSaved(t) \/ RunningSaveFails(t)
    \/ Prepare(t) \/ PrepareFails(t)
    \/ Emit(t) \/ Edit(t) \/ AgentEnds(t)
    \/ SnapshotTaken(t) \/ SnapshotMisreads(t) \/ SnapshotFails(t)
    \/ Release(t) \/ ReleaseFails(t)
    \/ EventsWritten(t) \/ EventsRejected(t)
    \/ ResultSaved(t) \/ ResultSaveFails(t)
    \/ FailureSaved(t) \/ FailureSaveFails(t)

Next ==
    \/ \E t \in Task :
        \/ Call(t) \/ Step(t) \/ LeaveSlot(t) \/ LeaseExpires(t)
        \/ EventSaved(t) \/ EventSaveFails(t)
    \/ \E v \in Reviewer :
        \/ \E t \in Task : Decide(v, t)
        \/ DecisionSaved(v) \/ DecisionSaveFails(v)

Spec == Init /\ [][Next]_vars

-----------------------------------------------------------------------------

TypeOK ==
    /\ hosted \in BOOLEAN
    /\ faults \in 0..MaxFaults
    /\ waiting \in Seq(Task)
    /\ served \in SUBSET Task
    /\ pc \in [Task -> {"idle", "creating", "waiting", "starting", "preparing", "running", "snapshot",
                       "releasing", "unwinding", "draining", "finishing", "catching",
                       "returned", "rejected"}]
    /\ record \in [Task -> Record]
    /\ stored \in [Task -> Record \union {None}]
    /\ eventSave \in [Task -> Record \union {None}]
    /\ eventsDue \in [Task -> 0..MaxEvents]
    /\ eventsLost \in [Task -> BOOLEAN]
    /\ lease \in [Task -> {"none", "live", "unstopped", "expired"}]
    /\ checkout \in [Task \union Repository -> Task \union {Clean}]
    /\ result \in [Task -> TaskResult \union {None}]
    /\ snapshot \in [Task -> Snapshot]
    /\ deciding \in [Reviewer -> [task : Task, record : Record] \union {None}]

\* When runTask() has returned, the stored record carries the run's state, result, snapshot and
\* every event, whatever event writes and decisions were under way: nothing written earlier may
\* land on it (the await of eventWrites before the final save).
ReturnedIsStored ==
    \A t \in Task :
        pc[t] = "returned" =>
            /\ stored[t] # None
            /\ stored[t].status = result[t].state
            /\ stored[t].result = result[t]
            /\ stored[t].snapshot = snapshot[t]
            /\ stored[t].events = record[t].events

\* No other task's writes get into a stored snapshot, although tasks of one repository may share
\* its checkout: with one task per repository at a time nobody writes between the end of the run
\* and the reads of the snapshot.  It is the content the run reported on, unless something failed
\* while it was taken and it has a deletion that the run did not make.
SnapshotUndisturbed ==
    hosted \/ MaxConcurrentPerRepository = 1 =>
        \A t \in Task :
            stored[t] # None /\ stored[t].snapshot # None =>
                \/ stored[t].snapshot = stored[t].result.tree
                \/ stored[t].snapshot = Misread /\ faults > 0

\* "A later publication reads exactly what the run verified" (the comments at operations.ts 233
\* and 754): what was just said without its exception.
SnapshotExact ==
    hosted \/ MaxConcurrentPerRepository = 1 =>
        \A t \in Task :
            stored[t] # None /\ stored[t].snapshot # None =>
                stored[t].snapshot = stored[t].result.tree

\* A sandbox outlives its task's slot only behind a call that fails, and only in two ways: the
\* failure came before the try block, so that no agent ran, or the release itself failed.  Every
\* other way out of the run stops its sandbox first, a snapshot that fails included.
LeaseReturned ==
    \A t \in Task :
        Up(t) /\ t \notin served =>
            /\ record[t].status = "failed"
            /\ result[t] = None \/ lease[t] = "unstopped"

\* Once a result is stored no later write, of the run or of a decision, loses or changes it.
EvidenceKept ==
    [][\A t \in Task :
         stored[t] # None /\ stored[t].result # None =>
             stored'[t] # None /\ stored'[t].result = stored[t].result]_vars

=============================================================================
