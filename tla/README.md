# Verification of agent-zero

TLA+ models of the parts of agent-zero that are hard to get right, the TLC runs that check them on
small instances, and TLAPS proofs of their main properties for every instance. All line numbers
refer to the sources beside this directory (`src/packages/...`).

agent-zero takes review feedback or an issue, asks a model what to do about it, validates the
answer against the repository, applies a narrow change, verifies it with the repository's own
checks and reports evidence. It runs from a command line or as a control plane that queues tasks
from webhooks, leases sandboxes and publishes pull requests.

## The system: inventory

| Component | State | Operations | Interacts with | What makes it correct |
|---|---|---|---|---|
| Task scheduler, `api/src/control-plane.ts` `TaskScheduler` | FIFO queue, global and per-repository counters | `schedule`, `drain`, the finally callback | every task run is one job | quotas hold, no slot is wasted, the queue is bounded, overtaking is fair, every queued job starts |
| Runner pool, `runner/src/sandbox.ts` | leases, reservations, stops in flight, timers, disposal flag | `acquire`, `release`, `sweepExpired`, `dispose`, timer callbacks | sandbox provider (external), `runTask` | quotas over sandboxes in flight, no sandbox forgotten, every sandbox stopped |
| Delivery claims, `PersistentDeliveryClaimStore` | a marker and a contender register per delivery, in shared storage | `claim`, `complete`, `release` | storage drivers, issue delivery | one run per delivery, true replays: a register one delivery holds at a time |
| Agent run loop, `agent/src/agent.ts`, `state.ts`, `validation.ts` | lifecycle state, finding, decision, attempts, checks, the checkout | `run` with `authorize`, `scopeChanges`, repairs, `finish` | model, runner | writes are authorized and in scope, verified means tested, every run ends |
| Task runs, `api/src/operations.ts` `runTask`, `decideApproval` | the stored record, the chain of event writes, the lease | run, approve | scheduler, pool, agent, store | the record ends as the run did, the snapshot is what the run left, sandboxes stop with their runs, approvals are not lost |
| Issue delivery and publication, `operations.ts` | bounded in-memory registry of deliveries per process | `ingestIssueEvent`, `runIssueTask`, `openIssuePullRequest` | claims, runTask, GitHub | one run and one publication per event, true answers, every sender answered |
| Key-value storage, `api/src/storage.ts` | records | `getItem`, `setItem`, `setItemIfAbsent`, `removeItem` | claims, task store | conditional create is atomic |
| Repository boundary, `runner/src/boundary.ts` | the checkout | `read`, `write`, `changedFiles`, `context` | agent | writes are atomic and inside, the report is complete |
| Model transport, `models/src` | wait counter of the subscription transport | `decide` | model services (external) | bounded waits, fallback |
| Credentials and login, `cli/src` | credential file, scratch files, polling loop | `saveCredential`, `forgetCredential`, `signIn`, `signOut` | auth service (external), other processes of the command line | no session is lost but to an overlap, polls honour the deployment, commands end |
| Audit log, `api/src/audit.ts` | appended entries | append, page | storage | an event is appended once and never overwritten |
| Policy, redaction, evidence rendering, access control, isolation decisions | none | pure functions | all | stateless |
| Source-control adapters, mail, auth, database, i18n, dashboard, sites, tooling | none of their own, or third-party | I/O, UI | external services | not modelled |

The hard behaviour is in the first rows: callbacks that run between a settlement and its
bookkeeping, calls that overlap across an await, storage operations of several processes that
interleave, crashes that lose process-local state, retries that race late answers, and a checkout
that outlives the run that wrote it. `PROJECT.json` lists each hazard at its line with the
properties that would catch it going wrong.

## Plan

Order of the modules, most important behaviour first:

1. `TaskScheduler`, implementing the abstract `AdmissionControl` - done.
2. `RunnerPool`, implementing the abstract `SandboxPool` - done.
3. `DeliveryClaims` - done.
4. `AgentRun`, implementing `Lifecycle` - done.
5. `RunTask`: record, event-write chain, lease and snapshot of `runTask()`, with `decideApproval()`,
   over `AdmissionControl` - done.
6. `IssueDelivery` over `ClaimRegister`, which `DeliveryClaims` implements: the in-memory registry,
   the run and its publication - done.
7. `Credentials` and `DeviceLogin` - done.

Abstract specifications: admission control, the sandbox pool, the lifecycle and the single-claim
register, each shown to be implemented by model checking and by proof. Runs stay at two to four
actors per component: each module is parameterised by its actors, and the configurations name the
bound.

Considered and left out, with the reasons under "Not modelled": the usage-limit wait of the model
transport, the audit log, staged writes and the parsing of `changedFiles()`, and the pure
algorithms (`boundedDiff`, `classifyChangeRisk`, `validateFinding`).

## Modules

### `TaskScheduler` and `AdmissionControl`

A job is one call of `schedule()`. The promise its caller awaits settles before the finally
callback that gives the slot back runs, so a job passes from `running` to `settled` (`Settle`) and
out (`Finally`), and other callbacks run in between. `drain()` is a synchronous loop: `draining` is
TRUE while it executes, `DrainStart` is one iteration that starts a job, `DrainStop` the exit, and
no other action is enabled meanwhile. A `schedule()` that throws `TaskQueueQuotaError` changes
nothing and is no step.

`AdmissionControl` is what the class promises seen from outside: arrivals and departures as single
steps, a departure handing its slot to the oldest job that may take it. The refinement mapping
counts the job the running loop is about to start as served already, so a whole `schedule()` and a
whole finally callback each map to one step.

### `RunnerPool` and `SandboxPool`

A member of `Lease` is one `acquire()` call, the lease it makes and the sandbox behind it. The only
awaits are `provider.provision()` and `provider.stop()`, so an action is what runs between two of
them. A stop has one promise that several callers await; when it settles they all resume in the same
round of microtasks before any of their own callers do, so `StopSucceeds` and `StopFails` act for
all of them. `waiters` records those callers that act on a failure by arming a retry. `timer` says
what the one timer of a lease was armed for. `live` is the provider's side: a failed stop may have
stopped the sandbox nevertheless. `Crash` empties the pool; sandboxes of the dead process are
`lost`, at most `MaxCrashes` times. The comment of `sweepExpired()` (sandbox.ts:210) calls it a
backstop "e.g. after a process restart"; in the model, as in the code, it only walks the leases of
its own process, and after a restart there are none: nothing of this repository stops an orphan.

`SandboxPool` is what the pool promises: a call takes a slot within the quotas, keeps it until its
sandbox is known to be down, and is told once and truly what became of it. Only the death of the
process orphans a sandbox. It has no reservations, stops, waiters or timers. In the mapping a slot
is a lease or a call that is provisioning; that a running sandbox is tracked (`NoSandboxForgotten`,
a theorem of its own) is then part of what is implemented, because a slot is only given back with
its sandbox down.

### `DeliveryClaims`

A contender is one delivery of the same event in any process. Each storage operation is one atomic
step. `conditional` says whether the driver has `setItemIfAbsent`: with it, `CreateIfAbsent` claims;
without it the claim is the splitter: `Register`, `CheckDoor`, `CloseDoor`, `ReadBack`. Operations
may fail (`ClaimFails`, a `Complete` that writes nothing, `ReleaseFails`) and processes may die
(`Crash`). What a refused contender is told is `answer`.

`ClaimRegister` is what the interface `DeliveryClaimStore` promises: one holder at a time, an
outcome only the holder records, a release only of an unfinished claim. It allows a refusal while
nobody holds the claim, which the code documents, and, for a `forgetful` driver (one without a
conditional create), the loss of a recorded outcome, which the code does not (finding
`claims_outcome`). The refinement mapping makes the holder the contender whose claim stands.

### `AgentRun` and `Lifecycle`

One checkout, used by `MaxRuns` runs in sequence; nothing in the repository cleans it between
runs. An action is what the run does between two awaits, cut at each `emit()`, so every lifecycle
transition is a step. File contents are members of `Content`; git reports a file unless it holds
`Committed`, and reports nothing when git itself fails (`Reported`). The model's decisions, the
verdict of `validateFinding()` and the exit codes of checks are free choices. `policy` collects
what the run reads from the configuration, the runner and the repository, including the files the
check commands write (`artifacts`) and `maxChangedFiles`. A decision is what each of its files ends
up as, and how many of its changes are to a file it already changes (`repeats`, at most
`MaxRepeats`), because `scopeChanges()` counts changes, not files (`Length`). The limit is applied
to each attempt, and the writes of a failed attempt stay: a run of n attempts may change n times
`maxChangedFiles` files, which is what `ChangesAuthorized` claims and no more. `base` and `tested`
are history variables for the properties.

`Lifecycle` is `LifecycleMachine` with `allowedTransitions` as in the source; `AgentRun` implements
it, which says that no `emit()` and no `finish()` can throw `InvalidTransitionError`.

### `RunTask`

A task is one call of `runTask()`, a reviewer one call of `decideApproval()`. `pc` is the await a
call is at: the save of the queued record (`creating`), the queue (`waiting`), the save of the
running record (`starting`), configuration and lease (`preparing`), `agent.run()` (`running`), the
reads of the snapshot, the release in the finally block (`releasing`, or `unwinding` with an error
on its way), the chain of event writes (`draining`), the final save (`finishing`) and the save of
the catch block (`catching`). The scheduler is `AdmissionControl`, which `TaskScheduler`
implements: a task enters and leaves by its steps, and a departure starts the task it hands the
slot to.

`record` is the object in memory, `stored` what the store holds. A save carries the record as it
was when the save was called, and takes effect when it is answered; one that fails has taken effect
by then or never does (`PerhapsStored`). `eventSave` is the event write in flight, `eventsDue` the
number of writes chained behind it; each serialises the record when its turn comes, and one failure
rejects the chain. A content is named by the task that wrote it, so `result.tree` and `snapshot`
are the content the run reported on and the content that was read for publication. `hosted` says
whether every task has a sandbox of its own or the tasks of a repository share its checkout. A
sandbox can reach its deadline at any await.

The snapshot asks `exists()` for each file, and `exists()` answers false whatever the error. A file
that cannot be reached (`Unreachable`: an operation fails, or the sandbox is gone) may therefore
throw in `readBytes()` (`SnapshotFails`) or be recorded as deleted (`SnapshotMisreads`). `Misread`
is such a snapshot, any snapshot with a deletion the run did not make: the properties need not know
which file it is. That it can be stored contradicts the comments of the code (finding
`run_task_snapshot`); `SnapshotUndisturbed` says what is true all the same.

`lease` is the sandbox of the task: `live` from `acquire()` until it is released, `unstopped` when
the release failed, `expired` when its deadline stopped it. The try block whose finally releases it
is entered only after the runner, the model and the agent are built, so `PrepareFails` may free the
slot and leave the sandbox `live`; the pool's expiry timer stops it later (`LeaseExpires`).
`LeaseReturned` counts every sandbox that runs (`Up`), these included, and says that there is no
third way for one to outlive its slot.

### `IssueDelivery`

A call is one delivery of one event, to a process `ProcessOf` names. `registry` is what
`deliveries.get(key)` finds in that process: the call whose promise was registered. `Share` returns
that promise, `RunUnclaimed` starts a run in the same turn, and with durable claims `AskClaim` and
`Claimed` are two steps with other deliveries between them. The claims are `ClaimRegister`, shared
by all processes. `runTask()` is one step that leaves `evidence` in the store; then come the
comment, the checks of `openIssuePullRequest()` (`Prepare`), the branch and the pull request, each
a request whose answer may be lost after it took effect. `Evict` is the bound of the registry,
which deliveries of other events reach. `Crash` ends all calls of a process and empties its
registry; `killed` is a call that died in its run. `uncertain` marks the processes whose registry
no longer protects them, for the properties that hold without durable claims.

### `Credentials` and `DeviceLogin`

A command is one process that signs in or out. `Credentials` is the file: an update reads the store
(an unreadable file reads as empty), writes a scratch file named after the process id, and renames
it, or removes the file when nothing remains. `atomic` is the file as it would be had every update
taken effect at once, and `blurred` the commands whose update overlapped with another or could not
read the file: only these may make a difference.

`DeviceLogin` is `signIn()` and `signOut()`: the device code, the loop of delays and polls, the
answers of the deployment, Ctrl-C on the spinner, and the update at the end. `left` and `rest`
count down to the deadline and to the end of the delay; at zero the event is due, and may come
later. A killed process leaves its scratch file, and its id may be used again.

## Runs

| Run | Instance | Shows |
|---|---|---|
| `scheduler` | six jobs of three repositories, two slots, one per repository, two queued | all seven properties, with fairness |
| `pool` | three leases of two repositories, quotas 2 and 1, one crash | all seven properties, with fairness |
| `claims` | four deliveries, both kinds of driver, symmetric | one run per delivery, claims keep the door closed, and they implement `ClaimRegister` |
| `claims_outcome` | the same | without it a slow loser overwrites a recorded outcome (finding) |
| `agent` | two files, two contents, two attempts, one repeated change, two runs, eight policies | writes are gated, in scope and limited in each attempt, verified means tested, runs end and follow the lifecycle |
| `agent_refusal` | one run | a refused repair leaves the first attempt's writes in place (finding) |
| `agent_verified` | two runs | a run that changed nothing is verified on a checkout that was dirty when it began (finding) |
| `run_task` | three tasks of one repository, two slots, one per repository, one queued, two events a run, one reviewer, one fault | a returned run is stored whole, no other task writes into a snapshot, a sandbox outlives its slot only where building the run or its release failed, results are kept |
| `run_task_snapshot` | the same | a file that `exists()` cannot reach is stored as deleted (finding) |
| `delivery` | two deliveries to one process, one to another, with and without durable claims | one run, true answers, one publication, every delivery answered, with fairness |
| `delivery_serialized` | the same | the registry of a process does not serialize its deliveries (finding) |
| `login` | two sign-ins, and a sign-out with the process id of the first; two deployments; expiry 3, interval 1 | polls are honest, no session is lost but to an overlap, every command ends, with fairness |

Why the bounds are enough. Scheduler: four jobs of one repository fill the queue with jobs that
may not start while a slot is free, and jobs of two others can overtake or fill it; both limits
bind. Pool: two calls compete for a repository quota and a third for the global one, and any two
leases can be in any two phases; a second crash meets nothing the first did not. Claims: one owner
that releases, one contender slow from before the release, and two that contend after it. Agent:
one file inside and one outside a finding's scope, one repair, one earlier run; a limit of one
file refuses two files as well as two changes to one. Task runs: one task
in its slot, one waiting for it and one refused; a second event is chained behind the first; one
fault anywhere - an operation that fails or a sandbox that expires - takes every error path, and
two hold as well, in a run ten times as long. Delivery: a leader, a follower or second contender
beside it, and one behind a register of another process; evictions and restarts are not counted.
Login: two overlapping updates and a later one that meets a leftover of its own id; the deadline
lies between the third poll and a slowed-down second one, so it can pass in a delay and in a poll.

Deadlock is checked except in `claims`, `agent`, `run_task`, `delivery`, `login` and the violations
over the same modules, where deliveries, runs and commands end and nothing follows.

## Fairness

- Scheduler: `drain()` is straight-line code and the finally callback a microtask, so both run on.
  That a job ends is what the timeouts of commands and model calls are for. `Settle` and `Finally`
  are strongly fair because the synchronous loop disables and re-enables them; a callback that is
  due stays due. Nobody is obliged to call `schedule()`.
- Pool: the clock advances, timers fire, the provider answers every stop, and a stop that is tried
  again and again succeeds one day. The retry loop has no bound, so without this nothing could be
  promised.
- Agent: every await is bounded by a timeout of the transport or the runner, so a run that can take
  a step takes one.
- Delivery: the awaits of a call are bounded by the timeouts of runner, transport and store; nobody
  is obliged to deliver, to evict or to crash.
- Login: time passes, a timer that is due fires, `fetch()` ends by its own timeouts and file
  operations end. The operator need not approve and the deployment may say "not yet" for ever.
- Claims and task runs: only safety is stated; nobody retries a delivery or decides a record by
  obligation, and that a run ends is the agent's liveness property and the scheduler's.

## Proofs

Each component's proofs are in `<module>Proofs`. They assume only the named assumptions on the
constants (`SchedulerAssumption`, `PoolAssumption`, `ClaimAssumption`, `AgentAssumption`,
`RunTaskAssumption`, `NoneAssumption`, `MisreadAssumption`, `DeliveryAssumption`,
`LoginAssumption`). The assumptions say no more than that limits are positive or natural numbers,
maps are maps, `None` is no value and `Misread` no content; that `File` is finite is the only one
about a set of actors or data, and only what counts files uses it: the bound on a run's steps,
because a run writes one file after another, and the limit on changed files. Each module has one
inductive invariant (`IInv`, or `Inv` in `DeviceLoginProofs`), one lemma per action, group of
actions or conjunct, and the properties as consequences.

Every safety property, action property and refinement that a passing run checks is proved. Other
theorems go beyond the runs; what they state is defined in the proof modules and was checked with
TLC on the instance of the component's run before it was proved. They answer three questions.

*Can anybody be stuck?* Everyone who waits, waits for somebody who does not: a queued job for
holders that fill every slot or its repository's whole quota (`WaitersHaveHolders`), a waiting task
for runs in their slot's code that do (`WaitersHaveRunners`), a delivery that shares a promise for a
call of its process that leads and follows nobody (`FollowersLed`).

*Can anybody go round for ever?* `RunAdvances`, `CommandAdvances`, `CallsAdvance`,
`ContendersOnlyAdvance` and `CallsOnlyAdvance` give each component's unit of work a variant that
every step lowers. `RunBounded` bounds a run by `MaxAttempts * AttemptSteps + 4` steps, whatever the
model decides. For a command the variant is lexicographic: the part of the command it is in, whether
Ctrl-C may still come, the time to the deadline, then what is left to do before that time moves on.

*Is what is counted what there is?* `WInv` says that the served tasks are those in slot code and
that nobody who waits could be served; `PInv` that the counted reservations are the calls that await
the provider, so `RefusalsJustified`: acquire() refuses for a quota only when it is really full.
`EventsFollowed` says that the newest event of a run is stored, in flight or due behind a write.

- `TaskSchedulerProofs`: the quotas are not inductive by themselves, because the counters could
  drift from the jobs. `JobsApart` and `CountersExact` say that `active` and `activeByRepository`
  are the cardinalities of the sets of jobs that hold a slot and that the queue has no repeated job
  and is disjoint from these; `OverflowStartable` that a queue above its limit is possible only
  while `drain()` runs with a job at its end that will start. `WorkConserving` holds because the
  loop only exits when nothing is eligible. That the loop implements `AdmissionControl` needs one
  more conjunct, `OneStartLeft`: whenever `drain()` is about to look at the queue, whichever job it
  starts leaves none that could start next, so what an arrival or a departure decides at once is
  what the loop does step by step.
- `RunnerPoolProofs`: the quotas are proved over what claims a place, leases and provisioning calls
  together (`QuotaSecured`), because a lease takes over the reservation of its call.
  `CleanupSecured` says that whoever waits for the stop of a lease without a timer is a caller that
  arms one, `OnlyForLeases` and `Unanswered` which sets of the pool a lease can be in. That the pool
  implements `SandboxPool` adds `ReservationsAwaited` and `AfterDisposal` (a counted reservation is
  a call that awaits its provisioning, or, in a disposed pool, the stop of its sandbox: this is
  `PInv`) and `SandboxesSorted`: a call that awaits its provisioning has no sandbox up, one that
  awaits its stop has, and an orphan is none of this process's. Then what acquire() compares with
  the quotas is the abstract count, and a stop that settles is exactly a slot given back or kept. A
  disposed pool only drains and a call settles once.
- `DeliveryClaimsProofs`: the splitter argument. `OneClaim` says that at most one contender owns the
  delivery or can still win the read-back, `OthersLost` and `WinnerClosedDoor` relate the register
  to the contender between its own steps, `RegisterUnused` that a conditional driver never uses it.
  `Holder` chooses among the contenders whose claim stands; as these are at most one, every step of
  the protocol is a step of the register or none. A late write of a slow loser over a recorded
  outcome is the register's `Forget`; with a conditional create there is none (`AtomicOutcomeKept`),
  and with either driver a replay is of a run that completed (`ReplaysAreTrue`).
- `AgentRunProofs`: `IInv` says for each lifecycle state what the run has established by then, that
  no attempt means no change, that a repair keeps what the first authorization granted except the
  risk, and that from the first check of a round on the sources are those being checked. The
  implementation of `Lifecycle` follows action by action. The limit on changed files needs a
  strengthening of its own (`EachAttemptNarrow`): before an attempt there is room for one limit
  more, and while it writes, what it wrote and what it still has to write fit together. For the
  bound on steps, `StepsLeft` is the repairs left times what an attempt may take, and what is left
  of the present state; the number of files and checks bounds the latter.
- `RunTaskProofs`: every property is about the stored record, but what can reach the store is spread
  over the record in memory, the event write in flight and the decisions. `CopiesFaithful` follows
  all these copies: one that carries a result carries the final one, with the final snapshot, and
  equals the record while the call is `finishing` or has `returned`. `ResultsSettled` adds that no
  event write is in flight once the record has its result, which is what the await of the chain is
  for, and `DecisionsOnResults` that decisions are only about results. A step either carries such
  copies on (`Carried`) and keeps the call's result (`Onward`), or it is one of the four that make
  something new: the run returns, the snapshot is read, the result joins the record, a decision is
  made. `ResultsAgree` ties the snapshot to the result, or to a fault, by `SlotsRight`, which gives
  a task that is in its slot's code the checkout for itself. `LeaseAt` says at which awaits a
  sandbox runs and with what status and result: this is `LeaseReturned`, and since a sandbox that
  outlives its slot costs a fault that nothing else pays for (`LeaksPaid`), the running sandboxes
  are at most the slots and one for each fault. For the limits and the waiting, `WInv` keeps the
  quotas, that nobody who waits could be served (`NobodyPassedOver`), that a task with a slot is in
  slot code and that one that waits is queued (`Placed`).
- `IssueDeliveryProofs`: with durable claims whoever ran, or is about to release, holds the claim
  (`RunsHold`); without them whoever ran is registered until the registry of its process loses an
  entry (`RunsRegistered`). `OneRun` follows, because a claim has one holder and a registry one
  entry. `SharedNear` keeps shared promises within a process, `RecordTrue`, `ToldTrue` and
  `OpenedTrue` relate what is recorded, told and reported to how runs ended, and `PublishedByRun`
  ties every comment and branch to a run past `runTask()` that did not reject.
- `DeviceLoginProofs`: `DelayKept` says that the interval counts the slow-downs and that the time
  since the last answer and the rest of the delay make it up. For the file, `SnapshotCurrent` says
  that an open update overlaps with another, could not read the file, or has read what the file
  still is, so its rename is what a whole update makes; `ScratchOwned` that a scratch file is that
  of a command which is writing it, died, or could not write it, and `OneProcessPerId` that no two
  living processes share it.

Only model-checked: liveness (`EveryQueuedJobStarts`, `EverySandboxStops`, `RunEnds`,
`EveryDeliveryAnswered`, `CommandEnds`), which TLAPS does not reach, and the violations. The safety
half of all but `EverySandboxStops` is proved: the variant of `RunEnds` and `CommandEnds`, the
variant and the leaders behind `EveryDeliveryAnswered`, and for `EveryQueuedJobStarts` that a job
waits only for holders of slots and moves forward only. What stays with TLC is that fairness then
makes the steps happen. `EverySandboxStops` has no variant, since a stop that fails is tried again
without a bound; `CleanupPath` is its safety half.

## Not modelled

Parsing, rendering, redaction, HTTP payloads and user interfaces, as `PROJECT.json` says component
by component. Time is abstract: deadlines pass and timers fire in any order the code allows.
Storage operations are atomic: the one driver of the repository that could tear a record,
`FileKeyValueStorage`, is used by none of its applications. In `RunTask`
the process does not die, and a failed store operation does not take effect after its failure was
reported. Nobody handles the rejection of an event write before `runTask()` awaits the chain, so the
model is about hosts that survive an unhandled rejection, as a Nitro server does; under Node's
default the process dies instead. A checkout
is used by one run at a time in `AgentRun`, which the scheduler's default of one run per repository
gives for runs of one control plane.

What remains of the program's own logic was looked at and left out for these reasons. The
usage-limit wait of the model transport is one bounded counter in one call without another actor.
The audit log appends under unique keys and promises nothing about pages read during writes.
Access control, redaction, subscription isolation, policy parsing, path resolution, the diff budget
and the parsing of git output are functions of one string or record, with neither state nor
interleaving, and their tests enumerate what a model would repeat. Most implementation lines of the
repository are none of these: scripts of agent skills under `src/.agents`, the user interface, mail
templates, provider adapters and generated schemas, which keep no state this code decides about.
The lines the models map are therefore a small share of the repository and most of the lines in it
where order, failure and time matter.
