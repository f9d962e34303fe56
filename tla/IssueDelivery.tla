---------------------------- MODULE IssueDelivery ----------------------------
(***************************************************************************)
(* ingestIssueEvent(), runIssueTask() and openIssuePullRequest() of        *)
(* packages/api/src/operations.ts for one issue event, which GitHub may    *)
(* deliver again, at the same time and to another process.                 *)
(*                                                                         *)
(* A call is one delivery that policy, parser and checkout identity do not *)
(* decline, which would change nothing.  Its process keeps the promise of  *)
(* the run in a bounded in-memory registry; the durable claims, when       *)
(* configured, are shared by all processes and are a ClaimRegister here,   *)
(* which DeliveryClaims implements.  An action is what a call does between *)
(* two awaits.                                                             *)
(***************************************************************************)
CONSTANTS
    Call,       \* deliveries of the event
    Process,
    ProcessOf,  \* the process each call is delivered to
    NoCall

ASSUME DeliveryAssumption ==
    /\ NoCall \notin Call
    /\ ProcessOf \in [Call -> Process]
    /\ Call \intersect {"none", "ignored", "error"} = {}

VARIABLES
    durable,    \* whether options.deliveryClaims is configured
    registry,   \* per process: the call whose promise options.deliveries holds
    pc,         \* the await a call is at
    leader,     \* the call whose promise a call returned
    evidence,   \* what the stored record of a call's run lets openIssuePullRequest() do
    ended,      \* how a call's run ended: its promise
    told,       \* what the sender of a delivery was answered
    comments, branches, pulls,         \* what the runs left on GitHub
    uncertain,  \* processes whose registry lost an entry, or that restarted
    forgetful, holder, outcome, answer \* the claims

claims == <<forgetful, holder, outcome, answer>>

github == <<comments, branches, pulls>>

vars == <<durable, registry, pc, leader, evidence, ended, told, github, uncertain, claims>>

Claims == INSTANCE ClaimRegister WITH Contender <- Call, NoHolder <- NoCall

\* The awaits of runIssueTask().
InRun == {"running", "commenting", "publishing", "branching", "opening"}

Pending == InRun \union {"claiming", "sharing", "recording", "releasing"}

\* With or without a pull request.
Outcome == {"opened", "unopened"}

Moves(c, from, to) == pc[c] = from /\ pc' = [pc EXCEPT ![c] = to]

Answers(c, what) == told' = [told EXCEPT ![c] = what]

-----------------------------------------------------------------------------

Init ==
    /\ durable \in BOOLEAN
    /\ registry = [p \in Process |-> NoCall]
    /\ pc = [c \in Call |-> "idle"]
    /\ leader = [c \in Call |-> NoCall]
    /\ evidence = [c \in Call |-> "none"]
    /\ ended = [c \in Call |-> "none"]
    /\ told = [c \in Call |-> "none"]
    /\ comments = {} /\ branches = {} /\ pulls = {}
    /\ uncertain = {}
    /\ Claims!Init
    /\ forgetful => durable

\* deliveries.get(key): the promise of an earlier delivery is returned.
Share(c) ==
    /\ registry[ProcessOf[c]] # NoCall
    /\ Moves(c, "idle", "sharing")
    /\ leader' = [leader EXCEPT ![c] = registry[ProcessOf[c]]]
    /\ UNCHANGED <<durable, registry, evidence, ended, told, github, uncertain, claims>>

\* runIssueTask() is called and its promise registered.
Run(c, from) ==
    /\ Moves(c, from, "running")
    /\ registry' = [registry EXCEPT ![ProcessOf[c]] = c]

\* Mutant: the registry is not looked at.
MutRunUnclaimed(c) ==
    /\ ~durable
    /\ Run(c, "idle")
    /\ UNCHANGED <<durable, leader, evidence, ended, told, github, uncertain, claims>>

\* No durable claims: nothing is awaited between the look at the registry and the registration.
RunUnclaimed(c) ==
    /\ ~durable
    /\ registry[ProcessOf[c]] = NoCall
    /\ Run(c, "idle")
    /\ UNCHANGED <<durable, leader, evidence, ended, told, github, uncertain, claims>>

AskClaim(c) ==
    /\ durable
    /\ registry[ProcessOf[c]] = NoCall
    /\ Moves(c, "idle", "claiming")
    /\ UNCHANGED <<durable, registry, leader, evidence, ended, told, github, uncertain, claims>>

Claimed(c) ==
    /\ Run(c, "claiming")
    /\ Claims!Claim(c)
    /\ UNCHANGED <<durable, leader, evidence, ended, told, github, uncertain>>

\* Mutants: the record is returned as it is; an unfinished claim is not told from a recorded one.
MutRefusedRaw(c) ==
    /\ Moves(c, "claiming", "answered")
    /\ Claims!Refuse(c)
    /\ Answers(c, outcome)
    /\ UNCHANGED <<durable, registry, leader, evidence, ended, github, uncertain>>

MutRefused(c) ==
    /\ Moves(c, "claiming", "answered")
    /\ Claims!Refuse(c)
    /\ holder # NoCall
    /\ Answers(c, holder)
    /\ UNCHANGED <<durable, registry, leader, evidence, ended, github, uncertain>>

\* The recorded outcome is replayed; without one the delivery is ignored.
Refused(c) ==
    /\ Moves(c, "claiming", "answered")
    /\ Claims!Refuse(c)
    /\ Answers(c, IF outcome = "recorded" THEN holder ELSE "ignored")
    /\ UNCHANGED <<durable, registry, leader, evidence, ended, github, uncertain>>

ClaimRejects(c) ==
    /\ Moves(c, "claiming", "answered")
    /\ Answers(c, "error")
    /\ UNCHANGED <<durable, registry, leader, evidence, ended, github, uncertain, claims>>

-----------------------------------------------------------------------------

\* runTask() returns, having stored its record.
TaskDone(c) ==
    /\ Moves(c, "running", "commenting")
    /\ \E e \in {"unfit", "ready"} : evidence' = [evidence EXCEPT ![c] = e]
    /\ UNCHANGED <<durable, registry, leader, ended, told, github, uncertain, claims>>

\* runTask() rejects: the entry of this delivery is deleted, whosever it is, before the release.
TaskRejects(c) ==
    /\ Moves(c, "running", "releasing")
    /\ ended' = [ended EXCEPT ![c] = "failed"]
    /\ registry' = [registry EXCEPT ![ProcessOf[c]] = NoCall]
    /\ UNCHANGED <<durable, leader, evidence, told, github, uncertain, claims>>

\* publishIssueValidation(), when policy asks for it; it may fail after the comment was posted.
Comment(c) ==
    /\ Moves(c, "commenting", "publishing")
    /\ comments' \in {comments, comments \union {c}}
    /\ UNCHANGED <<durable, registry, leader, evidence, ended, told, branches, pulls, uncertain, claims>>

\* runIssueTask() resolves.
RunEnds(c, from, end) ==
    /\ Moves(c, from, "recording")
    /\ ended' = [ended EXCEPT ![c] = end]

\* openIssuePullRequest() up to the first write: it refuses what is not ready, not covered by the
\* snapshot, or of another repository, and any read may fail.
Prepare(c) ==
    /\ \/ evidence[c] = "ready" /\ Moves(c, "publishing", "branching") /\ UNCHANGED ended
       \/ RunEnds(c, "publishing", "unopened")
    /\ UNCHANGED <<durable, registry, leader, evidence, told, github, uncertain, claims>>

\* publishBranch(): only its last request, the creation of the ref, is visible; its answer may be
\* lost.
PublishBranch(c) ==
    /\ \/ /\ Moves(c, "branching", "opening")
          /\ branches' = branches \union {c}
          /\ UNCHANGED ended
       \/ /\ RunEnds(c, "branching", "unopened")
          /\ branches' \in {branches, branches \union {c}}
    /\ UNCHANGED <<durable, registry, leader, evidence, told, comments, pulls, uncertain, claims>>

\* Mutant: a failed publication fails the run, and the delivery is released for a retry.
MutOpenPullRequest(c) ==
    /\ \/ RunEnds(c, "opening", "opened") /\ UNCHANGED registry
       \/ /\ Moves(c, "opening", "releasing")
          /\ ended' = [ended EXCEPT ![c] = "failed"]
          /\ registry' = [registry EXCEPT ![ProcessOf[c]] = NoCall]
    /\ pulls' = pulls \union {c}
    /\ UNCHANGED <<durable, leader, evidence, told, comments, branches, uncertain, claims>>

\* pulls.openPullRequest(): the answer may be lost.
OpenPullRequest(c) ==
    /\ \/ RunEnds(c, "opening", "opened") /\ pulls' = pulls \union {c}
       \/ RunEnds(c, "opening", "unopened") /\ pulls' \in {pulls, pulls \union {c}}
    /\ UNCHANGED <<durable, registry, leader, evidence, told, comments, branches, uncertain, claims>>

-----------------------------------------------------------------------------

\* complete(), best effort; then the sender is answered.
Complete(c) ==
    /\ Moves(c, "recording", "answered")
    /\ Answers(c, c)
    /\ (durable /\ Claims!Record(c)) \/ UNCHANGED claims
    /\ UNCHANGED <<durable, registry, leader, evidence, ended, github, uncertain>>

\* release(), best effort; then the error is thrown on.
Release(c) ==
    /\ Moves(c, "releasing", "answered")
    /\ Answers(c, "error")
    /\ (durable /\ Claims!Release(c)) \/ UNCHANGED claims
    /\ UNCHANGED <<durable, registry, leader, evidence, ended, github, uncertain>>

\* Mutant: only a resolved promise is passed on.
MutFollow(c) ==
    /\ Moves(c, "sharing", "answered")
    /\ ended[leader[c]] \in Outcome
    /\ Answers(c, leader[c])
    /\ UNCHANGED <<durable, registry, leader, evidence, ended, github, uncertain, claims>>

\* The shared promise settles.
Follow(c) ==
    /\ Moves(c, "sharing", "answered")
    /\ \/ ended[leader[c]] = "failed" /\ Answers(c, "error")
       \/ ended[leader[c]] \in Outcome /\ Answers(c, leader[c])
    /\ UNCHANGED <<durable, registry, leader, evidence, ended, github, uncertain, claims>>

\* Deliveries of other events fill the registry and this event's entry is the oldest.
Evict(p) ==
    /\ registry[p] # NoCall
    /\ registry' = [registry EXCEPT ![p] = NoCall]
    /\ uncertain' = uncertain \union {p}
    /\ UNCHANGED <<durable, pc, leader, evidence, ended, told, github, claims>>

\* The process dies, with its registry and its calls, and is started again.
Crash(p) ==
    /\ pc' = [c \in Call |-> IF ProcessOf[c] = p /\ pc[c] \in Pending
                             THEN IF pc[c] \in InRun THEN "killed" ELSE "dead"
                             ELSE pc[c]]
    /\ pc' # pc
    /\ registry' = [registry EXCEPT ![p] = NoCall]
    /\ uncertain' = uncertain \union {p}
    /\ UNCHANGED <<durable, leader, evidence, ended, told, github, claims>>

Forget ==
    /\ Claims!Forget
    /\ UNCHANGED <<durable, registry, pc, leader, evidence, ended, told, github, uncertain>>

Ingest(c) == Share(c) \/ RunUnclaimed(c) \/ AskClaim(c)

Proceed(c) ==
    \/ Claimed(c) \/ Refused(c) \/ ClaimRejects(c)
    \/ TaskDone(c) \/ TaskRejects(c) \/ Comment(c)
    \/ Prepare(c) \/ PublishBranch(c) \/ OpenPullRequest(c)
    \/ Complete(c) \/ Release(c) \/ Follow(c)

Next ==
    \/ \E c \in Call : Ingest(c) \/ Proceed(c)
    \/ \E p \in Process : Evict(p) \/ Crash(p)
    \/ Forget

\* Every await is bounded by a timeout of the transport, the runner or the store; nobody is obliged
\* to deliver again, to evict or to crash.
Fairness == \A c \in Call : WF_vars(Proceed(c))

Spec == Init /\ [][Next]_vars /\ Fairness

-----------------------------------------------------------------------------

TypeOK ==
    /\ durable \in BOOLEAN
    /\ registry \in [Process -> Call \union {NoCall}]
    /\ pc \in [Call -> Pending \union {"idle", "answered", "killed", "dead"}]
    /\ leader \in [Call -> Call \union {NoCall}]
    /\ evidence \in [Call -> {"none", "unfit", "ready"}]
    /\ ended \in [Call -> Outcome \union {"none", "failed"}]
    /\ told \in [Call -> Call \union {"none", "ignored", "error"}]
    /\ comments \subseteq Call /\ branches \subseteq Call /\ pulls \subseteq Call
    /\ uncertain \subseteq Process
    /\ forgetful \in BOOLEAN
    /\ holder \in Call \union {NoCall}
    /\ outcome \in {"none", "recorded"}
    /\ answer \in [Call -> {"none", "replayed", "ignored"}]

\* The call's run is in progress, was killed, or ended with an outcome.
Ran(c) == pc[c] \in InRun \union {"killed"} \/ ended[c] \in Outcome

\* Whether the code promises one run to both calls: by the durable claims, or within a process
\* that did not restart and whose registry kept its entries.
Protected(c, d) ==
    durable \/ (ProcessOf[c] = ProcessOf[d] /\ ProcessOf[c] \notin uncertain)

\* "A redelivery observes the recorded outcome instead of starting a second run": a delivery is run
\* again only after its run rejected.
OneRun == \A c, d \in Call : Ran(c) /\ Ran(d) /\ Protected(c, d) => c = d

\* A sender is told an outcome only when a run ended with it, two senders are told the same one, and
\* a pull request an outcome reports is open.
AnswersTrue ==
    \A c \in Call : told[c] \in Call =>
        /\ ended[told[c]] \in Outcome
        /\ ended[told[c]] = "opened" => told[c] \in pulls
        /\ \A d \in Call : told[d] \in Call /\ Protected(c, d) => told[d] = told[c]

\* Whatever is published twice, late or by a retry: an event gets one validation comment, one branch
\* and one pull request, of one run, and only with verified changes the snapshot covers.  A run that
\* rejected, and will be retried, has published nothing.
PublishedOnce ==
    /\ \A c \in branches : evidence[c] = "ready"
    /\ pulls \subseteq branches
    /\ \A c, d \in comments \union branches : Protected(c, d) => c = d
    /\ \A c \in Call : ended[c] = "failed" => c \notin comments \union branches

\* Every delivery is answered unless its process dies: a follower by its leader too.
EveryDeliveryAnswered ==
    \A c \in Call : pc[c] \in Pending ~> pc[c] \in {"answered", "killed", "dead"}

\* "The router's in-memory registry still serializes concurrent deliveries within one process", and
\* "a concurrent redelivery shares the in-flight outcome": of two deliveries to one process only one
\* asks for the claim.  The registration after the awaited claim contradicts it.
RegistrySerializes ==
    \A c, d \in Call :
        pc[c] = "claiming" /\ pc[d] = "claiming" /\ ProcessOf[c] = ProcessOf[d] => c = d

=============================================================================
