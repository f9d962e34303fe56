------------------------------ MODULE AgentRun -------------------------------
(***************************************************************************)
(* AgentZero.run() of packages/agent/src/agent.ts: the find, fix and       *)
(* verify loop of one run at a time over one checkout, which keeps what    *)
(* earlier runs left in it.                                                *)
(*                                                                         *)
(* An action is what the run does between two awaits (model.decide, the    *)
(* runner's reads, writes, checks and git status), cut once more at each   *)
(* emit() so that every lifecycle transition is a step.  File contents are *)
(* members of a set; git sees a file as changed unless it holds Committed. *)
(* What the model decides, what validateFinding() finds and what a check   *)
(* answers is chosen freely.                                               *)
(***************************************************************************)
EXTENDS Integers, Sequences, FiniteSets

CONSTANTS
    File,         \* the files of the checkout
    Content,      \* what a file can hold
    Committed,    \* what every file holds in the commit that is checked out
    Policy,       \* the policies, boundaries and probes a run can meet
    MaxAttempts,  \* config.agent.maxAttempts
    MaxRepeats,   \* bound: how many changes of a decision are to a file it already changes
    MaxRuns       \* bound: how many runs use the checkout

Risk == {"mechanical", "behavioral", "high-impact"}

\* The outcome of loadConfig() and describe() for one run: mayModifyRepository(),
\* allowedChangeRisks, whether the runner is writable, whether it is isolated where policy
\* demands it, how many checks resolveChecks() found, the files those commands write, and
\* config.agent.maxChangedFiles.
PolicyType ==
    [mayModify : BOOLEAN, allowed : SUBSET (Risk \ {"high-impact"}), writable : BOOLEAN,
     isolated : BOOLEAN, checks : Nat, artifacts : SUBSET File, maxChangedFiles : Nat \ {0}]

ASSUME AgentAssumption ==
    /\ IsFiniteSet(File)
    /\ Committed \in Content
    /\ Policy \subseteq PolicyType
    /\ MaxAttempts \in Nat \ {0}
    /\ MaxRepeats \in Nat
    /\ MaxRuns \in Nat

VARIABLES
    checkout,   \* what each file of the checkout holds
    state,      \* LifecycleMachine.current
    policy,     \* what this run was constructed with
    finding,    \* the first decision's finding: verdict, cited files, enough confidence to write
    decision,   \* the decision in force (risk and changes), or NoDecision while one is awaited
    attempts,   \* run.attempts
    todo,       \* files the loop over scoped.changes still has to write
    checks,     \* the results in run.checks, in order
    result,     \* what finish() returned: state, verified and changedFiles
    runs,       \* how many runs started
    base,       \* history: the checkout when the run started
    tested      \* history: the checkout when the run's last round of checks began

vars == <<checkout, state, policy, finding, decision, attempts, todo, checks, result, runs,
          base, tested>>

Terminal == {"completed", "needs-human", "failed"}

\* What some of the files are changed to in the end, in whatever order.
Changes == UNION {[S -> Content] : S \in SUBSET File}

\* Repeats are changes to a file that an earlier change of the same decision is about.
Decision ==
    {d \in [risk : Risk, changes : Changes, repeats : 0..MaxRepeats] :
        DOMAIN d.changes = {} => d.repeats = 0}

NoDecision == [risk |-> "none", changes |-> <<>>, repeats |-> 0]

\* changes.length
Length(d) == Cardinality(DOMAIN d.changes) + d.repeats

Finding == [verdict : {"pending", "accepted", "rejected", "inconclusive"}, files : SUBSET File,
            confident : BOOLEAN]

NoFinding == [verdict |-> "pending", files |-> {}, confident |-> FALSE]

Dirty == {f \in File : checkout[f] # Committed}

\* changedFiles(): what git status reports; nothing when git fails or times out.
Reported == {Dirty, {}}

\* Whether two checkouts agree on everything the checks do not write themselves.
SameSources(c, d) == \A f \in File \ policy.artifacts : c[f] = d[f]

AllPass(cs) == \A i \in DOMAIN cs : cs[i] = "pass"

allChecksPassed(cs) == cs # <<>> /\ AllPass(cs)

\* finish(): verified is derived here and nowhere else.
Finish(s, changed) ==
    /\ state' = s
    /\ result' = [state |-> s,
                  verified |-> s = "completed" /\ changed # {} /\ allChecksPassed(checks),
                  changed |-> changed]

-----------------------------------------------------------------------------

\* new Run(): a run that ended is followed by another one on the same checkout.
Init ==
    /\ checkout \in [File -> Content]
    /\ state = "queued"
    /\ policy \in Policy
    /\ finding = NoFinding
    /\ decision = NoDecision
    /\ attempts = 0
    /\ todo = {}
    /\ checks = <<>>
    /\ result = [state |-> "none", verified |-> FALSE, changed |-> {}]
    /\ runs = 1
    /\ base = checkout
    /\ tested = checkout

NewRun ==
    /\ state \in Terminal
    /\ runs < MaxRuns
    /\ runs' = runs + 1
    /\ state' = "queued"
    /\ policy' \in Policy
    /\ finding' = NoFinding
    /\ decision' = NoDecision
    /\ attempts' = 0
    /\ todo' = {}
    /\ checks' = <<>>
    /\ result' = [state |-> "none", verified |-> FALSE, changed |-> {}]
    /\ base' = checkout
    /\ tested' = checkout
    /\ UNCHANGED checkout

\* The checkout is probed for its checks, its diff and its context.
Discover ==
    /\ \/ state = "queued" /\ state' = "discovering"
       \/ state = "discovering" /\ state' = "understanding"
    /\ UNCHANGED <<checkout, policy, finding, decision, attempts, todo, checks, result, runs,
                   base, tested>>

\* The first decision: its finding is the one the run is held to.
Understand ==
    /\ state = "understanding"
    /\ state' = "validating"
    /\ decision' \in Decision
    /\ finding' \in [verdict : {"pending"}, files : SUBSET File, confident : BOOLEAN]
    /\ UNCHANGED <<checkout, policy, attempts, todo, checks, result, runs, base, tested>>

\* validateFinding() decides, and only an accepted finding is planned for.
Validate ==
    /\ state = "validating"
    /\ \E verdict \in {"accepted", "rejected", "inconclusive"} :
        /\ finding' = [finding EXCEPT !.verdict = verdict]
        /\ \/ verdict = "accepted" /\ state' = "planning" /\ UNCHANGED result
           \/ verdict = "rejected" /\ Finish("completed", {})
           \/ verdict = "inconclusive" /\ Finish("needs-human", {})
    /\ UNCHANGED <<checkout, policy, decision, attempts, todo, checks, runs, base, tested>>

\* authorize(): whether this run may modify the checkout with the decision in force.
Authorized ==
    /\ policy.mayModify
    /\ finding.confident
    /\ decision.risk \in policy.allowed
    /\ policy.writable
    /\ policy.isolated
    /\ policy.checks > 0

\* authorize() refuses, before the first attempt or a repair: the run ends with what it has.
Refuse ==
    /\ state = "planning"
    /\ decision # NoDecision
    /\ ~Authorized
    /\ Finish(IF policy.mayModify THEN "needs-human" ELSE "completed", {})
    /\ UNCHANGED <<checkout, policy, finding, decision, attempts, todo, checks, runs, base,
                   tested>>

\* Mutant: only the first attempt is scoped.
MutInScope ==
    /\ Length(decision) \in 1..policy.maxChangedFiles
    /\ attempts > 0 \/ DOMAIN decision.changes \subseteq finding.files

\* scopeChanges(): there must be changes, not too many, and only to files the validated finding
\* cites.
InScope ==
    /\ Length(decision) \in 1..policy.maxChangedFiles
    /\ DOMAIN decision.changes \subseteq finding.files

FirstOr(n) == IF n = 0 THEN 1 ELSE n

OutOfScope ==
    /\ state = "planning"
    /\ decision # NoDecision
    /\ Authorized
    /\ ~InScope
    /\ attempts' = FirstOr(attempts)
    /\ Finish("needs-human", {})
    /\ UNCHANGED <<checkout, policy, finding, decision, todo, checks, runs, base, tested>>

\* Mutant: a repair is not authorized again.
MutExecute ==
    /\ state = "planning"
    /\ decision # NoDecision
    /\ attempts > 0 \/ Authorized
    /\ InScope
    /\ state' = "executing"
    /\ attempts' = FirstOr(attempts)
    /\ todo' = DOMAIN decision.changes
    /\ UNCHANGED <<checkout, policy, finding, decision, checks, result, runs, base, tested>>

Execute ==
    /\ state = "planning"
    /\ decision # NoDecision
    /\ Authorized
    /\ InScope
    /\ state' = "executing"
    /\ attempts' = FirstOr(attempts)
    /\ todo' = DOMAIN decision.changes
    /\ UNCHANGED <<checkout, policy, finding, decision, checks, result, runs, base, tested>>

Write(f) ==
    /\ state = "executing"
    /\ f \in todo
    /\ todo' = todo \ {f}
    /\ checkout' = [checkout EXCEPT ![f] = decision.changes[f]]
    /\ UNCHANGED <<state, policy, finding, decision, attempts, checks, result, runs, base,
                   tested>>

\* Every change is written: a fresh round of checks begins.
Verify ==
    /\ state = "executing"
    /\ todo = {}
    /\ state' = "verifying"
    /\ checks' = <<>>
    /\ tested' = checkout
    /\ UNCHANGED <<checkout, policy, finding, decision, attempts, todo, result, runs, base>>

\* runner.check(): the next command leaves its files behind and exits with zero or not.
Check ==
    /\ state = "verifying"
    /\ Len(checks) < policy.checks
    /\ \E exit \in {"pass", "fail"} : checks' = Append(checks, exit)
    /\ checkout' \in {c \in [File -> Content] : SameSources(c, checkout)}
    /\ UNCHANGED <<state, policy, finding, decision, attempts, todo, result, runs,
                   base, tested>>

\* Whether the whole round is over.
Checked == state = "verifying" /\ Len(checks) = policy.checks

\* Mutants: the first passing check is enough; one passing check among others is enough.
MutReviewEarly ==
    /\ state = "verifying"
    /\ checks # <<>>
    /\ AllPass(checks)
    /\ state' = "reviewing"
    /\ UNCHANGED <<checkout, policy, finding, decision, attempts, todo, checks, result, runs,
                   base, tested>>

MutReviewSome ==
    /\ Checked
    /\ \E i \in DOMAIN checks : checks[i] = "pass"
    /\ state' = "reviewing"
    /\ UNCHANGED <<checkout, policy, finding, decision, attempts, todo, checks, result, runs,
                   base, tested>>

Review ==
    /\ Checked
    /\ AllPass(checks)
    /\ state' = "reviewing"
    /\ UNCHANGED <<checkout, policy, finding, decision, attempts, todo, checks, result, runs,
                   base, tested>>

\* The resulting diff decides whether anything was fixed.
Inspect ==
    /\ state = "reviewing"
    /\ \E changed \in Reported :
         Finish(IF changed = {} THEN "needs-human" ELSE "completed", changed)
    /\ UNCHANGED <<checkout, policy, finding, decision, attempts, todo, checks, runs, base,
                   tested>>

\* Mutants: the budget is not looked at; the repair counts no attempt; it goes straight back to
\* executing.
MutReplanEndless ==
    /\ Checked
    /\ ~AllPass(checks)
    /\ attempts' = attempts + 1
    /\ state' = "planning"
    /\ decision' = NoDecision
    /\ UNCHANGED <<checkout, policy, finding, todo, checks, result, runs, base, tested>>

MutReplan ==
    /\ Checked
    /\ ~AllPass(checks)
    /\ attempts < MaxAttempts
    /\ state' = "planning"
    /\ decision' = NoDecision
    /\ UNCHANGED <<checkout, policy, finding, attempts, todo, checks, result, runs, base, tested>>

MutReplanSkips ==
    /\ Checked
    /\ ~AllPass(checks)
    /\ attempts < MaxAttempts
    /\ attempts' = attempts + 1
    /\ state' = "executing"
    /\ UNCHANGED <<checkout, policy, finding, decision, todo, checks, result, runs, base, tested>>

\* Verification failed and an attempt is left: a new decision is asked for.
Replan ==
    /\ Checked
    /\ ~AllPass(checks)
    /\ attempts < MaxAttempts
    /\ attempts' = attempts + 1
    /\ state' = "planning"
    /\ decision' = NoDecision
    /\ UNCHANGED <<checkout, policy, finding, todo, checks, result, runs, base, tested>>

\* The repair's decision: its changes and its risk count, its finding does not.
Redecide ==
    /\ state = "planning"
    /\ decision = NoDecision
    /\ decision' \in Decision
    /\ UNCHANGED <<checkout, state, policy, finding, attempts, todo, checks, result, runs, base,
                   tested>>

\* The repair budget is spent: the changes are left in place.
GiveUp ==
    /\ Checked
    /\ ~AllPass(checks)
    /\ attempts = MaxAttempts
    /\ \E changed \in Reported : Finish("needs-human", changed)
    /\ UNCHANGED <<checkout, policy, finding, decision, attempts, todo, checks, runs, base,
                   tested>>

\* Anything run() awaits rejects, or the input lacks its feedback.
Fail ==
    /\ state \notin Terminal
    /\ state = "planning" => decision = NoDecision
    /\ Finish("failed", {})
    /\ UNCHANGED <<checkout, policy, finding, decision, attempts, todo, checks, runs, base,
                   tested>>

Proceed ==
    \/ Discover \/ Understand \/ Validate \/ Refuse \/ OutOfScope \/ Execute
    \/ \E f \in File : Write(f)
    \/ Verify \/ Check \/ Review \/ Inspect \/ Replan \/ Redecide \/ GiveUp \/ Fail

Next == NewRun \/ Proceed

SafetySpec == Init /\ [][Next]_vars

\* Every await is bounded by a timeout of the model transport or of the runner.
Spec == SafetySpec /\ WF_vars(Proceed)

-----------------------------------------------------------------------------

TypeOK ==
    /\ checkout \in [File -> Content]
    /\ state \in {"queued", "discovering", "understanding", "validating", "planning",
                  "executing", "verifying", "reviewing"} \union Terminal
    /\ policy \in Policy
    /\ finding \in Finding
    /\ decision \in Decision \union {NoDecision}
    /\ attempts \in 0..MaxAttempts
    /\ todo \in SUBSET File
    /\ checks \in Seq({"pass", "fail"})
    /\ Len(checks) <= policy.checks
    /\ result \in [state : Terminal \union {"none"}, verified : BOOLEAN, changed : SUBSET File]
    /\ runs \in Nat
    /\ base \in [File -> Content]
    /\ tested \in [File -> Content]

\* What the run changed, apart from what its checks may have written.
Rewritten == {f \in File \ policy.artifacts : checkout[f] # base[f]}

\* "Automatic changes require all of the following": a run that changed anything had an accepted,
\* confident finding, a policy and a boundary that let it, and checks to verify with; and it
\* changed only what the first decision's finding cites, whatever the repairs proposed, and what
\* its checks write; agent.maxChangedFiles bounds each attempt, not their sum.
ChangesAuthorized ==
    /\ Cardinality(Rewritten) <= attempts * policy.maxChangedFiles
    /\ \A f \in File :
         checkout[f] # base[f] =>
             /\ policy.mayModify /\ policy.writable /\ policy.isolated /\ policy.checks > 0
             /\ finding.verdict = "accepted" /\ finding.confident
             /\ f \in finding.files \union policy.artifacts

\* What is being written is of a class the policy allows, in every attempt: a repair cannot bring
\* in a riskier change than the one that was authorized first.
RiskGated == state = "executing" => decision.risk \in policy.allowed

\* A verified result is about the checkout as it is, but for what the checks wrote: every check
\* the repository has ran after the last write of the run, and passed.
VerifiedAsTested ==
    result.verified =>
        /\ finding.verdict = "accepted"
        /\ SameSources(checkout, tested)
        /\ Len(checks) = policy.checks
        /\ AllPass(checks)

\* "A failed verification is never presented as success": a run that wrote completes verified or
\* not at all.
CompletedIsVerified == state = "completed" /\ attempts > 0 => result.verified

\* Every emit() and finish() is a transition of the lifecycle machine: InvalidTransitionError is
\* never thrown.
Machine == INSTANCE Lifecycle

ImplementsLifecycle == Machine!Spec

\* A run ends, whatever the model answers and however often the checks fail.
RunEnds == state = "queued" ~> state \in Terminal

\* "Each refusal is a distinct, reportable outcome ..., so the evidence always says why nothing was
\* written": a refused run wrote nothing.
RefusalWroteNothing == [][Refuse => checkout = base]_vars

\* "True only when changes were applied": a verified run changed something.
VerifiedAppliedChange == result.verified => checkout # base

=============================================================================
