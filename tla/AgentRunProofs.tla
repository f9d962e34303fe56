--------------------------- MODULE AgentRunProofs ----------------------------
(***************************************************************************)
(* Theorems about AgentRun for any files, policies, budgets and number of  *)
(* runs, and the proof that it implements Lifecycle.  The invariant says   *)
(* for each lifecycle state what the run has established by then.          *)
(***************************************************************************)
EXTENDS AgentRun, FiniteSetTheorems, TLAPS

\* What authorize() established once for the whole run: all but the risk of the decision.
MayWrite ==
    /\ policy.mayModify /\ policy.writable /\ policy.isolated /\ policy.checks > 0
    /\ finding.verdict = "accepted" /\ finding.confident

\* A run that attempted nothing changed nothing; one that attempted something was allowed to.
AttemptsAllowed ==
    /\ attempts = 0 => checkout = base
    /\ attempts > 0 => MayWrite
    /\ state \in {"queued", "discovering", "understanding", "validating"} => attempts = 0
    /\ state = "validating" => decision # NoDecision
    /\ state = "planning" => finding.verdict = "accepted" /\ (decision = NoDecision => attempts > 0)
    /\ state \in {"executing", "verifying", "reviewing"} => attempts > 0

\* While the run writes, the decision in force passed authorize() and scopeChanges().
WritingGated ==
    state = "executing" =>
        /\ decision \in Decision
        /\ decision.risk \in policy.allowed
        /\ DOMAIN decision.changes \subseteq finding.files
        /\ todo \subseteq DOMAIN decision.changes

\* From the first check of a round on, the checkout is what is being checked.
ChecksCurrent ==
    /\ state \in {"verifying", "reviewing"} => SameSources(checkout, tested)
    /\ state = "reviewing" => Len(checks) = policy.checks /\ AllPass(checks) /\ checks # <<>>

\* A result is there exactly when the run ended, in the state it ended in.
ResultCurrent ==
    /\ state \notin Terminal => result.state = "none" /\ ~result.verified
    /\ state \in Terminal => result.state = state
    /\ result.verified => state = "completed"

\* Outside the files its finding cites and its checks write a run changes nothing.
OnlyCited ==
    \A f \in File : checkout[f] # base[f] => f \in finding.files \union policy.artifacts

IInv ==
    /\ TypeOK
    /\ AttemptsAllowed
    /\ WritingGated
    /\ ChecksCurrent
    /\ ResultCurrent
    /\ OnlyCited
    /\ VerifiedAsTested
    /\ CompletedIsVerified

-----------------------------------------------------------------------------

\* A policy has the fields the run reads.
LEMMA PolicyFields ==
    ASSUME NEW p \in Policy
    PROVE  /\ p.mayModify \in BOOLEAN /\ p.writable \in BOOLEAN /\ p.isolated \in BOOLEAN
           /\ p.checks \in Nat /\ p.allowed \subseteq Risk /\ p.artifacts \subseteq File
           /\ p.maxChangedFiles \in Nat \ {0}
BY AgentAssumption DEF PolicyType

\* NoDecision is none of the decisions a model can make.
LEMMA NoDecisionDiffers == NoDecision \notin Decision
BY DEF NoDecision, Decision, Risk

LEMMA InitIInv == Init => IInv
<1> SUFFICES ASSUME Init PROVE IInv
  OBVIOUS
<1> USE DEF Init, NoFinding
<1>1. TypeOK
  <2>1. policy.checks \in Nat
    BY PolicyFields
  <2>2. checks \in Seq({"pass", "fail"}) /\ Len(checks) = 0
    OBVIOUS
  <2>3. attempts \in 0..MaxAttempts
    BY AgentAssumption
  <2> QED
    BY <2>1, <2>2, <2>3 DEF TypeOK, Finding
<1>2. AttemptsAllowed /\ WritingGated /\ ChecksCurrent /\ OnlyCited
  BY DEF AttemptsAllowed, WritingGated, ChecksCurrent, OnlyCited
<1>3. ResultCurrent /\ VerifiedAsTested /\ CompletedIsVerified
  BY DEF ResultCurrent, VerifiedAsTested, CompletedIsVerified, Terminal
<1> QED
  BY <1>1, <1>2, <1>3 DEF IInv

LEMMA NewRunIInv == IInv /\ NewRun => IInv'
<1> SUFFICES ASSUME IInv, NewRun PROVE IInv'
  OBVIOUS
<1> USE DEF NewRun, NoFinding
<1>1. TypeOK'
  <2>1. policy'.checks \in Nat
    BY PolicyFields
  <2>2. checks' \in Seq({"pass", "fail"}) /\ Len(checks') = 0
    OBVIOUS
  <2>3. attempts' \in 0..MaxAttempts
    BY AgentAssumption
  <2> QED
    BY <2>1, <2>2, <2>3 DEF IInv, TypeOK, Finding
<1>2. AttemptsAllowed' /\ WritingGated' /\ ChecksCurrent' /\ OnlyCited'
  BY DEF AttemptsAllowed, WritingGated, ChecksCurrent, OnlyCited
<1>3. ResultCurrent' /\ VerifiedAsTested' /\ CompletedIsVerified'
  BY DEF ResultCurrent, VerifiedAsTested, CompletedIsVerified, Terminal
<1> QED
  BY <1>1, <1>2, <1>3 DEF IInv

\* Up to the verdict nothing is attempted.
LEMMA EarlyIInv == IInv /\ (Discover \/ Understand \/ Validate) => IInv'
<1> SUFFICES ASSUME IInv, Discover \/ Understand \/ Validate PROVE IInv'
  OBVIOUS
<1> USE DEF IInv
<1>1. /\ attempts = 0 /\ attempts' = 0 /\ checkout = base
      /\ UNCHANGED <<checkout, policy, todo, checks, runs, base, tested>>
  BY DEF Discover, Understand, Validate, AttemptsAllowed
<1>2. CASE Discover
  <2>1. TypeOK'
    BY <1>2 DEF Discover, TypeOK
  <2>2. AttemptsAllowed' /\ WritingGated' /\ ChecksCurrent' /\ OnlyCited'
    BY <1>1, <1>2 DEF Discover, AttemptsAllowed, WritingGated, ChecksCurrent, OnlyCited
  <2>3. ResultCurrent' /\ VerifiedAsTested' /\ CompletedIsVerified'
    BY <1>2 DEF Discover, ResultCurrent, VerifiedAsTested, CompletedIsVerified, Terminal
  <2> QED
    BY <2>1, <2>2, <2>3
<1>3. CASE Understand
  <2>1. TypeOK'
    BY <1>3 DEF Understand, TypeOK, Finding
  <2>2. AttemptsAllowed' /\ WritingGated' /\ ChecksCurrent' /\ OnlyCited'
    BY <1>1, <1>3, NoDecisionDiffers
       DEF Understand, AttemptsAllowed, WritingGated, ChecksCurrent, OnlyCited
  <2>3. ResultCurrent' /\ VerifiedAsTested' /\ CompletedIsVerified'
    BY <1>3 DEF Understand, ResultCurrent, VerifiedAsTested, CompletedIsVerified, Terminal
  <2> QED
    BY <2>1, <2>2, <2>3
<1>4. CASE Validate
  <2>1. PICK verdict \in {"accepted", "rejected", "inconclusive"} :
          /\ finding' = [finding EXCEPT !.verdict = verdict]
          /\ \/ verdict = "accepted" /\ state' = "planning" /\ UNCHANGED result
             \/ verdict = "rejected" /\ Finish("completed", {})
             \/ verdict = "inconclusive" /\ Finish("needs-human", {})
    BY <1>4 DEF Validate
  <2>2. finding' \in Finding /\ finding'.verdict = verdict /\ state = "validating"
        /\ decision' = decision
    BY <2>1, <1>4 DEF TypeOK, Finding, Validate
  <2>3. CASE verdict = "accepted"
    <3>1. state' = "planning" /\ result' = result
      BY <2>1, <2>3
    <3>2. TypeOK'
      BY <1>1, <2>2, <3>1 DEF TypeOK
    <3>3. AttemptsAllowed' /\ WritingGated' /\ ChecksCurrent' /\ OnlyCited'
      BY <1>1, <2>2, <2>3, <3>1
         DEF AttemptsAllowed, WritingGated, ChecksCurrent, OnlyCited
    <3>4. ResultCurrent' /\ VerifiedAsTested' /\ CompletedIsVerified'
      BY <2>2, <3>1 DEF ResultCurrent, VerifiedAsTested, CompletedIsVerified, Terminal
    <3> QED
      BY <3>2, <3>3, <3>4
  <2>4. CASE verdict # "accepted"
    <3>1. PICK s \in {"completed", "needs-human"} : Finish(s, {})
      BY <2>1, <2>4
    <3>2. /\ state' = s
          /\ result' = [state |-> s, verified |-> FALSE, changed |-> {}]
      BY <3>1 DEF Finish
    <3>3. TypeOK'
      BY <1>1, <2>2, <3>2 DEF TypeOK, Terminal
    <3>4. AttemptsAllowed' /\ WritingGated' /\ ChecksCurrent' /\ OnlyCited'
      BY <1>1, <3>2 DEF AttemptsAllowed, WritingGated, ChecksCurrent, OnlyCited
    <3>5. ResultCurrent' /\ VerifiedAsTested' /\ CompletedIsVerified'
      BY <1>1, <3>2 DEF ResultCurrent, VerifiedAsTested, CompletedIsVerified, Terminal
    <3> QED
      BY <3>3, <3>4, <3>5
  <2> QED
    BY <2>3, <2>4
<1> QED
  BY <1>2, <1>3, <1>4

\* A run that ends unverified, after any number of attempts.
LEMMA EndIInv ==
    ASSUME IInv, NEW s \in Terminal, NEW changed \in SUBSET File, Finish(s, changed),
           attempts' \in 0..MaxAttempts,
           attempts' = attempts \/ (attempts' > 0 /\ MayWrite),
           s = "completed" => attempts' = 0 /\ changed = {},
           UNCHANGED <<checkout, policy, finding, decision, todo, checks, runs, base, tested>>
    PROVE  IInv'
<1> USE DEF IInv
<1>1. /\ state' = s
      /\ result' = [state |-> s, verified |-> FALSE, changed |-> changed]
  <2>1. ~(s = "completed" /\ changed # {} /\ allChecksPassed(checks))
    OBVIOUS
  <2> QED
    BY <2>1 DEF Finish
<1>2. TypeOK'
  BY <1>1 DEF TypeOK
<1>3. attempts \in Nat /\ attempts' \in Nat
  BY AgentAssumption DEF TypeOK
<1>4. AttemptsAllowed'
  <2>1. attempts' = 0 => checkout' = base'
    BY <1>3 DEF AttemptsAllowed
  <2>2. attempts' > 0 => MayWrite'
    BY <1>3 DEF AttemptsAllowed, MayWrite
  <2> QED
    BY <1>1, <2>1, <2>2 DEF AttemptsAllowed, Terminal
<1>5. WritingGated' /\ ChecksCurrent' /\ OnlyCited'
  BY <1>1 DEF WritingGated, ChecksCurrent, OnlyCited, Terminal
<1>6. ResultCurrent' /\ VerifiedAsTested' /\ CompletedIsVerified'
  BY <1>1, <1>3 DEF ResultCurrent, VerifiedAsTested, CompletedIsVerified, Terminal
<1> QED
  BY <1>2, <1>4, <1>5, <1>6

LEMMA UnverifiedEndIInv == IInv /\ (Refuse \/ OutOfScope \/ GiveUp \/ Fail) => IInv'
<1> SUFFICES ASSUME IInv, Refuse \/ OutOfScope \/ GiveUp \/ Fail PROVE IInv'
  OBVIOUS
<1>1. attempts \in 0..MaxAttempts /\ Reported \subseteq SUBSET File
  BY DEF IInv, TypeOK, Reported, Dirty
<1>2. CASE Refuse
  <2>1. ~policy.mayModify => attempts = 0
    BY <1>1, AgentAssumption DEF IInv, AttemptsAllowed, MayWrite
  <2> QED
    BY <1>1, <1>2, <2>1, EndIInv DEF Refuse, Terminal
<1>3. CASE OutOfScope
  <2>1. MayWrite
    BY <1>3 DEF OutOfScope, Authorized, MayWrite, IInv, AttemptsAllowed
  <2>2. attempts' \in 0..MaxAttempts /\ attempts' > 0
    BY <1>1, <1>3, AgentAssumption DEF OutOfScope, FirstOr
  <2> QED
    BY <1>1, <1>3, <2>1, <2>2, EndIInv DEF OutOfScope, Terminal
<1>4. CASE GiveUp
  BY <1>1, <1>4, EndIInv DEF GiveUp, Terminal
<1>5. CASE Fail
  BY <1>1, <1>5, EndIInv DEF Fail, Terminal
<1> QED
  BY <1>2, <1>3, <1>4, <1>5

\* The steps of an attempt end nothing.
LEMMA NoResultYet ==
    ASSUME IInv, state \notin Terminal, state' \notin Terminal, UNCHANGED result
    PROVE  ResultCurrent' /\ VerifiedAsTested' /\ CompletedIsVerified'
BY DEF IInv, ResultCurrent, VerifiedAsTested, CompletedIsVerified, Terminal

LEMMA ExecuteIInv == IInv /\ Execute => IInv'
<1> SUFFICES ASSUME IInv, Execute PROVE IInv'
  OBVIOUS
<1> USE DEF IInv
<1>1. decision \in Decision /\ DOMAIN decision.changes \subseteq finding.files
      /\ finding.files \subseteq File
  BY DEF Execute, TypeOK, InScope, Finding
<1>2. MayWrite
  BY DEF Execute, Authorized, MayWrite, AttemptsAllowed
<1>3. attempts' \in 0..MaxAttempts /\ attempts' > 0
  BY AgentAssumption DEF Execute, FirstOr, TypeOK
<1>4. TypeOK'
  BY <1>1, <1>3 DEF Execute, TypeOK
<1>5. AttemptsAllowed'
  BY <1>2, <1>3 DEF Execute, AttemptsAllowed, MayWrite
<1>6. WritingGated' /\ ChecksCurrent' /\ OnlyCited'
  BY <1>1 DEF Execute, Authorized, WritingGated, ChecksCurrent, OnlyCited
<1>7. ResultCurrent' /\ VerifiedAsTested' /\ CompletedIsVerified'
  BY NoResultYet DEF Execute, Terminal
<1> QED
  BY <1>4, <1>5, <1>6, <1>7

LEMMA WriteIInv ==
    ASSUME IInv, NEW f \in File, Write(f)
    PROVE  IInv'
<1> USE DEF IInv
<1>1. f \in DOMAIN decision.changes /\ f \in finding.files /\ decision \in Decision
  BY DEF Write, WritingGated
<1>2. decision.changes[f] \in Content
  BY <1>1 DEF Decision, Changes
<1>3. TypeOK'
  BY <1>2 DEF Write, TypeOK
<1>4. attempts > 0 /\ attempts \in Nat
  BY AgentAssumption DEF Write, AttemptsAllowed, TypeOK
<1>5. AttemptsAllowed'
  BY <1>4 DEF Write, AttemptsAllowed, MayWrite
<1>6. WritingGated' /\ ChecksCurrent'
  BY DEF Write, WritingGated, ChecksCurrent
<1>7. OnlyCited'
  BY <1>1 DEF Write, OnlyCited, TypeOK
<1>8. ResultCurrent' /\ VerifiedAsTested' /\ CompletedIsVerified'
  BY NoResultYet DEF Write, Terminal
<1> QED
  BY <1>3, <1>5, <1>6, <1>7, <1>8

LEMMA CheckIInv == IInv /\ (Verify \/ Check \/ Review) => IInv'
<1> SUFFICES ASSUME IInv, Verify \/ Check \/ Review PROVE IInv'
  OBVIOUS
<1> USE DEF IInv
<1>1. policy.checks \in Nat
  BY PolicyFields DEF TypeOK
<1>2. attempts > 0 /\ attempts \in Nat
  BY AgentAssumption DEF Verify, Check, Review, Checked, AttemptsAllowed, TypeOK
<1>3. CASE Verify
  <2>1. checks' \in Seq({"pass", "fail"}) /\ Len(checks') <= policy'.checks
    BY <1>1, <1>3 DEF Verify
  <2>2. TypeOK'
    BY <1>3, <2>1 DEF Verify, TypeOK
  <2>3. AttemptsAllowed' /\ WritingGated' /\ ChecksCurrent' /\ OnlyCited'
    BY <1>2, <1>3 DEF Verify, AttemptsAllowed, MayWrite, WritingGated, ChecksCurrent, OnlyCited,
                      SameSources
  <2>4. ResultCurrent' /\ VerifiedAsTested' /\ CompletedIsVerified'
    BY <1>3, NoResultYet DEF Verify, Terminal
  <2> QED
    BY <2>2, <2>3, <2>4
<1>4. CASE Check
  <2>1. checks' \in Seq({"pass", "fail"}) /\ Len(checks') <= policy'.checks
    BY <1>1, <1>4 DEF Check, TypeOK
  <2>2. checkout' \in [File -> Content] /\ SameSources(checkout', checkout)
    BY <1>4 DEF Check
  <2>3. TypeOK'
    BY <1>4, <2>1, <2>2 DEF Check, TypeOK
  <2>4. AttemptsAllowed' /\ WritingGated'
    BY <1>2, <1>4 DEF Check, AttemptsAllowed, MayWrite, WritingGated
  <2>5. ChecksCurrent' /\ OnlyCited'
    BY <1>4, <2>2 DEF Check, ChecksCurrent, OnlyCited, SameSources
  <2>6. ResultCurrent' /\ VerifiedAsTested' /\ CompletedIsVerified'
    BY <1>4, NoResultYet DEF Check, Terminal
  <2> QED
    BY <2>3, <2>4, <2>5, <2>6
<1>5. CASE Review
  <2>1. TypeOK'
    BY <1>5 DEF Review, TypeOK
  <2>2. AttemptsAllowed' /\ WritingGated' /\ OnlyCited'
    BY <1>2, <1>5 DEF Review, Checked, AttemptsAllowed, MayWrite, WritingGated, OnlyCited
  <2>3. policy.checks > 0
    BY <1>2 DEF AttemptsAllowed, MayWrite
  <2>4. checks # <<>>
    BY <1>1, <1>5, <2>3 DEF Review, Checked
  <2>5. ChecksCurrent'
    BY <1>5, <2>4 DEF Review, Checked, ChecksCurrent, AllPass, SameSources
  <2>6. ResultCurrent' /\ VerifiedAsTested' /\ CompletedIsVerified'
    BY <1>5, NoResultYet DEF Review, Checked, Terminal
  <2> QED
    BY <2>1, <2>2, <2>5, <2>6
<1> QED
  BY <1>3, <1>4, <1>5

LEMMA InspectIInv == IInv /\ Inspect => IInv'
<1> SUFFICES ASSUME IInv, Inspect PROVE IInv'
  OBVIOUS
<1> USE DEF IInv
<1>1. attempts > 0 /\ attempts \in 0..MaxAttempts /\ MayWrite
  BY AgentAssumption DEF Inspect, AttemptsAllowed, TypeOK
<1>2. PICK changed \in Reported :
        Finish(IF changed = {} THEN "needs-human" ELSE "completed", changed)
  BY DEF Inspect
<1>3. changed \in SUBSET File
  BY DEF Reported, Dirty
<1>4. CASE changed = {}
  <2>1. Finish("needs-human", changed)
    BY <1>2, <1>4
  <2> QED
    BY <1>1, <1>3, <2>1, EndIInv DEF Inspect, Terminal
<1>5. CASE changed # {}
  <2>1. /\ state' = "completed"
        /\ result' = [state |-> "completed", verified |-> TRUE, changed |-> changed]
    BY <1>2, <1>5 DEF Inspect, Finish, ChecksCurrent, allChecksPassed
  <2>2. TypeOK'
    BY <1>3, <2>1 DEF Inspect, TypeOK, Terminal
  <2>3. AttemptsAllowed' /\ WritingGated' /\ ChecksCurrent' /\ OnlyCited'
    BY <1>1, <2>1
       DEF Inspect, AttemptsAllowed, MayWrite, WritingGated, ChecksCurrent, OnlyCited
  <2>4. ResultCurrent' /\ VerifiedAsTested' /\ CompletedIsVerified'
    BY <1>1, <2>1 DEF Inspect, ResultCurrent, VerifiedAsTested, CompletedIsVerified, Terminal,
                      ChecksCurrent, MayWrite, AllPass, SameSources
  <2> QED
    BY <2>2, <2>3, <2>4
<1> QED
  BY <1>4, <1>5

LEMMA RepairIInv == IInv /\ (Replan \/ Redecide) => IInv'
<1> SUFFICES ASSUME IInv, Replan \/ Redecide PROVE IInv'
  OBVIOUS
<1> USE DEF IInv
<1>1. attempts \in Nat /\ attempts > 0 /\ MayWrite
  BY AgentAssumption DEF Replan, Redecide, Checked, AttemptsAllowed, TypeOK
<1>2. attempts' \in 0..MaxAttempts /\ attempts' > 0
  BY <1>1, AgentAssumption DEF Replan, Redecide, TypeOK
<1>3. TypeOK'
  BY <1>2 DEF Replan, Redecide, TypeOK
<1>4. AttemptsAllowed'
  BY <1>1, <1>2 DEF Replan, Redecide, AttemptsAllowed, MayWrite
<1>5. WritingGated' /\ ChecksCurrent' /\ OnlyCited'
  BY DEF Replan, Redecide, WritingGated, ChecksCurrent, OnlyCited
<1>6. ResultCurrent' /\ VerifiedAsTested' /\ CompletedIsVerified'
  BY NoResultYet DEF Replan, Redecide, Checked, Terminal
<1> QED
  BY <1>3, <1>4, <1>5, <1>6

LEMMA NextIInv == IInv /\ [Next]_vars => IInv'
<1> SUFFICES ASSUME IInv, [Next]_vars PROVE IInv'
  OBVIOUS
<1>1. CASE Next
  BY <1>1, NewRunIInv, EarlyIInv, UnverifiedEndIInv, ExecuteIInv, WriteIInv, CheckIInv,
     InspectIInv, RepairIInv DEF Next, Proceed
<1>2. CASE UNCHANGED vars
  BY <1>2 DEF vars, IInv, TypeOK, AttemptsAllowed, MayWrite, WritingGated, ChecksCurrent,
              ResultCurrent, OnlyCited, VerifiedAsTested, CompletedIsVerified, AllPass,
              SameSources
<1> QED
  BY <1>1, <1>2

-----------------------------------------------------------------------------

\* The inductive invariant holds in every reachable state.
THEOREM RunInvariant == Spec => []IInv
BY InitIInv, NextIInv, PTL DEF Spec, SafetySpec

\* Type correctness.
THEOREM TypeCorrect == Spec => []TypeOK
<1>1. IInv => TypeOK
  BY DEF IInv
<1> QED
  BY <1>1, RunInvariant, PTL

\* How many files a run may have rewritten so far: every attempt adds agent.maxChangedFiles at
\* most, and the one being planned has added nothing yet.
EachAttemptNarrow ==
    LET limit == policy.maxChangedFiles
    IN  /\ state = "planning" => Cardinality(Rewritten) + limit <= FirstOr(attempts) * limit
        /\ state = "executing" => Cardinality(Rewritten \union todo) <= attempts * limit
        /\ state \notin {"planning", "executing"} => Cardinality(Rewritten) <= attempts * limit

\* The files of the checkout can be counted.
LEMMA FileCounts ==
    /\ \A S \in SUBSET File : IsFiniteSet(S) /\ Cardinality(S) \in Nat
    /\ \A S, T \in SUBSET File : S \subseteq T => Cardinality(S) <= Cardinality(T)
    /\ \A S, T \in SUBSET File : Cardinality(S \union T) <= Cardinality(S) + Cardinality(T)
<1>1. \A S \in SUBSET File : IsFiniteSet(S) /\ Cardinality(S) \in Nat
  BY AgentAssumption, FS_Subset, FS_CardinalityType
<1>2. \A S, T \in SUBSET File : S \subseteq T => Cardinality(S) <= Cardinality(T)
  BY <1>1, FS_Subset
<1>3. ASSUME NEW S \in SUBSET File, NEW T \in SUBSET File
      PROVE  Cardinality(S \union T) <= Cardinality(S) + Cardinality(T)
  <2>1. /\ Cardinality(S) \in Nat /\ Cardinality(T) \in Nat /\ Cardinality(S \cap T) \in Nat
        /\ Cardinality(S \union T) = Cardinality(S) + Cardinality(T) - Cardinality(S \cap T)
    BY <1>1, FS_Union
  <2> QED
    BY <2>1
<1> QED
  BY <1>1, <1>2, <1>3

\* The numbers of one step.
LEMMA NarrowBudget ==
    ASSUME NEW a \in Nat, NEW limit \in Nat \ {0}
    PROVE  /\ a * limit \in Nat /\ FirstOr(a) * limit \in Nat
           /\ (a + 1) * limit = a * limit + limit
           /\ a > 0 => FirstOr(a) = a
           /\ FirstOr(a) > 0 /\ FirstOr(a) \in Nat
           /\ a = 0 => a * limit = 0 /\ FirstOr(a) * limit = limit
           /\ a * limit <= FirstOr(a) * limit
<1>1. /\ a * limit \in Nat /\ (a + 1) * limit = a * limit + limit
      /\ a = 0 => a * limit = 0 /\ 1 * limit = limit
  OBVIOUS
<1>2. CASE a = 0
  BY <1>1, <1>2 DEF FirstOr
<1>3. CASE a > 0
  <2>1. FirstOr(a) = a
    BY <1>3 DEF FirstOr
  <2> QED
    BY <1>1, <1>3, <2>1
<1> QED
  BY <1>2, <1>3

\* A run that attempted nothing rewrote nothing.
LEMMA NarrowAtFirst == IInv /\ attempts = 0 => EachAttemptNarrow
<1> SUFFICES ASSUME IInv, attempts = 0 PROVE EachAttemptNarrow
  OBVIOUS
<1>1. Rewritten = {} /\ state # "executing"
  BY DEF IInv, AttemptsAllowed, Rewritten
<1>2. policy.maxChangedFiles \in Nat \ {0}
  BY PolicyFields DEF IInv, TypeOK
<1>3. Cardinality(Rewritten) = 0
  BY <1>1, FS_EmptySet
<1> QED
  BY <1>1, <1>2, <1>3, NarrowBudget DEF EachAttemptNarrow

\* The files that one attempt is about to write.
LEMMA ExecuteNarrow ==
    ASSUME IInv, EachAttemptNarrow, Execute
    PROVE  EachAttemptNarrow'
<1> DEFINE limit == policy.maxChangedFiles
           new == DOMAIN decision.changes
<1>1. /\ limit \in Nat \ {0} /\ attempts \in Nat /\ decision \in Decision
      /\ Rewritten \in SUBSET File
  BY PolicyFields, AgentAssumption DEF IInv, TypeOK, Execute, Rewritten
<1>2. new \in SUBSET File /\ decision.repeats \in Nat
  BY <1>1, AgentAssumption DEF Decision, Changes
<1>3. Cardinality(new) <= limit
  <2>1. Cardinality(new) + decision.repeats <= limit
    BY <1>1, <1>2, FileCounts DEF Execute, InScope, Length
  <2>2. Cardinality(new) \in Nat
    BY <1>2, FileCounts
  <2> QED
    BY <1>1, <1>2, <2>1, <2>2
<1>4. /\ state = "planning" /\ state' = "executing" /\ todo' = new
      /\ attempts' = FirstOr(attempts) /\ Rewritten' = Rewritten /\ policy' = policy
  BY DEF Execute, Rewritten
<1>5. Cardinality(Rewritten) + limit <= FirstOr(attempts) * limit
  BY <1>4 DEF EachAttemptNarrow
<1>6. /\ Cardinality(Rewritten) \in Nat /\ Cardinality(new) \in Nat
      /\ Cardinality(Rewritten \union new) \in Nat
      /\ Cardinality(Rewritten \union new) <= Cardinality(Rewritten) + Cardinality(new)
  BY <1>1, <1>2, FileCounts
<1>7. FirstOr(attempts) * limit \in Nat
  BY <1>1, NarrowBudget
<1> HIDE DEF limit, new
<1>8. Cardinality(Rewritten \union new) <= FirstOr(attempts) * limit
  BY <1>1, <1>3, <1>5, <1>6, <1>7
<1> QED
  BY <1>4, <1>8 DEF EachAttemptNarrow, limit

LEMMA NextNarrow == IInv /\ IInv' /\ EachAttemptNarrow /\ [Next]_vars => EachAttemptNarrow'
<1> SUFFICES ASSUME IInv, IInv', EachAttemptNarrow, [Next]_vars PROVE EachAttemptNarrow'
  OBVIOUS
<1> DEFINE limit == policy.maxChangedFiles
<1>0. /\ limit \in Nat \ {0} /\ attempts \in Nat /\ attempts' \in Nat
      /\ todo \in SUBSET File /\ todo' \in SUBSET File
      /\ Rewritten \in SUBSET File /\ Rewritten' \in SUBSET File
  BY PolicyFields, AgentAssumption DEF IInv, TypeOK, Rewritten
<1>1. CASE attempts' = 0
  <2>1. (IInv /\ attempts = 0 => EachAttemptNarrow)'
    BY NarrowAtFirst, PTL
  <2> QED
    BY <1>1, <2>1
<1>2. CASE NewRun \/ Discover \/ Understand \/ Validate
  <2>1. attempts' = 0
    BY <1>2 DEF NewRun, Discover, Understand, Validate, IInv, AttemptsAllowed
  <2> QED
    BY <1>1, <2>1
<1>3. CASE Execute
  BY <1>3, ExecuteNarrow
<1>4. CASE \E f \in File : Write(f)
  <2>1. /\ state = "executing" /\ state' = "executing" /\ UNCHANGED <<policy, attempts>>
        /\ Rewritten' \union todo' \subseteq Rewritten \union todo
    BY <1>4 DEF Write, Rewritten, IInv, TypeOK
  <2>2. Cardinality(Rewritten' \union todo') <= Cardinality(Rewritten \union todo)
    BY <1>0, <2>1, FileCounts
  <2>3. Cardinality(Rewritten \union todo) <= attempts * limit
    BY <2>1 DEF EachAttemptNarrow
  <2>4. /\ Cardinality(Rewritten' \union todo') \in Nat /\ Cardinality(Rewritten \union todo) \in Nat
        /\ attempts * limit \in Nat
    BY <1>0, FileCounts, NarrowBudget
  <2> HIDE DEF limit
  <2>5. Cardinality(Rewritten' \union todo') <= attempts * limit
    BY <2>2, <2>3, <2>4
  <2> QED
    BY <2>1, <2>5 DEF EachAttemptNarrow, limit
<1>5. Cardinality(Rewritten) <= FirstOr(attempts) * limit
  <2>1. /\ Cardinality(Rewritten) \in Nat /\ Cardinality(Rewritten \union todo) \in Nat
        /\ Cardinality(Rewritten) <= Cardinality(Rewritten \union todo)
    BY <1>0, FileCounts
  <2>2. /\ attempts * limit \in Nat /\ FirstOr(attempts) * limit \in Nat
        /\ attempts * limit <= FirstOr(attempts) * limit
    BY <1>0, NarrowBudget
  <2>3. \/ Cardinality(Rewritten) + limit <= FirstOr(attempts) * limit
        \/ Cardinality(Rewritten \union todo) <= attempts * limit
        \/ Cardinality(Rewritten) <= attempts * limit
    BY DEF EachAttemptNarrow
  <2> HIDE DEF limit
  <2> QED
    BY <1>0, <2>1, <2>2, <2>3
<1>6. CASE Refuse \/ OutOfScope \/ GiveUp \/ Fail \/ Verify \/ Review \/ Inspect
  <2>1. /\ state' \notin {"planning", "executing"} /\ Rewritten' = Rewritten /\ policy' = policy
        /\ attempts' \in {attempts, FirstOr(attempts)}
    BY <1>6 DEF Refuse, OutOfScope, GiveUp, Fail, Verify, Review, Inspect, Finish, Rewritten
  <2>2. attempts' # 0 => attempts' = FirstOr(attempts)
    BY <1>0, <2>1 DEF FirstOr
  <2>3. attempts' # 0 => Cardinality(Rewritten') <= attempts' * limit
    BY <1>5, <2>1, <2>2
  <2> QED
    BY <1>1, <2>1, <2>3 DEF EachAttemptNarrow
<1>7. CASE Check
  <2>1. /\ state = "verifying" /\ state' = state /\ policy' = policy /\ attempts' = attempts
        /\ Rewritten' = Rewritten
    BY <1>7 DEF Check, SameSources, Rewritten
  <2> QED
    BY <2>1 DEF EachAttemptNarrow
<1>8. CASE Replan
  <2>1. /\ state = "verifying" /\ state' = "planning" /\ policy' = policy
        /\ attempts' = attempts + 1 /\ Rewritten' = Rewritten
    BY <1>8 DEF Replan, Checked, Rewritten
  <2>2. Cardinality(Rewritten) <= attempts * limit /\ Cardinality(Rewritten) \in Nat
    BY <1>0, <2>1, FileCounts DEF EachAttemptNarrow
  <2>3. attempts * limit \in Nat /\ (attempts + 1) * limit = attempts * limit + limit
    BY <1>0, NarrowBudget
  <2>4. FirstOr(attempts') = attempts + 1
    BY <1>0, <2>1 DEF FirstOr
  <2> HIDE DEF limit
  <2>5. Cardinality(Rewritten) + limit <= (attempts + 1) * limit
    BY <1>0, <2>2, <2>3
  <2> QED
    BY <2>1, <2>4, <2>5 DEF EachAttemptNarrow, limit
<1>9. CASE Redecide \/ UNCHANGED vars
  <2>1. /\ state' = state /\ policy' = policy /\ attempts' = attempts /\ todo' = todo
        /\ Rewritten' = Rewritten
    BY <1>9 DEF Redecide, vars, Rewritten
  <2> QED
    BY <2>1 DEF EachAttemptNarrow
<1> QED
  BY <1>2, <1>3, <1>4, <1>6, <1>7, <1>8, <1>9 DEF Next, Proceed

\* No run, however many repairs it makes, rewrites more files than its attempts allow together.
LEMMA AttemptsAreNarrow == Spec => []EachAttemptNarrow
<1>1. Init => EachAttemptNarrow
  <2> SUFFICES ASSUME Init PROVE EachAttemptNarrow
    OBVIOUS
  <2>1. attempts = 0
    BY DEF Init
  <2> QED
    BY <2>1, InitIInv, NarrowAtFirst
<1> QED
  BY <1>1, NextNarrow, RunInvariant, PTL DEF Spec, SafetySpec

\* What a run changed it was allowed to change, for every policy and every number of repairs: only
\* cited files, and no more of them than agent.maxChangedFiles for each attempt (scopeChanges()).
THEOREM OnlyAuthorizedChanges == Spec => []ChangesAuthorized
<1>1. ASSUME IInv, NEW f \in File, checkout[f] # base[f]
      PROVE  MayWrite /\ f \in finding.files \union policy.artifacts
  <2>1. attempts > 0
    BY <1>1, AgentAssumption DEF IInv, AttemptsAllowed, TypeOK
  <2> QED
    BY <1>1, <2>1 DEF IInv, AttemptsAllowed, OnlyCited
<1>2. ASSUME IInv, EachAttemptNarrow
      PROVE  Cardinality(Rewritten) <= attempts * policy.maxChangedFiles
  <2> DEFINE limit == policy.maxChangedFiles
  <2>1. /\ limit \in Nat \ {0} /\ attempts \in Nat
        /\ todo \in SUBSET File /\ Rewritten \in SUBSET File
    BY <1>2, PolicyFields, AgentAssumption DEF IInv, TypeOK, Rewritten
  <2>2. /\ Cardinality(Rewritten) \in Nat /\ Cardinality(Rewritten \union todo) \in Nat
        /\ Cardinality(Rewritten) <= Cardinality(Rewritten \union todo)
    BY <2>1, FileCounts
  <2>3. CASE attempts = 0
    <3>1. Rewritten = {}
      BY <1>2, <2>3 DEF IInv, AttemptsAllowed, Rewritten
    <3> QED
      BY <2>1, <2>3, <3>1, FS_EmptySet
  <2>4. CASE attempts > 0
    <3>1. FirstOr(attempts) = attempts /\ attempts * limit \in Nat
      BY <2>1, <2>4, NarrowBudget
    <3>2. \/ Cardinality(Rewritten) + limit <= attempts * limit
          \/ Cardinality(Rewritten \union todo) <= attempts * limit
          \/ Cardinality(Rewritten) <= attempts * limit
      BY <1>2, <3>1 DEF EachAttemptNarrow
    <3> HIDE DEF limit
    <3>3. Cardinality(Rewritten) <= attempts * limit
      BY <2>1, <2>2, <3>1, <3>2
    <3> QED
      BY <3>3 DEF limit
  <2> QED
    BY <2>1, <2>3, <2>4
<1>3. IInv /\ EachAttemptNarrow => ChangesAuthorized
  BY <1>1, <1>2 DEF ChangesAuthorized, MayWrite
<1> QED
  BY <1>3, RunInvariant, AttemptsAreNarrow, PTL

\* No attempt writes a change of a class the policy does not allow (authorize()).
THEOREM RiskAlwaysGated == Spec => []RiskGated
<1>1. IInv => RiskGated
  BY DEF IInv, WritingGated, RiskGated
<1> QED
  BY <1>1, RunInvariant, PTL

\* A verified result speaks of the checkout as the checks saw it (finish()).
THEOREM VerifiedIsTested == Spec => []VerifiedAsTested
<1>1. IInv => VerifiedAsTested
  BY DEF IInv
<1> QED
  BY <1>1, RunInvariant, PTL

\* A run that attempted a fix completes verified or not at all.
THEOREM CompletionIsEarned == Spec => []CompletedIsVerified
<1>1. IInv => CompletedIsVerified
  BY DEF IInv
<1> QED
  BY <1>1, RunInvariant, PTL

\* The run implements the lifecycle machine: no emit() or finish() asks for an undefined move.
THEOREM RunFollowsLifecycle == Spec => ImplementsLifecycle
<1> USE DEF Machine!canTransition, Machine!allowedTransitions, Machine!TaskState,
            Machine!terminalStates, Machine!To
<1>1. Init => Machine!Init
  BY DEF Init, Machine!Init
<1>2. IInv /\ [Next]_vars => [Machine!Next]_state
  <2> SUFFICES ASSUME IInv, [Next]_vars PROVE [Machine!Next]_state
    OBVIOUS
  <2>1. CASE UNCHANGED vars
    BY <2>1 DEF vars
  <2>2. CASE NewRun
    BY <2>2 DEF NewRun, Terminal, Machine!Next, Machine!Construct
  <2>3. CASE Discover \/ Understand
    BY <2>3 DEF Discover, Understand, Machine!Next
  <2>4. CASE Validate
    BY <2>4 DEF Validate, Finish, Machine!Next
  <2>5. CASE Refuse \/ OutOfScope \/ Execute
    BY <2>5 DEF Refuse, OutOfScope, Execute, Finish, Machine!Next
  <2>6. CASE Verify \/ Review \/ Inspect
    BY <2>6 DEF Verify, Review, Inspect, Checked, Finish, Machine!Next
  <2>7. CASE Replan \/ GiveUp
    BY <2>7 DEF Replan, GiveUp, Checked, Finish, Machine!Next
  <2>8. CASE Fail
    <3>1. state \in Machine!TaskState \ Terminal
      BY <2>8 DEF Fail, IInv, TypeOK, Terminal
    <3> QED
      BY <2>8, <3>1 DEF Fail, Finish, Terminal, Machine!Next
  <2>9. CASE Check \/ Redecide \/ \E f \in File : Write(f)
    BY <2>9 DEF Check, Redecide, Write
  <2> QED
    BY <2>1, <2>2, <2>3, <2>4, <2>5, <2>6, <2>7, <2>8, <2>9 DEF Next, Proceed
<1> QED
  BY <1>1, <1>2, RunInvariant, PTL DEF Spec, SafetySpec, ImplementsLifecycle, Machine!Spec

-----------------------------------------------------------------------------

\* How many steps a run has left: what one attempt can take, times the repairs the budget still
\* allows, and what is left of the attempt the run is in.
AttemptSteps == 4 + policy.checks + Cardinality(File)

RepairsLeft == MaxAttempts - FirstOr(attempts)

StateSteps ==
    CASE state \in Terminal -> 0
      [] state = "reviewing" -> 1
      [] state = "verifying" -> 2 + policy.checks - Len(checks)
      [] state = "executing" -> 3 + policy.checks + Cardinality(todo)
      [] state = "planning" -> AttemptSteps + (IF decision = NoDecision THEN 1 ELSE 0)
      [] state = "validating" -> AttemptSteps + 1
      [] state = "understanding" -> AttemptSteps + 2
      [] state = "discovering" -> AttemptSteps + 3
      [] state = "queued" -> AttemptSteps + 4

StepsLeft == RepairsLeft * AttemptSteps + StateSteps

\* The lines of run() a run can execute at most, counted in the steps of this module.
StepBound == MaxAttempts * AttemptSteps + 4

\* A run has a budget of steps that only the files, the checks and maxAttempts determine, and the
\* loop of run() never goes round without spending from it.
RunBounded == StepsLeft \in 0..StepBound

RunAdvances == [][NewRun \/ StepsLeft' < StepsLeft]_vars

\* The sizes that StepsLeft counts with.
Sizes ==
    /\ policy.checks \in Nat
    /\ Cardinality(File) \in Nat
    /\ Len(checks) \in 0..policy.checks
    /\ IsFiniteSet(todo)
    /\ Cardinality(todo) \in 0..Cardinality(File)
    /\ AttemptSteps \in Nat
    /\ AttemptSteps = 4 + policy.checks + Cardinality(File)
    /\ attempts \in 0..MaxAttempts
    /\ RepairsLeft \in 0..(MaxAttempts - 1)

LEMMA SizesRight == IInv => Sizes
<1> SUFFICES ASSUME IInv PROVE Sizes
  OBVIOUS
<1>1. policy.checks \in Nat /\ Len(checks) \in 0..policy.checks
  BY PolicyFields DEF IInv, TypeOK
<1>2. Cardinality(File) \in Nat
  BY FS_CardinalityType, AgentAssumption
<1>3. IsFiniteSet(todo) /\ Cardinality(todo) <= Cardinality(File)
  BY FS_Subset, AgentAssumption DEF IInv, TypeOK
<1>4. Cardinality(todo) \in Nat
  BY <1>3, FS_CardinalityType
<1>5. attempts \in 0..MaxAttempts /\ RepairsLeft \in 0..(MaxAttempts - 1)
  BY AgentAssumption DEF IInv, TypeOK, RepairsLeft, FirstOr
<1> QED
  BY <1>1, <1>2, <1>3, <1>4, <1>5 DEF Sizes, AttemptSteps

\* Each state's share of the budget; a run that has not ended has a step left, and never more than
\* a whole attempt and the way to it.
Shares ==
    /\ state \in Terminal => StateSteps = 0
    /\ state = "reviewing" => StateSteps = 1
    /\ state = "verifying" => StateSteps = 2 + policy.checks - Len(checks)
    /\ state = "executing" => StateSteps = 3 + policy.checks + Cardinality(todo)
    /\ state = "planning" =>
         StateSteps = AttemptSteps + (IF decision = NoDecision THEN 1 ELSE 0)
    /\ state = "validating" => StateSteps = AttemptSteps + 1
    /\ state = "understanding" => StateSteps = AttemptSteps + 2
    /\ state = "discovering" => StateSteps = AttemptSteps + 3
    /\ state = "queued" => StateSteps = AttemptSteps + 4
    /\ StateSteps \in 0..(AttemptSteps + 4)
    /\ state \notin Terminal => StateSteps > 0

LEMMA SharesRight == IInv => Shares
<1> SUFFICES ASSUME IInv PROVE Shares
  OBVIOUS
<1> USE SizesRight DEF Sizes
<1>1. state \in {"queued", "discovering", "understanding", "validating", "planning",
                 "executing", "verifying", "reviewing"} \union Terminal
  BY DEF IInv, TypeOK
<1>2. CASE state \in Terminal
  <2>1. StateSteps = 0
    BY <1>2 DEF StateSteps, Terminal
  <2> QED
    BY <1>2, <2>1 DEF Shares, Terminal
<1>3. CASE state = "reviewing"
  BY <1>3 DEF Shares, StateSteps, Terminal
<1>4. CASE state = "verifying"
  BY <1>4 DEF Shares, StateSteps, Terminal
<1>5. CASE state = "executing"
  BY <1>5 DEF Shares, StateSteps, Terminal
<1>6. CASE state = "planning"
  <2>1. StateSteps = AttemptSteps + (IF decision = NoDecision THEN 1 ELSE 0)
    BY <1>6 DEF StateSteps, Terminal
  <2> QED
    BY <1>6, <2>1 DEF Shares, Terminal
<1>7. CASE state = "validating"
  BY <1>7 DEF Shares, StateSteps, Terminal
<1>8. CASE state = "understanding"
  BY <1>8 DEF Shares, StateSteps, Terminal
<1>9. CASE state = "discovering"
  BY <1>9 DEF Shares, StateSteps, Terminal
<1>10. CASE state = "queued"
  BY <1>10 DEF Shares, StateSteps, Terminal
<1> QED
  BY <1>1, <1>2, <1>3, <1>4, <1>5, <1>6, <1>7, <1>8, <1>9, <1>10

\* Both hold after a step as they do before it.
LEMMA NextSizes == IInv' => Sizes' /\ Shares'
BY SizesRight, SharesRight, PTL

\* What n repairs cost.
LEMMA Budget ==
    ASSUME NEW n \in Nat, NEW a \in Nat
    PROVE  /\ n * a \in Nat
           /\ n > 0 => (n - 1) * a = n * a - a
OBVIOUS

\* A smaller share leaves less of the budget, also when a repair was taken from it.
LEMMA SmallerSum ==
    \A b, a, s, t \in Nat :
        /\ t < s => b + t < b + s
        /\ t < s + a => b - a + t < b + s
OBVIOUS

\* The budget of a run counts down within an attempt, and a repair costs a whole attempt.
LEMMA Spent ==
    ASSUME IInv, IInv', AttemptSteps' = AttemptSteps,
           \/ RepairsLeft' = RepairsLeft /\ StateSteps' < StateSteps
           \/ /\ RepairsLeft' = RepairsLeft - 1
              /\ StateSteps' < StateSteps + AttemptSteps
    PROVE  StepsLeft' < StepsLeft
<1>1. MaxAttempts \in Nat
  BY AgentAssumption
<1>2. Sizes /\ Shares /\ Sizes' /\ Shares'
  BY SizesRight, SharesRight, NextSizes
<1>3. /\ AttemptSteps \in Nat /\ RepairsLeft \in Nat /\ RepairsLeft' \in Nat
      /\ StateSteps \in Nat /\ StateSteps' \in Nat
  BY <1>1, <1>2 DEF Sizes, Shares
<1>4. CASE RepairsLeft' = RepairsLeft /\ StateSteps' < StateSteps
  <2>1. PICK budget \in Nat : budget = RepairsLeft * AttemptSteps
    BY <1>3, Budget
  <2>2. StepsLeft = budget + StateSteps /\ StepsLeft' = budget + StateSteps'
    BY <1>4, <2>1 DEF StepsLeft
  <2>3. budget + StateSteps' < budget + StateSteps
    BY <1>3, <1>4, SmallerSum, Zenon
  <2> QED
    BY <2>2, <2>3
<1>5. CASE RepairsLeft' = RepairsLeft - 1 /\ StateSteps' < StateSteps + AttemptSteps
  <2>1. PICK budget \in Nat :
          /\ budget = RepairsLeft * AttemptSteps
          /\ (RepairsLeft - 1) * AttemptSteps = budget - AttemptSteps
    BY <1>3, <1>5, Budget
  <2>2. StepsLeft = budget + StateSteps /\ StepsLeft' = budget - AttemptSteps + StateSteps'
    BY <1>5, <2>1 DEF StepsLeft
  <2>3. budget - AttemptSteps + StateSteps' < budget + StateSteps
    BY <1>3, <1>5, SmallerSum, Zenon
  <2> QED
    BY <2>2, <2>3
<1> QED
  BY <1>4, <1>5

\* A step that keeps the attempt and ends the run, or leaves less of the attempt.
LEMMA SameAttempt ==
    ASSUME IInv, IInv', policy' = policy, RepairsLeft' = RepairsLeft,
           StateSteps' < StateSteps
    PROVE  StepsLeft' < StepsLeft
<1>1. AttemptSteps' = AttemptSteps
  BY DEF AttemptSteps
<1> QED
  BY <1>1, Spent

\* An end of the run, also one that counts the first attempt before it is refused.
LEMMA EndSpends ==
    ASSUME IInv, IInv', policy' = policy, state \notin Terminal, state' \in Terminal,
           attempts' \in {attempts, FirstOr(attempts)}
    PROVE  StepsLeft' < StepsLeft
<1>1. RepairsLeft' = RepairsLeft
  BY DEF RepairsLeft, FirstOr
<1>2. StateSteps' = 0 /\ StateSteps > 0
  BY SharesRight, NextSizes DEF Shares
<1>3. StateSteps' < StateSteps
  BY <1>2
<1> QED
  BY <1>1, <1>3, SameAttempt

LEMMA ProceedSpends == IInv /\ IInv' /\ Proceed => StepsLeft' < StepsLeft
<1> SUFFICES ASSUME IInv, IInv', Proceed PROVE StepsLeft' < StepsLeft
  OBVIOUS
<1>1. Sizes /\ Shares /\ Sizes' /\ Shares'
  BY SizesRight, SharesRight, NextSizes
<1>2. policy' = policy
  BY DEF Proceed, Discover, Understand, Validate, Refuse, OutOfScope, Execute, Write, Verify,
         Check, Review, Inspect, Replan, Redecide, GiveUp, Fail
<1>3. AttemptSteps' = AttemptSteps
  BY <1>2 DEF AttemptSteps
<1>n. /\ policy.checks \in Nat /\ Cardinality(File) \in Nat /\ Len(checks) \in 0..policy.checks
      /\ Cardinality(todo) \in 0..Cardinality(File)
      /\ AttemptSteps = 4 + policy.checks + Cardinality(File)
  BY <1>1 DEF Sizes
<1>s. PICK s \in Nat, t \in Nat : s = StateSteps /\ t = StateSteps'
  BY <1>1 DEF Sizes, Shares
<1>4. CASE Discover \/ Understand
  <2>1. RepairsLeft' = RepairsLeft
    BY <1>4 DEF Discover, Understand, RepairsLeft
  <2>2. StateSteps' < StateSteps
    <3>2. t = s - 1
      <4>1. CASE state = "queued"
        <5>1. s = AttemptSteps + 4 /\ t = AttemptSteps + 3
          BY <1>1, <1>3, <1>4, <1>s, <4>1 DEF Discover, Understand, Shares
        <5> QED
          BY <1>n, <5>1
      <4>2. CASE state = "discovering"
        <5>1. s = AttemptSteps + 3 /\ t = AttemptSteps + 2
          BY <1>1, <1>3, <1>4, <1>s, <4>2 DEF Discover, Understand, Shares
        <5> QED
          BY <1>n, <5>1
      <4>3. CASE state = "understanding"
        <5>1. s = AttemptSteps + 2 /\ t = AttemptSteps + 1
          BY <1>1, <1>3, <1>4, <1>s, <4>3 DEF Discover, Understand, Shares
        <5> QED
          BY <1>n, <5>1
      <4> QED
        BY <1>4, <4>1, <4>2, <4>3 DEF Discover, Understand
    <3>3. t < s
      BY <3>2
    <3> QED
      BY <1>s, <3>3
  <2> QED
    BY <1>2, <2>1, <2>2, SameAttempt
<1>5. CASE Validate
  <2>1. attempts' = attempts /\ state = "validating"
        /\ state' \in {"planning"} \union Terminal
    BY <1>5 DEF Validate, Finish, Terminal
  <2>2. CASE state' \in Terminal
    BY <1>2, <2>1, <2>2, EndSpends DEF Terminal
  <2>3. CASE state' = "planning"
    <3>1. decision' # NoDecision
      BY <1>5, <2>1 DEF Validate, IInv, AttemptsAllowed
    <3>2. s = AttemptSteps + 1 /\ t = AttemptSteps + 0
      BY <1>1, <1>3, <1>s, <2>1, <2>3, <3>1 DEF Shares
    <3>3. t < s
      BY <1>n, <3>2
    <3>4. RepairsLeft' = RepairsLeft
      BY <2>1 DEF RepairsLeft
    <3> QED
      BY <1>2, <1>s, <3>4, <3>3, SameAttempt
  <2> QED
    BY <2>1, <2>2, <2>3
<1>6. CASE Refuse \/ OutOfScope \/ GiveUp \/ Fail
  <2>1. state \notin Terminal /\ state' \in Terminal
    BY <1>6 DEF Refuse, OutOfScope, GiveUp, Fail, Finish, Checked, Terminal
  <2>2. attempts' \in {attempts, FirstOr(attempts)}
    BY <1>6 DEF Refuse, OutOfScope, GiveUp, Fail
  <2> QED
    BY <1>2, <2>1, <2>2, EndSpends
<1>7. CASE Inspect
  <2>1. state \notin Terminal /\ state' \in Terminal /\ attempts' = attempts
    BY <1>7 DEF Inspect, Finish, Terminal
  <2> QED
    BY <1>2, <2>1, EndSpends
<1>8. CASE Execute
  <2>1. RepairsLeft' = RepairsLeft
    BY <1>1, <1>8 DEF Execute, RepairsLeft, FirstOr, Sizes
  <2>2. s = AttemptSteps
    BY <1>1, <1>8, <1>s DEF Execute, Shares, Sizes
  <2>3. t = 3 + policy.checks + Cardinality(todo')
    BY <1>1, <1>2, <1>8, <1>s DEF Execute, Shares
  <2>4. PICK p \in Nat, q \in Nat, r \in Nat :
          p = policy.checks /\ q = Cardinality(File) /\ r = Cardinality(todo') /\ r <= q
    BY <1>1 DEF Sizes
  <2>5. t < s
    <3>1. s = 4 + p + q
      BY <1>n, <2>2, <2>4
    <3>2. t = 3 + p + r
      BY <2>3, <2>4
    <3> QED
      BY <2>4, <3>1, <3>2
  <2> QED
    BY <1>2, <1>s, <2>1, <2>5, SameAttempt
<1>9. CASE \E f \in File : Write(f)
  <2>1. PICK f \in File : Write(f)
    BY <1>9
  <2>2. Cardinality(todo') = Cardinality(todo) - 1
    BY <1>1, <2>1, FS_RemoveElement DEF Write, Sizes
  <2>3. /\ s = 3 + policy.checks + Cardinality(todo)
        /\ t = 3 + policy.checks + Cardinality(todo')
    BY <1>1, <1>2, <1>s, <2>1 DEF Write, Shares
  <2>4. t < s
    BY <1>n, <2>2, <2>3
  <2>5. RepairsLeft' = RepairsLeft
    BY <2>1 DEF Write, RepairsLeft
  <2> QED
    BY <1>2, <1>s, <2>4, <2>5, SameAttempt
<1>10. CASE Verify
  <2>1. /\ s = 3 + policy.checks + Cardinality(todo)
        /\ t = 2 + policy.checks - Len(checks')
        /\ Len(checks') = 0
    BY <1>1, <1>2, <1>10, <1>s DEF Verify, Shares
  <2>2. t < s
    BY <1>n, <2>1
  <2>3. RepairsLeft' = RepairsLeft
    BY <1>10 DEF Verify, RepairsLeft
  <2> QED
    BY <1>2, <1>s, <2>2, <2>3, SameAttempt
<1>11. CASE Check
  <2>1. Len(checks') = Len(checks) + 1
    BY <1>11 DEF Check, IInv, TypeOK
  <2>2. /\ s = 2 + policy.checks - Len(checks)
        /\ t = 2 + policy.checks - Len(checks')
    BY <1>1, <1>2, <1>11, <1>s DEF Check, Shares
  <2>3. t < s
    BY <1>n, <2>1, <2>2
  <2>4. RepairsLeft' = RepairsLeft
    BY <1>11 DEF Check, RepairsLeft
  <2> QED
    BY <1>2, <1>s, <2>3, <2>4, SameAttempt
<1>12. CASE Review
  <2>1. s = 2 /\ t = 1
    BY <1>1, <1>12, <1>s DEF Review, Checked, Shares, Sizes
  <2>2. t < s
    BY <2>1
  <2>3. RepairsLeft' = RepairsLeft
    BY <1>12 DEF Review, RepairsLeft
  <2> QED
    BY <1>2, <1>s, <2>2, <2>3, SameAttempt
<1>13. CASE Replan
  <2>1. decision' = NoDecision /\ state' = "planning" /\ state = "verifying"
        /\ Len(checks) = policy.checks
    BY <1>13 DEF Replan, Checked
  <2>2. s = 2 + policy.checks - Len(checks) /\ t = AttemptSteps + 1
    BY <1>1, <1>3, <1>s, <2>1 DEF Shares
  <2>3. t < s + AttemptSteps
    BY <1>n, <2>1, <2>2
  <2>4. attempts > 0
    BY <1>13 DEF Replan, Checked, IInv, AttemptsAllowed
  <2>5. RepairsLeft' = RepairsLeft - 1
    BY <1>1, <1>13, <2>4, AgentAssumption DEF Replan, RepairsLeft, FirstOr, Sizes
  <2> QED
    BY <1>3, <1>s, <2>3, <2>5, Spent
<1>14. CASE Redecide
  <2>1. decision' # NoDecision
    BY <1>14, NoDecisionDiffers DEF Redecide
  <2>2. s = AttemptSteps + 1 /\ t = AttemptSteps
    BY <1>1, <1>3, <1>14, <1>s, <2>1 DEF Redecide, Shares, Sizes
  <2>3. t < s
    BY <1>1, <2>2 DEF Sizes
  <2>4. RepairsLeft' = RepairsLeft
    BY <1>14 DEF Redecide, RepairsLeft
  <2> QED
    BY <1>2, <1>s, <2>3, <2>4, SameAttempt
<1> QED
  BY <1>4, <1>5, <1>6, <1>7, <1>8, <1>9, <1>10, <1>11, <1>12, <1>13, <1>14 DEF Proceed

\* No run of run() takes more than maxAttempts times the steps of one attempt, and the four that
\* lead to the first: "for (let attempt = 1; attempt <= config.agent.maxAttempts; attempt++)".
THEOREM RunIsBounded == Spec => []RunBounded
<1>1. IInv => RunBounded
  <2> SUFFICES ASSUME IInv PROVE StepsLeft \in 0..StepBound
    BY DEF RunBounded
  <2>1. Sizes /\ Shares /\ MaxAttempts \in Nat
    BY SizesRight, SharesRight, AgentAssumption
  <2>2. PICK a \in Nat, s \in Nat, r \in Nat :
          /\ a = AttemptSteps /\ s = StateSteps /\ r = RepairsLeft
          /\ s <= a + 4 /\ r <= MaxAttempts - 1
    BY <2>1 DEF Sizes, Shares
  <2>3. r * a \in Nat /\ r * a <= (MaxAttempts - 1) * a
    BY <2>1, <2>2
  <2>4. (MaxAttempts - 1) * a = MaxAttempts * a - a /\ MaxAttempts * a \in Nat
    BY <2>2, Budget, AgentAssumption
  <2>5. r * a + s \in 0..(MaxAttempts * a + 4)
    BY <2>2, <2>3, <2>4
  <2> QED
    BY <2>2, <2>5 DEF StepsLeft, StepBound
<1> QED
  BY <1>1, RunInvariant, PTL

\* Every step of a run spends from that budget, whatever the model answers and however the checks
\* end: run() cannot go round its repair loop for ever, nor return to an attempt it has ended.
THEOREM RunNeverLoops == Spec => RunAdvances
<1>1. IInv /\ IInv' /\ [Next]_vars => [NewRun \/ StepsLeft' < StepsLeft]_vars
  BY ProceedSpends DEF Next
<1> QED
  BY <1>1, RunInvariant, PTL DEF Spec, SafetySpec, RunAdvances

=============================================================================
