------------------------- MODULE IssueDeliveryProofs -------------------------
(***************************************************************************)
(* One run, true answers and one publication per issue event, for any      *)
(* number of deliveries and processes, with evictions, crashes and lost    *)
(* answers.  With durable claims the argument is that who ran holds the    *)
(* claim; without, that who ran is registered while the registry of its    *)
(* process keeps its entries.  Publications follow from that, because they *)
(* belong to a run that has not rejected.                                  *)
(***************************************************************************)
EXTENDS IssueDelivery, Naturals, TLAPS

\* What a call's place says of its run, and of what it may publish.
PhasesRight ==
    \A c \in Call :
        /\ pc[c] = "recording" => ended[c] \in Outcome
        /\ pc[c] = "releasing" => ended[c] = "failed"
        /\ ended[c] \in Outcome => pc[c] \in {"recording", "answered", "dead"}
        /\ ended[c] = "failed" => pc[c] \in {"releasing", "answered", "dead"}
        /\ pc[c] = "claiming" => durable
        /\ pc[c] \in {"branching", "opening"} => evidence[c] = "ready"
        /\ pc[c] = "opening" => c \in branches

\* With durable claims, who ran or is about to release holds the claim.
RunsHold == durable => \A c \in Call : Ran(c) \/ pc[c] = "releasing" => holder = c

\* Without, who ran is registered, until the registry loses an entry.
RunsRegistered ==
    ~durable => \A c \in Call :
        Ran(c) /\ ProcessOf[c] \notin uncertain => registry[ProcessOf[c]] = c

\* Promises are shared within a process.
SharedNear ==
    /\ \A p \in Process : registry[p] # NoCall => ProcessOf[registry[p]] = p
    /\ \A c \in Call : leader[c] # NoCall => ProcessOf[leader[c]] = ProcessOf[c]
    /\ \A c \in Call : pc[c] = "sharing" => leader[c] # NoCall

\* What is recorded, told or reported as opened is so.
RecordTrue == outcome = "recorded" => holder \in Call /\ ended[holder] \in Outcome

ToldTrue ==
    \A c \in Call : told[c] \in Call =>
        /\ ended[told[c]] \in Outcome
        /\ ~durable => ProcessOf[told[c]] = ProcessOf[c]

OpenedTrue == \A c \in Call : ended[c] = "opened" => c \in pulls

\* Comments, branches and pull requests belong to a run past runTask() that did not reject.
PublishedByRun ==
    /\ \A c \in comments \union branches :
        \/ pc[c] \in {"publishing", "branching", "opening", "killed"}
        \/ ended[c] \in Outcome
    /\ \A c \in branches : evidence[c] = "ready"
    /\ pulls \subseteq branches

IInv ==
    /\ TypeOK
    /\ PhasesRight
    /\ RunsHold
    /\ RunsRegistered
    /\ SharedNear
    /\ RecordTrue
    /\ ToldTrue
    /\ OpenedTrue
    /\ PublishedByRun

-----------------------------------------------------------------------------

\* The assumption in the form the steps need.
LEMMA CallsApart ==
    /\ NoCall \notin Call
    /\ ProcessOf \in [Call -> Process]
    /\ \A c \in Call : c # "none" /\ c # "ignored" /\ c # "error"
BY DeliveryAssumption

LEMMA InitIInv == Init => IInv
BY CallsApart DEF Init, Claims!Init, IInv, TypeOK, PhasesRight, RunsHold, RunsRegistered,
   SharedNear, RecordTrue, ToldTrue, OpenedTrue, PublishedByRun, Ran, InRun, Outcome, Pending

\* Every step of a call has its place in the type.
LEMMA TypeStep == IInv /\ [Next]_vars => TypeOK'
<1> SUFFICES ASSUME IInv, [Next]_vars PROVE TypeOK'
  OBVIOUS
<1> USE CallsApart DEF IInv, TypeOK, SharedNear, RecordTrue, Pending, InRun, Outcome, github, claims
<1>1. ASSUME NEW c \in Call, Share(c) PROVE TypeOK'
  BY <1>1 DEF Share, Moves
<1>2. ASSUME NEW c \in Call, RunUnclaimed(c) PROVE TypeOK'
  BY <1>2 DEF RunUnclaimed, Run, Moves
<1>3. ASSUME NEW c \in Call, AskClaim(c) PROVE TypeOK'
  BY <1>3 DEF AskClaim, Moves
<1>4. ASSUME NEW c \in Call, Claimed(c) PROVE TypeOK'
  BY <1>4 DEF Claimed, Run, Moves, Claims!Claim
<1>5. ASSUME NEW c \in Call, Refused(c) PROVE TypeOK'
  BY <1>5 DEF Refused, Moves, Answers, Claims!Refuse
<1>6. ASSUME NEW c \in Call, ClaimRejects(c) PROVE TypeOK'
  BY <1>6 DEF ClaimRejects, Moves, Answers
<1>7. ASSUME NEW c \in Call, TaskDone(c) PROVE TypeOK'
  BY <1>7 DEF TaskDone, Moves
<1>8. ASSUME NEW c \in Call, TaskRejects(c) PROVE TypeOK'
  BY <1>8 DEF TaskRejects, Moves
<1>9. ASSUME NEW c \in Call, Comment(c) PROVE TypeOK'
  BY <1>9 DEF Comment, Moves
<1>10. ASSUME NEW c \in Call, Prepare(c) PROVE TypeOK'
  BY <1>10 DEF Prepare, Moves, RunEnds
<1>11. ASSUME NEW c \in Call, PublishBranch(c) PROVE TypeOK'
  BY <1>11 DEF PublishBranch, Moves, RunEnds
<1>12. ASSUME NEW c \in Call, OpenPullRequest(c) PROVE TypeOK'
  BY <1>12 DEF OpenPullRequest, Moves, RunEnds
<1>13. ASSUME NEW c \in Call, Complete(c) PROVE TypeOK'
  BY <1>13 DEF Complete, Moves, Answers, Claims!Record
<1>14. ASSUME NEW c \in Call, Release(c) PROVE TypeOK'
  BY <1>14 DEF Release, Moves, Answers, Claims!Release
<1>15. ASSUME NEW c \in Call, Follow(c) PROVE TypeOK'
  BY <1>15 DEF Follow, Moves, Answers
<1>16. ASSUME NEW p \in Process, Evict(p) PROVE TypeOK'
  BY <1>16 DEF Evict
<1>17. ASSUME NEW p \in Process, Crash(p) PROVE TypeOK'
  BY <1>17 DEF Crash
<1>18. CASE Forget
  BY <1>18 DEF Forget, Claims!Forget
<1>19. CASE UNCHANGED vars
  BY <1>19 DEF vars
<1> QED
  BY <1>1, <1>2, <1>3, <1>4, <1>5, <1>6, <1>7, <1>8, <1>9, <1>10, <1>11, <1>12, <1>13, <1>14,
     <1>15, <1>16, <1>17, <1>18, <1>19
  DEF Next, Ingest, Proceed

\* A run ends once, and what it may publish was read from its own record.
LEMMA PhasesStep == TypeOK /\ PhasesRight /\ [Next]_vars => PhasesRight'
<1> SUFFICES ASSUME TypeOK, PhasesRight, [Next]_vars PROVE PhasesRight'
  OBVIOUS
<1> USE CallsApart DEF TypeOK, PhasesRight, Pending, InRun, Outcome, github, claims
<1>1. ASSUME NEW c \in Call, Share(c) PROVE PhasesRight'
  BY <1>1 DEF Share, Moves
<1>2. ASSUME NEW c \in Call, RunUnclaimed(c) PROVE PhasesRight'
  BY <1>2 DEF RunUnclaimed, Run, Moves
<1>3. ASSUME NEW c \in Call, AskClaim(c) PROVE PhasesRight'
  BY <1>3 DEF AskClaim, Moves
<1>4. ASSUME NEW c \in Call, Claimed(c) PROVE PhasesRight'
  BY <1>4 DEF Claimed, Run, Moves, Claims!Claim
<1>5. ASSUME NEW c \in Call, Refused(c) PROVE PhasesRight'
  BY <1>5 DEF Refused, Moves, Answers, Claims!Refuse
<1>6. ASSUME NEW c \in Call, ClaimRejects(c) PROVE PhasesRight'
  BY <1>6 DEF ClaimRejects, Moves, Answers
<1>7. ASSUME NEW c \in Call, TaskDone(c) PROVE PhasesRight'
  BY <1>7 DEF TaskDone, Moves
<1>8. ASSUME NEW c \in Call, TaskRejects(c) PROVE PhasesRight'
  BY <1>8 DEF TaskRejects, Moves
<1>9. ASSUME NEW c \in Call, Comment(c) PROVE PhasesRight'
  BY <1>9 DEF Comment, Moves
<1>10. ASSUME NEW c \in Call, Prepare(c) PROVE PhasesRight'
  BY <1>10 DEF Prepare, Moves, RunEnds
<1>11. ASSUME NEW c \in Call, PublishBranch(c) PROVE PhasesRight'
  BY <1>11 DEF PublishBranch, Moves, RunEnds
<1>12. ASSUME NEW c \in Call, OpenPullRequest(c) PROVE PhasesRight'
  BY <1>12 DEF OpenPullRequest, Moves, RunEnds
<1>13. ASSUME NEW c \in Call, Complete(c) PROVE PhasesRight'
  BY <1>13 DEF Complete, Moves, Answers, Claims!Record
<1>14. ASSUME NEW c \in Call, Release(c) PROVE PhasesRight'
  BY <1>14 DEF Release, Moves, Answers, Claims!Release
<1>15. ASSUME NEW c \in Call, Follow(c) PROVE PhasesRight'
  BY <1>15 DEF Follow, Moves, Answers
<1>16. ASSUME NEW p \in Process, Evict(p) PROVE PhasesRight'
  BY <1>16 DEF Evict
<1>17. ASSUME NEW p \in Process, Crash(p) PROVE PhasesRight'
  BY <1>17 DEF Crash
<1>18. CASE Forget
  BY <1>18 DEF Forget, Claims!Forget
<1>19. CASE UNCHANGED vars
  BY <1>19 DEF vars
<1> QED
  BY <1>1, <1>2, <1>3, <1>4, <1>5, <1>6, <1>7, <1>8, <1>9, <1>10, <1>11, <1>12, <1>13, <1>14,
     <1>15, <1>16, <1>17, <1>18, <1>19
  DEF Next, Ingest, Proceed

\* A call starts its run with the claim and gives it back only after the run rejected.
LEMMA HoldStep == IInv /\ [Next]_vars => RunsHold'
<1> SUFFICES ASSUME IInv, [Next]_vars PROVE RunsHold'
  OBVIOUS
<1> USE CallsApart DEF IInv, TypeOK, PhasesRight, RunsHold, Ran, Pending, InRun, Outcome, github,
   claims
<1>1. ASSUME NEW c \in Call, Share(c) PROVE RunsHold'
  BY <1>1 DEF Share, Moves
<1>2. ASSUME NEW c \in Call, RunUnclaimed(c) PROVE RunsHold'
  BY <1>2 DEF RunUnclaimed, Run, Moves
<1>3. ASSUME NEW c \in Call, AskClaim(c) PROVE RunsHold'
  BY <1>3 DEF AskClaim, Moves
<1>4. ASSUME NEW c \in Call, Claimed(c) PROVE RunsHold'
  BY <1>4 DEF Claimed, Run, Moves, Claims!Claim
<1>5. ASSUME NEW c \in Call, Refused(c) PROVE RunsHold'
  BY <1>5 DEF Refused, Moves, Answers, Claims!Refuse
<1>6. ASSUME NEW c \in Call, ClaimRejects(c) PROVE RunsHold'
  BY <1>6 DEF ClaimRejects, Moves, Answers
<1>7. ASSUME NEW c \in Call, TaskDone(c) PROVE RunsHold'
  BY <1>7 DEF TaskDone, Moves
<1>8. ASSUME NEW c \in Call, TaskRejects(c) PROVE RunsHold'
  BY <1>8 DEF TaskRejects, Moves
<1>9. ASSUME NEW c \in Call, Comment(c) PROVE RunsHold'
  BY <1>9 DEF Comment, Moves
<1>10. ASSUME NEW c \in Call, Prepare(c) PROVE RunsHold'
  BY <1>10 DEF Prepare, Moves, RunEnds
<1>11. ASSUME NEW c \in Call, PublishBranch(c) PROVE RunsHold'
  BY <1>11 DEF PublishBranch, Moves, RunEnds
<1>12. ASSUME NEW c \in Call, OpenPullRequest(c) PROVE RunsHold'
  BY <1>12 DEF OpenPullRequest, Moves, RunEnds
<1>13. ASSUME NEW c \in Call, Complete(c) PROVE RunsHold'
  BY <1>13 DEF Complete, Moves, Answers, Claims!Record
<1>14. ASSUME NEW c \in Call, Release(c) PROVE RunsHold'
  BY <1>14 DEF Release, Moves, Answers, Claims!Release
<1>15. ASSUME NEW c \in Call, Follow(c) PROVE RunsHold'
  BY <1>15 DEF Follow, Moves, Answers
<1>16. ASSUME NEW p \in Process, Evict(p) PROVE RunsHold'
  BY <1>16 DEF Evict
<1>17. ASSUME NEW p \in Process, Crash(p) PROVE RunsHold'
  BY <1>17 DEF Crash
<1>18. CASE Forget
  BY <1>18 DEF Forget, Claims!Forget
<1>19. CASE UNCHANGED vars
  BY <1>19 DEF vars
<1> QED
  BY <1>1, <1>2, <1>3, <1>4, <1>5, <1>6, <1>7, <1>8, <1>9, <1>10, <1>11, <1>12, <1>13, <1>14,
     <1>15, <1>16, <1>17, <1>18, <1>19
  DEF Next, Ingest, Proceed

\* The entry of a run is replaced by nobody and deleted only with the run, an eviction or a crash.
LEMMA RegisteredStep == IInv /\ [Next]_vars => RunsRegistered'
<1> SUFFICES ASSUME IInv, [Next]_vars PROVE RunsRegistered'
  OBVIOUS
<1> USE CallsApart DEF IInv, TypeOK, PhasesRight, RunsRegistered, SharedNear, Ran, Pending, InRun,
   Outcome, github, claims
<1>1. ASSUME NEW c \in Call, Share(c) PROVE RunsRegistered'
  BY <1>1 DEF Share, Moves
<1>2. ASSUME NEW c \in Call, RunUnclaimed(c) PROVE RunsRegistered'
  BY <1>2 DEF RunUnclaimed, Run, Moves
<1>3. ASSUME NEW c \in Call, AskClaim(c) PROVE RunsRegistered'
  BY <1>3 DEF AskClaim, Moves
<1>4. ASSUME NEW c \in Call, Claimed(c) PROVE RunsRegistered'
  BY <1>4 DEF Claimed, Run, Moves, Claims!Claim
<1>5. ASSUME NEW c \in Call, Refused(c) PROVE RunsRegistered'
  BY <1>5 DEF Refused, Moves, Answers, Claims!Refuse
<1>6. ASSUME NEW c \in Call, ClaimRejects(c) PROVE RunsRegistered'
  BY <1>6 DEF ClaimRejects, Moves, Answers
<1>7. ASSUME NEW c \in Call, TaskDone(c) PROVE RunsRegistered'
  BY <1>7 DEF TaskDone, Moves
<1>8. ASSUME NEW c \in Call, TaskRejects(c) PROVE RunsRegistered'
  BY <1>8 DEF TaskRejects, Moves
<1>9. ASSUME NEW c \in Call, Comment(c) PROVE RunsRegistered'
  BY <1>9 DEF Comment, Moves
<1>10. ASSUME NEW c \in Call, Prepare(c) PROVE RunsRegistered'
  BY <1>10 DEF Prepare, Moves, RunEnds
<1>11. ASSUME NEW c \in Call, PublishBranch(c) PROVE RunsRegistered'
  BY <1>11 DEF PublishBranch, Moves, RunEnds
<1>12. ASSUME NEW c \in Call, OpenPullRequest(c) PROVE RunsRegistered'
  BY <1>12 DEF OpenPullRequest, Moves, RunEnds
<1>13. ASSUME NEW c \in Call, Complete(c) PROVE RunsRegistered'
  BY <1>13 DEF Complete, Moves, Answers, Claims!Record
<1>14. ASSUME NEW c \in Call, Release(c) PROVE RunsRegistered'
  BY <1>14 DEF Release, Moves, Answers, Claims!Release
<1>15. ASSUME NEW c \in Call, Follow(c) PROVE RunsRegistered'
  BY <1>15 DEF Follow, Moves, Answers
<1>16. ASSUME NEW p \in Process, Evict(p) PROVE RunsRegistered'
  BY <1>16 DEF Evict
<1>17. ASSUME NEW p \in Process, Crash(p) PROVE RunsRegistered'
  BY <1>17 DEF Crash
<1>18. CASE Forget
  BY <1>18 DEF Forget, Claims!Forget
<1>19. CASE UNCHANGED vars
  BY <1>19 DEF vars
<1> QED
  BY <1>1, <1>2, <1>3, <1>4, <1>5, <1>6, <1>7, <1>8, <1>9, <1>10, <1>11, <1>12, <1>13, <1>14,
     <1>15, <1>16, <1>17, <1>18, <1>19
  DEF Next, Ingest, Proceed

\* A promise comes from the registry of the call's own process.
LEMMA SharedStep == TypeOK /\ SharedNear /\ [Next]_vars => SharedNear'
<1> SUFFICES ASSUME TypeOK, SharedNear, [Next]_vars PROVE SharedNear'
  OBVIOUS
<1> USE CallsApart DEF TypeOK, SharedNear, github, claims
<1>1. ASSUME NEW c \in Call, Share(c) \/ RunUnclaimed(c) \/ AskClaim(c) PROVE SharedNear'
  BY <1>1 DEF Share, Moves, RunUnclaimed, Run, AskClaim
<1>2. ASSUME NEW c \in Call, Claimed(c) PROVE SharedNear'
  BY <1>2 DEF Claimed, Run, Moves, Claims!Claim
<1>3. ASSUME NEW c \in Call, Refused(c) \/ ClaimRejects(c) PROVE SharedNear'
  BY <1>3 DEF Refused, Moves, Answers, Claims!Refuse, ClaimRejects
<1>4. ASSUME NEW c \in Call, TaskDone(c) \/ Comment(c) PROVE SharedNear'
  BY <1>4 DEF TaskDone, Moves, Comment
<1>5. ASSUME NEW c \in Call, TaskRejects(c) PROVE SharedNear'
  BY <1>5 DEF TaskRejects, Moves
<1>6. ASSUME NEW c \in Call, Prepare(c) \/ PublishBranch(c) PROVE SharedNear'
  BY <1>6 DEF Prepare, Moves, RunEnds, PublishBranch
<1>7. ASSUME NEW c \in Call, OpenPullRequest(c) PROVE SharedNear'
  BY <1>7 DEF OpenPullRequest, Moves, RunEnds
<1>8. ASSUME NEW c \in Call, Complete(c) PROVE SharedNear'
  BY <1>8 DEF Complete, Moves, Answers, Claims!Record
<1>9. ASSUME NEW c \in Call, Release(c) PROVE SharedNear'
  BY <1>9 DEF Release, Moves, Answers, Claims!Release
<1>10. ASSUME NEW c \in Call, Follow(c) PROVE SharedNear'
  BY <1>10 DEF Follow, Moves, Answers
<1>11. ASSUME NEW p \in Process, Evict(p) PROVE SharedNear'
  BY <1>11 DEF Evict
<1>12. ASSUME NEW p \in Process, Crash(p) PROVE SharedNear'
  BY <1>12 DEF Crash
<1>13. CASE Forget
  BY <1>13 DEF Forget, Claims!Forget
<1>14. CASE UNCHANGED vars
  BY <1>14 DEF vars
<1> QED
  BY <1>1, <1>2, <1>3, <1>4, <1>5, <1>6, <1>7, <1>8, <1>9, <1>10, <1>11, <1>12, <1>13, <1>14
  DEF Next, Ingest, Proceed

\* Only a run that ended with an outcome is recorded.
LEMMA RecordStep == IInv /\ [Next]_vars => RecordTrue'
<1> SUFFICES ASSUME IInv, [Next]_vars PROVE RecordTrue'
  OBVIOUS
<1> USE CallsApart DEF IInv, TypeOK, PhasesRight, RecordTrue, Pending, InRun, Outcome, github,
   claims
<1>1. ASSUME NEW c \in Call, Share(c) PROVE RecordTrue'
  BY <1>1 DEF Share, Moves
<1>2. ASSUME NEW c \in Call, RunUnclaimed(c) PROVE RecordTrue'
  BY <1>2 DEF RunUnclaimed, Run, Moves
<1>3. ASSUME NEW c \in Call, AskClaim(c) PROVE RecordTrue'
  BY <1>3 DEF AskClaim, Moves
<1>4. ASSUME NEW c \in Call, Claimed(c) PROVE RecordTrue'
  BY <1>4 DEF Claimed, Run, Moves, Claims!Claim
<1>5. ASSUME NEW c \in Call, Refused(c) PROVE RecordTrue'
  BY <1>5 DEF Refused, Moves, Answers, Claims!Refuse
<1>6. ASSUME NEW c \in Call, ClaimRejects(c) PROVE RecordTrue'
  BY <1>6 DEF ClaimRejects, Moves, Answers
<1>7. ASSUME NEW c \in Call, TaskDone(c) PROVE RecordTrue'
  BY <1>7 DEF TaskDone, Moves
<1>8. ASSUME NEW c \in Call, TaskRejects(c) PROVE RecordTrue'
  BY <1>8 DEF TaskRejects, Moves
<1>9. ASSUME NEW c \in Call, Comment(c) PROVE RecordTrue'
  BY <1>9 DEF Comment, Moves
<1>10. ASSUME NEW c \in Call, Prepare(c) PROVE RecordTrue'
  BY <1>10 DEF Prepare, Moves, RunEnds
<1>11. ASSUME NEW c \in Call, PublishBranch(c) PROVE RecordTrue'
  BY <1>11 DEF PublishBranch, Moves, RunEnds
<1>12. ASSUME NEW c \in Call, OpenPullRequest(c) PROVE RecordTrue'
  BY <1>12 DEF OpenPullRequest, Moves, RunEnds
<1>13. ASSUME NEW c \in Call, Complete(c) PROVE RecordTrue'
  BY <1>13 DEF Complete, Moves, Answers, Claims!Record
<1>14. ASSUME NEW c \in Call, Release(c) PROVE RecordTrue'
  BY <1>14 DEF Release, Moves, Answers, Claims!Release
<1>15. ASSUME NEW c \in Call, Follow(c) PROVE RecordTrue'
  BY <1>15 DEF Follow, Moves, Answers
<1>16. ASSUME NEW p \in Process, Evict(p) PROVE RecordTrue'
  BY <1>16 DEF Evict
<1>17. ASSUME NEW p \in Process, Crash(p) PROVE RecordTrue'
  BY <1>17 DEF Crash
<1>18. CASE Forget
  BY <1>18 DEF Forget, Claims!Forget
<1>19. CASE UNCHANGED vars
  BY <1>19 DEF vars
<1> QED
  BY <1>1, <1>2, <1>3, <1>4, <1>5, <1>6, <1>7, <1>8, <1>9, <1>10, <1>11, <1>12, <1>13, <1>14,
     <1>15, <1>16, <1>17, <1>18, <1>19
  DEF Next, Ingest, Proceed

\* Senders are told what a promise or a record says.
LEMMA ToldStep == IInv /\ [Next]_vars => ToldTrue'
<1> SUFFICES ASSUME IInv, [Next]_vars PROVE ToldTrue'
  OBVIOUS
<1> USE CallsApart DEF IInv, TypeOK, PhasesRight, SharedNear, RecordTrue, ToldTrue, Pending,
   InRun, Outcome, github, claims
<1>1. ASSUME NEW c \in Call, Share(c) PROVE ToldTrue'
  BY <1>1 DEF Share, Moves
<1>2. ASSUME NEW c \in Call, RunUnclaimed(c) PROVE ToldTrue'
  BY <1>2 DEF RunUnclaimed, Run, Moves
<1>3. ASSUME NEW c \in Call, AskClaim(c) PROVE ToldTrue'
  BY <1>3 DEF AskClaim, Moves
<1>4. ASSUME NEW c \in Call, Claimed(c) PROVE ToldTrue'
  BY <1>4 DEF Claimed, Run, Moves, Claims!Claim
<1>5. ASSUME NEW c \in Call, Refused(c) PROVE ToldTrue'
  BY <1>5 DEF Refused, Moves, Answers, Claims!Refuse
<1>6. ASSUME NEW c \in Call, ClaimRejects(c) PROVE ToldTrue'
  BY <1>6 DEF ClaimRejects, Moves, Answers
<1>7. ASSUME NEW c \in Call, TaskDone(c) PROVE ToldTrue'
  BY <1>7 DEF TaskDone, Moves
<1>8. ASSUME NEW c \in Call, TaskRejects(c) PROVE ToldTrue'
  BY <1>8 DEF TaskRejects, Moves
<1>9. ASSUME NEW c \in Call, Comment(c) PROVE ToldTrue'
  BY <1>9 DEF Comment, Moves
<1>10. ASSUME NEW c \in Call, Prepare(c) PROVE ToldTrue'
  BY <1>10 DEF Prepare, Moves, RunEnds
<1>11. ASSUME NEW c \in Call, PublishBranch(c) PROVE ToldTrue'
  BY <1>11 DEF PublishBranch, Moves, RunEnds
<1>12. ASSUME NEW c \in Call, OpenPullRequest(c) PROVE ToldTrue'
  BY <1>12 DEF OpenPullRequest, Moves, RunEnds
<1>13. ASSUME NEW c \in Call, Complete(c) PROVE ToldTrue'
  BY <1>13 DEF Complete, Moves, Answers, Claims!Record
<1>14. ASSUME NEW c \in Call, Release(c) PROVE ToldTrue'
  BY <1>14 DEF Release, Moves, Answers, Claims!Release
<1>15. ASSUME NEW c \in Call, Follow(c) PROVE ToldTrue'
  BY <1>15 DEF Follow, Moves, Answers
<1>16. ASSUME NEW p \in Process, Evict(p) PROVE ToldTrue'
  BY <1>16 DEF Evict
<1>17. ASSUME NEW p \in Process, Crash(p) PROVE ToldTrue'
  BY <1>17 DEF Crash
<1>18. CASE Forget
  BY <1>18 DEF Forget, Claims!Forget
<1>19. CASE UNCHANGED vars
  BY <1>19 DEF vars
<1> QED
  BY <1>1, <1>2, <1>3, <1>4, <1>5, <1>6, <1>7, <1>8, <1>9, <1>10, <1>11, <1>12, <1>13, <1>14,
     <1>15, <1>16, <1>17, <1>18, <1>19
  DEF Next, Ingest, Proceed

\* A run reports a pull request when GitHub has answered.
LEMMA OpenedStep == TypeOK /\ OpenedTrue /\ [Next]_vars => OpenedTrue'
<1> SUFFICES ASSUME TypeOK, OpenedTrue, [Next]_vars PROVE OpenedTrue'
  OBVIOUS
<1> USE CallsApart DEF TypeOK, OpenedTrue, github, claims
<1>1. ASSUME NEW c \in Call, Share(c) \/ RunUnclaimed(c) \/ AskClaim(c) PROVE OpenedTrue'
  BY <1>1 DEF Share, Moves, RunUnclaimed, Run, AskClaim
<1>2. ASSUME NEW c \in Call, Claimed(c) PROVE OpenedTrue'
  BY <1>2 DEF Claimed, Run, Moves, Claims!Claim
<1>3. ASSUME NEW c \in Call, Refused(c) \/ ClaimRejects(c) PROVE OpenedTrue'
  BY <1>3 DEF Refused, Moves, Answers, Claims!Refuse, ClaimRejects
<1>4. ASSUME NEW c \in Call, TaskDone(c) \/ Comment(c) PROVE OpenedTrue'
  BY <1>4 DEF TaskDone, Moves, Comment
<1>5. ASSUME NEW c \in Call, TaskRejects(c) PROVE OpenedTrue'
  BY <1>5 DEF TaskRejects, Moves
<1>6. ASSUME NEW c \in Call, Prepare(c) \/ PublishBranch(c) PROVE OpenedTrue'
  BY <1>6 DEF Prepare, Moves, RunEnds, PublishBranch
<1>7. ASSUME NEW c \in Call, OpenPullRequest(c) PROVE OpenedTrue'
  BY <1>7 DEF OpenPullRequest, Moves, RunEnds
<1>8. ASSUME NEW c \in Call, Complete(c) PROVE OpenedTrue'
  BY <1>8 DEF Complete, Moves, Answers, Claims!Record
<1>9. ASSUME NEW c \in Call, Release(c) PROVE OpenedTrue'
  BY <1>9 DEF Release, Moves, Answers, Claims!Release
<1>10. ASSUME NEW c \in Call, Follow(c) PROVE OpenedTrue'
  BY <1>10 DEF Follow, Moves, Answers
<1>11. ASSUME NEW p \in Process, Evict(p) PROVE OpenedTrue'
  BY <1>11 DEF Evict
<1>12. ASSUME NEW p \in Process, Crash(p) PROVE OpenedTrue'
  BY <1>12 DEF Crash
<1>13. CASE Forget
  BY <1>13 DEF Forget, Claims!Forget
<1>14. CASE UNCHANGED vars
  BY <1>14 DEF vars
<1> QED
  BY <1>1, <1>2, <1>3, <1>4, <1>5, <1>6, <1>7, <1>8, <1>9, <1>10, <1>11, <1>12, <1>13, <1>14
  DEF Next, Ingest, Proceed

\* Nothing is published before runTask() returned, and after that the run cannot reject.
LEMMA PublishedStep == IInv /\ [Next]_vars => PublishedByRun'
<1> SUFFICES ASSUME IInv, [Next]_vars PROVE PublishedByRun'
  OBVIOUS
<1> USE CallsApart DEF IInv, TypeOK, PhasesRight, PublishedByRun, Pending, InRun, Outcome, github,
   claims
<1>1. ASSUME NEW c \in Call, Share(c) PROVE PublishedByRun'
  BY <1>1 DEF Share, Moves
<1>2. ASSUME NEW c \in Call, RunUnclaimed(c) PROVE PublishedByRun'
  BY <1>2 DEF RunUnclaimed, Run, Moves
<1>3. ASSUME NEW c \in Call, AskClaim(c) PROVE PublishedByRun'
  BY <1>3 DEF AskClaim, Moves
<1>4. ASSUME NEW c \in Call, Claimed(c) PROVE PublishedByRun'
  BY <1>4 DEF Claimed, Run, Moves, Claims!Claim
<1>5. ASSUME NEW c \in Call, Refused(c) PROVE PublishedByRun'
  BY <1>5 DEF Refused, Moves, Answers, Claims!Refuse
<1>6. ASSUME NEW c \in Call, ClaimRejects(c) PROVE PublishedByRun'
  BY <1>6 DEF ClaimRejects, Moves, Answers
<1>7. ASSUME NEW c \in Call, TaskDone(c) PROVE PublishedByRun'
  BY <1>7 DEF TaskDone, Moves
<1>8. ASSUME NEW c \in Call, TaskRejects(c) PROVE PublishedByRun'
  BY <1>8 DEF TaskRejects, Moves
<1>9. ASSUME NEW c \in Call, Comment(c) PROVE PublishedByRun'
  BY <1>9 DEF Comment, Moves
<1>10. ASSUME NEW c \in Call, Prepare(c) PROVE PublishedByRun'
  BY <1>10 DEF Prepare, Moves, RunEnds
<1>11. ASSUME NEW c \in Call, PublishBranch(c) PROVE PublishedByRun'
  BY <1>11 DEF PublishBranch, Moves, RunEnds
<1>12. ASSUME NEW c \in Call, OpenPullRequest(c) PROVE PublishedByRun'
  BY <1>12 DEF OpenPullRequest, Moves, RunEnds
<1>13. ASSUME NEW c \in Call, Complete(c) PROVE PublishedByRun'
  BY <1>13 DEF Complete, Moves, Answers, Claims!Record
<1>14. ASSUME NEW c \in Call, Release(c) PROVE PublishedByRun'
  BY <1>14 DEF Release, Moves, Answers, Claims!Release
<1>15. ASSUME NEW c \in Call, Follow(c) PROVE PublishedByRun'
  BY <1>15 DEF Follow, Moves, Answers
<1>16. ASSUME NEW p \in Process, Evict(p) PROVE PublishedByRun'
  BY <1>16 DEF Evict
<1>17. ASSUME NEW p \in Process, Crash(p) PROVE PublishedByRun'
  BY <1>17 DEF Crash
<1>18. CASE Forget
  BY <1>18 DEF Forget, Claims!Forget
<1>19. CASE UNCHANGED vars
  BY <1>19 DEF vars
<1> QED
  BY <1>1, <1>2, <1>3, <1>4, <1>5, <1>6, <1>7, <1>8, <1>9, <1>10, <1>11, <1>12, <1>13, <1>14,
     <1>15, <1>16, <1>17, <1>18, <1>19
  DEF Next, Ingest, Proceed

LEMMA NextIInv == IInv /\ [Next]_vars => IInv'
BY TypeStep, PhasesStep, HoldStep, RegisteredStep, SharedStep, RecordStep, ToldStep, OpenedStep,
   PublishedStep DEF IInv

\* The inductive invariant holds in every reachable state.
THEOREM DeliveryInvariant == Spec => []IInv
BY InitIInv, NextIInv, PTL DEF Spec

-----------------------------------------------------------------------------

LEMMA OneRunFollows == IInv => OneRun
BY DeliveryAssumption DEF IInv, TypeOK, RunsHold, RunsRegistered, OneRun, Protected

\* What protects two calls protects the runs they were told of.
LEMMA AnswersFollow == IInv => AnswersTrue
<1> SUFFICES ASSUME IInv, NEW c \in Call, told[c] \in Call
             PROVE  /\ ended[told[c]] \in Outcome
                    /\ ended[told[c]] = "opened" => told[c] \in pulls
                    /\ \A d \in Call : told[d] \in Call /\ Protected(c, d) => told[d] = told[c]
  BY DEF AnswersTrue
<1>1. ended[told[c]] \in Outcome
  BY DEF IInv, ToldTrue
<1>2. ended[told[c]] = "opened" => told[c] \in pulls
  BY DEF IInv, OpenedTrue
<1>3. ASSUME NEW d \in Call, told[d] \in Call, Protected(c, d) PROVE told[d] = told[c]
  <2>1. Ran(told[c]) /\ Ran(told[d])
    BY <1>3 DEF IInv, ToldTrue, Ran, Outcome
  <2>2. Protected(told[c], told[d])
    BY <1>3 DEF IInv, ToldTrue, Protected
  <2> QED
    BY <1>3, <2>1, <2>2, OneRunFollows DEF OneRun
<1> QED
  BY <1>1, <1>2, <1>3

LEMMA PublicationFollows == IInv => PublishedOnce
<1> SUFFICES ASSUME IInv PROVE PublishedOnce
  OBVIOUS
<1>1. \A c \in comments \union branches : c \in Call /\ Ran(c) /\ ended[c] # "failed"
  BY DEF IInv, TypeOK, PhasesRight, PublishedByRun, Ran, InRun, Outcome
<1>2. \A c, d \in comments \union branches : Protected(c, d) => c = d
  BY <1>1, OneRunFollows DEF OneRun
<1> QED
  BY <1>1, <1>2 DEF IInv, PublishedByRun, PublishedOnce

\* Type correctness.
THEOREM TypeCorrect == Spec => []TypeOK
<1>1. IInv => TypeOK
  BY DEF IInv
<1> QED
  BY <1>1, DeliveryInvariant, PTL

\* An event is run again only after its run rejected (ingestIssueEvent()).
THEOREM OneRunHolds == Spec => []OneRun
BY OneRunFollows, DeliveryInvariant, PTL

\* Senders are told one outcome, that of a run, and open pull requests (ingestIssueEvent()).
THEOREM AnswersAreTrue == Spec => []AnswersTrue
BY AnswersFollow, DeliveryInvariant, PTL

\* An event is published once, with verified changes (openIssuePullRequest()).
THEOREM PublishedOnceHolds == Spec => []PublishedOnce
BY PublicationFollows, DeliveryInvariant, PTL

-----------------------------------------------------------------------------

\* A promise in the registry is that of a run in progress, or has settled with an outcome.
RegistrySettles ==
    \A p \in Process : registry[p] # NoCall =>
        pc[registry[p]] \in InRun \/ ended[registry[p]] \in Outcome

\* "A concurrent redelivery shares the in-flight outcome" and waits for nothing else: the call it
\* follows is no follower itself, and is still running or has settled its promise, also when the
\* entry was evicted, replaced or deleted since, so no follower waits in a circle, for a call that
\* died, or for a promise nobody settles.
FollowersLed ==
    \A c \in Call : pc[c] = "sharing" =>
        /\ leader[c] \in Call /\ leader[c] # c /\ pc[leader[c]] # "sharing"
        /\ pc[leader[c]] \in InRun \/ ended[leader[c]] # "none"

\* How many awaits of ingestIssueEvent() a call has left.
AwaitsLeft(p) ==
    CASE p = "idle" -> 8
      [] p = "claiming" -> 7
      [] p = "running" -> 6
      [] p = "commenting" -> 5
      [] p = "publishing" -> 4
      [] p = "branching" -> 3
      [] p = "opening" -> 2
      [] p \in {"recording", "releasing", "sharing"} -> 1
      [] OTHER -> 0

\* A call passes each await once: a lost claim, a failed publication or a rejected run is never
\* tried again by the delivery that met it.
CallsAdvance == [][\A c \in Call : pc'[c] # pc[c] => AwaitsLeft(pc'[c]) < AwaitsLeft(pc[c])]_vars

LEMMA InitLed == Init => RegistrySettles /\ FollowersLed
BY DEF Init, RegistrySettles, FollowersLed

\* Who leaves the registry has settled, or dies with everybody who follows it.
LEMMA RegistryStep == TypeOK /\ PhasesRight /\ SharedNear /\ RegistrySettles /\ [Next]_vars
                        => RegistrySettles'
<1> SUFFICES ASSUME TypeOK, PhasesRight, SharedNear, RegistrySettles, [Next]_vars
             PROVE  RegistrySettles'
  OBVIOUS
<1> USE CallsApart DEF TypeOK, PhasesRight, SharedNear, RegistrySettles, Pending, InRun, Outcome
<1>1. ASSUME NEW c \in Call, Share(c) PROVE RegistrySettles'
  BY <1>1 DEF Share, Moves
<1>2. ASSUME NEW c \in Call, RunUnclaimed(c) PROVE RegistrySettles'
  BY <1>2 DEF RunUnclaimed, Run, Moves
<1>3. ASSUME NEW c \in Call, AskClaim(c) PROVE RegistrySettles'
  BY <1>3 DEF AskClaim, Moves
<1>4. ASSUME NEW c \in Call, Claimed(c) PROVE RegistrySettles'
  BY <1>4 DEF Claimed, Run, Moves
<1>5. ASSUME NEW c \in Call, Refused(c) PROVE RegistrySettles'
  BY <1>5 DEF Refused, Moves
<1>6. ASSUME NEW c \in Call, ClaimRejects(c) PROVE RegistrySettles'
  BY <1>6 DEF ClaimRejects, Moves
<1>7. ASSUME NEW c \in Call, TaskDone(c) PROVE RegistrySettles'
  BY <1>7 DEF TaskDone, Moves
<1>8. ASSUME NEW c \in Call, TaskRejects(c) PROVE RegistrySettles'
  BY <1>8 DEF TaskRejects, Moves
<1>9. ASSUME NEW c \in Call, Comment(c) PROVE RegistrySettles'
  BY <1>9 DEF Comment, Moves
<1>10. ASSUME NEW c \in Call, Prepare(c) PROVE RegistrySettles'
  BY <1>10 DEF Prepare, Moves, RunEnds
<1>11. ASSUME NEW c \in Call, PublishBranch(c) PROVE RegistrySettles'
  BY <1>11 DEF PublishBranch, Moves, RunEnds
<1>12. ASSUME NEW c \in Call, OpenPullRequest(c) PROVE RegistrySettles'
  BY <1>12 DEF OpenPullRequest, Moves, RunEnds
<1>13. ASSUME NEW c \in Call, Complete(c) PROVE RegistrySettles'
  BY <1>13 DEF Complete, Moves
<1>14. ASSUME NEW c \in Call, Release(c) PROVE RegistrySettles'
  BY <1>14 DEF Release, Moves
<1>15. ASSUME NEW c \in Call, Follow(c) PROVE RegistrySettles'
  BY <1>15 DEF Follow, Moves
<1>16. ASSUME NEW p \in Process, Evict(p) PROVE RegistrySettles'
  BY <1>16 DEF Evict
<1>17. ASSUME NEW p \in Process, Crash(p) PROVE RegistrySettles'
  BY <1>17 DEF Crash
<1>18. CASE Forget
  BY <1>18 DEF Forget
<1>19. CASE UNCHANGED vars
  BY <1>19 DEF vars
<1> QED
  BY <1>1, <1>2, <1>3, <1>4, <1>5, <1>6, <1>7, <1>8, <1>9, <1>10, <1>11, <1>12, <1>13, <1>14,
     <1>15, <1>16, <1>17, <1>18, <1>19
  DEF Next, Ingest, Proceed

\* A follower finds its leader in the registry, and only a crash of the process of both takes it away.
LEMMA LedStep == TypeOK /\ PhasesRight /\ SharedNear /\ RegistrySettles /\ FollowersLed /\ [Next]_vars
                   => FollowersLed'
<1> SUFFICES ASSUME TypeOK, PhasesRight, SharedNear, RegistrySettles, FollowersLed, [Next]_vars
             PROVE  FollowersLed'
  OBVIOUS
<1> USE CallsApart DEF TypeOK, PhasesRight, SharedNear, RegistrySettles, FollowersLed, Pending, InRun,
   Outcome
<1>1. ASSUME NEW c \in Call, Share(c) PROVE FollowersLed'
  BY <1>1 DEF Share, Moves
<1>2. ASSUME NEW c \in Call, RunUnclaimed(c) PROVE FollowersLed'
  BY <1>2 DEF RunUnclaimed, Run, Moves
<1>3. ASSUME NEW c \in Call, AskClaim(c) PROVE FollowersLed'
  BY <1>3 DEF AskClaim, Moves
<1>4. ASSUME NEW c \in Call, Claimed(c) PROVE FollowersLed'
  BY <1>4 DEF Claimed, Run, Moves
<1>5. ASSUME NEW c \in Call, Refused(c) PROVE FollowersLed'
  BY <1>5 DEF Refused, Moves
<1>6. ASSUME NEW c \in Call, ClaimRejects(c) PROVE FollowersLed'
  BY <1>6 DEF ClaimRejects, Moves
<1>7. ASSUME NEW c \in Call, TaskDone(c) PROVE FollowersLed'
  BY <1>7 DEF TaskDone, Moves
<1>8. ASSUME NEW c \in Call, TaskRejects(c) PROVE FollowersLed'
  BY <1>8 DEF TaskRejects, Moves
<1>9. ASSUME NEW c \in Call, Comment(c) PROVE FollowersLed'
  BY <1>9 DEF Comment, Moves
<1>10. ASSUME NEW c \in Call, Prepare(c) PROVE FollowersLed'
  BY <1>10 DEF Prepare, Moves, RunEnds
<1>11. ASSUME NEW c \in Call, PublishBranch(c) PROVE FollowersLed'
  BY <1>11 DEF PublishBranch, Moves, RunEnds
<1>12. ASSUME NEW c \in Call, OpenPullRequest(c) PROVE FollowersLed'
  BY <1>12 DEF OpenPullRequest, Moves, RunEnds
<1>13. ASSUME NEW c \in Call, Complete(c) PROVE FollowersLed'
  BY <1>13 DEF Complete, Moves
<1>14. ASSUME NEW c \in Call, Release(c) PROVE FollowersLed'
  BY <1>14 DEF Release, Moves
<1>15. ASSUME NEW c \in Call, Follow(c) PROVE FollowersLed'
  BY <1>15 DEF Follow, Moves
<1>16. ASSUME NEW p \in Process, Evict(p) PROVE FollowersLed'
  BY <1>16 DEF Evict
<1>17. ASSUME NEW p \in Process, Crash(p) PROVE FollowersLed'
  BY <1>17 DEF Crash
<1>18. CASE Forget
  BY <1>18 DEF Forget
<1>19. CASE UNCHANGED vars
  BY <1>19 DEF vars
<1> QED
  BY <1>1, <1>2, <1>3, <1>4, <1>5, <1>6, <1>7, <1>8, <1>9, <1>10, <1>11, <1>12, <1>13, <1>14,
     <1>15, <1>16, <1>17, <1>18, <1>19
  DEF Next, Ingest, Proceed

\* No delivery waits in a circle or for a promise that nobody will settle, with any number of
\* deliveries and processes, evictions, replaced entries and crashes (ingestIssueEvent()).
THEOREM FollowersAreLed == Spec => []FollowersLed
<1>1. IInv => TypeOK /\ PhasesRight /\ SharedNear
  BY DEF IInv
<1> QED
  BY <1>1, InitLed, RegistryStep, LedStep, DeliveryInvariant, PTL DEF Spec

\* Every step of a delivery leaves it fewer awaits, so it takes at most eight and cannot be kept
\* going round by claims lost, publications failed or runs rejected (ingestIssueEvent()).
THEOREM CallsOnlyAdvance == Spec => CallsAdvance
<1> DEFINE Fewer == \A c \in Call : pc'[c] # pc[c] => AwaitsLeft(pc'[c]) < AwaitsLeft(pc[c])
<1>0. /\ AwaitsLeft("idle") = 8 /\ AwaitsLeft("claiming") = 7 /\ AwaitsLeft("running") = 6
      /\ AwaitsLeft("commenting") = 5 /\ AwaitsLeft("publishing") = 4
      /\ AwaitsLeft("branching") = 3 /\ AwaitsLeft("opening") = 2
      /\ AwaitsLeft("recording") = 1 /\ AwaitsLeft("releasing") = 1 /\ AwaitsLeft("sharing") = 1
      /\ AwaitsLeft("answered") = 0 /\ AwaitsLeft("killed") = 0 /\ AwaitsLeft("dead") = 0
  BY DEF AwaitsLeft
<1>1. TypeOK /\ [Next]_vars => [Fewer]_vars
  <2> SUFFICES ASSUME TypeOK, Next PROVE Fewer
    OBVIOUS
  <2>1. ASSUME NEW c \in Call, NEW from, NEW to, Moves(c, from, to),
               AwaitsLeft(to) < AwaitsLeft(from)
        PROVE  Fewer
    BY <2>1 DEF TypeOK, Moves
  <2>2. ASSUME NEW c \in Call, Ingest(c) PROVE Fewer
    BY <1>0, <2>1, <2>2 DEF Ingest, Share, RunUnclaimed, AskClaim, Run
  <2>3. ASSUME NEW c \in Call, Proceed(c) PROVE Fewer
    <3>1. CASE Claimed(c) \/ Refused(c) \/ ClaimRejects(c)
      BY <1>0, <2>1, <3>1 DEF Claimed, Run, Refused, ClaimRejects
    <3>2. CASE TaskDone(c) \/ TaskRejects(c) \/ Comment(c)
      BY <1>0, <2>1, <3>2 DEF TaskDone, TaskRejects, Comment
    <3>3. CASE Prepare(c) \/ PublishBranch(c) \/ OpenPullRequest(c)
      BY <1>0, <2>1, <3>3 DEF Prepare, PublishBranch, OpenPullRequest, RunEnds
    <3>4. CASE Complete(c) \/ Release(c) \/ Follow(c)
      BY <1>0, <2>1, <3>4 DEF Complete, Release, Follow
    <3> QED
      BY <2>3, <3>1, <3>2, <3>3, <3>4 DEF Proceed
  <2>4. ASSUME NEW p \in Process, Crash(p) PROVE Fewer
    <3> SUFFICES ASSUME NEW c \in Call, pc'[c] # pc[c]
                 PROVE  AwaitsLeft(pc'[c]) < AwaitsLeft(pc[c])
      OBVIOUS
    <3>1. pc[c] \in Pending /\ pc'[c] \in {"killed", "dead"}
      BY <2>4 DEF Crash
    <3> QED
      BY <1>0, <3>1 DEF Pending, InRun
  <2>5. CASE Forget \/ \E p \in Process : Evict(p)
    BY <2>5 DEF Forget, Evict
  <2> QED
    BY <2>2, <2>3, <2>4, <2>5 DEF Next
<1> QED
  BY <1>1, TypeCorrect, PTL DEF Spec, CallsAdvance

=============================================================================
