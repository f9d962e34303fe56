------------------------ MODULE DeliveryClaimsProofs -------------------------
(***************************************************************************)
(* "Two contenders can never both win", for any number of deliveries, with *)
(* releases, crashes and failing storage operations.  The argument: a      *)
(* claim that stands keeps the door closed, so nobody new gets past it;    *)
(* and whoever got past it before has lost the register for good, because  *)
(* the register takes a contender's token only at that contender's start.  *)
(***************************************************************************)
EXTENDS DeliveryClaims, Naturals, TLAPS

Claims == Owning \union Standing

\* Past the open door and not yet decided.
Inside == {"sawOpen", "closed"}

\* At most one claim stands.
OneClaim == \A c, d \in Contender : pc[c] \in Claims /\ pc[d] \in Claims => c = d

\* While a claim stands, no other contender past the door can still win.
OthersLost ==
    \A c, d \in Contender : pc[c] \in Claims /\ pc[d] \in Inside => register # d

\* A contender about to win has closed the door, and it is still closed.
WinnerClosedDoor ==
    \A c \in Contender : pc[c] = "closed" /\ register = c => marker # "absent"

\* The register is only used by the splitter.
RegisterUnused == conditional => register = NoToken

IInv ==
    /\ TypeOK
    /\ RegisterUnused
    /\ OneClaim
    /\ OthersLost
    /\ WinnerClosedDoor
    /\ ClaimKeepsDoorClosed

-----------------------------------------------------------------------------

LEMMA InitIInv == Init => IInv
BY ClaimAssumption DEF Init, IInv, TypeOK, OneClaim, OthersLost, WinnerClosedDoor,
   ClaimKeepsDoorClosed, RegisterUnused, Claims, Inside, Owning, Standing, InClaim, Out

\* Moving one contender from one place to another keeps the others where they are.
LEMMA MovesProperties ==
    ASSUME NEW c \in Contender, NEW from, NEW to, TypeOK, Moves(c, from, to)
    PROVE  /\ pc[c] = from /\ pc'[c] = to
           /\ \A d \in Contender : d # c => pc'[d] = pc[d]
           /\ pc' = [pc EXCEPT ![c] = to]
BY DEF Moves, TypeOK

\* Every step of a contender has its place in the type.
LEMMA TypeStep == TypeOK /\ [Next]_vars => TypeOK'
<1> SUFFICES ASSUME TypeOK, [Next]_vars PROVE TypeOK'
  OBVIOUS
<1> USE DEF TypeOK, InClaim, Owning, Standing, Out
<1>1. ASSUME NEW c \in Contender, CreateIfAbsent(c) PROVE TypeOK'
  BY <1>1 DEF CreateIfAbsent, Moves
<1>2. ASSUME NEW c \in Contender, Register(c) PROVE TypeOK'
  BY <1>2 DEF Register, Moves
<1>3. ASSUME NEW c \in Contender, CheckDoor(c) PROVE TypeOK'
  BY <1>3 DEF CheckDoor, Moves, Refuse
<1>4. ASSUME NEW c \in Contender, CloseDoor(c) PROVE TypeOK'
  BY <1>4 DEF CloseDoor, Moves
<1>5. ASSUME NEW c \in Contender, ReadBack(c) PROVE TypeOK'
  BY <1>5 DEF ReadBack, Moves
<1>6. ASSUME NEW c \in Contender, ReadOutcome(c) PROVE TypeOK'
  BY <1>6 DEF ReadOutcome, Moves, Refuse
<1>7. ASSUME NEW c \in Contender, ClaimFails(c) PROVE TypeOK'
  BY <1>7 DEF ClaimFails
<1>8. ASSUME NEW c \in Contender, RunEnds(c) PROVE TypeOK'
  BY <1>8 DEF RunEnds, Moves
<1>9. ASSUME NEW c \in Contender, Complete(c) PROVE TypeOK'
  BY <1>9 DEF Complete, Moves
<1>10. ASSUME NEW c \in Contender, ClearRegister(c) PROVE TypeOK'
  BY <1>10 DEF ClearRegister, Moves
<1>11. ASSUME NEW c \in Contender, OpenDoor(c) PROVE TypeOK'
  BY <1>11 DEF OpenDoor, Moves
<1>12. ASSUME NEW c \in Contender, ReleaseFails(c) PROVE TypeOK'
  BY <1>12 DEF ReleaseFails, Moves
<1>13. ASSUME NEW c \in Contender, Crash(c) PROVE TypeOK'
  BY <1>13 DEF Crash
<1>14. CASE UNCHANGED vars
  BY <1>14 DEF vars
<1> QED
  BY <1>1, <1>2, <1>3, <1>4, <1>5, <1>6, <1>7, <1>8, <1>9, <1>10, <1>11, <1>12, <1>13, <1>14
  DEF Next

\* The steps that bring a contender nearer to a claim: the driver's atomic create, and the four
\* steps of the splitter.
LEMMA ClaimStep ==
    ASSUME IInv, TypeOK', NEW c \in Contender,
           CreateIfAbsent(c) \/ Register(c) \/ CheckDoor(c) \/ CloseDoor(c) \/ ReadBack(c)
    PROVE  IInv'
<1> USE ClaimAssumption DEF RegisterUnused, Claims, Inside, Owning, Standing
<1>1. CASE CreateIfAbsent(c)
  <2>1. CASE marker = "absent"
    <3>1. \A d \in Contender : pc[d] \notin Claims
      BY <2>1 DEF IInv, ClaimKeepsDoorClosed
    <3>2. \A d \in Contender : d # c => pc'[d] = pc[d]
      BY <1>1, <2>1 DEF CreateIfAbsent, Moves, IInv, TypeOK
    <3>3. pc'[c] \in {"running", "failed"} /\ register' = register /\ marker' = "unfinished"
      BY <1>1, <2>1 DEF CreateIfAbsent, Moves, IInv, TypeOK
    <3>4. OneClaim' /\ ClaimKeepsDoorClosed'
      BY <3>1, <3>2, <3>3 DEF OneClaim, ClaimKeepsDoorClosed
    <3>5. conditional /\ register = NoToken /\ UNCHANGED conditional
      BY <1>1 DEF CreateIfAbsent, IInv, RegisterUnused
    <3> QED
      BY <3>3, <3>4, <3>5 DEF IInv, OthersLost, WinnerClosedDoor, RegisterUnused
  <2>2. CASE marker # "absent"
    BY <1>1, <2>2 DEF CreateIfAbsent, Moves, IInv, TypeOK, OneClaim, OthersLost,
                      WinnerClosedDoor, ClaimKeepsDoorClosed
  <2> QED
    BY <2>1, <2>2
<1>2. CASE Register(c)
  BY <1>2 DEF Register, Moves, IInv, TypeOK, OneClaim, OthersLost, WinnerClosedDoor,
              ClaimKeepsDoorClosed
<1>3. CASE CheckDoor(c)
  BY <1>3 DEF CheckDoor, Moves, IInv, TypeOK, OneClaim, OthersLost, WinnerClosedDoor,
              ClaimKeepsDoorClosed
<1>4. CASE CloseDoor(c)
  BY <1>4 DEF CloseDoor, Moves, IInv, TypeOK, OneClaim, OthersLost, WinnerClosedDoor,
              ClaimKeepsDoorClosed
<1>5. CASE ReadBack(c)
  BY <1>5 DEF ReadBack, Moves, IInv, TypeOK, OneClaim, OthersLost, WinnerClosedDoor,
              ClaimKeepsDoorClosed
<1> QED
  BY <1>1, <1>2, <1>3, <1>4, <1>5

\* The steps of a contender that lost, failed, or holds the claim.
LEMMA OtherStep ==
    ASSUME IInv, TypeOK', NEW c \in Contender,
           \/ ReadOutcome(c) \/ ClaimFails(c) \/ RunEnds(c) \/ Complete(c)
           \/ ClearRegister(c) \/ OpenDoor(c) \/ ReleaseFails(c) \/ Crash(c)
    PROVE  IInv'
<1> USE ClaimAssumption DEF RegisterUnused, Claims, Inside, Owning, Standing
<1>1. CASE ReadOutcome(c)
  BY <1>1 DEF ReadOutcome, Moves, IInv, TypeOK, OneClaim, OthersLost, WinnerClosedDoor,
              ClaimKeepsDoorClosed
<1>2. CASE ClaimFails(c)
  BY <1>2 DEF ClaimFails, InClaim, IInv, TypeOK, OneClaim, OthersLost, WinnerClosedDoor,
              ClaimKeepsDoorClosed
<1>3. CASE RunEnds(c)
  BY <1>3 DEF RunEnds, Moves, IInv, TypeOK, OneClaim, OthersLost, WinnerClosedDoor,
              ClaimKeepsDoorClosed
<1>4. CASE Complete(c)
  BY <1>4 DEF Complete, Moves, IInv, TypeOK, OneClaim, OthersLost, WinnerClosedDoor,
              ClaimKeepsDoorClosed
<1>5. CASE ClearRegister(c)
  BY <1>5 DEF ClearRegister, Moves, IInv, TypeOK, OneClaim, OthersLost, WinnerClosedDoor,
              ClaimKeepsDoorClosed
<1>6. CASE OpenDoor(c)
  <2>1. pc[c] \in Claims /\ \A d \in Contender : d # c => pc[d] \notin Claims
    BY <1>6 DEF OpenDoor, Moves, IInv, OneClaim
  <2>2. \A d \in Contender : pc[d] = "closed" => register # d
    BY <2>1 DEF IInv, OthersLost
  <2> QED
    BY <1>6, <2>1, <2>2 DEF OpenDoor, Moves, IInv, TypeOK, OneClaim, OthersLost,
                            WinnerClosedDoor, ClaimKeepsDoorClosed
<1>7. CASE ReleaseFails(c)
  BY <1>7 DEF ReleaseFails, Moves, IInv, TypeOK, OneClaim, OthersLost, WinnerClosedDoor,
              ClaimKeepsDoorClosed
<1>8. CASE Crash(c)
  BY <1>8 DEF Crash, InClaim, IInv, TypeOK, OneClaim, OthersLost, WinnerClosedDoor,
              ClaimKeepsDoorClosed
<1> QED
  BY <1>1, <1>2, <1>3, <1>4, <1>5, <1>6, <1>7, <1>8

LEMMA NextIInv == IInv /\ [Next]_vars => IInv'
<1> SUFFICES ASSUME IInv, [Next]_vars PROVE IInv'
  OBVIOUS
<1>1. TypeOK'
  BY TypeStep DEF IInv
<1>2. CASE Next
  BY <1>1, <1>2, ClaimStep, OtherStep DEF Next
<1>3. CASE UNCHANGED vars
  BY <1>3 DEF vars, IInv, TypeOK, RegisterUnused, OneClaim, OthersLost, WinnerClosedDoor,
              ClaimKeepsDoorClosed
<1> QED
  BY <1>2, <1>3

\* The inductive invariant holds in every reachable state.
THEOREM ClaimInvariant == Spec => []IInv
BY InitIInv, NextIInv, PTL DEF Spec

\* Type correctness.
THEOREM TypeCorrect == Spec => []TypeOK
<1>1. IInv => TypeOK
  BY DEF IInv
<1> QED
  BY <1>1, ClaimInvariant, PTL

\* Two contenders never both win, and no run starts next to one that ended or died (claim()).
THEOREM NeverTwoRuns == Spec => []NoDuplicateRun
<1>1. IInv => NoDuplicateRun
  BY DEF IInv, OneClaim, NoDuplicateRun, Claims
<1> QED
  BY <1>1, ClaimInvariant, PTL

\* A standing claim keeps the door closed.
THEOREM DoorStaysClosed == Spec => []ClaimKeepsDoorClosed
<1>1. IInv => ClaimKeepsDoorClosed
  BY DEF IInv
<1> QED
  BY <1>1, ClaimInvariant, PTL

-----------------------------------------------------------------------------

\* What the implementation of ClaimRegister needs besides: an outcome is recorded only when a run
\* has ended, a conditional driver has nobody inside the splitter, and who was told to stay out does.
RecordedAfterRun == marker = "recorded" => \E c \in Contender : pc[c] = "completed"

SplitterUnconditional ==
    conditional => \A c \in Contender : pc[c] \notin {"registered", "sawOpen", "closed"}

ToldAreOut == \A c \in Contender : answer[c] # "none" => pc[c] = "refused"

RInv == RecordedAfterRun /\ SplitterUnconditional /\ ToldAreOut /\ AtomicClosedForAReason

LEMMA InitRInv == Init => RInv
BY DEF Init, RInv, RecordedAfterRun, SplitterUnconditional, ToldAreOut, AtomicClosedForAReason

\* A completed contender does nothing more, so a recorded outcome keeps its witness.
LEMMA RecordedStep == IInv /\ RInv /\ [Next]_vars => RecordedAfterRun'
<1> SUFFICES ASSUME IInv, RInv, [Next]_vars PROVE RecordedAfterRun'
  OBVIOUS
<1> USE DEF IInv, TypeOK, RInv, RecordedAfterRun, Moves
<1>1. ASSUME NEW c \in Contender, CreateIfAbsent(c) PROVE RecordedAfterRun'
  BY <1>1 DEF CreateIfAbsent
<1>2. ASSUME NEW c \in Contender, Register(c) \/ CheckDoor(c) \/ CloseDoor(c) \/ ReadBack(c)
      PROVE  RecordedAfterRun'
  BY <1>2 DEF Register, CheckDoor, CloseDoor, ReadBack
<1>3. ASSUME NEW c \in Contender, ReadOutcome(c) \/ ClaimFails(c) \/ RunEnds(c)
      PROVE  RecordedAfterRun'
  BY <1>3 DEF ReadOutcome, ClaimFails, InClaim, RunEnds
<1>4. ASSUME NEW c \in Contender, Complete(c) PROVE RecordedAfterRun'
  BY <1>4 DEF Complete
<1>5. ASSUME NEW c \in Contender, ClearRegister(c) \/ OpenDoor(c) \/ ReleaseFails(c)
      PROVE  RecordedAfterRun'
  BY <1>5 DEF ClearRegister, OpenDoor, ReleaseFails
<1>6. ASSUME NEW c \in Contender, Crash(c) PROVE RecordedAfterRun'
  BY <1>6 DEF Crash, InClaim, Owning
<1>7. CASE UNCHANGED vars
  BY <1>7 DEF vars
<1> QED
  BY <1>1, <1>2, <1>3, <1>4, <1>5, <1>6, <1>7 DEF Next

LEMMA SplitterStep == IInv /\ RInv /\ [Next]_vars => SplitterUnconditional'
<1> SUFFICES ASSUME IInv, RInv, [Next]_vars PROVE SplitterUnconditional'
  OBVIOUS
<1> USE DEF IInv, TypeOK, RInv, SplitterUnconditional, Moves
<1>1. ASSUME NEW c \in Contender,
             \/ CreateIfAbsent(c) \/ Register(c) \/ CheckDoor(c) \/ CloseDoor(c) \/ ReadBack(c)
      PROVE  SplitterUnconditional'
  BY <1>1 DEF CreateIfAbsent, Register, CheckDoor, CloseDoor, ReadBack
<1>2. ASSUME NEW c \in Contender,
             ReadOutcome(c) \/ ClaimFails(c) \/ RunEnds(c) \/ Complete(c) \/ Crash(c)
      PROVE  SplitterUnconditional'
  BY <1>2 DEF ReadOutcome, ClaimFails, InClaim, RunEnds, Complete, Crash, Owning
<1>3. ASSUME NEW c \in Contender, ClearRegister(c) \/ OpenDoor(c) \/ ReleaseFails(c)
      PROVE  SplitterUnconditional'
  BY <1>3 DEF ClearRegister, OpenDoor, ReleaseFails
<1>4. CASE UNCHANGED vars
  BY <1>4 DEF vars
<1> QED
  BY <1>1, <1>2, <1>3, <1>4 DEF Next

LEMMA ToldStep == IInv /\ RInv /\ [Next]_vars => ToldAreOut'
<1> SUFFICES ASSUME IInv, RInv, [Next]_vars PROVE ToldAreOut'
  OBVIOUS
<1> USE DEF IInv, TypeOK, RInv, ToldAreOut, Moves
<1>1. ASSUME NEW c \in Contender,
             \/ CreateIfAbsent(c) \/ Register(c) \/ CheckDoor(c) \/ CloseDoor(c) \/ ReadBack(c)
      PROVE  ToldAreOut'
  BY <1>1 DEF CreateIfAbsent, Register, CheckDoor, CloseDoor, ReadBack, Refuse
<1>2. ASSUME NEW c \in Contender,
             ReadOutcome(c) \/ ClaimFails(c) \/ RunEnds(c) \/ Complete(c) \/ Crash(c)
      PROVE  ToldAreOut'
  BY <1>2 DEF ReadOutcome, Refuse, ClaimFails, InClaim, RunEnds, Complete, Crash, Owning
<1>3. ASSUME NEW c \in Contender, ClearRegister(c) \/ OpenDoor(c) \/ ReleaseFails(c)
      PROVE  ToldAreOut'
  BY <1>3 DEF ClearRegister, OpenDoor, ReleaseFails
<1>4. CASE UNCHANGED vars
  BY <1>4 DEF vars
<1> QED
  BY <1>1, <1>2, <1>3, <1>4 DEF Next

LEMMA ReasonStep == IInv /\ RInv /\ [Next]_vars => AtomicClosedForAReason'
<1> SUFFICES ASSUME IInv, RInv, [Next]_vars PROVE AtomicClosedForAReason'
  OBVIOUS
<1> USE DEF IInv, TypeOK, RInv, AtomicClosedForAReason, SplitterUnconditional, Moves, Owning, Standing
<1>1. ASSUME NEW c \in Contender, CreateIfAbsent(c) PROVE AtomicClosedForAReason'
  BY <1>1 DEF CreateIfAbsent
<1>2. ASSUME NEW c \in Contender, Register(c) \/ CheckDoor(c) \/ CloseDoor(c) \/ ReadBack(c)
      PROVE  AtomicClosedForAReason'
  BY <1>2 DEF Register, CheckDoor, CloseDoor, ReadBack
<1>3. ASSUME NEW c \in Contender, ReadOutcome(c) \/ ClaimFails(c) \/ RunEnds(c)
      PROVE  AtomicClosedForAReason'
  BY <1>3 DEF ReadOutcome, ClaimFails, InClaim, RunEnds
<1>4. ASSUME NEW c \in Contender, Complete(c) \/ Crash(c) PROVE AtomicClosedForAReason'
  BY <1>4 DEF Complete, Crash, InClaim
<1>5. ASSUME NEW c \in Contender, ClearRegister(c) \/ OpenDoor(c) \/ ReleaseFails(c)
      PROVE  AtomicClosedForAReason'
  BY <1>5 DEF ClearRegister, OpenDoor, ReleaseFails
<1>6. CASE UNCHANGED vars
  BY <1>6 DEF vars
<1> QED
  BY <1>1, <1>2, <1>3, <1>4, <1>5, <1>6 DEF Next

\* Both invariants hold in every reachable state.
THEOREM RegisterInvariant == Spec => [](IInv /\ RInv)
<1>1. Init => IInv /\ RInv
  BY InitIInv, InitRInv
<1>2. (IInv /\ RInv) /\ [Next]_vars => (IInv /\ RInv)'
  BY NextIInv, RecordedStep, SplitterStep, ToldStep, ReasonStep DEF RInv
<1> QED
  BY <1>1, <1>2, PTL DEF Spec

\* With a conditional create no door is closed for nobody (claim(), release()).
THEOREM ClosedForAReason == Spec => []AtomicClosedForAReason
<1>1. IInv /\ RInv => AtomicClosedForAReason
  BY DEF RInv
<1> QED
  BY <1>1, RegisterInvariant, PTL

-----------------------------------------------------------------------------

\* The implementation of the single-claim register.

HolderIn(S) == IF S = {} THEN NoToken ELSE CHOOSE c \in S : TRUE

HolderOf(p) == HolderIn({c \in Contender : p[c] \in Claims})

LEMMA HolderIs ==
    ASSUME NEW p, NEW c \in Contender, p[c] \in Claims,
           \A d \in Contender : p[d] \in Claims => d = c
    PROVE  HolderOf(p) = c
<1>1. {d \in Contender : p[d] \in Claims} = {c}
  OBVIOUS
<1> QED
  BY <1>1 DEF HolderOf, HolderIn

LEMMA HolderNone ==
    ASSUME NEW p, \A d \in Contender : p[d] \notin Claims
    PROVE  HolderOf(p) = NoToken
BY DEF HolderOf, HolderIn

\* A step that moves nobody into or out of a standing claim keeps the holder.
LEMMA HolderKept ==
    ASSUME NEW p, NEW q, \A d \in Contender : p[d] \in Claims <=> q[d] \in Claims
    PROVE  HolderOf(p) = HolderOf(q)
<1>1. {d \in Contender : p[d] \in Claims} = {d \in Contender : q[d] \in Claims}
  OBVIOUS
<1> QED
  BY <1>1 DEF HolderOf

LEMMA HolderMapped == Holder = HolderOf(pc) /\ Holder' = HolderOf(pc')
BY DEF Holder, HolderOf, HolderIn, Claims

\* A contender that does not stand is not the holder.
LEMMA NotHolder ==
    ASSUME IInv, NEW c \in Contender, pc[c] \notin Claims
    PROVE  Holder # c
<1>1. CASE \E d \in Contender : pc[d] \in Claims
  <2>1. PICK d \in Contender : pc[d] \in Claims
    BY <1>1
  <2>2. HolderOf(pc) = d
    BY <2>1, HolderIs DEF IInv, OneClaim
  <2> QED
    BY <2>1, <2>2, HolderMapped
<1>2. CASE \A d \in Contender : pc[d] \notin Claims
  BY <1>2, HolderNone, HolderMapped, ClaimAssumption
<1> QED
  BY <1>1, <1>2

\* The steps by which a contender wins the claim.
LEMMA WinsClaim ==
    ASSUME IInv, IInv', NEW c \in Contender, pc'[c] \in Claims,
           \A d \in Contender : pc[d] \notin Claims
    PROVE  Holder = NoToken /\ Holder' = c
<1>1. Holder = NoToken
  BY HolderNone, HolderMapped
<1>2. \A d \in Contender : pc'[d] \in Claims => d = c
  BY DEF IInv, OneClaim
<1>3. HolderOf(pc') = c
  BY <1>2, HolderIs
<1> QED
  BY <1>1, <1>3, HolderMapped

LEMMA HoldsClaim ==
    ASSUME IInv, NEW c \in Contender, pc[c] \in Claims
    PROVE  Holder = c
<1>1. HolderOf(pc) = c
  BY HolderIs DEF IInv, OneClaim
<1> QED
  BY <1>1, HolderMapped

\* While a claim is held by one that has not completed, nothing is recorded.
LEMMA NothingRecorded ==
    ASSUME IInv, RInv, NEW c \in Contender, pc[c] \in Owning
    PROVE  marker # "recorded"
BY DEF IInv, OneClaim, RInv, RecordedAfterRun, Claims, Owning, Standing

LEMMA RegisterStep ==
    IInv /\ RInv /\ IInv' /\ [Next]_vars =>
        [Single!Next]_<<~conditional, Holder, IF marker = "recorded" THEN "recorded" ELSE "none",
                       answer>>
<1> SUFFICES ASSUME IInv, RInv, IInv', [Next]_vars
             PROVE  \/ Single!Next
                    \/ /\ conditional' = conditional
                       /\ Holder' = Holder
                       /\ (marker = "recorded") <=> (marker' = "recorded")
                       /\ answer' = answer
  OBVIOUS
<1> USE DEF Single!Next
<1>type. TypeOK
  BY DEF IInv
<1>1. ASSUME NEW c \in Contender, CreateIfAbsent(c), pc'[c] = "running"
      PROVE  Single!Claim(c)
  <2>1. marker = "absent" /\ marker' = "unfinished" /\ UNCHANGED <<conditional, answer>>
    BY <1>1, <1>type DEF CreateIfAbsent, Moves, TypeOK
  <2>2. \A d \in Contender : pc[d] \notin Claims
    BY <2>1 DEF IInv, ClaimKeepsDoorClosed, Claims
  <2>3. Holder = NoToken /\ Holder' = c
    BY <1>1, <2>2, WinsClaim DEF Claims, Owning
  <2> QED
    BY <2>1, <2>3 DEF Single!Claim
<1>2. ASSUME NEW c \in Contender, ReadBack(c), register = c
      PROVE  Single!Claim(c)
  <2>1. pc[c] = "closed" /\ pc'[c] = "running" /\ UNCHANGED <<conditional, marker, answer>>
    BY <1>2, <1>type DEF ReadBack, Moves, TypeOK
  <2>2. \A d \in Contender : pc[d] \notin Claims
    BY <1>2, <2>1 DEF IInv, OthersLost, Inside
  <2>3. Holder = NoToken /\ Holder' = c
    BY <2>1, <2>2, WinsClaim DEF Claims, Owning
  <2> QED
    BY <2>1, <2>3 DEF Single!Claim
<1>3. ASSUME NEW c \in Contender,
             (CheckDoor(c) /\ marker # "absent") \/ ReadOutcome(c)
      PROVE  Single!Refuse(c)
  <2>1. /\ pc[c] \in {"registered", "lost"}
        /\ pc' = [pc EXCEPT ![c] = "refused"]
        /\ Refuse(c)
        /\ UNCHANGED <<conditional, marker>>
    BY <1>3, <1>type DEF CheckDoor, ReadOutcome, Moves, TypeOK
  <2>2. answer[c] = "none" /\ Holder # c
    BY <2>1, NotHolder DEF RInv, ToldAreOut, Claims, Owning, Standing
  <2>3. \A d \in Contender : pc[d] \in Claims <=> pc'[d] \in Claims
    BY <2>1, <1>type DEF TypeOK, Claims, Owning, Standing
  <2>4. Holder' = Holder
    BY <2>3, HolderKept, HolderMapped
  <2> QED
    BY <2>1, <2>2, <2>4 DEF Refuse, Single!Refuse
<1>4. ASSUME NEW c \in Contender, Complete(c)
      PROVE  \/ Single!Record(c)
             \/ UNCHANGED <<conditional, Holder, marker, answer>>
  <2>1. /\ pc[c] = "completing" /\ pc' = [pc EXCEPT ![c] = "completed"]
        /\ marker' \in {marker, "recorded"} /\ UNCHANGED <<conditional, answer>>
    BY <1>4 DEF Complete, Moves
  <2>2. Holder = c /\ marker # "recorded"
    BY <2>1, HoldsClaim, NothingRecorded DEF Claims, Owning
  <2>3. \A d \in Contender : pc[d] \in Claims <=> pc'[d] \in Claims
    BY <2>1, <1>type DEF TypeOK, Claims, Owning, Standing
  <2>4. Holder' = Holder
    BY <2>3, HolderKept, HolderMapped
  <2> QED
    BY <2>1, <2>2, <2>4 DEF Single!Record
<1>5. ASSUME NEW c \in Contender, OpenDoor(c)
      PROVE  Single!Release(c)
  <2>1. /\ pc[c] = "reopening" /\ pc' = [pc EXCEPT ![c] = "released"]
        /\ marker' = "absent" /\ UNCHANGED <<conditional, answer>>
    BY <1>5 DEF OpenDoor, Moves
  <2>2. Holder = c /\ marker # "recorded"
    BY <2>1, HoldsClaim, NothingRecorded DEF Claims, Owning
  <2>3. \A d \in Contender : pc'[d] \notin Claims
    BY <2>1, <1>type DEF IInv, TypeOK, OneClaim, Claims, Owning, Standing
  <2>4. Holder' = NoToken
    BY <2>3, HolderNone, HolderMapped
  <2> QED
    BY <2>1, <2>2, <2>4 DEF Single!Release
<1>6. ASSUME NEW c \in Contender, CloseDoor(c)
      PROVE  \/ Single!Forget
             \/ /\ UNCHANGED <<conditional, Holder, answer>>
                /\ (marker = "recorded") <=> (marker' = "recorded")
  <2>1. /\ pc[c] = "sawOpen" /\ pc' = [pc EXCEPT ![c] = "closed"]
        /\ marker' = "unfinished" /\ UNCHANGED <<conditional, answer>>
    BY <1>6 DEF CloseDoor, Moves
  <2>2. \A d \in Contender : pc[d] \in Claims <=> pc'[d] \in Claims
    BY <2>1, <1>type DEF TypeOK, Claims, Owning, Standing
  <2>3. Holder' = Holder
    BY <2>2, HolderKept, HolderMapped
  <2>4. ~conditional
    BY <2>1 DEF RInv, SplitterUnconditional
  <2> QED
    BY <2>1, <2>3, <2>4 DEF Single!Forget
<1>7. ASSUME NEW c \in Contender,
             \/ CreateIfAbsent(c) /\ pc'[c] # "running"
             \/ Register(c) \/ (CheckDoor(c) /\ marker = "absent")
             \/ (ReadBack(c) /\ register # c) \/ ClaimFails(c)
             \/ RunEnds(c) \/ ClearRegister(c) \/ ReleaseFails(c) \/ Crash(c)
      PROVE  /\ UNCHANGED <<conditional, Holder, answer>>
             /\ (marker = "recorded") <=> (marker' = "recorded")
  <2>1. /\ UNCHANGED <<conditional, answer>>
        /\ (marker = "recorded") <=> (marker' = "recorded")
    BY <1>7, <1>type DEF CreateIfAbsent, Register, CheckDoor, ReadBack, ClaimFails, RunEnds,
       ClearRegister, ReleaseFails, Crash, TypeOK
  <2>2. \A d \in Contender : pc[d] \in Claims <=> pc'[d] \in Claims
    <3>1. CASE CreateIfAbsent(c) /\ pc'[c] # "running"
      BY <3>1, <1>type DEF CreateIfAbsent, Moves, TypeOK, Claims, Owning, Standing
    <3>2. CASE Register(c) \/ (CheckDoor(c) /\ marker = "absent")
      BY <3>2, <1>type DEF Register, CheckDoor, Moves, TypeOK, Claims, Owning, Standing
    <3>3. CASE (ReadBack(c) /\ register # c) \/ ClaimFails(c) \/ Crash(c)
      BY <3>3, <1>type DEF ReadBack, ClaimFails, Crash, InClaim, Moves, TypeOK, Claims, Owning,
         Standing
    <3>4. CASE RunEnds(c) \/ ClearRegister(c) \/ ReleaseFails(c)
      BY <3>4, <1>type DEF RunEnds, ClearRegister, ReleaseFails, Moves, TypeOK, Claims, Owning,
         Standing
    <3> QED
      BY <1>7, <3>1, <3>2, <3>3, <3>4
  <2>3. Holder' = Holder
    BY <2>2, HolderKept, HolderMapped
  <2> QED
    BY <2>1, <2>3
<1>8. CASE UNCHANGED vars
  <2>1. Holder' = Holder
    BY <1>8, HolderMapped DEF vars
  <2> QED
    BY <1>8, <2>1 DEF vars
<1>9. CASE Next
  BY <1>9, <1>1, <1>2, <1>3, <1>4, <1>5, <1>6, <1>7 DEF Next
<1> QED
  BY <1>8, <1>9

\* The claims are a single-claim register: one holder, who alone records or discards, true replays,
\* and with a conditional create no outcome lost (PersistentDeliveryClaimStore).
THEOREM ClaimsAreARegister == Spec => ImplementsClaimRegister
<1>1. Init => Single!Init
  <2> SUFFICES ASSUME Init PROVE Single!Init
    OBVIOUS
  <2>1. Holder = NoToken
    BY HolderNone, HolderMapped DEF Init, Claims, Owning, Standing
  <2> QED
    BY <2>1 DEF Init, Single!Init
<1>2. (IInv /\ RInv) /\ (IInv /\ RInv)' /\ [Next]_vars => [Single!Next]_(Single!rvars)
  BY RegisterStep DEF Single!rvars
<1> QED
  BY <1>1, <1>2, RegisterInvariant, PTL DEF Spec, ImplementsClaimRegister, Single!Spec

-----------------------------------------------------------------------------
\* What a redelivery may rely on, and that a claim waits for nobody.

\* With setItemIfAbsent the outcome that complete() recorded is replayed for ever.
AtomicOutcomeKept == [][conditional /\ marker = "recorded" => marker' = "recorded"]_vars

\* Who is told an outcome is told that of a run that ended, of another delivery.
ReplaysAreTrue ==
    \A c \in Contender : answer[c] = "replayed" => \E d \in Contender : d # c /\ pc[d] = "completed"

\* How far a contender has come, in storage operations and the run between them.
Progress(at) ==
    CASE at = "idle" -> 0
      [] at = "registered" -> 1
      [] at = "sawOpen" -> 2
      [] at = "closed" -> 3
      [] at \in {"lost", "running"} -> 4
      [] at \in {"completing", "releasing"} -> 5
      [] at = "reopening" -> 6
      [] at \in {"released"} \union Standing \union Out -> 7

\* A contender moves on with every step it takes, whatever the others do: it never tries again,
\* and claim() answers after at most five storage operations.
ContendersOnlyAdvance ==
    [][\E c \in Contender :
         /\ Progress(pc[c]) < Progress(pc'[c])
         /\ \A d \in Contender : d # c => pc'[d] = pc[d]]_vars

\* A conditional driver never overwrites a recorded outcome and never removes one
\* (setItemIfAbsent() in claim(), release() by the owner of an unfinished claim only).
THEOREM OutcomeKeptAtomically == Spec => AtomicOutcomeKept
<1>1. IInv /\ RInv /\ [Next]_vars =>
        [conditional /\ marker = "recorded" => marker' = "recorded"]_vars
  <2> SUFFICES ASSUME IInv, RInv, Next, conditional, marker = "recorded"
               PROVE  marker' = "recorded"
    OBVIOUS
  <2>1. ASSUME NEW c \in Contender, CloseDoor(c) PROVE FALSE
    BY <2>1 DEF CloseDoor, Moves, RInv, SplitterUnconditional
  <2>2. ASSUME NEW c \in Contender, OpenDoor(c) PROVE FALSE
    BY <2>2, NothingRecorded DEF OpenDoor, Moves, Owning
  <2>3. ASSUME NEW c \in Contender, CreateIfAbsent(c) \/ Complete(c)
        PROVE  marker' = "recorded"
    BY <2>3 DEF CreateIfAbsent, Complete
  <2>4. ASSUME NEW c \in Contender,
               \/ Register(c) \/ CheckDoor(c) \/ ReadBack(c) \/ ReadOutcome(c) \/ ClaimFails(c)
               \/ RunEnds(c) \/ ClearRegister(c) \/ ReleaseFails(c) \/ Crash(c)
        PROVE  marker' = marker
    BY <2>4 DEF Register, CheckDoor, ReadBack, ReadOutcome, ClaimFails, RunEnds, ClearRegister,
       ReleaseFails, Crash
  <2> QED
    BY <2>1, <2>2, <2>3, <2>4 DEF Next
<1> QED
  BY <1>1, RegisterInvariant, PTL DEF Spec, AtomicOutcomeKept

\* An outcome is replayed only when a run of the same event reached one (claim(), complete()).
THEOREM NoFalseReplay == Spec => []ReplaysAreTrue
<1>1. Init => ReplaysAreTrue
  BY DEF Init, ReplaysAreTrue
<1>2. IInv /\ RInv /\ ReplaysAreTrue /\ [Next]_vars => ReplaysAreTrue'
  <2> SUFFICES ASSUME IInv, RInv, ReplaysAreTrue, [Next]_vars, NEW c \in Contender,
                      answer'[c] = "replayed"
               PROVE  \E d \in Contender : d # c /\ pc'[d] = "completed"
    BY DEF ReplaysAreTrue
  <2> USE DEF IInv, TypeOK
  <2>1. \A d \in Contender : pc[d] = "completed" => pc'[d] = "completed"
    BY DEF Next, vars, Moves, CreateIfAbsent, Register, CheckDoor, CloseDoor, ReadBack, ReadOutcome,
       ClaimFails, RunEnds, Complete, ClearRegister, OpenDoor, ReleaseFails, Crash, InClaim, Owning
  <2>2. CASE answer[c] = "replayed"
    BY <2>1, <2>2 DEF ReplaysAreTrue
  <2>3. CASE answer[c] # "replayed"
    <3>1. marker = "recorded" /\ pc[c] \in {"registered", "lost"}
      BY <2>3 DEF Next, vars, Moves, Refuse, CreateIfAbsent, Register, CheckDoor, CloseDoor, ReadBack,
         ReadOutcome, ClaimFails, RunEnds, Complete, ClearRegister, OpenDoor, ReleaseFails, Crash
    <3>2. PICK d \in Contender : pc[d] = "completed"
      BY <3>1 DEF RInv, RecordedAfterRun
    <3> QED
      BY <2>1, <3>1, <3>2
  <2> QED
    BY <2>2, <2>3
<1> QED
  BY <1>1, <1>2, RegisterInvariant, PTL DEF Spec

\* No contender waits for another one, dead or alive, in claim(), complete() or release().
THEOREM ClaimsAreWaitFree == Spec => ContendersOnlyAdvance
<1>1. IInv /\ [Next]_vars =>
        [\E c \in Contender :
           /\ Progress(pc[c]) < Progress(pc'[c])
           /\ \A d \in Contender : d # c => pc'[d] = pc[d]]_vars
  <2> SUFFICES ASSUME IInv, NEW c \in Contender,
                      \/ CreateIfAbsent(c) \/ Register(c) \/ CheckDoor(c) \/ CloseDoor(c)
                      \/ ReadBack(c) \/ ReadOutcome(c) \/ ClaimFails(c)
                      \/ RunEnds(c) \/ Complete(c) \/ ClearRegister(c) \/ OpenDoor(c)
                      \/ ReleaseFails(c) \/ Crash(c)
               PROVE  /\ Progress(pc[c]) < Progress(pc'[c])
                      /\ \A d \in Contender : d # c => pc'[d] = pc[d]
    BY DEF Next
  <2> DEFINE Steps ==
        {<<"idle", "running">>, <<"idle", "failed">>, <<"idle", "lost">>, <<"idle", "registered">>,
         <<"registered", "sawOpen">>, <<"registered", "refused">>, <<"sawOpen", "closed">>,
         <<"closed", "running">>, <<"closed", "lost">>, <<"lost", "refused">>,
         <<"running", "completing">>, <<"running", "releasing">>, <<"completing", "completed">>,
         <<"releasing", "reopening">>, <<"reopening", "released">>,
         <<"releasing", "stuck">>, <<"reopening", "stuck">>}
          \union (InClaim \X {"failed"}) \union (Owning \X {"died"})
  <2>1. \A e \in Steps : Progress(e[1]) < Progress(e[2])
    BY DEF Progress, InClaim, Owning, Standing, Out
  <2>2. \E to : <<pc[c], to>> \in Steps /\ pc' = [pc EXCEPT ![c] = to]
    <3>1. CASE ClaimFails(c) \/ Crash(c)
      BY <3>1 DEF ClaimFails, Crash
    <3>2. CASE CreateIfAbsent(c) \/ Register(c) \/ CheckDoor(c) \/ CloseDoor(c) \/ ReadBack(c)
      BY <3>2 DEF CreateIfAbsent, Register, CheckDoor, CloseDoor, ReadBack, Moves
    <3>3. CASE ReadOutcome(c) \/ RunEnds(c) \/ Complete(c) \/ ClearRegister(c) \/ OpenDoor(c)
                 \/ ReleaseFails(c)
      BY <3>3 DEF ReadOutcome, RunEnds, Complete, ClearRegister, OpenDoor, ReleaseFails, Moves
    <3> QED
      BY <3>1, <3>2, <3>3
  <2> HIDE DEF Steps
  <2>3. <<pc[c], pc'[c]>> \in Steps /\ \A d \in Contender : d # c => pc'[d] = pc[d]
    BY <2>2 DEF IInv, TypeOK
  <2> QED
    BY <2>1, <2>3
<1> QED
  BY <1>1, RegisterInvariant, PTL DEF Spec, ContendersOnlyAdvance

=============================================================================
