--------------------------- MODULE DeliveryClaims ----------------------------
(***************************************************************************)
(* PersistentDeliveryClaimStore of packages/api/src/control-plane.ts for   *)
(* one delivery key, with the use ingestIssueEvent (operations.ts) makes   *)
(* of it: claim(), then the run, then complete() or release().             *)
(*                                                                         *)
(* A contender is one delivery of the same event, in any process.  The     *)
(* storage is shared; each getItem, setItem and removeItem is one atomic   *)
(* step and may fail.  With a driver that has setItemIfAbsent the claim is *)
(* that one operation; without, it is the splitter over two keys: the      *)
(* contender register and the marker (the "door").                         *)
(***************************************************************************)
CONSTANTS
    Contender,  \* deliveries of one event
    NoToken     \* an empty contender register

ASSUME ClaimAssumption == NoToken \notin Contender

VARIABLES
    conditional,  \* whether the driver has setItemIfAbsent
    register,     \* the token under contenderStorageKey(), one token per contender
    marker,       \* the record under deliveryStorageKey(): absent, unfinished or recorded
    pc,           \* where each contender is
    answer        \* what a contender that may not run was told

vars == <<conditional, register, marker, pc, answer>>

\* The contender's run is in progress, or it is undoing its claim.
Owning == {"running", "completing", "releasing", "reopening"}

\* The contender's claim stands for ever: its run ended, its process died during the run, or
\* removing its claim failed.
Standing == {"completed", "died", "stuck"}

\* The contender will do nothing more and never ran.
Out == {"refused", "failed"}

InClaim == {"registered", "sawOpen", "closed", "lost"}

Moves(c, from, to) == pc[c] = from /\ pc' = [pc EXCEPT ![c] = to]

-----------------------------------------------------------------------------

Init ==
    /\ conditional \in BOOLEAN
    /\ register = NoToken
    /\ marker = "absent"
    /\ pc = [c \in Contender |-> "idle"]
    /\ answer = [c \in Contender |-> "none"]

\* setItemIfAbsent(): creates the marker and claims (or loses the driver's answer), or finds one.
CreateIfAbsent(c) ==
    /\ conditional
    /\ \/ /\ marker = "absent"
          /\ marker' = "unfinished"
          /\ Moves(c, "idle", "running") \/ Moves(c, "idle", "failed")
       \/ /\ marker # "absent"
          /\ Moves(c, "idle", "lost")
          /\ UNCHANGED marker
    /\ UNCHANGED <<conditional, register, answer>>

\* setItem(contenderKey, token)
Register(c) ==
    /\ ~conditional
    /\ Moves(c, "idle", "registered")
    /\ register' = c
    /\ UNCHANGED <<conditional, marker, answer>>

\* Mutants: any record is replayed; the record itself is returned.
MutRefuseReplays(c) ==
    answer' = [answer EXCEPT ![c] = IF marker # "absent" THEN "replayed" ELSE "ignored"]

MutRefuseRaw(c) == answer' = [answer EXCEPT ![c] = marker]

\* The contender is told the recorded outcome, or that an unfinished claim stands.
Refuse(c) ==
    answer' = [answer EXCEPT ![c] = IF marker = "recorded" THEN "replayed" ELSE "ignored"]

\* Mutant: the door is not looked at, which leaves a bare write-then-read.
MutCheckDoor(c) ==
    /\ Moves(c, "registered", "sawOpen")
    /\ UNCHANGED <<conditional, register, marker, answer>>

\* existing = getItem(storageKey): a closed door refuses.
CheckDoor(c) ==
    /\ \/ /\ marker = "absent"
          /\ Moves(c, "registered", "sawOpen")
          /\ UNCHANGED answer
       \/ /\ marker # "absent"
          /\ Moves(c, "registered", "refused")
          /\ Refuse(c)
    /\ UNCHANGED <<conditional, register, marker>>

\* setItem(storageKey, marker): unconditional, whatever the marker is by now.
CloseDoor(c) ==
    /\ Moves(c, "sawOpen", "closed")
    /\ marker' = "unfinished"
    /\ UNCHANGED <<conditional, register, answer>>

\* lastContender = getItem(contenderKey): the delivery is owned if it is still this token.
ReadBack(c) ==
    /\ \/ register = c /\ Moves(c, "closed", "running")
       \/ register # c /\ Moves(c, "closed", "lost")
    /\ UNCHANGED <<conditional, register, marker, answer>>

\* recordedOutcome()
ReadOutcome(c) ==
    /\ Moves(c, "lost", "refused")
    /\ Refuse(c)
    /\ UNCHANGED <<conditional, register, marker>>

\* Mutant: a failing claim() opens the door it found or closed.
MutClaimFails(c) ==
    /\ pc[c] \in InClaim
    /\ pc' = [pc EXCEPT ![c] = "failed"]
    /\ marker' = "absent"
    /\ UNCHANGED <<conditional, register, answer>>

\* A storage operation of claim() rejects.  Nobody undoes what claim() did before it.
ClaimFails(c) ==
    /\ pc[c] \in InClaim
    /\ pc' = [pc EXCEPT ![c] = "failed"]
    /\ UNCHANGED <<conditional, register, marker, answer>>

\* runIssueTask() resolves with an outcome, or rejects.
RunEnds(c) ==
    /\ Moves(c, "running", "completing") \/ Moves(c, "running", "releasing")
    /\ UNCHANGED <<conditional, register, marker, answer>>

\* complete(): the write is best effort.
Complete(c) ==
    /\ Moves(c, "completing", "completed")
    /\ marker' \in {marker, "recorded"}
    /\ UNCHANGED <<conditional, register, answer>>

\* release(): the register goes first, then the door; a failing removal ends it.
ClearRegister(c) ==
    /\ Moves(c, "releasing", "reopening")
    /\ register' = NoToken
    /\ UNCHANGED <<conditional, marker, answer>>

\* Mutant: only the register is removed.
MutOpenDoor(c) ==
    /\ Moves(c, "reopening", "released")
    /\ UNCHANGED <<conditional, register, marker, answer>>

OpenDoor(c) ==
    /\ Moves(c, "reopening", "released")
    /\ marker' = "absent"
    /\ UNCHANGED <<conditional, register, answer>>

ReleaseFails(c) ==
    /\ Moves(c, "releasing", "stuck") \/ Moves(c, "reopening", "stuck")
    /\ UNCHANGED <<conditional, register, marker, answer>>

\* The process of a contender dies.
Crash(c) ==
    /\ pc[c] \in InClaim \union Owning
    /\ pc' = [pc EXCEPT ![c] = IF pc[c] \in Owning THEN "died" ELSE "failed"]
    /\ UNCHANGED <<conditional, register, marker, answer>>

Next ==
    \E c \in Contender :
        \/ CreateIfAbsent(c) \/ Register(c) \/ CheckDoor(c) \/ CloseDoor(c) \/ ReadBack(c)
        \/ ReadOutcome(c) \/ ClaimFails(c)
        \/ RunEnds(c) \/ Complete(c) \/ ClearRegister(c) \/ OpenDoor(c) \/ ReleaseFails(c)
        \/ Crash(c)

Spec == Init /\ [][Next]_vars

-----------------------------------------------------------------------------

TypeOK ==
    /\ conditional \in BOOLEAN
    /\ register \in Contender \union {NoToken}
    /\ marker \in {"absent", "unfinished", "recorded"}
    /\ pc \in [Contender -> {"idle", "released"} \union InClaim \union Owning \union Standing
                              \union Out]
    /\ answer \in [Contender -> {"none", "replayed", "ignored"}]

\* "Two contenders can never both win", read for the runs it guards: while one delivery runs no
\* other runs, has run to its end, or died running.  Only a completed release() lets a second one.
NoDuplicateRun ==
    \A c, d \in Contender :
        c # d /\ pc[c] \in Owning => pc[d] \notin Owning \union Standing

\* Every claim that stands, running or not, keeps the door closed to later deliveries.
ClaimKeepsDoorClosed ==
    \A c \in Contender : pc[c] \in Owning \union Standing => marker # "absent"

\* The outcome that complete() recorded stays recorded: redeliveries replay it.
OutcomeKept == [][marker = "recorded" => marker' = "recorded"]_vars

\* With setItemIfAbsent a closed door is always somebody's: a run, a claim that stands, or one whose
\* creation the driver did not confirm.
AtomicClosedForAReason ==
    conditional /\ marker # "absent" =>
        \E c \in Contender : pc[c] \in Owning \union Standing \union {"failed"}

-----------------------------------------------------------------------------

\* Whose claim stands, of which there is at most one.
Holder ==
    LET standing == {c \in Contender : pc[c] \in Owning \union Standing}
    IN  IF standing = {} THEN NoToken ELSE CHOOSE c \in standing : TRUE

Single == INSTANCE ClaimRegister WITH
    NoHolder <- NoToken,
    forgetful <- ~conditional,
    holder <- Holder,
    outcome <- IF marker = "recorded" THEN "recorded" ELSE "none"

\* "At most one contender ever claims", only the holder records or discards, a recorded outcome is
\* replayed and, with a conditional create, never lost: the claims are a single-claim register.
ImplementsClaimRegister == Single!Spec

=============================================================================
