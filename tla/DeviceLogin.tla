------------------------------ MODULE DeviceLogin ------------------------------
(***************************************************************************)
(* "zero login" and "zero logout": signIn() and signOut() of               *)
(* packages/cli/src/index.ts, each command in a process of its own, over   *)
(* the credential file they share.                                         *)
(*                                                                         *)
(* A sign-in asks the deployment for a device code and polls for the       *)
(* token.  Time is counted in units per command, down to its deadline and  *)
(* to the end of its delay; a timer may fire late and a poll may take any  *)
(* time.                                                                   *)
(***************************************************************************)
EXTENDS Naturals

CONSTANTS
    Command, SignIn, Origin, PidOf, NoToken,
    Expiry,     \* expiresInSeconds of the device code
    Interval    \* intervalSeconds the deployment asks for

ASSUME LoginAssumption ==
    /\ SignIn \subseteq Command
    /\ NoToken \notin Command
    /\ Expiry \in Nat \ {0} /\ Interval \in Nat \ {0}

VARIABLES
    target, file, scratch, at, seen, result, atomic, blurred,   \* the credential file
    phase,      \* where signIn() or signOut() is
    loop        \* the polling loop of each sign-in:
                \*   left       time to the deadline
                \*   interval   the delay before the next poll
                \*   rest       what is left of the current delay
                \*   cancelled  whether Ctrl-C was pressed on the spinner
                \*   quiet      time since the deployment last answered
                \*   slowDowns  slow_down answers so far
                \*   late       whether a poll began after the deadline

store == <<target, file, scratch, at, seen, result, atomic, blurred>>

vars == <<store, phase, loop>>

File == INSTANCE Credentials

Alive == {"requesting", "waiting", "polling", "updating"}

NewLoop(left, interval) ==
    [left |-> left, interval |-> interval, rest |-> interval, cancelled |-> FALSE,
     quiet |-> 0, slowDowns |-> 0, late |-> FALSE]

NoLoop == NewLoop(0, 0)

Init ==
    /\ File!Init
    /\ phase = [c \in Command |-> "idle"]
    /\ loop = [c \in Command |-> NoLoop]

Moves(c, from, to) == phase[c] = from /\ phase' = [phase EXCEPT ![c] = to]

\* The loop is left, and its variables with it.
Leave(c, from, to) ==
    /\ Moves(c, from, to)
    /\ loop' = [loop EXCEPT ![c] = NoLoop]

\* A process is started under an id no living process has.
Start(c) ==
    /\ \A d \in Command : PidOf[d] = PidOf[c] => phase[d] \notin Alive
    /\ \/ c \in SignIn /\ Moves(c, "idle", "requesting") /\ UNCHANGED store
       \/ c \notin SignIn /\ Moves(c, "idle", "updating") /\ File!Begin(c)
    /\ UNCHANGED loop

\* requestDeviceCode(), and the first delay.
CodeIssued(c) ==
    /\ Moves(c, "requesting", "waiting")
    /\ loop' = [loop EXCEPT ![c] = NewLoop(Expiry, Interval)]
    /\ UNCHANGED store

CodeRefused(c) == Leave(c, "requesting", "failed") /\ UNCHANGED store

Less(n) == IF n = 0 THEN 0 ELSE n - 1

\* Time passes; nothing more can happen to a command when both counts are at zero.
Pass(c) ==
    /\ phase[c] \in {"waiting", "polling"}
    /\ loop[c].left > 0 \/ loop[c].rest > 0
    /\ loop' = [loop EXCEPT ![c].left = Less(@), ![c].rest = Less(@), ![c].quiet = @ + 1]
    /\ UNCHANGED <<store, phase>>

\* Ctrl-C while the spinner runs only sets isCancelled.
Cancel(c) ==
    /\ phase[c] \in {"waiting", "polling"}
    /\ ~loop[c].cancelled
    /\ loop' = [loop EXCEPT ![c].cancelled = TRUE]
    /\ UNCHANGED <<store, phase>>

\* The delay is over: a cancelled sign-in returns, another polls, whatever the time is by now.
Wake(c) ==
    /\ loop[c].rest = 0
    /\ \/ loop[c].cancelled /\ Leave(c, "waiting", "cancelled")
       \/ /\ ~loop[c].cancelled
          /\ Moves(c, "waiting", "polling")
          /\ loop' = [loop EXCEPT ![c].late = loop[c].left = 0]
    /\ UNCHANGED store

\* The deployment answered "not yet": the loop goes on while the deadline is ahead.
Continue(c, wait, slowDowns) ==
    /\ \/ /\ loop[c].left > 0
          /\ Moves(c, "polling", "waiting")
          /\ loop' = [loop EXCEPT ![c].interval = wait, ![c].rest = wait,
                                  ![c].slowDowns = slowDowns, ![c].quiet = 0]
       \/ loop[c].left = 0 /\ Leave(c, "polling", "expired")
    /\ UNCHANGED store

\* Mutant: the deadline is left to the deployment.
MutPending(c) ==
    /\ Moves(c, "polling", "waiting")
    /\ loop' = [loop EXCEPT ![c].rest = loop[c].interval, ![c].quiet = 0]
    /\ UNCHANGED store

\* authorization_pending
Pending(c) == Continue(c, loop[c].interval, loop[c].slowDowns)

\* Mutant: the interval is what it was.
MutSlowDown(c) == Continue(c, loop[c].interval, loop[c].slowDowns + 1)

\* slow_down adds the interval the deployment asked for first.
SlowDown(c) == Continue(c, loop[c].interval + Interval, loop[c].slowDowns + 1)

\* access_denied, expired_token, any other answer, or none.
PollRefused(c) ==
    /\ \E end \in {"denied", "expired", "failed"} : Leave(c, "polling", end)
    /\ UNCHANGED store

\* Mutant: the operator is told before the token is stored.
MutTokenGranted(c) ==
    /\ Leave(c, "polling", "reported")
    /\ File!Begin(c)

\* The token is stored before the operator is told.
TokenGranted(c) ==
    /\ Leave(c, "polling", "updating")
    /\ File!Begin(c)

\* A step of the update, the last of which ends the command.
Update(c) ==
    /\ phase[c] = "updating"
    /\ File!Update(c)
    /\ phase' = [phase EXCEPT ![c] = IF at'[c] = "ended" THEN "reported" ELSE @]
    /\ UNCHANGED loop

\* The process is killed.
Crash(c) ==
    /\ \E from \in Alive : Leave(c, from, "killed")
    /\ IF phase[c] = "updating" THEN File!Die(c) ELSE UNCHANGED store

Proceed(c) ==
    \/ CodeIssued(c) \/ CodeRefused(c) \/ Wake(c)
    \/ TokenGranted(c) \/ Pending(c) \/ SlowDown(c) \/ PollRefused(c)
    \/ Update(c)

Next == \E c \in Command : Start(c) \/ Proceed(c) \/ Pass(c) \/ Cancel(c) \/ Crash(c)

\* Time passes, timers fire, fetch() settles by its own timeouts and so do file operations; the
\* operator need not act and the process need not be killed.
Fairness == \A c \in Command : WF_vars(Proceed(c)) /\ WF_vars(Pass(c))

Spec == Init /\ [][Next]_vars /\ Fairness

-----------------------------------------------------------------------------

TypeOK ==
    /\ File!TypeOK
    /\ phase \in [Command -> Alive \union
         {"idle", "cancelled", "denied", "expired", "failed", "reported", "killed"}]
    /\ \A c \in Command : phase[c] = "updating" <=> at[c] \in File!Open \union {"reading"}
    /\ loop \in [Command -> [left : 0 .. Expiry, interval : Nat, rest : Nat, cancelled : BOOLEAN,
                             quiet : Nat, slowDowns : Nat, late : BOOLEAN]]

\* "Polling honours the interval the deployment asked for, and backs off further whenever it answers
\* slow_down"; Ctrl-C ends it, and so does the deadline: a poll begins only when the deployment was
\* left alone for the interval and once more for every slow_down, never after Ctrl-C, and at most
\* once after the deadline, however late timers fire and answers arrive.
PollsHonest ==
    [][\A c \in Command : phase[c] # "polling" /\ phase'[c] = "polling" =>
          /\ loop[c].quiet >= Interval * (1 + loop[c].slowDowns)
          /\ ~loop[c].cancelled
          /\ loop[c].left = 0 => ~loop[c].late]_vars

\* The file keeps what commands stored in it, and scratch files of other processes stop nobody.
StoreSound == File!NoUpdateLost /\ File!OnlyLeftoversBlock

\* A command ends although the operator never approves and the deployment only ever says "not yet".
CommandEnds == \A c \in Command : phase[c] \in Alive ~> phase[c] \notin Alive

=============================================================================
