------------------------------ MODULE Lifecycle ------------------------------
(***************************************************************************)
(* LifecycleMachine of packages/agent/src/state.ts: the transitions a run  *)
(* may make.  Each run constructs a machine of its own.                    *)
(***************************************************************************)
VARIABLE state

terminalStates == {"completed", "needs-human", "failed"}

TaskState ==
    {"queued", "discovering", "understanding", "validating", "planning", "executing",
     "verifying", "reviewing"} \union terminalStates

allowedTransitions ==
    {<<"queued", "discovering">>, <<"discovering", "understanding">>,
     <<"understanding", "validating">>,
     <<"validating", "planning">>, <<"validating", "completed">>, <<"validating", "needs-human">>,
     <<"planning", "executing">>, <<"planning", "completed">>, <<"planning", "needs-human">>,
     <<"executing", "verifying">>, <<"executing", "needs-human">>,
     <<"verifying", "reviewing">>, <<"verifying", "planning">>, <<"verifying", "needs-human">>,
     <<"reviewing", "completed">>, <<"reviewing", "needs-human">>}
    \union ((TaskState \ terminalStates) \X {"failed"})

canTransition(from, to) == <<from, to>> \in allowedTransitions

Init == state = "queued"

\* to(), and finish() from a state that is not terminal
To(next) ==
    /\ canTransition(state, next)
    /\ state' = next

\* The next run's machine.
Construct ==
    /\ state \in terminalStates
    /\ state' = "queued"

Next == Construct \/ \E s \in TaskState : To(s)

Spec == Init /\ [][Next]_state

=============================================================================
