----------------------------- MODULE CaseStates -----------------------------
(***************************************************************************)
(* The state machine of a recovery case (domain/case.py), the one thing    *)
(* planning, the stopping rules, suppression and attribution all go        *)
(* through before they write cases.state.                                  *)
(***************************************************************************)
EXTENDS Integers, Sequences

Arms == {"control", "baseline", "treatment"}

Transitions ==
    [detected          |-> {"diagnosing", "suppressed"},
     diagnosing        |-> {"planned", "abstained", "suppressed"},
     abstained         |-> {"planned", "suppressed"},
     planned           |-> {"executing", "awaiting_approval", "holdout", "suppressed"},
     awaiting_approval |-> {"executing", "suppressed", "lost", "expired"},
     holdout           |-> {"awaiting_outcome"},
     executing         |-> {"executing", "awaiting_outcome", "escalated",
                            "suppressed", "lost", "expired"},
     escalated         |-> {"executing", "suppressed"},
     awaiting_outcome  |-> {"recovered", "partially_recovered", "lost", "expired"}]

Recovered == {"recovered", "partially_recovered"}
Terminal == Recovered \cup {"lost", "expired", "suppressed"}
States == DOMAIN Transitions \cup Terminal

\* Case.transition_to raises IllegalTransition unless this holds.  A control
\* case never reaches EXECUTING (I7), whatever the table says.
CanMove(arm, from, to) ==
    /\ ~(to = "executing" /\ arm = "control")
    /\ from \in DOMAIN Transitions
    /\ to \in Transitions[from]

\* Several calls of transition_to in a row, as one transaction makes them.
CanFollow(arm, path) ==
    \A i \in 1..Len(path) - 1 : CanMove(arm, path[i], path[i + 1])
=============================================================================
