----------------------------- MODULE SideEffect -----------------------------
(***************************************************************************)
(* What the executor promises about one action, whatever the outbox, the   *)
(* workers and the crashes do (TR-23, TR-27, TR-57): its channel is called *)
(* at most once, and its cost is added at most once and only after that    *)
(* call.  A call whose cost never arrives is the accepted gap.             *)
(***************************************************************************)
EXTENDS Integers

CONSTANT Actions

VARIABLES calls, charges

Init ==
    /\ calls = [a \in Actions |-> 0]
    /\ charges = [a \in Actions |-> 0]

Call(a) ==
    /\ calls[a] = 0
    /\ calls' = [calls EXCEPT ![a] = 1]
    /\ UNCHANGED charges

Charge(a) ==
    /\ calls[a] = 1 /\ charges[a] = 0
    /\ charges' = [charges EXCEPT ![a] = 1]
    /\ UNCHANGED calls

Next == \E a \in Actions : Call(a) \/ Charge(a)

Spec == Init /\ [][Next]_<<calls, charges>>
=============================================================================
