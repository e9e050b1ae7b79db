------------------------------ MODULE MCOutbox ------------------------------
(* Two workers share the rows of two cases.                                *)
EXTENDS Outbox, TLC

CONSTANTS w1, w2, a1, a2, c1, c2

MCWorkers == {w1, w2}
MCActions == {a1, a2}
MCCases == {c1, c2}
MCCaseOf == a1 :> c1 @@ a2 :> c2
MCPlannedAt == a1 :> 0 @@ a2 :> 1
MCDeferTimes == {3}
=============================================================================
