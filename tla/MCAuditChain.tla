---------------------------- MODULE MCAuditChain ----------------------------
(* Two transactions at a time on two cases of one customer.                *)
EXTENDS AuditChain, TLC

CONSTANTS w1, w2, c1, c2

TwoWriters == {w1, w2}
TwoCases == {c1, c2}

\* Opened by two processes at once: the younger id got the earlier date.
MCId == c1 :> 1 @@ c2 :> 2
MCOpened == c1 :> 1 @@ c2 :> 0

WriterSymmetry == Permutations(TwoWriters)
=============================================================================
