----------------------------- MODULE MCRecovery -----------------------------
(* Two workers and a caller of suppress_case deal with one planned case.   *)
EXTENDS Recovery, TLC

CONSTANTS w1, w2, s1, a1, a2, c1

TwoWorkers == {w1, w2}
OneCaller == {s1}
TwoActions == {a1, a2}
OneCase == {c1}
NoCase == {}
MCCaseOf == [a \in Actions |-> c1]
MCArm == [c \in Cases |-> "treatment"]

\* One rule that ends a case, one that escalates it, one that defers it.
MCCauses == {"max_case_age", "mandate_revoked", "promise_to_pay_active"}

WorkerSymmetry == Permutations(Workers) \cup Permutations(Actions)
=============================================================================
