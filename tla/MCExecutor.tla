----------------------------- MODULE MCExecutor -----------------------------
(* Two workers run the plan of one case: one step, or two.                 *)
EXTENDS Executor, TLC

CONSTANTS w1, w2, a1, a2, c1

MCWorkers == {w1, w2}
OneAction == {a1}
TwoActions == {a1, a2}
MCCases == {c1}
MCCaseOf == [a \in Actions |-> c1]
MCPlannedAt == [a \in Actions |-> 0]
MCDeferTimes == {2}
MCCost == [a \in Actions |-> IF a = a1 THEN 1 ELSE 2]

\* persist_plan sets the ceiling to fund every step of the plan once.
MCCeiling == [c \in Cases |-> IF a2 \in Actions THEN 3 ELSE 1]

\* Workers are interchangeable: no definition tells one from another.
WorkerSymmetry == Permutations(MCWorkers)
=============================================================================
