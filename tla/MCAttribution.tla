---------------------------- MODULE MCAttribution ----------------------------
(* Two runs attribute two payments of a customer with two open cases, one  *)
(* acted on and one held out.                                              *)
EXTENDS Attribution, TLC

CONSTANTS r1, r2, p1, p2, c1, c2

TwoRuns == {r1, r2}
TwoPayments == {p1, p2}
TwoCases == {c1, c2}

\* Both were opened at once, so that their ids decide.  p1 is all that c2 asks
\* for and p2 half of it: each is a part payment of c1.
MCOpened == c1 :> 0 @@ c2 :> 0
MCAtRisk == c1 :> 50000 @@ c2 :> 20000
MCArm == c1 :> "treatment" @@ c2 :> "control"
MCId == c1 :> 1 @@ c2 :> 2
MCAmount == p1 :> 20000 @@ p2 :> 10000

RunSymmetry == Permutations(TwoRuns)
=============================================================================
