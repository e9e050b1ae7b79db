------------------------------ MODULE Planner ------------------------------
(***************************************************************************)
(* From a playbook to a plan (planning/planner.py): which steps are kept   *)
(* under the cost ceiling, and when each is due.                           *)
(*                                                                         *)
(* A playbook is a record of cost_ceiling_pct, max_attempts, max_case_age  *)
(* and steps; a step one of channel, category, cost, required, consumes,   *)
(* offset, after (the step it is relative to, 0 if it is fixed) and        *)
(* at_risk_below (0 if it is never skipped).  A percentage is the fraction *)
(* num / den its decimal digits stand for, since the ceiling is computed   *)
(* from Decimal(str(pct)); an offset of any number of hours is a whole     *)
(* number of ticks, as a timedelta is one of microseconds.                 *)
(***************************************************************************)
EXTENDS Integers, Sequences, FiniteSetsExt

\* Above 0 and at most 10.
Percentage(pct) == pct.den \in Nat \ {0} /\ pct.num \in 1..10 * pct.den

\* What the schema admits: some steps, an attempt and a day at least, nothing negative, a
\* relative step names an earlier one.
WellFormed(playbook) ==
    /\ Percentage(playbook.cost_ceiling_pct)
    /\ {playbook.max_attempts, playbook.max_case_age} \subseteq Nat \ {0}
    /\ Len(playbook.steps) \in Nat \ {0} /\ DOMAIN playbook.steps = 1..Len(playbook.steps)
    /\ \A i \in DOMAIN playbook.steps :
        /\ playbook.steps[i].cost \in Nat /\ playbook.steps[i].offset \in Nat
        /\ playbook.steps[i].at_risk_below \in Nat /\ playbook.steps[i].required \in BOOLEAN
        /\ playbook.steps[i].after \in 0..i - 1

ApplicableSteps(playbook, at_risk) ==
    {i \in DOMAIN playbook.steps : at_risk >= playbook.steps[i].at_risk_below}

\* More than the playbook may spend of an amount.
ExceedsShare(playbook, at_risk, cost) ==
    cost * (100 * playbook.cost_ceiling_pct.den) > at_risk * playbook.cost_ceiling_pct.num

\* Mutation of CeilingFor: it rounds up.
CeilingRoundedUp(playbook, at_risk) ==
    LET pct == playbook.cost_ceiling_pct
    IN  (at_risk * pct.num + 100 * pct.den - 1) \div (100 * pct.den)

\* Rounded down to whole paise.
CeilingFor(playbook, at_risk) ==
    (at_risk * playbook.cost_ceiling_pct.num) \div (100 * playbook.cost_ceiling_pct.den)

CostOf(playbook, steps) == MapThenSumSet(LAMBDA i : playbook.steps[i].cost, steps)

Optional(playbook, steps) == {i \in steps : ~playbook.steps[i].required}

\* The steps without the last n that may be dropped.
WithoutLast(playbook, steps, n) ==
    {i \in steps : i \in Optional(playbook, steps) =>
        Cardinality({j \in Optional(playbook, steps) : j >= i}) > n}

\* As few steps are dropped as will do, all that may be if none will.
FitToCeiling(playbook, steps, ceiling) ==
    LET all == Cardinality(Optional(playbook, steps))
        fitting == {n \in 0..all : CostOf(playbook, WithoutLast(playbook, steps, n)) <= ceiling}
    IN  WithoutLast(playbook, steps, Min(fitting \cup {all}))

IncludedSteps(playbook, at_risk) ==
    FitToCeiling(playbook, ApplicableSteps(playbook, at_risk), CeilingFor(playbook, at_risk))

\* Offsets add up along a chain of relative steps.
DueDates(playbook, now) ==
    LET due[i \in DOMAIN playbook.steps] ==
            playbook.steps[i].offset
            + IF playbook.steps[i].after = 0 THEN now ELSE due[playbook.steps[i].after]
    IN  due

\* No UnaffordablePlaybookError, no PlanningError over a step relative to one that
\* is left out, and no ValueError of Plan over dates out of order.
CanBePlanned(playbook, at_risk) ==
    LET included == IncludedSteps(playbook, at_risk)
        dates == DueDates(playbook, 0)
    IN  /\ CostOf(playbook, included) <= CeilingFor(playbook, at_risk)
        /\ \A i \in included : playbook.steps[i].after \in included \cup {0}
        /\ \A i, j \in included : i < j => dates[i] <= dates[j]
=============================================================================
