---------------------------- MODULE Statistics -----------------------------
(***************************************************************************)
(* The figures of a benchmark run (bench/statistics.py) and the report     *)
(* made of them (bench/report.py), as functions of the outcomes of its     *)
(* cases: records of id, arm, at_risk, recovered, cost, outcome_kind (NULL *)
(* for none), reason_code, contact_events, case_state and playbook_id.     *)
(* contact_events maps the steps that reached the customer to instants.    *)
(*                                                                         *)
(* Money is paise.  A rate is a fraction of two integers, where the code   *)
(* has a float; the confidence intervals, square roots and resamples of    *)
(* such rates, and the rendering are left out.                             *)
(***************************************************************************)
EXTENDS Integers, FiniteSetsExt, PolicyRules

TotalAtRisk(outcomes) == MapThenSumSet(LAMBDA o : o.at_risk, outcomes)
TotalRecovered(outcomes) == MapThenSumSet(LAMBDA o : o.recovered, outcomes)
TotalCost(outcomes) == MapThenSumSet(LAMBDA o : o.cost, outcomes)

OfArm(outcomes, arm) == {o \in outcomes : o.arm = arm}

\* Weighted by amount, and 0 where nothing is at risk.
AmountWeightedRate(outcomes) ==
    LET at_risk == TotalAtRisk(outcomes)
    IN  IF at_risk = 0 THEN [num |-> 0, den |-> 1]
                       ELSE [num |-> TotalRecovered(outcomes), den |-> at_risk]

ArmStatistics(outcomes, arm) ==
    LET of == OfArm(outcomes, arm)
    IN  [case_count |-> Cardinality(of), at_risk_total |-> TotalAtRisk(of),
         recovered_total |-> TotalRecovered(of), recovery_rate |-> AmountWeightedRate(of)]

\* round(): to the nearest integer, and a half to the even one.
Round(num, den) ==
    LET floor == num \div den
        twice == 2 * (num - floor * den)
    IN  IF twice < den \/ (twice = den /\ floor % 2 = 0) THEN floor ELSE floor + 1

\* compare_arms raises ValueError over an arm without cases.
CanCompare(outcomes) == \A arm \in Arms : OfArm(outcomes, arm) # {}

\* The difference of two arms' rates, applied to all that is at risk.
IncrementalValue(outcomes, arm, comparison) ==
    LET t == AmountWeightedRate(OfArm(outcomes, arm))
        c == AmountWeightedRate(OfArm(outcomes, comparison))
    IN  Round((t.num * c.den - c.num * t.den) * TotalAtRisk(outcomes), t.den * c.den)

Economics(outcomes) ==
    LET value == IncrementalValue(outcomes, "treatment", "control")
        cost == TotalCost(outcomes)
        Per(num, den) == IF den > 0 THEN [num |-> num, den |-> den] ELSE NULL
    IN  [total_cost |-> cost, net_incremental_value |-> value - cost,
         cost_per_rupee_recovered |-> Per(cost, value), roi |-> Per(value - cost, cost)]

\* The most contacts in a window that starts with one of them.
MaxContactCount(contacts) ==
    LET From(s) == {t \in DOMAIN contacts :
                       contacts[t] >= contacts[s] /\ contacts[t] < contacts[s] + Week}
    IN  Max({Cardinality(From(s)) : s \in DOMAIN contacts})

\* Means over the customers contacted, as their sums and their number.
Guardrails(outcomes) ==
    LET contacted == {o \in outcomes : DOMAIN o.contact_events # {}}
    IN  [contacted |-> Cardinality(contacted),
         fatigue |-> MapThenSumSet(LAMBDA o : MaxContactCount(o.contact_events), contacted),
         opted_out |-> Cardinality({o \in contacted : o.reason_code = "customer_opt_out"})]

\* The state of a case that is open, the rule that ended one, or what it came to.
ExceptionReason(o) ==
    IF o.outcome_kind = NULL THEN o.case_state
    ELSE IF o.reason_code # NULL THEN o.reason_code ELSE o.outcome_kind

Reasons(exceptions) ==
    [id \in {o.id : o \in exceptions} |-> ExceptionReason(CHOOSE o \in exceptions : o.id = id)]

\* Mutation of ExceptionList: a case that is still open is none.
ExceptionsByOutcome(outcomes) ==
    Reasons({o \in outcomes : o.outcome_kind \notin {NULL, "recovered"}})

\* Every case that is not recovered in full, and why.
ExceptionList(outcomes) == Reasons({o \in outcomes : o.outcome_kind # "recovered"})

PlaybookBreakdown(outcomes) ==
    [playbook \in {o.playbook_id : o \in outcomes} |->
        LET group == {o \in outcomes : o.playbook_id = playbook}
        IN  [cases |-> {o.id : o \in group}, total_cost |-> TotalCost(group),
             total_recovered |-> TotalRecovered(group)]]

\* The validity statement warns unless the baseline beats the control arm.
BuildReport(outcomes, policy_denials) ==
    [per_arm |-> [arm \in Arms |-> ArmStatistics(outcomes, arm)],
     baseline_beats_control |-> IncrementalValue(outcomes, "baseline", "control") > 0,
     economics |-> Economics(outcomes),
     guardrails |-> Guardrails(outcomes),
     exceptions |-> ExceptionList(outcomes),
     policy_denials |-> policy_denials,
     playbook_breakdown |-> PlaybookBreakdown(outcomes)]
=============================================================================
