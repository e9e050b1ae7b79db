---------------------------- MODULE MCBenchmark -----------------------------
(* Two runs on one database, of two seeds or twice of one, in hours.       *)
EXTENDS Benchmark, TLC

Case(arm, decline, amount, detected_at) ==
    [arm |-> arm, decline |-> decline, amount |-> amount, detected_at |-> detected_at]

\* The first cohort has a case of every arm that may recover or not.  The second has
\* cases that arrive at once, one no retry is permitted for, one without a playbook and
\* one for a human to approve.
MCCohort ==
    1 :> << Case("baseline", "issuer_down", 20, 0),
            Case("control", "insufficient_funds", 30, 3),
            Case("treatment", "insufficient_funds", 25, 4) >>
    @@
    2 :> << Case("baseline", "expired_instrument", 40, 2),
            Case("treatment", "insufficient_funds", 25, 2),
            Case("treatment", "issuer_down", 30, 3),
            Case("baseline", "issuer_down", 90, 2),
            Case("control", "issuer_down", 20, 5) >>

Step(channel, after, offset, cost) ==
    [channel |-> channel, category |-> "transactional", after |-> after, offset |-> offset,
     cost |-> cost, required |-> FALSE, consumes |-> channel = "payment_retry",
     at_risk_below |-> 0]

\* bench/baseline_playbook.yaml.
MCBaseline ==
    [cost_ceiling_pct |-> [num |-> 10, den |-> 1], max_attempts |-> 3, max_case_age |-> 168,
     steps |-> << Step("payment_retry", 0, 1, 0), Step("email", 0, 2, 2),
                  Step("payment_retry", 0, 24, 0), Step("payment_retry", 0, 72, 0) >>]

\* planning/playbooks/insufficient-funds-v1.yaml with a case age of one day, for a rule
\* that ends a case to fire.
MCPlaybooks ==
    "insufficient_funds" :>
        [cost_ceiling_pct |-> [num |-> 4, den |-> 1], max_attempts |-> 3, max_case_age |-> 24,
         steps |-> << Step("payment_retry", 0, 6, 0), Step("link", 1, 24, 0) >>]

\* The retries as they are due.
MCAttempts ==
    {<<1, <<1, 1>>, t>> : t \in {1, 24, 72}} \cup {<<1, <<1, 3>>, 10>>}
    \cup {<<2, <<2, 2>>, 8>>}

ASSUME ShippedStepsApart == StepsApart
=============================================================================
