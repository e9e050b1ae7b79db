------------------------------- MODULE MCGate -------------------------------
(* Cases of one customer, the last but one for a human to approve, the last too *)
(* small to pay for the step it needs.                                          *)
EXTENDS Gate, TLC

CONSTANTS k1, k2, k3, k4

MCCases == {k1, k2, k3, k4}

Step(channel, after, offset, cost, required) ==
    [channel |-> channel, category |-> "transactional", after |-> after, offset |-> offset,
     cost |-> cost, required |-> required, consumes |-> channel = "payment_retry",
     at_risk_below |-> 0]

\* The first case cannot pay for the dear step, and the free one behind it is
\* dropped before it.  The second is too small for its last step.
Messages ==
    [cost_ceiling_pct |-> [num |-> 19, den |-> 2], max_attempts |-> 1, max_case_age |-> 9,
     steps |-> << Step("sms", 0, 0, 1, TRUE), Step("sms", 1, 4, 1, FALSE),
                  Step("voice", 0, 5, 2, FALSE), Step("whatsapp", 0, 6, 2, FALSE),
                  Step("email", 0, 6, 0, FALSE) >>]

Retries ==
    [cost_ceiling_pct |-> [num |-> 10, den |-> 1], max_attempts |-> 1, max_case_age |-> 3,
     steps |-> << Step("payment_retry", 0, 0, 0, FALSE),
                  [Step("voice", 1, 1, 3, TRUE) EXCEPT !.category = "promotional"],
                  Step("email", 0, 3, 1, FALSE),
                  [Step("link", 0, 0, 0, FALSE) EXCEPT !.at_risk_below = 50] >>]

OneRetry ==
    [cost_ceiling_pct |-> [num |-> 10, den |-> 1], max_attempts |-> 1, max_case_age |-> 9,
     steps |-> << Step("payment_retry", 0, 1, 1, TRUE) >>]

MCPlaybookOf == k1 :> Messages @@ k2 :> Retries @@ k3 :> OneRetry @@ k4 :> OneRetry
MCAtRisk == k1 :> 55 @@ k2 :> 45 @@ k3 :> 70 @@ k4 :> 9
MCOpenedAt == k1 :> 0 @@ k2 :> 1 @@ k3 :> 5 @@ k4 :> 3

Usual ==
    [tie |-> FALSE, tripped |-> FALSE, dispute_exists |-> FALSE, account_closed |-> FALSE,
     mandate |-> NULL, promise_to_pay |-> NULL, retryable |-> TRUE, dnd |-> FALSE,
     rate_limit_tokens |-> <<>>, daily_spend |-> 0]

Mandate ==
    [status |-> "active", max_amount |-> 60, valid_from |-> 0, valid_until |-> 0,
     used |-> 1, cap |-> 1]

\* Each differs from the usual in what one rule asks; the mandate is too small
\* for the last case, and over when its first day is.
MCFacts ==
    { Usual,
      [Usual EXCEPT !.dnd = TRUE, !.retryable = FALSE, !.tie = TRUE,
                    !.rate_limit_tokens = "email" :> 0 @@ "sms" :> 1],
      [Usual EXCEPT !.mandate = Mandate, !.daily_spend = 98],
      [Usual EXCEPT !.mandate = [Mandate EXCEPT !.status = "revoked"]],
      [Usual EXCEPT !.promise_to_pay = 1],
      [Usual EXCEPT !.tripped = TRUE],
      [Usual EXCEPT !.dispute_exists = TRUE],
      [Usual EXCEPT !.account_closed = TRUE] }

Said(channel, granted, source, at) ==
    [channel |-> channel, granted |-> granted, source |-> source, occurred_at |-> at]

MCLedgers ==
    { {Said(channel, TRUE, "checkout", 0) : channel \in {"sms", "voice"}} }

MCWords ==
    { [channel |-> "email", granted |-> TRUE, source |-> "checkout"],
      [channel |-> "sms", granted |-> FALSE, source |-> "dashboard"],
      [channel |-> "sms", granted |-> FALSE, source |-> "sms_stop"] }

-----------------------------------------------------------------------------
(* The gate as the runner calls it: a case planned with                    *)
(* bench/baseline_playbook.yaml, on a clock of half hours, with consent to *)
(* everything, no other facts, and an offset of five and a half hours.     *)

BaselinePlaybook ==
    [cost_ceiling_pct |-> [num |-> 10, den |-> 1], max_attempts |-> 3, max_case_age |-> 336,
     steps |-> << Step("payment_retry", 0, 2, 0, FALSE), Step("email", 0, 4, 2, FALSE),
                  Step("payment_retry", 0, 48, 0, FALSE),
                  Step("payment_retry", 0, 144, 0, FALSE) >>]

RunnerCases == {k1}
RunnerPlaybookOf == k1 :> BaselinePlaybook
RunnerAtRisk == k1 :> 50
RunnerOpenedAt == k1 :> 0
RunnerFacts == {Usual}
RunnerLedgers == {{Said(channel, TRUE, "checkout", 0) : channel \in Channels}}
=============================================================================
