---------------------------- MODULE PolicyRules ----------------------------
(***************************************************************************)
(* The compliance gate (policy/engine.py and policy/rules): a pure         *)
(* function of an action and of a context gathered beforehand.             *)
(*                                                                         *)
(* An action a is a record of channel, category, cost, due_at, attempt and *)
(* consumes, a context c one of the facts of policy/context.py.  Instants  *)
(* are ticks since a midnight in UTC.                                      *)
(***************************************************************************)
EXTENDS Integers, FiniteSetsExt, Sequences, CaseStates

CONSTANTS
    Day,          \* ticks in a day, the window of the cap per channel
    Week,         \* ticks in the window of the caps over all channels
    Opens,        \* local time from which messages may be sent
    Closes,       \* and from which they may no longer
    VoiceOpens,
    VoiceCloses,
    GLOBAL_DAILY_CAP,
    NULL

ASSUME PolicyConstants ==
    /\ Day \in Nat /\ Week \in Nat /\ Week >= Day
    /\ Opens \in 0..Closes - 1 /\ Closes \in 1..Day
    /\ VoiceOpens \in 0..VoiceCloses - 1 /\ VoiceCloses \in 1..Day
    /\ GLOBAL_DAILY_CAP \in Nat
    /\ NULL \notin Nat

Channels == {"sms", "whatsapp", "email", "voice", "payment_retry", "link", "human_review"}
NON_CONTACT_CHANNELS == {"payment_retry", "link"}

IsContact(a) == a.channel \notin NON_CONTACT_CHANNELS
-----------------------------------------------------------------------------
(* The kill switch and the stopping rules.                                 *)

\* Tripped for all playbooks or for the case's.
KillSwitchActive(c) == c.tripped

\* One STOP by SMS is for every channel and cannot be taken back.
OptedOut(c) == \E e \in c.consent_events : ~e.granted /\ e.source = "sms_stop"

AttemptsUsedUp(a, c) == a.attempt > c.max_attempts

TooOld(c) == c.now - c.opened_at > c.max_case_age

MandateGone(c) == c.mandate # NULL /\ c.mandate.status \in {"revoked", "expired"}

\* A promise is a date, and over as soon as that date begins.
PromiseActive(c) == c.promise_to_pay # NULL /\ c.promise_to_pay > c.now \div Day
-----------------------------------------------------------------------------
(* The other rules.                                                        *)

CannotDebit(c) ==
    /\ c.mandate # NULL
    /\ \/ c.at_risk > c.mandate.max_amount
       \/ c.now \div Day \notin c.mandate.valid_from .. c.mandate.valid_until

DomainGuard(a, c) ==
    \/ c.state \in Terminal
    \/ c.arm = "control"
    \/ a.channel = "payment_retry" /\ (~c.retryable \/ CannotDebit(c))

\* Mutation of ConsentAt: it takes any word for the last.
ConsentEver(c, channel, when) ==
    \E e \in c.consent_events : e.channel = channel /\ e.granted /\ e.occurred_at <= when

\* The latest word on a channel by an instant.  Of two words at one instant the
\* one the database returns first counts; c.tie says which that is.
ConsentAt(c, channel, when) ==
    LET relevant == {e \in c.consent_events : e.channel = channel /\ e.occurred_at <= when}
        latest == {e \in relevant : \A f \in relevant : f.occurred_at <= e.occurred_at}
    IN  /\ relevant # {}
        /\ \/ \A e \in latest : e.granted
           \/ c.tie /\ \E e \in latest : e.granted

NoConsent(a, c) == IsContact(a) /\ ~ConsentAt(c, a.channel, a.due_at)

DndRegistered(a, c) == a.category = "promotional" /\ c.dnd

OpensFor(channel) == IF channel = "voice" THEN VoiceOpens ELSE Opens
ClosesFor(channel) == IF channel = "voice" THEN VoiceCloses ELSE Closes

\* Mutation of LocalTime: it reads the server's clock.
ServerTime(c) == c.now % Day

LocalTime(c) == (c.now + c.utc_offset) % Day

QuietHours(a, c) ==
    /\ a.channel \notin NON_CONTACT_CHANNELS \cup {"email"}
    /\ LocalTime(c) \notin OpensFor(a.channel) .. ClosesFor(a.channel) - 1

\* Mutation of NextWindowOpen: it does not look whether that is over.
TodaysOpening(a, c) == c.now - LocalTime(c) + OpensFor(a.channel)

\* Today's opening if it is still to come, or else tomorrow's.
NextWindowOpen(a, c) ==
    LET today == c.now - LocalTime(c) + OpensFor(a.channel)
    IN  IF today <= c.now THEN today + Day ELSE today

Within(c, window) == {e \in c.contact_history : e.occurred_at > c.now - window}

\* The caps in their order: the contacts each counts, how many of them breach
\* it, and its window.
Caps(a, c) ==
    << [counted |-> {e \in Within(c, Day) : e.channel = a.channel}, cap |-> 1, window |-> Day],
       [counted |-> Within(c, Week), cap |-> 3, window |-> Week],
       [counted |-> IF a.channel = "voice" THEN {e \in Within(c, Week) : e.channel = "voice"}
                                           ELSE {},
        cap |-> 1, window |-> Week] >>

\* Mutation of Breached: one contact too many.
Overrun(a, c) ==
    {i \in DOMAIN Caps(a, c) : Cardinality(Caps(a, c)[i].counted) > Caps(a, c)[i].cap}

Breached(a, c) ==
    {i \in DOMAIN Caps(a, c) : Cardinality(Caps(a, c)[i].counted) >= Caps(a, c)[i].cap}

FrequencyCap(a, c) == IsContact(a) /\ Breached(a, c) # {}

\* Mutation of OldestLeaves: it waits for the newest.
NewestLeaves(a, c) ==
    LET breached == Caps(a, c)[Min(Breached(a, c))]
    IN  Max({e.occurred_at : e \in breached.counted}) + breached.window

\* The oldest contact counted leaves the window of the first cap breached.
OldestLeaves(a, c) ==
    LET breached == Caps(a, c)[Min(Breached(a, c))]
    IN  Min({e.occurred_at : e \in breached.counted}) + breached.window

CostCeiling(a, c) ==
    \/ c.cost_spent + a.cost > c.cost_ceiling
    \/ c.daily_spend + a.cost > GLOBAL_DAILY_CAP

MandateExhausted(a, c) ==
    a.consumes /\ c.mandate # NULL /\ c.mandate.used >= c.mandate.cap

\* A channel without a bucket is not limited.
RateLimited(a, c) ==
    a.channel \in DOMAIN c.rate_limit_tokens /\ c.rate_limit_tokens[a.channel] <= 0
-----------------------------------------------------------------------------
(* The engine.                                                             *)

STOPPING_OUTCOMES ==
    [customer_opt_out |-> "suppressed", dispute_filed |-> "suppressed", already_paid |-> NULL,
     max_attempts_reached |-> "lost", max_case_age |-> "expired",
     mandate_revoked |-> "escalated", promise_to_pay_active |-> NULL,
     customer_deceased_or_closed |-> "suppressed"]

RULES ==
    << "kill_switch_active", "customer_opt_out", "dispute_filed", "already_paid",
       "max_attempts_reached", "max_case_age", "mandate_revoked", "promise_to_pay_active",
       "customer_deceased_or_closed", "domain_guard", "no_consent", "dnd_registered",
       "quiet_hours", "frequency_cap", "cost_ceiling", "mandate_exhausted",
       "awaiting_approval", "rate_limited" >>

ASSUME NullIsNoRule == NULL \notin {RULES[i] : i \in DOMAIN RULES}

Fires(rule, a, c) ==
    CASE rule = "kill_switch_active"   -> KillSwitchActive(c)
      [] rule = "customer_opt_out"     -> OptedOut(c)
      [] rule = "dispute_filed"        -> c.dispute_exists
      [] rule = "already_paid"         -> c.state \in Recovered
      [] rule = "max_attempts_reached" -> AttemptsUsedUp(a, c)
      [] rule = "max_case_age"         -> TooOld(c)
      [] rule = "mandate_revoked"      -> MandateGone(c)
      [] rule = "promise_to_pay_active" -> PromiseActive(c)
      [] rule = "customer_deceased_or_closed" -> c.account_closed
      [] rule = "domain_guard"         -> DomainGuard(a, c)
      [] rule = "no_consent"           -> NoConsent(a, c)
      [] rule = "dnd_registered"       -> DndRegistered(a, c)
      [] rule = "quiet_hours"          -> QuietHours(a, c)
      [] rule = "frequency_cap"        -> FrequencyCap(a, c)
      [] rule = "cost_ceiling"         -> CostCeiling(a, c)
      [] rule = "mandate_exhausted"    -> MandateExhausted(a, c)
      [] rule = "awaiting_approval"    -> c.state = "awaiting_approval"
      [] rule = "rate_limited"         -> RateLimited(a, c)

\* A rule whose cause passes defers, to a date if it knows one.
DeferUntil(rule, a, c) ==
    CASE rule = "promise_to_pay_active" -> c.promise_to_pay * Day
      [] rule = "quiet_hours"           -> NextWindowOpen(a, c)
      [] rule = "frequency_cap"         -> OldestLeaves(a, c)
      [] rule = "rate_limited"          -> c.now + 1
      [] OTHER                          -> NULL

Defers(rule) ==
    rule \in {"promise_to_pay_active", "quiet_hours", "frequency_cap", "awaiting_approval",
              "rate_limited"}

\* The first rule that fires decides, and none allows.
Evaluate(a, c) ==
    LET firing == {i \in DOMAIN RULES : Fires(RULES[i], a, c)}
        rule == RULES[Min(firing)]
    IN  IF firing = {}
        THEN [verdict |-> "allow", rule_id |-> NULL, defer_until |-> NULL]
        ELSE [verdict |-> IF Defers(rule) THEN "defer" ELSE "deny",
              rule_id |-> rule, defer_until |-> DeferUntil(rule, a, c)]
=============================================================================
