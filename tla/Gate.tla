-------------------------------- MODULE Gate --------------------------------
(***************************************************************************)
(* The cases of one customer from plan to contact: persist_plan            *)
(* (planning/repository.py), the gate over what is due and what follows    *)
(* its answer (bench/runner.py, execution/stopping.py, executor.py), and   *)
(* the ledgers the gate reads (policy/repository.py).                      *)
(*                                                                         *)
(* One process gates and executes, as the runner does, on a clock that     *)
(* stands still meanwhile; what several do to one another is the matter of *)
(* Recovery and Executor.  The context is gathered as PolicyContext asks   *)
(* but for the contact history: the runner, the only caller of the gate,   *)
(* records contacts and hands over none (runner.py:406-415), and only a    *)
(* caller that LoadsContacts hands over load_contact_history.              *)
(***************************************************************************)
EXTENDS PolicyRules, Planner

CONSTANTS
    Cases,               \* the customer's cases
    PlaybookOf,          \* the playbook each is planned with
    AtRisk,              \* its amount in paise
    APPROVAL_THRESHOLD,
    OpenedAt,            \* when it is opened and planned
    LoadsContacts,       \* FALSE is the runner; TRUE a caller that reads the contact ledger
    Facts,               \* what may be true of customer, mandate and limits
    Offsets,             \* the customer's possible offsets from UTC
    Ledgers,             \* the consent the customer may start with
    Words,               \* and consent events that may follow
    MaxTime,             \* bound of the clock,
    MaxWords,            \* of the words that follow,
    MaxDelay             \* and of the time a due row waits

ASSUME GateConstants ==
    /\ \A k \in Cases : WellFormed(PlaybookOf[k]) /\ AtRisk[k] \in Nat \ {0}
    /\ LoadsContacts \in BOOLEAN
    /\ {MaxTime, MaxWords, MaxDelay} \subseteq Nat
    /\ Offsets \subseteq Int
    /\ \A f \in Facts : f.promise_to_pay \in Nat \cup {NULL}
    /\ \A ledger \in Ledgers : \A e \in ledger : e.occurred_at \in Int

VARIABLES
    now,
    words,           \* consent events recorded since
    fact,            \* which of them is
    utc_offset,      \* the customer's
    state,           \* cases.state
    cost_spent,
    cost_ceiling,
    due,             \* due_at of every planned step, NULL for one left out
    row_due,         \* due_at of its outbox row, which a promise moves
    decision,        \* its policy_decisions row, or "none", or "cancelled"
    consent_events,
    contact_events

caseVars == <<state, cost_spent, cost_ceiling>>
planVars == <<due, row_due, decision>>
world == <<words, fact, utc_offset, consent_events>>
vars == <<now, world, caseVars, planVars, contact_events>>

StepsOf(k) == DOMAIN PlaybookOf[k].steps
Planned(k) == {i \in StepsOf(k) : due[k][i] # NULL}

None == [verdict |-> "none"]
Cancelled == [verdict |-> "cancelled"]
Decisions == [verdict : {"allow", "defer", "deny"}, at : 0..MaxTime,
              rule_id : {RULES[i] : i \in DOMAIN RULES} \cup {NULL},
              defer_until : Nat \cup {NULL}]

TypeOK ==
    /\ now \in 0..MaxTime
    /\ words \in 0..MaxWords
    /\ fact \in Facts
    /\ utc_offset \in Offsets
    /\ \A k \in Cases :
        /\ state[k] \in States
        /\ {cost_spent[k], cost_ceiling[k]} \subseteq 0..AtRisk[k]
        /\ due[k] \in [StepsOf(k) -> Nat \cup {NULL}]
        /\ row_due[k] \in [StepsOf(k) -> Nat \cup {NULL}]
        /\ decision[k] \in [StepsOf(k) -> Decisions \cup {None, Cancelled}]
        /\ \A i \in StepsOf(k) : decision[k][i] # None => i \in Planned(k)

ForEachStep(x) == [k \in Cases |-> [i \in StepsOf(k) |-> x]]

Init ==
    /\ now = 0
    /\ words = 0
    /\ fact \in Facts
    /\ utc_offset \in Offsets
    /\ state = [k \in Cases |-> "detected"]
    /\ cost_spent = [k \in Cases |-> 0]
    /\ cost_ceiling = [k \in Cases |-> 0]
    /\ due = ForEachStep(NULL)
    /\ row_due = ForEachStep(NULL)
    /\ decision = ForEachStep(None)
    /\ consent_events \in Ledgers
    /\ contact_events = {}
-----------------------------------------------------------------------------
(* The world.                                                              *)

\* An outbox row that is due and has not been decided; a second decision on it
\* would be refused (uq_policy_decisions_action_attempt).
Due(k, i) == i \in Planned(k) /\ decision[k][i] = None /\ row_due[k][i] <= now

Advance ==
    /\ now < MaxTime
    /\ \A k \in Cases :
        /\ OpenedAt[k] = now /\ CanBePlanned(PlaybookOf[k], AtRisk[k]) => state[k] # "detected"
        /\ \A i \in StepsOf(k) : Due(k, i) => now < row_due[k][i] + MaxDelay
    /\ now' = now + 1
    /\ UNCHANGED <<world, caseVars, planVars, contact_events>>

\* A word of the customer's is appended to the ledger.
RecordConsent(word) ==
    /\ words < MaxWords
    /\ words' = words + 1
    /\ consent_events' = consent_events \cup
            {[channel |-> word.channel, granted |-> word.granted, source |-> word.source,
              occurred_at |-> now]}
    /\ UNCHANGED <<now, fact, utc_offset, caseVars, planVars, contact_events>>

-----------------------------------------------------------------------------
(* Planning.                                                               *)

NeedsApproval(k) == AtRisk[k] > APPROVAL_THRESHOLD

PersistPlan(k) ==
    LET steps == IncludedSteps(PlaybookOf[k], AtRisk[k])
        dates == [i \in StepsOf(k) |->
                     IF i \in steps THEN DueDates(PlaybookOf[k], now)[i] ELSE NULL]
    IN
    /\ state[k] = "detected" /\ OpenedAt[k] = now
    /\ CanBePlanned(PlaybookOf[k], AtRisk[k])
    /\ state' = [state EXCEPT ![k] = IF NeedsApproval(k) THEN "awaiting_approval"
                                                         ELSE "executing"]
    /\ cost_ceiling' = [cost_ceiling EXCEPT ![k] = Max({@, CostOf(PlaybookOf[k], steps)})]
    /\ due' = [due EXCEPT ![k] = dates]
    /\ row_due' = [row_due EXCEPT ![k] = dates]
    /\ UNCHANGED <<now, world, cost_spent, decision, contact_events>>
-----------------------------------------------------------------------------
(* The gate.                                                               *)

ActionOf(k, i) ==
    LET step == PlaybookOf[k].steps[i] IN
    [channel |-> step.channel, category |-> step.category, cost |-> step.cost,
     consumes |-> step.consumes, due_at |-> due[k][i], attempt |-> 1]

LoadConsentEvents == consent_events

\* Of all the customer's cases, as far back as a cap looks.  No code calls it yet.
LoadContactHistory(since) == {e \in contact_events : e.occurred_at >= since}

Context(k) ==
    [now |-> now, utc_offset |-> utc_offset, state |-> state[k], arm |-> "treatment",
     at_risk |-> AtRisk[k], cost_spent |-> cost_spent[k], cost_ceiling |-> cost_ceiling[k],
     opened_at |-> OpenedAt[k], max_case_age |-> PlaybookOf[k].max_case_age,
     max_attempts |-> PlaybookOf[k].max_attempts,
     consent_events |-> LoadConsentEvents,
     contact_history |-> IF LoadsContacts THEN LoadContactHistory(now - Week) ELSE {},
     tie |-> fact.tie, tripped |-> fact.tripped, dispute_exists |-> fact.dispute_exists,
     account_closed |-> fact.account_closed, mandate |-> fact.mandate,
     promise_to_pay |-> fact.promise_to_pay, retryable |-> fact.retryable, dnd |-> fact.dnd,
     rate_limit_tokens |-> fact.rate_limit_tokens, daily_spend |-> fact.daily_spend]

Recorded(d) ==
    [verdict |-> d.verdict, rule_id |-> d.rule_id, defer_until |-> d.defer_until, at |-> now]

Decide(k, i, d) == decision' = [decision EXCEPT ![k][i] = Recorded(d)]

ContactOf(k, i) ==
    [case |-> k, step |-> i, channel |-> ActionOf(k, i).channel, occurred_at |-> now]

\* The channel is called, its cost charged and a contact recorded; a payment that
\* a retry brings in is attributed at once, in whole or in part.
Execute(k, i, d) ==
    /\ d.verdict = "allow"
    /\ Decide(k, i, d)
    /\ cost_spent' = [cost_spent EXCEPT ![k] = @ + ActionOf(k, i).cost]
    /\ \/ UNCHANGED state
       \/ /\ ActionOf(k, i).channel = "payment_retry"
          /\ \E end \in Recovered : state' = [state EXCEPT ![k] = end]
    /\ contact_events' = contact_events \cup
            IF IsContact(ActionOf(k, i)) THEN {ContactOf(k, i)} ELSE {}
    /\ UNCHANGED <<now, world, cost_ceiling, due, row_due>>

\* The channel raises: the row ends failed, with neither cost nor contact.
ExecuteFails(k, i, d) ==
    /\ d.verdict = "allow"
    /\ Decide(k, i, d)
    /\ UNCHANGED <<now, world, caseVars, due, row_due, contact_events>>

\* Whether the case can go where a stopping rule sends it.
CanStop(k, rule) ==
    STOPPING_OUTCOMES[rule] # NULL => CanMove("treatment", state[k], STOPPING_OUTCOMES[rule])

\* Refused or put off by a rule about this action alone, or by a stopping rule
\* whose transition is illegal: the error leaves the decision and no more.
Refuse(k, i, d) ==
    /\ d.verdict # "allow"
    /\ d.rule_id \in DOMAIN STOPPING_OUTCOMES => ~CanStop(k, d.rule_id)
    /\ Decide(k, i, d)
    /\ UNCHANGED <<now, world, caseVars, due, row_due, contact_events>>

Waiting(k) == {j \in Planned(k) : decision[k][j] = None}

\* apply_stopping_rule: the rows go with the case, or those due before a promised
\* date wait for it.
Stop(k, i, d) ==
    LET outcome == STOPPING_OUTCOMES[d.rule_id] IN
    /\ d.rule_id \in DOMAIN STOPPING_OUTCOMES /\ CanStop(k, d.rule_id)
    /\ state' = IF outcome = NULL THEN state ELSE [state EXCEPT ![k] = outcome]
    /\ IF d.verdict = "defer"
       THEN /\ Decide(k, i, d)
            /\ row_due' = [row_due EXCEPT ![k] =
                    [j \in StepsOf(k) |-> IF j \in Waiting(k) /\ row_due[k][j] < d.defer_until
                                          THEN d.defer_until ELSE @[j]]]
       ELSE /\ decision' = [decision EXCEPT ![k] =
                    [j \in StepsOf(k) |-> CASE j = i -> Recorded(d)
                                            [] j \in Waiting(k) \ {i} -> Cancelled
                                            [] OTHER -> @[j]]]
            /\ UNCHANGED row_due
    /\ UNCHANGED <<now, world, cost_spent, cost_ceiling, due, contact_events>>

GateAndExecute(k, i) ==
    /\ Due(k, i)
    /\ \E d \in {Evaluate(ActionOf(k, i), Context(k))} :
            Execute(k, i, d) \/ ExecuteFails(k, i, d) \/ Refuse(k, i, d) \/ Stop(k, i, d)

Next ==
    \/ Advance
    \/ \E word \in Words : RecordConsent(word)
    \/ \E k \in Cases :
        \/ PersistPlan(k)
        \/ \E i \in StepsOf(k) : GateAndExecute(k, i)

Spec == Init /\ [][Next]_vars
-----------------------------------------------------------------------------
(* Properties.                                                             *)

\* P7, R7: whatever cases they are of, a customer's contacts stay below each cap in any
\* window: one a day per channel, three a week, one call a week.  The rule keeps to it if
\* the gate is handed the contacts there were; the runner hands it none.
ContactsWithinCaps ==
    \A e \in contact_events :
        LET Since(window) == {f \in contact_events :
                f.occurred_at \in e.occurred_at - window + 1 .. e.occurred_at}
            SameChannel(S) == {f \in S : f.channel = e.channel}
        IN  /\ Cardinality(SameChannel(Since(Day))) <= 1
            /\ Cardinality(Since(Week)) <= 3
            /\ e.channel = "voice" => Cardinality(SameChannel(Since(Week))) <= 1

\* By the customer's own clock, in one of the nights, which last from a close to the next
\* day's opening.
AtNight(e) ==
    \E date \in -2 .. MaxTime \div Day + 1 :
        e.occurred_at + utc_offset
            \in date * Day + ClosesFor(e.channel) .. (date + 1) * Day + OpensFor(e.channel) - 1

\* quiet_hours.py:8-12: what interrupts a customer, and email is taken not to, keeps out of
\* the nights, however long its action waited.
OnlyEmailAtNight == \A e \in contact_events : e.channel # "email" => ~AtNight(e)

\* P3, POLICY-ENGINE.md:323: no action but a payment retry is executed in quiet hours.
NoContactAtNight == \A e \in contact_events : ~AtNight(e)

\* P4: a contact had the customer's word for its channel when it was due, whatever
\* came in since; and nobody is contacted in a tick after a STOP, on any channel.
ContactsHadConsent ==
    \A e \in contact_events :
        LET word == {f \in consent_events : f.channel = e.channel}
            asked == due[e.case][e.step]
        IN  /\ \E g \in word : /\ g.granted /\ g.occurred_at <= asked
                              /\ \A r \in word : ~r.granted =>
                                    r.occurred_at \notin g.occurred_at + 1 .. asked - 1
            /\ \A stop \in consent_events : stop.source = "sms_stop" =>
                    stop.granted \/ e.occurred_at <= stop.occurred_at

\* An action is put off no longer than its reason lasts: at every instant before
\* the date it was deferred to, the rule that deferred it would have fired again,
\* and when quiet hours deferred it, not at that date.  A cap defers only where the gate
\* is handed the contacts.
DeferredNoLongerThanNeeded ==
    \A k \in Cases : \A i \in StepsOf(k) :
        LET d == decision[k][i]
            At(t) == [now |-> t, utc_offset |-> utc_offset, contact_history |-> contact_events]
        IN  d \notin {None, Cancelled} /\ d.rule_id \in {"quiet_hours", "frequency_cap"} =>
                /\ d.defer_until > d.at
                /\ \A t \in d.at .. d.defer_until - 1 : Fires(d.rule_id, ActionOf(k, i), At(t))
                /\ d.rule_id = "quiet_hours" => ~QuietHours(ActionOf(k, i), At(d.defer_until))

\* TR-18: no step is left out that a playbook requires or that could be paid for:
\* of the steps left out for cost the first does not fit, and nothing optional
\* behind it is kept.
NothingDroppedInVain(k) ==
    Planned(k) # {} =>
        LET dropped == ApplicableSteps(PlaybookOf[k], AtRisk[k]) \ Planned(k)
            first == Min(dropped)
        IN  dropped # {} =>
                /\ \A i \in dropped : ~PlaybookOf[k].steps[i].required
                /\ \A i \in Planned(k) : i > first => PlaybookOf[k].steps[i].required
                /\ ExceedsShare(PlaybookOf[k], AtRisk[k],
                                CostOf(PlaybookOf[k], Planned(k) \cup {first}))

\* P2, and more: what is left of a case's budget pays for every step of its plan
\* still to be decided, the budget is within the playbook's share, and nothing was dropped
\* from the plan in vain.
BudgetCoversPlan ==
    \A k \in Cases :
        /\ NothingDroppedInVain(k)
        /\ cost_spent[k] + CostOf(PlaybookOf[k], {i \in Planned(k) : decision[k][i] = None})
                <= cost_ceiling[k]
        /\ ~ExceedsShare(PlaybookOf[k], AtRisk[k], cost_ceiling[k])
=============================================================================
