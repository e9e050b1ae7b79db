----------------------------- MODULE Benchmark ------------------------------
(***************************************************************************)
(* `recoup bench run` (bench/runner.py, cli.py): cohorts of failed         *)
(* payments run through the arms one after another, each against a         *)
(* simulator of its own and all on one database.                           *)
(*                                                                         *)
(* A run is one process that pops a heap of instants: a case arrives, or   *)
(* an action is due and the outbox is claimed, gated and executed.  What   *)
(* is in its memory (clock, heap, batch, simulator) is gone when it dies   *)
(* between two commits; the database stays for the next run.  The runner   *)
(* never reclaims, so a row claimed by a run that died stays claimed.      *)
(***************************************************************************)
EXTENDS Planner, Simulator, Statistics

CONSTANTS
    MaxRuns,             \* bound: the runs
    Cohort,              \* the cases generate_cohort makes of a seed
    BaselinePlaybook,
    Playbooks,           \* the treatment playbook of a root cause, where there is one
    Attempts,            \* bound: the only rolls that may succeed
    APPROVAL_THRESHOLD,
    CLAIM_BATCH_SIZE,
    ATTRIBUTION_WINDOW

\* A case of a cohort: its amount, what its payment failed for, the arm its index and
\* the seed give it, and when it is detected.
CohortCase(c) ==
    /\ c.amount \in Nat \ {0} /\ c.detected_at \in Nat
    /\ c.arm \in Arms /\ c.decline \in STRING

\* A playbook as they are shipped: its channels are exempt from quiet hours, and a step
\* costs less than all cases may in a day (runner.py:404-409, 449-463).
Shipped(playbook) ==
    /\ WellFormed(playbook)
    /\ \A i \in DOMAIN playbook.steps :
        /\ playbook.steps[i].channel \in NON_CONTACT_CHANNELS \cup {"email"}
        /\ playbook.steps[i].cost <= GLOBAL_DAILY_CAP

\* What a case comes to.
Outcomes ==
    [kind : States, recovered : Nat, reason_code : {RULES[i] : i \in DOMAIN RULES} \cup {NULL}]

ASSUME BenchmarkConstants ==
    /\ MaxRuns \in Nat
    /\ \A s \in DOMAIN Cohort :
        /\ Len(Cohort[s]) \in Nat /\ DOMAIN Cohort[s] = 1..Len(Cohort[s])
        /\ \A i \in DOMAIN Cohort[s] : CohortCase(Cohort[s][i])
    /\ Shipped(BaselinePlaybook)
    /\ \A cause \in DOMAIN Playbooks : Shipped(Playbooks[cause])
    /\ NULL \notin Outcomes \cup States \cup {"allow", "deny", "defer"} \cup (Nat \X Nat)
    /\ {APPROVAL_THRESHOLD, ATTRIBUTION_WINDOW} \subseteq Nat
    /\ CLAIM_BATCH_SIZE \in Nat \ {0}

VARIABLES
    pc,           \* the transaction its process comes to, "over" if there is none
    now,          \* its frozen clock
    heap,
    claimed_ids,
    batch,        \* its own rows of the last claim, still to be gated
    item,         \* the case or row it works on
    runs,         \* the tables: of bench_runs, as their seeds; the last is the current one,
    cases,        \* of cases and their outcomes,
    rows,         \* of actions, their outbox rows and decisions,
    credited,     \* of payments, as the case each is credited to,
    consents,     \* of consent events, as the instant each customer consented,
    completed,    \* and of the bench_runs with a completed_at
    report,       \* the report of the last run, NULL before it is written
    crowded       \* history: in a claim of this run, the batch was too small for its own rows

process == <<pc, now, heap, claimed_ids, batch, item>>
database == <<runs, cases, rows, credited, consents, completed>>
vars == <<process, database, world, sim, report, crowded>>

-----------------------------------------------------------------------------
(* Cases <<run, index>> and rows <<case, step>>; step 0 is its arrival.    *)

run == Len(runs)
CaseOf(r) == r[1]
StepOf(r) == r[2]
Own(r) == CaseOf(r)[1] = run

Source(k) == Cohort[runs[k[1]]][k[2]]
Customer(k) == <<runs[k[1]], k[2]>>

RowsOf(k) == {r \in DOMAIN rows : CaseOf(r) = k}
OwnRows == {r \in DOMAIN rows : Own(r)}
OwnCases == {k \in DOMAIN cases : k[1] = run}

\* The playbook of a case's arm; of the treatment arm, the one its diagnosis selects.
HasPlaybook(k) ==
    \/ Source(k).arm = "baseline"
    \/ Source(k).arm = "treatment" /\ Source(k).decline \in DOMAIN Playbooks
PlaybookOf(k) ==
    IF Source(k).arm = "baseline" THEN BaselinePlaybook ELSE Playbooks[Source(k).decline]

StepIn(r) == PlaybookOf(CaseOf(r)).steps[StepOf(r)]

\* Attempt 1 of a planned step.
ActionOf(r) ==
    [channel |-> StepIn(r).channel, category |-> StepIn(r).category, cost |-> StepIn(r).cost,
     due_at |-> rows[r].due_at, attempt |-> 1, consumes |-> StepIn(r).consumes]

NeedsApproval(k) == Source(k).amount > APPROVAL_THRESHOLD

Live == {"pending", "claimed"}

TypeOK ==
    /\ runs \in Seq(DOMAIN Cohort)
    /\ pc \in {"over", "loop", "plan", "gate", "stop", "execute", "attribute", "report"}
    /\ \A e \in heap : e.when >= now /\ e.kind \in {"case", "action"}
    /\ batch \subseteq OwnRows \cap claimed_ids
    /\ \A k \in DOMAIN cases :
        /\ cases[k].state \in States
        /\ cases[k].cost_spent \in 0..cases[k].cost_ceiling
        /\ cases[k].state \in Terminal <=> cases[k].outcome # NULL
    /\ \A r \in DOMAIN rows :
        /\ CaseOf(r) \in DOMAIN cases
        /\ rows[r].status \in {"pending", "claimed", "done", "failed", "cancelled"}
        /\ rows[r].status = "done" <=> rows[r].executed_at # NULL
        /\ rows[r].verdict \in {NULL, "allow", "deny", "defer"}
    /\ \A id \in DOMAIN credited : credited[id] \in DOMAIN cases \cup {NULL}
    /\ completed \subseteq 1..run

\* What a process starts with, and what is left of it.
NoProcess ==
    /\ now' = 0
    /\ heap' = {}
    /\ claimed_ids' = {}
    /\ batch' = {}
    /\ item' = NULL

Init ==
    /\ pc = "over" /\ runs = <<>>
    /\ now = 0 /\ heap = {} /\ claimed_ids = {} /\ batch = {} /\ item = NULL
    /\ cases = <<>> /\ rows = <<>> /\ credited = <<>> /\ consents = <<>>
    /\ completed = {}
    /\ world \in SUBSET Attempts
    /\ sim = NewSimulator(0)
    /\ report = NULL
    /\ crowded = FALSE

-----------------------------------------------------------------------------
(* The loop.                                                               *)

\* The bench_runs row is committed and every case of the cohort is on the heap.
StartRun ==
    /\ pc = "over" /\ run < MaxRuns
    /\ \E seed \in DOMAIN Cohort :
        /\ runs' = Append(runs, seed)
        /\ heap' = {[when |-> Cohort[seed][i].detected_at, seq |-> i, kind |-> "case",
                     item |-> <<<<run + 1, i>>, 0>>] : i \in DOMAIN Cohort[seed]}
        /\ sim' = NewSimulator(seed)
    /\ pc' = "loop"
    /\ now' = 0 /\ claimed_ids' = {} /\ batch' = {} /\ item' = NULL
    /\ report' = NULL
    /\ crowded' = FALSE
    /\ UNCHANGED <<cases, rows, credited, consents, completed, world>>

\* The heap orders its entries by instant, and those of one instant as they came.
Popped ==
    CHOOSE e \in heap : \A f \in heap : e.when < f.when \/ (e.when = f.when /\ e.seq <= f.seq)

\* The index on open cases refuses a second one of the customer and amount.
OpenCase(k) ==
    \E j \in DOMAIN cases :
        /\ Customer(j) = Customer(k) /\ Source(j).amount = Source(k).amount
        /\ cases[j].state \notin Terminal

\* The payment fails at the gateway, and customer, consent and case are committed at
\* once, or none of them.
PopCase ==
    /\ pc = "loop" /\ heap # {} /\ Popped.kind = "case"
    /\ LET k == CaseOf(Popped.item)
           c == Source(k)
           new == [state |-> "detected", cost_spent |-> 0, cost_ceiling |-> 0,
                   opened_at |-> Popped.when, source_payment |-> sim.next_id + 1,
                   playbook_id |-> NULL, outcome |-> NULL]
       IN  /\ heap' = heap \ {Popped}
           /\ now' = Popped.when
           /\ sim' = SeedFailedPayment(Customer(k), c.amount, c.decline, Popped.when)
           /\ \/ /\ OpenCase(k)
                 /\ UNCHANGED <<pc, item, cases, consents>>
              \/ /\ ~OpenCase(k)
                 /\ cases' = [j \in DOMAIN cases \cup {k} |-> IF j = k THEN new ELSE cases[j]]
                 /\ consents' = [x \in DOMAIN consents \cup {Customer(k)} |->
                                    IF x \in DOMAIN consents THEN consents[x] ELSE c.detected_at]
                 /\ item' = Popped.item
                 /\ pc' = "plan"
    /\ UNCHANGED <<runs, claimed_ids, batch, rows, credited, completed, world, report, crowded>>

-----------------------------------------------------------------------------
(* A case arrives.                                                         *)

PersistHoldout ==
    /\ pc = "plan" /\ Source(CaseOf(item)).arm = "control"
    /\ cases' = [cases EXCEPT ![CaseOf(item)].state = "holdout"]
    /\ pc' = "loop"
    /\ UNCHANGED <<runs, now, heap, claimed_ids, batch, item, rows, credited, consents, completed,
                   world, sim, report, crowded>>

\* No playbook is for the diagnosis: the case stays where it is.
Abstain ==
    /\ pc = "plan" /\ Source(CaseOf(item)).arm # "control" /\ ~HasPlaybook(CaseOf(item))
    /\ pc' = "loop"
    /\ UNCHANGED <<now, heap, claimed_ids, batch, item, database, world, sim, report, crowded>>

\* build_plan and persist_plan, and a heap entry for every step.  A playbook that
\* cannot be planned raises, and the run dies of it.
PersistPlan ==
    LET k == CaseOf(item)
        included == IncludedSteps(PlaybookOf(k), Source(k).amount)
        dates == DueDates(PlaybookOf(k), now)
        pushed == Len(Cohort[runs[run]]) + Cardinality(OwnRows)
        Row(i) == [status |-> "pending", due_at |-> dates[i], executed_at |-> NULL,
                   verdict |-> NULL, rule_id |-> NULL]
    IN  /\ pc = "plan" /\ HasPlaybook(k)
        /\ CanBePlanned(PlaybookOf(k), Source(k).amount)
        /\ rows' = [r \in DOMAIN rows \cup {<<k, i>> : i \in included} |->
                       IF r \in DOMAIN rows THEN rows[r] ELSE Row(StepOf(r))]
        /\ heap' = heap \cup
              {[when |-> dates[i], kind |-> "action", item |-> <<k, i>>,
                seq |-> pushed + Cardinality({j \in included : j <= i})] : i \in included}
        /\ cases' = [cases EXCEPT
              ![k].state = IF NeedsApproval(k) THEN "awaiting_approval" ELSE "executing",
              ![k].cost_ceiling = CostOf(PlaybookOf(k), included)]
        /\ pc' = "loop"
        /\ UNCHANGED <<runs, now, claimed_ids, batch, item, credited, consents, completed, world,
                       sim, report, crowded>>

-----------------------------------------------------------------------------
(* An action is due.                                                       *)

\* An earlier claim at the same instant, or a late one, took the row already.
SkipClaimed ==
    /\ pc = "loop" /\ heap # {} /\ Popped.kind = "action" /\ Popped.item \in claimed_ids
    /\ heap' = heap \ {Popped}
    /\ now' = Popped.when
    /\ UNCHANGED <<pc, claimed_ids, batch, item, database, world, sim, report, crowded>>

\* Mutation of Due: a row is due after its instant.
DueAfter(when) == {r \in DOMAIN rows : rows[r].status = "pending" /\ rows[r].due_at < when}

\* The pending rows that are due, of whatever run.
Due(when) == {r \in DOMAIN rows : rows[r].status = "pending" /\ rows[r].due_at <= when}

\* claim_due_batch takes the oldest, in any order of those due at one instant.
ClaimDueBatch ==
    /\ pc = "loop" /\ heap # {} /\ Popped.kind = "action" /\ Popped.item \notin claimed_ids
    /\ LET due == Due(Popped.when) IN
       \E claimed \in kSubset(Min({CLAIM_BATCH_SIZE, Cardinality(due)}), due) :
            /\ \A r \in claimed, s \in due \ claimed : rows[r].due_at <= rows[s].due_at
            /\ rows' = [r \in DOMAIN rows |->
                           IF r \in claimed THEN [rows[r] EXCEPT !.status = "claimed"] ELSE rows[r]]
            /\ claimed_ids' = claimed_ids \cup claimed
            /\ batch' = {r \in claimed : Own(r)}
            /\ crowded' = (crowded \/ \E r \in due \ claimed : Own(r))
            /\ pc' = IF \E r \in claimed : Own(r) THEN "gate" ELSE "loop"
    /\ heap' = heap \ {Popped}
    /\ now' = Popped.when
    /\ UNCHANGED <<runs, item, cases, credited, consents, completed, world, sim, report>>

\* Mutation of RefreshCaseState: the state the case was planned with.
CachedCaseState(k) == IF NeedsApproval(k) THEN "awaiting_approval" ELSE "executing"

\* cases.state now, not the state of the object that was planned.
RefreshCaseState(k) == cases[k].state

\* Mutation of ConsentEvents: the runner seeds none, as before T3.6.
NoneSeeded(k) == {}

ConsentEvents(k) ==
    {[channel |-> channel, granted |-> TRUE, source |-> "checkout",
      occurred_at |-> consents[Customer(k)]] : channel \in Channels}

\* What the runner knows of a case, and the facts it has no source for.  A case has a
\* diagnosis only in the caller of the planner: the guard against declines that cannot
\* be retried never sees one.
Context(k) ==
    [now |-> now, state |-> RefreshCaseState(k), arm |-> Source(k).arm,
     at_risk |-> Source(k).amount, opened_at |-> cases[k].opened_at,
     cost_spent |-> cases[k].cost_spent, cost_ceiling |-> cases[k].cost_ceiling,
     max_attempts |-> PlaybookOf(k).max_attempts, max_case_age |-> PlaybookOf(k).max_case_age,
     consent_events |-> ConsentEvents(k), tie |-> FALSE, retryable |-> TRUE,
     contact_history |-> {}, dnd |-> FALSE, utc_offset |-> 0, mandate |-> NULL, tripped |-> FALSE,
     rate_limit_tokens |-> <<>>, daily_spend |-> 0, dispute_exists |-> FALSE,
     account_closed |-> FALSE, promise_to_pay |-> NULL]

\* The next row of the batch, the oldest first, is gated and its decision committed.
Gate ==
    /\ pc = "gate"
    /\ \E r \in batch :
        LET decision == Evaluate(ActionOf(r), Context(CaseOf(r))) IN
        /\ \A s \in batch : rows[r].due_at <= rows[s].due_at
        /\ rows' = [rows EXCEPT ![r].verdict = decision.verdict, ![r].rule_id = decision.rule_id]
        /\ batch' = batch \ {r}
        /\ item' = r
        /\ pc' = CASE decision.rule_id \in DOMAIN STOPPING_OUTCOMES -> "stop"
                   [] decision.verdict = "allow"                    -> "execute"
                   [] OTHER -> IF batch = {r} THEN "loop" ELSE "gate"
    /\ UNCHANGED <<runs, now, heap, claimed_ids, cases, credited, consents, completed, world, sim,
                   report, crowded>>

Onward == IF batch = {} THEN "loop" ELSE "gate"

\* apply_stopping_rule: the case's rows are cancelled, and the case is closed if the
\* rule closes cases.
Stop ==
    /\ pc = "stop"
    /\ LET k == CaseOf(item)
           target == STOPPING_OUTCOMES[rows[item].rule_id]
       IN  /\ rows' = [r \in DOMAIN rows |->
                          IF CaseOf(r) = k /\ rows[r].status \in Live
                          THEN [rows[r] EXCEPT !.status = "cancelled"] ELSE rows[r]]
           /\ \/ /\ target = NULL
                 /\ UNCHANGED cases
              \/ /\ target # NULL /\ CanMove(Source(k).arm, cases[k].state, target)
                 /\ cases' = [cases EXCEPT ![k].state = target,
                                ![k].outcome = [kind |-> target, recovered |-> 0,
                                                reason_code |-> rows[item].rule_id]]
    /\ pc' = Onward
    /\ UNCHANGED <<runs, now, heap, claimed_ids, batch, item, credited, consents, completed, world,
                   sim, report, crowded>>

\* Mutation of ChargeCase: the cost is counted once by the executor and once by its caller.
ChargeTwice(k, cost) == [cases EXCEPT ![k].cost_spent = @ + 2 * cost]

ChargeCase(k, cost) == [cases EXCEPT ![k].cost_spent = @ + cost]

\* The channel reaches the gateway or a customer, and cost, completion and contact are
\* committed.
Execute ==
    LET k == CaseOf(item)
        a == ActionOf(item)
    IN  /\ pc = "execute"
        /\ a.channel = "payment_retry" => CanRetry(cases[k].source_payment)
        /\ sim' = CASE a.channel = "payment_retry" -> RetryPayment(cases[k].source_payment, now)
                    [] a.channel = "link"          -> CreatePaymentLink
                    [] OTHER                       -> sim
        /\ rows' = [rows EXCEPT ![item].status = "done", ![item].executed_at = now]
        /\ cases' = ChargeCase(k, a.cost)
        /\ pc' = IF a.channel = "payment_retry" /\ sim'.payments[sim'.next_id].status = "captured"
                 THEN "attribute" ELSE Onward
        /\ UNCHANGED <<runs, now, heap, claimed_ids, batch, item, credited, consents, completed,
                       world, report, crowded>>

\* The gateway refuses to retry the payment, and mark_failed ends the row.
ExecuteFails ==
    /\ pc = "execute"
    /\ ActionOf(item).channel = "payment_retry" /\ ~CanRetry(cases[CaseOf(item)].source_payment)
    /\ rows' = [rows EXCEPT ![item].status = "failed"]
    /\ pc' = Onward
    /\ UNCHANGED <<runs, now, heap, claimed_ids, batch, item, cases, credited, consents, completed,
                   world, sim, report, crowded>>

Eligible == {"holdout", "executing", "awaiting_outcome"}

\* When the window of a case begins: with its latest execution, or as it was opened.
Anchors(k) ==
    IF cases[k].state = "holdout" THEN {cases[k].opened_at}
    ELSE LET times == {rows[r].executed_at : r \in {s \in RowsOf(k) : rows[s].status = "done"}}
         IN  {t \in times : \A u \in times : u <= t}

\* A customer has one open case at most, so that there is no contention to settle.
Matches(payment) ==
    {k \in DOMAIN cases :
        /\ Customer(k) = payment.customer
        /\ cases[k].state \in Eligible
        /\ \E t \in Anchors(k) : payment.created_at \in t .. t + ATTRIBUTION_WINDOW}

\* attribute_payment of the payment just captured: at once if its id has been credited,
\* and else to the customer's case, with the whole amount.
Attribute ==
    LET id == PaymentId(sim.next_id)
        payment == sim.payments[sim.next_id]
        known == id \in DOMAIN credited /\ credited[id] # NULL
        Recovery(p) == [kind |-> "recovered", reason_code |-> NULL, recovered |-> p.amount]
    IN  /\ pc = "attribute"
        /\ \/ /\ known
              /\ UNCHANGED <<credited, cases>>
           \/ /\ ~known
              /\ \E k \in IF Matches(payment) = {} THEN {NULL} ELSE Matches(payment) :
                    /\ credited' = [i \in DOMAIN credited \cup {id} |->
                                       IF i = id THEN k ELSE credited[i]]
                    /\ cases' = [j \in DOMAIN cases |->
                                    IF j = k THEN [cases[j] EXCEPT
                                                     !.state = "recovered",
                                                     !.outcome = Recovery(payment)]
                                             ELSE cases[j]]
        /\ pc' = Onward
        /\ UNCHANGED <<runs, now, heap, claimed_ids, batch, item, rows, consents, completed, world,
                       sim, report, crowded>>

-----------------------------------------------------------------------------
(* The end of a run.                                                       *)

Complete ==
    /\ pc = "loop" /\ heap = {}
    /\ completed' = completed \cup {run}
    /\ pc' = "report"
    /\ UNCHANGED <<runs, now, heap, claimed_ids, batch, item, cases, rows, credited, consents, world,
                   sim, report, crowded>>

\* Only a row that is done has cost anything.
Counted(r) == rows[r].status = "done"

CostOfRows(rs) == MapThenSumSet(LAMBDA r : ActionOf(r).cost, rs)

\* load_case_outcomes.
CaseOutcome(k) ==
    LET done == {r \in RowsOf(k) : Counted(r)}
        contacts == {r \in done : IsContact(ActionOf(r))}
    IN  [id |-> k, arm |-> Source(k).arm, at_risk |-> Source(k).amount,
         recovered |-> IF cases[k].outcome = NULL THEN 0 ELSE cases[k].outcome.recovered,
         cost |-> CostOfRows(done),
         outcome_kind |-> IF cases[k].outcome = NULL THEN NULL ELSE cases[k].outcome.kind,
         reason_code |-> IF cases[k].outcome = NULL THEN NULL ELSE cases[k].outcome.reason_code,
         contact_events |-> [r \in contacts |-> rows[r].executed_at],
         case_state |-> cases[k].state, playbook_id |-> cases[k].playbook_id]

\* _load_policy_denials: every decision but ALLOW, by its rule.
PolicyDenials ==
    LET denied == {r \in OwnRows : rows[r].verdict \notin {NULL, "allow"}}
    IN  [rule \in {rows[r].rule_id : r \in denied} |->
            Cardinality({r \in denied : rows[r].rule_id = rule})]

\* write_report, or the ValueError of compare_arms; either way the process ends.
WriteReport ==
    LET outcomes == {CaseOutcome(k) : k \in OwnCases} IN
    /\ pc = "report" /\ run \in completed
    /\ report' = IF CanCompare(outcomes) THEN BuildReport(outcomes, PolicyDenials) ELSE NULL
    /\ pc' = "over"
    /\ NoProcess
    /\ UNCHANGED <<database, world, sim, crowded>>

\* The process dies between two commits, by itself or of an exception.
Crash ==
    /\ pc # "over"
    /\ pc' = "over"
    /\ NoProcess
    /\ UNCHANGED <<database, world, sim, report, crowded>>

Progress ==
    \/ PopCase \/ PersistHoldout \/ Abstain \/ PersistPlan
    \/ SkipClaimed \/ ClaimDueBatch \/ Gate \/ Stop \/ Execute \/ ExecuteFails \/ Attribute
    \/ Complete \/ WriteReport

Next == StartRun \/ Progress \/ Crash

Spec == Init /\ [][Next]_vars

-----------------------------------------------------------------------------
(* Properties.                                                             *)

\* The seed is new to the database.  A run whose seed is not new meets the ids of its
\* own payments, credited to the cases of the earlier run.
Fresh == \A i \in 1..run - 1 : runs[i] # runs[run]

\* The customer of an order pays once at most, and not at all for a decline no retry is
\* permitted for: neither the gateway nor the planner sees to it, only the sequence of
\* capture, attribution and the next gate's look at the state (runner.py:358-374).
NoDoubleCapture ==
    Fresh => \A n \in DOMAIN sim.payments :
        LET paid == Captures(sim.payments[n].order) IN
        /\ Cardinality(paid) <= 1
        /\ sim.payments[n].status = "failed" /\ paid # {} =>
               sim.payments[n].error_reason \in Retryable \cup {"rolled"}

\* What a case comes to if nothing else is in the heap, the outbox or the database: a
\* function of the cohort and the rolls of the seed.
Alone(k) ==
    LET included == IncludedSteps(PlaybookOf(k), Source(k).amount)
        dates == DueDates(PlaybookOf(k), Source(k).detected_at)
        step == PlaybookOf(k).steps
        Goes(i) == step[i].channel = "payment_retry" => Source(k).decline \in Retryable
        Captured(i) ==
            /\ step[i].channel = "payment_retry" /\ Goes(i) /\ ~NeedsApproval(k)
            /\ <<runs[k[1]], Customer(k), dates[i]>> \in world
        TooLate(i) == dates[i] - Source(k).detected_at > PlaybookOf(k).max_case_age
        ends == {i \in included : Captured(i) \/ TooLate(i)}
        last == Min(ends)
        ran == {i \in included : ~TooLate(i) /\ ~NeedsApproval(k) /\ (ends # {} => i <= last)}
    IN  CASE Source(k).arm = "control" -> [state |-> "holdout", cost |-> 0]
          [] Source(k).arm # "control" /\ ~HasPlaybook(k) -> [state |-> "detected", cost |-> 0]
          [] OTHER ->
                [state |-> IF ends # {} THEN IF TooLate(last) THEN "expired" ELSE "recovered"
                           ELSE IF NeedsApproval(k) THEN "awaiting_approval" ELSE "executing",
                 cost  |-> CostOf(PlaybookOf(k), {i \in ran : Goes(i)})]

\* No two steps of a playbook are due at one instant, as it is in those that are shipped:
\* a claim orders rows by that and by nothing else (outbox.py:69).
StepsApart ==
    \A playbook \in {BaselinePlaybook} \cup {Playbooks[cause] : cause \in DOMAIN Playbooks} :
        LET dates == DueDates(playbook, 0)
        IN  \A i, j \in DOMAIN playbook.steps : i # j => dates[i] # dates[j]

\* TR-37, world.py:8-14: the same seed gives the same results, whatever ran before and
\* in whatever order the rows of different cases are claimed at one instant, unless it was
\* the same seed or rows a dead run left behind fill whole batches.
Reproducible ==
    pc = "report" /\ Fresh /\ ~crowded =>
        \A k \in OwnCases : [state |-> cases[k].state, cost |-> cases[k].cost_spent] = Alone(k)

\* runner.py:203-250: when the heap is empty every action of the run has been claimed and
\* ended, but for those that wait for a human.
EveryActionHandled ==
    pc = "report" /\ ~crowded =>
        \A r \in OwnRows : rows[r].status \in Live =>
            rows[r].status = "claimed" /\ rows[r].rule_id = "awaiting_approval"

\* runner.py:462-490: of the rules that do not stop a case, only the one that asks for a
\* human's approval can keep the gate from allowing what a plan holds; a runner that never
\* gates a row twice would lose whatever another rule put off.
OnlyApprovalDefers ==
    \A r \in DOMAIN rows :
        rows[r].verdict \in {"deny", "defer"} /\ rows[r].rule_id \notin DOMAIN STOPPING_OUTCOMES =>
            rows[r].verdict = "defer" /\ rows[r].rule_id = "awaiting_approval"

\* What the gateway captured of an order, and for the cases of a set.
CapturedOf(order) == MapThenSumSet(LAMBDA n : sim.payments[n].amount, Captures(order))
CapturedFor(ks) == MapThenSumSet(LAMBDA k : CapturedOf(cases[k].source_payment + 1), ks)

\* What the cases of a set were charged, and the denials of all rules.
ChargedTo(ks) == MapThenSumSet(LAMBDA k : cases[k].cost_spent, ks)
AllDenials(denials) == MapThenSumSet(LAMBDA rule : denials[rule], DOMAIN denials)

\* METRICS-AND-KPIS section 8: the report agrees with the gateway and with the cases' own
\* cost counters.  No arm recovers but what was captured, every case without a capture is
\* an exception, every decision of the gate is an execution or a denial, and the baseline
\* beats control exactly if a retry of its own was captured.
ReportMatchesLedgers ==
    report # NULL /\ Fresh =>
        LET Arm(arm) == {k \in OwnCases : Source(k).arm = arm}
            uncaptured == {k \in OwnCases : Captures(cases[k].source_payment + 1) = {}}
            decided == {r \in OwnRows : rows[r].verdict # NULL}
        IN  /\ \A arm \in Arms :
                /\ report.per_arm[arm].case_count = Cardinality(Arm(arm))
                /\ report.per_arm[arm].recovered_total = CapturedFor(Arm(arm))
                /\ report.per_arm[arm].recovered_total <= report.per_arm[arm].at_risk_total
            /\ report.economics.total_cost = ChargedTo(OwnCases)
            /\ DOMAIN report.exceptions = uncaptured
            /\ report.baseline_beats_control <=> CapturedFor(Arm("baseline")) > 0
            /\ AllDenials(report.policy_denials)
                 = Cardinality({r \in decided : rows[r].status \notin {"done", "failed"}})
            /\ \A x \in DOMAIN report.playbook_breakdown :
                report.playbook_breakdown[x].total_recovered
                  = CapturedFor(report.playbook_breakdown[x].cases)
=============================================================================
