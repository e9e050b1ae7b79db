# A verification model of Recoup

Recoup (`src/services/core`) recovers failed payments: it turns a raw payment
event into a *case*, plans a handful of *actions* (retries, messages), passes each
action through a *policy gate*, executes it through a channel from a durable
*outbox*, and credits the payment that comes back to one case. This directory holds
TLA+ modules of the parts where processes, transactions, locks, leases, keys and
crashes meet, TLC configurations that check them on small instances, and TLAPS
proofs of what can be proved for every instance. Paths below are relative to
`src/services/core/src/recoup/`; identifiers such as TR-57, I6, R2 are those of
`src/docs/`.

    tlc -workers 2 -config MCRecovery.cfg MCRecovery     (one run)
    tlapm ExecutorProofs.tla                             (one proof module)

`PROJECT.json` is the machine-readable index: components, runs, the source lines
every definition stands for, hazards, findings, theorems, and for every property a
mutation of the code's model that breaks it. Mutations (`Mutation of X` in a
comment) stand before the definition they are a mutation of and are used by no
specification.

## 1. The system

| component | state it keeps | operations | talks to |
|---|---|---|---|
| ingestion (`gateway/ingestion.py`, `api/routes/webhooks.py`) | `raw_events` | verify, deduplicate, store | detection |
| detection (`detection/pipeline.py`, `detectors/`) | `customers`, `signals`, `cases` | resolve customer, record signal, open case | planning |
| diagnosis (`diagnosis/engine.py`) | none | decline category to root cause | planning |
| planning (`planning/`) | `actions`, `scheduled_actions`, the case's ceiling | select playbook, build plan, `persist_plan` | outbox |
| outbox and scheduler (`execution/outbox.py`, `scheduler.py`) | `scheduled_actions`: status, due date, claim, lease | `reclaim_expired_claims`, `claim_due_batch`, `mark_done`, `mark_failed`, cancel, defer | executor, stopping rules |
| policy gate (`policy/`) | `policy_decisions`, read-only context | kill switch, stopping rules, domain guards, eight further rules, `persist_decision` | runner |
| gate loop (`bench/runner.py`) | none | `_gate_and_execute` per claimed row | gate, executor, stopping, attribution |
| executor (`execution/executor.py`) | Redis key `idem:...`, `cost_spent`, contacts, audit events | `execute` | channels, outbox |
| stopping rules, suppression (`execution/stopping.py`, `suppression.py`) | `cases.state`, `outcomes` | `apply_stopping_rule`, `suppress_case` | outbox, cases |
| attribution (`attribution/`) | `payments`, `outcomes`, `cases.state` | `attribute_payment`, `match_payment` | cases |
| case (`domain/case.py`) | `cases.state` | `transition_to`, `record_cost` | all of the above |
| audit chain (`audit/`) | `audit_events` (sequence and hash per case) | `record_event`, `verify_chain` | every writer |
| benchmark (`bench/runner.py`, `cli.py`) | `bench_runs`; in memory a clock, a heap, the rows it claimed | `run_benchmark`: arrival of a case in its arm, claim, gate, execute | all of the above |
| simulator (`gateway/simulator/`) | payments and orders, in memory | seed, retry, link, fetch | benchmark, channels |
| statistics, report (`bench/statistics.py`, `report.py`) | none | `load_case_outcomes`, rates, economics, guardrails, `write_report` | benchmark |
| API, CLI, console, platform | no durable state | | |

The components share one PostgreSQL database and one Redis; they interact by the
rows they write and the locks they take, not by messages. Everything runs at READ
COMMITTED, so a statement sees what was committed when the statement, not the
transaction, began.

What is hard here:

* **Leases without fencing.** A claim runs out while its worker is still busy; the
  worker is not told, and `mark_done` does not ask whose claim it completes.
* **Two stores.** The idempotency key is in Redis and expires; the row is in
  PostgreSQL and does not. A crash falls between key and call, or between call and
  commit.
* **Decisions and acts in different transactions.** The gate reads, commits a
  decision, and only then is the stopping rule applied or the channel called.
* **Reads without locks.** Attribution reads the payment, the cases and the
  executions in three statements before it locks anything.
* **Several lock orders.** Closing a case takes its outbox rows, then the case;
  recording an execution takes the case, then its outbox row. A claim takes cases by
  id, an attribution by age, and a foreign key takes one before the code asks for it.
* **A process whose schedule is in its memory.** The benchmark's heap, its claims and its
  simulator are gone when it dies; its rows stay for the next run on that database.

## 2. Modules

    Outbox  <---- Executor ----> SideEffect (abstract)
                     |
               ExecutorProofs

    CaseStates <-- Recovery <- RecoveryProofs
               <-- Attribution <- AttributionProofs
               <-- AuditChain ----> AuditLog (abstract)
               |       |
               |     AuditChainProofs
               <-- PolicyRules <-- Gate -----> Planner <-----+
                       |            |             |          |
                       |        GateProofs -> PlannerProofs  |
                       |                                     |
                   Statistics <-- Benchmark -----------------+
                                   |      |                  |
                             Simulator   BenchmarkProofs -> PlannerProofs

    Intake <- IntakeProofs

**Intake** is how a case begins. `StoreRawEvent` is the deduplicated write of
`gateway/ingestion.py`. A run of detection (`Start`) takes an event through
`FindCustomer`, `InsertCustomer` or `CustomerExists`, the detector (`Leak`),
`CheckDetected`, `InsertCase` or `RefuseCase`, and `Commit`; the event is one
transaction, so what it has inserted shows in `at` and `fresh` and not yet in the tables,
and an insert waits for a run that holds the same entry of a unique index. A run that finds
nothing to do returns without ending that transaction (`detection/pipeline.py:291-292`), with a
customer it may have flushed: it stays in the stage `returned`, its index entries held, until
`EndByCaller` commits or rolls back, as the caller likes. Each run has a session of its own.
`Close` ends a case, `Crash` rolls a run back. A case carries its event, which stands for its signal.
`overlapped` is history: events two runs had in hand at once.

**Planner** holds `build_plan` as operators of a playbook and an amount: steps skipped
(`ApplicableSteps`), the budget in whole paise (`CeilingFor`), optional steps dropped
from the end (`FitToCeiling`), due dates along a chain of relative steps (`DueDates`),
and the three ways it raises (`CanBePlanned`). `cost_ceiling_pct` is a float that the planner
turns into the decimal it is written as, so here it is a fraction above 0 and up to 10
(`Percentage`); an offset is a whole number of ticks, however long a tick is, as a
`timedelta` is one of microseconds.

**PolicyRules** holds `policy/`: one operator per rule, `RULES` in the order of the
engine (rule 2 with its eight conditions), `Evaluate` as the first that fires, with
verdict, rule id and date. Time is in ticks, a day is `Day` of them; local time is the
tick shifted by the customer's offset.

**Gate** composes the two over all cases of one customer: `PersistPlan`, then for each
due action `GateAndExecute`, which is `Execute`, `ExecuteFails` (the channel raises), `Refuse` or
`Stop` (`apply_stopping_rule`), on the ledgers of consent and contacts. One process gates and
executes in turn, as the runner does. The runner is the only caller of the gate in `src/`, and it
hands it an empty contact history (`bench/runner.py:415`) while it records every contact:
`load_contact_history` has no caller. `LoadsContacts` tells the two apart. FALSE is the program
as it is, checked in `night`; TRUE is a caller that reads that ledger, the one the rule
about caps was written for, and the run `gate`. Where the runner has constants in place of DND,
mandate, kill switch and limits, `Facts` gives them any value, so that every rule is exercised.

**CaseStates** is `domain/case.py`: the transition table, the terminal states and
the guard that keeps a control case out of EXECUTING, `CanMove`. All writers of
`cases.state` go through it.

**Outbox** is the table and the tick. Variables are the columns (`status`,
`due_at`, `claimed_by`, `claim_expires_at`, `executed_at`) and what a worker holds
in memory (`ticking`, `batch`, `lease`). `ReclaimExpiredClaims` and
`ClaimDueBatch` are the two transactions of `run_scheduler_tick`; the set `locked`
is what `FOR UPDATE SKIP LOCKED` passes over, chosen freely. `Report`, `Abandon`,
`Crash`, `Cancel`, `Defer` are everything that may happen to a batch or to the
table. What the worker *does* is left open here.

**Executor** extends Outbox and closes that gap: `Refuse`, `Acquire`, `Suppress`,
`CallChannel`, `RecordExecution`, `RejectExecution`, `RecordFailure`, `Die` are the
statements of `execute()` between its points of no return (SET NX, the channel, the
commit). `sent`, `grants`, `first_grant` are history: they record what a ledger of
the outside world would show, and no guard reads them. The key has an expiry date
and time moves, so that a key can run out under a live row.

**SideEffect** is the abstract promise: an action's channel is called at most once,
its cost is charged at most once and only after the call. `Executor` refines it with
`calls <- sent, charges <- charged` for as long as no key expires.

**Recovery** is the life of a case: `Plan`, `Claim`, `Reclaim`, the gate (`Read`,
`Decide`, `DecideTwice`), closing the case (`ApplyStoppingRule`, `SuppressCase`,
`CommitSweep`, `CloseCase`, `RefuseClose`), execution (`CallChannel`,
`StartRecording`, `FinishRecording`), the attribution of a captured payment, crash,
and PostgreSQL's deadlock victim. Row locks are `held`, the lock on the case is
`caseLock`; a transaction that waits is several actions. Against `Outbox` a claim is
one row and may expire at any moment (no clock); against `Executor` the Redis key is
left out, since the gate lets an action through once. That a step *may* happen at
any time is weaker than what the clock allows, so the safety properties carry over.

**Attribution** is `attribute_payment` statement by statement: `ReadPayment`,
`LoadCases` (the open cases), `Match` (their executions, read by a later
statement, and the matcher), `RecordUnmatched`,
`Upsert`, `ShareWinner` (the foreign key of the payments row has PostgreSQL share the
winner's cases row), `ResolveCase`, `RefuseResolve`, `RecordAmbiguity`, `Commit`, while other
processes open, execute and close cases (`Start`, `MarkDone`, `CloseCase`). Money is
an integer number of paise; the window and the tolerance are the matcher's.
`overlapped` is history: payments two runs had in hand at once.

**AuditChain** is `record_event` under every kind of transaction in `src/` that calls it:
a transaction is the events it records, in the order of the calls, and the one state it
sets (`Openings`, `Plannings`, `Records`, `Closings`, `Claims`, `Attributions`). Each
event is three statements: `Lock` (`SELECT ... FOR UPDATE` on the case), `ReadTail`,
`Insert`; rows are the transaction's own until `Commit` or `Crash`. The table is a
function from `seq` to row, so a fork or a gap can be written down, and
`VerifyChain` is `audit/verify.py`. Of the locks of these transactions only the one `record_event`
takes is here, which is all that chains need: share locks of foreign keys and the locks of outbox rows are in
Attribution and Recovery, and the module says nothing about deadlocks. **AuditLog** is the abstract promise (I4): a log of
each case to which transactions append all at once, and a state that moves only with
the event that tells of it. `AuditChain` refines it (`KeepsItsPromise`).

**Simulator** is the part of the gateway a benchmark run calls: payments numbered by a
counter of the process, rolls that depend on seed, customer and instant alone.
**Statistics** holds `bench/statistics.py` and `report.py` as operators of a set of
outcomes: amount-weighted rates as fractions, incremental value, economics,
guardrails, denials, exceptions, breakdown.
**Benchmark** composes both with Planner and PolicyRules: `StartRun`, `PopCase`,
`PersistPlan`, `PersistHoldout`, `Abstain`, `ClaimDueBatch`, `Gate`, `Stop`, `Execute`,
`ExecuteFails`, `Attribute`, `Complete`, `WriteReport` and `Crash` between any two
commits, for several runs on one database. `crowded` is history: a claim of the run left
own rows behind that were due, since the batch was too small for all that was due. Rows of
another run can fill it, and so can the run's own. The comment at `bench/runner.py:226-237`
("claims everything due at once") holds up to `_CLAIM_BATCH_SIZE` rows: one claim answers
one heap entry, and those left behind are found only by an entry of a later instant.

**MC...** modules give the constants values. **...Proofs** modules hold theorems.

## 3. Runs

Every passing run fires every action of its next-state relation. Symmetry is used
only in safety runs and only over values no definition tells apart.

| run | asks | instance and why it is enough | states |
|---|---|---|---|
| `outbox` | does the table keep its promises, and does a claim that ran out come back? | two workers, rows of two cases (either may be cancelled or deferred), TTL 1, clock 0..4: enough for claim, expiry, second claim, and expiry of that | 96 k |
| `repeat` | what may be repeated over more than one key life? | one action, key TTL 2, clock 0..6: three key lives, each longer than a lease | 216 k |
| `plan` | is `SideEffect` implemented? | two actions of one case with different costs, key longer than the run, crashes, cancellations and deferrals at any time, clock 0..2: a lease runs out and its row is taken again | 619 k |
| `recovery` | does a case end once, with the right outcome, with nothing live left? | two workers, a suppressing caller, two actions, a rule each that ends, escalates and defers | 1.3 M |
| `attribution` | are payments, cases and outcomes consistent under two racing runs, and what may they wait for? | two payments, two cases of one customer, one acted on and one held out, both payments within either's amount; a window of 1 on a clock of 0..2, so that a payment falls before, on either end of and behind a window | 1.6 M |
| `intake` | which cases and customers come of redelivered events, racing runs, and callers that commit or roll back? | three runs, so that one may hold an entry, one wait for it and one finish or be left to its caller; four events of two customers: two under one index entry, one with an amount of its own, one without a leak | 1.2 M |
| `gate` | do the rules keep caps, quiet hours, consent and the budget over all of a customer's cases, given the contacts there were? | cases with texts, calls, mails, retries and a skipped step, one for a human, one that cannot be paid for, shares of 9.5 and 10 per cent; a day of 4 ticks and a week of 6, so that contacts leave both windows; eight states of the world, each for a rule of its own, two time zones, consent to texts and calls, one word about consent at any time | 279 k |
| `audit` | do chains stay intact, and is `AuditLog` implemented? | two sessions, each any kind of transaction, two cases whose ids and dates disagree, chains of up to six events: a case can be opened, planned, touched and closed | 382 k |
| `bench` | is a run reproducible, complete, nothing paid twice or put off, and its report true to the ledgers? | two runs of two seeds, or twice of one, on one database; cohorts of three and five cases over all arms, one without a playbook, one for a human, one no retry is permitted for, three due at once; batches of 3; the baseline playbook as it is shipped | 206 k |
| `lost_call`, `double_credit` | does the program do what the quoted line says? It does not | the instances above, cut down | |
| `night` | the same, of the gate as the runner calls it | one case of a customer in IST with the baseline playbook, half hours, consent to everything | |

Bounds: `MaxTime` stops the clock; `QuietAfter` stops crashes, cancellations and deferrals, and
lies past the clock in every run, so that they happen to the end; `KeyTTL` and `ClaimTTL` are 24 hours and 5 minutes
scaled to the clock (only their order matters: a key outlives several leases).
Attribution's `Window = 1` stands for 72 hours; both of its ends belong to it. With two cases
that are both acted on the properties hold as well (2.2 M states on a clock of two
instants), and the proofs cover every choice. In `gate` the
contacts reach every cap (one a day and channel, three a week, one call a week), and every
rule but `max_attempts_reached` fires: no code makes an attempt past the first. `MaxDelay = 1`
lets every action be gated on time or late; `MaxWords = 1` allows one consent to
email, refusal of texts or STOP at any tick, before or after the date an action was due. In `audit` no transaction begins that would take a chain past
`MaxSeq`. In `bench` an hour is a tick, `MaxRuns` bounds the runs, and `Attempts` names the
five rolls that may succeed (every subset of them is a world): the retries of the two
playbooks at the hours they are due. The treatment playbook's case age is one day in
place of its own, so that a stopping rule ends a case within the run.

`CHECK_DEADLOCK FALSE` stands where the system really may stop, or where PostgreSQL would
end a deadlock by a victim that the model may also choose at any time (`Crash`): a case is over
and nothing is claimed (`Recovery`), all payments are attributed (`Attribution`), all
events are in (`Intake`), the clock is at its bound (`Gate`), the chains are full
(`AuditChain`), the last run is over (`Benchmark`).
In the outbox runs a tick is always possible.

### Fairness

Only `outbox` uses it. `ExpiredClaimsComeBack` (TR-56) is about `run_scheduler_loop`: it never
returns, it ticks for ever, and it lets go of every batch it is handed without executing anything
(`execution/scheduler.py:61-69` counts the rows and drops them). That is all that is assumed
(`OutboxFairness`): a worker's two transactions of a tick are strongly fair (strongly, since a batch in
hand disables them), and a worker lets go of the row at hand (weak), with a report or without. `SKIP
LOCKED` may pass over any row at a tick, but a row is not locked at *every* tick, so fairness is
asked of the tick with `locked = {}`. Time need not pass, and crashes need not stop. No code in `src/` starts
the loop: that a process runs it is an assumption about a deployment, not a fact about this repository. The
benchmark calls `claim_due_batch` itself and never reclaims.

Nothing is assumed of executing, reporting or gating, because nothing in the code obliges anyone
to it; so no run claims that a due row settles or that an allowed action is executed. It would
be false besides: an action of a worker that died after its ALLOW was committed cannot be gated again
(`uq_policy_decisions_action_attempt`).

## 4. What the runs show

**Outbox and executor.** While two leases run no row is in two hands, except after a
deferral (`ExclusiveLease`). Settled rows, `executed_at` and due dates never move
back (`SettledIsFinal`). A row is completed under another worker's claim only by one whose
own lease ran out (`ForeignCompletionIsLate`). No call and no cost without an ALLOW, cost at most as often
as calls, nothing charged for a failed call within the life of its key; a repeated
call needs an expired key. Where scheduler loops run, a claim whose lease ran out does
not stay (`ExpiredClaimsComeBack`); what becomes of the row then is left open.

**Cases.** A case ends once; its outcome row tells how (`OutcomeTellsTheEnd`); a case
a stopping rule closed has no live row (`StoppedCaseIsSwept`); the gate lets an action
through once, whoever reclaims the row (`GateLetsThroughOnce`).

**Attribution.** A payment and an outcome name each other, credit lies in a window,
losers lose to an older case. Runs wait for each other in a circle in one way only
(`CirclesShareTheirWinner`): two runs with different payments of one winner have both
shared its cases row through the foreign key, and both ask for it alone. The order by
age, which `engine.py:124-133` relies on, cannot rule that out; PostgreSQL ends
it by rolling one of them back.

**Intake.** A customer has one open case per index entry; an event opens a second
case only if two runs had it in hand at once and the first case ended in between
(`OneCaseUnlessRaced`). A customer without a case is what a run over an event without a leak
flushed and its caller committed (`CustomersHaveReasons`); a run that loses a race, is refused by
the index or dies leaves none.

**Gate.** Handed the contacts there were, the rules keep a customer below the caps over all cases
(`ContactsWithinCaps`); as the runner calls the gate they do not, since its contact history is
empty. No SMS, WhatsApp message or call goes out in a night by the customer's own clock
(`OnlyEmailAtNight`); email does, since the code exempts it (run `night`). Nobody is contacted without consent
for the date the action was due; a deferral of quiet hours or caps ends at the first tick at which that rule lets
the action through (caps, again, given the contacts); a plan is paid for to its last step and drops
nothing it could keep.

**Audit.** `recoup audit verify` finds nothing at any time, no two transactions ever
compute one `seq`, and a state and the event that tells of it appear together.

**Benchmark.** An order is captured once; a case comes to what it would come to if it ran
alone, whatever else is on the heap, unless a claim was too small for the rows of the run that were due
(`Reproducible`); a run that is completed leaves none of its actions behind under the
same proviso (`EveryActionHandled`); the gate puts off no action but one that needs a human
(`OnlyApprovalDefers`), which matters since the runner gates a row once; and the report agrees with what the simulator captured
and the cases were charged (`ReportMatchesLedgers`).

Findings, each a violated run with the quoted line in `PROJECT.json`:

1. `lost_call` - a worker dies between key and call; the next marks the row done and
   sets `executed_at` for an action never sent.
2. `double_credit` - two runs with one payment credit it to two cases.
3. `night` - POLICY-ENGINE's P3 and R6 exempt payment retries from quiet hours and nothing else; the
   code exempts links and email too, and an email goes out at night.

Observations without a run of their own:

* POLICY-ENGINE.md:327 (P7) says that "contact frequency across all cases for one customer never exceeds
  the 7d cap", and R7 caps a channel at one contact in 24 hours. In the program neither is kept:
  `bench/runner.py:415` hands the rule no contacts, as its comment says, and no code calls
  `load_contact_history`. Set `LoadsContacts` to FALSE in `MCGate.cfg` and TLC
  finds `ContactsWithinCaps` violated. `generate_cohort` gives a customer of a seed one case, so in a benchmark that takes a second run of
  the seed on the same database, or a playbook with two contacts of a channel in a day.
* `mark_done` says that it returns `False` "rather than overwriting" what the worker that took the row over "is
  now doing with it" (`execution/outbox.py:206-209`). `_complete` asks for status = 'claimed' and not for
  `claimed_by`: a late worker completes the row under the other's running claim. It takes a lease that ran out
  (`ForeignCompletionIsLate`).
* `attribution/engine.py:124-133` says that the order of its locks "is what rules out a deadlock". The exception in
  `CirclesShareTheirWinner` is reachable: two payments of one customer with one winner.
* The per-playbook breakdown of the report (METRICS-AND-KPIS.md:261) groups by `cases.playbook_id`
  (`bench/report.py:241`, `statistics.py:416`), which no code under `services/core/src` writes: `persist_plan` names the playbook in
  `plans` alone. Every case is in the one row without a name; the unit tests fill the field by hand.
* `run_detection` commits only through `open_case_for_signal`. Its other return
  (`detection/pipeline.py:291-292`) leaves a customer it flushed to whoever owns the session.
* A claim takes the cases of its batch in the order of their ids, an attribution takes them in the order of their
  age, a closing takes outbox rows before the case and an execution after it: transactions can wait
  for each other in more circles than that one. PostgreSQL aborts one; no code retries.
* A row deferred by a promise to pay is executed before its date by the worker that
  has it in its batch (`execution/outbox.py:179-184`).
* A DEFER of the gate is not requeued (`bench/runner.py:491`; POLICY-ENGINE.md:92
  says it is): the row stays claimed, is reclaimed in time, and its second decision is
  refused by `uq_policy_decisions_action_attempt` each time.
* The key lives 24 hours and the row for ever: a row reclaimed later than that calls its
  channel again. `ResendOnlyAfterKeyExpiry` says that this is the only way to a second call.
* An older open case of a customer wins the payment a younger case's own retry brought
  in (TR-29, as documented). Under a moving clock that payment also predates the retry's
  `executed_at`, which opens the window.
* A case's id is a UUIDv7 of the wall clock, its `opened_at` a timestamp of the
  injected clock, taken later (`detection/pipeline.py:199`, `:211`). Two processes can
  give one customer two cases with the two orders reversed, and so can a simulated
  clock; `audit/repository.py:29-34` takes it that there is one order.
* `recoup audit verify` recomputes the hashes it compares `prev_hash` with and never reads
  the stored `hash` column.
* DOMAIN-MODEL's I4 asks for an event per transition; `_resolve_case` and `persist_plan` make
  several transitions in one transaction and tell of the last. AuditLog promises that much.
* An event refused by the index on open cases opens one when it is detected again after the
  shadowing case ended; `detection/pipeline.py:156-166` takes that for a no-op.
* `rules/consent.py:1-3` calls `due_at` the time the action would actually be sent. A late
  claim, or a promise that moves the outbox row, sends later, and consent taken back in
  between does not count unless it was a STOP by SMS.
* A playbook the schema admits may fail when a case is planned: a required step relative
  to an optional one that is dropped or skipped (`PlanningError`), or dates that decrease in
  declaration order (`ValueError` of `domain/plan.py`).
* `docs/02-technical/POLICY-ENGINE.md` section 2.2 wants `cost_ceiling` recorded for an action that is
  also in quiet hours; the engine, like the diagram there, asks for quiet hours first.
* A rule that would escalate a case awaiting approval (`mandate_revoked`) has no legal
  transition: the decision stays, the sweep is rolled back and `IllegalTransition` reaches the
  caller (`Refuse` in Gate, `RefuseClose` in Recovery).
* The guard against retrying a decline that is not retryable never fires in a benchmark: the
  context has no diagnosis (`bench/runner.py:471-473`). The simulator refuses such a retry,
  and the action fails instead of being denied.
* `compare_arms` raises `ValueError` over an arm without cases, after the run is
  completed and its database written: a small cohort leaves a run without a report.
* Rows a dead run left due are claimed by the next run on that database, count against its
  `CLAIM_BATCH_SIZE` and stay claimed, since the runner never reclaims.
* The seed names the payments. A second run of one seed on one database finds their ids in
  `payments` already and leaves its own captures without credit, and it overwrites the
  report directory of the first. PHASE-03-measurement.md:84 and TRD.md:160-161 promise identical
  figures for identical seeds; the test of it gives every run a database of its own.
* `load_case_outcomes` orders by `cases.id`, a UUIDv7 of the wall clock, so that the order in which
  a bootstrap draws its cases is the order of insertion, not of content.
* `claim_due_batch` orders rows by `due_at` alone (`execution/outbox.py:69`). With two steps of one playbook
  due at the same instant, a retry and an e-mail, either may go first, and the e-mail is sent or cancelled as
  that falls: the same seed would give different costs. No playbook in the repository has such steps; the schema admits them.
* The control arm never recovers in a benchmark: the simulator has no customer who pays of
  his own accord, and nobody follows a link.

## 5. What is proved

Assumptions are those named in the modules (`OutboxConstants`,
`ExecutorConstants`, `RecoveryConstants`, `AttributionConstants`, `IntakeConstants`,
`AuditConstants`, `PolicyConstants`, `NullIsNoRule`, `GateConstants`, `BenchmarkConstants`): actors and
callers are different, cases have ids of their own, dates and costs are
natural numbers, TTLs positive, sets of cases finite where a maximum is taken, opening hours
lie within a day and a week is no shorter than a day, and a playbook is what
`planning/playbooks/schema.py` admits (`WellFormed`). Of the playbooks of a benchmark it is assumed
besides that they use the channels `bench/runner.py:404-409` names (`Shipped`), and that no step costs more
than all cases may in a day. One theorem, `RunsAreReproducible`, has a hypothesis of its own:
`StepsApart`, no two steps of one playbook are due at one instant. The playbooks in the repository are
like that (the baseline's steps are due 1, 2, 24 and 72 hours after the case, those of
insufficient-funds-v1 6 hours after it and 24 hours after that), and TLC evaluates it for them on the
`bench` run (`ShippedStepsApart`). Nothing is assumed of the size of anything.

*ExecutorProofs*, first about the outbox. The inductive invariant `IInv` is type correctness,
`ClaimFieldsAgree`, `NeverEarlier` (a due date is never before the planned one),
`LeaseBacked` and `ExclusiveLease`. `ExclusiveLease` alone is not inductive: that
nobody else gets a row needs to be read off the *table*, so `LeaseBacked` says that
a row in a batch with a running lease is either claimed by that worker until that
date, or settled, or was deferred. The strict `claim_expires_at < now` of the reclaim is
what makes it hold at the last instant of a lease. From it: `LeasesAreExclusive`,
`ClaimFieldsCorrect`, `SettledStaysFinal`, `ForeignCompletions`.

Then about the executor. `ExecutorImplementsOutbox` (`Spec => OutboxSpec`, without fairness) maps every
step of the executor to a step of the outbox's open worker or to none, so the outbox's theorems hold under
it. `ExecInv` adds `IdleWhileTicking`, `KeyRemembers` (the key of a granted action
runs for at least a TTL from the first grant, and a second grant comes after that), `NoGrantNoEffect`
and `OneGrant` (calls, workers past SET NX and charges never exceed the grants).
From it: `AllowComesFirst`, `ResendNeedsKeyExpiry`, `CostNeedsCall`,
`FailureIsFree`, and `OneSideEffect`: if the clock stays below the life of one
key, the executor implements `SideEffect`.

*IntakeProofs.* `OneCaseIsOpen`, `SecondCaseNeedsARace` and `CustomersAreAccountedFor` for any
number of runs, events and customers. Four parts strengthen the invariant, since each
property is decided by what is not committed yet: `EntriesHeld` (a run past its insert
holds its index entry, and no open case or other run has the same), `Raced` (two runs
over one event are recorded in `overlapped`) and `Late` (a run that found its event
undetected, when the event has a case by now, overlapped the run that opened it) and `ForNothing` (a run
that returned has an event that is stored, and that has a case or no leak: whatever its caller commits, the
customer is accounted for). Type correctness
includes that a run past the first stage has an event with a customer.

*RecoveryProofs.* `EndsOnce`, `OutcomeTellsTheEnd`, `GateLetsThroughOnce` and
`StoppedCaseIsSwept` for any number of workers, callers, cases and actions. The last is
not inductive: a sweep locks the rows that are live when it runs and ends the case much
later. `SweepsAll` says that a closing worker holds every live row of its case,
`HeldAreLive` that nobody changes a held row, `PlannedOnce` that no row is inserted once the
case has left DETECTED. A suppressing caller is left out of `SweepsAll`, since it may sweep a case
that is only detected. `ClearedOnce` (one worker is left to send a cleared action) gives
the gate's property; `Places` and `NoReasonWithoutEnd` are the bookkeeping.

*AttributionProofs.* All six properties of `attribution`, for any number of runs, payments and
cases. A run reads without locks, so the invariant says what it still knows at
its commit: its winner is open and locked (`InHand`) and an open case has no payment
(`OpenIsUnpaid`), whence `CreditIsMutual`; each match is explained by an execution or by
an opening that nobody has acted on or will (`Promised`, `CreditsExplained`, with `HeldOutIsIdle`
for the state seen a statement earlier), whence `CreditedInWindow`; the locks it holds
are of cases older than what it has to do (`LocksAge`), whence `LosersLoseToOlder`; and
a payment in hand that has its case by now was raced for (`Raced`, `Late`), whence
`CreditedOnceUnlessRaced`. For `CirclesShareTheirWinner` take, of the cases a circle waits for, one
that is older than no other: its holder would wait for a younger one, so it is only
shared, and by `LocksKept` who shares a row is about to resolve that very case.

*AuditChainProofs.* `ChainsIntact`, `NoAppendCollides` and the refinement of `AuditLog`, for any
sessions and cases and any bound. What a transaction sees - committed rows and its own - is always an
intact chain (`ViewsIntact`), only the holder of the case's lock has rows of its own
(`OwnRows`), so the tail read under the lock is the tail at the insert (`TailIsCurrent`); and the
events of a transaction say what state it sets (`SaysWhatItSets`).

*PlannerProofs.* Lemmas about the planner's operators, for every playbook the schema admits, its
share any fraction above 0 and up to 10 per cent:
what `CostOf` returns (a sum over a set: it is a natural number, grows by the cost of a step with the
step, and a subset costs no more), the laws of such sums that the benchmark's report needs (`SumAcross`: along an injection;
`SumCompares`: summand by summand; `SumOfKinds`: a set counted kind by kind), that `CeilingFor` is the greatest whole number of paise within the playbook's share,
that every due date of `DueDates` is a natural number, and what `FitToCeiling` keeps (every required
step, a cost within the ceiling, nothing dropped that would have fitted). All of these are
recursive functions. The library's induction theorems take the statement as a parameter and cannot be
instantiated here, so each induction is made by its least counterexample: `LeastNat`, which
follows from the well-foundedness of `<` on the naturals, gives the smallest number for which the
function or the law is missing, and the step from its predecessor is the contradiction.

*GateProofs.* `CapsCorrect`, `NightsAreQuiet`, `ConsentCorrect`, `DeferralsAreTight`, `BudgetCorrect` and
`TypeCorrect` for any cases, playbooks, hours, caps' windows, customers and words. `CapsCorrect` assumes
`LoadsContacts`, which the runner does not satisfy; the others hold either way, and `NightsAreQuiet` leaves out
email, as the code does. The engine answers for one tick; what
makes the answer last is `Dated` (contacts and words are dated when they are recorded, so
none comes in behind an older one) and `DatesStand` (the date consent is asked for does not move,
and is not after the row's, however a promise moves that). `RoomBelowCaps` is the caps' answer for the
tick of a contact, which is also the tick of others; `NotAtNight` and `NightLasts` are the arithmetic
of days; `CapLasts` says that what is counted counts until the oldest of it leaves. Of a
budget, `Budgeted` says that what is spent and what the undecided steps cost are within the ceiling: a
decision takes its step out of the second sum and moves its cost, or nothing, to the first, and nothing is
planned or spent while a case is DETECTED. `TypeOK` bounds `cost_spent` by the ceiling, so it needs `Budgeted`.

*BenchmarkProofs.* `TypeCorrect`, `ActionsHandled`, `OneCapture`, `ApprovalOnly`, `RunsAreReproducible` and
`ReportsAgree` for any cohorts, playbooks as they are shipped, rolls, batch size, and number of runs and crashes. The comment at
`bench/runner.py:462-478` gives a reason for each rule why it cannot deny or defer what a plan holds;
`GateDecides` is the proof of it, and it needs more of the run than the comment says: `Budgeted` (what is left of
the budget pays for every row that is not done), consent that is never younger than the due dates
(`ConsentStands`), and that a case that has ended meets a stopping rule before the domain guard: a recovered one
`already_paid`, an expired one `max_case_age` once more, since its age only grows (`Ages`). It also shows
that of the four stopping rules the comment at `:451-453` calls reachable two never fire: no row is a
second attempt, and no customer of a cohort opts out. `Handled` is what makes every action end: a pending row
has an entry on the heap, a claimed one is in the batch or in hand, unless it was put off for a human; the heap's
clock (`Scheduled`) makes an entry that is popped find its row due. `Paid` says that a capture belongs to a
case that has recovered, but for the one that is about to be attributed; for that one the attribution must find the
case: its customer, its state, the window and an id that is not credited yet (`Simulated`, `Credits`; the last
is where the seed must be new).

`RunsAreReproducible` says that a case of a run ends as `Alone` computes it from its cohort and the rolls, with
no heap, outbox or other case. The invariant is `Follows`: while a run with a new seed lasts, each of its cases
has the dates `Alone` gives it, and each of its rows is where that says it is at the clock - done if its step would have run, failed if
no retry is permitted, cancelled behind a capture or an end by age, waiting if a human must approve, and
otherwise not before its date. That is inductive only because the rows of a case end in the order of
their dates: a row before one that is in hand has ended (`Handled`, and the claim takes the oldest), unless
the claim was too small (`crowded`). Two steps due at one instant have no order; hence the hypothesis.

`ReportsAgree` needs four ledgers to agree while the run lasts (`Booked`): what a case was charged is the cost of
its done rows (`Charged`), what the gate allowed is what was executed (`Judged`), a payment has the amount of its
order (`Priced`), and a case has recovered its amount exactly if the gateway captured it (`Settled`, with `Paid`). They
turn each figure of `BuildReport` into a sum over the cases of an arm or a playbook of what the property sums up
(`OutcomeIs`, `GroupIs`). The report is written once, and no action between that and the next run touches
what it is compared with (`Tallied`). That the baseline beats control exactly if one of its
retries was captured is arithmetic with rounding (`BaselineIs`): a single paisa it recovered, out of any amount at
risk, is scaled up to at least one by all that is at risk in the run, which is no less.

## 6. What is only model-checked, and what is not modelled

Only checked: the one liveness property, `ExpiredClaimsComeBack` (the prover has no rule for
fairness). Every invariant and every action
property of a passing run is a theorem.

Abstracted: `dry_run` (skips the call and nothing else); in Recovery the rules of
the gate after the domain guards are one free answer (they are in PolicyRules), and in Gate
the facts about customer, mandate and limits stay what they are for a behaviour; in
Benchmark a customer has one open case, which is all `generate_cohort` makes; a hash is the
history it is computed from, a payload one of two bodies; confidence intervals and resamples
of the statistics; how a channel decides.

Not modelled, with reasons in `PROJECT.json`: sampling (the cohort, the likelihood of a roll),
the simulator's mandates and subscriptions, which no code under `recoup/` calls,
configuration, logging, HTTP and the CLI's printing, the YAML loader, the console. No module has all
locks of all transactions together: circles of a claim, a closing, an execution and an attribution are
named as hazards (`outbox.py:116`, `audit/repository.py:102`); Recovery lets PostgreSQL's victim fall at any such wait.

Hazards without a property, with the reason at each in `PROJECT.json`: the orders in which claims and
attributions lock cases (`outbox.py:116`), the breakdown nobody fills (`report.py:241`), rows inserted behind a suppression (`suppression.py:47`), an event detected again after its shadow
(`pipeline.py:163`), two gates over one contact history (`frequency_cap.py:65`), a playbook
that cannot be planned (`planner.py:184`).

## 7. Plan

Done: CaseStates, Outbox, SideEffect and Executor with proofs, Recovery with proofs,
Attribution with proofs, Intake with proofs, PolicyRules, Planner and Gate with proofs, AuditLog and
AuditChain with proofs, Simulator, Statistics, Benchmark with proofs.

Left, most important first:

1. **Two gates over one contact history**: both may pass a cap that one of them
   should, as soon as a second process gates; facts that change between plan and gate.
2. **Playbooks**: which playbooks the schema admits can be planned for every amount.
3. **One module of all row locks**: claims, closings, executions and attributions over the cases,
   payments and outbox rows they lock, to say exactly which circles PostgreSQL has to break.
4. **Detection and planning in one**: a case that is opened is planned or abandoned; today only the
   benchmark calls the two in turn.
