-------------------------- MODULE BenchmarkProofs ---------------------------
(***************************************************************************)
(* Proofs about the benchmark, for any cohorts, shipped playbooks, rolls,  *)
(* number of runs, and size of a batch.                                    *)
(*                                                                         *)
(* The argument for the actions: a row of the run that is pending has an   *)
(* entry on the heap, and one that is claimed is in the batch or in hand,  *)
(* unless the gate put it off, which it does only for a human (Handled).   *)
(* That takes the reason why no other rule can fire: a budget covers what  *)
(* is planned (Tables), consent was given before an action was due, and a  *)
(* case that has ended makes a stopping rule fire first (Ages).            *)
(*                                                                         *)
(* The argument for the captures: a capture is attributed before the next  *)
(* action is gated, and after that the gate knows (Paid).                  *)
(*                                                                         *)
(* The argument for reproducibility: every row of a case is where it would *)
(* be at the clock if the case were alone (Follows), which takes that its  *)
(* steps end in the order of their dates, the only order a claim knows.    *)
(*                                                                         *)
(* The argument for the report: four ledgers agree case by case while a    *)
(* run lasts (Booked), so the sums over them agree when it is written, and *)
(* nothing touches them afterwards (Tallied).                              *)
(***************************************************************************)
EXTENDS Benchmark, PlannerProofs

CaseRecords ==
    [state : States, cost_spent : Nat, cost_ceiling : Nat, opened_at : Nat,
     source_payment : Nat, playbook_id : {NULL}, outcome : Outcomes \cup {NULL}]

\* A decision names its rule unless it allows, and one that waits for a human defers.
RowRecords ==
    {x \in [status : {"pending", "claimed", "done", "failed", "cancelled"}, due_at : Nat,
            executed_at : Nat \cup {NULL}, verdict : {NULL, "allow", "deny", "defer"},
            rule_id : {"already_paid", "max_case_age", "awaiting_approval", NULL}] :
        /\ x.rule_id = NULL => x.verdict \in {NULL, "allow"}
        /\ x.rule_id = "awaiting_approval" => x.verdict = "defer"}

Errors ==
    {"", "rolled"}
    \cup (UNION {{Cohort[s][i].decline : i \in DOMAIN Cohort[s]} : s \in DOMAIN Cohort})

Payments ==
    [order : Nat, customer : (DOMAIN Cohort) \X Nat, amount : Nat,
     status : {"failed", "captured"}, error_reason : Errors, created_at : Nat]

\* Where a case that has been planned can be.
Begun == {"awaiting_approval", "executing", "recovered", "expired"}

\* A case of a run, of its cohort.
Keyed(k) == k = <<k[1], k[2]>> /\ k[1] \in 1..run /\ k[2] \in DOMAIN Cohort[runs[k[1]]]

\* The steps of a case that may still cost.
Unpaid(k) ==
    {i \in DOMAIN PlaybookOf(k).steps : <<k, i>> \in DOMAIN rows /\ rows[<<k, i>>].status # "done"}

CasesFiled ==
    /\ runs \in Seq(DOMAIN Cohort)
    /\ \A k \in DOMAIN cases :
        /\ Keyed(k)
        /\ cases[k] \in CaseRecords
        /\ cases[k].state \in Terminal <=> cases[k].outcome # NULL
        /\ cases[k].state = "detected" => cases[k].cost_spent = 0
        /\ cases[k].cost_spent <= cases[k].cost_ceiling
        /\ Customer(k) \in DOMAIN consents
    /\ \A x \in DOMAIN consents : consents[x] = Cohort[x[1]][x[2]].detected_at
    /\ completed \subseteq 1..run

RowsFiled ==
    /\ IsFiniteSet(DOMAIN rows)
    /\ \A r \in DOMAIN rows :
        /\ r = <<CaseOf(r), StepOf(r)>> /\ CaseOf(r) \in DOMAIN cases
        /\ HasPlaybook(CaseOf(r)) /\ StepOf(r) \in DOMAIN PlaybookOf(CaseOf(r)).steps
        /\ rows[r] \in RowRecords
        /\ rows[r].status = "done" <=> rows[r].executed_at # NULL
        /\ rows[r].due_at >= Source(CaseOf(r)).detected_at
        /\ cases[CaseOf(r)].state \in Begun
        /\ rows[r].status = "cancelled" => cases[CaseOf(r)].state \in Terminal

\* What is left of a budget pays for the rows that are not done.
Budgeted ==
    \A k \in DOMAIN cases :
        HasPlaybook(k) =>
            cases[k].cost_spent + CostOf(PlaybookOf(k), Unpaid(k)) <= cases[k].cost_ceiling

\* The heap: the cases that are still to come, and the dates of own rows.
Scheduled ==
    /\ now \in Nat
    /\ \A e \in heap :
        /\ e = [when |-> e.when, seq |-> e.seq, kind |-> e.kind, item |-> e.item]
        /\ e.when \in Nat /\ e.seq \in Nat /\ e.when >= now
        /\ \/ /\ e.kind = "case" /\ e.seq \in DOMAIN Cohort[runs[run]]
              /\ e.item = <<<<run, e.seq>>, 0>> /\ <<run, e.seq>> \notin DOMAIN cases
              /\ e.when = Cohort[runs[run]][e.seq].detected_at
           \/ /\ e.kind = "action" /\ e.item \in OwnRows
              /\ e.when = rows[e.item].due_at

\* What the process has in hand.
InHand ==
    /\ pc \in {"over", "loop", "plan", "gate", "stop", "execute", "attribute", "report"}
    /\ IF pc = "over" THEN heap = {} /\ claimed_ids = {} ELSE run > 0
    /\ pc \in {"over", "loop", "plan", "report"} => batch = {}
    /\ pc = "report" => heap = {}
    /\ batch \subseteq OwnRows \cap claimed_ids /\ claimed_ids \subseteq DOMAIN rows
    /\ \A r \in batch : rows[r].status \in {"claimed", "cancelled"}
    /\ pc = "plan" =>
        /\ CaseOf(item) \in OwnCases /\ cases[CaseOf(item)].state = "detected"
        /\ now = Source(CaseOf(item)).detected_at
    /\ pc \in {"stop", "execute", "attribute"} => item \in OwnRows \ batch
    /\ pc = "stop" =>
        \/ rows[item].rule_id = "already_paid" /\ cases[CaseOf(item)].state \in Terminal
        \/ rows[item].rule_id = "max_case_age" /\ TooOld(Context(CaseOf(item)))
    /\ pc = "execute" =>
        rows[item].status = "claimed" /\ cases[CaseOf(item)].state = "executing"
    /\ pc = "attribute" =>
        /\ rows[item].status = "done" /\ rows[item].executed_at = now
        /\ cases[CaseOf(item)].state = "executing"

\* A case of this run that has expired is too old for every later gate, and what has
\* been executed was executed by now.
Ages ==
    pc # "over" =>
        /\ \A k \in OwnCases :
            cases[k].state = "expired" => HasPlaybook(k) /\ TooOld(Context(k))
        /\ \A r \in OwnRows : rows[r].status = "done" => rows[r].executed_at <= now

\* No row of this run is lost from sight.
Handled ==
    pc # "over" /\ ~crowded =>
        \A r \in OwnRows :
            /\ rows[r].status = "pending" =>
                /\ r \notin claimed_ids
                /\ \E e \in heap : e.kind = "action" /\ e.item = r /\ e.when = rows[r].due_at
            /\ rows[r].status = "claimed" =>
                \/ r \in batch
                \/ pc \in {"stop", "execute"} /\ item = r
                \/ rows[r].rule_id = "awaiting_approval"

\* A payment is one that was seeded, or a retry of it that was permitted.
OfOrder(n) ==
    LET p == sim.payments[n]
        first == sim.payments[p.order - 1]
    IN  /\ p.order - 1 \in DOMAIN sim.payments
        /\ first.order = p.order /\ first.status = "failed"
        /\ n # p.order - 1 =>
            /\ first.error_reason \in Retryable
            /\ p.status = "failed" => p.error_reason = "rolled"

\* The simulator, and the payments of this run's cases in it.
Simulated ==
    /\ sim = [seed |-> sim.seed, next_id |-> sim.next_id, payments |-> sim.payments]
    /\ sim.next_id \in Nat
    /\ run > 0 => sim.seed = runs[run]
    /\ \A n \in DOMAIN sim.payments :
        /\ n \in 1..sim.next_id /\ sim.payments[n] \in Payments
        /\ sim.payments[n].order \in 1..sim.next_id
        /\ OfOrder(n)
    /\ \A k \in OwnCases :
        LET n == cases[k].source_payment IN
        /\ n \in DOMAIN sim.payments
        /\ sim.payments[n].order = n + 1 /\ sim.payments[n].customer = Customer(k)
        /\ \A j \in OwnCases : cases[j].source_payment = n => j = k

\* Ids that are credited are of runs so far, and of this seed have been given out.
Credits ==
    \A id \in DOMAIN credited :
        /\ credited[id] \in DOMAIN cases \cup {NULL}
        /\ id[2] \in Nat /\ \E i \in 1..run : id[1] = runs[i]
        /\ Fresh /\ id[1] = sim.seed =>
            id[2] <= sim.next_id /\ (pc = "attribute" => id[2] < sim.next_id)

\* What was captured is one for its order, and has been attributed but for the last.
Paid ==
    /\ pc = "attribute" =>
        LET p == sim.payments[sim.next_id] IN
        /\ sim.next_id \in DOMAIN sim.payments
        /\ p.status = "captured" /\ p.created_at = now
        /\ p.customer = Customer(CaseOf(item))
        /\ p.order = cases[CaseOf(item)].source_payment + 1
    /\ Fresh =>
        /\ \A m, n \in DOMAIN sim.payments :
            /\ sim.payments[m].status = "captured" /\ sim.payments[n].status = "captured"
            /\ sim.payments[m].order = sim.payments[n].order
            => m = n
        /\ pc # "over" =>
            \A n \in DOMAIN sim.payments :
                sim.payments[n].status = "captured" =>
                    \E k \in OwnCases :
                        /\ sim.payments[n].order = cases[k].source_payment + 1
                        /\ \/ cases[k].state = "recovered"
                           \/ pc = "attribute" /\ CaseOf(item) = k /\ n = sim.next_id

IInv ==
    /\ CasesFiled
    /\ RowsFiled
    /\ Budgeted
    /\ Scheduled
    /\ InHand
    /\ Ages
    /\ Handled
    /\ Simulated
    /\ Credits
    /\ Paid

-----------------------------------------------------------------------------
(* Cases and playbooks.                                                    *)

LEMMA RunsAre ==
    ASSUME CasesFiled
    PROVE  run \in Nat /\ DOMAIN runs = 1..run /\ \A i \in 1..run : runs[i] \in DOMAIN Cohort
  BY DEF CasesFiled, run

\* What the assumptions say of a case.
LEMMA CaseIs ==
    ASSUME CasesFiled, NEW k, Keyed(k)
    PROVE  /\ k[1] \in 1..run /\ k[1] \in Nat /\ run \in Nat /\ run > 0
           /\ k[2] \in Nat /\ runs[k[1]] \in DOMAIN Cohort /\ CohortCase(Source(k))
           /\ Customer(k) \in (DOMAIN Cohort) \X Nat
           /\ Customer(k)[1] = runs[k[1]] /\ Customer(k)[2] = k[2]
           /\ Source(k) = Cohort[Customer(k)[1]][Customer(k)[2]]
           /\ HasPlaybook(k) => Shipped(PlaybookOf(k)) /\ WellFormed(PlaybookOf(k))
<1>1. run \in Nat /\ DOMAIN runs = 1..run /\ \A i \in 1..run : runs[i] \in DOMAIN Cohort
  BY RunsAre
<1>2. k[1] \in 1..run /\ k[2] \in DOMAIN Cohort[runs[k[1]]]
  BY DEF Keyed
<1>3. runs[k[1]] \in DOMAIN Cohort
  BY <1>1, <1>2
<1>4. /\ Len(Cohort[runs[k[1]]]) \in Nat
      /\ DOMAIN Cohort[runs[k[1]]] = 1..Len(Cohort[runs[k[1]]])
      /\ \A i \in DOMAIN Cohort[runs[k[1]]] : CohortCase(Cohort[runs[k[1]]][i])
  BY <1>3, BenchmarkConstants
<1>5. k[2] \in Nat
  <2> DEFINE n == Len(Cohort[runs[k[1]]])
  <2>1. n \in Nat /\ k[2] \in 1..n
    BY <1>2, <1>4
  <2> HIDE DEF n
  <2> QED
    BY <2>1
<1>6. CohortCase(Source(k))
  BY <1>2, <1>4 DEF Source
<1>7. Customer(k) \in (DOMAIN Cohort) \X Nat
      /\ Customer(k)[1] = runs[k[1]] /\ Customer(k)[2] = k[2]
  BY <1>3, <1>5 DEF Customer
<1>8. HasPlaybook(k) => Shipped(PlaybookOf(k))
  <2>1. CASE Source(k).arm = "baseline"
    BY <2>1, BenchmarkConstants DEF PlaybookOf
  <2>2. CASE Source(k).arm # "baseline"
    BY <2>2, BenchmarkConstants DEF PlaybookOf, HasPlaybook
  <2> QED
    BY <2>1, <2>2
<1>9. Shipped(PlaybookOf(k)) => WellFormed(PlaybookOf(k))
  BY DEF Shipped
<1>10. Source(k) = Cohort[Customer(k)[1]][Customer(k)[2]]
  BY <1>7 DEF Source
<1>11. k[1] \in Nat /\ run > 0
  BY <1>1, <1>2
<1> QED
  BY <1>1, <1>2, <1>3, <1>5, <1>6, <1>7, <1>8, <1>9, <1>10, <1>11

LEMMA FiledAre ==
    ASSUME CasesFiled, NEW k \in DOMAIN cases
    PROVE  Keyed(k) /\ cases[k] \in CaseRecords
  BY DEF CasesFiled

\* In a run of a new seed a customer has one case.
LEMMA OneCase ==
    ASSUME CasesFiled, Fresh, NEW j, Keyed(j), NEW k, Keyed(k), k[1] = run,
           Customer(j) = Customer(k)
    PROVE  j = k
<1>1. runs[j[1]] = runs[run] /\ j[2] = k[2]
  BY CaseIs
<1>2. j[1] \in 1..run /\ run \in Nat
  BY CaseIs
<1>3. j[1] = run
  BY <1>1, <1>2 DEF Fresh
<1> QED
  BY <1>1, <1>3 DEF Keyed

\* The facts of an own row.
LEMMA RowIs ==
    ASSUME CasesFiled, RowsFiled, NEW r \in DOMAIN rows
    PROVE  /\ r = <<CaseOf(r), StepOf(r)>> /\ CaseOf(r) \in DOMAIN cases
           /\ Keyed(CaseOf(r)) /\ cases[CaseOf(r)] \in CaseRecords
           /\ HasPlaybook(CaseOf(r)) /\ Shipped(PlaybookOf(CaseOf(r)))
           /\ StepOf(r) \in DOMAIN PlaybookOf(CaseOf(r)).steps
           /\ rows[r] \in RowRecords
           /\ StepIn(r) = PlaybookOf(CaseOf(r)).steps[StepOf(r)]
           /\ StepIn(r).cost \in Nat /\ StepIn(r).cost <= GLOBAL_DAILY_CAP
           /\ StepIn(r).channel \in NON_CONTACT_CHANNELS \cup {"email"}
<1>1. /\ r = <<CaseOf(r), StepOf(r)>> /\ CaseOf(r) \in DOMAIN cases
      /\ HasPlaybook(CaseOf(r)) /\ StepOf(r) \in DOMAIN PlaybookOf(CaseOf(r)).steps
      /\ rows[r] \in RowRecords
  BY DEF RowsFiled
<1>2. Keyed(CaseOf(r)) /\ cases[CaseOf(r)] \in CaseRecords
  BY <1>1, FiledAre
<1>3. Shipped(PlaybookOf(CaseOf(r)))
  BY <1>1, <1>2, CaseIs
<1>4. StepIn(r).cost \in Nat /\ StepIn(r).cost <= GLOBAL_DAILY_CAP
      /\ StepIn(r).channel \in NON_CONTACT_CHANNELS \cup {"email"}
  BY <1>1, <1>3 DEF Shipped, WellFormed, StepIn
<1> QED
  BY <1>1, <1>2, <1>3, <1>4 DEF StepIn

-----------------------------------------------------------------------------
(* The heap.                                                               *)

\* The first of the heap: no other is of an earlier instant.
LEMMA FirstIsPopped ==
    ASSUME Scheduled, heap # {}
    PROVE  /\ Popped \in heap /\ Popped.when \in Nat /\ Popped.when >= now
           /\ \A e \in heap : e.when \in Nat /\ Popped.when <= e.when
<1> DEFINE Before(e, f) == e.when < f.when \/ (e.when = f.when /\ e.seq <= f.seq)
           times == {e.when : e \in heap}
<1>1. \A e \in heap : e.when \in Nat /\ e.seq \in Nat /\ e.when >= now
  BY DEF Scheduled
<1>2. PICK t \in times : \A u \in times : t <= u
  <2>1. times \subseteq Nat /\ times # {}
    BY <1>1
  <2> HIDE DEF times
  <2> QED
    BY <2>1, LeastNat
<1> DEFINE places == {e.seq : e \in {f \in heap : f.when = t}}
<1>3. PICK s \in places : \A u \in places : s <= u
  <2>1. places \subseteq Nat /\ places # {}
    BY <1>1, <1>2
  <2> HIDE DEF places
  <2> QED
    BY <2>1, LeastNat
<1>4. PICK e \in heap : e.when = t /\ e.seq = s
  BY <1>3
<1>5. \A f \in heap : Before(e, f)
  <2> SUFFICES ASSUME NEW f \in heap
               PROVE  Before(e, f)
    OBVIOUS
  <2>1. t <= f.when
    BY <1>2
  <2>2. f.when = t => s <= f.seq
    BY <1>3
  <2> QED
    BY <1>1, <1>4, <2>1, <2>2
<1>6. Popped = CHOOSE x \in heap : \A f \in heap : Before(x, f)
  BY DEF Popped
<1> HIDE DEF Before
<1>7. Popped \in heap /\ \A f \in heap : Before(Popped, f)
  BY <1>5, <1>6, Zenon
<1> QED
  BY <1>1, <1>7 DEF Before

-----------------------------------------------------------------------------
(* The engine.                                                             *)

\* The facts the runner has no source for.
LEMMA ContextIs ==
    ASSUME NEW k
    PROVE  /\ Context(k).now = now /\ Context(k).state = cases[k].state
           /\ Context(k).arm = Source(k).arm /\ Context(k).opened_at = cases[k].opened_at
           /\ Context(k).cost_spent = cases[k].cost_spent
           /\ Context(k).cost_ceiling = cases[k].cost_ceiling
           /\ Context(k).max_attempts = PlaybookOf(k).max_attempts
           /\ Context(k).max_case_age = PlaybookOf(k).max_case_age
           /\ Context(k).consent_events = ConsentEvents(k)
           /\ Context(k).retryable /\ Context(k).contact_history = {} /\ ~Context(k).dnd
           /\ Context(k).mandate = NULL /\ ~Context(k).tripped
           /\ Context(k).rate_limit_tokens = <<>> /\ Context(k).daily_spend = 0
           /\ ~Context(k).dispute_exists /\ ~Context(k).account_closed
           /\ Context(k).promise_to_pay = NULL
  BY DEF Context, RefreshCaseState

\* The customer's consent is the oldest word there is, and on every channel.
LEMMA ConsentStands ==
    ASSUME CasesFiled, RowsFiled, NEW r \in DOMAIN rows
    PROVE  ~NoConsent(ActionOf(r), Context(CaseOf(r))) /\ ~OptedOut(Context(CaseOf(r)))
<1> DEFINE k == CaseOf(r)
           a == ActionOf(r)
           c == Context(k)
           given == [channel |-> a.channel, granted |-> TRUE, source |-> "checkout",
                     occurred_at |-> consents[Customer(k)]]
<1>1. /\ Customer(k) \in DOMAIN consents /\ Keyed(k)
      /\ consents[Customer(k)] = Source(k).detected_at /\ Source(k).detected_at \in Nat
  <2>1. Keyed(k) /\ k \in DOMAIN cases
    BY RowIs
  <2>2. Customer(k) \in DOMAIN consents
        /\ consents[Customer(k)] = Cohort[Customer(k)[1]][Customer(k)[2]].detected_at
    BY <2>1 DEF CasesFiled
  <2>3. Source(k) = Cohort[Customer(k)[1]][Customer(k)[2]] /\ CohortCase(Source(k))
    BY <2>1, CaseIs
  <2> QED
    BY <2>1, <2>2, <2>3 DEF CohortCase
<1>2. rows[r].due_at \in Nat /\ rows[r].due_at >= Source(k).detected_at
  BY RowIs DEF RowsFiled, RowRecords
<1>3. a.channel \in Channels /\ a.due_at = rows[r].due_at
  BY RowIs DEF ActionOf, Channels, NON_CONTACT_CHANNELS
<1>4. c.consent_events = ConsentEvents(k)
  BY ContextIs
<1>5. \A e \in ConsentEvents(k) : e.granted
  BY DEF ConsentEvents
<1>6. given \in ConsentEvents(k)
  BY <1>3 DEF ConsentEvents
<1>7. given.channel = a.channel /\ given.occurred_at <= a.due_at
  BY <1>1, <1>2, <1>3
<1> HIDE DEF k, a, c, given
<1>8. ConsentAt(c, a.channel, a.due_at)
  BY <1>4, <1>5, <1>6, <1>7 DEF ConsentAt
<1>9. ~OptedOut(c)
  BY <1>4, <1>5 DEF OptedOut
<1> QED
  BY <1>8, <1>9 DEF NoConsent, k, a, c

\* The rules that may fire for a row that is gated: for every other the runner has no
\* source, or what was planned sees to it.
LEMMA FiringRules ==
    ASSUME CasesFiled, RowsFiled, Budgeted, NEW r \in DOMAIN rows, rows[r].status # "done",
           NEW rule \in {RULES[i] : i \in DOMAIN RULES},
           Fires(rule, ActionOf(r), Context(CaseOf(r)))
    PROVE  /\ rule \in {"already_paid", "max_case_age", "domain_guard", "awaiting_approval"}
           /\ rule = "domain_guard" => cases[CaseOf(r)].state \in Terminal
<1> DEFINE k == CaseOf(r)
           a == ActionOf(r)
           c == Context(k)
<1>1. /\ a.channel \in {"payment_retry", "link", "email"} /\ a.attempt = 1
      /\ a.cost = StepIn(r).cost /\ a.cost \in Nat /\ a.cost <= GLOBAL_DAILY_CAP
  BY RowIs DEF ActionOf, NON_CONTACT_CHANNELS
<1>2. /\ k \in DOMAIN cases /\ Keyed(k) /\ HasPlaybook(k) /\ cases[k] \in CaseRecords
      /\ Shipped(PlaybookOf(k)) /\ WellFormed(PlaybookOf(k))
  BY RowIs DEF Shipped
<1>3. ~NoConsent(a, c) /\ ~OptedOut(c)
  BY ConsentStands
<1>4. ~AttemptsUsedUp(a, c)
  <2>1. PlaybookOf(k).max_attempts \in Nat \ {0}
    BY <1>2 DEF WellFormed
  <2> QED
    BY <1>1, <2>1, ContextIs DEF AttemptsUsedUp
<1>5. ~CostCeiling(a, c)
  <2> DEFINE p == PlaybookOf(k)
             U == Unpaid(k)
             i == StepOf(r)
  <2>1. U \in SUBSET DOMAIN p.steps /\ i \in U /\ p.steps[i].cost = a.cost
    BY <1>1, RowIs DEF Unpaid, StepIn
  <2>2. CostOf(p, U) = p.steps[i].cost + CostOf(p, U \ {i}) /\ CostOf(p, U \ {i}) \in Nat
    <3>1. U \ {i} \in SUBSET U
      OBVIOUS
    <3> HIDE DEF p, U, i
    <3> QED
      BY <1>2, <2>1, <3>1, CostLaws DEF p
  <2>3. cases[k].cost_spent + CostOf(p, U) <= cases[k].cost_ceiling
    BY <1>2 DEF Budgeted
  <2>4. cases[k].cost_spent \in Nat /\ cases[k].cost_ceiling \in Nat
    BY <1>2 DEF CaseRecords
  <2>5. c.cost_spent = cases[k].cost_spent /\ c.cost_ceiling = cases[k].cost_ceiling
        /\ c.daily_spend = 0
    BY ContextIs
  <2>6. GLOBAL_DAILY_CAP \in Nat
    BY PolicyConstants
  <2> HIDE DEF k, a, c, p, U, i
  <2> QED
    BY <1>1, <2>1, <2>2, <2>3, <2>4, <2>5, <2>6 DEF CostCeiling
<1>6. ~FrequencyCap(a, c)
  <2>1. c.contact_history = {}
    BY ContextIs
  <2>2. \A window : Within(c, window) = {}
    BY <2>1 DEF Within
  <2>3. DOMAIN Caps(a, c) = 1..3
        /\ \A i \in 1..3 : Caps(a, c)[i].counted = {} /\ Caps(a, c)[i].cap \in {1, 3}
    BY <2>2 DEF Caps
  <2>4. Cardinality({}) = 0
    BY FS_EmptySet
  <2> HIDE DEF a, c
  <2>5. Breached(a, c) = {}
    BY <2>3, <2>4 DEF Breached
  <2> QED
    BY <2>5 DEF FrequencyCap
<1>7. ~QuietHours(a, c)
  BY <1>1 DEF QuietHours, NON_CONTACT_CHANNELS
<1>8. ~KillSwitchActive(c) /\ ~c.dispute_exists /\ ~c.account_closed /\ ~DndRegistered(a, c)
  BY ContextIs DEF KillSwitchActive, DndRegistered
<1>9. ~MandateGone(c) /\ ~CannotDebit(c) /\ ~MandateExhausted(a, c) /\ ~PromiseActive(c)
  BY ContextIs DEF MandateGone, CannotDebit, MandateExhausted, PromiseActive
<1>10. ~RateLimited(a, c)
  BY ContextIs DEF RateLimited
<1>11. DomainGuard(a, c) => cases[k].state \in Terminal
  <2>1. c.arm # "control" /\ c.retryable /\ c.state = cases[k].state
    BY <1>2, ContextIs DEF HasPlaybook
  <2> QED
    BY <1>9, <2>1 DEF DomainGuard
<1>12. rule \in {"kill_switch_active", "customer_opt_out", "dispute_filed", "already_paid",
       "max_attempts_reached", "max_case_age", "mandate_revoked", "promise_to_pay_active",
       "customer_deceased_or_closed", "domain_guard", "no_consent", "dnd_registered",
       "quiet_hours", "frequency_cap", "cost_ceiling", "mandate_exhausted",
       "awaiting_approval", "rate_limited"}
  BY DEF RULES
<1>13. Fires(rule, a, c)
  OBVIOUS
<1> HIDE DEF a, c, k
<1> QED
  BY <1>3, <1>4, <1>5, <1>6, <1>7, <1>8, <1>9, <1>10, <1>11, <1>12, <1>13 DEF Fires, k

\* What the gate decides of a row, and why.
Decided(r, d) ==
    LET k == CaseOf(r) IN
    \/ d.rule_id = "already_paid" /\ d.verdict = "deny" /\ cases[k].state = "recovered"
    \/ d.rule_id = "max_case_age" /\ d.verdict = "deny" /\ TooOld(Context(k))
    \/ /\ d.rule_id = "awaiting_approval" /\ d.verdict = "defer"
       /\ cases[k].state = "awaiting_approval" /\ ~TooOld(Context(k))
    \/ /\ d.rule_id = NULL /\ d.verdict = "allow"
       /\ cases[k].state = "executing" /\ ~TooOld(Context(k))

\* runner.py:462: of all the rules only these can decide, and a case that has
\* ended is denied by a stopping rule before a guard would do so.
LEMMA GateDecides ==
    ASSUME CasesFiled, RowsFiled, Budgeted, NEW r \in DOMAIN rows, rows[r].status # "done",
           cases[CaseOf(r)].state = "expired" => TooOld(Context(CaseOf(r)))
    PROVE  Decided(r, Evaluate(ActionOf(r), Context(CaseOf(r))))
<1> DEFINE k == CaseOf(r)
           a == ActionOf(r)
           c == Context(k)
           firing == {i \in DOMAIN RULES : Fires(RULES[i], a, c)}
           d == Evaluate(a, c)
           state == cases[k].state
<1>1. /\ 4 \in DOMAIN RULES /\ 6 \in DOMAIN RULES /\ 10 \in DOMAIN RULES /\ 17 \in DOMAIN RULES
      /\ RULES[4] = "already_paid" /\ RULES[6] = "max_case_age"
      /\ RULES[10] = "domain_guard" /\ RULES[17] = "awaiting_approval"
      /\ \A i \in DOMAIN RULES : RULES[i] = "domain_guard" => i = 10
      /\ \A i \in DOMAIN RULES : RULES[i] = "awaiting_approval" => i = 17
      /\ DOMAIN RULES \subseteq Nat
  BY DEF RULES
<1>2. state \in {"awaiting_approval", "executing", "recovered", "expired"}
  BY RowIs DEF RowsFiled, Begun
<1>3. state = "recovered" => 4 \in firing
  BY <1>1, ContextIs DEF Fires, Recovered
<1>4. /\ state = "expired" => 6 \in firing
      /\ TooOld(c) => 6 \in firing
  BY <1>1 DEF Fires
<1>5. state = "awaiting_approval" => 17 \in firing
  BY <1>1, ContextIs DEF Fires
<1>6. ASSUME firing = {}
      PROVE  Decided(r, d)
  <2>1. d = [verdict |-> "allow", rule_id |-> NULL, defer_until |-> NULL]
    BY <1>6 DEF Evaluate
  <2>2. state = "executing" /\ ~TooOld(c)
    BY <1>2, <1>3, <1>4, <1>5, <1>6
  <2> HIDE DEF d
  <2> QED
    BY <2>1, <2>2 DEF Decided
<1>7. ASSUME firing # {}
      PROVE  Decided(r, d)
  <2> DEFINE m == Min(firing)
             rule == RULES[m]
  <2>1. m \in firing /\ \A i \in firing : m <= i
    <3>1. firing \in SUBSET Nat
      BY <1>1
    <3> HIDE DEF firing
    <3> QED
      BY <1>7, <3>1, MinIs
  <2>2. d = [verdict |-> IF Defers(rule) THEN "defer" ELSE "deny",
             rule_id |-> rule, defer_until |-> DeferUntil(rule, a, c)]
    BY <1>7 DEF Evaluate
  <2>3. m \in DOMAIN RULES /\ Fires(rule, a, c)
    BY <2>1
  <2>4. /\ rule \in {"already_paid", "max_case_age", "domain_guard", "awaiting_approval"}
        /\ rule = "domain_guard" => state \in Terminal
    BY <2>3, FiringRules
  <2>5. rule # "domain_guard"
    <3>1. SUFFICES ASSUME rule = "domain_guard"
                   PROVE  FALSE
      OBVIOUS
    <3>2. m = 10
      BY <1>1, <2>3, <3>1
    <3>3. state \in {"recovered", "expired"}
      BY <1>2, <2>4, <3>1 DEF Terminal, Recovered
    <3>4. 4 \in firing \/ 6 \in firing
      BY <1>3, <1>4, <3>3
    <3> HIDE DEF firing, m
    <3> QED
      BY <2>1, <3>2, <3>4
  <2>6. rule = "already_paid" => state = "recovered"
    BY <1>2, <2>3, ContextIs DEF Fires, Recovered
  <2>7. rule = "max_case_age" => TooOld(c)
    BY <2>3 DEF Fires
  <2>9. rule = "awaiting_approval" => state = "awaiting_approval" /\ ~TooOld(c)
    <3>1. SUFFICES ASSUME rule = "awaiting_approval"
                   PROVE  state = "awaiting_approval" /\ ~TooOld(c)
      OBVIOUS
    <3>2. m = 17
      BY <1>1, <2>3, <3>1
    <3>3. state = "awaiting_approval"
      BY <2>3, <3>1, ContextIs DEF Fires
    <3>4. 6 \notin firing
      <4> HIDE DEF firing, m
      <4> QED
        BY <2>1, <3>2
    <3> QED
      BY <1>4, <3>3, <3>4
  <2>8. d.rule_id = rule /\ d.verdict = IF Defers(rule) THEN "defer" ELSE "deny"
    BY <2>2
  <2> HIDE DEF d, rule, c, state
  <2> QED
    BY <2>4, <2>5, <2>6, <2>7, <2>8, <2>9 DEF Decided, Defers, state, c
<1> QED
  BY <1>6, <1>7

-----------------------------------------------------------------------------
(* What a step does to the tables.                                         *)

\* A run keeps the meaning of a key.
LEMMA SameRun ==
    ASSUME runs' = runs
    PROVE  /\ run' = run /\ (Fresh' <=> Fresh)
           /\ \A k : /\ Source(k)' = Source(k) /\ Customer(k)' = Customer(k)
                     /\ (HasPlaybook(k)' <=> HasPlaybook(k)) /\ PlaybookOf(k)' = PlaybookOf(k)
                     /\ (Keyed(k)' <=> Keyed(k)) /\ (NeedsApproval(k)' <=> NeedsApproval(k))
           /\ \A r : (Own(r)' <=> Own(r)) /\ StepIn(r)' = StepIn(r)
  BY DEF run, Fresh, Source, Customer, HasPlaybook, PlaybookOf, Keyed, NeedsApproval, Own, StepIn

\* What can happen to a case that is there.
CaseStep(k) ==
    /\ k \in DOMAIN cases' /\ cases'[k] \in CaseRecords
    /\ cases'[k].opened_at = cases[k].opened_at
    /\ cases'[k].source_payment = cases[k].source_payment
    /\ \/ cases'[k] = cases[k]
       \/ /\ pc = "plan" /\ k = CaseOf(item) /\ pc' = "loop"
          /\ \/ cases'[k].state = "holdout" /\ cases'[k].cost_ceiling = cases[k].cost_ceiling
             \/ /\ cases'[k].state \in {"awaiting_approval", "executing"} /\ HasPlaybook(k)
                /\ cases'[k].cost_ceiling
                    = CostOf(PlaybookOf(k), IncludedSteps(PlaybookOf(k), Source(k).amount))
          /\ cases'[k].cost_spent = cases[k].cost_spent /\ cases'[k].outcome = cases[k].outcome
       \/ /\ pc = "stop" /\ k = CaseOf(item) /\ rows[item].rule_id = "max_case_age"
          /\ cases'[k].state = "expired" /\ cases'[k].outcome # NULL
          /\ cases[k].state \notin Terminal
          /\ cases'[k].cost_spent = cases[k].cost_spent
          /\ cases'[k].cost_ceiling = cases[k].cost_ceiling
       \/ /\ pc = "execute" /\ k = CaseOf(item)
          /\ cases'[k].cost_spent = cases[k].cost_spent + StepIn(item).cost
          /\ cases'[k].state = cases[k].state /\ cases'[k].outcome = cases[k].outcome
          /\ cases'[k].cost_ceiling = cases[k].cost_ceiling
          /\ rows'[item].status = "done"
       \/ /\ pc = "attribute" /\ cases[k].state \in Eligible
          /\ cases'[k].state = "recovered" /\ cases'[k].outcome # NULL
          /\ cases'[k].cost_spent = cases[k].cost_spent
          /\ cases'[k].cost_ceiling = cases[k].cost_ceiling

LEMMA StatesAre ==
    /\ {"detected", "holdout", "executing", "awaiting_approval", "recovered", "expired"}
         \subseteq States
    /\ Terminal \subseteq States /\ Begun \subseteq States
    /\ \A s \in {"recovered", "expired"} : s \in Terminal
    /\ \A s \in Eligible \cup {"detected", "awaiting_approval"} : s \notin Terminal
    /\ STOPPING_OUTCOMES["already_paid"] = NULL
    /\ STOPPING_OUTCOMES["max_case_age"] = "expired" /\ NULL # "expired"
<1>1. /\ {"detected", "holdout", "executing", "awaiting_approval", "recovered", "expired"}
           \subseteq States
      /\ Terminal \subseteq States /\ Begun \subseteq States
  BY DEF States, Transitions, Terminal, Recovered, Begun
<1>2. NULL # "expired"
  BY <1>1, BenchmarkConstants
<1> QED
  BY <1>1, <1>2 DEF Terminal, Recovered, Eligible, STOPPING_OUTCOMES

\* What ends a case is recorded with it.
LEMMA EndsAre ==
    /\ [kind |-> "expired", recovered |-> 0, reason_code |-> "max_case_age"] \in Outcomes
    /\ \A n \in Nat : [kind |-> "recovered", reason_code |-> NULL, recovered |-> n] \in Outcomes
    /\ NULL \notin Outcomes
<1>1. {"expired", "recovered"} \subseteq States
  BY StatesAre
<1> HIDE DEF States
<1>2. [kind |-> "expired", recovered |-> 0, reason_code |-> "max_case_age"] \in Outcomes
  <2>1. RULES[6] = "max_case_age" /\ 6 \in DOMAIN RULES
    BY DEF RULES
  <2>2. "max_case_age" \in {RULES[i] : i \in DOMAIN RULES}
    BY <2>1
  <2> QED
    BY <1>1, <2>2 DEF Outcomes
<1>3. \A n \in Nat : [kind |-> "recovered", reason_code |-> NULL, recovered |-> n] \in Outcomes
  BY <1>1 DEF Outcomes
<1> QED
  BY <1>2, <1>3, BenchmarkConstants

\* The item of a transaction that is in the middle of a batch.
LEMMA ItemIs ==
    ASSUME CasesFiled, RowsFiled, InHand, pc \in {"stop", "execute", "attribute"}
    PROVE  /\ item \in DOMAIN rows /\ item \in OwnRows /\ item \notin batch
           /\ CaseOf(item) \in DOMAIN cases /\ CaseOf(item) \in OwnCases
           /\ cases[CaseOf(item)] \in CaseRecords /\ rows[item] \in RowRecords
<1>1. item \in OwnRows /\ item \notin batch
  BY DEF InHand
<1>2. item \in DOMAIN rows /\ CaseOf(item)[1] = run
  BY <1>1 DEF OwnRows, Own
<1> QED
  BY <1>1, <1>2, RowIs DEF OwnCases

\* The rule of a stop is one of two.
LEMMA StopIs ==
    ASSUME CasesFiled, RowsFiled, InHand, Stop
    PROVE  /\ pc = "stop" /\ pc' = Onward
           /\ UNCHANGED <<runs, now, heap, claimed_ids, batch, item, credited, consents, completed,
                          world, sim, report, crowded>>
           /\ rows' = [r \in DOMAIN rows |->
                          IF CaseOf(r) = CaseOf(item) /\ rows[r].status \in Live
                          THEN [rows[r] EXCEPT !.status = "cancelled"] ELSE rows[r]]
           /\ \/ cases' = cases /\ cases[CaseOf(item)].state \in Terminal
              \/ /\ rows[item].rule_id = "max_case_age" /\ TooOld(Context(CaseOf(item)))
                 /\ cases[CaseOf(item)].state \notin Terminal
                 /\ cases' = [cases EXCEPT
                       ![CaseOf(item)].state = "expired",
                       ![CaseOf(item)].outcome = [kind |-> "expired", recovered |-> 0,
                                                  reason_code |-> "max_case_age"]]
<1>1. pc = "stop"
  BY DEF Stop
<1>2. CASE rows[item].rule_id = "already_paid" /\ cases[CaseOf(item)].state \in Terminal
  BY <1>2, StatesAre DEF Stop
<1>3. CASE rows[item].rule_id = "max_case_age" /\ TooOld(Context(CaseOf(item)))
  <2>1. \A s \in Terminal : s \notin DOMAIN Transitions
    BY DEF Terminal, Recovered, Transitions
  <2>2. \A arm, s : CanMove(arm, s, "expired") => s \notin Terminal
    BY <2>1 DEF CanMove
  <2> QED
    BY <1>3, <2>2, StatesAre DEF Stop
<1> QED
  BY <1>1, <1>2, <1>3 DEF InHand, Stop

\* Who is credited: nobody, or one case of the payment's customer.
LEMMA AttributeIs ==
    ASSUME Attribute
    PROVE  LET id == PaymentId(sim.next_id)
               p == sim.payments[sim.next_id]
               ended == [kind |-> "recovered", reason_code |-> NULL, recovered |-> p.amount]
           IN \/ cases' = cases /\ credited' = credited /\ id \in DOMAIN credited
              \/ /\ Matches(p) = {} /\ credited' = [i \in DOMAIN credited \cup {id} |->
                                      IF i = id THEN NULL ELSE credited[i]]
                 /\ cases' = [j \in DOMAIN cases |->
                                IF j = NULL THEN [cases[j] EXCEPT !.state = "recovered",
                                                                  !.outcome = ended]
                                            ELSE cases[j]]
              \/ \E k \in Matches(p) :
                 /\ credited' = [i \in DOMAIN credited \cup {id} |->
                                    IF i = id THEN k ELSE credited[i]]
                 /\ cases' = [j \in DOMAIN cases |->
                                IF j = k THEN [cases[j] EXCEPT !.state = "recovered",
                                                               !.outcome = ended]
                                         ELSE cases[j]]
  BY DEF Attribute

\* A case that is there is held back, planned, ended, charged or credited, or stays.
LEMMA CaseSteps ==
    ASSUME CasesFiled, RowsFiled, InHand, Scheduled, Simulated, Paid,
           [Next]_vars, NEW k \in DOMAIN cases
    PROVE  CaseStep(k)
<1>1. cases[k] \in CaseRecords /\ Keyed(k) /\ k # NULL
  <2>1. cases[k] \in CaseRecords /\ Keyed(k)
    BY FiledAre
  <2>2. k \in Nat \X Nat
    BY <2>1, CaseIs DEF Keyed
  <2> QED
    BY <2>1, <2>2, BenchmarkConstants
<1>2. ASSUME cases' = cases
      PROVE  CaseStep(k)
  BY <1>1, <1>2 DEF CaseStep
<1>3. CASE PopCase
  <2>1. \/ cases' = cases
        \/ \E l, new : /\ l \notin DOMAIN cases
                       /\ cases' = [j \in DOMAIN cases \cup {l} |-> IF j = l THEN new ELSE cases[j]]
    <3>1. heap # {} /\ Popped.kind = "case"
      BY <1>3 DEF PopCase
    <3>2. CaseOf(Popped.item) \notin DOMAIN cases
      <4> DEFINE e == Popped
      <4>1. e \in heap /\ e.kind = "case"
        BY <3>1, FirstIsPopped
      <4> HIDE DEF e
      <4>2. e.item = <<<<run, e.seq>>, 0>> /\ <<run, e.seq>> \notin DOMAIN cases
        BY <4>1 DEF Scheduled
      <4>3. CaseOf(e.item) = <<run, e.seq>>
        BY <4>2 DEF CaseOf
      <4> QED
        BY <4>2, <4>3 DEF e
    <3>3. CASE OpenCase(CaseOf(Popped.item))
      BY <1>3, <3>3 DEF PopCase
    <3>4. CASE ~OpenCase(CaseOf(Popped.item))
      <4> DEFINE l == CaseOf(Popped.item)
                 new == [state |-> "detected", cost_spent |-> 0, cost_ceiling |-> 0,
                         opened_at |-> Popped.when, source_payment |-> sim.next_id + 1,
                         playbook_id |-> NULL, outcome |-> NULL]
      <4>1. cases' = [j \in DOMAIN cases \cup {l} |-> IF j = l THEN new ELSE cases[j]]
        BY <1>3, <3>4 DEF PopCase
      <4> HIDE DEF l, new
      <4>2. \E n : cases' = [j \in DOMAIN cases \cup {l} |-> IF j = l THEN n ELSE cases[j]]
        BY <4>1
      <4> QED
        BY <3>2, <4>2 DEF l
    <3> QED
      BY <3>3, <3>4
  <2> QED
    BY <1>1, <1>2, <2>1 DEF CaseStep
<1>4. CASE PersistHoldout
  <2>1. pc = "plan" /\ pc' = "loop" /\ cases' = [cases EXCEPT ![CaseOf(item)].state = "holdout"]
    BY <1>4 DEF PersistHoldout
  <2>2. CASE k = CaseOf(item)
    <3>1. cases'[k] = [cases[k] EXCEPT !.state = "holdout"] /\ k \in DOMAIN cases'
      BY <2>1, <2>2
    <3>2. "holdout" \in States
      BY StatesAre
    <3> HIDE DEF States
    <3>3. /\ cases'[k] \in CaseRecords /\ cases'[k].state = "holdout"
          /\ cases'[k].outcome = cases[k].outcome /\ cases'[k].cost_spent = cases[k].cost_spent
          /\ cases'[k].cost_ceiling = cases[k].cost_ceiling
          /\ cases'[k].opened_at = cases[k].opened_at
          /\ cases'[k].source_payment = cases[k].source_payment
      BY <1>1, <3>1, <3>2 DEF CaseRecords
    <3> QED
      BY <2>1, <2>2, <3>1, <3>3 DEF CaseStep
  <2>3. CASE k # CaseOf(item)
    BY <1>1, <2>1, <2>3 DEF CaseStep
  <2> QED
    BY <2>2, <2>3
<1>5. CASE PersistPlan
  <2> DEFINE l == CaseOf(item)
             s == IF NeedsApproval(l) THEN "awaiting_approval" ELSE "executing"
             n == CostOf(PlaybookOf(l), IncludedSteps(PlaybookOf(l), Source(l).amount))
  <2>1. pc = "plan" /\ pc' = "loop" /\ HasPlaybook(l)
        /\ cases' = [cases EXCEPT ![l].state = s, ![l].cost_ceiling = n]
    BY <1>5 DEF PersistPlan
  <2>2. CASE k = l
    <3>1. n \in Nat
      <4>1. WellFormed(PlaybookOf(k)) /\ Source(k).amount \in Nat
        BY <1>1, <2>1, <2>2, CaseIs DEF CohortCase
      <4> QED
        BY <2>2, <4>1, IncludedAre
    <3>2. s \in {"awaiting_approval", "executing"}
      OBVIOUS
    <3> HIDE DEF s, n, l
    <3>3. cases'[k] = [cases[k] EXCEPT !.state = s, !.cost_ceiling = n] /\ k \in DOMAIN cases'
      BY <2>1, <2>2
    <3>4. cases'[k] \in CaseRecords /\ cases'[k].state = s /\ cases'[k].cost_ceiling = n
          /\ cases'[k].outcome = cases[k].outcome /\ cases'[k].cost_spent = cases[k].cost_spent
          /\ cases'[k].opened_at = cases[k].opened_at
          /\ cases'[k].source_payment = cases[k].source_payment
      <4>1. s \in States
        BY <3>2, StatesAre
      <4> QED
        BY <1>1, <3>1, <3>3, <4>1 DEF CaseRecords
    <3>5. HasPlaybook(k) /\ k = CaseOf(item)
          /\ n = CostOf(PlaybookOf(k), IncludedSteps(PlaybookOf(k), Source(k).amount))
      BY <2>1, <2>2 DEF l, n
    <3> QED
      BY <2>1, <3>2, <3>3, <3>4, <3>5 DEF CaseStep
  <2>3. CASE k # l
    BY <1>1, <2>1, <2>3 DEF CaseStep
  <2> QED
    BY <2>2, <2>3
<1>6. CASE Stop
  <2> DEFINE l == CaseOf(item)
             end == [kind |-> "expired", recovered |-> 0, reason_code |-> "max_case_age"]
  <2>1. \/ cases' = cases
        \/ /\ rows[item].rule_id = "max_case_age" /\ cases[l].state \notin Terminal
           /\ cases' = [cases EXCEPT ![l].state = "expired", ![l].outcome = end]
    BY <1>6, StopIs
  <2>2. pc = "stop"
    BY <1>6 DEF Stop
  <2>3. end \in Outcomes /\ end # NULL
    BY EndsAre
  <2> HIDE DEF end
  <2>4. CASE cases' # cases /\ k = l
    <3>1. cases'[k] = [cases[k] EXCEPT !.state = "expired", !.outcome = end] /\ k \in DOMAIN cases'
      BY <2>1, <2>4
    <3>2. "expired" \in States
      BY StatesAre
    <3>3. /\ cases'[k] \in CaseRecords /\ cases'[k].state = "expired"
          /\ cases'[k].outcome = end /\ cases'[k].cost_spent = cases[k].cost_spent
          /\ cases'[k].cost_ceiling = cases[k].cost_ceiling
          /\ cases'[k].opened_at = cases[k].opened_at
          /\ cases'[k].source_payment = cases[k].source_payment
      BY <1>1, <2>3, <3>1, <3>2 DEF CaseRecords
    <3> QED
      BY <2>1, <2>2, <2>3, <2>4, <3>1, <3>3 DEF CaseStep
  <2>5. CASE cases' # cases /\ k # l
    BY <1>1, <2>1, <2>5 DEF CaseStep
  <2> QED
    BY <1>2, <2>4, <2>5
<1>7. CASE Execute
  <2> DEFINE l == CaseOf(item)
  <2>1. /\ pc = "execute" /\ cases' = [cases EXCEPT ![l].cost_spent = @ + ActionOf(item).cost]
        /\ rows' = [rows EXCEPT ![item].status = "done", ![item].executed_at = now]
    BY <1>7 DEF Execute, ChargeCase
  <2>2. item \in DOMAIN rows /\ ActionOf(item).cost = StepIn(item).cost /\ StepIn(item).cost \in Nat
        /\ rows[item] \in RowRecords
    BY <2>1, ItemIs, RowIs DEF ActionOf
  <2>3. CASE k = l
    <3> DEFINE n == cases[k].cost_spent + StepIn(item).cost
    <3>1. n \in Nat
      BY <1>1, <2>2 DEF CaseRecords
    <3>2. cases'[k] = [cases[k] EXCEPT !.cost_spent = n] /\ k \in DOMAIN cases'
      BY <2>1, <2>2, <2>3
    <3>3. rows'[item].status = "done"
      BY <2>1, <2>2 DEF RowRecords
    <3> HIDE DEF n
    <3>4. cases'[k] \in CaseRecords /\ cases'[k].cost_spent = n
          /\ cases'[k].state = cases[k].state /\ cases'[k].outcome = cases[k].outcome
          /\ cases'[k].cost_ceiling = cases[k].cost_ceiling
          /\ cases'[k].opened_at = cases[k].opened_at
          /\ cases'[k].source_payment = cases[k].source_payment
      BY <1>1, <3>1, <3>2 DEF CaseRecords
    <3> QED
      BY <2>1, <2>3, <3>2, <3>3, <3>4 DEF CaseStep, n
  <2>4. CASE k # l
    BY <1>1, <2>1, <2>4 DEF CaseStep
  <2> QED
    BY <2>3, <2>4
<1>8. CASE Attribute
  <2> DEFINE p == sim.payments[sim.next_id]
             end == [kind |-> "recovered", reason_code |-> NULL, recovered |-> p.amount]
  <2>1. pc = "attribute" /\ sim.next_id \in DOMAIN sim.payments
    BY <1>8 DEF Attribute, Paid
  <2>2. end \in Outcomes /\ end # NULL
    <3>1. p.amount \in Nat
      BY <2>1 DEF Simulated, Payments
    <3> QED
      BY <3>1, EndsAre
  <2>3. \/ cases' = cases
        \/ \E l : /\ l = NULL \/ l \in Matches(p)
                  /\ cases' = [j \in DOMAIN cases |->
                                 IF j = l THEN [cases[j] EXCEPT !.state = "recovered", !.outcome = end]
                                          ELSE cases[j]]
    BY <1>8, AttributeIs, ZenonT(40)
  <2>4. k # NULL
    BY <1>1
  <2>5. k \in Matches(p) => cases[k].state \in Eligible
    BY DEF Matches
  <2> HIDE DEF end
  <2>6. CASE cases' # cases
    <3>1. PICK l : /\ l = NULL \/ l \in Matches(p)
                   /\ cases' = [j \in DOMAIN cases |->
                                  IF j = l THEN [cases[j] EXCEPT !.state = "recovered", !.outcome = end]
                                           ELSE cases[j]]
      BY <2>3, <2>6
    <3>2. CASE k = l
      <4>1. cases'[k] = [cases[k] EXCEPT !.state = "recovered", !.outcome = end]
            /\ k \in DOMAIN cases'
        BY <3>1, <3>2
      <4>2. cases[k].state \in Eligible /\ "recovered" \in States
        BY <2>4, <2>5, <3>1, <3>2, StatesAre
      <4>3. /\ cases'[k] \in CaseRecords /\ cases'[k].state = "recovered"
            /\ cases'[k].outcome = end /\ cases'[k].cost_spent = cases[k].cost_spent
            /\ cases'[k].cost_ceiling = cases[k].cost_ceiling
            /\ cases'[k].opened_at = cases[k].opened_at
            /\ cases'[k].source_payment = cases[k].source_payment
        BY <1>1, <2>2, <4>1, <4>2 DEF CaseRecords
      <4> QED
        BY <2>1, <2>2, <4>1, <4>2, <4>3 DEF CaseStep
    <3>3. CASE k # l
      BY <1>1, <3>1, <3>3 DEF CaseStep
    <3> QED
      BY <3>2, <3>3
  <2> QED
    BY <1>2, <2>6
<1>9. CASE StartRun \/ Abstain \/ SkipClaimed \/ ClaimDueBatch \/ Gate \/ ExecuteFails
           \/ Complete \/ WriteReport \/ Crash \/ UNCHANGED vars
  BY <1>2, <1>9 DEF StartRun, Abstain, SkipClaimed, ClaimDueBatch, Gate, ExecuteFails,
                    Complete, WriteReport, Crash, vars, database
<1> QED
  BY <1>3, <1>4, <1>5, <1>6, <1>7, <1>8, <1>9 DEF Next, Progress

\* What can happen to a row that is there.
RowStep(r) ==
    /\ r \in DOMAIN rows' /\ rows'[r] \in RowRecords
    /\ rows'[r].due_at = rows[r].due_at
    /\ \/ rows'[r] = rows[r]
       \/ /\ pc = "loop" /\ rows[r].status = "pending" /\ rows'[r].status = "claimed"
          /\ rows'[r].executed_at = rows[r].executed_at
       \/ /\ pc = "gate" /\ r \in batch /\ rows'[r].status = rows[r].status
          /\ rows'[r].executed_at = rows[r].executed_at
       \/ /\ pc = "stop" /\ CaseOf(r) = CaseOf(item) /\ rows[r].status \in Live
          /\ rows'[r].status = "cancelled" /\ rows'[r].executed_at = rows[r].executed_at
       \/ /\ pc = "execute" /\ r = item /\ rows'[r].status = "done" /\ rows'[r].executed_at = now
       \/ /\ pc = "execute" /\ r = item /\ rows'[r].status = "failed"
          /\ rows'[r].executed_at = rows[r].executed_at

LEMMA RulesAre ==
    {"already_paid", "max_case_age", "awaiting_approval"} \subseteq {RULES[i] : i \in DOMAIN RULES}
<1>1. /\ 4 \in DOMAIN RULES /\ 6 \in DOMAIN RULES /\ 17 \in DOMAIN RULES
      /\ RULES[4] = "already_paid" /\ RULES[6] = "max_case_age" /\ RULES[17] = "awaiting_approval"
  BY DEF RULES
<1> QED
  BY <1>1

\* What the gate does: it takes a row out of the batch, records the decision and goes on
\* by it.
LEMMA GateIs ==
    ASSUME CasesFiled, RowsFiled, Budgeted, InHand, Ages, Gate
    PROVE  /\ pc = "gate" /\ item' \in batch /\ item' \in DOMAIN rows /\ batch' = batch \ {item'}
           /\ LET d == Evaluate(ActionOf(item'), Context(CaseOf(item'))) IN
              /\ Decided(item', d)
              /\ rows' = [rows EXCEPT ![item'].verdict = d.verdict, ![item'].rule_id = d.rule_id]
              /\ pc' = CASE d.rule_id \in {"already_paid", "max_case_age"} -> "stop"
                         [] d.verdict = "allow" -> "execute"
                         [] OTHER -> IF batch = {item'} THEN "loop" ELSE "gate"
<1>1. pc = "gate" /\ item' \in batch /\ batch' = batch \ {item'}
  BY DEF Gate
<1> DEFINE r == item'
           d == Evaluate(ActionOf(r), Context(CaseOf(r)))
<1>2. r \in DOMAIN rows /\ CaseOf(r) \in OwnCases /\ rows[r].status # "done"
  <2>1. r \in OwnRows /\ rows[r].status \in {"claimed", "cancelled"}
    BY <1>1 DEF InHand
  <2>2. r \in DOMAIN rows /\ CaseOf(r)[1] = run
    BY <2>1 DEF OwnRows, Own
  <2> QED
    BY <2>1, <2>2, RowIs DEF OwnCases
<1>3. Decided(r, d)
  <2>1. cases[CaseOf(r)].state = "expired" => TooOld(Context(CaseOf(r)))
    BY <1>1, <1>2 DEF Ages
  <2> QED
    BY <1>2, <2>1, GateDecides
<1>4. rows' = [rows EXCEPT ![r].verdict = d.verdict, ![r].rule_id = d.rule_id]
  BY DEF Gate
<1>5. pc' = CASE d.rule_id \in DOMAIN STOPPING_OUTCOMES -> "stop"
              [] d.verdict = "allow"                    -> "execute"
              [] OTHER -> IF batch = {r} THEN "loop" ELSE "gate"
  BY DEF Gate
<1> HIDE DEF d, r
<1>6. d.rule_id \in DOMAIN STOPPING_OUTCOMES <=> d.rule_id \in {"already_paid", "max_case_age"}
  <2>1. d.rule_id \in {"already_paid", "max_case_age", "awaiting_approval", NULL}
    BY <1>3 DEF Decided
  <2>2. NULL \notin DOMAIN STOPPING_OUTCOMES /\ NULL \notin {"already_paid", "max_case_age"}
    <3>1. DOMAIN STOPPING_OUTCOMES \subseteq {RULES[i] : i \in DOMAIN RULES}
      <4>1. DOMAIN STOPPING_OUTCOMES
              = {"customer_opt_out", "dispute_filed", "already_paid", "max_attempts_reached",
                 "max_case_age", "mandate_revoked", "promise_to_pay_active",
                 "customer_deceased_or_closed"}
        BY DEF STOPPING_OUTCOMES
      <4>2. /\ {2, 3, 4, 5, 6, 7, 8, 9} \subseteq DOMAIN RULES
            /\ RULES[2] = "customer_opt_out" /\ RULES[3] = "dispute_filed"
            /\ RULES[4] = "already_paid" /\ RULES[5] = "max_attempts_reached"
            /\ RULES[6] = "max_case_age" /\ RULES[7] = "mandate_revoked"
            /\ RULES[8] = "promise_to_pay_active" /\ RULES[9] = "customer_deceased_or_closed"
        BY DEF RULES
      <4> QED
        BY <4>1, <4>2
    <3> QED
      BY <3>1, NullIsNoRule, RulesAre
  <2>3. {"already_paid", "max_case_age"} \subseteq DOMAIN STOPPING_OUTCOMES
        /\ "awaiting_approval" \notin DOMAIN STOPPING_OUTCOMES
    BY DEF STOPPING_OUTCOMES
  <2> QED
    BY <2>1, <2>2, <2>3
<1>7. pc' = CASE d.rule_id \in {"already_paid", "max_case_age"} -> "stop"
              [] d.verdict = "allow" -> "execute"
              [] OTHER -> IF batch = {r} THEN "loop" ELSE "gate"
  BY <1>5, <1>6
<1> QED
  BY <1>1, <1>2, <1>3, <1>4, <1>7 DEF d, r

\* What a claim does: it takes some rows that are due, and all own ones that are, unless
\* it crowds them out.
LEMMA ClaimIs ==
    ASSUME ClaimDueBatch
    PROVE  /\ pc = "loop" /\ heap # {} /\ Popped.kind = "action" /\ Popped.item \notin claimed_ids
           /\ heap' = heap \ {Popped} /\ now' = Popped.when
           /\ UNCHANGED <<runs, item, cases, credited, consents, completed, world, sim, report>>
           /\ \E claimed \in SUBSET Due(Popped.when) :
                /\ rows' = [r \in DOMAIN rows |->
                               IF r \in claimed THEN [rows[r] EXCEPT !.status = "claimed"]
                                                ELSE rows[r]]
                /\ claimed_ids' = claimed_ids \cup claimed
                /\ batch' = {r \in claimed : Own(r)}
                /\ ~crowded' => ~crowded /\ \A r \in Due(Popped.when) : Own(r) => r \in claimed
                /\ pc' \in {"gate", "loop"} /\ (pc' = "loop" => batch' = {})
<1> DEFINE due == Due(Popped.when)
<1>1. PICK claimed \in kSubset(Min({CLAIM_BATCH_SIZE, Cardinality(due)}), due) :
            /\ rows' = [r \in DOMAIN rows |->
                           IF r \in claimed THEN [rows[r] EXCEPT !.status = "claimed"] ELSE rows[r]]
            /\ claimed_ids' = claimed_ids \cup claimed
            /\ batch' = {r \in claimed : Own(r)}
            /\ crowded' = (crowded \/ \E r \in due \ claimed : Own(r))
            /\ pc' = IF \E r \in claimed : Own(r) THEN "gate" ELSE "loop"
  BY DEF ClaimDueBatch
<1>2. claimed \in SUBSET due
  BY DEF kSubset
<1> HIDE DEF due
<1>3. ~crowded' => ~crowded /\ \A r \in due : Own(r) => r \in claimed
  BY <1>1
<1>4. pc' \in {"gate", "loop"} /\ (pc' = "loop" => batch' = {})
  BY <1>1
<1>5. \E c \in SUBSET due :
        /\ rows' = [r \in DOMAIN rows |->
                       IF r \in c THEN [rows[r] EXCEPT !.status = "claimed"] ELSE rows[r]]
        /\ claimed_ids' = claimed_ids \cup c
        /\ batch' = {r \in c : Own(r)}
        /\ ~crowded' => ~crowded /\ \A r \in due : Own(r) => r \in c
        /\ pc' \in {"gate", "loop"} /\ (pc' = "loop" => batch' = {})
  BY <1>1, <1>2, <1>3, <1>4
<1>6. /\ pc = "loop" /\ heap # {} /\ Popped.kind = "action" /\ Popped.item \notin claimed_ids
      /\ heap' = heap \ {Popped} /\ now' = Popped.when
      /\ UNCHANGED <<runs, item, cases, credited, consents, completed, world, sim, report>>
  BY DEF ClaimDueBatch
<1> QED
  BY <1>5, <1>6 DEF due

\* A row that is there is claimed, gated, cancelled or ended, or stays.
LEMMA RowSteps ==
    ASSUME CasesFiled, RowsFiled, Budgeted, InHand, Ages, [Next]_vars, now \in Nat,
           NEW r \in DOMAIN rows
    PROVE  RowStep(r)
<1>1. rows[r] \in RowRecords
  BY RowIs
<1>2. ASSUME rows' = rows
      PROVE  RowStep(r)
  BY <1>1, <1>2 DEF RowStep
<1>3. CASE PersistPlan
  <2>1. \E new, R : rows' = [s \in DOMAIN rows \cup new |-> IF s \in DOMAIN rows THEN rows[s] ELSE R[s]]
    <3> DEFINE k == CaseOf(item)
               included == IncludedSteps(PlaybookOf(k), Source(k).amount)
               dates == DueDates(PlaybookOf(k), now)
               Row(i) == [status |-> "pending", due_at |-> dates[i], executed_at |-> NULL,
                          verdict |-> NULL, rule_id |-> NULL]
               new == {<<k, i>> : i \in included}
               R == [s \in new |-> Row(StepOf(s))]
    <3>1. rows' = [s \in DOMAIN rows \cup new |-> IF s \in DOMAIN rows THEN rows[s] ELSE Row(StepOf(s))]
      BY <1>3 DEF PersistPlan
    <3> HIDE DEF Row, new
    <3>2. rows' = [s \in DOMAIN rows \cup new |-> IF s \in DOMAIN rows THEN rows[s] ELSE R[s]]
      BY <3>1
    <3> HIDE DEF R
    <3> QED
      BY <3>2
  <2>2. r \in DOMAIN rows' /\ rows'[r] = rows[r]
    BY <2>1
  <2> QED
    BY <1>1, <2>2 DEF RowStep
<1>4. CASE ClaimDueBatch
  <2>1. PICK claimed \in SUBSET Due(Popped.when) :
            rows' = [s \in DOMAIN rows |->
                        IF s \in claimed THEN [rows[s] EXCEPT !.status = "claimed"] ELSE rows[s]]
    BY <1>4, ClaimIs
  <2>2. pc = "loop" /\ DOMAIN rows' = DOMAIN rows
    BY <1>4, <2>1, ClaimIs
  <2>3. CASE r \in claimed
    <3>1. rows[r].status = "pending"
      BY <2>1, <2>3 DEF Due
    <3>2. rows'[r] = [rows[r] EXCEPT !.status = "claimed"]
      BY <2>1, <2>3
    <3>3. rows'[r] \in RowRecords /\ rows'[r].status = "claimed" /\ rows'[r].due_at = rows[r].due_at
          /\ rows'[r].executed_at = rows[r].executed_at
      BY <1>1, <3>2 DEF RowRecords
    <3> QED
      BY <2>2, <3>1, <3>3 DEF RowStep
  <2>4. CASE r \notin claimed
    BY <1>1, <2>1, <2>4 DEF RowStep
  <2> QED
    BY <2>3, <2>4
<1>5. CASE Gate
  <2> DEFINE d == Evaluate(ActionOf(item'), Context(CaseOf(item')))
  <2>1. pc = "gate" /\ item' \in batch /\ item' \in DOMAIN rows /\ Decided(item', d)
        /\ rows' = [rows EXCEPT ![item'].verdict = d.verdict, ![item'].rule_id = d.rule_id]
    BY <1>5, GateIs
  <2> HIDE DEF d
  <2>2. /\ d.verdict \in {"allow", "deny", "defer"}
        /\ d.rule_id \in {"already_paid", "max_case_age", "awaiting_approval", NULL}
        /\ d.rule_id = NULL => d.verdict = "allow"
        /\ d.rule_id = "awaiting_approval" => d.verdict = "defer"
    BY <2>1, NullIsNoRule, RulesAre DEF Decided
  <2>3. CASE r = item'
    <3>1. rows'[r] = [rows[r] EXCEPT !.verdict = d.verdict, !.rule_id = d.rule_id]
          /\ r \in DOMAIN rows'
      BY <2>1, <2>3
    <3>2. rows'[r] \in RowRecords /\ rows'[r].status = rows[r].status
          /\ rows'[r].due_at = rows[r].due_at /\ rows'[r].executed_at = rows[r].executed_at
      BY <1>1, <2>2, <3>1 DEF RowRecords
    <3> QED
      BY <2>1, <2>3, <3>1, <3>2 DEF RowStep
  <2>4. CASE r # item'
    BY <1>1, <2>1, <2>4 DEF RowStep
  <2> QED
    BY <2>3, <2>4
<1>6. CASE Stop
  <2>1. pc = "stop" /\ rows' = [s \in DOMAIN rows |->
                          IF CaseOf(s) = CaseOf(item) /\ rows[s].status \in Live
                          THEN [rows[s] EXCEPT !.status = "cancelled"] ELSE rows[s]]
    BY <1>6, StopIs
  <2>2. CASE CaseOf(r) = CaseOf(item) /\ rows[r].status \in Live
    <3>1. rows'[r] = [rows[r] EXCEPT !.status = "cancelled"] /\ r \in DOMAIN rows'
      BY <2>1, <2>2
    <3>2. rows'[r] \in RowRecords /\ rows'[r].status = "cancelled"
          /\ rows'[r].due_at = rows[r].due_at /\ rows'[r].executed_at = rows[r].executed_at
      BY <1>1, <3>1 DEF RowRecords
    <3> QED
      BY <2>1, <2>2, <3>1, <3>2 DEF RowStep
  <2>3. CASE ~(CaseOf(r) = CaseOf(item) /\ rows[r].status \in Live)
    BY <1>1, <2>1, <2>3 DEF RowStep
  <2> QED
    BY <2>2, <2>3
<1>7. CASE Execute
  <2>1. pc = "execute"
        /\ rows' = [rows EXCEPT ![item].status = "done", ![item].executed_at = now]
    BY <1>7 DEF Execute
  <2>2. CASE r = item
    <3>1. rows'[r] = [rows[r] EXCEPT !.status = "done", !.executed_at = now] /\ r \in DOMAIN rows'
      BY <2>1, <2>2
    <3>2. rows'[r] \in RowRecords /\ rows'[r].status = "done" /\ rows'[r].executed_at = now
          /\ rows'[r].due_at = rows[r].due_at
      BY <1>1, <3>1 DEF RowRecords
    <3> QED
      BY <2>1, <2>2, <3>1, <3>2 DEF RowStep
  <2>3. CASE r # item
    BY <1>1, <2>1, <2>3 DEF RowStep
  <2> QED
    BY <2>2, <2>3
<1>8. CASE ExecuteFails
  <2>1. pc = "execute" /\ rows' = [rows EXCEPT ![item].status = "failed"]
    BY <1>8 DEF ExecuteFails
  <2>2. CASE r = item
    <3>1. rows'[r] = [rows[r] EXCEPT !.status = "failed"] /\ r \in DOMAIN rows'
      BY <2>1, <2>2
    <3>2. rows'[r] \in RowRecords /\ rows'[r].status = "failed"
          /\ rows'[r].executed_at = rows[r].executed_at /\ rows'[r].due_at = rows[r].due_at
      BY <1>1, <3>1 DEF RowRecords
    <3> QED
      BY <2>1, <2>2, <3>1, <3>2 DEF RowStep
  <2>3. CASE r # item
    BY <1>1, <2>1, <2>3 DEF RowStep
  <2> QED
    BY <2>2, <2>3
<1>9. CASE StartRun \/ PopCase \/ PersistHoldout \/ Abstain \/ SkipClaimed \/ Attribute
           \/ Complete \/ WriteReport \/ Crash \/ UNCHANGED vars
  BY <1>2, <1>9 DEF StartRun, PopCase, PersistHoldout, Abstain, SkipClaimed, Attribute,
                    Complete, WriteReport, Crash, vars, database
<1> QED
  BY <1>3, <1>4, <1>5, <1>6, <1>7, <1>8, <1>9 DEF Next, Progress
\* What an arrival does: the case is of this run's cohort, new, and is filed, or refused.
LEMMA CaseArrives ==
    ASSUME CasesFiled, Scheduled, InHand, PopCase
    PROVE  LET k == CaseOf(Popped.item) IN
           /\ Keyed(k) /\ k[1] = run /\ k \notin DOMAIN cases
           /\ Popped \in heap /\ heap' = heap \ {Popped} /\ now' = Popped.when
           /\ Popped.when = Source(k).detected_at /\ pc = "loop"
           /\ UNCHANGED <<runs, claimed_ids, batch, rows, credited, completed, world, report, crowded>>
           /\ \A e \in heap : e.kind = "case" /\ CaseOf(e.item) = k => e = Popped
           /\ \/ UNCHANGED <<pc, item, cases, consents>>
              \/ /\ cases' = [j \in DOMAIN cases \cup {k} |->
                                 IF j = k THEN [state |-> "detected", cost_spent |-> 0,
                                                cost_ceiling |-> 0, opened_at |-> Popped.when,
                                                source_payment |-> sim.next_id + 1,
                                                playbook_id |-> NULL, outcome |-> NULL]
                                          ELSE cases[j]]
                 /\ consents' = [x \in DOMAIN consents \cup {Customer(k)} |->
                                    IF x \in DOMAIN consents THEN consents[x]
                                    ELSE Source(k).detected_at]
                 /\ CaseOf(item') = k /\ pc' = "plan"
<1> DEFINE e == Popped
           k == CaseOf(e.item)
           new == [state |-> "detected", cost_spent |-> 0, cost_ceiling |-> 0,
                   opened_at |-> Popped.when, source_payment |-> sim.next_id + 1,
                   playbook_id |-> NULL, outcome |-> NULL]
<1>1. pc = "loop" /\ heap # {} /\ e.kind = "case" /\ heap' = heap \ {e} /\ now' = e.when
      /\ UNCHANGED <<runs, claimed_ids, batch, rows, credited, completed, world, report, crowded>>
  BY DEF PopCase
<1>2. e \in heap
  BY <1>1, FirstIsPopped
<1>3. \A f \in heap : f.kind = "case" =>
         /\ f.seq \in DOMAIN Cohort[runs[run]] /\ f.item = <<<<run, f.seq>>, 0>>
         /\ <<run, f.seq>> \notin DOMAIN cases
         /\ f.when = Cohort[runs[run]][f.seq].detected_at
  BY DEF Scheduled
<1>4. k = <<run, e.seq>> /\ e.seq \in DOMAIN Cohort[runs[run]]
      /\ k \notin DOMAIN cases /\ e.when = Cohort[runs[run]][e.seq].detected_at
  <2> HIDE DEF e
  <2>1. e.item = <<<<run, e.seq>>, 0>> /\ e.seq \in DOMAIN Cohort[runs[run]]
        /\ <<run, e.seq>> \notin DOMAIN cases /\ e.when = Cohort[runs[run]][e.seq].detected_at
    BY <1>1, <1>2, <1>3
  <2> QED
    BY <2>1 DEF CaseOf
<1>5. \A f \in heap : f.kind = "case" /\ CaseOf(f.item) = k => f = e
  <2> SUFFICES ASSUME NEW f \in heap, f.kind = "case", CaseOf(f.item) = k
               PROVE  f = e
    OBVIOUS
  <2>1. f.item = <<<<run, f.seq>>, 0>> /\ f.when = Cohort[runs[run]][f.seq].detected_at
    BY <1>3
  <2>2. f.seq = e.seq
    BY <1>4, <2>1 DEF CaseOf
  <2>3. e.item = <<<<run, e.seq>>, 0>>
    BY <1>1, <1>2, <1>3
  <2>4. /\ f = [when |-> f.when, seq |-> f.seq, kind |-> f.kind, item |-> f.item]
        /\ e = [when |-> e.when, seq |-> e.seq, kind |-> e.kind, item |-> e.item]
    BY <1>2 DEF Scheduled
  <2> HIDE DEF e
  <2> QED
    BY <1>1, <1>4, <2>1, <2>2, <2>3, <2>4
<1>6. run \in Nat /\ run > 0
  BY <1>1, RunsAre DEF InHand
<1> HIDE DEF e, k
<1>7. Keyed(k) /\ k[1] = run /\ e.when = Source(k).detected_at
  BY <1>4, <1>6 DEF Keyed, Source
<1>8. \/ UNCHANGED <<pc, item, cases, consents>>
      \/ /\ cases' = [j \in DOMAIN cases \cup {k} |-> IF j = k THEN new ELSE cases[j]]
         /\ consents' = [x \in DOMAIN consents \cup {Customer(k)} |->
                            IF x \in DOMAIN consents THEN consents[x] ELSE Source(k).detected_at]
         /\ item' = e.item /\ pc' = "plan"
  BY DEF PopCase, e, k
<1>9. item' = e.item => CaseOf(item') = k
  BY DEF k, CaseOf
<1> QED
  BY <1>1, <1>2, <1>4, <1>5, <1>7, <1>8, <1>9 DEF e, k


\* What planning does: a case is planned once, with rows that are new, an entry on the
\* heap for each, and dates from now on.
LEMMA PlanIs ==
    ASSUME CasesFiled, RowsFiled, Scheduled, InHand, PersistPlan
    PROVE  LET k == CaseOf(item)
               p == PlaybookOf(k)
               included == IncludedSteps(p, Source(k).amount)
               dates == DueDates(p, now)
           IN
           /\ pc = "plan" /\ pc' = "loop"
           /\ UNCHANGED <<runs, now, claimed_ids, batch, item, credited, consents, completed, world,
                          sim, report, crowded>>
           /\ k \in OwnCases /\ Keyed(k) /\ cases[k] \in CaseRecords /\ cases[k].state = "detected"
           /\ HasPlaybook(k) /\ WellFormed(p) /\ now = Source(k).detected_at
           /\ included \in SUBSET DOMAIN p.steps
           /\ \A i \in included : dates[i] \in Nat /\ dates[i] >= now /\ <<k, i>> \notin DOMAIN rows
           /\ \A i : <<k, i>> \notin DOMAIN rows
           /\ DOMAIN rows' = DOMAIN rows \cup {<<k, i>> : i \in included}
           /\ IsFiniteSet(DOMAIN rows')
           /\ \A r \in DOMAIN rows : rows'[r] = rows[r]
           /\ \A i \in included :
                rows'[<<k, i>>] = [status |-> "pending", due_at |-> dates[i], executed_at |-> NULL,
                                   verdict |-> NULL, rule_id |-> NULL]
           /\ heap \subseteq heap'
           /\ \A e \in heap' \ heap :
                e.seq \in Nat /\ \E i \in included :
                    e = [when |-> dates[i], kind |-> "action", item |-> <<k, i>>, seq |-> e.seq]
           /\ \A i \in included : \E e \in heap' :
                e.kind = "action" /\ e.item = <<k, i>> /\ e.when = dates[i]
           /\ DOMAIN cases' = DOMAIN cases
           /\ cases'[k].state = (IF NeedsApproval(k) THEN "awaiting_approval" ELSE "executing")
           /\ cases'[k].cost_ceiling = CostOf(p, included)
           /\ cases'[k].cost_spent = 0
<1> DEFINE k == CaseOf(item)
           p == PlaybookOf(k)
           amount == Source(k).amount
           included == IncludedSteps(p, amount)
           dates == DueDates(p, now)
           pushed == Len(Cohort[runs[run]]) + Cardinality(OwnRows)
           place(i) == pushed + Cardinality({j \in included : j <= i})
           entry(i) == [when |-> dates[i], kind |-> "action", item |-> <<k, i>>, seq |-> place(i)]
           Row(i) == [status |-> "pending", due_at |-> dates[i], executed_at |-> NULL,
                      verdict |-> NULL, rule_id |-> NULL]
           new == {<<k, i>> : i \in included}
           s == IF NeedsApproval(k) THEN "awaiting_approval" ELSE "executing"
<1>1. /\ pc = "plan" /\ pc' = "loop" /\ HasPlaybook(k)
      /\ UNCHANGED <<runs, now, claimed_ids, batch, item, credited, consents, completed, world,
                     sim, report, crowded>>
  BY DEF PersistPlan
<1>2. /\ rows' = [r \in DOMAIN rows \cup new |-> IF r \in DOMAIN rows THEN rows[r] ELSE Row(StepOf(r))]
      /\ heap' = heap \cup {entry(i) : i \in included}
      /\ cases' = [cases EXCEPT ![k].state = s, ![k].cost_ceiling = CostOf(p, included)]
  BY DEF PersistPlan
<1>3. k \in OwnCases /\ cases[k].state = "detected" /\ now = Source(k).detected_at /\ now \in Nat
  BY <1>1 DEF InHand, Scheduled
<1>4. k \in DOMAIN cases /\ Keyed(k) /\ cases[k] \in CaseRecords /\ cases[k].cost_spent = 0
  BY <1>3, FiledAre DEF OwnCases, CasesFiled
<1>5. WellFormed(p) /\ amount \in Nat
  BY <1>1, <1>4, CaseIs DEF CohortCase
<1>6. included \in SUBSET DOMAIN p.steps /\ \A i \in DOMAIN p.steps : dates[i] \in Nat /\ dates[i] >= now
  BY <1>3, <1>5, IncludedAre, DatesFollow
<1>7. IsFiniteSet(DOMAIN p.steps)
  BY <1>5, CostsAreSummable
<1>8. \A i : <<k, i>> \notin DOMAIN rows
  <2>1. ASSUME NEW i, <<k, i>> \in DOMAIN rows
        PROVE  FALSE
    <3>1. CaseOf(<<k, i>>) = k
      BY DEF CaseOf
    <3> HIDE DEF k
    <3>2. cases[k].state \in Begun
      BY <2>1, <3>1 DEF RowsFiled
    <3> QED
      BY <1>3, <3>2 DEF Begun, k
  <2> QED
    BY <2>1
<1>9. \A i : place(i) \in Nat
  <2>1. Len(Cohort[runs[run]]) \in Nat
    <3>1. run \in Nat /\ run > 0 /\ DOMAIN runs = 1..run /\ \A i \in 1..run : runs[i] \in DOMAIN Cohort
      BY <1>1, RunsAre DEF InHand
    <3>2. runs[run] \in DOMAIN Cohort
      BY <3>1
    <3> QED
      BY <3>2, BenchmarkConstants
  <2>2. Cardinality(OwnRows) \in Nat
    <3>1. IsFiniteSet(OwnRows)
      BY FS_Subset DEF OwnRows, RowsFiled
    <3> QED
      BY <3>1, FS_CardinalityType
  <2>3. \A i : Cardinality({j \in included : j <= i}) \in Nat
    <3> SUFFICES ASSUME NEW i
                 PROVE  Cardinality({j \in included : j <= i}) \in Nat
      OBVIOUS
    <3>1. IsFiniteSet({j \in included : j <= i})
      BY <1>6, <1>7, FS_Subset
    <3> QED
      BY <3>1, FS_CardinalityType
  <2>4. pushed \in Nat
    BY <2>1, <2>2
  <2> HIDE DEF pushed, included
  <2> SUFFICES ASSUME NEW i
               PROVE  place(i) \in Nat
    OBVIOUS
  <2> DEFINE c == Cardinality({j \in included : j <= i})
  <2>5. c \in Nat
    BY <2>3
  <2>6. place(i) = pushed + c
    OBVIOUS
  <2> HIDE DEF c, place
  <2> QED
    BY <2>4, <2>5, <2>6
<1> HIDE DEF pushed, dates, included, p, s, amount, k
<1>10. DOMAIN rows' = DOMAIN rows \cup new /\ \A r \in DOMAIN rows : rows'[r] = rows[r]
  BY <1>2
<1>11. \A i \in included : rows'[<<k, i>>] = Row(i)
  <2> SUFFICES ASSUME NEW i \in included
               PROVE  rows'[<<k, i>>] = Row(i)
    OBVIOUS
  <2>1. StepOf(<<k, i>>) = i /\ <<k, i>> \in new /\ <<k, i>> \notin DOMAIN rows
    BY <1>8 DEF StepOf
  <2> HIDE DEF Row, new
  <2> QED
    BY <1>2, <2>1
<1>12. IsFiniteSet(DOMAIN rows')
  <2>1. IsFiniteSet(included)
    BY <1>6, <1>7, FS_Subset
  <2>2. IsFiniteSet(new)
    <3> DEFINE f == [i \in included |-> <<k, i>>]
    <3>1. f \in Surjection(included, new)
      BY DEF Surjection
    <3> QED
      BY <2>1, <3>1, FS_Surjection
  <2>3. IsFiniteSet(DOMAIN rows)
    BY DEF RowsFiled
  <2> HIDE DEF new
  <2> QED
    BY <1>10, <2>2, <2>3, FS_Union
<1>13. /\ \A e \in heap' \ heap : \E i \in included : e = entry(i)
       /\ \A i \in included : entry(i) \in heap'
       /\ heap \subseteq heap'
  BY <1>2
<1> HIDE DEF place
<1>14. \A e \in heap' \ heap :
          e.seq \in Nat /\ \E i \in included :
              e = [when |-> dates[i], kind |-> "action", item |-> <<k, i>>, seq |-> e.seq]
  BY <1>9, <1>13
<1>15. \A i \in included : \E e \in heap' :
          e.kind = "action" /\ e.item = <<k, i>> /\ e.when = dates[i]
  BY <1>13
<1>16. DOMAIN cases' = DOMAIN cases /\ cases'[k].state = s
       /\ cases'[k].cost_ceiling = CostOf(p, included) /\ cases'[k].cost_spent = 0
  <2>1. cases'[k] = [cases[k] EXCEPT !.state = s, !.cost_ceiling = CostOf(p, included)]
        /\ DOMAIN cases' = DOMAIN cases
    BY <1>2, <1>4
  <2> QED
    BY <1>4, <2>1 DEF CaseRecords
<1>17. \A i \in included : dates[i] \in Nat /\ dates[i] >= now /\ <<k, i>> \notin DOMAIN rows
  BY <1>6, <1>8
<1> QED
  BY <1>1, <1>3, <1>4, <1>5, <1>6, <1>8, <1>10, <1>11, <1>12, <1>13, <1>14, <1>15, <1>16, <1>17
     DEF k, p, included, dates, s, amount

-----------------------------------------------------------------------------
(* The tables.                                                             *)

\* Only the start of a run changes what run this is.
LEMMA NextRun ==
    ASSUME CasesFiled, [Next]_vars
    PROVE  /\ runs' \in Seq(DOMAIN Cohort) /\ (~StartRun => runs' = runs)
           /\ StartRun => run' = run + 1 /\ \A i \in 1..run : runs'[i] = runs[i]
<1>1. CASE StartRun
  <2>1. PICK seed \in DOMAIN Cohort : runs' = Append(runs, seed)
    BY <1>1 DEF StartRun
  <2>2. runs \in Seq(DOMAIN Cohort)
    BY DEF CasesFiled
  <2> DEFINE S == DOMAIN Cohort
  <2> HIDE DEF S
  <2>3. /\ Append(runs, seed) \in Seq(S) /\ Len(Append(runs, seed)) = Len(runs) + 1
        /\ \A i \in 1..Len(runs) : Append(runs, seed)[i] = runs[i]
    BY <2>1, <2>2 DEF S
  <2> QED
    BY <1>1, <2>1, <2>3 DEF run, S
<1>2. CASE ~StartRun
  <2>1. runs' = runs
    <3>1. CASE UNCHANGED vars
      BY <3>1 DEF vars, database
    <3>2. CASE Progress \/ Crash
      BY <3>2 DEF Progress, PopCase, PersistHoldout, Abstain, PersistPlan, SkipClaimed,
                  ClaimDueBatch, Gate, Stop, Execute, ExecuteFails, Attribute, Complete,
                  WriteReport, Crash, database
    <3> QED
      BY <1>2, <3>1, <3>2 DEF Next
  <2> QED
    BY <1>2, <2>1 DEF CasesFiled
<1> QED
  BY <1>1, <1>2

\* What a key means does not change.
LEMMA KeysStay ==
    ASSUME CasesFiled, [Next]_vars, NEW k, Keyed(k)
    PROVE  /\ Keyed(k)' /\ Source(k)' = Source(k) /\ Customer(k)' = Customer(k)
           /\ (HasPlaybook(k)' <=> HasPlaybook(k)) /\ PlaybookOf(k)' = PlaybookOf(k)
<1>1. runs'[k[1]] = runs[k[1]] /\ k[1] \in 1..run'
  <2>1. CASE StartRun
    BY <2>1, NextRun, CaseIs
  <2>2. CASE ~StartRun
    BY <2>2, NextRun, CaseIs DEF run
  <2> QED
    BY <2>1, <2>2
<1> QED
  BY <1>1 DEF Keyed, Source, Customer, HasPlaybook, PlaybookOf

\* Which tables grow: cases by an arrival, rows by planning.
LEMMA TablesGrow ==
    ASSUME CasesFiled, RowsFiled, Budgeted, InHand, Ages, Scheduled, Simulated, Paid, [Next]_vars
    PROVE  /\ DOMAIN cases \subseteq DOMAIN cases' /\ DOMAIN rows \subseteq DOMAIN rows'
           /\ ~PopCase => DOMAIN cases' = DOMAIN cases /\ consents' = consents
           /\ ~PersistPlan => DOMAIN rows' = DOMAIN rows
<1>1. DOMAIN cases \subseteq DOMAIN cases'
  BY CaseSteps DEF CaseStep
<1>2. DOMAIN rows \subseteq DOMAIN rows'
  BY RowSteps DEF RowStep, Scheduled
<1>3. ASSUME ~PopCase
      PROVE  DOMAIN cases' = DOMAIN cases /\ consents' = consents
  <2>1. CASE cases' = cases /\ consents' = consents
    BY <2>1
  <2>2. CASE PersistHoldout \/ PersistPlan \/ Stop \/ Execute \/ Attribute
    <3>1. CASE PersistHoldout \/ PersistPlan \/ Execute
      BY <3>1 DEF PersistHoldout, PersistPlan, Execute, ChargeCase
    <3>2. CASE Stop
      BY <3>2, StopIs
    <3>3. CASE Attribute
      BY <3>3, AttributeIs DEF Attribute
    <3> QED
      BY <2>2, <3>1, <3>2, <3>3
  <2>3. CASE StartRun \/ Abstain \/ SkipClaimed \/ ClaimDueBatch \/ Gate \/ ExecuteFails
             \/ Complete \/ WriteReport \/ Crash \/ UNCHANGED vars
    BY <2>3 DEF StartRun, Abstain, SkipClaimed, ClaimDueBatch, Gate, ExecuteFails,
                Complete, WriteReport, Crash, vars, database
  <2> QED
    BY <1>3, <2>2, <2>3 DEF Next, Progress
<1>4. ASSUME ~PersistPlan
      PROVE  DOMAIN rows' = DOMAIN rows
  <2>1. CASE ClaimDueBatch
    BY <2>1, ClaimIs
  <2>2. CASE Stop
    BY <2>2, StopIs
  <2>3. CASE Gate \/ Execute \/ ExecuteFails
    BY <2>3 DEF Gate, Execute, ExecuteFails
  <2>4. CASE StartRun \/ PopCase \/ PersistHoldout \/ Abstain \/ SkipClaimed \/ Attribute
             \/ Complete \/ WriteReport \/ Crash \/ UNCHANGED vars
    BY <2>4 DEF StartRun, PopCase, PersistHoldout, Abstain, SkipClaimed, Attribute,
                Complete, WriteReport, Crash, vars, database
  <2> QED
    BY <1>4, <2>1, <2>2, <2>3, <2>4 DEF Next, Progress
<1> QED
  BY <1>1, <1>2, <1>3, <1>4

LEMMA CasesFiledHolds ==
    ASSUME IInv, [Next]_vars
    PROVE  CasesFiled'
<1>0. CasesFiled /\ RowsFiled /\ Budgeted /\ Scheduled /\ InHand /\ Ages /\ Simulated /\ Paid
  BY DEF IInv
<1>1. runs' \in Seq(DOMAIN Cohort)
  BY <1>0, NextRun
<1> DEFINE Filed(k) ==
      /\ Keyed(k)
      /\ cases[k] \in CaseRecords
      /\ cases[k].state \in Terminal <=> cases[k].outcome # NULL
      /\ cases[k].state = "detected" => cases[k].cost_spent = 0
      /\ cases[k].cost_spent <= cases[k].cost_ceiling
      /\ Customer(k) \in DOMAIN consents
<1>2. ASSUME NEW k \in DOMAIN cases
      PROVE  Filed(k)'
  <2>1. Filed(k)
    BY <1>0 DEF CasesFiled
  <2>2. Keyed(k)' /\ Customer(k)' = Customer(k)
    BY <1>0, <2>1, KeysStay
  <2>3. DOMAIN consents \subseteq DOMAIN consents'
    <3>1. CASE PopCase
      BY <1>0, <3>1, CaseArrives
    <3>2. CASE ~PopCase
      BY <1>0, <3>2, TablesGrow
    <3> QED
      BY <3>1, <3>2
  <2>4. CaseStep(k) /\ cases'[k] \in CaseRecords
    BY <1>0, CaseSteps DEF CaseStep
  <2>5. /\ cases'[k].state \in Terminal <=> cases'[k].outcome # NULL
        /\ cases'[k].state = "detected" => cases'[k].cost_spent = 0
        /\ cases'[k].cost_spent <= cases'[k].cost_ceiling
    <3>1. CASE cases'[k] = cases[k]
      BY <2>1, <3>1
    <3>2. CASE pc = "plan" /\ cases'[k] # cases[k]
      <4>1. cases[k].state = "detected" /\ cases[k].cost_spent = 0 /\ cases[k].outcome = NULL
        <5>1. k = CaseOf(item)
          BY <2>4, <3>2 DEF CaseStep
        <5>2. cases[k].state = "detected"
          BY <1>0, <3>2, <5>1 DEF InHand
        <5> QED
          BY <2>1, <5>2, StatesAre
      <4>2. cases'[k].state \in {"holdout", "awaiting_approval", "executing"}
            /\ cases'[k].cost_spent = 0 /\ cases'[k].outcome = NULL
        BY <2>4, <3>2, <4>1 DEF CaseStep
      <4>3. cases'[k].cost_ceiling \in Nat
        BY <2>4 DEF CaseRecords
      <4>4. cases'[k].state \notin Terminal
        BY <4>2, StatesAre DEF Eligible
      <4> QED
        BY <4>2, <4>3, <4>4
    <3>3. CASE pc \in {"stop", "attribute"} /\ cases'[k] # cases[k]
      <4>1. /\ cases'[k].state \in {"expired", "recovered"} /\ cases'[k].outcome # NULL
            /\ cases'[k].cost_spent = cases[k].cost_spent
            /\ cases'[k].cost_ceiling = cases[k].cost_ceiling
        BY <2>4, <3>3 DEF CaseStep
      <4> QED
        BY <2>1, <4>1, StatesAre
    <3>4. CASE pc = "execute" /\ cases'[k] # cases[k]
      <4>1. /\ k = CaseOf(item)
            /\ cases'[k].cost_spent = cases[k].cost_spent + StepIn(item).cost
            /\ cases'[k].state = cases[k].state /\ cases'[k].outcome = cases[k].outcome
            /\ cases'[k].cost_ceiling = cases[k].cost_ceiling
        BY <2>4, <3>4 DEF CaseStep
      <4>2. cases[k].state = "executing" /\ rows[item].status = "claimed"
            /\ item \in DOMAIN rows
        BY <1>0, <3>4, <4>1, ItemIs DEF InHand
      <4>3. cases[k].cost_spent + StepIn(item).cost <= cases[k].cost_ceiling
        <5> DEFINE p == PlaybookOf(k)
                   U == Unpaid(k)
                   i == StepOf(item)
        <5>1. /\ WellFormed(p) /\ HasPlaybook(k) /\ i \in DOMAIN p.steps
              /\ StepIn(item) = p.steps[i] /\ p.steps[i].cost \in Nat /\ item = <<k, i>>
          BY <1>0, <4>1, <4>2, RowIs DEF Shipped
        <5>2. U \in SUBSET DOMAIN p.steps /\ i \in U
          BY <4>2, <5>1 DEF Unpaid
        <5>3. cases[k].cost_spent + CostOf(p, U) <= cases[k].cost_ceiling
          BY <1>0, <5>1 DEF Budgeted
        <5>4. cases[k].cost_spent \in Nat /\ cases[k].cost_ceiling \in Nat
          BY <2>1 DEF CaseRecords
        <5> HIDE DEF p, U, i
        <5>5. CostOf(p, U) = p.steps[i].cost + CostOf(p, U \ {i}) /\ CostOf(p, U \ {i}) \in Nat
          <6>1. U \ {i} \in SUBSET U
            OBVIOUS
          <6> QED
            BY <5>1, <5>2, <6>1, CostLaws
        <5> QED
          BY <5>1, <5>3, <5>4, <5>5
      <4> QED
        BY <2>1, <4>1, <4>2, <4>3
    <3> QED
      BY <2>4, <3>1, <3>2, <3>3, <3>4 DEF CaseStep
  <2> QED
    BY <2>1, <2>2, <2>3, <2>4, <2>5
<1>3. ASSUME NEW k \in DOMAIN cases', k \notin DOMAIN cases
      PROVE  Filed(k)'
  <2>1. PopCase
    BY <1>0, <1>3, TablesGrow
  <2> DEFINE l == CaseOf(Popped.item)
             new == [state |-> "detected", cost_spent |-> 0, cost_ceiling |-> 0,
                     opened_at |-> Popped.when, source_payment |-> sim.next_id + 1,
                     playbook_id |-> NULL, outcome |-> NULL]
  <2>2. /\ Keyed(l) /\ runs' = runs /\ cases' # cases
        /\ cases' = [j \in DOMAIN cases \cup {l} |-> IF j = l THEN new ELSE cases[j]]
        /\ DOMAIN consents' = DOMAIN consents \cup {Customer(l)}
    BY <1>0, <1>3, <2>1, CaseArrives
  <2>3. Popped.when \in Nat /\ sim.next_id \in Nat
    <3>1. heap # {}
      BY <2>1 DEF PopCase
    <3> QED
      BY <1>0, <3>1, FirstIsPopped DEF Simulated
  <2>4. new \in CaseRecords /\ new.state = "detected" /\ new.outcome = NULL
        /\ new.cost_spent = 0 /\ new.cost_ceiling = 0
    BY <2>3, StatesAre DEF CaseRecords
  <2> HIDE DEF new, l
  <2>5. k = l /\ cases'[k] = new
    BY <1>3, <2>2
  <2>6. Keyed(k)' /\ Customer(k)' = Customer(k)
    BY <1>0, <2>2, <2>5, SameRun
  <2>7. "detected" \notin Terminal
    BY StatesAre
  <2> QED
    BY <2>2, <2>4, <2>5, <2>6, <2>7
<1>4. \A x \in DOMAIN consents' : consents'[x] = Cohort[x[1]][x[2]].detected_at
  <2>1. \A x \in DOMAIN consents : consents[x] = Cohort[x[1]][x[2]].detected_at
    BY <1>0 DEF CasesFiled
  <2>2. CASE PopCase /\ consents' # consents
    <3> DEFINE l == CaseOf(Popped.item)
    <3>1. /\ Keyed(l)
          /\ consents' = [x \in DOMAIN consents \cup {Customer(l)} |->
                            IF x \in DOMAIN consents THEN consents[x] ELSE Source(l).detected_at]
      BY <1>0, <2>2, CaseArrives
    <3>2. Source(l) = Cohort[Customer(l)[1]][Customer(l)[2]]
      BY <1>0, <3>1, CaseIs
    <3> HIDE DEF l
    <3> QED
      BY <2>1, <3>1, <3>2
  <2>3. CASE ~PopCase
    BY <1>0, <2>1, <2>3, TablesGrow
  <2> QED
    BY <2>1, <2>2, <2>3
<1>5. completed' \subseteq 1..run'
  <2>1. completed \subseteq 1..run /\ run \in Nat
    BY <1>0, RunsAre DEF CasesFiled
  <2>2. CASE StartRun
    <3>1. completed' = completed /\ run' = run + 1
      BY <1>0, <2>2, NextRun DEF StartRun
    <3> QED
      BY <2>1, <3>1
  <2>3. CASE Complete
    <3>1. completed' = completed \cup {run} /\ run' = run /\ run > 0
      BY <1>0, <2>3 DEF Complete, InHand, run
    <3> QED
      BY <2>1, <3>1
  <2>4. CASE completed' = completed /\ runs' = runs
    BY <2>1, <2>4 DEF run
  <2>5. CASE Abstain \/ PopCase \/ PersistHoldout \/ PersistPlan \/ SkipClaimed \/ ClaimDueBatch
             \/ Gate \/ Stop \/ Execute \/ ExecuteFails \/ Attribute \/ WriteReport \/ Crash
             \/ UNCHANGED vars
    BY <2>4, <2>5 DEF Abstain, PopCase, PersistHoldout, PersistPlan, SkipClaimed, ClaimDueBatch,
             Gate, Stop, Execute, ExecuteFails, Attribute, WriteReport, Crash, vars, database
  <2> QED
    BY <2>2, <2>3, <2>5 DEF Next, Progress
<1>6. \A k \in DOMAIN cases' : Filed(k)'
  BY <1>2, <1>3
<1> QED
  BY <1>1, <1>4, <1>5, <1>6 DEF CasesFiled

\* What has begun has begun, and what has ended stays as it ended.
LEMMA StateOnward ==
    ASSUME InHand, NEW k, CaseStep(k)
    PROVE  /\ cases[k].state \in Begun => cases'[k].state \in Begun
           /\ cases[k].state \in Terminal => cases'[k].state = cases[k].state
<1>1. CASE cases'[k] = cases[k]
  BY <1>1
<1>2. CASE pc = "plan" /\ k = CaseOf(item)
  <2>1. cases[k].state = "detected"
    BY <1>2 DEF InHand
  <2>2. "detected" \notin Begun /\ "detected" \notin Terminal
    BY StatesAre DEF Begun
  <2> QED
    BY <2>1, <2>2
<1>3. CASE pc \in {"stop", "execute", "attribute"}
  <2>1. \A s \in Eligible : s \notin Terminal
    BY StatesAre
  <2>2. {"expired", "recovered"} \subseteq Begun
    BY DEF Begun
  <2> QED
    BY <1>3, <2>1, <2>2 DEF CaseStep
<1> QED
  BY <1>1, <1>2, <1>3 DEF CaseStep

\* What is done stays as it was done.
LEMMA DoneStays ==
    ASSUME InHand, NEW r, RowStep(r), rows[r].status = "done"
    PROVE  rows'[r] = rows[r]
  BY DEF RowStep, InHand, Live

LEMMA RowsFiledHolds ==
    ASSUME IInv, [Next]_vars
    PROVE  RowsFiled'
<1>0. /\ CasesFiled /\ RowsFiled /\ Budgeted /\ Scheduled /\ InHand /\ Ages /\ Simulated /\ Paid
      /\ now \in Nat
  BY DEF IInv, Scheduled
<1>1. IsFiniteSet(DOMAIN rows')
  <2>1. CASE PersistPlan
    BY <1>0, <2>1, PlanIs
  <2>2. CASE ~PersistPlan
    BY <1>0, <2>2, TablesGrow DEF RowsFiled
  <2> QED
    BY <2>1, <2>2
<1> DEFINE Filed(r) ==
      /\ r = <<CaseOf(r), StepOf(r)>> /\ CaseOf(r) \in DOMAIN cases
      /\ HasPlaybook(CaseOf(r)) /\ StepOf(r) \in DOMAIN PlaybookOf(CaseOf(r)).steps
      /\ rows[r] \in RowRecords
      /\ rows[r].status = "done" <=> rows[r].executed_at # NULL
      /\ rows[r].due_at >= Source(CaseOf(r)).detected_at
      /\ cases[CaseOf(r)].state \in Begun
      /\ rows[r].status = "cancelled" => cases[CaseOf(r)].state \in Terminal
<1>2. ASSUME NEW r \in DOMAIN rows
      PROVE  Filed(r)'
  <2> DEFINE k == CaseOf(r)
  <2>1. Filed(r)
    BY <1>0 DEF RowsFiled
  <2>2. /\ Keyed(k) /\ HasPlaybook(k)' /\ PlaybookOf(k)' = PlaybookOf(k) /\ Source(k)' = Source(k)
        /\ CaseOf(r)' = k /\ StepOf(r)' = StepOf(r)
    <3>1. Keyed(k) /\ HasPlaybook(k)
      BY <1>0, RowIs
    <3>2. CaseOf(r)' = k /\ StepOf(r)' = StepOf(r)
      BY DEF CaseOf, StepOf
    <3> HIDE DEF k
    <3> QED
      BY <1>0, <3>1, <3>2, KeysStay
  <2>3. CaseStep(k) /\ k \in DOMAIN cases'
    BY <1>0, <2>1, CaseSteps DEF CaseStep
  <2>4. RowStep(r) /\ rows'[r] \in RowRecords /\ rows'[r].due_at = rows[r].due_at
    BY <1>0, RowSteps DEF RowStep
  <2>5. /\ cases[k].state \in Begun => cases'[k].state \in Begun
        /\ cases[k].state \in Terminal => cases'[k].state = cases[k].state
    BY <1>0, <2>3, StateOnward
  <2>6. rows'[r].status = "done" <=> rows'[r].executed_at # NULL
    <3>1. now # NULL
      BY <1>0, PolicyConstants
    <3>2. rows[r].status = "done" => rows'[r] = rows[r]
      BY <1>0, <2>4, DoneStays
    <3> QED
      BY <2>1, <2>4, <3>1, <3>2 DEF RowStep
  <2>7. rows'[r].status = "cancelled" => cases'[k].state \in Terminal
    <3>1. CASE rows[r].status = "cancelled"
      BY <2>1, <2>5, <3>1
    <3>2. CASE rows[r].status # "cancelled" /\ rows'[r].status = "cancelled"
      <4>1. pc = "stop" /\ k = CaseOf(item)
        BY <2>4, <3>2 DEF RowStep
      <4>2. Stop
        <5>1. ~UNCHANGED rows
          BY <3>2
        <5> QED
          BY <4>1, <5>1
             DEF Next, Progress, StartRun, PopCase, PersistHoldout, Abstain, PersistPlan,
                 SkipClaimed, ClaimDueBatch, Gate, Execute, ExecuteFails, Attribute, Complete,
                 WriteReport, Crash, vars, database
      <4>3. CASE cases[k].state \in Terminal
        BY <2>5, <4>3
      <4>4. CASE cases[k].state \notin Terminal
        <5> DEFINE end == [kind |-> "expired", recovered |-> 0, reason_code |-> "max_case_age"]
        <5>1. cases' = [cases EXCEPT ![k].state = "expired", ![k].outcome = end]
          BY <1>0, <4>1, <4>2, <4>4, StopIs
        <5>2. cases[k] \in CaseRecords /\ k \in DOMAIN cases
          BY <1>0, RowIs
        <5> HIDE DEF end, k
        <5>3. cases'[k] = [cases[k] EXCEPT !.state = "expired", !.outcome = end]
          BY <5>1, <5>2
        <5>4. cases'[k].state = "expired"
          BY <5>2, <5>3 DEF CaseRecords
        <5> QED
          BY <5>4, StatesAre
      <4> QED
        BY <4>3, <4>4
    <3> QED
      BY <3>1, <3>2
  <2> QED
    BY <2>1, <2>2, <2>3, <2>4, <2>5, <2>6, <2>7
<1>3. ASSUME NEW r \in DOMAIN rows', r \notin DOMAIN rows
      PROVE  Filed(r)'
  <2>1. PersistPlan
    BY <1>0, <1>3, TablesGrow
  <2>0. PICK k : k = CaseOf(item)
    OBVIOUS
  <2> DEFINE p == PlaybookOf(k)
             included == IncludedSteps(p, Source(k).amount)
             dates == DueDates(p, now)
  <2>2. /\ runs' = runs /\ k \in DOMAIN cases /\ HasPlaybook(k) /\ now = Source(k).detected_at
        /\ included \in SUBSET DOMAIN p.steps
        /\ \A i \in included : dates[i] \in Nat /\ dates[i] >= now
        /\ DOMAIN rows' = DOMAIN rows \cup {<<k, i>> : i \in included}
        /\ \A i \in included :
                rows'[<<k, i>>] = [status |-> "pending", due_at |-> dates[i], executed_at |-> NULL,
                                   verdict |-> NULL, rule_id |-> NULL]
        /\ DOMAIN cases' = DOMAIN cases
        /\ cases'[k].state \in {"awaiting_approval", "executing"}
    BY <1>0, <2>0, <2>1, PlanIs, ZenonT(40) DEF OwnCases
  <2> HIDE DEF p, included, dates
  <2>3. PICK i \in included : r = <<k, i>>
    BY <1>3, <2>2
  <2>4. CaseOf(r) = k /\ StepOf(r) = i /\ CaseOf(r)' = k /\ StepOf(r)' = i
    BY <2>3 DEF CaseOf, StepOf
  <2>5. /\ rows'[r] \in RowRecords /\ rows'[r].status = "pending" /\ rows'[r].executed_at = NULL
        /\ rows'[r].due_at >= Source(k).detected_at
    <3> DEFINE d == dates[i]
               row == [status |-> "pending", due_at |-> d, executed_at |-> NULL,
                       verdict |-> NULL, rule_id |-> NULL]
    <3>1. rows'[r] = row /\ d \in Nat /\ d >= Source(k).detected_at
      BY <2>2, <2>3
    <3> HIDE DEF d
    <3>2. row \in RowRecords /\ row.status = "pending" /\ row.executed_at = NULL /\ row.due_at = d
      BY <3>1, NullIsNoRule, RulesAre DEF RowRecords
    <3> HIDE DEF row
    <3> QED
      BY <3>1, <3>2
  <2>6. HasPlaybook(k)' /\ PlaybookOf(k)' = p /\ Source(k)' = Source(k)
    BY <2>2, SameRun DEF p
  <2>7. cases'[k].state \in Begun
    BY <2>2 DEF Begun
  <2> QED
    BY <2>2, <2>3, <2>4, <2>5, <2>6, <2>7
<1>4. \A r \in DOMAIN rows' : Filed(r)'
  BY <1>2, <1>3
<1> QED
  BY <1>1, <1>4 DEF RowsFiled

\* Nothing gets unpaid but by planning.
LEMMA UnpaidShrinks ==
    ASSUME CasesFiled, RowsFiled, Budgeted, Scheduled, InHand, Ages, Simulated, Paid,
           [Next]_vars, ~PersistPlan, NEW k, Keyed(k)
    PROVE  Unpaid(k)' \subseteq Unpaid(k)
<1>1. PlaybookOf(k)' = PlaybookOf(k) /\ DOMAIN rows' = DOMAIN rows
  BY KeysStay, TablesGrow
<1>2. \A r \in DOMAIN rows : rows'[r].status # "done" => rows[r].status # "done"
  BY RowSteps, DoneStays DEF Scheduled
<1> QED
  BY <1>1, <1>2 DEF Unpaid

LEMMA BudgetedHolds ==
    ASSUME IInv, [Next]_vars
    PROVE  Budgeted'
<1>0. CasesFiled /\ RowsFiled /\ Budgeted /\ Scheduled /\ InHand /\ Ages /\ Simulated /\ Paid
  BY DEF IInv
<1> SUFFICES ASSUME NEW k \in DOMAIN cases', HasPlaybook(k)'
             PROVE  cases'[k].cost_spent + CostOf(PlaybookOf(k)', Unpaid(k)') <= cases'[k].cost_ceiling
  BY DEF Budgeted
<1>1. CASE k \notin DOMAIN cases
  <2>1. PopCase
    BY <1>0, <1>1, TablesGrow
  <2> DEFINE l == CaseOf(Popped.item)
             new == [state |-> "detected", cost_spent |-> 0, cost_ceiling |-> 0,
                     opened_at |-> Popped.when, source_payment |-> sim.next_id + 1,
                     playbook_id |-> NULL, outcome |-> NULL]
  <2>2. /\ Keyed(l) /\ runs' = runs /\ cases' # cases /\ rows' = rows
        /\ cases' = [j \in DOMAIN cases \cup {l} |-> IF j = l THEN new ELSE cases[j]]
    BY <1>0, <1>1, <2>1, CaseArrives
  <2>3. new.cost_spent = 0 /\ new.cost_ceiling = 0
    OBVIOUS
  <2> HIDE DEF new, l
  <2>4. k = l /\ cases'[k] = new
    BY <1>1, <2>2
  <2>5. WellFormed(PlaybookOf(k)')
    <3>1. HasPlaybook(k) /\ PlaybookOf(k)' = PlaybookOf(k)
      BY <2>2, SameRun
    <3> QED
      BY <1>0, <2>2, <2>4, <3>1, CaseIs
  <2>6. Unpaid(k)' = {}
    <3>1. \A i : <<k, i>> \notin DOMAIN rows
      BY <1>0, <1>1 DEF RowsFiled, CaseOf
    <3> QED
      BY <2>2, <3>1 DEF Unpaid
  <2>7. CostOf(PlaybookOf(k)', {}) = 0
    BY <2>5, CostLaws
  <2> QED
    BY <2>3, <2>4, <2>6, <2>7
<1>2. CASE k \in DOMAIN cases
  <2> DEFINE p == PlaybookOf(k)
             U == Unpaid(k)
             W == Unpaid(k)'
  <2>1. Keyed(k) /\ cases[k] \in CaseRecords
    BY <1>0, <1>2, FiledAre
  <2>2. HasPlaybook(k) /\ PlaybookOf(k)' = p
    BY <1>0, <2>1, KeysStay
  <2>3. WellFormed(p) /\ U \in SUBSET DOMAIN p.steps /\ W \in SUBSET DOMAIN p.steps
    BY <1>0, <2>1, <2>2, CaseIs DEF Unpaid
  <2>4. cases[k].cost_spent + CostOf(p, U) <= cases[k].cost_ceiling
    BY <1>0, <1>2, <2>2 DEF Budgeted
  <2>5. CaseStep(k) /\ cases'[k] \in CaseRecords
    BY <1>0, <1>2, CaseSteps DEF CaseStep
  <2>6. /\ cases[k].cost_spent \in Nat /\ cases[k].cost_ceiling \in Nat
        /\ cases'[k].cost_spent \in Nat /\ cases'[k].cost_ceiling \in Nat
    BY <2>1, <2>5 DEF CaseRecords
  <2>7. CostOf(p, U) \in Nat /\ CostOf(p, W) \in Nat
    BY <2>3, CostLaws
  <2>8. ASSUME W \subseteq U, cases'[k].cost_spent = cases[k].cost_spent,
               cases'[k].cost_ceiling = cases[k].cost_ceiling
        PROVE  cases'[k].cost_spent + CostOf(p, W) <= cases'[k].cost_ceiling
    <3>1. CostOf(p, W) <= CostOf(p, U)
      <4> HIDE DEF p, U, W
      <4> QED
        BY <2>3, <2>8, CostLaws
    <3> HIDE DEF p, U, W
    <3> QED
      BY <2>4, <2>6, <2>7, <2>8, <3>1
  <2>9. CASE PersistPlan /\ k = CaseOf(item)
    <3> DEFINE included == IncludedSteps(p, Source(k).amount)
    <3>1. /\ included \in SUBSET DOMAIN p.steps /\ \A i : <<k, i>> \notin DOMAIN rows
          /\ DOMAIN rows' = DOMAIN rows \cup {<<k, i>> : i \in included}
          /\ cases'[k].cost_ceiling = CostOf(p, included) /\ cases'[k].cost_spent = 0
      BY <1>0, <2>9, PlanIs
    <3> HIDE DEF included
    <3>2. W \subseteq included
      BY <3>1 DEF Unpaid
    <3> HIDE DEF p, W
    <3>3. CostOf(p, W) <= CostOf(p, included) /\ CostOf(p, included) \in Nat
      BY <2>3, <3>1, <3>2, CostLaws
    <3> QED
      BY <2>2, <2>7, <3>1, <3>3 DEF p, W
  <2>10. CASE PersistPlan /\ k # CaseOf(item)
    <3>1. cases'[k] = cases[k]
      BY <2>5, <2>10, <1>2 DEF PersistPlan
    <3>2. W \subseteq U
      <4> DEFINE l == CaseOf(item)
                 included == IncludedSteps(PlaybookOf(l), Source(l).amount)
      <4>1. /\ DOMAIN rows' = DOMAIN rows \cup {<<l, i>> : i \in included}
            /\ \A r \in DOMAIN rows : rows'[r] = rows[r]
        BY <1>0, <2>10, PlanIs
      <4> HIDE DEF l, included
      <4>2. \A i : <<k, i>> \in DOMAIN rows' =>
                      <<k, i>> \in DOMAIN rows /\ rows'[<<k, i>>] = rows[<<k, i>>]
        BY <2>10, <4>1 DEF l
      <4> QED
        BY <2>2, <4>2 DEF Unpaid
    <3> QED
      BY <2>2, <2>8, <3>1, <3>2
  <2>11. CASE Execute /\ k = CaseOf(item)
    <3> DEFINE i == StepOf(item)
    <3>1. /\ pc = "execute" /\ rows' = [rows EXCEPT ![item].status = "done", ![item].executed_at = now]
          /\ cases' = [cases EXCEPT ![k].cost_spent = @ + ActionOf(item).cost]
      BY <2>11 DEF Execute, ChargeCase
    <3>2. /\ item \in DOMAIN rows /\ rows[item].status = "claimed" /\ rows[item] \in RowRecords
          /\ ActionOf(item).cost = StepIn(item).cost
      BY <1>0, <3>1, ItemIs DEF InHand, ActionOf
    <3>3. i \in DOMAIN p.steps /\ StepIn(item) = p.steps[i] /\ p.steps[i].cost \in Nat
          /\ item = <<k, i>>
      BY <1>0, <2>11, <3>2, RowIs
    <3> HIDE DEF i
    <3>4. rows'[item].status = "done"
      BY <3>1, <3>2 DEF RowRecords
    <3>5. i \in U /\ W \subseteq U \ {i}
      <4>1. i \in U
        BY <3>2, <3>3 DEF Unpaid
      <4>2. W \subseteq U
        BY <1>0, <2>1, <2>11, <3>1, UnpaidShrinks DEF PersistPlan
      <4>3. i \notin W
        BY <3>3, <3>4 DEF Unpaid
      <4> QED
        BY <4>1, <4>2, <4>3
    <3>6. /\ cases'[k].cost_spent = cases[k].cost_spent + p.steps[i].cost
          /\ cases'[k].cost_ceiling = cases[k].cost_ceiling
      <4>1. cases'[k] = [cases[k] EXCEPT !.cost_spent = @ + p.steps[i].cost]
        BY <1>2, <3>1, <3>2, <3>3
      <4> HIDE DEF p
      <4> QED
        BY <2>1, <4>1 DEF CaseRecords
    <3> HIDE DEF p, U, W
    <3>7. /\ CostOf(p, U) = p.steps[i].cost + CostOf(p, U \ {i}) /\ CostOf(p, U \ {i}) \in Nat
          /\ CostOf(p, W) <= CostOf(p, U \ {i})
      <4>1. U \ {i} \in SUBSET U /\ U \ {i} \in SUBSET DOMAIN p.steps /\ W \in SUBSET (U \ {i})
        BY <2>3, <3>5
      <4> QED
        BY <2>3, <3>5, <4>1, CostLaws
    <3>8. cases'[k].cost_spent + CostOf(p, W) <= cases'[k].cost_ceiling
      BY <2>4, <2>6, <2>7, <3>3, <3>6, <3>7
    <3> QED
      BY <2>2, <3>8 DEF W
  <2>12. CASE ~PersistPlan /\ ~(Execute /\ k = CaseOf(item))
    <3>1. W \subseteq U
      BY <1>0, <2>1, <2>12, UnpaidShrinks
    <3>2. /\ cases'[k].cost_spent = cases[k].cost_spent
          /\ cases'[k].cost_ceiling = cases[k].cost_ceiling
      <4>1. CASE PersistHoldout
        <5>1. cases'[k] = cases[k] \/ cases'[k] = [cases[k] EXCEPT !.state = "holdout"]
          BY <1>2, <4>1 DEF PersistHoldout
        <5> QED
          BY <2>1, <5>1 DEF CaseRecords
      <4>2. CASE Execute
        BY <1>2, <2>12, <4>2 DEF Execute, ChargeCase
      <4>3. CASE cases'[k] = cases[k]
        BY <4>3
      <4>4. CASE cases'[k] # cases[k] /\ ~PersistHoldout /\ ~Execute
        <5>1. pc # "plan" /\ pc # "execute"
          BY <2>12, <4>4
             DEF Next, Progress, StartRun, PopCase, Abstain, SkipClaimed, ClaimDueBatch, Gate,
                 Stop, ExecuteFails, Attribute, Complete, WriteReport, Crash, vars, database
        <5> QED
          BY <2>5, <4>4, <5>1 DEF CaseStep
      <4> QED
        BY <4>1, <4>2, <4>3, <4>4
    <3> QED
      BY <2>2, <2>8, <3>1, <3>2
  <2> QED
    BY <2>9, <2>10, <2>11, <2>12
<1> QED
  BY <1>1, <1>2

-----------------------------------------------------------------------------
(* The heap and what is in hand.                                           *)

\* The clock stands, or moves to the first instant of the heap.
LEMMA ClockIs ==
    ASSUME Scheduled, [Next]_vars, ~StartRun, ~WriteReport, ~Crash
    PROVE  /\ now' >= now /\ now' \in Nat /\ (heap' \subseteq heap \/ PersistPlan)
           /\ \A e \in heap \cap heap' : e.when >= now'
           /\ (pc' = "over" => UNCHANGED vars) /\ (pc = "over" => UNCHANGED vars)
<1>0. now \in Nat /\ \A e \in heap : e.when >= now
  BY DEF Scheduled
<1>1. CASE PopCase \/ SkipClaimed \/ ClaimDueBatch
  <2>0. PICK e : e = Popped
    OBVIOUS
  <2>1. heap # {} /\ now' = e.when /\ heap' = heap \ {e} /\ pc = "loop"
        /\ pc' \in {"loop", "plan", "gate"}
    BY <1>1, <2>0 DEF PopCase, SkipClaimed, ClaimDueBatch
  <2>2. e.when \in Nat /\ e.when >= now /\ \A f \in heap : f.when \in Nat /\ e.when <= f.when
    BY <2>0, <2>1, FirstIsPopped
  <2>3. \A f \in heap \cap heap' : f.when >= now'
    BY <2>1, <2>2
  <2> HIDE DEF Scheduled
  <2> QED
    BY <2>1, <2>2, <2>3
<1>2. CASE UNCHANGED vars
  BY <1>0, <1>2 DEF vars, process
<1>3. CASE PersistHoldout \/ Abstain \/ PersistPlan \/ Gate \/ Stop \/ Execute \/ ExecuteFails
           \/ Attribute \/ Complete
  <2>1. pc # "over" /\ pc' # "over" /\ now' = now
    BY <1>3 DEF PersistHoldout, Abstain, PersistPlan, Gate, Stop, Execute, ExecuteFails,
                Attribute, Complete, Onward
  <2>2. heap' = heap \/ PersistPlan
    BY <1>3 DEF PersistHoldout, Abstain, Gate, Stop, Execute, ExecuteFails, Attribute, Complete
  <2>3. now' >= now /\ now' \in Nat /\ \A e \in heap \cap heap' : e.when >= now'
    BY <1>0, <2>1
  <2> QED
    BY <2>1, <2>2, <2>3
<1> QED
  BY <1>1, <1>2, <1>3 DEF Next, Progress

\* A run that begins has nothing of its own yet, and one that is over has no process.
LEMMA RunBegins ==
    ASSUME CasesFiled, RowsFiled, StartRun
    PROVE  /\ run' = run + 1 /\ run' \in Nat /\ run' > 0 /\ rows' = rows /\ cases' = cases
           /\ OwnRows' = {} /\ OwnCases' = {} /\ runs'[run'] \in DOMAIN Cohort
           /\ sim' = NewSimulator(runs'[run']) /\ pc' = "loop" /\ now' = 0 /\ pc = "over"
           /\ claimed_ids' = {} /\ batch' = {}
           /\ heap' = {[when |-> Cohort[runs'[run']][i].detected_at, seq |-> i, kind |-> "case",
                        item |-> <<<<run', i>>, 0>>] : i \in DOMAIN Cohort[runs'[run']]}
<1>1. PICK seed \in DOMAIN Cohort :
        /\ runs' = Append(runs, seed)
        /\ heap' = {[when |-> Cohort[seed][i].detected_at, seq |-> i, kind |-> "case",
                     item |-> <<<<run + 1, i>>, 0>>] : i \in DOMAIN Cohort[seed]}
        /\ sim' = NewSimulator(seed)
  BY DEF StartRun
<1>2. runs \in Seq(DOMAIN Cohort) /\ run \in Nat
  BY RunsAre DEF CasesFiled
<1>3. run' = run + 1 /\ runs'[run'] = seed
  BY <1>1, <1>2 DEF run
<1>4. rows' = rows /\ cases' = cases
  BY DEF StartRun
<1>5. \A k \in DOMAIN cases : k[1] \in 1..run
  BY DEF CasesFiled, Keyed
<1>6. \A r \in DOMAIN rows : CaseOf(r)[1] \in 1..run
  BY <1>5 DEF RowsFiled
<1>7. OwnCases' = {}
  BY <1>2, <1>3, <1>4, <1>5 DEF OwnCases
<1>8. OwnRows' = {}
  BY <1>2, <1>3, <1>4, <1>6 DEF OwnRows, Own, CaseOf
<1> QED
  BY <1>1, <1>2, <1>3, <1>4, <1>7, <1>8 DEF StartRun

LEMMA ScheduledHolds ==
    ASSUME IInv, [Next]_vars
    PROVE  Scheduled'
<1>0. /\ CasesFiled /\ RowsFiled /\ Budgeted /\ Scheduled /\ InHand /\ Ages /\ Simulated /\ Paid
      /\ now \in Nat
  BY DEF IInv, Scheduled
<1>1. CASE StartRun
  <2> DEFINE seed == runs'[run']
  <2>1. /\ now' = 0 /\ run' = run + 1 /\ seed \in DOMAIN Cohort /\ cases' = cases
        /\ heap' = {[when |-> Cohort[seed][i].detected_at, seq |-> i, kind |-> "case",
                     item |-> <<<<run', i>>, 0>>] : i \in DOMAIN Cohort[seed]}
    BY <1>0, <1>1, RunBegins
  <2>2. \A i \in DOMAIN Cohort[seed] : Cohort[seed][i].detected_at \in Nat /\ i \in Nat
    <3>1. /\ Len(Cohort[seed]) \in Nat /\ DOMAIN Cohort[seed] = 1..Len(Cohort[seed])
          /\ \A i \in DOMAIN Cohort[seed] : CohortCase(Cohort[seed][i])
      BY <2>1, BenchmarkConstants
    <3> QED
      BY <3>1 DEF CohortCase
  <2>3. \A k \in DOMAIN cases : k[1] \in 1..run /\ run \in Nat
    BY <1>0, RunsAre DEF CasesFiled, Keyed
  <2>4. \A i : <<run', i>> \notin DOMAIN cases
    BY <2>1, <2>3
  <2>5. ASSUME NEW e \in heap'
        PROVE  /\ e = [when |-> e.when, seq |-> e.seq, kind |-> e.kind, item |-> e.item]
               /\ e.when \in Nat /\ e.seq \in Nat /\ e.when >= now'
               /\ e.kind = "case" /\ e.seq \in DOMAIN Cohort[seed]
               /\ e.item = <<<<run', e.seq>>, 0>> /\ <<run', e.seq>> \notin DOMAIN cases'
               /\ e.when = Cohort[seed][e.seq].detected_at
    <3> HIDE DEF seed
    <3>1. PICK i \in DOMAIN Cohort[seed] :
             e = [when |-> Cohort[seed][i].detected_at, seq |-> i, kind |-> "case",
                  item |-> <<<<run', i>>, 0>>]
      BY <2>1, <2>5
    <3> QED
      BY <2>1, <2>2, <2>4, <3>1
  <2> QED
    BY <2>1, <2>5 DEF Scheduled
<1>2. CASE WriteReport \/ Crash
  BY <1>2 DEF WriteReport, Crash, NoProcess, Scheduled
<1>3. CASE ~StartRun /\ ~WriteReport /\ ~Crash
  <2>1. runs' = runs /\ run' = run
    BY <1>0, <1>3, NextRun DEF run
  <2>2. now' \in Nat /\ \A e \in heap \cap heap' : e.when >= now'
    BY <1>0, <1>3, ClockIs
  <2>3. ASSUME NEW e \in heap', e \in heap
        PROVE  \/ /\ e.kind = "case" /\ e.seq \in DOMAIN Cohort[runs[run]]
                  /\ e.item = <<<<run, e.seq>>, 0>> /\ <<run, e.seq>> \notin DOMAIN cases'
                  /\ e.when = Cohort[runs[run]][e.seq].detected_at
               \/ e.kind = "action" /\ e.item \in OwnRows' /\ e.when = rows'[e.item].due_at
    <3>1. CASE e.kind = "case"
      <4>1. /\ e.seq \in DOMAIN Cohort[runs[run]]
            /\ e.item = <<<<run, e.seq>>, 0>> /\ <<run, e.seq>> \notin DOMAIN cases
            /\ e.when = Cohort[runs[run]][e.seq].detected_at
        BY <1>0, <2>3, <3>1 DEF Scheduled
      <4>2. CASE PopCase
        <5> DEFINE k == CaseOf(Popped.item)
        <5>1. /\ heap' = heap \ {Popped} /\ DOMAIN cases' \subseteq DOMAIN cases \cup {k}
              /\ \A f \in heap : f.kind = "case" /\ CaseOf(f.item) = k => f = Popped
          BY <1>0, <4>2, CaseArrives
        <5>2. CaseOf(e.item) = <<run, e.seq>>
          BY <4>1 DEF CaseOf
        <5> HIDE DEF k
        <5>3. <<run, e.seq>> # k
          BY <2>3, <3>1, <5>1, <5>2
        <5> QED
          BY <3>1, <4>1, <5>1, <5>3
      <4>3. CASE ~PopCase
        BY <1>0, <3>1, <4>1, <4>3, TablesGrow
      <4> QED
        BY <4>2, <4>3
    <3>2. CASE e.kind # "case"
      <4>1. e.kind = "action" /\ e.item \in OwnRows /\ e.when = rows[e.item].due_at
        BY <1>0, <2>3, <3>2 DEF Scheduled
      <4>2. e.item \in DOMAIN rows
        BY <4>1 DEF OwnRows
      <4>3. rows'[e.item].due_at = rows[e.item].due_at /\ e.item \in DOMAIN rows'
        BY <1>0, <4>2, RowSteps DEF RowStep
      <4>4. e.item \in OwnRows'
        BY <2>1, <4>1, <4>3 DEF OwnRows, Own, CaseOf
      <4> QED
        BY <4>1, <4>3, <4>4
    <3> QED
      BY <3>1, <3>2
  <2>4. ASSUME NEW e \in heap', e \notin heap
        PROVE  /\ e = [when |-> e.when, seq |-> e.seq, kind |-> e.kind, item |-> e.item]
               /\ e.when \in Nat /\ e.seq \in Nat /\ e.when >= now'
               /\ e.kind = "action" /\ e.item \in OwnRows' /\ e.when = rows'[e.item].due_at
    <3>1. PersistPlan
      BY <1>0, <1>3, <2>4, ClockIs
    <3>2. PICK k : k = CaseOf(item)
      OBVIOUS
    <3> DEFINE p == PlaybookOf(k)
               included == IncludedSteps(p, Source(k).amount)
               dates == DueDates(p, now)
    <3>3. /\ k \in OwnCases /\ now' = now
          /\ \A i \in included : dates[i] \in Nat /\ dates[i] >= now
          /\ DOMAIN rows' = DOMAIN rows \cup {<<k, i>> : i \in included}
          /\ \A i \in included :
                rows'[<<k, i>>] = [status |-> "pending", due_at |-> dates[i], executed_at |-> NULL,
                                   verdict |-> NULL, rule_id |-> NULL]
          /\ \A f \in heap' \ heap :
                f.seq \in Nat /\ \E i \in included :
                    f = [when |-> dates[i], kind |-> "action", item |-> <<k, i>>, seq |-> f.seq]
      BY <1>0, <3>1, <3>2, PlanIs, ZenonT(40)
    <3> HIDE DEF p, included, dates
    <3>4. PICK i \in included :
             e = [when |-> dates[i], kind |-> "action", item |-> <<k, i>>, seq |-> e.seq]
      BY <2>4, <3>3
    <3>5. <<k, i>> \in OwnRows'
      <4>1. k[1] = run'
        BY <2>1, <3>3 DEF OwnCases
      <4> QED
        BY <3>3, <4>1 DEF OwnRows, Own, CaseOf
    <3>6. rows'[<<k, i>>].due_at = dates[i]
      <4>1. rows'[<<k, i>>] = [status |-> "pending", due_at |-> dates[i], executed_at |-> NULL,
                               verdict |-> NULL, rule_id |-> NULL]
        BY <3>3
      <4> QED
        BY <4>1
    <3> QED
      BY <2>4, <3>3, <3>4, <3>5, <3>6
  <2>5. \A e \in heap : e = [when |-> e.when, seq |-> e.seq, kind |-> e.kind, item |-> e.item]
                        /\ e.when \in Nat /\ e.seq \in Nat
    BY <1>0 DEF Scheduled
  <2> QED
    BY <2>1, <2>2, <2>3, <2>4, <2>5 DEF Scheduled
<1> QED
  BY <1>1, <1>2, <1>3

LEMMA TooOldIs ==
    ASSUME NEW k
    PROVE  /\ TooOld(Context(k)) <=> now - cases[k].opened_at > PlaybookOf(k).max_case_age
           /\ TooOld(Context(k))' <=> now' - cases'[k].opened_at > PlaybookOf(k)'.max_case_age
  BY DEF TooOld, Context

\* What is of this run stays of this run.
LEMMA OwnStays ==
    ASSUME IInv, [Next]_vars, ~StartRun
    PROVE  /\ runs' = runs /\ run' = run
           /\ OwnRows \subseteq OwnRows' /\ OwnCases \subseteq OwnCases'
           /\ ~PersistPlan => OwnRows' = OwnRows
           /\ ~PopCase => OwnCases' = OwnCases
<1>1. runs' = runs /\ run' = run
  BY NextRun DEF IInv, run
<1>2. /\ DOMAIN cases \subseteq DOMAIN cases' /\ DOMAIN rows \subseteq DOMAIN rows'
      /\ ~PopCase => DOMAIN cases' = DOMAIN cases
      /\ ~PersistPlan => DOMAIN rows' = DOMAIN rows
  BY TablesGrow DEF IInv
<1> QED
  BY <1>1, <1>2 DEF OwnRows, OwnCases, Own, CaseOf

LEMMA InHandHolds ==
    ASSUME IInv, [Next]_vars
    PROVE  InHand'
<1>0. /\ CasesFiled /\ RowsFiled /\ Budgeted /\ Scheduled /\ InHand /\ Ages /\ Simulated /\ Paid
      /\ now \in Nat
  BY DEF IInv, Scheduled
<1>1. CASE StartRun
  BY <1>0, <1>1, RunBegins DEF InHand
<1>2. CASE WriteReport \/ Crash
  BY <1>2 DEF WriteReport, Crash, NoProcess, InHand
<1>3. CASE UNCHANGED vars
  <2>1. UNCHANGED <<pc, now, heap, claimed_ids, batch, item, runs, cases, rows>>
    BY <1>3 DEF vars, process, database
  <2>2. /\ OwnRows' = OwnRows /\ OwnCases' = OwnCases /\ run' = run
        /\ CaseOf(item)' = CaseOf(item) /\ Source(CaseOf(item))' = Source(CaseOf(item))
        /\ (TooOld(Context(CaseOf(item)))' <=> TooOld(Context(CaseOf(item))))
    <3>1. consents' = consents
      BY <1>3 DEF vars, database
    <3> QED
      BY <2>1, <3>1 DEF OwnRows, OwnCases, Own, run, CaseOf, Source, Context, RefreshCaseState,
          ConsentEvents, PlaybookOf, Customer
  <2> QED
    BY <1>0, <2>1, <2>2 DEF InHand
<1> DEFINE Common ==
      /\ run' = run /\ claimed_ids \subseteq DOMAIN rows' /\ OwnRows \subseteq OwnRows'
      /\ OwnCases \subseteq OwnCases' /\ batch \subseteq OwnRows' \cap claimed_ids
<1>4. ASSUME ~StartRun
      PROVE  Common
  <2>1. /\ run' = run /\ OwnRows \subseteq OwnRows' /\ OwnCases \subseteq OwnCases'
        /\ DOMAIN rows \subseteq DOMAIN rows'
    BY <1>0, <1>4, OwnStays, TablesGrow
  <2> QED
    BY <1>0, <2>1 DEF InHand
<1>5. CASE PopCase
  <2>1. PICK k : k = CaseOf(Popped.item)
    OBVIOUS
  <2> DEFINE new == [state |-> "detected", cost_spent |-> 0, cost_ceiling |-> 0,
                     opened_at |-> Popped.when, source_payment |-> sim.next_id + 1,
                     playbook_id |-> NULL, outcome |-> NULL]
  <2>2. /\ k[1] = run /\ pc = "loop" /\ UNCHANGED <<runs, claimed_ids, batch, rows>>
        /\ now' = Source(k).detected_at
        /\ \/ UNCHANGED <<pc, item, cases>>
           \/ /\ cases' = [j \in DOMAIN cases \cup {k} |-> IF j = k THEN new ELSE cases[j]]
              /\ CaseOf(item') = k /\ pc' = "plan"
    BY <1>0, <1>5, <2>1, CaseArrives
  <2>3. new.state = "detected"
    OBVIOUS
  <2> HIDE DEF new
  <2>4. run > 0 /\ batch = {} /\ Common
    BY <1>0, <1>4, <2>2 DEF InHand, StartRun
  <2>5. CASE pc' = "loop"
    BY <2>2, <2>4, <2>5 DEF InHand
  <2>6. CASE pc' # "loop"
    <3>1. CaseOf(item') = k /\ pc' = "plan" /\ k \in DOMAIN cases' /\ cases'[k].state = "detected"
      BY <2>2, <2>3, <2>6
    <3>2. k \in OwnCases' /\ Source(k)' = Source(k) /\ CaseOf(item)' = k
      BY <2>2, <2>4, <3>1, SameRun DEF OwnCases, CaseOf
    <3>3. Source(CaseOf(item))' = Source(k)
      BY <2>2, <3>2 DEF Source
    <3> QED
      BY <2>2, <2>4, <3>1, <3>2, <3>3 DEF InHand
  <2> QED
    BY <2>5, <2>6
<1>6. CASE PersistHoldout \/ Abstain \/ PersistPlan \/ SkipClaimed
  <2>1. /\ pc \in {"plan", "loop"} /\ pc' = "loop" /\ UNCHANGED <<claimed_ids, batch>>
        /\ ~StartRun
    BY <1>6 DEF PersistHoldout, Abstain, PersistPlan, SkipClaimed, StartRun
  <2>2. run > 0 /\ batch = {} /\ Common
    BY <1>0, <1>4, <2>1 DEF InHand
  <2> QED
    BY <2>1, <2>2 DEF InHand
<1>7. CASE ClaimDueBatch
  <2>1. PICK claimed \in SUBSET Due(Popped.when) :
             /\ rows' = [r \in DOMAIN rows |->
                            IF r \in claimed THEN [rows[r] EXCEPT !.status = "claimed"]
                                             ELSE rows[r]]
             /\ claimed_ids' = claimed_ids \cup claimed
             /\ batch' = {r \in claimed : Own(r)}
             /\ pc' \in {"gate", "loop"} /\ (pc' = "loop" => batch' = {})
    BY <1>7, ClaimIs
  <2>2. pc = "loop" /\ runs' = runs /\ ~StartRun
    BY <1>7, ClaimIs DEF StartRun
  <2>3. run > 0 /\ Common /\ claimed \subseteq DOMAIN rows /\ DOMAIN rows' = DOMAIN rows
    BY <1>0, <1>4, <2>1, <2>2 DEF InHand, Due
  <2>4. \A r \in batch' : rows'[r].status = "claimed"
    <3> SUFFICES ASSUME NEW r \in batch'
                 PROVE  rows'[r].status = "claimed"
      OBVIOUS
    <3>1. r \in claimed /\ r \in DOMAIN rows /\ rows[r] \in RowRecords
      BY <1>0, <2>1, <2>3, RowIs
    <3>2. rows'[r] = [rows[r] EXCEPT !.status = "claimed"]
      BY <2>1, <3>1
    <3> QED
      BY <3>1, <3>2 DEF RowRecords
  <2>5. batch' \subseteq OwnRows' \cap claimed_ids'
    BY <2>1, <2>2, <2>3 DEF OwnRows, Own, run, CaseOf
  <2> QED
    BY <2>1, <2>3, <2>4, <2>5 DEF InHand
<1>8. CASE Gate
  <2>1. PICK r : r = item'
    OBVIOUS
  <2> DEFINE k == CaseOf(r)
             d == Evaluate(ActionOf(r), Context(k))
  <2>2. /\ pc = "gate" /\ r \in batch /\ r \in DOMAIN rows /\ batch' = batch \ {r}
        /\ Decided(r, d)
        /\ rows' = [rows EXCEPT ![r].verdict = d.verdict, ![r].rule_id = d.rule_id]
        /\ pc' = CASE d.rule_id \in {"already_paid", "max_case_age"} -> "stop"
                   [] d.verdict = "allow" -> "execute"
                   [] OTHER -> IF batch = {r} THEN "loop" ELSE "gate"
    BY <1>0, <1>8, <2>1, GateIs
  <2>3. UNCHANGED <<runs, now, heap, claimed_ids, cases, consents>> /\ ~StartRun
    BY <1>8 DEF Gate, StartRun
  <2> HIDE DEF d
  <2>4. /\ run > 0 /\ Common /\ r \in OwnRows /\ rows[r].status \in {"claimed", "cancelled"}
        /\ rows[r] \in RowRecords
    BY <1>0, <1>4, <2>2, <2>3, RowIs DEF InHand
  <2>5. rows'[r].rule_id = d.rule_id /\ rows'[r].status = rows[r].status
    <3>1. rows'[r] = [rows[r] EXCEPT !.verdict = d.verdict, !.rule_id = d.rule_id]
      BY <2>2
    <3> QED
      BY <2>4, <3>1 DEF RowRecords
  <2>6. \A s \in batch' : rows'[s].status \in {"claimed", "cancelled"}
    BY <1>0, <2>2 DEF InHand
  <2>7. CASE pc' = "stop"
    <3>1. d.rule_id \in {"already_paid", "max_case_age"}
      BY <2>2, <2>7
    <3>2. \/ d.rule_id = "already_paid" /\ cases[k].state \in Terminal
          \/ d.rule_id = "max_case_age" /\ TooOld(Context(k))
      <4>1. NULL \notin {"already_paid", "max_case_age"}
        BY NullIsNoRule, RulesAre
      <4> QED
        BY <2>2, <3>1, <4>1, StatesAre DEF Decided
    <3>3. TooOld(Context(k))' <=> TooOld(Context(k))
      <4>1. k \in DOMAIN cases /\ PlaybookOf(k)' = PlaybookOf(k)
        BY <1>0, <2>2, <2>3, RowIs, SameRun
      <4> HIDE DEF k
      <4> QED
        BY <2>3, <4>1, TooOldIs
    <3>4. \/ rows'[item'].rule_id = "already_paid" /\ cases'[CaseOf(item)'].state \in Terminal
          \/ rows'[item'].rule_id = "max_case_age" /\ TooOld(Context(CaseOf(item)))'
      <4>1. CaseOf(item)' = k /\ (TooOld(Context(CaseOf(item)))' <=> TooOld(Context(k))')
        BY <2>1 DEF CaseOf, Context, RefreshCaseState, ConsentEvents, PlaybookOf, Source, Customer
      <4> HIDE DEF k
      <4> QED
        BY <2>1, <2>3, <2>5, <3>2, <3>3, <4>1
    <3> HIDE DEF k
    <3> QED
      BY <2>1, <2>2, <2>3, <2>4, <2>6, <2>7, <3>4 DEF InHand
  <2>8. CASE pc' = "execute"
    <3>1. d.verdict = "allow"
      BY <2>2, <2>8
    <3>2. cases[k].state = "executing"
      BY <2>2, <3>1 DEF Decided
    <3>3. rows[r].status = "claimed"
      <4>1. "executing" \notin Terminal
        BY StatesAre DEF Eligible
      <4> QED
        BY <1>0, <2>2, <2>4, <3>2, <4>1 DEF RowsFiled
    <3>4. CaseOf(item)' = k
      BY <2>1 DEF CaseOf
    <3> HIDE DEF k
    <3> QED
      BY <2>1, <2>2, <2>3, <2>4, <2>5, <2>6, <2>8, <3>2, <3>3, <3>4 DEF InHand
  <2>9. CASE pc' \notin {"stop", "execute"}
    <3>1. pc' \in {"loop", "gate"} /\ (pc' = "loop" => batch' = {})
      BY <2>2, <2>9
    <3> HIDE DEF k
    <3> QED
      BY <2>2, <2>3, <2>4, <2>6, <3>1 DEF InHand
  <2> QED
    BY <2>7, <2>8, <2>9
<1>9. Onward \in {"loop", "gate"} /\ (Onward = "loop" => batch = {})
  BY DEF Onward
<1>10. CASE Stop \/ ExecuteFails \/ Attribute
  <2>1. /\ pc \in {"stop", "execute", "attribute"} /\ pc' = Onward /\ ~StartRun
        /\ UNCHANGED <<claimed_ids, batch>>
    BY <1>10 DEF Stop, ExecuteFails, Attribute, StartRun
  <2>2. Common /\ run > 0
    BY <1>0, <1>4, <2>1 DEF InHand
  <2>3. \A r \in batch : rows'[r].status \in {"claimed", "cancelled"}
    <3> SUFFICES ASSUME NEW r \in batch
                 PROVE  rows'[r].status \in {"claimed", "cancelled"}
      OBVIOUS
    <3>1. rows[r].status \in {"claimed", "cancelled"} /\ r # item /\ r \in DOMAIN rows
      BY <1>0, <2>1 DEF InHand, OwnRows
    <3>2. RowStep(r)
      BY <1>0, <3>1, RowSteps
    <3> QED
      BY <2>1, <3>1, <3>2 DEF RowStep
  <2> QED
    BY <1>9, <2>1, <2>2, <2>3 DEF InHand
<1>11. CASE Execute
  <2>1. /\ pc = "execute" /\ pc' \in {"attribute", Onward} /\ ~StartRun
        /\ UNCHANGED <<runs, now, claimed_ids, batch, item>>
        /\ rows' = [rows EXCEPT ![item].status = "done", ![item].executed_at = now]
    BY <1>11 DEF Execute, StartRun
  <2>2. Common /\ run > 0 /\ cases[CaseOf(item)].state = "executing"
    BY <1>0, <1>4, <2>1 DEF InHand
  <2>3. /\ item \in DOMAIN rows /\ item \in OwnRows /\ item \notin batch
        /\ CaseOf(item) \in DOMAIN cases /\ rows[item] \in RowRecords
    BY <1>0, <2>1, ItemIs
  <2>4. \A r \in batch : rows'[r].status \in {"claimed", "cancelled"}
    BY <1>0, <2>1, <2>3 DEF InHand
  <2>5. rows'[item].status = "done" /\ rows'[item].executed_at = now
    <3>1. rows'[item] = [rows[item] EXCEPT !.status = "done", !.executed_at = now]
      BY <2>1, <2>3
    <3> QED
      BY <2>3, <3>1 DEF RowRecords
  <2>6. cases'[CaseOf(item)].state = "executing"
    <3>1. CaseStep(CaseOf(item))
      BY <1>0, <2>3, CaseSteps
    <3> QED
      BY <2>1, <2>2, <3>1 DEF CaseStep
  <2>7. CaseOf(item)' = CaseOf(item)
    BY <2>1 DEF CaseOf
  <2> QED
    BY <1>9, <2>1, <2>2, <2>3, <2>4, <2>5, <2>6, <2>7 DEF InHand
<1>12. CASE Complete
  <2>1. pc = "loop" /\ heap = {} /\ pc' = "report" /\ ~StartRun
        /\ UNCHANGED <<heap, claimed_ids, batch>>
    BY <1>12 DEF Complete, StartRun
  <2>2. Common /\ run > 0 /\ batch = {}
    BY <1>0, <1>4, <2>1 DEF InHand
  <2> QED
    BY <2>1, <2>2 DEF InHand
<1> QED
  BY <1>1, <1>2, <1>3, <1>5, <1>6, <1>7, <1>8, <1>10, <1>11, <1>12 DEF Next, Progress

LEMMA AgesHolds ==
    ASSUME IInv, [Next]_vars
    PROVE  Ages'
<1>0. /\ CasesFiled /\ RowsFiled /\ Budgeted /\ Scheduled /\ InHand /\ Ages /\ Simulated /\ Paid
      /\ now \in Nat
  BY DEF IInv, Scheduled
<1>1. CASE StartRun
  BY <1>0, <1>1, RunBegins DEF Ages
<1>2. CASE WriteReport \/ Crash
  BY <1>2 DEF WriteReport, Crash, Ages
<1>3. CASE ~StartRun /\ ~WriteReport /\ ~Crash
  <2>0. SUFFICES ASSUME pc' # "over"
                 PROVE  Ages'
    BY DEF Ages
  <2>1. /\ runs' = runs /\ run' = run /\ pc # "over" /\ now' >= now /\ now' \in Nat
        /\ ~PersistPlan => OwnRows' = OwnRows
        /\ ~PopCase => OwnCases' = OwnCases
    <3>1. pc = "over" => UNCHANGED vars
      BY <1>0, <1>3, ClockIs
    <3>2. UNCHANGED vars => pc' = pc
      BY DEF vars, process
    <3> QED
      BY <1>0, <1>3, <2>0, <3>1, <3>2, ClockIs, OwnStays
  <2>2. ASSUME NEW k \in OwnCases', cases'[k].state = "expired"
        PROVE  HasPlaybook(k)' /\ TooOld(Context(k))'
    <3>1. k \in OwnCases /\ k \in DOMAIN cases
      <4>1. CASE k \in DOMAIN cases
        BY <2>1, <2>2, <4>1 DEF OwnCases
      <4>2. CASE k \notin DOMAIN cases
        <5>1. PopCase
          BY <1>0, <2>2, <4>2, TablesGrow DEF OwnCases
        <5> DEFINE l == CaseOf(Popped.item)
                   new == [state |-> "detected", cost_spent |-> 0, cost_ceiling |-> 0,
                           opened_at |-> Popped.when, source_payment |-> sim.next_id + 1,
                           playbook_id |-> NULL, outcome |-> NULL]
        <5>2. cases' = cases \/ cases' = [j \in DOMAIN cases \cup {l} |-> IF j = l THEN new ELSE cases[j]]
          BY <1>0, <5>1, CaseArrives
        <5>3. new.state = "detected"
          OBVIOUS
        <5> HIDE DEF new, l
        <5>4. cases'[k].state = "detected"
          BY <2>2, <4>2, <5>2, <5>3 DEF OwnCases
        <5> QED
          BY <2>2, <5>4
      <4> QED
        BY <4>1, <4>2
    <3>2. Keyed(k) /\ cases[k] \in CaseRecords /\ CaseStep(k)
      BY <1>0, <3>1, FiledAre, CaseSteps
    <3>3. /\ (HasPlaybook(k)' <=> HasPlaybook(k)) /\ PlaybookOf(k)' = PlaybookOf(k)
          /\ cases'[k].opened_at = cases[k].opened_at /\ cases[k].opened_at \in Nat
      BY <2>1, <3>2, SameRun DEF CaseStep, CaseRecords
    <3>4. HasPlaybook(k) => PlaybookOf(k).max_case_age \in Nat
      BY <1>0, <3>2, CaseIs DEF WellFormed
    <3>5. HasPlaybook(k) /\ TooOld(Context(k))
      <4>1. CASE cases[k].state = "expired"
        BY <1>0, <2>1, <3>1, <4>1 DEF Ages
      <4>2. CASE cases[k].state # "expired"
        <5>1. pc = "stop" /\ k = CaseOf(item) /\ rows[item].rule_id = "max_case_age"
          BY <2>2, <3>2, <4>2 DEF CaseStep
        <5>2. HasPlaybook(k)
          BY <1>0, <5>1, ItemIs, RowIs
        <5>3. TooOld(Context(k))
          BY <1>0, <5>1 DEF InHand
        <5> QED
          BY <5>2, <5>3
      <4> QED
        BY <4>1, <4>2
    <3> QED
      BY <1>0, <2>1, <3>3, <3>4, <3>5, TooOldIs
  <2>3. ASSUME NEW r \in OwnRows', rows'[r].status = "done"
        PROVE  rows'[r].executed_at <= now'
    <3>1. r \in OwnRows /\ r \in DOMAIN rows
      <4>1. CASE r \in DOMAIN rows
        BY <2>1, <2>3, <4>1 DEF OwnRows, Own, CaseOf
      <4>2. CASE r \notin DOMAIN rows
        <5>1. PersistPlan
          BY <1>0, <2>3, <4>2, TablesGrow DEF OwnRows
        <5>2. PICK k : k = CaseOf(item)
          OBVIOUS
        <5> DEFINE included == IncludedSteps(PlaybookOf(k), Source(k).amount)
                   dates == DueDates(PlaybookOf(k), now)
        <5>3. /\ DOMAIN rows' = DOMAIN rows \cup {<<k, i>> : i \in included}
              /\ \A i \in included :
                    rows'[<<k, i>>] = [status |-> "pending", due_at |-> dates[i],
                                       executed_at |-> NULL, verdict |-> NULL, rule_id |-> NULL]
          BY <1>0, <5>1, <5>2, PlanIs
        <5> HIDE DEF included, dates
        <5>4. PICK i \in included : r = <<k, i>>
          BY <2>3, <4>2, <5>3 DEF OwnRows
        <5>5. rows'[r] = [status |-> "pending", due_at |-> dates[i], executed_at |-> NULL,
                          verdict |-> NULL, rule_id |-> NULL]
          BY <5>3, <5>4
        <5> QED
          BY <2>3, <5>5
      <4> QED
        BY <4>1, <4>2
    <3>2. RowStep(r) /\ rows[r] \in RowRecords
      BY <1>0, <3>1, RowSteps, RowIs
    <3>3. CASE rows[r].status = "done"
      <4>1. rows'[r] = rows[r] /\ rows[r].executed_at <= now
        BY <1>0, <2>1, <3>1, <3>2, <3>3, DoneStays DEF Ages
      <4>2. rows[r].executed_at \in Nat
        BY <1>0, <3>1, <3>2, <3>3 DEF RowsFiled, RowRecords
      <4> QED
        BY <1>0, <2>1, <4>1, <4>2
    <3>4. CASE rows[r].status # "done"
      <4>1. rows'[r].executed_at = now
        <5>1. pc = "gate" => rows[r].status = rows'[r].status \/ rows'[r] = rows[r]
          BY <3>2 DEF RowStep
        <5> QED
          BY <2>3, <3>2, <3>4, <5>1 DEF RowStep
      <4> QED
        BY <1>0, <2>1, <4>1
    <3> QED
      BY <3>3, <3>4
  <2> QED
    BY <2>2, <2>3 DEF Ages
<1> QED
  BY <1>1, <1>2, <1>3

LEMMA HandledHolds ==
    ASSUME IInv, [Next]_vars
    PROVE  Handled'
<1>0. /\ CasesFiled /\ RowsFiled /\ Budgeted /\ Scheduled /\ InHand /\ Ages /\ Simulated /\ Paid
      /\ now \in Nat
  BY DEF IInv, Scheduled
<1>1. CASE StartRun
  BY <1>0, <1>1, RunBegins DEF Handled
<1>2. CASE WriteReport \/ Crash
  BY <1>2 DEF WriteReport, Crash, Handled
<1>3. CASE UNCHANGED vars
  <2>1. UNCHANGED <<pc, now, heap, claimed_ids, batch, item, runs, cases, rows, crowded>>
    BY <1>3 DEF vars, process, database
  <2>2. OwnRows' = OwnRows
    BY <2>1 DEF OwnRows, Own, run, CaseOf
  <2> QED
    BY <2>1, <2>2 DEF Handled, IInv
<1>4. CASE Progress
  <2>0. SUFFICES ASSUME pc' # "over", ~crowded'
                 PROVE  Handled'
    BY DEF Handled
  <2>1. /\ pc # "over" /\ ~StartRun /\ runs' = runs /\ run' = run
        /\ ~PersistPlan => OwnRows' = OwnRows
    <3>1. pc # "over"
      BY <1>4 DEF Progress, PopCase, PersistHoldout, Abstain, PersistPlan, SkipClaimed,
                  ClaimDueBatch, Gate, Stop, Execute, ExecuteFails, Attribute, Complete,
                  WriteReport
    <3>2. ~StartRun
      BY <3>1 DEF StartRun
    <3> QED
      BY <3>1, <3>2, OwnStays
  <2>2. ~crowded
    <3>1. CASE ClaimDueBatch
      BY <2>0, <3>1, ClaimIs
    <3>2. CASE ~ClaimDueBatch
      BY <1>4, <2>0, <3>2
         DEF Progress, PopCase, PersistHoldout, Abstain, PersistPlan, SkipClaimed,
             Gate, Stop, Execute, ExecuteFails, Attribute, Complete, WriteReport
    <3> QED
      BY <3>1, <3>2
  <2>3. \A r \in OwnRows :
            /\ rows[r].status = "pending" =>
                /\ r \notin claimed_ids
                /\ \E e \in heap : e.kind = "action" /\ e.item = r /\ e.when = rows[r].due_at
            /\ rows[r].status = "claimed" =>
                \/ r \in batch
                \/ pc \in {"stop", "execute"} /\ item = r
                \/ rows[r].rule_id = "awaiting_approval"
    BY <2>1, <2>2 DEF IInv, Handled
  <2>4. ASSUME NEW r \in OwnRows', r \notin DOMAIN rows
        PROVE  /\ rows'[r].status = "pending" /\ r \notin claimed_ids'
               /\ \E e \in heap' : e.kind = "action" /\ e.item = r /\ e.when = rows'[r].due_at
    <3>1. PersistPlan
      BY <1>0, <2>4, TablesGrow DEF OwnRows
    <3>2. PICK k : k = CaseOf(item)
      OBVIOUS
    <3> DEFINE included == IncludedSteps(PlaybookOf(k), Source(k).amount)
               dates == DueDates(PlaybookOf(k), now)
    <3>3. /\ DOMAIN rows' = DOMAIN rows \cup {<<k, i>> : i \in included}
          /\ \A i \in included :
                rows'[<<k, i>>] = [status |-> "pending", due_at |-> dates[i],
                                   executed_at |-> NULL, verdict |-> NULL, rule_id |-> NULL]
          /\ \A i \in included : \E e \in heap' :
                e.kind = "action" /\ e.item = <<k, i>> /\ e.when = dates[i]
          /\ claimed_ids' = claimed_ids
      BY <1>0, <3>1, <3>2, PlanIs
    <3> HIDE DEF included, dates
    <3>4. PICK i \in included : r = <<k, i>>
      BY <2>4, <3>3 DEF OwnRows
    <3>5. rows'[r].status = "pending" /\ rows'[r].due_at = dates[i]
      <4>1. rows'[r] = [status |-> "pending", due_at |-> dates[i], executed_at |-> NULL,
                        verdict |-> NULL, rule_id |-> NULL]
        BY <3>3, <3>4
      <4> QED
        BY <4>1
    <3>6. r \notin claimed_ids'
      BY <1>0, <2>4, <3>3 DEF InHand
    <3> QED
      BY <3>3, <3>4, <3>5, <3>6
  <2>5. ASSUME NEW r \in OwnRows, rows'[r].status = "pending"
        PROVE  /\ r \notin claimed_ids'
               /\ \E e \in heap' : e.kind = "action" /\ e.item = r /\ e.when = rows'[r].due_at
    <3>1. RowStep(r) /\ rows[r] \in RowRecords /\ r \in DOMAIN rows /\ Own(r)
      BY <1>0, RowSteps, RowIs DEF OwnRows
    <3>2. rows[r].status = "pending" /\ rows'[r].due_at = rows[r].due_at
      BY <2>5, <3>1 DEF RowStep
    <3>3. r \notin claimed_ids
      BY <2>3, <3>2
    <3>4. PICK e \in heap : e.kind = "action" /\ e.item = r /\ e.when = rows[r].due_at
      BY <2>3, <3>2
    <3>5. CASE ClaimDueBatch
      <4>1. PICK claimed \in SUBSET Due(Popped.when) :
               /\ rows' = [s \in DOMAIN rows |->
                              IF s \in claimed THEN [rows[s] EXCEPT !.status = "claimed"]
                                               ELSE rows[s]]
               /\ claimed_ids' = claimed_ids \cup claimed
               /\ \A s \in Due(Popped.when) : Own(s) => s \in claimed
        BY <2>0, <3>5, ClaimIs
      <4>2. r \notin claimed
        <5>1. ASSUME r \in claimed
              PROVE  FALSE
          <6>1. rows'[r] = [rows[r] EXCEPT !.status = "claimed"]
            BY <3>1, <4>1, <5>1
          <6> QED
            BY <2>5, <3>1, <6>1 DEF RowRecords
        <5> QED
          BY <5>1
      <4>3. e # Popped
        <5>1. ASSUME e = Popped
              PROVE  FALSE
          <6>1. r \in Due(Popped.when)
            <7>1. rows[r].due_at <= rows[r].due_at
              BY <3>1 DEF RowRecords
            <7> QED
              BY <3>1, <3>2, <3>4, <5>1, <7>1 DEF Due
          <6> QED
            BY <3>1, <4>1, <4>2, <6>1
        <5> QED
          BY <5>1
      <4>4. heap' = heap \ {Popped}
        BY <3>5, ClaimIs
      <4> QED
        BY <3>2, <3>3, <3>4, <4>1, <4>2, <4>3, <4>4
    <3>6. CASE PopCase \/ SkipClaimed
      <4>1. heap' = heap \ {Popped} /\ claimed_ids' = claimed_ids
            /\ (Popped.kind = "case" \/ Popped.item \in claimed_ids)
        BY <3>6 DEF PopCase, SkipClaimed
      <4>2. e # Popped
        BY <3>3, <3>4, <4>1
      <4> QED
        BY <3>2, <3>3, <3>4, <4>1, <4>2
    <3>7. CASE ~ClaimDueBatch /\ ~PopCase /\ ~SkipClaimed
      <4>1. claimed_ids' = claimed_ids /\ heap \subseteq heap'
        BY <1>4, <2>0, <3>7
           DEF Progress, PersistHoldout, Abstain, PersistPlan, Gate, Stop, Execute,
               ExecuteFails, Attribute, Complete, WriteReport
      <4> QED
        BY <3>2, <3>3, <3>4, <4>1
    <3> QED
      BY <3>5, <3>6, <3>7
  <2>6. ASSUME NEW r \in OwnRows, rows'[r].status = "claimed"
        PROVE  \/ r \in batch'
               \/ pc' \in {"stop", "execute"} /\ item' = r
               \/ rows'[r].rule_id = "awaiting_approval"
    <3>1. RowStep(r) /\ rows[r] \in RowRecords /\ r \in DOMAIN rows /\ Own(r)
      BY <1>0, RowSteps, RowIs DEF OwnRows
    <3>2. CASE ClaimDueBatch
      <4>1. PICK claimed \in SUBSET Due(Popped.when) :
               /\ rows' = [s \in DOMAIN rows |->
                              IF s \in claimed THEN [rows[s] EXCEPT !.status = "claimed"]
                                               ELSE rows[s]]
               /\ batch' = {s \in claimed : Own(s)}
        BY <3>2, ClaimIs
      <4>2. CASE r \in claimed
        BY <3>1, <4>1, <4>2
      <4>3. CASE r \notin claimed
        <5>1. rows'[r] = rows[r]
          BY <3>1, <4>1, <4>3
        <5>2. pc = "loop" /\ batch = {}
          BY <1>0, <3>2, ClaimIs DEF InHand
        <5> QED
          BY <2>3, <2>6, <5>1, <5>2
      <4> QED
        BY <4>2, <4>3
    <3>3. CASE Gate
      <4>1. PICK s : s = item'
        OBVIOUS
      <4> DEFINE d == Evaluate(ActionOf(s), Context(CaseOf(s)))
      <4>2. /\ pc = "gate" /\ s \in batch /\ s \in DOMAIN rows /\ batch' = batch \ {s}
            /\ Decided(s, d)
            /\ rows' = [rows EXCEPT ![s].verdict = d.verdict, ![s].rule_id = d.rule_id]
            /\ pc' = CASE d.rule_id \in {"already_paid", "max_case_age"} -> "stop"
                       [] d.verdict = "allow" -> "execute"
                       [] OTHER -> IF batch = {s} THEN "loop" ELSE "gate"
        BY <1>0, <3>3, <4>1, GateIs
      <4> HIDE DEF d
      <4>3. CASE r = s
        <5>1. rows'[r] = [rows[r] EXCEPT !.verdict = d.verdict, !.rule_id = d.rule_id]
          BY <4>2, <4>3
        <5>2. rows'[r].rule_id = d.rule_id
          BY <3>1, <5>1 DEF RowRecords
        <5>3. pc' \in {"stop", "execute"} \/ d.rule_id = "awaiting_approval"
          BY <4>2 DEF Decided
        <5> QED
          BY <4>1, <4>3, <5>2, <5>3
      <4>4. CASE r # s
        <5>1. rows'[r] = rows[r]
          BY <3>1, <4>2, <4>4
        <5> QED
          BY <2>3, <2>6, <4>2, <4>4, <5>1
      <4> QED
        BY <4>3, <4>4
    <3>4. CASE Stop \/ Execute \/ ExecuteFails
      <4>1. /\ pc \in {"stop", "execute"} /\ batch' = batch
        BY <3>4 DEF Stop, Execute, ExecuteFails
      <4>2. item \in DOMAIN rows /\ rows[item] \in RowRecords
        BY <1>0, <4>1, ItemIs
      <4>3. r # item
        <5>1. ASSUME r = item
              PROVE  rows'[r].status # "claimed"
          <6>1. CASE Stop
            <7>1. rows' = [s \in DOMAIN rows |->
                              IF CaseOf(s) = CaseOf(item) /\ rows[s].status \in Live
                              THEN [rows[s] EXCEPT !.status = "cancelled"] ELSE rows[s]]
              BY <1>0, <6>1, StopIs
            <7>2. rows'[r] = IF rows[r].status \in Live
                             THEN [rows[r] EXCEPT !.status = "cancelled"] ELSE rows[r]
              BY <3>1, <5>1, <7>1
            <7> QED
              BY <3>1, <7>2 DEF RowRecords, Live
          <6>2. CASE Execute
            <7>1. rows'[r] = [rows[r] EXCEPT !.status = "done", !.executed_at = now]
              BY <3>1, <5>1, <6>2 DEF Execute
            <7> QED
              BY <3>1, <7>1 DEF RowRecords
          <6>3. CASE ExecuteFails
            <7>1. rows'[r] = [rows[r] EXCEPT !.status = "failed"]
              BY <3>1, <5>1, <6>3 DEF ExecuteFails
            <7> QED
              BY <3>1, <7>1 DEF RowRecords
          <6> QED
            BY <3>4, <6>1, <6>2, <6>3
        <5> QED
          BY <2>6, <5>1
      <4>4. rows'[r] = rows[r]
        BY <2>6, <3>1, <4>1, <4>3 DEF RowStep
      <4> QED
        BY <2>3, <2>6, <4>1, <4>3, <4>4
    <3>5. CASE ~ClaimDueBatch /\ ~Gate /\ ~Stop /\ ~Execute /\ ~ExecuteFails
      <4>1. pc \notin {"stop", "execute"} /\ batch' = batch
        BY <1>4, <2>0, <3>5
           DEF Progress, PopCase, PersistHoldout, Abstain, PersistPlan, SkipClaimed, Attribute,
               Complete, WriteReport
      <4>2. rows'[r] = rows[r]
        <5>1. CASE PersistPlan
          BY <1>0, <3>1, <5>1, PlanIs
        <5>2. CASE ~PersistPlan
          BY <1>4, <3>5, <5>2
             DEF Progress, PopCase, PersistHoldout, Abstain, SkipClaimed, Attribute,
                 Complete, WriteReport, database
        <5> QED
          BY <5>1, <5>2
      <4> QED
        BY <2>3, <2>6, <4>1, <4>2
    <3> QED
      BY <3>2, <3>3, <3>4, <3>5
  <2>7. ASSUME NEW r \in OwnRows', r \in DOMAIN rows
        PROVE  r \in OwnRows
    BY <2>1, <2>7 DEF OwnRows, Own, CaseOf
  <2>8. \A r \in OwnRows' :
            /\ rows'[r].status = "pending" =>
                /\ r \notin claimed_ids'
                /\ \E e \in heap' : e.kind = "action" /\ e.item = r /\ e.when = rows'[r].due_at
            /\ rows'[r].status = "claimed" =>
                \/ r \in batch'
                \/ pc' \in {"stop", "execute"} /\ item' = r
                \/ rows'[r].rule_id = "awaiting_approval"
    <3> SUFFICES ASSUME NEW r \in OwnRows'
                 PROVE  /\ rows'[r].status = "pending" =>
                            /\ r \notin claimed_ids'
                            /\ \E e \in heap' : e.kind = "action" /\ e.item = r
                                                /\ e.when = rows'[r].due_at
                        /\ rows'[r].status = "claimed" =>
                            \/ r \in batch'
                            \/ pc' \in {"stop", "execute"} /\ item' = r
                            \/ rows'[r].rule_id = "awaiting_approval"
      OBVIOUS
    <3>1. CASE r \in DOMAIN rows
      BY <2>5, <2>6, <2>7, <3>1
    <3>2. CASE r \notin DOMAIN rows
      BY <2>4, <3>2
    <3> QED
      BY <3>1, <3>2
  <2> QED
    BY <2>8 DEF Handled
<1> QED
  BY <1>1, <1>2, <1>3, <1>4 DEF Next

-----------------------------------------------------------------------------
(* The simulator.                                                          *)

LEMMA ErrorsAre ==
    /\ {"", "rolled"} \subseteq Errors
    /\ \A s \in DOMAIN Cohort : \A i \in DOMAIN Cohort[s] : Cohort[s][i].decline \in Errors
<1> DEFINE Of(s) == {Cohort[s][i].decline : i \in DOMAIN Cohort[s]}
           all == {Of(s) : s \in DOMAIN Cohort}
<1>1. ASSUME NEW s \in DOMAIN Cohort, NEW i \in DOMAIN Cohort[s]
      PROVE  Cohort[s][i].decline \in UNION all
  <2>1. Cohort[s][i].decline \in Of(s) /\ Of(s) \in all
    OBVIOUS
  <2> HIDE DEF Of, all
  <2> QED
    BY <2>1
<1>2. Errors = (UNION all) \cup {"", "rolled"}
  BY DEF Errors
<1> HIDE DEF all
<1>3. UNION all \subseteq Errors /\ {"", "rolled"} \subseteq Errors
  BY <1>2, Zenon
<1> QED
  BY <1>1, <1>3, Zenon

\* A payment that has failed is seeded under the next number.
LEMMA ArrivalIs ==
    ASSUME CasesFiled, Scheduled, InHand, Simulated, PopCase
    PROVE  LET k == CaseOf(Popped.item)
               m == sim.next_id + 1
           IN
           /\ sim' = [seed |-> sim.seed, next_id |-> m + 1, payments |-> sim'.payments]
           /\ DOMAIN sim'.payments = DOMAIN sim.payments \cup {m}
           /\ \A n \in DOMAIN sim.payments : sim'.payments[n] = sim.payments[n]
           /\ m \notin DOMAIN sim.payments
           /\ sim'.payments[m] \in Payments
           /\ sim'.payments[m].order = m + 1 /\ sim'.payments[m].customer = Customer(k)
           /\ sim'.payments[m].status = "failed" /\ sim'.payments[m].amount = Source(k).amount
<1>1. PICK k : k = CaseOf(Popped.item)
  OBVIOUS
<1>2. Keyed(k) /\ heap # {}
  BY <1>1, CaseArrives DEF PopCase
<1> DEFINE m == sim.next_id + 1
           c == Source(k)
           at == Popped.when
           new == [order |-> m + 1, customer |-> Customer(k), amount |-> c.amount,
                   status |-> "failed", error_reason |-> c.decline, created_at |-> at]
           all == [n \in DOMAIN sim.payments \cup {m} |-> IF n = m THEN new ELSE sim.payments[n]]
<1>3. sim' = [sim EXCEPT !.next_id = m + 1, !.payments = all]
  BY <1>1 DEF PopCase, SeedFailedPayment, Recorded
<1>4. new \in Payments
  <2>1. /\ CohortCase(c) /\ Customer(k) \in (DOMAIN Cohort) \X Nat
        /\ Source(k) = Cohort[Customer(k)[1]][Customer(k)[2]]
        /\ runs[k[1]] \in DOMAIN Cohort
    BY <1>2, CaseIs
  <2>2. c.decline \in Errors
    <3>1. k[2] \in DOMAIN Cohort[runs[k[1]]] /\ c = Cohort[runs[k[1]]][k[2]]
      BY <1>2 DEF Keyed, Source
    <3> QED
      BY <2>1, <3>1, ErrorsAre
  <2>3. at \in Nat /\ sim.next_id \in Nat
    BY <1>2, FirstIsPopped DEF Simulated
  <2> HIDE DEF c, at, Errors
  <2>4. c.amount \in Nat
    BY <2>1 DEF CohortCase
  <2> QED
    BY <2>1, <2>2, <2>3, <2>4 DEF Payments
<1>5. /\ new.order = m + 1 /\ new.customer = Customer(k) /\ new.status = "failed"
      /\ new.amount = Source(k).amount
  OBVIOUS
<1>6. m \notin DOMAIN sim.payments
  BY DEF Simulated
<1> HIDE DEF new
<1>7. /\ DOMAIN all = DOMAIN sim.payments \cup {m} /\ all[m] = new
      /\ \A n \in DOMAIN sim.payments : all[n] = sim.payments[n]
  BY <1>6
<1> HIDE DEF all
<1>8. sim' = [seed |-> sim.seed, next_id |-> m + 1, payments |-> all]
  BY <1>3 DEF Simulated
<1> QED
  BY <1>1, <1>4, <1>5, <1>6, <1>7, <1>8

\* What an execution does at the gateway: nothing, a link, or a payment of the same order.
LEMMA ExecutionIs ==
    ASSUME CasesFiled, RowsFiled, InHand, Simulated, now \in Nat, Execute
    PROVE  LET k == CaseOf(item)
               n == cases[k].source_payment
               m == sim.next_id + 1
           IN
           /\ sim' = [seed |-> sim.seed, next_id |-> sim'.next_id, payments |-> sim'.payments]
           /\ sim'.next_id \in Nat /\ sim'.next_id >= sim.next_id
           /\ \/ sim'.payments = sim.payments /\ pc' # "attribute"
              \/ /\ sim'.next_id = m
                 /\ DOMAIN sim'.payments = DOMAIN sim.payments \cup {m}
                 /\ \A i \in DOMAIN sim.payments : sim'.payments[i] = sim.payments[i]
                 /\ m \notin DOMAIN sim.payments
                 /\ sim'.payments[m] \in Payments
                 /\ sim'.payments[m].order = n + 1 /\ sim'.payments[m].customer = Customer(k)
                 /\ sim'.payments[m].created_at = now
                 /\ sim'.payments[m].amount = sim.payments[n].amount
                 /\ sim.payments[n].status = "failed"
                 /\ sim.payments[n].error_reason \in Retryable
                 /\ sim'.payments[m].status = "failed" => sim'.payments[m].error_reason = "rolled"
                 /\ pc' = "attribute" <=> sim'.payments[m].status = "captured"
<1>1. PICK k : k = CaseOf(item)
  OBVIOUS
<1> DEFINE n == cases[k].source_payment
           m == sim.next_id + 1
           old == sim.payments[n]
           channel == ActionOf(item).channel
<1>2. /\ k \in OwnCases /\ pc = "execute"
  BY <1>1, ItemIs DEF Execute
<1>3. /\ n \in DOMAIN sim.payments /\ old.order = n + 1 /\ old.customer = Customer(k)
      /\ old \in Payments /\ n \in Nat /\ sim.next_id \in Nat
      /\ sim = [seed |-> sim.seed, next_id |-> sim.next_id, payments |-> sim.payments]
  BY <1>2 DEF Simulated
<1>4. Onward # "attribute"
  BY DEF Onward
<1>5. CASE channel = "payment_retry"
  <2> DEFINE captured == AttemptOutcome(old.customer, now)
             new == [old EXCEPT !.status = IF captured THEN "captured" ELSE "failed",
                                !.error_reason = IF captured THEN "" ELSE "rolled",
                                !.created_at = now]
             all == [i \in DOMAIN sim.payments \cup {m} |-> IF i = m THEN new ELSE sim.payments[i]]
  <2>1. sim' = [sim EXCEPT !.next_id = m, !.payments = all]
    BY <1>1, <1>5 DEF Execute, RetryPayment, Recorded
  <2>2. old.status = "failed" /\ old.error_reason \in Retryable
    BY <1>1, <1>5 DEF Execute, CanRetry
  <2>3. {"", "rolled"} \subseteq Errors
    BY ErrorsAre
  <2>4. PICK status, reason : /\ status \in {"captured", "failed"} /\ reason \in {"", "rolled"}
                              /\ status = "failed" => reason = "rolled"
                              /\ new = [old EXCEPT !.status = status, !.error_reason = reason,
                                                   !.created_at = now]
    <3>1. CASE captured
      <4>1. new = [old EXCEPT !.status = "captured", !.error_reason = "", !.created_at = now]
        BY <3>1
      <4> HIDE DEF new
      <4> QED
        BY <4>1
    <3>2. CASE ~captured
      <4>1. new = [old EXCEPT !.status = "failed", !.error_reason = "rolled", !.created_at = now]
        BY <3>2
      <4> HIDE DEF new
      <4> QED
        BY <4>1
    <3> QED
      BY <3>1, <3>2
  <2> HIDE DEF new, Errors
  <2>5. /\ new \in Payments /\ new.order = n + 1 /\ new.customer = Customer(k)
        /\ new.created_at = now /\ new.status = status /\ new.error_reason = reason
        /\ new.amount = old.amount
    <3> HIDE DEF old
    <3> QED
      BY <1>3, <2>3, <2>4 DEF Payments
  <2>6. m \notin DOMAIN sim.payments
    BY DEF Simulated
  <2>7. /\ DOMAIN all = DOMAIN sim.payments \cup {m} /\ all[m] = new
        /\ \A i \in DOMAIN sim.payments : all[i] = sim.payments[i]
    BY <2>6
  <2> HIDE DEF all
  <2>8. sim' = [seed |-> sim.seed, next_id |-> m, payments |-> all]
    BY <1>3, <2>1
  <2>9. sim'.payments[sim'.next_id] = new
    BY <2>7, <2>8
  <2>10. pc' = IF new.status = "captured" THEN "attribute" ELSE Onward
    BY <1>1, <1>5, <2>9 DEF Execute
  <2>11. pc' = "attribute" <=> new.status = "captured"
    BY <1>4, <2>10
  <2>12. m \in Nat /\ m >= sim.next_id
    BY <1>3
  <2> QED
    BY <1>1, <2>2, <2>4, <2>5, <2>6, <2>7, <2>8, <2>11, <2>12
<1>6. CASE channel # "payment_retry"
  <2>1. sim' = sim \/ sim' = [sim EXCEPT !.next_id = @ + 2]
    BY <1>6 DEF Execute, CreatePaymentLink
  <2>2. pc' # "attribute"
    BY <1>4, <1>6 DEF Execute
  <2>3. /\ sim' = [seed |-> sim.seed, next_id |-> sim'.next_id, payments |-> sim'.payments]
        /\ sim'.payments = sim.payments
        /\ sim'.next_id \in {sim.next_id, sim.next_id + 2}
    BY <1>3, <2>1
  <2> QED
    BY <1>3, <2>2, <2>3
<1> QED
  BY <1>5, <1>6

\* No other step of a run has to do with the gateway.
LEMMA SimStays ==
    ASSUME [Next]_vars, ~StartRun, ~PopCase, ~Execute
    PROVE  sim' = sim /\ (pc' = "attribute" => UNCHANGED vars)
  BY DEF Next, Progress, PersistHoldout, Abstain, PersistPlan, SkipClaimed, ClaimDueBatch, Gate,
         Stop, ExecuteFails, Attribute, Complete, WriteReport, Crash, Onward, vars

LEMMA SimulatedHolds ==
    ASSUME IInv, [Next]_vars
    PROVE  Simulated'
<1>0. /\ CasesFiled /\ RowsFiled /\ Budgeted /\ Scheduled /\ InHand /\ Ages /\ Simulated /\ Paid
      /\ now \in Nat
  BY DEF IInv, Scheduled
<1>1. CASE StartRun
  <2>1. sim' = [seed |-> runs'[run'], next_id |-> 0, payments |-> <<>>] /\ OwnCases' = {}
    BY <1>0, <1>1, RunBegins DEF NewSimulator
  <2>2. DOMAIN sim'.payments = {}
    BY <2>1
  <2>3. /\ sim' = [seed |-> sim'.seed, next_id |-> sim'.next_id, payments |-> sim'.payments]
        /\ sim'.next_id = 0 /\ sim'.seed = runs'[run']
    BY <2>1
  <2> QED
    BY <2>1, <2>2, <2>3 DEF Simulated
<1> DEFINE Pay(n) == /\ n \in 1..sim.next_id /\ sim.payments[n] \in Payments
                     /\ sim.payments[n].order \in 1..sim.next_id
                     /\ OfOrder(n)
           Source1(k) ==
               LET n == cases[k].source_payment IN
               /\ n \in DOMAIN sim.payments
               /\ sim.payments[n].order = n + 1 /\ sim.payments[n].customer = Customer(k)
               /\ \A j \in OwnCases : cases[j].source_payment = n => j = k
<1>2. CASE ~StartRun
  <2>1. /\ runs' = runs /\ run' = run /\ (~PopCase => OwnCases' = OwnCases)
        /\ OwnCases \subseteq OwnCases'
    BY <1>2, OwnStays
  <2>2. /\ sim = [seed |-> sim.seed, next_id |-> sim.next_id, payments |-> sim.payments]
        /\ sim.next_id \in Nat /\ (run > 0 => sim.seed = runs[run])
        /\ \A n \in DOMAIN sim.payments : Pay(n)
        /\ \A k \in OwnCases : Source1(k)
    BY <1>0 DEF Simulated
  <2>3. ASSUME NEW k \in OwnCases
        PROVE  cases'[k].source_payment = cases[k].source_payment /\ Customer(k)' = Customer(k)
    <3>1. CaseStep(k)
      BY <1>0, CaseSteps DEF OwnCases
    <3> QED
      BY <2>1, <3>1, SameRun DEF CaseStep
  <2>4. ASSUME sim' = [seed |-> sim.seed, next_id |-> sim'.next_id, payments |-> sim'.payments],
               sim'.next_id \in Nat, sim'.next_id >= sim.next_id,
               DOMAIN sim.payments \subseteq DOMAIN sim'.payments,
               \A n \in DOMAIN sim.payments : sim'.payments[n] = sim.payments[n]
        PROVE  /\ \A n \in DOMAIN sim.payments : Pay(n)'
               /\ sim'.seed = sim.seed
    <3>1. ASSUME NEW n \in DOMAIN sim.payments
          PROVE  Pay(n)'
      <4>1. sim'.payments[n] = sim.payments[n] /\ Pay(n)
        BY <2>2, <2>4
      <4>2. n \in 1..sim'.next_id /\ sim'.payments[n].order \in 1..sim'.next_id
        BY <2>2, <2>4, <4>1
      <4>3. sim'.payments[sim.payments[n].order - 1] = sim.payments[sim.payments[n].order - 1]
            /\ sim.payments[n].order - 1 \in DOMAIN sim'.payments
        BY <2>4, <4>1 DEF OfOrder
      <4>4. OfOrder(n)'
        BY <4>1, <4>3 DEF OfOrder
      <4> QED
        BY <4>1, <4>2, <4>4
    <3>2. sim'.seed = sim.seed
      BY <2>4
    <3> QED
      BY <3>1, <3>2
  <2>5. CASE ~PopCase /\ ~Execute
    <3>1. sim' = sim
      BY <1>2, <2>5, SimStays
    <3>2. \A n \in DOMAIN sim'.payments : Pay(n)'
      BY <2>2, <2>4, <3>1
    <3>3. \A k \in OwnCases' : Source1(k)'
      BY <2>1, <2>2, <2>3, <2>5, <3>1
    <3> QED
      BY <2>1, <2>2, <3>1, <3>2, <3>3 DEF Simulated
  <2>6. CASE PopCase
    <3>1. PICK k : k = CaseOf(Popped.item)
      OBVIOUS
    <3>0. PICK m : m = sim.next_id + 1
      OBVIOUS
    <3> DEFINE new == [state |-> "detected", cost_spent |-> 0, cost_ceiling |-> 0,
                       opened_at |-> Popped.when, source_payment |-> m,
                       playbook_id |-> NULL, outcome |-> NULL]
    <3>2. /\ sim' = [seed |-> sim.seed, next_id |-> m + 1, payments |-> sim'.payments]
          /\ DOMAIN sim'.payments = DOMAIN sim.payments \cup {m}
          /\ \A n \in DOMAIN sim.payments : sim'.payments[n] = sim.payments[n]
          /\ m \notin DOMAIN sim.payments
          /\ sim'.payments[m] \in Payments
          /\ sim'.payments[m].order = m + 1 /\ sim'.payments[m].customer = Customer(k)
          /\ sim'.payments[m].status = "failed"
      BY <1>0, <2>6, <3>0, <3>1, ArrivalIs
    <3>3. /\ k \notin DOMAIN cases
          /\ \/ cases' = cases
             \/ cases' = [j \in DOMAIN cases \cup {k} |-> IF j = k THEN new ELSE cases[j]]
      BY <1>0, <2>6, <3>0, <3>1, CaseArrives
    <3>4. new.source_payment = m
      OBVIOUS
    <3> HIDE DEF new
    <3>5. sim'.next_id = m + 1 /\ m \in Nat /\ sim'.seed = sim.seed
      BY <2>2, <3>0, <3>2
    <3>6. \A n \in DOMAIN sim.payments : Pay(n)'
      <4>1. sim' = [seed |-> sim.seed, next_id |-> sim'.next_id, payments |-> sim'.payments]
        BY <3>2, <3>5
      <4> QED
        BY <2>2, <2>4, <3>0, <3>2, <3>5, <4>1
    <3>7. Pay(m)'
      <4>1. (m + 1) - 1 = m
        BY <3>5
      <4>2. OfOrder(m)'
        BY <3>2, <4>1 DEF OfOrder
      <4> QED
        BY <2>2, <3>0, <3>2, <3>5, <4>2
    <3>8. ASSUME NEW j \in OwnCases'
          PROVE  \/ j \in OwnCases /\ cases'[j].source_payment = cases[j].source_payment
                    /\ cases'[j].source_payment # m
                 \/ j = k /\ cases'[j].source_payment = m
      <4>1. CASE j \in OwnCases
        <5>1. cases[j].source_payment \in DOMAIN sim.payments
          BY <2>2, <4>1
        <5> QED
          BY <2>3, <3>2, <4>1, <5>1
      <4>2. CASE j \notin OwnCases
        <5>1. j \in DOMAIN cases' /\ j \notin DOMAIN cases
          BY <2>1, <4>2 DEF OwnCases
        <5> QED
          BY <3>3, <3>4, <5>1
      <4> QED
        BY <4>1, <4>2
    <3>9. \A j \in OwnCases' : Source1(j)'
      <4> SUFFICES ASSUME NEW j \in OwnCases'
                   PROVE  Source1(j)'
        OBVIOUS
      <4>1. CASE j \in OwnCases
        <5>1. Source1(j) /\ Customer(j)' = Customer(j)
              /\ cases'[j].source_payment = cases[j].source_payment
          BY <2>2, <2>3, <4>1
        <5>2. \A i \in OwnCases' : cases'[i].source_payment = cases[j].source_payment => i = j
          BY <3>2, <3>8, <5>1
        <5> QED
          BY <3>2, <5>1, <5>2
      <4>2. CASE j \notin OwnCases
        <5>1. j = k /\ cases'[j].source_payment = m
          BY <3>8, <4>2
        <5>2. \A i \in OwnCases' : cases'[i].source_payment = m => i = k
          BY <3>8
        <5>3. Customer(k)' = Customer(k)
          BY <2>1, SameRun
        <5> QED
          BY <3>2, <5>1, <5>2, <5>3
      <4> QED
        BY <4>1, <4>2
    <3>10. \A n \in DOMAIN sim'.payments : Pay(n)'
      BY <3>2, <3>6, <3>7
    <3>11. /\ sim' = [seed |-> sim'.seed, next_id |-> sim'.next_id, payments |-> sim'.payments]
           /\ sim'.next_id \in Nat /\ (run' > 0 => sim'.seed = runs'[run'])
      BY <2>1, <2>2, <3>2, <3>5
    <3> QED
      BY <3>9, <3>10, <3>11 DEF Simulated
  <2>7. CASE Execute
    <3>1. PICK k : k = CaseOf(item)
      OBVIOUS
    <3>0. PICK n, m : n = cases[k].source_payment /\ m = sim.next_id + 1
      OBVIOUS
    <3>2. ~PopCase /\ OwnCases' = OwnCases /\ k \in OwnCases
      <4>1. pc = "execute"
        BY <2>7 DEF Execute
      <4> QED
        BY <1>0, <2>1, <3>1, <4>1, ItemIs DEF PopCase
    <3>3. /\ sim' = [seed |-> sim.seed, next_id |-> sim'.next_id, payments |-> sim'.payments]
          /\ sim'.next_id \in Nat /\ sim'.next_id >= sim.next_id
          /\ \/ sim'.payments = sim.payments
             \/ /\ sim'.next_id = m
                /\ DOMAIN sim'.payments = DOMAIN sim.payments \cup {m}
                /\ \A i \in DOMAIN sim.payments : sim'.payments[i] = sim.payments[i]
                /\ m \notin DOMAIN sim.payments
                /\ sim'.payments[m] \in Payments
                /\ sim'.payments[m].order = n + 1
                /\ sim.payments[n].status = "failed"
                /\ sim.payments[n].error_reason \in Retryable
                /\ sim'.payments[m].status = "failed" => sim'.payments[m].error_reason = "rolled"
      BY <1>0, <2>7, <3>0, <3>1, ExecutionIs
    <3>4. DOMAIN sim.payments \subseteq DOMAIN sim'.payments
          /\ \A i \in DOMAIN sim.payments : sim'.payments[i] = sim.payments[i]
      BY <3>3
    <3>5. (\A i \in DOMAIN sim.payments : Pay(i)') /\ sim'.seed = sim.seed
      BY <2>4, <3>3, <3>4
    <3>6. n \in DOMAIN sim.payments /\ sim.payments[n].order = n + 1 /\ n \in 1..sim.next_id
          /\ n + 1 \in 1..sim.next_id
      BY <2>2, <3>0, <3>2
    <3>7. \A i \in DOMAIN sim'.payments : Pay(i)'
      <4>1. CASE sim'.payments = sim.payments
        BY <3>5, <4>1
      <4>2. CASE sim'.payments # sim.payments
        <5>1. sim'.payments[n] = sim.payments[n] /\ m \in Nat
          BY <2>2, <3>0, <3>4, <3>6
        <5>2. OfOrder(m)'
          <6>1. /\ sim'.payments[m].order = n + 1 /\ n \in DOMAIN sim'.payments
                /\ sim'.payments[n].order = n + 1 /\ sim'.payments[n].status = "failed"
                /\ sim'.payments[n].error_reason \in Retryable
                /\ sim'.payments[m].status = "failed" => sim'.payments[m].error_reason = "rolled"
            BY <3>3, <3>4, <3>6, <4>2, <5>1
          <6>2. (n + 1) - 1 = n
            BY <3>6
          <6> QED
            BY <6>1, <6>2 DEF OfOrder
        <5>3. Pay(m)'
          BY <2>2, <3>0, <3>3, <3>6, <4>2, <5>2
        <5> HIDE DEF Pay
        <5> QED
          BY <3>3, <3>5, <4>2, <5>3
      <4> QED
        BY <4>1, <4>2
    <3>8. \A j \in OwnCases' : Source1(j)'
      BY <2>2, <2>3, <3>2, <3>4
    <3>9. /\ sim' = [seed |-> sim'.seed, next_id |-> sim'.next_id, payments |-> sim'.payments]
          /\ sim'.next_id \in Nat /\ (run' > 0 => sim'.seed = runs'[run'])
      BY <2>1, <2>2, <3>3, <3>5
    <3> QED
      BY <3>7, <3>8, <3>9 DEF Simulated
  <2> QED
    BY <2>5, <2>6, <2>7
<1> QED
  BY <1>1, <1>2

LEMMA CreditsHolds ==
    ASSUME IInv, [Next]_vars
    PROVE  Credits'
<1>0. /\ CasesFiled /\ RowsFiled /\ Budgeted /\ Scheduled /\ InHand /\ Ages /\ Simulated /\ Paid
      /\ Credits /\ now \in Nat /\ DOMAIN cases \subseteq DOMAIN cases'
  BY TablesGrow DEF IInv, Scheduled
<1> DEFINE Known(id) ==
      /\ credited[id] \in DOMAIN cases \cup {NULL}
      /\ id[2] \in Nat /\ \E i \in 1..run : id[1] = runs[i]
      /\ Fresh /\ id[1] = sim.seed =>
            id[2] <= sim.next_id /\ (pc = "attribute" => id[2] < sim.next_id)
<1>1. \A id \in DOMAIN credited : Known(id)
  BY <1>0 DEF Credits
<1>2. run \in Nat
  BY <1>0, RunsAre
<1>3. CASE StartRun
  <2>1. /\ run' = run + 1 /\ \A i \in 1..run : runs'[i] = runs[i]
        /\ sim'.seed = runs'[run'] /\ credited' = credited
    <3>1. run' = run + 1 /\ sim' = NewSimulator(runs'[run'])
      BY <1>0, <1>3, RunBegins
    <3>2. sim'.seed = runs'[run']
      BY <3>1 DEF NewSimulator
    <3>3. \A i \in 1..run : runs'[i] = runs[i]
      BY <1>0, <1>3, NextRun
    <3>4. credited' = credited
      BY <1>3 DEF StartRun
    <3> QED
      BY <3>1, <3>2, <3>3, <3>4
  <2>2. ASSUME NEW id \in DOMAIN credited'
        PROVE  Known(id)'
    <3>1. PICK i \in 1..run : id[1] = runs[i]
      BY <1>1, <2>1
    <3>2. i \in 1..run' - 1 /\ i \in 1..run' /\ id[1] = runs'[i]
      BY <1>2, <2>1, <3>1
    <3>3. Fresh' => id[1] # sim'.seed
      BY <2>1, <3>2 DEF Fresh
    <3> QED
      BY <1>0, <1>1, <2>1, <3>2, <3>3
  <2> QED
    BY <2>2 DEF Credits
<1>4. CASE ~StartRun
  <2>1. /\ runs' = runs /\ run' = run /\ (Fresh' <=> Fresh)
    BY <1>4, OwnStays, SameRun
  <2>2. /\ sim'.seed = sim.seed /\ sim'.next_id \in Nat /\ sim'.next_id >= sim.next_id
        /\ sim.next_id \in Nat
        /\ pc' = "attribute" => sim'.next_id > sim.next_id \/ (pc = "attribute" /\ ~Attribute)
    <3>1. CASE PopCase
      <4>1. pc' # "attribute"
        BY <3>1 DEF PopCase
      <4>2. PICK m : m = sim.next_id + 1
        OBVIOUS
      <4>3. sim' = [seed |-> sim.seed, next_id |-> m + 1, payments |-> sim'.payments]
        BY <1>0, <3>1, <4>2, ArrivalIs
      <4>4. sim'.seed = sim.seed /\ sim'.next_id = m + 1
        BY <4>3
      <4>5. sim.next_id \in Nat
        BY <1>0 DEF Simulated
      <4> QED
        BY <4>1, <4>2, <4>4, <4>5
    <3>2. CASE Execute
      <4>1. /\ sim' = [seed |-> sim.seed, next_id |-> sim'.next_id, payments |-> sim'.payments]
            /\ sim'.next_id \in Nat /\ sim'.next_id >= sim.next_id
            /\ pc' = "attribute" => sim'.next_id = sim.next_id + 1
        BY <1>0, <3>2, ExecutionIs
      <4>2. sim'.seed = sim.seed
        BY <4>1
      <4>3. sim.next_id \in Nat
        BY <1>0 DEF Simulated
      <4> QED
        BY <4>1, <4>2, <4>3
    <3>3. CASE ~PopCase /\ ~Execute
      <4>1. sim' = sim /\ (pc' = "attribute" => UNCHANGED vars)
        BY <1>4, <3>3, SimStays
      <4>2. UNCHANGED vars => pc' = pc
        BY DEF vars, process
      <4>3. Attribute => pc' # "attribute"
        BY DEF Attribute, Onward
      <4>4. sim.next_id \in Nat
        BY <1>0 DEF Simulated
      <4> QED
        BY <4>1, <4>2, <4>3, <4>4
    <3> QED
      BY <3>1, <3>2, <3>3
  <2>3. ASSUME NEW id \in DOMAIN credited' \cap DOMAIN credited, credited'[id] = credited[id]
        PROVE  Known(id)'
    BY <1>0, <1>1, <2>1, <2>2, <2>3
  <2>4. CASE Attribute
    <3> DEFINE new == PaymentId(sim.next_id)
    <3>1. \/ credited' = credited
          \/ \E k \in DOMAIN cases \cup {NULL} :
                credited' = [i \in DOMAIN credited \cup {new} |-> IF i = new THEN k ELSE credited[i]]
      <4>1. \A p : Matches(p) \subseteq DOMAIN cases
        BY DEF Matches
      <4> HIDE DEF new
      <4> QED
        BY <2>4, <4>1, AttributeIs DEF new
    <3>2. CASE credited' = credited
      BY <2>3, <3>2 DEF Credits
    <3>3. CASE credited' # credited
      <4>1. PICK k \in DOMAIN cases \cup {NULL} :
               credited' = [i \in DOMAIN credited \cup {new} |-> IF i = new THEN k ELSE credited[i]]
        BY <3>1, <3>3
      <4>2. new[1] = sim.seed /\ new[2] = sim.next_id
        BY DEF PaymentId
      <4>3. run > 0 /\ sim.seed = runs[run] /\ sim' = sim /\ pc' # "attribute"
        BY <1>0, <1>2, <2>4 DEF InHand, Simulated, Attribute, Onward
      <4>4. PICK id : id = new
        OBVIOUS
      <4>5. Known(id)'
        <5>1. credited'[id] = k
          BY <4>1, <4>4
        <5>2. run \in 1..run
          BY <1>2, <4>3
        <5> HIDE DEF new
        <5> QED
          BY <1>0, <2>1, <2>2, <4>2, <4>3, <4>4, <5>1, <5>2
      <4> HIDE DEF new
      <4>6. \A i \in DOMAIN credited' : i # id => i \in DOMAIN credited /\ credited'[i] = credited[i]
        BY <4>1, <4>4
      <4> QED
        BY <2>3, <4>5, <4>6 DEF Credits
    <3> QED
      BY <3>2, <3>3
  <2>5. CASE ~Attribute
    <3>1. credited' = credited
      BY <1>4, <2>5
         DEF Next, Progress, PopCase, PersistHoldout, Abstain, PersistPlan, SkipClaimed,
             ClaimDueBatch, Gate, Stop, Execute, ExecuteFails, Complete, WriteReport, Crash,
             vars, database
    <3> QED
      BY <2>3, <3>1 DEF Credits
  <2> QED
    BY <2>4, <2>5
<1> QED
  BY <1>3, <1>4

\* The payment in hand is matched with the case it was captured for, and no other.
LEMMA PayerIsMatched ==
    ASSUME IInv, Fresh, pc = "attribute"
    PROVE  Matches(sim.payments[sim.next_id]) = {CaseOf(item)}
<1>0. /\ CasesFiled /\ RowsFiled /\ InHand /\ Ages /\ Paid /\ now \in Nat
  BY DEF IInv, Scheduled
<1>1. PICK k, p : k = CaseOf(item) /\ p = sim.payments[sim.next_id]
  OBVIOUS
<1>2. k \in OwnCases /\ k \in DOMAIN cases /\ Keyed(k) /\ item \in DOMAIN rows
  BY <1>0, <1>1, ItemIs, FiledAre
<1>3. p.created_at = now /\ p.customer = Customer(k)
  BY <1>0, <1>1 DEF Paid
<1>4. cases[k].state = "executing" /\ rows[item].status = "done" /\ rows[item].executed_at = now
  BY <1>0, <1>1 DEF InHand
<1>5. now \in Anchors(k)
  <2> DEFINE times == {rows[r].executed_at : r \in {s \in RowsOf(k) : rows[s].status = "done"}}
  <2>1. now \in times
    BY <1>1, <1>2, <1>4 DEF RowsOf
  <2>2. \A u \in times : u <= now
    <3>1. \A r \in RowsOf(k) : r \in OwnRows
      BY <1>2 DEF RowsOf, OwnRows, OwnCases, Own
    <3> QED
      BY <1>0, <3>1 DEF Ages
  <2>3. Anchors(k) = {t \in times : \A u \in times : u <= t}
    BY <1>4 DEF Anchors
  <2> HIDE DEF times
  <2> QED
    BY <2>1, <2>2, <2>3
<1>6. now \in now .. now + ATTRIBUTION_WINDOW
  BY <1>0, BenchmarkConstants
<1>7. "executing" \in Eligible
  BY DEF Eligible
<1>8. k \in Matches(p)
  BY <1>2, <1>3, <1>4, <1>5, <1>6, <1>7 DEF Matches
<1>9. ASSUME NEW j \in Matches(p)
      PROVE  j = k
  <2>1. j \in DOMAIN cases /\ Customer(j) = Customer(k)
    BY <1>3 DEF Matches
  <2>2. Keyed(j) /\ k[1] = run
    BY <1>0, <1>2, <2>1, FiledAre DEF OwnCases
  <2> QED
    BY <1>0, <1>2, <2>1, <2>2, OneCase
<1> QED
  BY <1>1, <1>8, <1>9

\* A payment is captured for one order once, and what is captured is recovered.
LEMMA PaidHolds ==
    ASSUME IInv, [Next]_vars
    PROVE  Paid'
<1>0. /\ CasesFiled /\ RowsFiled /\ Budgeted /\ Scheduled /\ InHand /\ Ages /\ Simulated /\ Paid
      /\ Credits /\ now \in Nat /\ DOMAIN cases \subseteq DOMAIN cases'
  BY TablesGrow DEF IInv, Scheduled
<1> DEFINE InAttribution ==
      pc = "attribute" =>
        LET p == sim.payments[sim.next_id] IN
        /\ sim.next_id \in DOMAIN sim.payments
        /\ p.status = "captured" /\ p.created_at = now
        /\ p.customer = Customer(CaseOf(item))
        /\ p.order = cases[CaseOf(item)].source_payment + 1
           Once ==
      \A m, n \in DOMAIN sim.payments :
            /\ sim.payments[m].status = "captured" /\ sim.payments[n].status = "captured"
            /\ sim.payments[m].order = sim.payments[n].order
            => m = n
           Held(n) ==
      \E k \in OwnCases :
            /\ sim.payments[n].order = cases[k].source_payment + 1
            /\ \/ cases[k].state = "recovered"
               \/ pc = "attribute" /\ CaseOf(item) = k /\ n = sim.next_id
           Known ==
      pc # "over" =>
            \A n \in DOMAIN sim.payments : sim.payments[n].status = "captured" => Held(n)
<1>1. InAttribution /\ (Fresh => Once /\ Known)
  BY <1>0 DEF Paid
<1>2. CASE StartRun
  <2>1. sim' = [seed |-> runs'[run'], next_id |-> 0, payments |-> <<>>] /\ pc' = "loop"
    BY <1>0, <1>2, RunBegins DEF NewSimulator
  <2>2. DOMAIN sim'.payments = {}
    BY <2>1
  <2> QED
    BY <2>1, <2>2 DEF Paid
<1>3. ASSUME ~StartRun
      PROVE  /\ runs' = runs /\ run' = run /\ (Fresh' <=> Fresh) /\ OwnCases \subseteq OwnCases'
             /\ \A k \in OwnCases :
                  /\ cases'[k].source_payment = cases[k].source_payment
                  /\ Customer(k)' = Customer(k)
                  /\ cases[k].state = "recovered" => cases'[k].state = "recovered"
  <2>1. /\ runs' = runs /\ run' = run /\ (Fresh' <=> Fresh) /\ OwnCases \subseteq OwnCases'
    BY <1>3, OwnStays, SameRun
  <2>2. ASSUME NEW k \in OwnCases
        PROVE  /\ cases'[k].source_payment = cases[k].source_payment
               /\ Customer(k)' = Customer(k)
               /\ cases[k].state = "recovered" => cases'[k].state = "recovered"
    <3>1. CaseStep(k)
      BY <1>0, CaseSteps DEF OwnCases
    <3> QED
      BY <1>0, <2>1, <3>1, SameRun, StateOnward, StatesAre DEF CaseStep
  <2> QED
    BY <2>1, <2>2
<1>4. CASE PopCase
  <2>0. ~StartRun /\ pc' # "attribute" /\ pc = "loop"
    BY <1>4 DEF PopCase, StartRun
  <2>1. PICK m : m = sim.next_id + 1
    OBVIOUS
  <2>2. /\ DOMAIN sim'.payments = DOMAIN sim.payments \cup {m}
        /\ \A n \in DOMAIN sim.payments : sim'.payments[n] = sim.payments[n]
        /\ sim'.payments[m].status = "failed"
    BY <1>0, <1>4, <2>1, ArrivalIs
  <2>3. \A n \in DOMAIN sim'.payments : sim'.payments[n].status = "captured" =>
            n \in DOMAIN sim.payments /\ sim.payments[n].status = "captured"
    BY <2>2
  <2>4. ASSUME Fresh, NEW n \in DOMAIN sim'.payments, sim'.payments[n].status = "captured"
        PROVE  Held(n)'
    <3>1. n \in DOMAIN sim.payments /\ Held(n) /\ sim'.payments[n] = sim.payments[n]
      BY <1>1, <2>0, <2>2, <2>3, <2>4
    <3>2. PICK k \in OwnCases : /\ sim.payments[n].order = cases[k].source_payment + 1
                                /\ cases[k].state = "recovered"
      BY <2>0, <3>1
    <3> QED
      BY <1>3, <2>0, <3>1, <3>2
  <2>5. Fresh => Once'
    BY <1>1, <2>2, <2>3
  <2>6. InAttribution' /\ (Fresh' => Once' /\ Known')
    BY <1>3, <2>0, <2>4, <2>5
  <2> QED
    BY <2>6 DEF Paid
<1>5. CASE Execute
  <2>0. ~StartRun /\ pc = "execute" /\ UNCHANGED <<now, item>>
    BY <1>5 DEF Execute, StartRun
  <2>1. PICK k, n, m : k = CaseOf(item) /\ n = cases[k].source_payment /\ m = sim.next_id + 1
    OBVIOUS
  <2>2. /\ k \in OwnCases /\ cases[k].state = "executing" /\ CaseOf(item') = k
    BY <1>0, <2>0, <2>1, ItemIs DEF InHand
  <2>3. \/ sim'.payments = sim.payments /\ pc' # "attribute"
        \/ /\ sim'.next_id = m
           /\ DOMAIN sim'.payments = DOMAIN sim.payments \cup {m}
           /\ \A i \in DOMAIN sim.payments : sim'.payments[i] = sim.payments[i]
           /\ m \notin DOMAIN sim.payments
           /\ sim'.payments[m] \in Payments
           /\ sim'.payments[m].order = n + 1 /\ sim'.payments[m].customer = Customer(k)
           /\ sim'.payments[m].created_at = now
           /\ pc' = "attribute" <=> sim'.payments[m].status = "captured"
    BY <1>0, <1>5, <2>1, ExecutionIs
  <2>4. cases'[k].source_payment = n /\ Customer(k)' = Customer(k) /\ k \in OwnCases'
    BY <1>3, <2>0, <2>1, <2>2
  <2>5. \A i \in DOMAIN sim.payments : sim'.payments[i] = sim.payments[i]
    BY <2>3
  <2>6. ASSUME Fresh, NEW i \in DOMAIN sim.payments, sim.payments[i].status = "captured"
        PROVE  sim.payments[i].order # n + 1 /\ Held(i)'
    <3>1. Held(i)
      BY <1>1, <2>0, <2>6
    <3>2. PICK j \in OwnCases : /\ sim.payments[i].order = cases[j].source_payment + 1
                                /\ cases[j].state = "recovered"
      BY <2>0, <3>1
    <3>3. sim.payments[i].order # n + 1
      <4>1. SUFFICES ASSUME sim.payments[i].order = n + 1
                     PROVE  FALSE
        OBVIOUS
      <4>2. n \in Nat /\ cases[j].source_payment \in Nat
        BY <1>0, <2>1, <2>2, <3>2, FiledAre DEF OwnCases, CaseRecords
      <4>3. cases[j].source_payment = n
        BY <3>2, <4>1, <4>2
      <4>4. j = k
        BY <1>0, <2>1, <2>2, <3>2, <4>3 DEF Simulated
      <4> QED
        BY <2>2, <3>2, <4>4
    <3>4. Held(i)'
      BY <1>3, <2>0, <2>5, <3>2
    <3> QED
      BY <3>3, <3>4
  <2>7. CASE sim'.payments = sim.payments /\ pc' # "attribute"
    <3>1. InAttribution' /\ (Fresh' => Once' /\ Known')
      BY <1>1, <1>3, <2>0, <2>6, <2>7
    <3> QED
      BY <3>1 DEF Paid
  <2>8. CASE ~(sim'.payments = sim.payments /\ pc' # "attribute")
    <3>1. InAttribution'
      <4>1. pc' = "attribute" =>
              /\ m \in DOMAIN sim'.payments /\ sim'.payments[m].status = "captured"
              /\ sim'.payments[m].created_at = now' /\ sim'.payments[m].customer = Customer(k)'
              /\ sim'.payments[m].order = cases'[k].source_payment + 1
        BY <2>0, <2>3, <2>4, <2>8
      <4>2. sim'.next_id = m /\ CaseOf(item)' = k /\ Customer(CaseOf(item))' = Customer(k)'
        BY <2>2, <2>3, <2>8 DEF CaseOf, Customer
      <4> QED
        BY <4>1, <4>2
    <3>2. Fresh => Once'
      <4> SUFFICES ASSUME Fresh, NEW i \in DOMAIN sim'.payments, NEW j \in DOMAIN sim'.payments,
                          sim'.payments[i].status = "captured", sim'.payments[j].status = "captured",
                          sim'.payments[i].order = sim'.payments[j].order
                   PROVE  i = j
        OBVIOUS
      <4>1. CASE i # m /\ j # m
        BY <1>1, <2>3, <2>8, <4>1
      <4>2. CASE i = m /\ j # m
        BY <2>3, <2>6, <2>8, <4>2
      <4>3. CASE i # m /\ j = m
        BY <2>3, <2>6, <2>8, <4>3
      <4> QED
        BY <4>1, <4>2, <4>3
    <3>3. Fresh => Known'
      <4> SUFFICES ASSUME Fresh, NEW i \in DOMAIN sim'.payments, sim'.payments[i].status = "captured"
                   PROVE  Held(i)'
        OBVIOUS
      <4>1. CASE i # m
        <5>1. i \in DOMAIN sim.payments /\ sim.payments[i].status = "captured"
          BY <2>3, <2>8, <4>1
        <5> QED
          BY <2>6, <5>1
      <4>2. CASE i = m
        <5>1. pc' = "attribute" /\ sim'.next_id = m /\ sim'.payments[m].order = n + 1
          BY <2>3, <2>8, <4>2
        <5>2. CaseOf(item)' = k
          BY <2>2 DEF CaseOf
        <5> QED
          BY <2>4, <4>2, <5>1, <5>2
      <4> QED
        BY <4>1, <4>2
    <3> QED
      BY <1>3, <2>0, <3>1, <3>2, <3>3 DEF Paid
  <2> QED
    BY <2>7, <2>8
<1>6. CASE Attribute
  <2>0. /\ ~StartRun /\ pc = "attribute" /\ pc' # "attribute" /\ sim' = sim /\ pc # "over"
    BY <1>6 DEF Attribute, StartRun, Onward
  <2>1. PICK k, p : k = CaseOf(item) /\ p = sim.payments[sim.next_id]
    OBVIOUS
  <2>2. /\ k \in OwnCases /\ k \in DOMAIN cases /\ p.order = cases[k].source_payment + 1
        /\ cases[k] \in CaseRecords
    BY <1>0, <1>1, <2>0, <2>1, ItemIs
  <2>3. ASSUME Fresh
        PROVE  cases'[k].state = "recovered"
    <3>1. Matches(p) = {k}
      BY <2>0, <2>1, <2>3, PayerIsMatched
    <3>2. PaymentId(sim.next_id) \notin DOMAIN credited
      <4> DEFINE id == PaymentId(sim.next_id)
      <4>1. id[1] = sim.seed /\ id[2] = sim.next_id /\ sim.next_id \in Nat
        BY <1>0 DEF PaymentId, Simulated
      <4> HIDE DEF id
      <4>2. id \in DOMAIN credited => id[2] < sim.next_id
        BY <1>0, <2>0, <2>3, <4>1 DEF Credits
      <4> QED
        BY <4>1, <4>2 DEF id
    <3> DEFINE ended == [kind |-> "recovered", reason_code |-> NULL, recovered |-> p.amount]
    <3>3. cases' = [j \in DOMAIN cases |->
                       IF j = k THEN [cases[j] EXCEPT !.state = "recovered", !.outcome = ended]
                                ELSE cases[j]]
      BY <1>6, <2>1, <3>1, <3>2, AttributeIs
    <3> HIDE DEF ended
    <3>4. cases'[k] = [cases[k] EXCEPT !.state = "recovered", !.outcome = ended]
      BY <2>2, <3>3
    <3> QED
      BY <2>2, <3>4 DEF CaseRecords
  <2>4. ASSUME Fresh, NEW n \in DOMAIN sim.payments, sim.payments[n].status = "captured"
        PROVE  Held(n)'
    <3>1. PICK j \in OwnCases :
            /\ sim.payments[n].order = cases[j].source_payment + 1
            /\ cases[j].state = "recovered" \/ (CaseOf(item) = j /\ n = sim.next_id)
      BY <1>1, <2>0, <2>4
    <3>2. cases'[j].state = "recovered" /\ j \in OwnCases'
          /\ cases'[j].source_payment = cases[j].source_payment
      BY <1>3, <2>0, <2>1, <2>3, <2>4, <3>1
    <3> QED
      BY <2>0, <3>1, <3>2
  <2>5. InAttribution' /\ (Fresh' => Once' /\ Known')
    BY <1>1, <1>3, <2>0, <2>4
  <2> QED
    BY <2>5 DEF Paid
<1>7. CASE UNCHANGED vars
  <2>1. UNCHANGED <<pc, now, item, runs, cases, sim>>
    BY <1>7 DEF vars, process, database
  <2>2. /\ OwnCases' = OwnCases /\ (Fresh' <=> Fresh) /\ CaseOf(item)' = CaseOf(item)
        /\ Customer(CaseOf(item))' = Customer(CaseOf(item))
    BY <2>1 DEF OwnCases, run, Fresh, CaseOf, Customer
  <2> QED
    BY <1>0, <2>1, <2>2 DEF Paid
<1>8. CASE ~StartRun /\ ~PopCase /\ ~Execute /\ ~Attribute /\ ~UNCHANGED vars
  <2>1. sim' = sim /\ pc' # "attribute"
    BY <1>8, SimStays
  <2>2. pc # "attribute" \/ pc' = "over"
    BY <1>8 DEF Next, Progress, PersistHoldout, Abstain, PersistPlan, SkipClaimed, ClaimDueBatch,
                Gate, Stop, ExecuteFails, Complete, WriteReport, Crash
  <2>3. pc = "over" => pc' = "over"
    BY <1>8 DEF Next, Progress, PersistHoldout, Abstain, PersistPlan, SkipClaimed, ClaimDueBatch,
                Gate, Stop, ExecuteFails, Complete, WriteReport, Crash
  <2>4. ASSUME Fresh, pc' # "over", NEW n \in DOMAIN sim.payments,
               sim.payments[n].status = "captured"
        PROVE  Held(n)'
    <3>1. PICK j \in OwnCases : /\ sim.payments[n].order = cases[j].source_payment + 1
                                /\ cases[j].state = "recovered"
      BY <1>1, <2>2, <2>3, <2>4
    <3>2. cases'[j].state = "recovered" /\ j \in OwnCases'
          /\ cases'[j].source_payment = cases[j].source_payment
      BY <1>3, <1>8, <3>1
    <3> QED
      BY <2>1, <3>1, <3>2
  <2>5. InAttribution' /\ (Fresh' => Once' /\ Known')
    BY <1>1, <1>3, <1>8, <2>1, <2>4
  <2> QED
    BY <2>5 DEF Paid
<1> QED
  BY <1>2, <1>4, <1>5, <1>6, <1>7, <1>8 DEF Next, Progress

-----------------------------------------------------------------------------
(* The invariant and what follows from it.                                 *)

LEMMA Starts == Init => IInv
<1> SUFFICES ASSUME Init
             PROVE  IInv
  OBVIOUS
<1>1. /\ runs = <<>> /\ run = 0 /\ pc = "over" /\ now = 0 /\ heap = {} /\ claimed_ids = {}
      /\ batch = {} /\ cases = <<>> /\ rows = <<>> /\ credited = <<>> /\ consents = <<>>
      /\ completed = {} /\ sim = NewSimulator(0) /\ crowded = FALSE
  BY DEF Init, run
<1>2. /\ DOMAIN cases = {} /\ DOMAIN rows = {} /\ DOMAIN credited = {} /\ DOMAIN consents = {}
      /\ OwnCases = {} /\ OwnRows = {}
  BY <1>1 DEF OwnCases, OwnRows
<1>3. CasesFiled
  BY <1>1, <1>2 DEF CasesFiled
<1>4. RowsFiled
  BY <1>2, FS_EmptySet DEF RowsFiled
<1>5. Budgeted /\ Scheduled /\ InHand /\ Ages /\ Handled
  BY <1>1, <1>2 DEF Budgeted, Scheduled, InHand, Ages, Handled
<1>6. DOMAIN sim.payments = {} /\ sim.next_id = 0
      /\ sim = [seed |-> sim.seed, next_id |-> sim.next_id, payments |-> sim.payments]
  BY <1>1 DEF NewSimulator
<1>7. Simulated /\ Credits /\ Paid
  BY <1>1, <1>2, <1>6 DEF Simulated, Credits, Paid
<1> QED
  BY <1>3, <1>4, <1>5, <1>7 DEF IInv

LEMMA Continues == IInv /\ [Next]_vars => IInv'
<1> SUFFICES ASSUME IInv, [Next]_vars
             PROVE  IInv'
  OBVIOUS
<1>1. CasesFiled' /\ RowsFiled' /\ Budgeted' /\ Scheduled' /\ InHand'
  BY CasesFiledHolds, RowsFiledHolds, BudgetedHolds, ScheduledHolds, InHandHolds
<1>2. Ages' /\ Handled' /\ Simulated' /\ Credits' /\ Paid'
  BY AgesHolds, HandledHolds, SimulatedHolds, CreditsHolds, PaidHolds
<1> QED
  BY <1>1, <1>2 DEF IInv

LEMMA Invariance == Spec => []IInv
<1>1. Init => IInv
  BY Starts
<1>2. IInv /\ [Next]_vars => IInv'
  BY Continues
<1> QED
  BY <1>1, <1>2, PTL DEF Spec

\* No case costs more than its budget and it has an outcome exactly if it has ended;
\* no row is done without the instant it was; the heap holds nothing of the past; and a
\* payment is credited to no case that is not there.
THEOREM TypeCorrect == Spec => []TypeOK
<1>1. ASSUME IInv
      PROVE  TypeOK
  <2>1. CasesFiled /\ RowsFiled /\ Scheduled /\ InHand /\ Credits
    BY <1>1 DEF IInv
  <2>2. \A e \in heap : e.when >= now /\ e.kind \in {"case", "action"}
    BY <2>1 DEF Scheduled
  <2>3. ASSUME NEW k \in DOMAIN cases
        PROVE  /\ cases[k].state \in States
               /\ cases[k].cost_spent \in 0..cases[k].cost_ceiling
               /\ cases[k].state \in Terminal <=> cases[k].outcome # NULL
    <3>1. /\ cases[k] \in CaseRecords /\ cases[k].cost_spent <= cases[k].cost_ceiling
          /\ cases[k].state \in Terminal <=> cases[k].outcome # NULL
      BY <2>1 DEF CasesFiled
    <3> QED
      BY <3>1 DEF CaseRecords
  <2>4. ASSUME NEW r \in DOMAIN rows
        PROVE  /\ CaseOf(r) \in DOMAIN cases
               /\ rows[r].status \in {"pending", "claimed", "done", "failed", "cancelled"}
               /\ rows[r].status = "done" <=> rows[r].executed_at # NULL
               /\ rows[r].verdict \in {NULL, "allow", "deny", "defer"}
    <3>1. /\ CaseOf(r) \in DOMAIN cases /\ rows[r] \in RowRecords
          /\ rows[r].status = "done" <=> rows[r].executed_at # NULL
      BY <2>1 DEF RowsFiled
    <3> QED
      BY <3>1 DEF RowRecords
  <2>5. /\ runs \in Seq(DOMAIN Cohort) /\ completed \subseteq 1..run
        /\ pc \in {"over", "loop", "plan", "gate", "stop", "execute", "attribute", "report"}
        /\ batch \subseteq OwnRows \cap claimed_ids
        /\ \A id \in DOMAIN credited : credited[id] \in DOMAIN cases \cup {NULL}
    BY <2>1 DEF CasesFiled, InHand, Credits
  <2> QED
    BY <2>2, <2>3, <2>4, <2>5 DEF TypeOK
<1> QED
  BY <1>1, Invariance, PTL

\* runner.py:203-250: when the heap is empty no action of the run is still pending, and
\* one that is claimed waits for a human, unless a claim was too small for the run's own
\* rows: whatever else is in the outbox, and wherever earlier runs died.
THEOREM ActionsHandled == Spec => []EveryActionHandled
<1>1. ASSUME IInv
      PROVE  EveryActionHandled
  <2>1. SUFFICES ASSUME pc = "report", ~crowded, NEW r \in OwnRows, rows[r].status \in Live
                 PROVE  rows[r].status = "claimed" /\ rows[r].rule_id = "awaiting_approval"
    BY DEF EveryActionHandled
  <2>2. heap = {} /\ batch = {}
    BY <1>1, <2>1 DEF IInv, InHand
  <2>3. /\ rows[r].status = "pending" => \E e \in heap : TRUE
        /\ rows[r].status = "claimed" => r \in batch \/ rows[r].rule_id = "awaiting_approval"
    BY <1>1, <2>1 DEF IInv, Handled
  <2> QED
    BY <2>1, <2>2, <2>3 DEF Live
<1> QED
  BY <1>1, Invariance, PTL

\* P1, runner.py:358-374: in a run of a seed that is new to the database, the customer of
\* an order pays once at most, and never for a decline no retry is permitted for, in
\* whatever order one instant's rows come and whatever the rolls.
THEOREM OneCapture == Spec => []NoDoubleCapture
<1>1. ASSUME IInv
      PROVE  NoDoubleCapture
  <2>1. SUFFICES ASSUME Fresh, NEW n \in DOMAIN sim.payments
                 PROVE  LET paid == Captures(sim.payments[n].order) IN
                        /\ Cardinality(paid) <= 1
                        /\ sim.payments[n].status = "failed" /\ paid # {} =>
                               sim.payments[n].error_reason \in Retryable \cup {"rolled"}
    BY DEF NoDoubleCapture
  <2> DEFINE order == sim.payments[n].order
             paid == Captures(order)
  <2>2. \A m \in paid : /\ m \in DOMAIN sim.payments
                        /\ sim.payments[m].order = order /\ sim.payments[m].status = "captured"
    BY DEF Captures
  <2>3. \A l, m \in paid : l = m
    BY <1>1, <2>1, <2>2 DEF IInv, Paid
  <2>4. Cardinality(paid) <= 1
    <3>1. CASE paid = {}
      BY <3>1, FS_EmptySet
    <3>2. CASE paid # {}
      <4>1. PICK m : m \in paid
        BY <3>2
      <4>2. paid = {m}
        BY <2>3, <4>1
      <4>3. Cardinality({m}) = 1
        BY FS_Singleton
      <4> HIDE DEF paid
      <4> QED
        BY <4>2, <4>3
    <3> QED
      BY <3>1, <3>2
  <2>5. ASSUME sim.payments[n].status = "failed", paid # {}
        PROVE  sim.payments[n].error_reason \in Retryable \cup {"rolled"}
    <3>1. PICK m : m \in paid
      BY <2>5
    <3>2. \A l \in DOMAIN sim.payments : OfOrder(l)
      BY <1>1 DEF IInv, Simulated
    <3>3. /\ m # order - 1 /\ sim.payments[order - 1].error_reason \in Retryable
      BY <2>2, <3>1, <3>2 DEF OfOrder
    <3>4. n # order - 1 => sim.payments[n].error_reason = "rolled"
      BY <2>1, <2>5, <3>2 DEF OfOrder
    <3> QED
      BY <3>3, <3>4
  <2> QED
    BY <2>4, <2>5
<1> QED
  BY <1>1, Invariance, PTL

\* runner.py:462-490: whatever is planned and whenever it is due, the only rule without
\* an outcome for the case that can keep the gate from allowing an action is the one that
\* asks for a human: consent, quiet hours, caps, budgets and mandates never do.
THEOREM ApprovalOnly == Spec => []OnlyApprovalDefers
<1>1. ASSUME IInv
      PROVE  OnlyApprovalDefers
  <2>1. SUFFICES ASSUME NEW r \in DOMAIN rows, rows[r].verdict \in {"deny", "defer"},
                        rows[r].rule_id \notin DOMAIN STOPPING_OUTCOMES
                 PROVE  rows[r].verdict = "defer" /\ rows[r].rule_id = "awaiting_approval"
    BY DEF OnlyApprovalDefers
  <2>2. rows[r] \in RowRecords
    BY <1>1 DEF IInv, RowsFiled
  <2>3. /\ rows[r].rule_id \in {"already_paid", "max_case_age", "awaiting_approval", NULL}
        /\ rows[r].rule_id = NULL => rows[r].verdict \in {NULL, "allow"}
        /\ rows[r].rule_id = "awaiting_approval" => rows[r].verdict = "defer"
    BY <2>2 DEF RowRecords
  <2>4. {"already_paid", "max_case_age"} \subseteq DOMAIN STOPPING_OUTCOMES
    BY DEF STOPPING_OUTCOMES
  <2>5. rows[r].rule_id # NULL
    BY <2>1, <2>3, BenchmarkConstants
  <2> QED
    BY <2>1, <2>3, <2>4, <2>5
<1> QED
  BY <1>1, Invariance, PTL

-----------------------------------------------------------------------------
(* What a case comes to, step by step.                                     *)

Kept(k) == IncludedSteps(PlaybookOf(k), Source(k).amount)

DueOn(k, i) == DueDates(PlaybookOf(k), Source(k).detected_at)[i]

Permitted(k, i) ==
    PlaybookOf(k).steps[i].channel = "payment_retry" => Source(k).decline \in Retryable

\* The two ways a step can end its case.
Pays(k, i) ==
    /\ PlaybookOf(k).steps[i].channel = "payment_retry" /\ Permitted(k, i) /\ ~NeedsApproval(k)
    /\ <<runs[k[1]], Customer(k), DueOn(k, i)>> \in world

Late(k, i) == DueOn(k, i) - Source(k).detected_at > PlaybookOf(k).max_case_age

Ends(k) == {i \in Kept(k) : Pays(k, i) \/ Late(k, i)}

\* A row the process has claimed and not ended.
InWork(r) == r \in batch \/ (pc \in {"stop", "execute", "attribute"} /\ item = r)

Ran(k) == {i \in Kept(k) : rows[<<k, i>>].status = "done"}

\* A row is worked on at its instant,
Dated(k, i) ==
    /\ <<k, i>> \in DOMAIN rows /\ rows[<<k, i>>].due_at = DueOn(k, i)
    /\ InWork(<<k, i>>) => now = DueOn(k, i)

\* it is executed only if no end of the case comes before it, and then as it is permitted,
Executed(k, i) ==
    rows[<<k, i>>].status \in {"done", "failed"} =>
        /\ DueOn(k, i) <= now /\ ~Late(k, i) /\ ~NeedsApproval(k)
        /\ rows[<<k, i>>].status = "done" <=> Permitted(k, i)
        /\ \A j \in Ends(k) : i <= j

\* and it is cancelled only if one does, or put off for a human.
Dropped(k, i) ==
    rows[<<k, i>>].status = "cancelled" =>
        NeedsApproval(k) \/ Late(k, i) \/ \E j \in Ends(k) : j < i

Waiting(k, i) ==
    rows[<<k, i>>].rule_id = "awaiting_approval" => NeedsApproval(k) /\ ~Late(k, i)

Credited(k, i) ==
    Pays(k, i) /\ rows[<<k, i>>].status = "done" =>
        cases[k].state = "recovered" \/ (pc = "attribute" /\ item = <<k, i>>)

\* What the process knows of the row in hand.
AtStep(k, i) ==
    item = <<k, i>> =>
        /\ pc = "stop" /\ rows[item].rule_id = "already_paid" => cases[k].state = "recovered"
        /\ pc = "execute" => ~Late(k, i)
        /\ pc = "attribute" => Pays(k, i)

StepFollows(k, i) ==
    /\ Dated(k, i)
    /\ Executed(k, i)
    /\ Dropped(k, i)
    /\ Waiting(k, i)
    /\ Credited(k, i)
    /\ AtStep(k, i)

\* How the state of a planned case has come about.
Reasoned(k) ==
    /\ cases[k].state = "awaiting_approval" => NeedsApproval(k)
    /\ cases[k].state = "executing" => ~NeedsApproval(k)
    /\ cases[k].state = "recovered" => \E i \in Kept(k) : Pays(k, i) /\ i \in Ran(k)
    /\ cases[k].state = "expired" => \E i \in Kept(k) : Late(k, i)

Planned(k) ==
    /\ HasPlaybook(k) /\ CanBePlanned(PlaybookOf(k), Source(k).amount)
    /\ cases[k].state \in Begun
    /\ \A r \in RowsOf(k) : StepOf(r) \in Kept(k)
    /\ \A i \in Kept(k) : StepFollows(k, i)
    /\ cases[k].cost_spent = CostOf(PlaybookOf(k), Ran(k))
    /\ Reasoned(k)

CaseFollows(k) ==
    /\ cases[k].opened_at = Source(k).detected_at
    /\ sim.payments[cases[k].source_payment].error_reason = Source(k).decline
    /\ \/ /\ cases[k].state = "detected"
          /\ \/ pc = "plan" /\ CaseOf(item) = k
             \/ Source(k).arm # "control" /\ ~HasPlaybook(k)
       \/ cases[k].state = "holdout" /\ Source(k).arm = "control" /\ cases[k].cost_spent = 0
       \/ Planned(k)

\* Of every own case the process knows no more than its cohort and its rolls do.
Follows == pc # "over" /\ Fresh /\ ~crowded => \A k \in OwnCases : CaseFollows(k)

\* Of two steps of a plan the later one is due later.
LEMMA InOrder ==
    ASSUME StepsApart, CasesFiled, NEW k, Keyed(k), HasPlaybook(k),
           CanBePlanned(PlaybookOf(k), Source(k).amount)
    PROVE  /\ Kept(k) \in SUBSET DOMAIN PlaybookOf(k).steps
           /\ Kept(k) \subseteq Nat
           /\ \A i \in Kept(k) : DueOn(k, i) \in Nat
           /\ \A i, j \in Kept(k) : i < j => DueOn(k, i) < DueOn(k, j)
<1> DEFINE p == PlaybookOf(k)
           t == Source(k).detected_at
           e == DueDates(p, 0)
<1>1. WellFormed(p) /\ t \in Nat /\ Source(k).amount \in Nat
  BY CaseIs DEF CohortCase
<1>2. Kept(k) \in SUBSET DOMAIN p.steps /\ DOMAIN p.steps \subseteq Nat
  BY <1>1, IncludedAre, CostsAreSummable DEF Kept
<1>3. p \in {BaselinePlaybook} \cup {Playbooks[cause] : cause \in DOMAIN Playbooks}
  BY DEF HasPlaybook, PlaybookOf
<1>4. \A i, j \in DOMAIN p.steps : i # j => e[i] # e[j]
  BY <1>3 DEF StepsApart
<1>5. \A i, j \in Kept(k) : i < j => e[i] <= e[j]
  BY DEF CanBePlanned, Kept
<1>6. \A i \in DOMAIN p.steps : e[i] \in Nat /\ DueOn(k, i) = e[i] + t
  BY <1>1, DatesShift DEF DueOn
<1> HIDE DEF p, t, e
<1>7. ASSUME NEW i \in Kept(k), NEW j \in Kept(k), i < j
      PROVE  DueOn(k, i) < DueOn(k, j)
  <2>1. e[i] \in Nat /\ e[j] \in Nat /\ e[i] <= e[j]
    BY <1>2, <1>5, <1>6, <1>7
  <2>2. e[i] # e[j]
    <3>1. i # j
      BY <1>2, <1>7
    <3> QED
      BY <1>2, <1>4, <3>1
  <2>3. DueOn(k, i) = e[i] + t /\ DueOn(k, j) = e[j] + t
    BY <1>2, <1>6
  <2> QED
    BY <1>1, <2>1, <2>2, <2>3
<1>8. \A i \in Kept(k) : DueOn(k, i) \in Nat
  BY <1>1, <1>2, <1>6
<1> QED
  BY <1>2, <1>7, <1>8 DEF p

\* No step of a process changes what its cases come to.
LEMMA SameEnds ==
    ASSUME [Next]_vars, ~StartRun
    PROVE  /\ runs' = runs /\ run' = run /\ world' = world /\ (Fresh' <=> Fresh)
           /\ \A k : /\ Source(k)' = Source(k) /\ (HasPlaybook(k)' <=> HasPlaybook(k))
                     /\ PlaybookOf(k)' = PlaybookOf(k) /\ Kept(k)' = Kept(k)
                     /\ (NeedsApproval(k)' <=> NeedsApproval(k)) /\ Ends(k)' = Ends(k)
                     /\ \A i : /\ DueOn(k, i)' = DueOn(k, i) /\ (Late(k, i)' <=> Late(k, i))
                               /\ (Pays(k, i)' <=> Pays(k, i))
                               /\ (Permitted(k, i)' <=> Permitted(k, i))
<1>1. runs' = runs /\ world' = world
  BY DEF Next, Progress, PopCase, PersistHoldout, Abstain, PersistPlan, SkipClaimed, ClaimDueBatch,
         Gate, Stop, Execute, ExecuteFails, Attribute, Complete, WriteReport, Crash, vars, database
<1>2. /\ run' = run /\ (Fresh' <=> Fresh)
      /\ \A k : /\ Source(k)' = Source(k) /\ Customer(k)' = Customer(k)
                /\ (HasPlaybook(k)' <=> HasPlaybook(k)) /\ PlaybookOf(k)' = PlaybookOf(k)
                /\ (NeedsApproval(k)' <=> NeedsApproval(k))
  BY <1>1, SameRun
<1>3. ASSUME NEW k
      PROVE  /\ Kept(k)' = Kept(k)
             /\ \A i : /\ DueOn(k, i)' = DueOn(k, i) /\ (Permitted(k, i)' <=> Permitted(k, i))
                       /\ (Late(k, i)' <=> Late(k, i)) /\ (Pays(k, i)' <=> Pays(k, i))
  <2>1. Kept(k)' = Kept(k) /\ \A i : DueOn(k, i)' = DueOn(k, i)
    BY <1>2 DEF Kept, DueOn
  <2>2. \A i : (Permitted(k, i)' <=> Permitted(k, i)) /\ (Late(k, i)' <=> Late(k, i))
    BY <1>2, <2>1 DEF Permitted, Late
  <2>3. \A i : Pays(k, i)' <=> Pays(k, i)
    BY <1>1, <1>2, <2>1, <2>2 DEF Pays
  <2> QED
    BY <2>1, <2>2, <2>3
<1>4. \A k : Ends(k)' = Ends(k)
  BY <1>3 DEF Ends
<1> QED
  BY <1>1, <1>2, <1>3, <1>4

\* A process that goes on has not been crowded out, and its clock does not go back.
LEMMA GoesOn ==
    ASSUME IInv, [Next]_vars, ~StartRun, pc' # "over"
    PROVE  /\ CasesFiled /\ RowsFiled /\ Budgeted /\ Scheduled /\ InHand /\ Ages /\ Simulated /\ Paid
           /\ pc # "over" /\ ~WriteReport /\ ~Crash /\ (crowded => crowded')
           /\ now \in Nat /\ now' \in Nat /\ now' >= now
<1>0. CasesFiled /\ RowsFiled /\ Budgeted /\ Scheduled /\ InHand /\ Ages /\ Simulated /\ Paid
  BY DEF IInv
<1>1. ~WriteReport /\ ~Crash
  BY DEF WriteReport, Crash
<1>2. now' \in Nat /\ now' >= now /\ (pc = "over" => UNCHANGED vars)
  BY <1>0, <1>1, ClockIs
<1>3. pc # "over"
  BY <1>2 DEF vars, process
<1>4. crowded => crowded'
  BY <1>1 DEF Next, Progress, PopCase, PersistHoldout, Abstain, PersistPlan, SkipClaimed,
         ClaimDueBatch, Gate, Stop, Execute, ExecuteFails, Attribute, Complete, vars
<1> QED
  BY <1>0, <1>1, <1>2, <1>3, <1>4 DEF Scheduled

\* What is credited is the case in hand.
LEMMA CreditIs ==
    ASSUME IInv, Fresh, Attribute
    PROVE  /\ CaseOf(item) \in OwnCases /\ rows' = rows
           /\ DOMAIN cases' = DOMAIN cases
           /\ \A k \in DOMAIN cases :
                /\ k # CaseOf(item) => cases'[k] = cases[k]
                /\ k = CaseOf(item) => /\ cases'[k].state = "recovered"
                                       /\ cases'[k].cost_spent = cases[k].cost_spent
                                       /\ cases'[k].outcome.kind = "recovered"
                                       /\ cases'[k].outcome.recovered
                                            = sim.payments[sim.next_id].amount
<1>1. PICK k : k = CaseOf(item)
  OBVIOUS
<1>0. PICK p : p = sim.payments[sim.next_id]
  OBVIOUS
<1> DEFINE end == [kind |-> "recovered", reason_code |-> NULL, recovered |-> p.amount]
<1>2. pc = "attribute"
  BY DEF Attribute
<1>3. Matches(p) = {k}
  BY <1>0, <1>1, <1>2, PayerIsMatched
<1>4. PaymentId(sim.next_id) \notin DOMAIN credited
  <2>1. run > 0 /\ sim.next_id \in Nat
    BY <1>2 DEF IInv, InHand, Simulated
  <2>2. \A id \in DOMAIN credited : id[1] = sim.seed => id[2] < sim.next_id
    BY <1>2 DEF IInv, Credits
  <2>3. PaymentId(sim.next_id)[1] = sim.seed /\ PaymentId(sim.next_id)[2] = sim.next_id
    BY DEF PaymentId
  <2> QED
    BY <2>1, <2>2, <2>3
<1>5. \/ PaymentId(sim.next_id) \in DOMAIN credited
      \/ Matches(p) = {}
      \/ \E j \in Matches(p) :
            cases' = [i \in DOMAIN cases |->
                        IF i = j THEN [cases[i] EXCEPT !.state = "recovered", !.outcome = end]
                                 ELSE cases[i]]
  BY <1>0, AttributeIs, ZenonT(40)
<1>6. cases' = [i \in DOMAIN cases |->
                  IF i = k THEN [cases[i] EXCEPT !.state = "recovered", !.outcome = end]
                           ELSE cases[i]]
  BY <1>3, <1>4, <1>5
<1>7. k \in OwnCases /\ cases[k] \in CaseRecords /\ k \in DOMAIN cases
  BY <1>1, <1>2, ItemIs DEF IInv
<1>11. end.kind = "recovered" /\ end.recovered = p.amount
  OBVIOUS
<1> HIDE DEF end
<1>8. cases'[k] = [cases[k] EXCEPT !.state = "recovered", !.outcome = end]
  BY <1>6, <1>7
<1>9. /\ cases'[k].state = "recovered" /\ cases'[k].cost_spent = cases[k].cost_spent
      /\ cases'[k].outcome = end
  BY <1>7, <1>8 DEF CaseRecords
<1>10. rows' = rows
  BY DEF Attribute
<1> QED
  BY <1>0, <1>1, <1>6, <1>7, <1>9, <1>10, <1>11

\* A case changes only while the process has it in hand.
LEMMA OnlyItsCase ==
    ASSUME IInv, Fresh, [Next]_vars, NEW k \in DOMAIN cases, cases'[k] # cases[k]
    PROVE  k = CaseOf(item) /\ pc \in {"plan", "stop", "execute", "attribute"}
<1>1. CaseStep(k)
  BY CaseSteps DEF IInv
<1>2. CASE pc = "attribute"
  <2>1. Attribute
    BY <1>2 DEF Next, Progress, StartRun, PopCase, PersistHoldout, Abstain, PersistPlan,
                SkipClaimed, ClaimDueBatch, Gate, Stop, Execute, ExecuteFails, Complete,
                WriteReport, Crash, vars, database
  <2> QED
    BY <1>2, <2>1, CreditIs
<1>3. CASE pc # "attribute"
  BY <1>1, <1>3 DEF CaseStep
<1> QED
  BY <1>2, <1>3

\* A row that is still to be ended is not due before now, if it does not wait for a human.
LEMMA LiveIsDue ==
    ASSUME IInv, pc # "over", ~crowded, NEW k \in OwnCases, NEW i,
           Dated(k, i), Waiting(k, i), DueOn(k, i) \in Nat,
           rows[<<k, i>>].status \in Live, ~NeedsApproval(k)
    PROVE  DueOn(k, i) >= now
<1>1. PICK r : r = <<k, i>>
  OBVIOUS
<1>2. r \in OwnRows /\ rows[r].due_at = DueOn(k, i) /\ (InWork(r) => now = DueOn(k, i))
  BY <1>1 DEF Dated, OwnRows, OwnCases, Own, CaseOf
<1>3. now \in Nat
  BY DEF IInv, Scheduled
<1>4. CASE rows[r].status = "pending"
  <2>1. PICK e \in heap : e.when = rows[r].due_at
    BY <1>2, <1>4 DEF IInv, Handled
  <2> QED
    BY <1>2, <2>1 DEF IInv, Scheduled
<1>5. CASE rows[r].status = "claimed"
  <2>1. InWork(r) \/ rows[r].rule_id = "awaiting_approval"
    BY <1>2, <1>5 DEF IInv, Handled, InWork
  <2>2. InWork(r)
    BY <1>1, <2>1 DEF Waiting
  <2> QED
    BY <1>2, <1>3, <2>2
<1> QED
  BY <1>1, <1>4, <1>5 DEF Live

\* A planned case whose records stay as they are follows on, if the process takes its rows
\* in hand at their instants only.
LEMMA Unmoved ==
    ASSUME [Next]_vars, ~StartRun, NEW k, Planned(k),
           now \in Nat, now' \in Nat, now' >= now, \A i \in Kept(k) : DueOn(k, i) \in Nat,
           cases'[k] = cases[k],
           \A r \in RowsOf(k)' : r \in RowsOf(k) /\ rows'[r] = rows[r],
           DOMAIN rows \subseteq DOMAIN rows',
           ~(pc = "attribute" /\ CaseOf(item) = k),
           \A i \in Kept(k) : InWork(<<k, i>>)' => now' = DueOn(k, i) /\ AtStep(k, i)'
    PROVE  Planned(k)'
<1>1. /\ Kept(k)' = Kept(k) /\ Source(k)' = Source(k) /\ PlaybookOf(k)' = PlaybookOf(k)
      /\ (HasPlaybook(k)' <=> HasPlaybook(k)) /\ (NeedsApproval(k)' <=> NeedsApproval(k))
      /\ Ends(k)' = Ends(k)
      /\ \A i : /\ DueOn(k, i)' = DueOn(k, i) /\ (Late(k, i)' <=> Late(k, i))
                /\ (Pays(k, i)' <=> Pays(k, i)) /\ (Permitted(k, i)' <=> Permitted(k, i))
  BY SameEnds
<1>2. ASSUME NEW i \in Kept(k)
      PROVE  rows'[<<k, i>>] = rows[<<k, i>>] /\ <<k, i>> \in DOMAIN rows'
  <2>1. <<k, i>> \in DOMAIN rows
    BY <1>2 DEF Planned, StepFollows, Dated
  <2>2. <<k, i>> \in RowsOf(k)'
    BY <2>1 DEF RowsOf, CaseOf
  <2> QED
    BY <2>1, <2>2
<1>3. ASSUME NEW i \in Kept(k)
      PROVE  StepFollows(k, i)'
  <2>1. StepFollows(k, i)
    BY <1>3 DEF Planned
  <2>2. rows'[<<k, i>>] = rows[<<k, i>>] /\ <<k, i>> \in DOMAIN rows'
    BY <1>2, <1>3
  <2>3. Dated(k, i)'
    BY <1>1, <1>3, <2>1, <2>2 DEF StepFollows, Dated
  <2>4. Executed(k, i)'
    <3>1. DueOn(k, i) <= now => DueOn(k, i) <= now'
      BY <1>3
    <3> QED
      BY <1>1, <1>3, <2>1, <2>2, <3>1 DEF StepFollows, Executed
  <2>5. Dropped(k, i)' /\ Waiting(k, i)'
    BY <1>1, <1>3, <2>1, <2>2 DEF StepFollows, Dropped, Waiting
  <2>6. Credited(k, i)'
    BY <1>1, <1>3, <2>1, <2>2 DEF StepFollows, Credited, CaseOf
  <2>7. AtStep(k, i)'
    <3>1. CASE InWork(<<k, i>>)'
      BY <1>3, <3>1
    <3>2. CASE ~InWork(<<k, i>>)'
      BY <3>2 DEF AtStep, InWork
    <3> QED
      BY <3>1, <3>2
  <2> QED
    BY <2>3, <2>4, <2>5, <2>6, <2>7 DEF StepFollows
<1>4. Ran(k)' = Ran(k)
  BY <1>1, <1>2 DEF Ran
<1>5. Reasoned(k)'
  BY <1>1, <1>4 DEF Planned, Reasoned
<1>6. \A r \in RowsOf(k)' : StepOf(r)' \in Kept(k)'
  BY <1>1 DEF Planned, StepOf
<1> QED
  BY <1>1, <1>3, <1>4, <1>5, <1>6 DEF Planned

\* A planned case follows on while the process works on other cases, or on none.
LEMMA QuietFollows ==
    ASSUME IInv, [Next]_vars, StepsApart, Fresh, pc' \in {"loop", "plan", "report"},
           PopCase \/ PersistHoldout \/ Abstain \/ PersistPlan \/ SkipClaimed \/ Complete,
           NEW k \in OwnCases, Planned(k)
    PROVE  Planned(k)'
<1>1. ~StartRun /\ pc' # "over" /\ pc \in {"loop", "plan"}
  BY DEF StartRun, PopCase, PersistHoldout, Abstain, PersistPlan, SkipClaimed, Complete
<1>2. /\ CasesFiled /\ RowsFiled /\ Budgeted /\ Scheduled /\ InHand /\ Ages /\ Simulated /\ Paid
      /\ now \in Nat /\ now' \in Nat /\ now' >= now
  BY <1>1, GoesOn
<1>3. k \in DOMAIN cases /\ Keyed(k) /\ HasPlaybook(k)
      /\ CanBePlanned(PlaybookOf(k), Source(k).amount)
  BY <1>2, FiledAre DEF OwnCases, Planned
<1>4. \A i \in Kept(k) : DueOn(k, i) \in Nat
  BY <1>2, <1>3, InOrder
<1>5. cases[k].state # "detected"
  <2>1. "detected" \notin Begun
    BY DEF Begun
  <2> QED
    BY <2>1 DEF Planned
<1>6. pc = "plan" => k # CaseOf(item)
  BY <1>2, <1>5 DEF InHand
<1>7. cases'[k] = cases[k]
  BY <1>1, <1>3, <1>6, OnlyItsCase
<1>8. \A r \in RowsOf(k)' : r \in RowsOf(k) /\ rows'[r] = rows[r]
  <2>1. CASE PersistPlan
    <3>1. PICK j : j = CaseOf(item)
      OBVIOUS
    <3>2. PICK included : included = IncludedSteps(PlaybookOf(j), Source(j).amount)
      OBVIOUS
    <3>3. /\ DOMAIN rows' = DOMAIN rows \cup {<<j, i>> : i \in included}
          /\ \A r \in DOMAIN rows : rows'[r] = rows[r]
          /\ pc = "plan"
      BY <1>2, <2>1, <3>1, <3>2, PlanIs, ZenonT(40)
    <3>4. j # k
      BY <1>6, <3>1, <3>3
    <3> QED
      BY <3>3, <3>4 DEF RowsOf, CaseOf
  <2>2. CASE ~PersistPlan
    <3>1. rows' = rows
      BY <2>2 DEF PopCase, PersistHoldout, Abstain, SkipClaimed, Complete, database
    <3> QED
      BY <3>1 DEF RowsOf
  <2> QED
    BY <2>1, <2>2
<1>9. DOMAIN rows \subseteq DOMAIN rows'
  BY <1>2, TablesGrow
<1>10. \A r : ~InWork(r)'
  <2>1. batch' = {}
    BY InHandHolds DEF InHand
  <2> QED
    BY <2>1 DEF InWork
<1>11. pc # "attribute"
  BY <1>1
<1> QED
  BY <1>1, <1>2, <1>4, <1>7, <1>8, <1>9, <1>10, <1>11, Unmoved

\* A claim takes the rows of a case at their instant.
LEMMA ClaimFollows ==
    ASSUME IInv, [Next]_vars, StepsApart, Fresh, ~crowded', ClaimDueBatch,
           NEW k \in OwnCases, Planned(k)
    PROVE  Planned(k)'
<1>1. PICK claimed \in SUBSET Due(Popped.when) :
        /\ rows' = [r \in DOMAIN rows |->
                       IF r \in claimed THEN [rows[r] EXCEPT !.status = "claimed"] ELSE rows[r]]
        /\ batch' = {r \in claimed : Own(r)}
        /\ pc' \in {"gate", "loop"}
        /\ ~crowded' => ~crowded
  BY ClaimIs
<1>2. /\ pc = "loop" /\ heap # {} /\ now' = Popped.when /\ cases' = cases /\ item' = item
      /\ ~StartRun /\ pc' # "over" /\ ~crowded
  BY <1>1, ClaimIs DEF StartRun
<1>3. /\ CasesFiled /\ RowsFiled /\ Scheduled /\ InHand /\ Handled
      /\ now \in Nat /\ now' \in Nat /\ now' >= now
  BY <1>2, GoesOn DEF IInv
<1>4. /\ Kept(k)' = Kept(k) /\ Source(k)' = Source(k) /\ PlaybookOf(k)' = PlaybookOf(k)
      /\ (HasPlaybook(k)' <=> HasPlaybook(k)) /\ (NeedsApproval(k)' <=> NeedsApproval(k))
      /\ Ends(k)' = Ends(k)
      /\ \A i : /\ DueOn(k, i)' = DueOn(k, i) /\ (Late(k, i)' <=> Late(k, i))
                /\ (Pays(k, i)' <=> Pays(k, i)) /\ (Permitted(k, i)' <=> Permitted(k, i))
  BY <1>2, SameEnds
<1>5. \A i \in Kept(k) : DueOn(k, i) \in Nat
  BY <1>3, FiledAre, InOrder DEF OwnCases, Planned
<1>6. ASSUME NEW r \in DOMAIN rows
      PROVE  /\ r \in DOMAIN rows' /\ rows'[r].due_at = rows[r].due_at
             /\ rows'[r].rule_id = rows[r].rule_id
             /\ \/ rows'[r].status = rows[r].status /\ r \notin claimed
                \/ rows'[r].status = "claimed" /\ rows[r].status = "pending" /\ r \in claimed
  <2>1. rows[r] \in RowRecords
    BY <1>3, RowIs
  <2>2. r \in claimed => rows[r].status = "pending"
    BY DEF Due
  <2>3. CASE r \in claimed
    <3>1. rows'[r] = [rows[r] EXCEPT !.status = "claimed"]
      BY <1>1, <2>3
    <3> QED
      BY <1>1, <2>1, <2>2, <2>3, <3>1 DEF RowRecords
  <2>4. CASE r \notin claimed
    BY <1>1, <2>4
  <2> QED
    BY <2>3, <2>4
<1>7. ASSUME NEW i \in Kept(k)
      PROVE  StepFollows(k, i)'
  <2>1. PICK r : r = <<k, i>>
    OBVIOUS
  <2>2. StepFollows(k, i) /\ r \in DOMAIN rows /\ rows[r].due_at = DueOn(k, i)
    BY <1>7, <2>1 DEF Planned, StepFollows, Dated
  <2>3. /\ r \in DOMAIN rows' /\ rows'[r].due_at = rows[r].due_at
        /\ rows'[r].rule_id = rows[r].rule_id
        /\ \/ rows'[r].status = rows[r].status
           \/ rows'[r].status = "claimed"
    BY <1>6, <2>2
  <2>4. InWork(r)' => now' = DueOn(k, i)
    <3>1. SUFFICES ASSUME InWork(r)'
                   PROVE  now' = DueOn(k, i)
      OBVIOUS
    <3>2. r \in claimed /\ Own(r)
      BY <1>1, <3>1 DEF InWork
    <3>3. rows[r].status = "pending" /\ rows[r].due_at <= Popped.when
      BY <3>2 DEF Due
    <3>4. PICK e \in heap : e.when = rows[r].due_at
      <4>1. r \in OwnRows
        BY <2>2, <3>2 DEF OwnRows
      <4> QED
        BY <1>2, <1>3, <3>3, <4>1 DEF Handled
    <3>5. Popped.when <= e.when /\ Popped.when \in Nat
      BY <1>2, <1>3, FirstIsPopped
    <3>6. DueOn(k, i) = Popped.when
      BY <1>5, <1>7, <2>2, <3>3, <3>4, <3>5
    <3> QED
      BY <1>2, <3>6
  <2>5. Dated(k, i)'
    BY <1>4, <2>1, <2>2, <2>3, <2>4 DEF Dated
  <2>6. Executed(k, i)'
    <3>1. DueOn(k, i) <= now => DueOn(k, i) <= now'
      BY <1>3, <1>5, <1>7
    <3> QED
      BY <1>4, <2>1, <2>2, <2>3, <3>1 DEF StepFollows, Executed
  <2>7. Dropped(k, i)' /\ Waiting(k, i)'
    BY <1>4, <2>1, <2>2, <2>3 DEF StepFollows, Dropped, Waiting
  <2>8. Credited(k, i)'
    BY <1>2, <1>4, <2>1, <2>2, <2>3 DEF StepFollows, Credited
  <2>9. AtStep(k, i)'
    BY <1>1 DEF AtStep
  <2> QED
    BY <2>5, <2>6, <2>7, <2>8, <2>9 DEF StepFollows
<1>8. Ran(k)' = Ran(k)
  <2>1. \A i \in Kept(k) : rows'[<<k, i>>].status = "done" <=> rows[<<k, i>>].status = "done"
    BY <1>6 DEF Planned, StepFollows, Dated
  <2> QED
    BY <1>4, <2>1 DEF Ran
<1>9. Reasoned(k)'
  BY <1>2, <1>4, <1>8 DEF Planned, Reasoned
<1>10. \A r \in RowsOf(k)' : StepOf(r)' \in Kept(k)'
  BY <1>1, <1>4 DEF Planned, StepOf, RowsOf
<1> QED
  BY <1>2, <1>4, <1>7, <1>8, <1>9, <1>10 DEF Planned

\* The gate decides of a row by the state and the age of its case, and that at its instant.
LEMMA GateFollows ==
    ASSUME IInv, [Next]_vars, StepsApart, Fresh, ~crowded, Gate,
           NEW k \in OwnCases, Planned(k), cases[k].opened_at = Source(k).detected_at
    PROVE  Planned(k)'
<1>1. PICK s : s = item'
  OBVIOUS
<1> DEFINE d == Evaluate(ActionOf(s), Context(CaseOf(s)))
<1>2. ~StartRun /\ pc' # "over" /\ pc' # "attribute" /\ pc = "gate"
      /\ UNCHANGED <<runs, now, cases, crowded>>
  BY DEF Gate, StartRun
<1>3. /\ CasesFiled /\ RowsFiled /\ Budgeted /\ Scheduled /\ InHand /\ Ages /\ Simulated /\ Paid
      /\ now \in Nat /\ now' \in Nat /\ now' >= now
  BY <1>2, GoesOn
<1>4. /\ s \in batch /\ s \in DOMAIN rows /\ batch' = batch \ {s} /\ Decided(s, d)
      /\ rows' = [rows EXCEPT ![s].verdict = d.verdict, ![s].rule_id = d.rule_id]
      /\ pc' = CASE d.rule_id \in {"already_paid", "max_case_age"} -> "stop"
                 [] d.verdict = "allow" -> "execute"
                 [] OTHER -> IF batch = {s} THEN "loop" ELSE "gate"
  BY <1>1, <1>3, GateIs
<1> HIDE DEF d
<1>5. \A i \in Kept(k) : DueOn(k, i) \in Nat
  BY <1>3, FiledAre, InOrder DEF OwnCases, Planned
<1>6. \A r \in DOMAIN rows : r # s => rows'[r] = rows[r]
  BY <1>4
<1>7. DOMAIN rows' = DOMAIN rows
  BY <1>4
<1>8. CASE CaseOf(s) # k
  <2>1. \A r \in RowsOf(k)' : r \in RowsOf(k) /\ rows'[r] = rows[r]
    BY <1>6, <1>7, <1>8 DEF RowsOf, CaseOf
  <2>2. ASSUME NEW i \in Kept(k), InWork(<<k, i>>)'
        PROVE  now' = DueOn(k, i) /\ AtStep(k, i)'
    <3>1. item' # <<k, i>>
      BY <1>1, <1>8 DEF CaseOf
    <3>2. <<k, i>> \in batch
      BY <1>4, <2>2, <3>1 DEF InWork
    <3>3. now = DueOn(k, i)
      BY <2>2, <3>2 DEF InWork, Planned, StepFollows, Dated
    <3> QED
      BY <1>2, <3>1, <3>3 DEF AtStep
  <2> QED
    BY <1>2, <1>3, <1>5, <1>7, <2>1, <2>2, Unmoved
<1>9. CASE CaseOf(s) = k
  <2>1. /\ Kept(k)' = Kept(k) /\ Source(k)' = Source(k) /\ PlaybookOf(k)' = PlaybookOf(k)
        /\ (HasPlaybook(k)' <=> HasPlaybook(k)) /\ (NeedsApproval(k)' <=> NeedsApproval(k))
        /\ Ends(k)' = Ends(k)
        /\ \A i : /\ DueOn(k, i)' = DueOn(k, i) /\ (Late(k, i)' <=> Late(k, i))
                  /\ (Pays(k, i)' <=> Pays(k, i)) /\ (Permitted(k, i)' <=> Permitted(k, i))
    BY <1>2, SameEnds
  <2>2. PICK l : l = StepOf(s)
    OBVIOUS
  <2>3. s = <<k, l>> /\ l \in Kept(k) /\ rows[s] \in RowRecords
    <3>1. s = <<CaseOf(s), StepOf(s)>> /\ rows[s] \in RowRecords
      BY <1>3, <1>4, RowIs
    <3>2. StepOf(s) \in Kept(k)
      BY <1>4, <1>9 DEF Planned, RowsOf
    <3> QED
      BY <1>9, <2>2, <3>1, <3>2
  <2>4. now = DueOn(k, l)
    BY <1>4, <2>3 DEF Planned, StepFollows, Dated, InWork
  <2>5. /\ rows'[s].status = rows[s].status /\ rows'[s].due_at = rows[s].due_at
        /\ rows'[s].rule_id = d.rule_id
    BY <1>4, <2>3 DEF RowRecords
  <2>6. rows[s].status # "done" /\ rows[s].status # "failed"
    BY <1>3, <1>4 DEF InHand
  <2>7. TooOld(Context(k)) <=> Late(k, l)
    BY <2>4, TooOldIs DEF Late
  <2>8. /\ d.rule_id = "awaiting_approval" => NeedsApproval(k) /\ ~Late(k, l)
        /\ d.rule_id = "already_paid" => cases[k].state = "recovered"
        /\ pc' = "execute" => ~Late(k, l)
    <3>1. "awaiting_approval" \notin {"already_paid", "max_case_age"}
          /\ NULL \notin {"already_paid", "max_case_age", "awaiting_approval"}
      BY NullIsNoRule, RulesAre
    <3>2. cases[k].state = "awaiting_approval" => NeedsApproval(k)
      BY DEF Planned, Reasoned
    <3>3. d.rule_id = "awaiting_approval" => NeedsApproval(k) /\ ~Late(k, l)
      BY <1>4, <1>9, <2>7, <3>1, <3>2 DEF Decided
    <3>4. d.rule_id = "already_paid" => cases[k].state = "recovered"
      BY <1>4, <1>9, <3>1 DEF Decided
    <3>5. pc' = "execute" => d.verdict = "allow"
      BY <1>4
    <3>6. d.verdict = "allow" => ~Late(k, l)
      BY <1>4, <1>9, <2>7 DEF Decided
    <3> QED
      BY <3>3, <3>4, <3>5, <3>6
  <2>9. ASSUME NEW i \in Kept(k)
        PROVE  StepFollows(k, i)'
    <3>1. PICK r : r = <<k, i>>
      OBVIOUS
    <3>2. StepFollows(k, i) /\ r \in DOMAIN rows /\ rows[r].due_at = DueOn(k, i)
      BY <2>9, <3>1 DEF Planned, StepFollows, Dated
    <3>3. /\ r \in DOMAIN rows' /\ rows'[r].due_at = rows[r].due_at
          /\ rows'[r].status = rows[r].status
          /\ r # s => rows'[r].rule_id = rows[r].rule_id
          /\ r = s => rows'[r].rule_id = d.rule_id /\ i = l
      BY <1>6, <1>7, <2>3, <2>5, <3>1, <3>2
    <3>4. InWork(r)' => InWork(r)
      BY <1>1, <1>4 DEF InWork
    <3>5. Dated(k, i)'
      BY <1>2, <2>1, <3>1, <3>2, <3>3, <3>4 DEF StepFollows, Dated
    <3>6. Executed(k, i)'
      BY <1>2, <2>1, <3>1, <3>2, <3>3 DEF StepFollows, Executed
    <3>7. Dropped(k, i)'
      BY <2>1, <3>1, <3>2, <3>3 DEF StepFollows, Dropped
    <3>8. Waiting(k, i)'
      BY <2>1, <2>8, <3>1, <3>2, <3>3 DEF StepFollows, Waiting
    <3>9. Credited(k, i)'
      BY <1>2, <2>1, <3>1, <3>2, <3>3 DEF StepFollows, Credited
    <3>10. AtStep(k, i)'
      BY <1>1, <1>2, <2>1, <2>3, <2>8, <3>1, <3>3 DEF AtStep
    <3> QED
      BY <3>5, <3>6, <3>7, <3>8, <3>9, <3>10 DEF StepFollows
  <2>10. Ran(k)' = Ran(k)
    <3>1. \A i \in Kept(k) : rows'[<<k, i>>].status = rows[<<k, i>>].status
      BY <1>6, <2>5 DEF Planned, StepFollows, Dated
    <3> QED
      BY <2>1, <3>1 DEF Ran
  <2>11. Reasoned(k)'
    BY <1>2, <2>1, <2>10 DEF Planned, Reasoned
  <2>12. \A r \in RowsOf(k)' : StepOf(r)' \in Kept(k)'
    BY <1>7, <2>1 DEF Planned, StepOf, RowsOf
  <2> QED
    BY <1>2, <2>1, <2>9, <2>10, <2>11, <2>12 DEF Planned
<1> QED
  BY <1>8, <1>9

\* A stop drops what is left of its case, and that comes after an end of it.
LEMMA StopFollows ==
    ASSUME IInv, [Next]_vars, StepsApart, Fresh, ~crowded, Stop,
           NEW k \in OwnCases, Planned(k), cases[k].opened_at = Source(k).detected_at
    PROVE  Planned(k)'
<1>2. ~StartRun /\ pc' # "over" /\ pc = "stop" /\ pc' \in {"loop", "gate"}
  BY DEF Stop, StartRun, Onward
<1>3. /\ CasesFiled /\ RowsFiled /\ Budgeted /\ Scheduled /\ InHand /\ Ages /\ Simulated /\ Paid
      /\ now \in Nat /\ now' \in Nat /\ now' >= now /\ pc # "over"
  BY <1>2, GoesOn
<1>4. /\ UNCHANGED <<runs, now, batch, item, crowded>>
      /\ rows' = [r \in DOMAIN rows |->
                     IF CaseOf(r) = CaseOf(item) /\ rows[r].status \in Live
                     THEN [rows[r] EXCEPT !.status = "cancelled"] ELSE rows[r]]
      /\ \/ cases' = cases /\ cases[CaseOf(item)].state \in Terminal
         \/ /\ rows[item].rule_id = "max_case_age"
            /\ cases' = [cases EXCEPT
                  ![CaseOf(item)].state = "expired",
                  ![CaseOf(item)].outcome = [kind |-> "expired", recovered |-> 0,
                                             reason_code |-> "max_case_age"]]
            /\ cases[CaseOf(item)].state \notin Terminal
  BY <1>3, StopIs
<1>5. /\ Kept(k) \subseteq Nat /\ \A i \in Kept(k) : DueOn(k, i) \in Nat
      /\ \A i, j \in Kept(k) : i < j => DueOn(k, i) < DueOn(k, j)
  BY <1>3, FiledAre, InOrder DEF OwnCases, Planned
<1>6. DOMAIN rows' = DOMAIN rows
  BY <1>4
<1>7. CASE CaseOf(item) # k
  <2>1. \A r \in RowsOf(k)' : r \in RowsOf(k) /\ rows'[r] = rows[r]
    BY <1>4, <1>7 DEF RowsOf, CaseOf
  <2>2. ASSUME NEW i \in Kept(k), InWork(<<k, i>>)'
        PROVE  now' = DueOn(k, i) /\ AtStep(k, i)'
    <3>1. item # <<k, i>> /\ item' # <<k, i>>
      BY <1>4, <1>7 DEF CaseOf
    <3>2. <<k, i>> \in batch
      BY <1>4, <2>2, <3>1 DEF InWork
    <3>3. now = DueOn(k, i)
      BY <2>2, <3>2 DEF InWork, Planned, StepFollows, Dated
    <3> QED
      BY <1>4, <3>1, <3>3 DEF AtStep
  <2>3. cases'[k] = cases[k]
    BY <1>7, OnlyItsCase DEF OwnCases
  <2> QED
    BY <1>2, <1>3, <1>5, <1>6, <2>1, <2>2, <2>3, Unmoved
<1>8. CASE CaseOf(item) = k
  <2>1. /\ Kept(k)' = Kept(k) /\ Source(k)' = Source(k) /\ PlaybookOf(k)' = PlaybookOf(k)
        /\ (HasPlaybook(k)' <=> HasPlaybook(k)) /\ (NeedsApproval(k)' <=> NeedsApproval(k))
        /\ Ends(k)' = Ends(k)
        /\ \A i : /\ DueOn(k, i)' = DueOn(k, i) /\ (Late(k, i)' <=> Late(k, i))
                  /\ (Pays(k, i)' <=> Pays(k, i)) /\ (Permitted(k, i)' <=> Permitted(k, i))
    BY <1>2, SameEnds
  <2>2. PICK l : l = StepOf(item)
    OBVIOUS
  <2>3. item = <<k, l>> /\ l \in Kept(k) /\ item \in DOMAIN rows
    <3>1. item \in DOMAIN rows
      BY <1>2, <1>3, ItemIs
    <3>2. item = <<CaseOf(item), StepOf(item)>>
      BY <1>3, <3>1, RowIs
    <3>3. StepOf(item) \in Kept(k)
      BY <1>8, <3>1 DEF Planned, RowsOf
    <3> QED
      BY <1>8, <2>2, <3>1, <3>2, <3>3
  <2>4. now = DueOn(k, l) /\ AtStep(k, l)
    BY <1>2, <2>3 DEF Planned, StepFollows, Dated, InWork
  <2>5. \/ rows[item].rule_id = "already_paid" /\ cases[k].state = "recovered"
        \/ rows[item].rule_id = "max_case_age" /\ Late(k, l)
    <3>1. TooOld(Context(k)) <=> Late(k, l)
      BY <2>4, TooOldIs DEF Late
    <3>2. \/ rows[item].rule_id = "already_paid"
          \/ rows[item].rule_id = "max_case_age" /\ TooOld(Context(k))
      BY <1>2, <1>3, <1>8 DEF InHand
    <3> QED
      BY <1>2, <2>3, <2>4, <3>1, <3>2 DEF AtStep
  <2>6. ASSUME NEW i \in Kept(k), rows[<<k, i>>].status \in Live
        PROVE  NeedsApproval(k) \/ Late(k, i) \/ \E j \in Ends(k) : j < i
    <3>1. SUFFICES ASSUME ~NeedsApproval(k)
                   PROVE  Late(k, i) \/ \E j \in Ends(k) : j < i
      OBVIOUS
    <3>2. DueOn(k, i) >= now
      <4>1. Dated(k, i) /\ Waiting(k, i)
        BY <2>6 DEF Planned, StepFollows
      <4> QED
        BY <1>3, <1>5, <2>6, <3>1, <4>1, LiveIsDue
    <3>3. CASE rows[item].rule_id = "max_case_age" /\ Late(k, l)
      <4>1. l \in Ends(k)
        BY <2>3, <3>3 DEF Ends
      <4>2. ~(i < l)
        BY <1>5, <2>3, <2>4, <2>6, <3>2
      <4>3. i = l \/ l < i
        BY <1>5, <2>3, <2>6, <4>2
      <4> QED
        BY <3>3, <4>1, <4>3
    <3>4. CASE cases[k].state = "recovered"
      <4>1. PICK j \in Kept(k) : Pays(k, j) /\ j \in Ran(k)
        BY <3>4 DEF Planned, Reasoned
      <4>2. DueOn(k, j) <= now /\ j \in Ends(k) /\ rows[<<k, j>>].status = "done"
        BY <4>1 DEF Ran, Ends, Planned, StepFollows, Executed
      <4>3. ~(i < j)
        BY <1>3, <1>5, <2>6, <3>2, <4>2
      <4>4. i # j
        BY <2>6, <4>2 DEF Live
      <4>5. j < i
        BY <1>5, <2>6, <4>3, <4>4
      <4> QED
        BY <4>2, <4>5
    <3> QED
      BY <2>5, <3>3, <3>4
  <2>7. ASSUME NEW r \in DOMAIN rows, CaseOf(r) = k
        PROVE  /\ r \in DOMAIN rows' /\ rows'[r].due_at = rows[r].due_at
               /\ rows'[r].rule_id = rows[r].rule_id
               /\ \/ rows'[r].status = rows[r].status /\ rows[r].status \notin Live
                  \/ rows'[r].status = "cancelled" /\ rows[r].status \in Live
    <3>1. rows[r] \in RowRecords
      BY <1>3, RowIs
    <3>2. rows[r].status \in Live => rows'[r] = [rows[r] EXCEPT !.status = "cancelled"]
      BY <1>4, <1>8, <2>7
    <3>3. rows[r].status \notin Live => rows'[r] = rows[r]
      BY <1>4, <2>7
    <3> QED
      BY <1>6, <3>1, <3>2, <3>3 DEF RowRecords
  <2>8. /\ cases'[k].cost_spent = cases[k].cost_spent
        /\ \/ cases'[k].state = cases[k].state
           \/ /\ cases'[k].state = "expired" /\ cases[k].state # "recovered" /\ Late(k, l)
    <3>1. cases[k] \in CaseRecords /\ k \in DOMAIN cases
      BY <1>3, FiledAre DEF OwnCases
    <3>2. CASE cases' = cases
      BY <3>2
    <3>3. CASE cases' # cases
      <4> DEFINE end == [kind |-> "expired", recovered |-> 0, reason_code |-> "max_case_age"]
      <4>1. /\ rows[item].rule_id = "max_case_age" /\ cases[k].state \notin Terminal
            /\ cases' = [cases EXCEPT ![k].state = "expired", ![k].outcome = end]
        BY <1>4, <1>8, <3>3
      <4> HIDE DEF end
      <4>2. cases'[k] = [cases[k] EXCEPT !.state = "expired", !.outcome = end]
        BY <3>1, <4>1
      <4>3. cases'[k].state = "expired" /\ cases'[k].cost_spent = cases[k].cost_spent
        BY <3>1, <4>2 DEF CaseRecords
      <4>4. cases[k].state # "recovered"
        BY <4>1, StatesAre
      <4> QED
        BY <2>5, <4>3, <4>4
    <3> QED
      BY <3>2, <3>3
  <2>9. ASSUME NEW i \in Kept(k)
        PROVE  StepFollows(k, i)'
    <3>1. PICK r : r = <<k, i>>
      OBVIOUS
    <3>2. StepFollows(k, i) /\ r \in DOMAIN rows /\ CaseOf(r) = k
      BY <2>9, <3>1 DEF Planned, StepFollows, Dated, CaseOf
    <3>3. /\ r \in DOMAIN rows' /\ rows'[r].due_at = rows[r].due_at
          /\ rows'[r].rule_id = rows[r].rule_id
          /\ \/ rows'[r].status = rows[r].status /\ rows[r].status \notin Live
             \/ rows'[r].status = "cancelled" /\ rows[r].status \in Live
      BY <2>7, <3>2
    <3>4. InWork(r)' => InWork(r)
      BY <1>2, <1>4 DEF InWork
    <3>5. Dated(k, i)'
      BY <1>4, <2>1, <3>1, <3>2, <3>3, <3>4 DEF StepFollows, Dated
    <3>6. Executed(k, i)'
      BY <1>4, <2>1, <3>1, <3>2, <3>3 DEF StepFollows, Executed
    <3>7. Dropped(k, i)'
      <4>1. CASE rows[r].status \in Live
        BY <2>1, <2>6, <2>9, <3>1, <4>1 DEF Dropped
      <4>2. CASE rows[r].status \notin Live
        BY <2>1, <3>1, <3>2, <3>3, <4>2 DEF StepFollows, Dropped
      <4> QED
        BY <4>1, <4>2
    <3>8. Waiting(k, i)'
      BY <2>1, <3>1, <3>2, <3>3 DEF StepFollows, Waiting
    <3>9. Credited(k, i)'
      BY <1>2, <2>1, <2>8, <3>1, <3>2, <3>3 DEF StepFollows, Credited
    <3>10. AtStep(k, i)'
      BY <1>2 DEF AtStep
    <3> QED
      BY <3>5, <3>6, <3>7, <3>8, <3>9, <3>10 DEF StepFollows
  <2>10. Ran(k)' = Ran(k)
    <3>1. ASSUME NEW i \in Kept(k)
          PROVE  rows'[<<k, i>>].status = "done" <=> rows[<<k, i>>].status = "done"
      <4>1. <<k, i>> \in DOMAIN rows /\ CaseOf(<<k, i>>) = k
        BY <3>1 DEF Planned, StepFollows, Dated, CaseOf
      <4>2. "done" \notin Live /\ "done" # "cancelled"
        BY DEF Live
      <4> QED
        BY <2>7, <4>1, <4>2
    <3> QED
      BY <2>1, <3>1 DEF Ran
  <2>11. Reasoned(k)'
    BY <2>1, <2>3, <2>8, <2>10 DEF Planned, Reasoned
  <2>12. \A r \in RowsOf(k)' : StepOf(r)' \in Kept(k)'
    BY <1>6, <2>1 DEF Planned, StepOf, RowsOf
  <2>13. cases'[k].state \in Begun
    BY <2>8 DEF Planned, Begun
  <2> QED
    BY <2>1, <2>8, <2>9, <2>10, <2>11, <2>12, <2>13 DEF Planned
<1> QED
  BY <1>7, <1>8

\* A retry is of a payment that may be retried, and captured as its instant's roll has it.
LEMMA RollIs ==
    ASSUME CasesFiled, RowsFiled, InHand, Simulated, Execute, NEW k, k = CaseOf(item)
    PROVE  /\ StepIn(item).channel = "payment_retry" =>
                sim.payments[cases[k].source_payment].error_reason \in Retryable
           /\ pc' = "attribute" <=> /\ StepIn(item).channel = "payment_retry"
                                    /\ <<runs[k[1]], Customer(k), now>> \in world
<1> DEFINE n == cases[k].source_payment
           m == sim.next_id + 1
           old == sim.payments[n]
<1>1. PICK channel : channel = StepIn(item).channel
  OBVIOUS
<1>2. k \in OwnCases /\ pc = "execute" /\ ActionOf(item).channel = channel
  BY <1>1, ItemIs DEF Execute, ActionOf
<1>3. /\ n \in DOMAIN sim.payments /\ old.customer = Customer(k) /\ old \in Payments
      /\ sim.seed = runs[k[1]]
      /\ sim = [seed |-> sim.seed, next_id |-> sim.next_id, payments |-> sim.payments]
  BY <1>2 DEF Simulated, OwnCases, InHand
<1>4. Onward # "attribute"
  BY DEF Onward
<1>5. CASE channel = "payment_retry"
  <2> DEFINE captured == AttemptOutcome(old.customer, now)
             new == [old EXCEPT !.status = IF captured THEN "captured" ELSE "failed",
                                !.error_reason = IF captured THEN "" ELSE "rolled",
                                !.created_at = now]
             all == [i \in DOMAIN sim.payments \cup {m} |-> IF i = m THEN new ELSE sim.payments[i]]
  <2>1. sim' = [sim EXCEPT !.next_id = m, !.payments = all]
    BY <1>2, <1>5 DEF Execute, RetryPayment, Recorded
  <2>2. old.error_reason \in Retryable
    BY <1>2, <1>5 DEF Execute, CanRetry
  <2>3. captured <=> <<runs[k[1]], Customer(k), now>> \in world
    BY <1>3 DEF AttemptOutcome
  <2>4. new.status = IF captured THEN "captured" ELSE "failed"
    <3> HIDE DEF old, captured
    <3> QED
      BY <1>3 DEF Payments, old
  <2> HIDE DEF new, captured
  <2>5. all[m] = new
    OBVIOUS
  <2> HIDE DEF all
  <2>6. sim'.next_id = m /\ sim'.payments = all
    BY <1>3, <2>1
  <2>7. sim'.payments[sim'.next_id].status = IF captured THEN "captured" ELSE "failed"
    BY <2>4, <2>5, <2>6
  <2>8. pc' = IF sim'.payments[sim'.next_id].status = "captured" THEN "attribute" ELSE Onward
    BY <1>2, <1>5 DEF Execute
  <2> QED
    BY <1>1, <1>4, <1>5, <2>2, <2>3, <2>7, <2>8
<1>6. CASE channel # "payment_retry"
  BY <1>1, <1>2, <1>4, <1>6 DEF Execute
<1> QED
  BY <1>5, <1>6

\* What is refused is what may not be retried.
LEMMA RefusalIs ==
    ASSUME CasesFiled, RowsFiled, InHand, Simulated, ExecuteFails, NEW k, k = CaseOf(item)
    PROVE  /\ StepIn(item).channel = "payment_retry"
           /\ sim.payments[cases[k].source_payment].error_reason \notin Retryable
<1> DEFINE n == cases[k].source_payment
<1>1. k \in OwnCases /\ StepIn(item).channel = "payment_retry" /\ ~CanRetry(n)
  BY ItemIs DEF ExecuteFails, ActionOf
<1>2. n \in DOMAIN sim.payments /\ sim.payments[n].order = n + 1 /\ OfOrder(n) /\ n \in Nat
  BY <1>1 DEF Simulated
<1>3. (n + 1) - 1 = n
  BY <1>2
<1>4. sim.payments[n].status = "failed"
  BY <1>2, <1>3 DEF OfOrder
<1> QED
  BY <1>1, <1>4 DEF CanRetry

\* What is executed is executed before every end of its case but its own.
LEMMA NoEndBefore ==
    ASSUME IInv, StepsApart, pc = "execute", ~crowded,
           NEW k \in OwnCases, Planned(k), NEW l \in Kept(k), item = <<k, l>>
    PROVE  \A j \in Ends(k) : l <= j
<1>1. CasesFiled /\ RowsFiled /\ InHand /\ now \in Nat
  BY DEF IInv, Scheduled
<1>2. /\ Kept(k) \subseteq Nat /\ \A i \in Kept(k) : DueOn(k, i) \in Nat
      /\ \A i, j \in Kept(k) : i < j => DueOn(k, i) < DueOn(k, j)
  BY <1>1, FiledAre, InOrder DEF OwnCases, Planned
<1>3. cases[k].state = "executing" /\ ~NeedsApproval(k) /\ now = DueOn(k, l)
  <2>1. cases[k].state = "executing"
    BY <1>1 DEF InHand, CaseOf
  <2> QED
    BY <2>1 DEF Planned, Reasoned, StepFollows, Dated, InWork
<1>4. SUFFICES ASSUME NEW j \in Ends(k), ~(l <= j)
               PROVE  FALSE
  OBVIOUS
<1>5. j \in Kept(k) /\ (Pays(k, j) \/ Late(k, j)) /\ j < l /\ DueOn(k, j) < now
  BY <1>2, <1>3, <1>4 DEF Ends
<1>6. PICK r : r = <<k, j>>
  OBVIOUS
<1>7. StepFollows(k, j) /\ r \in DOMAIN rows
  BY <1>5, <1>6 DEF Planned, StepFollows, Dated
<1>8. rows[r].status \in {"pending", "claimed", "done", "failed", "cancelled"}
      /\ (rows[r].status = "cancelled" => cases[k].state \in Terminal)
  BY <1>1, <1>6, <1>7, RowIs DEF RowsFiled, RowRecords, CaseOf
<1>9. rows[r].status \notin {"pending", "claimed"}
  <2>1. SUFFICES ASSUME rows[r].status \in Live
                 PROVE  FALSE
    BY DEF Live
  <2>2. DueOn(k, j) >= now
    BY <1>2, <1>3, <1>5, <1>6, <1>7, <2>1, LiveIsDue DEF StepFollows
  <2> QED
    BY <1>1, <1>2, <1>5, <2>2
<1>10. rows[r].status # "cancelled"
  <2>1. "executing" \notin Terminal
    BY StatesAre DEF Eligible
  <2> QED
    BY <1>3, <1>8, <2>1
<1>11. rows[r].status # "failed"
  BY <1>5, <1>6, <1>7 DEF StepFollows, Executed, Pays
<1>12. rows[r].status # "done"
  <2>1. SUFFICES ASSUME rows[r].status = "done"
                 PROVE  FALSE
    OBVIOUS
  <2>2. Pays(k, j)
    BY <1>5, <1>6, <1>7, <2>1 DEF StepFollows, Executed
  <2> QED
    BY <1>3, <1>6, <1>7, <2>1, <2>2 DEF StepFollows, Credited
<1> QED
  BY <1>8, <1>9, <1>10, <1>11, <1>12

\* What is executed costs what it costs.
LEMMA RanCosts ==
    ASSUME NEW p, WellFormed(p), NEW S \in SUBSET DOMAIN p.steps, NEW l \in DOMAIN p.steps, l \notin S
    PROVE  CostOf(p, S \cup {l}) = CostOf(p, S) + p.steps[l].cost
<1>1. S \cup {l} \in SUBSET DOMAIN p.steps /\ (S \cup {l}) \ {l} = S
  OBVIOUS
<1>2. CostOf(p, S \cup {l}) = p.steps[l].cost + CostOf(p, (S \cup {l}) \ {l})
  BY <1>1, CostLaws
<1>3. CostOf(p, S) \in Nat /\ p.steps[l].cost \in Nat
  BY CostLaws DEF WellFormed
<1>4. CostOf(p, S \cup {l}) = p.steps[l].cost + CostOf(p, S)
  <2> DEFINE T == (S \cup {l}) \ {l}
  <2>1. T = S /\ CostOf(p, S \cup {l}) = p.steps[l].cost + CostOf(p, T)
    BY <1>1, <1>2
  <2> HIDE DEF T
  <2> QED
    BY <2>1
<1> QED
  BY <1>3, <1>4

\* What Execute and ExecuteFails do to a case that is not in hand: nothing.
LEMMA OthersFollow ==
    ASSUME IInv, [Next]_vars, StepsApart, Fresh, Execute \/ ExecuteFails \/ Attribute,
           NEW k \in OwnCases, Planned(k), CaseOf(item) # k
    PROVE  Planned(k)'
<1>1. /\ ~StartRun /\ pc' # "over" /\ pc \in {"execute", "attribute"}
      /\ UNCHANGED <<now, batch, item>> /\ DOMAIN rows' = DOMAIN rows
      /\ \A r \in DOMAIN rows : r # item => rows'[r] = rows[r]
  BY DEF Execute, ExecuteFails, Attribute, StartRun, Onward
<1>2. CasesFiled /\ RowsFiled /\ now \in Nat /\ now' \in Nat /\ now' >= now
  BY <1>1, GoesOn
<1>3. \A i \in Kept(k) : DueOn(k, i) \in Nat
  BY <1>2, FiledAre, InOrder DEF OwnCases, Planned
<1>4. cases'[k] = cases[k]
  BY OnlyItsCase DEF OwnCases
<1>5. \A r \in RowsOf(k)' : r \in RowsOf(k) /\ rows'[r] = rows[r]
  BY <1>1 DEF RowsOf, CaseOf
<1>6. ASSUME NEW i \in Kept(k), InWork(<<k, i>>)'
      PROVE  now' = DueOn(k, i) /\ AtStep(k, i)'
  <2>1. item # <<k, i>> /\ item' # <<k, i>>
    BY <1>1 DEF CaseOf
  <2>2. <<k, i>> \in batch
    BY <1>1, <1>6, <2>1 DEF InWork
  <2>3. now = DueOn(k, i)
    BY <1>6, <2>2 DEF InWork, Planned, StepFollows, Dated
  <2> QED
    BY <1>1, <2>1, <2>3 DEF AtStep
<1> QED
  BY <1>1, <1>2, <1>3, <1>4, <1>5, <1>6, Unmoved

\* An execution, or the gateway's refusal of one, is what the cohort and the rolls say of
\* its step.
LEMMA ExecuteFollows ==
    ASSUME IInv, [Next]_vars, StepsApart, Fresh, ~crowded, Execute \/ ExecuteFails,
           NEW k \in OwnCases, Planned(k),
           sim.payments[cases[k].source_payment].error_reason = Source(k).decline
    PROVE  Planned(k)'
<1>1. /\ ~StartRun /\ pc' # "over" /\ pc = "execute" /\ pc' \in {"loop", "gate", "attribute"}
      /\ UNCHANGED <<now, batch, item>> /\ DOMAIN rows' = DOMAIN rows
      /\ \A r \in DOMAIN rows : r # item => rows'[r] = rows[r]
  BY DEF Execute, ExecuteFails, StartRun, Onward
<1>2. /\ CasesFiled /\ RowsFiled /\ Budgeted /\ Scheduled /\ InHand /\ Ages /\ Simulated /\ Paid
      /\ now \in Nat /\ now' \in Nat /\ now' >= now
  BY <1>1, GoesOn
<1>3. CASE CaseOf(item) # k
  BY <1>3, OthersFollow
<1>4. CASE CaseOf(item) = k
  <2>1. /\ Kept(k)' = Kept(k) /\ Source(k)' = Source(k) /\ PlaybookOf(k)' = PlaybookOf(k)
        /\ (HasPlaybook(k)' <=> HasPlaybook(k)) /\ (NeedsApproval(k)' <=> NeedsApproval(k))
        /\ Ends(k)' = Ends(k)
        /\ \A i : /\ DueOn(k, i)' = DueOn(k, i) /\ (Late(k, i)' <=> Late(k, i))
                  /\ (Pays(k, i)' <=> Pays(k, i)) /\ (Permitted(k, i)' <=> Permitted(k, i))
    BY <1>1, SameEnds
  <2>2. PICK l : l = StepOf(item)
    OBVIOUS
  <2>3. /\ item = <<k, l>> /\ l \in Kept(k) /\ item \in DOMAIN rows /\ rows[item] \in RowRecords
        /\ StepIn(item) = PlaybookOf(k).steps[l]
    <3>1. item \in DOMAIN rows
      BY <1>1, <1>2, ItemIs
    <3>2. item = <<CaseOf(item), StepOf(item)>> /\ rows[item] \in RowRecords
          /\ StepIn(item) = PlaybookOf(CaseOf(item)).steps[StepOf(item)]
      BY <1>2, <3>1, RowIs
    <3>3. StepOf(item) \in Kept(k)
      BY <1>4, <3>1 DEF Planned, RowsOf
    <3> QED
      BY <1>4, <2>2, <3>1, <3>2, <3>3
  <2>4. /\ now = DueOn(k, l) /\ now \in Nat /\ ~Late(k, l)
        /\ cases[k].state = "executing" /\ ~NeedsApproval(k) /\ rows[item].status = "claimed"
    <3>1. now = DueOn(k, l) /\ ~Late(k, l)
      BY <1>1, <2>3 DEF Planned, StepFollows, Dated, AtStep, InWork
    <3>2. cases[k].state = "executing" /\ rows[item].status = "claimed"
      BY <1>1, <1>2, <1>4 DEF InHand
    <3> QED
      BY <1>2, <3>1, <3>2 DEF Planned, Reasoned
  <2>5. \A j \in Ends(k) : l <= j
    BY <1>1, <2>3, NoEndBefore
  <2>6. /\ cases'[k].state = cases[k].state
        /\ rows'[item].due_at = rows[item].due_at /\ rows'[item].rule_id = rows[item].rule_id
        /\ \/ /\ rows'[item].status = "done" /\ Permitted(k, l)
              /\ pc' = "attribute" <=> Pays(k, l)
              /\ cases'[k].cost_spent = cases[k].cost_spent + PlaybookOf(k).steps[l].cost
           \/ /\ rows'[item].status = "failed" /\ ~Permitted(k, l) /\ pc' # "attribute"
              /\ cases'[k].cost_spent = cases[k].cost_spent
    <3>0. cases[k] \in CaseRecords /\ k \in DOMAIN cases
      BY <1>2, FiledAre DEF OwnCases
    <3>1. CASE Execute
      <4>1. /\ StepIn(item).channel = "payment_retry" => Source(k).decline \in Retryable
            /\ pc' = "attribute" <=> /\ StepIn(item).channel = "payment_retry"
                                     /\ <<runs[k[1]], Customer(k), now>> \in world
        BY <1>2, <1>4, <3>1, RollIs
      <4>2. Permitted(k, l) /\ (pc' = "attribute" <=> Pays(k, l))
        BY <2>3, <2>4, <4>1 DEF Permitted, Pays
      <4>3. rows'[item] = [rows[item] EXCEPT !.status = "done", !.executed_at = now]
        BY <2>3, <3>1 DEF Execute
      <4>4. cases'[k] = [cases[k] EXCEPT !.cost_spent = @ + ActionOf(item).cost]
        BY <1>4, <3>0, <3>1 DEF Execute, ChargeCase
      <4>5. ActionOf(item).cost = PlaybookOf(k).steps[l].cost
        BY <2>3 DEF ActionOf
      <4>6. /\ rows'[item].status = "done"
            /\ rows'[item].due_at = rows[item].due_at /\ rows'[item].rule_id = rows[item].rule_id
        BY <2>3, <4>3 DEF RowRecords
      <4>7. /\ cases'[k].state = cases[k].state
            /\ cases'[k].cost_spent = cases[k].cost_spent + PlaybookOf(k).steps[l].cost
        BY <3>0, <4>4, <4>5 DEF CaseRecords
      <4> QED
        BY <4>2, <4>6, <4>7
    <3>2. CASE ExecuteFails
      <4>1. ~Permitted(k, l)
        BY <1>2, <1>4, <2>3, <3>2, RefusalIs DEF Permitted
      <4>2. rows'[item] = [rows[item] EXCEPT !.status = "failed"] /\ cases' = cases
            /\ pc' # "attribute"
        BY <2>3, <3>2 DEF ExecuteFails, Onward
      <4>3. /\ rows'[item].status = "failed"
            /\ rows'[item].due_at = rows[item].due_at /\ rows'[item].rule_id = rows[item].rule_id
        BY <2>3, <4>2 DEF RowRecords
      <4> QED
        BY <4>1, <4>2, <4>3
    <3> QED
      BY <3>1, <3>2
  <2>7. ASSUME NEW i \in Kept(k)
        PROVE  StepFollows(k, i)'
    <3>1. PICK r : r = <<k, i>>
      OBVIOUS
    <3>2. StepFollows(k, i) /\ r \in DOMAIN rows' /\ rows[r].due_at = DueOn(k, i)
      BY <1>1, <2>7, <3>1 DEF Planned, StepFollows, Dated
    <3>3. CASE i = l
      <4>1. r = item /\ item' = r
        BY <1>1, <2>3, <3>1, <3>3
      <4>2. Dated(k, i)'
        BY <1>1, <2>1, <2>4, <2>6, <3>1, <3>2, <3>3, <4>1 DEF Dated
      <4>3. Executed(k, i)'
        BY <1>1, <1>2, <2>1, <2>4, <2>5, <2>6, <3>1, <3>3, <4>1 DEF Executed
      <4>4. Dropped(k, i)'
        BY <2>6, <3>1, <4>1 DEF Dropped
      <4>5. Waiting(k, i)'
        BY <2>1, <2>6, <3>1, <3>2, <4>1 DEF StepFollows, Waiting
      <4>6. Credited(k, i)'
        BY <2>1, <2>6, <3>1, <3>3, <4>1 DEF Credited
      <4>7. AtStep(k, i)'
        BY <1>1, <2>1, <2>6, <3>3 DEF AtStep
      <4> QED
        BY <4>2, <4>3, <4>4, <4>5, <4>6, <4>7 DEF StepFollows
    <3>4. CASE i # l
      <4>1. r # item /\ item' # r /\ rows'[r] = rows[r]
        BY <1>1, <2>3, <3>1, <3>2, <3>4
      <4>2. Dated(k, i)'
        BY <1>1, <2>1, <3>1, <3>2, <4>1 DEF StepFollows, Dated, InWork
      <4>3. Executed(k, i)'
        BY <1>1, <2>1, <3>1, <3>2, <4>1 DEF StepFollows, Executed
      <4>4. Dropped(k, i)' /\ Waiting(k, i)'
        BY <2>1, <3>1, <3>2, <4>1 DEF StepFollows, Dropped, Waiting
      <4>5. Credited(k, i)'
        BY <1>1, <2>1, <2>4, <3>1, <3>2, <4>1 DEF StepFollows, Credited
      <4>6. AtStep(k, i)'
        BY <3>1, <4>1 DEF AtStep
      <4> QED
        BY <4>2, <4>3, <4>4, <4>5, <4>6 DEF StepFollows
    <3> QED
      BY <3>3, <3>4
  <2>8. /\ l \notin Ran(k)
        /\ Ran(k)' = IF rows'[item].status = "done" THEN Ran(k) \cup {l} ELSE Ran(k)
    <3>1. l \notin Ran(k)
      BY <2>3, <2>4 DEF Ran
    <3>2. ASSUME NEW i \in Kept(k), i # l
          PROVE  rows'[<<k, i>>] = rows[<<k, i>>]
      <4>1. <<k, i>> \in DOMAIN rows
        BY <3>2 DEF Planned, StepFollows, Dated
      <4> QED
        BY <1>1, <2>3, <3>2, <4>1
    <3>3. \A i : i \in Ran(k)' <=>
             i \in Ran(k) \/ (i = l /\ rows'[item].status = "done")
      BY <2>1, <2>3, <3>1, <3>2 DEF Ran
    <3> QED
      BY <3>1, <3>3
  <2>9. cases'[k].cost_spent = CostOf(PlaybookOf(k), Ran(k)')
    <3>1. WellFormed(PlaybookOf(k)) /\ Kept(k) \in SUBSET DOMAIN PlaybookOf(k).steps
      BY <1>2, FiledAre, CaseIs, InOrder DEF OwnCases, Planned
    <3>2. Ran(k) \in SUBSET DOMAIN PlaybookOf(k).steps /\ l \in DOMAIN PlaybookOf(k).steps
      BY <2>3, <3>1 DEF Ran
    <3>3. CostOf(PlaybookOf(k), Ran(k) \cup {l})
            = CostOf(PlaybookOf(k), Ran(k)) + PlaybookOf(k).steps[l].cost
      BY <2>8, <3>1, <3>2, RanCosts
    <3>4. cases[k].cost_spent = CostOf(PlaybookOf(k), Ran(k))
      BY DEF Planned
    <3> QED
      BY <2>6, <2>8, <3>3, <3>4
  <2>10. Reasoned(k)' /\ cases'[k].state \in Begun
    BY <2>1, <2>4, <2>6 DEF Reasoned, Begun
  <2>11. \A r \in RowsOf(k)' : StepOf(r)' \in Kept(k)'
    BY <1>1, <2>1 DEF Planned, StepOf, RowsOf
  <2> QED
    BY <2>1, <2>7, <2>9, <2>10, <2>11 DEF Planned
<1> QED
  BY <1>3, <1>4

\* Attribution credits the case whose step has paid.
LEMMA AttributeFollows ==
    ASSUME IInv, [Next]_vars, StepsApart, Fresh, Attribute,
           NEW k \in OwnCases, Planned(k)
    PROVE  Planned(k)'
<1>1. /\ ~StartRun /\ pc' # "over" /\ pc = "attribute" /\ pc' \in {"loop", "gate"}
      /\ UNCHANGED <<now, batch, item, rows>>
  BY DEF Attribute, StartRun, Onward
<1>2. CasesFiled /\ RowsFiled /\ InHand
  BY <1>1, GoesOn
<1>3. CASE CaseOf(item) # k
  BY <1>3, OthersFollow
<1>4. CASE CaseOf(item) = k
  <2>1. /\ Kept(k)' = Kept(k) /\ Source(k)' = Source(k) /\ PlaybookOf(k)' = PlaybookOf(k)
        /\ (HasPlaybook(k)' <=> HasPlaybook(k)) /\ (NeedsApproval(k)' <=> NeedsApproval(k))
        /\ Ends(k)' = Ends(k)
        /\ \A i : /\ DueOn(k, i)' = DueOn(k, i) /\ (Late(k, i)' <=> Late(k, i))
                  /\ (Pays(k, i)' <=> Pays(k, i)) /\ (Permitted(k, i)' <=> Permitted(k, i))
    BY <1>1, SameEnds
  <2>2. cases'[k].state = "recovered" /\ cases'[k].cost_spent = cases[k].cost_spent
    BY <1>4, CreditIs DEF OwnCases
  <2>3. PICK l \in Kept(k) : item = <<k, l>>
    <3>1. item \in DOMAIN rows
      BY <1>1, <1>2, ItemIs
    <3>2. item = <<CaseOf(item), StepOf(item)>>
      BY <1>2, <3>1, RowIs
    <3>3. StepOf(item) \in Kept(k)
      BY <1>4, <3>1 DEF Planned, RowsOf
    <3> QED
      BY <1>4, <3>2, <3>3
  <2>4. Pays(k, l) /\ rows[<<k, l>>].status = "done"
    BY <1>1, <1>2, <2>3 DEF Planned, StepFollows, AtStep, InHand
  <2>5. ASSUME NEW i \in Kept(k)
        PROVE  StepFollows(k, i)'
    <3>1. StepFollows(k, i)
      BY <2>5 DEF Planned
    <3>2. Dated(k, i)'
      BY <1>1, <2>1, <3>1 DEF StepFollows, Dated, InWork
    <3>3. Executed(k, i)' /\ Dropped(k, i)' /\ Waiting(k, i)'
      BY <1>1, <2>1, <3>1 DEF StepFollows, Executed, Dropped, Waiting
    <3>4. Credited(k, i)' /\ AtStep(k, i)'
      BY <1>1, <2>2 DEF Credited, AtStep
    <3> QED
      BY <3>2, <3>3, <3>4 DEF StepFollows
  <2>6. Ran(k)' = Ran(k)
    BY <1>1, <2>1 DEF Ran
  <2>7. Reasoned(k)' /\ cases'[k].state \in Begun
    BY <2>1, <2>2, <2>4, <2>6 DEF Reasoned, Begun, Ran
  <2>8. \A r \in RowsOf(k)' : StepOf(r)' \in Kept(k)'
    BY <1>1, <2>1 DEF Planned, StepOf, RowsOf
  <2> QED
    BY <2>1, <2>2, <2>5, <2>6, <2>7, <2>8 DEF Planned
<1> QED
  BY <1>3, <1>4

\* A case that has been planned follows as long as its process goes on.
LEMMA PlannedFollows ==
    ASSUME IInv, [Next]_vars, ~StartRun, StepsApart, Fresh, ~crowded', pc' # "over",
           NEW k \in OwnCases, Planned(k), cases[k].opened_at = Source(k).detected_at,
           sim.payments[cases[k].source_payment].error_reason = Source(k).decline
    PROVE  Planned(k)'
<1>1. ~crowded /\ ~WriteReport /\ ~Crash /\ InHand
  BY GoesOn
<1>2. CASE PopCase \/ PersistHoldout \/ Abstain \/ PersistPlan \/ SkipClaimed \/ Complete
  <2>1. pc' \in {"loop", "plan", "report"}
    BY <1>2 DEF PopCase, PersistHoldout, Abstain, PersistPlan, SkipClaimed, Complete
  <2> QED
    BY <1>2, <2>1, QuietFollows
<1>3. CASE ClaimDueBatch
  BY <1>3, ClaimFollows
<1>4. CASE Gate
  BY <1>1, <1>4, GateFollows
<1>5. CASE Stop
  BY <1>1, <1>5, StopFollows
<1>6. CASE Execute \/ ExecuteFails
  BY <1>1, <1>6, ExecuteFollows
<1>7. CASE Attribute
  BY <1>7, AttributeFollows
<1>8. CASE UNCHANGED vars
  <2>1. UNCHANGED <<pc, now, batch, item, runs, cases, rows, world>>
    BY <1>8 DEF vars, process, database
  <2>2. /\ Kept(k)' = Kept(k) /\ Source(k)' = Source(k) /\ PlaybookOf(k)' = PlaybookOf(k)
        /\ (HasPlaybook(k)' <=> HasPlaybook(k)) /\ (NeedsApproval(k)' <=> NeedsApproval(k))
        /\ Ends(k)' = Ends(k)
        /\ \A i : /\ DueOn(k, i)' = DueOn(k, i) /\ (Late(k, i)' <=> Late(k, i))
                  /\ (Pays(k, i)' <=> Pays(k, i)) /\ (Permitted(k, i)' <=> Permitted(k, i))
    BY SameEnds
  <2>3. ASSUME NEW i \in Kept(k)
        PROVE  StepFollows(k, i)'
    <3>1. StepFollows(k, i)
      BY <2>3 DEF Planned
    <3>2. Dated(k, i)' /\ Executed(k, i)' /\ Dropped(k, i)'
      BY <2>1, <2>2, <3>1 DEF StepFollows, Dated, Executed, Dropped, InWork
    <3>3. Waiting(k, i)' /\ Credited(k, i)' /\ AtStep(k, i)'
      BY <2>1, <2>2, <3>1 DEF StepFollows, Waiting, Credited, AtStep
    <3> QED
      BY <3>2, <3>3 DEF StepFollows
  <2>4. Ran(k)' = Ran(k)
    BY <2>1, <2>2 DEF Ran
  <2>5. Reasoned(k)' /\ cases'[k].state \in Begun
    BY <2>1, <2>2, <2>4 DEF Reasoned, Planned
  <2>6. \A r \in RowsOf(k)' : StepOf(r)' \in Kept(k)'
    BY <2>1, <2>2 DEF Planned, StepOf, RowsOf
  <2> QED
    BY <2>1, <2>2, <2>3, <2>4, <2>5, <2>6 DEF Planned
<1> QED
  BY <1>1, <1>2, <1>3, <1>4, <1>5, <1>6, <1>7, <1>8 DEF Next, Progress

\* A case is planned with a row for every step that is kept, at its instant.
LEMMA PlanFollows ==
    ASSUME IInv, [Next]_vars, PersistPlan, NEW k, k = CaseOf(item)
    PROVE  Planned(k)'
<1>1. ~StartRun /\ pc' = "loop" /\ pc = "plan"
  BY DEF PersistPlan, StartRun
<1>2. /\ CasesFiled /\ RowsFiled /\ Scheduled /\ InHand
  BY DEF IInv
<1>3. PICK included : included = IncludedSteps(PlaybookOf(k), Source(k).amount)
  OBVIOUS
<1>4. PICK dates : dates = DueDates(PlaybookOf(k), now)
  OBVIOUS
<1>5. /\ now = Source(k).detected_at /\ HasPlaybook(k) /\ WellFormed(PlaybookOf(k))
      /\ included \in SUBSET DOMAIN PlaybookOf(k).steps
      /\ \A i : <<k, i>> \notin DOMAIN rows
      /\ DOMAIN rows' = DOMAIN rows \cup {<<k, i>> : i \in included}
      /\ \A i \in included :
            rows'[<<k, i>>] = [status |-> "pending", due_at |-> dates[i], executed_at |-> NULL,
                               verdict |-> NULL, rule_id |-> NULL]
      /\ cases'[k].state = (IF NeedsApproval(k) THEN "awaiting_approval" ELSE "executing")
      /\ cases'[k].cost_spent = 0
  BY <1>2, <1>3, <1>4, PlanIs, ZenonT(40)
<1>6. CanBePlanned(PlaybookOf(k), Source(k).amount)
  BY DEF PersistPlan
<1>7. /\ Kept(k)' = Kept(k) /\ Source(k)' = Source(k) /\ PlaybookOf(k)' = PlaybookOf(k)
      /\ (HasPlaybook(k)' <=> HasPlaybook(k)) /\ (NeedsApproval(k)' <=> NeedsApproval(k))
      /\ \A i : DueOn(k, i)' = DueOn(k, i)
  BY <1>1, SameEnds
<1>8. Kept(k) = included /\ \A i : DueOn(k, i) = dates[i]
  BY <1>3, <1>4, <1>5 DEF Kept, DueOn
<1>9. \A r : ~InWork(r)'
  <2>1. batch' = {}
    BY <1>1, InHandHolds DEF InHand
  <2> QED
    BY <1>1, <2>1 DEF InWork
<1>10. ASSUME NEW i \in Kept(k)
       PROVE  StepFollows(k, i)' /\ rows'[<<k, i>>].status = "pending"
  <2>1. PICK r : r = <<k, i>>
    OBVIOUS
  <2>2. rows'[r] = [status |-> "pending", due_at |-> dates[i], executed_at |-> NULL,
                    verdict |-> NULL, rule_id |-> NULL]
    BY <1>5, <1>8, <1>10, <2>1
  <2>3. rows'[r].status = "pending" /\ rows'[r].due_at = dates[i] /\ rows'[r].rule_id = NULL
    BY <2>2
  <2>4. r \in DOMAIN rows'
    BY <1>5, <1>8, <1>10, <2>1
  <2>5. Dated(k, i)'
    BY <1>7, <1>8, <1>9, <2>1, <2>3, <2>4 DEF Dated
  <2>6. NULL # "awaiting_approval"
    BY NullIsNoRule, RulesAre
  <2>7. Executed(k, i)' /\ Dropped(k, i)' /\ Waiting(k, i)' /\ Credited(k, i)'
    BY <2>1, <2>3, <2>6 DEF Executed, Dropped, Waiting, Credited
  <2>8. AtStep(k, i)'
    BY <1>1 DEF AtStep
  <2> QED
    BY <2>1, <2>3, <2>5, <2>7, <2>8 DEF StepFollows
<1>11. Ran(k)' = {}
  BY <1>7, <1>10 DEF Ran
<1>12. cases'[k].cost_spent = CostOf(PlaybookOf(k), {})
  BY <1>5, CostLaws
<1>13. Reasoned(k)' /\ cases'[k].state \in Begun
  BY <1>5, <1>7 DEF Reasoned, Begun
<1>14. ASSUME NEW r \in RowsOf(k)'
       PROVE  StepOf(r)' \in Kept(k)'
  <2>1. r \in DOMAIN rows' /\ CaseOf(r) = k
    BY <1>14 DEF RowsOf, CaseOf
  <2>2. r \notin DOMAIN rows
    <3>1. r \in DOMAIN rows => r = <<CaseOf(r), StepOf(r)>>
      BY <1>2, RowIs
    <3> QED
      BY <1>5, <2>1, <3>1
  <2>3. PICK i \in included : r = <<k, i>>
    BY <1>5, <2>1, <2>2
  <2> QED
    BY <1>7, <1>8, <2>3 DEF StepOf
<1> QED
  BY <1>5, <1>6, <1>7, <1>10, <1>11, <1>12, <1>13, <1>14 DEF Planned

\* What the gateway has on record of a payment stays.
LEMMA PaymentsStay ==
    ASSUME IInv, [Next]_vars, ~StartRun
    PROVE  \A n \in DOMAIN sim.payments :
               n \in DOMAIN sim'.payments /\ sim'.payments[n] = sim.payments[n]
<1>1. /\ CasesFiled /\ RowsFiled /\ Scheduled /\ InHand /\ Simulated /\ now \in Nat
  BY DEF IInv, Scheduled
<1>2. CASE PopCase
  BY <1>1, <1>2, ArrivalIs
<1>3. CASE Execute
  BY <1>1, <1>3, ExecutionIs
<1>4. CASE ~PopCase /\ ~Execute
  BY <1>4, SimStays
<1> QED
  BY <1>2, <1>3, <1>4

\* A case that arrives is filed as its cohort has it.
LEMMA ArrivalFollows ==
    ASSUME IInv, [Next]_vars, ~StartRun, NEW k \in OwnCases', k \notin OwnCases
    PROVE  CaseFollows(k)'
<1>1. /\ CasesFiled /\ RowsFiled /\ Scheduled /\ InHand /\ Simulated
  BY DEF IInv
<1>2. PopCase /\ runs' = runs /\ run' = run
  BY OwnStays
<1>3. PICK m : m = sim.next_id + 1
  OBVIOUS
<1>4. PICK j : j = CaseOf(Popped.item)
  OBVIOUS
<1> DEFINE new == [state |-> "detected", cost_spent |-> 0, cost_ceiling |-> 0,
                   opened_at |-> Popped.when, source_payment |-> m,
                   playbook_id |-> NULL, outcome |-> NULL]
<1>5. /\ Popped.when = Source(j).detected_at
      /\ \/ cases' = cases
         \/ /\ cases' = [i \in DOMAIN cases \cup {j} |-> IF i = j THEN new ELSE cases[i]]
            /\ CaseOf(item') = j /\ pc' = "plan"
  BY <1>1, <1>2, <1>3, <1>4, CaseArrives
<1>6. /\ new.state = "detected" /\ new.source_payment = m /\ new.opened_at = Popped.when
  OBVIOUS
<1> HIDE DEF new
<1>7. k \in DOMAIN cases' /\ k \notin DOMAIN cases
  BY <1>2 DEF OwnCases
<1>8. k = j /\ cases'[k] = new /\ CaseOf(item') = k /\ pc' = "plan"
  BY <1>5, <1>7
<1>9. sim'.payments[m].error_reason = Source(k).decline
  <2> DEFINE fail == [order |-> m + 1, customer |-> Customer(k), amount |-> Source(k).amount,
                      status |-> "failed", error_reason |-> Source(k).decline,
                      created_at |-> Popped.when]
             all == [n \in DOMAIN sim.payments \cup {m} |-> IF n = m THEN fail ELSE sim.payments[n]]
  <2>1. sim' = [sim EXCEPT !.next_id = m + 1, !.payments = all]
    BY <1>2, <1>3, <1>4, <1>8 DEF PopCase, SeedFailedPayment, Recorded
  <2>2. all[m] = fail /\ fail.error_reason = Source(k).decline
    OBVIOUS
  <2> HIDE DEF all, fail
  <2>3. sim'.payments = all
    BY <1>1, <2>1 DEF Simulated
  <2> QED
    BY <2>2, <2>3
<1>10. Source(k)' = Source(k)
  BY <1>2, SameRun
<1> QED
  BY <1>5, <1>6, <1>8, <1>9, <1>10 DEF CaseFollows, CaseOf

\* A case that is there follows on.
LEMMA CaseFollowsOn ==
    ASSUME IInv, [Next]_vars, ~StartRun, StepsApart, Fresh, ~crowded', pc' # "over",
           NEW k \in OwnCases, CaseFollows(k)
    PROVE  CaseFollows(k)'
<1>1. /\ CasesFiled /\ RowsFiled /\ Budgeted /\ Scheduled /\ InHand /\ Ages /\ Simulated /\ Paid
  BY GoesOn
<1>2. /\ runs' = runs /\ Source(k)' = Source(k) /\ (HasPlaybook(k)' <=> HasPlaybook(k))
  BY SameEnds
<1>3. k \in DOMAIN cases /\ CaseStep(k)
  BY <1>1, CaseSteps DEF OwnCases
<1>4. /\ cases'[k].opened_at = Source(k).detected_at
      /\ sim'.payments[cases'[k].source_payment].error_reason = Source(k).decline
  <2>1. cases'[k].opened_at = cases[k].opened_at
        /\ cases'[k].source_payment = cases[k].source_payment
    BY <1>3 DEF CaseStep
  <2>2. cases[k].source_payment \in DOMAIN sim.payments
    BY <1>1 DEF Simulated
  <2> QED
    BY <2>1, <2>2, PaymentsStay DEF CaseFollows
<1>5. CASE pc = "plan" /\ CaseOf(item) = k /\ cases[k].state = "detected"
  <2>1. CASE PersistHoldout
    <3>1. /\ Source(k).arm = "control" /\ cases' = [cases EXCEPT ![k].state = "holdout"]
      BY <1>5, <2>1 DEF PersistHoldout
    <3>2. cases[k] \in CaseRecords /\ cases[k].cost_spent = 0
      BY <1>1, <1>3, <1>5 DEF CasesFiled
    <3>3. cases'[k] = [cases[k] EXCEPT !.state = "holdout"]
      BY <1>3, <3>1
    <3>4. cases'[k].state = "holdout" /\ cases'[k].cost_spent = 0
      BY <3>2, <3>3 DEF CaseRecords
    <3> QED
      BY <1>2, <1>4, <3>1, <3>4 DEF CaseFollows
  <2>2. CASE Abstain
    <3>1. cases' = cases /\ Source(k).arm # "control" /\ ~HasPlaybook(k)
      BY <1>5, <2>2 DEF Abstain, database
    <3> QED
      BY <1>2, <1>4, <1>5, <3>1 DEF CaseFollows
  <2>3. CASE PersistPlan
    <3>1. Planned(k)'
      BY <1>5, <2>3, PlanFollows
    <3> QED
      BY <1>2, <1>4, <3>1 DEF CaseFollows
  <2>4. CASE UNCHANGED vars
    <3>1. cases' = cases /\ pc' = pc /\ item' = item
      BY <2>4 DEF vars, process, database
    <3> QED
      BY <1>2, <1>4, <1>5, <3>1 DEF CaseFollows, CaseOf
  <2> QED
    BY <1>5, <2>1, <2>2, <2>3, <2>4, GoesOn DEF Next, Progress, PopCase, SkipClaimed, ClaimDueBatch,
        Gate, Stop, Execute, ExecuteFails, Attribute, Complete
<1>6. CASE cases[k].state = "detected" /\ Source(k).arm # "control" /\ ~HasPlaybook(k)
           /\ ~(pc = "plan" /\ CaseOf(item) = k)
  <2>1. cases'[k] = cases[k]
    <3>1. SUFFICES ASSUME cases'[k] # cases[k]
                   PROVE  FALSE
      OBVIOUS
    <3>2. k = CaseOf(item) /\ pc \in {"stop", "execute", "attribute"}
      BY <1>3, <1>6, <3>1, OnlyItsCase
    <3>3. HasPlaybook(CaseOf(item))
      BY <1>1, <3>2, ItemIs, RowIs
    <3> QED
      BY <1>6, <3>2, <3>3
  <2> QED
    BY <1>2, <1>4, <1>6, <2>1 DEF CaseFollows
<1>7. CASE cases[k].state = "holdout" /\ Source(k).arm = "control" /\ cases[k].cost_spent = 0
  <2>1. cases'[k] = cases[k]
    <3>1. SUFFICES ASSUME cases'[k] # cases[k]
                   PROVE  FALSE
      OBVIOUS
    <3>2. k = CaseOf(item) /\ pc \in {"plan", "stop", "execute", "attribute"}
      BY <1>3, <3>1, OnlyItsCase
    <3>3. pc # "plan"
      BY <1>1, <1>7, <3>2 DEF InHand
    <3>4. HasPlaybook(CaseOf(item))
      BY <1>1, <3>2, <3>3, ItemIs, RowIs
    <3> QED
      BY <1>7, <3>2, <3>4 DEF HasPlaybook
  <2> QED
    BY <1>2, <1>4, <1>7, <2>1 DEF CaseFollows
<1>8. CASE Planned(k)
  <2>1. Planned(k)'
    BY <1>8, PlannedFollows DEF CaseFollows
  <2> QED
    BY <1>2, <1>4, <2>1 DEF CaseFollows
<1> QED
  BY <1>5, <1>6, <1>7, <1>8 DEF CaseFollows

LEMMA FollowsHolds ==
    ASSUME StepsApart, IInv, Follows, [Next]_vars
    PROVE  Follows'
<1>1. SUFFICES ASSUME pc' # "over", Fresh', ~crowded', NEW k \in OwnCases'
               PROVE  CaseFollows(k)'
  BY DEF Follows
<1>2. CASE StartRun
  BY <1>1, <1>2, RunBegins DEF IInv
<1>3. CASE ~StartRun
  <2>1. Fresh /\ pc # "over" /\ ~crowded
    BY <1>1, <1>3, SameEnds, GoesOn
  <2>2. CASE k \in OwnCases
    <3>1. CaseFollows(k)
      BY <2>1, <2>2 DEF Follows
    <3> QED
      BY <1>1, <1>3, <2>1, <2>2, <3>1, CaseFollowsOn
  <2>3. CASE k \notin OwnCases
    BY <1>1, <1>3, <2>3, ArrivalFollows
  <2> QED
    BY <2>2, <2>3
<1> QED
  BY <1>2, <1>3

LEMMA AloneIs ==
    ASSUME NEW k
    PROVE  LET last == Min(Ends(k))
               went == {i \in Kept(k) : ~Late(k, i) /\ ~NeedsApproval(k)
                                          /\ (Ends(k) # {} => i <= last)}
           IN  Alone(k) =
                 CASE Source(k).arm = "control" -> [state |-> "holdout", cost |-> 0]
                   [] Source(k).arm # "control" /\ ~HasPlaybook(k) ->
                        [state |-> "detected", cost |-> 0]
                   [] OTHER ->
                        [state |-> IF Ends(k) # {} THEN IF Late(k, last) THEN "expired" ELSE "recovered"
                                   ELSE IF NeedsApproval(k) THEN "awaiting_approval" ELSE "executing",
                         cost |-> CostOf(PlaybookOf(k), {i \in went : Permitted(k, i)})]
  BY DEF Alone, Kept, DueOn, Ends, Pays, Late, Permitted

\* When every action has been handled, what was executed is what nothing kept from it.
LEMMA RanIs ==
    ASSUME IInv, StepsApart, pc = "report", ~crowded, NEW k \in OwnCases, Planned(k),
           NEW last, Ends(k) # {} => last \in Ends(k) /\ \A j \in Ends(k) : last <= j
    PROVE  /\ Ran(k) = {i \in {j \in Kept(k) : ~Late(k, j) /\ ~NeedsApproval(k)
                                                 /\ (Ends(k) # {} => j <= last)} : Permitted(k, i)}
           /\ \A i \in Kept(k) :
                Late(k, i) => rows[<<k, i>>].status = "cancelled" /\ cases[k].state \in Terminal
<1>1. /\ CasesFiled /\ RowsFiled /\ InHand /\ heap = {} /\ batch = {} /\ Handled
  BY DEF IInv, InHand
<1>2. Kept(k) \subseteq Nat
  BY <1>1, FiledAre, InOrder DEF OwnCases, Planned
<1>3. Ends(k) \subseteq Kept(k)
  BY DEF Ends
<1>4. ASSUME NEW i \in Kept(k)
      PROVE  /\ rows[<<k, i>>].status \in {"pending", "claimed", "done", "failed", "cancelled"}
             /\ rows[<<k, i>>].status \in Live => NeedsApproval(k) /\ ~Late(k, i)
             /\ rows[<<k, i>>].status = "cancelled" => cases[k].state \in Terminal
             /\ StepFollows(k, i)
  <2>1. PICK r : r = <<k, i>>
    OBVIOUS
  <2>2. StepFollows(k, i) /\ r \in DOMAIN rows /\ r \in OwnRows /\ CaseOf(r) = k
    BY <1>4, <2>1 DEF Planned, StepFollows, Dated, OwnRows, OwnCases, Own, CaseOf
  <2>3. rows[r] \in RowRecords /\ (rows[r].status = "cancelled" => cases[k].state \in Terminal)
    BY <1>1, <2>2 DEF RowsFiled
  <2>4. rows[r].status # "pending"
    BY <1>1, <2>2 DEF Handled
  <2>5. rows[r].status = "claimed" => rows[r].rule_id = "awaiting_approval"
    BY <1>1, <2>2 DEF Handled
  <2>6. rows[r].status \in Live => NeedsApproval(k) /\ ~Late(k, i)
    BY <2>1, <2>2, <2>4, <2>5 DEF StepFollows, Waiting, Live
  <2>7. rows[r].status \in {"pending", "claimed", "done", "failed", "cancelled"}
    BY <2>3 DEF RowRecords
  <2> QED
    BY <2>1, <2>2, <2>3, <2>6, <2>7
<1>5. ASSUME NEW i \in Ran(k)
      PROVE  i \in Kept(k) /\ ~Late(k, i) /\ ~NeedsApproval(k) /\ Permitted(k, i)
             /\ (Ends(k) # {} => i <= last)
  <2>1. i \in Kept(k) /\ rows[<<k, i>>].status = "done"
    BY DEF Ran
  <2> QED
    BY <1>4, <2>1 DEF StepFollows, Executed
<1>6. ASSUME NEW i \in Kept(k), ~Late(k, i), ~NeedsApproval(k), Ends(k) # {} => i <= last,
             Permitted(k, i)
      PROVE  i \in Ran(k)
  <2>1. rows[<<k, i>>].status \notin Live /\ StepFollows(k, i)
    BY <1>4, <1>6
  <2>2. rows[<<k, i>>].status # "failed"
    BY <1>6, <2>1 DEF StepFollows, Executed
  <2>3. rows[<<k, i>>].status # "cancelled"
    <3>1. SUFFICES ASSUME NEW j \in Ends(k), j < i
                   PROVE  FALSE
      BY <1>6, <2>1 DEF StepFollows, Dropped
    <3>2. i <= last /\ last <= j /\ i \in Nat /\ j \in Nat /\ last \in Nat
      BY <1>2, <1>3, <1>6, <3>1
    <3> QED
      BY <3>1, <3>2
  <2> QED
    BY <1>4, <1>6, <2>1, <2>2, <2>3 DEF Ran, Live
<1>7. ASSUME NEW i \in Kept(k), Late(k, i)
      PROVE  rows[<<k, i>>].status = "cancelled" /\ cases[k].state \in Terminal
  BY <1>4, <1>7 DEF StepFollows, Executed, Live
<1> QED
  BY <1>5, <1>6, <1>7

\* A planned case comes to what it would come to alone.
LEMMA PlannedAlone ==
    ASSUME IInv, StepsApart, pc = "report", ~crowded, NEW k \in OwnCases, Planned(k)
    PROVE  [state |-> cases[k].state, cost |-> cases[k].cost_spent] = Alone(k)
<1>1. PICK last : last = Min(Ends(k))
  OBVIOUS
<1> DEFINE went == {i \in Kept(k) : ~Late(k, i) /\ ~NeedsApproval(k) /\ (Ends(k) # {} => i <= last)}
           goes == {i \in went : Permitted(k, i)}
<1>2. Kept(k) \subseteq Nat /\ Ends(k) \subseteq Kept(k)
  BY FiledAre, InOrder DEF OwnCases, Planned, Ends, IInv
<1>3. Ends(k) # {} => last \in Ends(k) /\ \A j \in Ends(k) : last <= j
  BY <1>1, <1>2, MinIs
<1>4. /\ Ran(k) = goes
      /\ \A i \in Kept(k) :
            Late(k, i) => rows[<<k, i>>].status = "cancelled" /\ cases[k].state \in Terminal
  BY <1>3, RanIs
<1>5. Alone(k) = [state |-> IF Ends(k) # {} THEN IF Late(k, last) THEN "expired" ELSE "recovered"
                            ELSE IF NeedsApproval(k) THEN "awaiting_approval" ELSE "executing",
                  cost |-> CostOf(PlaybookOf(k), goes)]
  <2>1. HasPlaybook(k) /\ Source(k).arm # "control"
    BY DEF Planned, HasPlaybook
  <2> QED
    BY <1>1, <2>1, AloneIs
<1> HIDE DEF goes
<1>6. cases[k].cost_spent = CostOf(PlaybookOf(k), goes)
  BY <1>4 DEF Planned
<1>7. cases[k].state \in Begun
  BY DEF Planned
<1>8. CASE Ends(k) = {}
  <2>1. cases[k].state \notin {"recovered", "expired"}
    BY <1>8 DEF Planned, Reasoned, Ends
  <2>2. cases[k].state = IF NeedsApproval(k) THEN "awaiting_approval" ELSE "executing"
    BY <1>7, <2>1 DEF Planned, Reasoned, Begun
  <2> QED
    BY <1>5, <1>6, <1>8, <2>2
<1>9. CASE Ends(k) # {} /\ Late(k, last)
  <2>1. last \in Kept(k) /\ cases[k].state \in Terminal
    BY <1>2, <1>3, <1>4, <1>9
  <2>2. cases[k].state \in {"recovered", "expired"}
    BY <1>7, <2>1, StatesAre DEF Begun, Eligible
  <2>3. cases[k].state # "recovered"
    <3>1. SUFFICES ASSUME NEW i \in Kept(k), Pays(k, i), i \in Ran(k)
                   PROVE  FALSE
      BY DEF Planned, Reasoned
    <3>2. i \in Ends(k) /\ ~Late(k, i) /\ i <= last
      BY <1>4, <1>9, <3>1 DEF Ends, goes
    <3>3. i = last
      BY <1>2, <1>3, <1>9, <3>2
    <3> QED
      BY <1>9, <3>2, <3>3
  <2> QED
    BY <1>5, <1>6, <1>9, <2>2, <2>3
<1>10. CASE Ends(k) # {} /\ ~Late(k, last)
  <2>1. last \in Kept(k) /\ Pays(k, last) /\ last \in Nat
    BY <1>2, <1>3, <1>10 DEF Ends
  <2>2. last \in Ran(k)
    BY <1>4, <1>10, <2>1 DEF goes, Pays
  <2>3. cases[k].state = "recovered"
    BY <2>1, <2>2 DEF Planned, StepFollows, Credited, Ran
  <2> QED
    BY <1>5, <1>6, <1>10, <2>3
<1> QED
  BY <1>8, <1>9, <1>10

LEMMA FollowsStarts == Init => Follows
  BY DEF Init, Follows

LEMMA FollowInvariance ==
    ASSUME StepsApart
    PROVE  Spec => [](IInv /\ Follows)
<1>1. Init => Follows
  BY FollowsStarts
<1>2. IInv /\ Follows /\ [Next]_vars => Follows'
  BY FollowsHolds
<1> QED
  BY <1>1, <1>2, Invariance, PTL DEF Spec

\* TR-37, world.py:8-14: whatever the database holds and whatever ran before, however the
\* rows of an instant are ordered and wherever the earlier runs died, every case of a run
\* of a new seed ends as it would alone, and at that cost, as long as no claim of the run
\* is too small for it.  No two steps of a playbook may be due at one instant.
THEOREM RunsAreReproducible ==
    ASSUME StepsApart
    PROVE  Spec => []Reproducible
<1>1. ASSUME IInv, Follows
      PROVE  Reproducible
  <2>1. SUFFICES ASSUME pc = "report", Fresh, ~crowded, NEW k \in OwnCases
                 PROVE  [state |-> cases[k].state, cost |-> cases[k].cost_spent] = Alone(k)
    BY DEF Reproducible
  <2>2. CaseFollows(k)
    BY <1>1, <2>1 DEF Follows
  <2>3. CASE cases[k].state = "detected" /\ Source(k).arm # "control" /\ ~HasPlaybook(k)
    <3>1. cases[k].cost_spent = 0
      BY <1>1, <2>3 DEF IInv, CasesFiled, OwnCases
    <3>2. Alone(k) = [state |-> "detected", cost |-> 0]
      BY <2>3, AloneIs
    <3> QED
      BY <2>3, <3>1, <3>2
  <2>4. CASE cases[k].state = "holdout" /\ Source(k).arm = "control" /\ cases[k].cost_spent = 0
    <3>1. Alone(k) = [state |-> "holdout", cost |-> 0]
      BY <2>4, AloneIs
    <3> QED
      BY <2>4, <3>1
  <2>5. CASE Planned(k)
    BY <1>1, <2>1, <2>5, PlannedAlone
  <2> QED
    BY <2>1, <2>2, <2>3, <2>4, <2>5 DEF CaseFollows
<1> QED
  BY <1>1, FollowInvariance, PTL

-----------------------------------------------------------------------------
(* The ledgers of a run.                                                   *)

DoneSteps(k) ==
    {i \in DOMAIN PlaybookOf(k).steps : <<k, i>> \in DOMAIN rows /\ rows[<<k, i>>].status = "done"}

\* A case was charged what its done steps cost.
Charged ==
    \A k \in DOMAIN cases :
        cases[k].cost_spent = IF HasPlaybook(k) THEN CostOf(PlaybookOf(k), DoneSteps(k)) ELSE 0

\* The rows of the run that were allowed are those that have been executed, or are next.
Judged ==
    pc # "over" =>
        /\ report = NULL
        /\ \A r \in OwnRows :
            /\ rows[r].verdict = "allow" <=>
                 rows[r].status \in {"done", "failed"} \/ (pc = "execute" /\ item = r)
            /\ rows[r].status = "pending" \/ r \in batch => rows[r].verdict = NULL

\* A payment has the amount of its order, the one its case is about.
Priced ==
    /\ \A n \in DOMAIN sim.payments :
        sim.payments[n].amount = sim.payments[sim.payments[n].order - 1].amount
    /\ \A k \in OwnCases : sim.payments[cases[k].source_payment].amount = Source(k).amount

\* A case of the run has recovered its amount or nothing, and its amount only if the
\* gateway captured it.
Settled ==
    pc # "over" /\ Fresh =>
        \A k \in OwnCases :
            /\ cases[k].outcome # NULL =>
                /\ cases[k].outcome.kind = cases[k].state
                /\ cases[k].outcome.recovered =
                       IF cases[k].state = "recovered" THEN Source(k).amount ELSE 0
            /\ cases[k].state = "recovered" =>
                HasPlaybook(k) /\ Captures(cases[k].source_payment + 1) # {}

\* Only an execution makes a row done.
LEMMA DoneByExecution ==
    ASSUME IInv, [Next]_vars, NEW r \in DOMAIN rows', rows'[r].status = "done",
           ~(r \in DOMAIN rows /\ rows[r].status = "done")
    PROVE  Execute /\ r = item
<1>0. CasesFiled /\ RowsFiled /\ Budgeted /\ Scheduled /\ InHand /\ Ages /\ Simulated /\ Paid /\ now \in Nat
  BY DEF IInv, Scheduled
<1>1. CASE r \in DOMAIN rows
  <2>1. RowStep(r)
    BY <1>0, <1>1, RowSteps
  <2>2. pc = "execute" /\ r = item
    BY <1>1, <2>1 DEF RowStep
  <2>3. Execute \/ ExecuteFails
    BY <1>1, <2>2
       DEF Next, Progress, StartRun, PopCase, PersistHoldout, Abstain, PersistPlan, SkipClaimed,
           ClaimDueBatch, Gate, Stop, Attribute, Complete, WriteReport, Crash, vars, database
  <2>4. ~ExecuteFails
    <3> SUFFICES ASSUME ExecuteFails
                 PROVE  FALSE
      OBVIOUS
    <3>1. rows' = [rows EXCEPT ![item].status = "failed"]
      BY DEF ExecuteFails
    <3>2. rows[r] \in RowRecords
      BY <1>0, <1>1 DEF RowsFiled
    <3>3. rows'[r].status = "failed"
      BY <1>1, <2>2, <3>1, <3>2 DEF RowRecords
    <3> QED
      BY <3>3
  <2> QED
    BY <2>2, <2>3, <2>4
<1>2. CASE r \notin DOMAIN rows
  <2>1. PersistPlan
    BY <1>0, <1>2, TablesGrow
  <2>2. PICK k : k = CaseOf(item)
    OBVIOUS
  <2> DEFINE included == IncludedSteps(PlaybookOf(k), Source(k).amount)
             dates == DueDates(PlaybookOf(k), now)
  <2>3. /\ DOMAIN rows' = DOMAIN rows \cup {<<k, i>> : i \in included}
        /\ \A i \in included :
             rows'[<<k, i>>] = [status |-> "pending", due_at |-> dates[i], executed_at |-> NULL,
                                verdict |-> NULL, rule_id |-> NULL]
    BY <1>0, <2>1, <2>2, PlanIs, ZenonT(40)
  <2> HIDE DEF included, dates
  <2>4. PICK i \in included : r = <<k, i>>
    BY <1>2, <2>3
  <2>5. rows'[r].status = "pending"
    <3>1. rows'[r] = [status |-> "pending", due_at |-> dates[i], executed_at |-> NULL,
                      verdict |-> NULL, rule_id |-> NULL]
      BY <2>3, <2>4, Zenon
    <3> QED
      BY <3>1
  <2> QED
    BY <2>5
<1> QED
  BY <1>1, <1>2

\* Only an execution charges a case.
LEMMA ChargedByExecution ==
    ASSUME IInv, [Next]_vars, NEW k \in DOMAIN cases, ~(Execute /\ k = CaseOf(item))
    PROVE  cases'[k].cost_spent = cases[k].cost_spent
<1>0. CasesFiled /\ RowsFiled /\ Budgeted /\ Scheduled /\ InHand /\ Ages /\ Simulated /\ Paid
  BY DEF IInv
<1>1. CaseStep(k)
  BY <1>0, CaseSteps
<1>2. CASE pc = "execute" /\ cases'[k] # cases[k]
  <2>1. Execute
    BY <1>2 DEF Next, Progress, StartRun, PopCase, PersistHoldout, Abstain, PersistPlan,
                SkipClaimed, ClaimDueBatch, Gate, Stop, ExecuteFails, Attribute, Complete,
                WriteReport, Crash, vars, database
  <2>2. k = CaseOf(item)
    BY <1>1, <1>2 DEF CaseStep
  <2> QED
    BY <2>1, <2>2
<1>3. CASE pc # "execute" \/ cases'[k] = cases[k]
  BY <1>1, <1>3 DEF CaseStep
<1> QED
  BY <1>2, <1>3

LEMMA ChargedHolds ==
    ASSUME IInv, Charged, [Next]_vars
    PROVE  Charged'
<1>0. /\ CasesFiled /\ RowsFiled /\ Budgeted /\ Scheduled /\ InHand /\ Ages /\ Simulated /\ Paid
      /\ now \in Nat
  BY DEF IInv, Scheduled
<1> SUFFICES ASSUME NEW k \in DOMAIN cases'
             PROVE  cases'[k].cost_spent =
                        IF HasPlaybook(k)' THEN CostOf(PlaybookOf(k)', DoneSteps(k)') ELSE 0
  BY DEF Charged
<1>1. CASE k \notin DOMAIN cases
  <2>1. PopCase
    BY <1>0, <1>1, TablesGrow
  <2>2. PICK l : l = CaseOf(Popped.item)
    OBVIOUS
  <2> DEFINE new == [state |-> "detected", cost_spent |-> 0, cost_ceiling |-> 0,
                     opened_at |-> Popped.when, source_payment |-> sim.next_id + 1,
                     playbook_id |-> NULL, outcome |-> NULL]
  <2>3. /\ Keyed(l) /\ runs' = runs /\ cases' # cases /\ rows' = rows
        /\ cases' = [j \in DOMAIN cases \cup {l} |-> IF j = l THEN new ELSE cases[j]]
    BY <1>0, <1>1, <2>1, <2>2, CaseArrives
  <2>4. new.cost_spent = 0
    OBVIOUS
  <2> HIDE DEF new
  <2>5. k = l /\ cases'[k] = new
    BY <1>1, <2>3
  <2>6. (HasPlaybook(k)' <=> HasPlaybook(k)) /\ PlaybookOf(k)' = PlaybookOf(k)
    BY <2>3, SameRun
  <2>7. DoneSteps(k)' = {}
    <3>1. \A i : <<k, i>> \notin DOMAIN rows
      BY <1>0, <1>1 DEF RowsFiled, CaseOf
    <3> QED
      BY <2>3, <3>1 DEF DoneSteps
  <2>8. HasPlaybook(k) => CostOf(PlaybookOf(k)', {}) = 0
    BY <1>0, <2>3, <2>5, <2>6, CaseIs, CostLaws
  <2> QED
    BY <2>4, <2>5, <2>6, <2>7, <2>8
<1>2. CASE k \in DOMAIN cases
  <2> DEFINE p == PlaybookOf(k)
             U == DoneSteps(k)
             W == DoneSteps(k)'
  <2>1. Keyed(k) /\ cases[k] \in CaseRecords
    BY <1>0, <1>2, FiledAre
  <2>2. (HasPlaybook(k)' <=> HasPlaybook(k)) /\ PlaybookOf(k)' = p
    BY <1>0, <2>1, KeysStay
  <2>3. cases[k].cost_spent = IF HasPlaybook(k) THEN CostOf(p, U) ELSE 0
    BY <1>2 DEF Charged
  <2>4. U \subseteq W
    <3>1. \A r \in DOMAIN rows : rows[r].status = "done" => r \in DOMAIN rows' /\ rows'[r] = rows[r]
      BY <1>0, RowSteps, DoneStays, TablesGrow
    <3> QED
      BY <2>2, <3>1 DEF DoneSteps
  <2>5. CASE Execute /\ k = CaseOf(item)
    <3> DEFINE i == StepOf(item)
    <3>1. /\ pc = "execute" /\ rows' = [rows EXCEPT ![item].status = "done", ![item].executed_at = now]
          /\ cases' = [cases EXCEPT ![k].cost_spent = @ + ActionOf(item).cost]
      BY <2>5 DEF Execute, ChargeCase
    <3>2. /\ item \in DOMAIN rows /\ rows[item].status = "claimed" /\ rows[item] \in RowRecords
          /\ ActionOf(item).cost = StepIn(item).cost
      BY <1>0, <3>1, ItemIs DEF InHand, ActionOf
    <3>3. i \in DOMAIN p.steps /\ StepIn(item) = p.steps[i] /\ p.steps[i].cost \in Nat
          /\ item = <<k, i>> /\ HasPlaybook(k) /\ WellFormed(p)
      BY <1>0, <2>1, <2>5, <3>2, RowIs, CaseIs
    <3> HIDE DEF i
    <3>4. rows'[item].status = "done" /\ item \in DOMAIN rows'
      BY <3>1, <3>2 DEF RowRecords
    <3>5. i \in W /\ i \notin U
      BY <2>2, <3>2, <3>3, <3>4 DEF DoneSteps
    <3>6. W \subseteq U \cup {i}
      <4> SUFFICES ASSUME NEW j \in W, j \notin U
                   PROVE  j = i
        OBVIOUS
      <4>1. /\ j \in DOMAIN p.steps /\ <<k, j>> \in DOMAIN rows' /\ rows'[<<k, j>>].status = "done"
            /\ ~(<<k, j>> \in DOMAIN rows /\ rows[<<k, j>>].status = "done")
        BY <2>2 DEF DoneSteps
      <4>2. <<k, j>> = item
        BY <4>1, DoneByExecution
      <4> QED
        BY <3>3, <4>2
    <3>7. cases'[k].cost_spent = cases[k].cost_spent + p.steps[i].cost
      <4>1. cases'[k] = [cases[k] EXCEPT !.cost_spent = @ + p.steps[i].cost]
        BY <1>2, <3>1, <3>2, <3>3
      <4> HIDE DEF p
      <4> QED
        BY <2>1, <4>1 DEF CaseRecords
    <3>8. W \ {i} = U /\ W \in SUBSET DOMAIN p.steps /\ U \in SUBSET DOMAIN p.steps
      <4>1. W \in SUBSET DOMAIN p.steps
        BY <2>2 DEF DoneSteps
      <4> HIDE DEF U, W
      <4> QED
        BY <2>4, <3>5, <3>6, <4>1
    <3> HIDE DEF p, U, W
    <3>9. CostOf(p, W) = p.steps[i].cost + CostOf(p, U) /\ CostOf(p, U) \in Nat
      BY <3>3, <3>5, <3>8, CostLaws
    <3>10. cases'[k].cost_spent = CostOf(p, W)
      BY <2>3, <3>3, <3>7, <3>9
    <3> QED
      BY <2>2, <3>3, <3>10 DEF W
  <2>6. CASE ~(Execute /\ k = CaseOf(item))
    <3>1. cases'[k].cost_spent = cases[k].cost_spent
      BY <1>2, <2>6, ChargedByExecution
    <3>2. W \subseteq U
      <4> SUFFICES ASSUME NEW j \in W, j \notin U
                   PROVE  FALSE
        OBVIOUS
      <4>1. /\ <<k, j>> \in DOMAIN rows' /\ rows'[<<k, j>>].status = "done"
            /\ ~(<<k, j>> \in DOMAIN rows /\ rows[<<k, j>>].status = "done")
        BY <2>2 DEF DoneSteps
      <4>2. Execute /\ <<k, j>> = item
        BY <4>1, DoneByExecution
      <4>3. CaseOf(item) = k
        BY <4>2 DEF CaseOf
      <4> QED
        BY <2>6, <4>2, <4>3
    <3>3. W = U
      <4> HIDE DEF U, W
      <4> QED
        BY <2>4, <3>2
    <3> QED
      BY <2>2, <2>3, <3>1, <3>3
  <2> QED
    BY <2>5, <2>6
<1> QED
  BY <1>1, <1>2

\* A row that stays as it is, of a process that comes to another transaction.
LEMMA JudgedStays ==
    ASSUME Judged, pc # "over", pc' # "over", runs' = runs, rows' = rows, report' = report,
           batch' = batch, pc # "execute", pc' # "execute"
    PROVE  Judged'
<1>1. OwnRows' = OwnRows
  BY DEF OwnRows, Own, run, CaseOf
<1>2. report = NULL
  BY DEF Judged
<1>3. \A r \in OwnRows :
        /\ rows[r].verdict = "allow" <=> rows[r].status \in {"done", "failed"}
        /\ rows[r].status = "pending" \/ r \in batch => rows[r].verdict = NULL
  BY DEF Judged
<1> QED
  BY <1>1, <1>2, <1>3 DEF Judged

LEMMA JudgedHolds ==
    ASSUME IInv, Judged, [Next]_vars
    PROVE  Judged'
<1>0. /\ CasesFiled /\ RowsFiled /\ Budgeted /\ Scheduled /\ InHand /\ Ages /\ now \in Nat
      /\ NULL # "allow" /\ run \in Nat
  BY RunsAre, BenchmarkConstants DEF IInv, Scheduled
<1> SUFFICES ASSUME pc' # "over"
             PROVE  Judged'
  BY DEF Judged
<1>1. CASE StartRun
  <2>1. OwnRows' = {}
    BY <1>0, <1>1, RunBegins
  <2>2. report' = NULL
    BY <1>1 DEF StartRun
  <2> QED
    BY <2>1, <2>2 DEF Judged
<1>2. CASE ~StartRun
  <2>1. runs' = runs /\ (~PersistPlan => OwnRows' = OwnRows)
    BY <1>2, OwnStays
  <2>2. pc # "over" /\ ~WriteReport /\ ~Crash
    BY <1>2, GoesOn
  <2>3. /\ report = NULL
        /\ \A r \in OwnRows :
            /\ rows[r].verdict = "allow" <=>
                 rows[r].status \in {"done", "failed"} \/ (pc = "execute" /\ item = r)
            /\ rows[r].status = "pending" \/ r \in batch => rows[r].verdict = NULL
    BY <2>2 DEF Judged
  <2>4. ASSUME NEW r \in OwnRows
        PROVE  r \in DOMAIN rows /\ rows[r] \in RowRecords
    BY <1>0 DEF OwnRows, RowsFiled
  <2>5. CASE PopCase
    <3>1. rows' = rows /\ batch' = batch /\ report' = report /\ pc = "loop" /\ pc' \in {"loop", "plan"}
      BY <2>5 DEF PopCase
    <3> QED
      BY <2>1, <2>2, <3>1, JudgedStays
  <2>6. CASE PersistHoldout \/ Abstain \/ SkipClaimed \/ Complete
    <3>1. /\ rows' = rows /\ batch' = batch /\ report' = report
          /\ pc # "execute" /\ pc' # "execute"
      BY <2>6 DEF PersistHoldout, Abstain, SkipClaimed, Complete, database
    <3> QED
      BY <2>1, <2>2, <3>1, JudgedStays
  <2>7. CASE PersistPlan
    <3>1. PICK k : k = CaseOf(item)
      OBVIOUS
    <3> DEFINE included == IncludedSteps(PlaybookOf(k), Source(k).amount)
               dates == DueDates(PlaybookOf(k), now)
    <3>2. /\ pc = "plan" /\ pc' = "loop" /\ batch' = batch /\ report' = report
          /\ DOMAIN rows' = DOMAIN rows \cup {<<k, i>> : i \in included}
          /\ \A r \in DOMAIN rows : rows'[r] = rows[r]
          /\ \A i \in included :
               rows'[<<k, i>>] = [status |-> "pending", due_at |-> dates[i], executed_at |-> NULL,
                                  verdict |-> NULL, rule_id |-> NULL]
      BY <1>0, <2>7, <3>1, PlanIs, ZenonT(40)
    <3>3. batch = {}
      BY <1>0, <3>2 DEF InHand
    <3> HIDE DEF included, dates
    <3>4. ASSUME NEW r \in OwnRows'
          PROVE  \/ r \in OwnRows /\ rows'[r] = rows[r]
                 \/ rows'[r].status = "pending" /\ rows'[r].verdict = NULL
      <4>1. CASE r \in DOMAIN rows
        BY <2>1, <3>2, <4>1 DEF OwnRows, Own, run, CaseOf
      <4>2. CASE r \notin DOMAIN rows
        <5>1. r \in DOMAIN rows'
          BY DEF OwnRows
        <5>2. PICK i \in included : r = <<k, i>>
          BY <3>2, <4>2, <5>1
        <5>3. rows'[r] = [status |-> "pending", due_at |-> dates[i], executed_at |-> NULL,
                          verdict |-> NULL, rule_id |-> NULL]
          BY <3>2, <5>2, Zenon
        <5> QED
          BY <5>3
      <4> QED
        BY <4>1, <4>2
    <3> QED
      BY <1>0, <2>3, <3>2, <3>3, <3>4 DEF Judged
  <2>8. CASE ClaimDueBatch
    <3>1. PICK claimed \in SUBSET Due(Popped.when) :
             /\ rows' = [r \in DOMAIN rows |->
                            IF r \in claimed THEN [rows[r] EXCEPT !.status = "claimed"] ELSE rows[r]]
             /\ batch' = {r \in claimed : Own(r)} /\ pc' \in {"gate", "loop"}
      BY <2>8, ClaimIs
    <3>2. pc = "loop" /\ report' = report /\ OwnRows' = OwnRows
      BY <2>1, <2>8 DEF ClaimDueBatch, PersistPlan
    <3>3. \A r \in claimed : rows[r].status = "pending"
      BY DEF Due
    <3>4. ASSUME NEW r \in OwnRows
          PROVE  /\ rows'[r].verdict = "allow" <=> rows'[r].status \in {"done", "failed"}
                 /\ rows'[r].status = "pending" \/ r \in batch' => rows'[r].verdict = NULL
      <4>1. CASE r \in claimed
        <5>1. rows'[r] = [rows[r] EXCEPT !.status = "claimed"] /\ rows[r].verdict = NULL
          BY <2>3, <2>4, <3>1, <3>3, <4>1
        <5>2. rows'[r].status = "claimed" /\ rows'[r].verdict = NULL
          BY <2>4, <5>1 DEF RowRecords
        <5> QED
          BY <1>0, <5>2
      <4>2. CASE r \notin claimed
        <5>1. rows'[r] = rows[r] /\ r \notin batch'
          BY <2>4, <3>1, <4>2
        <5> QED
          BY <2>3, <3>2, <5>1
      <4> QED
        BY <4>1, <4>2
    <3> QED
      BY <2>3, <3>1, <3>2, <3>4 DEF Judged
  <2>9. CASE Gate
    <3>1. PICK t, d : t = item' /\ d = Evaluate(ActionOf(t), Context(CaseOf(t)))
      OBVIOUS
    <3>2. /\ pc = "gate" /\ t \in batch /\ t \in DOMAIN rows /\ batch' = batch \ {t}
          /\ Decided(t, d)
          /\ rows' = [rows EXCEPT ![t].verdict = d.verdict, ![t].rule_id = d.rule_id]
          /\ pc' = CASE d.rule_id \in {"already_paid", "max_case_age"} -> "stop"
                     [] d.verdict = "allow" -> "execute"
                     [] OTHER -> IF batch = {t} THEN "loop" ELSE "gate"
      BY <1>0, <2>9, <3>1, GateIs, ZenonT(40)
    <3>3. report' = report /\ OwnRows' = OwnRows
      BY <2>1, <2>9 DEF Gate, PersistPlan
    <3>4. pc' = "execute" <=> d.verdict = "allow"
      <4>1. \/ d.rule_id \in {"already_paid", "max_case_age"} /\ d.verdict = "deny"
            \/ d.rule_id = "awaiting_approval" /\ d.verdict = "defer"
            \/ d.rule_id = NULL /\ d.verdict = "allow"
        BY <3>2 DEF Decided
      <4>2. NULL \notin {"already_paid", "max_case_age"}
        BY NullIsNoRule, RulesAre
      <4> QED
        BY <3>2, <4>1, <4>2
    <3>5. t \in OwnRows /\ rows[t] \in RowRecords /\ rows[t].status \in {"claimed", "cancelled"}
      BY <1>0, <2>4, <3>2 DEF InHand
    <3>6. rows'[t].verdict = d.verdict /\ rows'[t].status = rows[t].status
      BY <3>2, <3>5 DEF RowRecords
    <3>7. \A r \in OwnRows : r # t => rows'[r] = rows[r]
      BY <2>4, <3>2
    <3>8. ASSUME NEW r \in OwnRows
          PROVE  /\ rows'[r].verdict = "allow" <=>
                      rows'[r].status \in {"done", "failed"} \/ (pc' = "execute" /\ item' = r)
                 /\ rows'[r].status = "pending" \/ r \in batch' => rows'[r].verdict = NULL
      <4>1. CASE r = t
        BY <3>1, <3>2, <3>4, <3>5, <3>6, <4>1
      <4>2. CASE r # t
        BY <2>3, <3>1, <3>2, <3>7, <4>2
      <4> QED
        BY <4>1, <4>2
    <3> QED
      BY <2>3, <3>3, <3>8 DEF Judged
  <2>10. CASE Stop
    <3>1. /\ pc = "stop" /\ pc' \in {"loop", "gate"} /\ batch' = batch /\ report' = report
          /\ rows' = [r \in DOMAIN rows |->
                         IF CaseOf(r) = CaseOf(item) /\ rows[r].status \in Live
                         THEN [rows[r] EXCEPT !.status = "cancelled"] ELSE rows[r]]
          /\ OwnRows' = OwnRows
      BY <1>0, <2>1, <2>10, StopIs DEF Onward, PersistPlan
    <3>2. ASSUME NEW r \in OwnRows
          PROVE  /\ rows'[r].verdict = "allow" <=> rows'[r].status \in {"done", "failed"}
                 /\ rows'[r].status = "pending" \/ r \in batch => rows'[r].verdict = NULL
      <4>1. CASE CaseOf(r) = CaseOf(item) /\ rows[r].status \in Live
        <5>1. rows'[r] = [rows[r] EXCEPT !.status = "cancelled"]
          BY <2>4, <3>1, <4>1
        <5>2. rows'[r].status = "cancelled" /\ rows'[r].verdict = rows[r].verdict
          BY <2>4, <5>1 DEF RowRecords
        <5> QED
          BY <2>3, <3>1, <4>1, <5>2 DEF Live
      <4>2. CASE ~(CaseOf(r) = CaseOf(item) /\ rows[r].status \in Live)
        <5>1. rows'[r] = rows[r]
          BY <2>4, <3>1, <4>2
        <5> QED
          BY <2>3, <3>1, <5>1
      <4> QED
        BY <4>1, <4>2
    <3> QED
      BY <2>3, <3>1, <3>2 DEF Judged
  <2>11. CASE Execute \/ ExecuteFails
    <3>1. pc = "execute"
      BY <2>11 DEF Execute, ExecuteFails
    <3>2. item \in OwnRows /\ item \notin batch /\ rows[item].verdict = "allow"
      BY <1>0, <2>3, <3>1, ItemIs
    <3>3. PICK s, at :
             /\ s \in {"done", "failed"}
             /\ \/ rows' = [rows EXCEPT ![item].status = s, ![item].executed_at = at]
                \/ rows' = [rows EXCEPT ![item].status = s]
      BY <2>11 DEF Execute, ExecuteFails
    <3>4. rows'[item].status = s /\ rows'[item].verdict = "allow"
      BY <2>4, <3>2, <3>3 DEF RowRecords
    <3>5. \A r \in OwnRows : r # item => rows'[r] = rows[r]
      BY <2>4, <3>3
    <3>6. /\ pc' \in {"attribute", "loop", "gate"} /\ batch' = batch /\ report' = report
          /\ OwnRows' = OwnRows
      BY <2>1, <2>11 DEF Execute, ExecuteFails, Onward, PersistPlan
    <3>7. ASSUME NEW r \in OwnRows
          PROVE  /\ rows'[r].verdict = "allow" <=> rows'[r].status \in {"done", "failed"}
                 /\ rows'[r].status = "pending" \/ r \in batch => rows'[r].verdict = NULL
      <4>1. CASE r = item
        BY <3>2, <3>3, <3>4, <4>1
      <4>2. CASE r # item
        BY <2>3, <3>5, <4>2
      <4> QED
        BY <4>1, <4>2
    <3> QED
      BY <2>3, <3>6, <3>7 DEF Judged
  <2>12. CASE Attribute
    <3>1. /\ rows' = rows /\ batch' = batch /\ report' = report
          /\ pc = "attribute" /\ pc' \in {"loop", "gate"}
      BY <2>12 DEF Attribute, Onward
    <3> QED
      BY <2>1, <2>2, <3>1, JudgedStays
  <2>13. CASE UNCHANGED vars
    <3>1. OwnRows' = OwnRows /\ rows' = rows /\ batch' = batch /\ report' = report /\ pc' = pc
          /\ item' = item
      BY <2>13 DEF vars, process, database, OwnRows, Own, run, CaseOf
    <3> QED
      BY <2>3, <3>1 DEF Judged
  <2> QED
    BY <1>2, <2>2, <2>5, <2>6, <2>7, <2>8, <2>9, <2>10, <2>11, <2>12, <2>13 DEF Next, Progress
<1> QED
  BY <1>1, <1>2

LEMMA PricedHolds ==
    ASSUME IInv, Priced, [Next]_vars
    PROVE  Priced'
<1>0. /\ CasesFiled /\ RowsFiled /\ Budgeted /\ Scheduled /\ InHand /\ Ages /\ Simulated /\ Paid
      /\ now \in Nat
  BY DEF IInv, Scheduled
<1>1. CASE StartRun
  <2>1. sim' = [seed |-> runs'[run'], next_id |-> 0, payments |-> <<>>] /\ OwnCases' = {}
    BY <1>0, <1>1, RunBegins DEF NewSimulator
  <2>2. DOMAIN sim'.payments = {}
    BY <2>1
  <2> QED
    BY <2>1, <2>2 DEF Priced
<1>2. CASE ~StartRun
  <2>1. /\ runs' = runs /\ OwnCases \subseteq OwnCases' /\ (~PopCase => OwnCases' = OwnCases)
        /\ \A k : Source(k)' = Source(k)
    BY <1>2, OwnStays, SameRun
  <2>2. \A n \in DOMAIN sim.payments : n \in DOMAIN sim'.payments /\ sim'.payments[n] = sim.payments[n]
    BY <1>2, PaymentsStay
  <2>3. ASSUME NEW n \in DOMAIN sim.payments
        PROVE  sim'.payments[n].amount = sim'.payments[sim'.payments[n].order - 1].amount
    <3>1. sim.payments[n].order - 1 \in DOMAIN sim.payments
      BY <1>0 DEF Simulated, OfOrder
    <3>2. sim.payments[n].amount = sim.payments[sim.payments[n].order - 1].amount
      BY DEF Priced
    <3> QED
      BY <2>2, <3>1, <3>2
  <2>4. ASSUME NEW k \in OwnCases
        PROVE  sim'.payments[cases'[k].source_payment].amount = Source(k)'.amount
    <3>1. CaseStep(k) /\ cases[k].source_payment \in DOMAIN sim.payments
      BY <1>0, CaseSteps DEF OwnCases, Simulated
    <3>2. sim.payments[cases[k].source_payment].amount = Source(k).amount
      BY DEF Priced
    <3> QED
      BY <2>1, <2>2, <3>1, <3>2 DEF CaseStep
  <2>5. CASE ~PopCase /\ ~Execute
    <3>1. sim' = sim
      BY <1>2, <2>5, SimStays
    <3> QED
      BY <2>1, <2>3, <2>4, <2>5, <3>1 DEF Priced
  <2>6. CASE PopCase
    <3>1. PICK k, m : k = CaseOf(Popped.item) /\ m = sim.next_id + 1
      OBVIOUS
    <3>2. /\ DOMAIN sim'.payments = DOMAIN sim.payments \cup {m}
          /\ sim'.payments[m].order = m + 1 /\ sim'.payments[m].amount = Source(k).amount
      BY <1>0, <2>6, <3>1, ArrivalIs
    <3>3. m \in Nat /\ (m + 1) - 1 = m
      BY <1>0, <3>1 DEF Simulated
    <3>4. \A n \in DOMAIN sim'.payments :
              sim'.payments[n].amount = sim'.payments[sim'.payments[n].order - 1].amount
      BY <2>3, <3>2, <3>3
    <3> DEFINE new == [state |-> "detected", cost_spent |-> 0, cost_ceiling |-> 0,
                       opened_at |-> Popped.when, source_payment |-> m,
                       playbook_id |-> NULL, outcome |-> NULL]
    <3>5. \/ cases' = cases
          \/ cases' = [j \in DOMAIN cases \cup {k} |-> IF j = k THEN new ELSE cases[j]]
      BY <1>0, <2>6, <3>1, CaseArrives
    <3>6. new.source_payment = m
      OBVIOUS
    <3> HIDE DEF new
    <3>7. ASSUME NEW j \in OwnCases', j \notin OwnCases
          PROVE  sim'.payments[cases'[j].source_payment].amount = Source(j)'.amount
      <4>1. j \in DOMAIN cases' /\ j \notin DOMAIN cases
        BY <2>1, <3>7 DEF OwnCases, run
      <4>2. j = k /\ cases'[j] = new
        BY <3>5, <4>1
      <4> QED
        BY <2>1, <3>2, <3>6, <4>2
    <3> QED
      BY <2>4, <3>4, <3>7 DEF Priced
  <2>7. CASE Execute
    <3>1. PICK k, n, m : k = CaseOf(item) /\ n = cases[k].source_payment /\ m = sim.next_id + 1
      OBVIOUS
    <3>2. pc = "execute"
      BY <2>7 DEF Execute
    <3>3. k \in OwnCases /\ OwnCases' = OwnCases
      BY <1>0, <2>1, <3>1, <3>2, ItemIs DEF PopCase
    <3>4. n \in DOMAIN sim.payments /\ n \in Nat
      BY <1>0, <3>1, <3>3 DEF Simulated
    <3>5. \/ sim'.payments = sim.payments
          \/ /\ DOMAIN sim'.payments = DOMAIN sim.payments \cup {m}
             /\ sim'.payments[m].order = n + 1
             /\ sim'.payments[m].amount = sim.payments[n].amount
      BY <1>0, <2>7, <3>1, ExecutionIs
    <3>6. (n + 1) - 1 = n /\ sim'.payments[n] = sim.payments[n]
      BY <2>2, <3>4
    <3>7. \A i \in DOMAIN sim'.payments :
              sim'.payments[i].amount = sim'.payments[sim'.payments[i].order - 1].amount
      BY <2>3, <3>5, <3>6
    <3> QED
      BY <2>4, <3>3, <3>7 DEF Priced
  <2> QED
    BY <2>5, <2>6, <2>7
<1> QED
  BY <1>1, <1>2

LEMMA SettledHolds ==
    ASSUME IInv, Priced, Settled, [Next]_vars
    PROVE  Settled'
<1>0. /\ CasesFiled /\ RowsFiled /\ Budgeted /\ Scheduled /\ InHand /\ Ages /\ Simulated /\ Paid
      /\ now \in Nat
  BY DEF IInv, Scheduled
<1> DEFINE Recorded1(k) ==
               cases[k].outcome # NULL =>
                   /\ cases[k].outcome.kind = cases[k].state
                   /\ cases[k].outcome.recovered =
                          IF cases[k].state = "recovered" THEN Source(k).amount ELSE 0
           Backed(k) ==
               cases[k].state = "recovered" =>
                   HasPlaybook(k) /\ Captures(cases[k].source_payment + 1) # {}
<1> SUFFICES ASSUME pc' # "over", Fresh', NEW k \in OwnCases'
             PROVE  Recorded1(k)' /\ Backed(k)'
  BY DEF Settled
<1>1. CASE StartRun
  BY <1>0, <1>1, RunBegins
<1>2. CASE ~StartRun
  <2>1. /\ runs' = runs /\ (Fresh' <=> Fresh) /\ Source(k)' = Source(k)
        /\ (HasPlaybook(k)' <=> HasPlaybook(k)) /\ pc # "over" /\ ~WriteReport /\ ~Crash
    BY <1>2, OwnStays, SameRun, GoesOn
  <2>2. \A n \in DOMAIN sim.payments : n \in DOMAIN sim'.payments /\ sim'.payments[n] = sim.payments[n]
    BY <1>2, PaymentsStay
  <2>3. CASE k \notin DOMAIN cases
    <3>1. PopCase
      BY <1>0, <2>3, TablesGrow DEF OwnCases
    <3>2. PICK l : l = CaseOf(Popped.item)
      OBVIOUS
    <3> DEFINE new == [state |-> "detected", cost_spent |-> 0, cost_ceiling |-> 0,
                       opened_at |-> Popped.when, source_payment |-> sim.next_id + 1,
                       playbook_id |-> NULL, outcome |-> NULL]
    <3>3. /\ \/ cases' = cases
             \/ cases' = [j \in DOMAIN cases \cup {l} |-> IF j = l THEN new ELSE cases[j]]
      BY <1>0, <3>1, <3>2, CaseArrives
    <3>4. new.outcome = NULL /\ new.state = "detected"
      OBVIOUS
    <3> HIDE DEF new
    <3>5. cases'[k] = new
      BY <2>3, <3>3 DEF OwnCases
    <3> QED
      BY <3>4, <3>5
  <2>4. CASE k \in DOMAIN cases
    <3>1. k \in OwnCases /\ cases[k] \in CaseRecords
      BY <1>0, <2>1, <2>4, FiledAre DEF OwnCases, run
    <3>2. Recorded1(k) /\ Backed(k)
      BY <2>1, <3>1 DEF Settled
    <3>3. CaseStep(k)
      BY <1>0, <2>4, CaseSteps
    <3>4. cases'[k].source_payment = cases[k].source_payment
      BY <3>3 DEF CaseStep
    <3>6. CASE cases'[k].state = cases[k].state /\ cases'[k].outcome = cases[k].outcome
      <4>1. Recorded1(k)'
        BY <2>1, <3>2, <3>6
      <4>2. Backed(k)'
        <5> SUFFICES ASSUME cases'[k].state = "recovered"
                     PROVE  HasPlaybook(k)' /\ Captures(cases[k].source_payment + 1)' # {}
          BY <3>4
        <5>1. HasPlaybook(k) /\ Captures(cases[k].source_payment + 1) # {}
          BY <3>2, <3>6
        <5>2. Captures(cases[k].source_payment + 1) \subseteq Captures(cases[k].source_payment + 1)'
          BY <2>2, <3>4 DEF Captures
        <5> QED
          BY <2>1, <3>4, <5>1, <5>2
      <4> QED
        BY <4>1, <4>2
    <3>7. CASE ~(cases'[k].state = cases[k].state /\ cases'[k].outcome = cases[k].outcome)
      <4>1. k = CaseOf(item) /\ pc \in {"plan", "stop", "execute", "attribute"}
        BY <2>1, <2>4, <3>7, OnlyItsCase
      <4>2. CASE pc = "plan"
        <5>1. /\ cases'[k].state \in {"holdout", "awaiting_approval", "executing"}
              /\ cases'[k].outcome = cases[k].outcome
          BY <3>3, <3>7, <4>2 DEF CaseStep
        <5>2. cases[k].state = "detected"
          BY <1>0, <4>1, <4>2 DEF InHand
        <5>3. cases[k].outcome = NULL
          BY <1>0, <2>4, <5>2, StatesAre DEF CasesFiled
        <5> QED
          BY <5>1, <5>3
      <4>3. CASE pc = "stop"
        <5>1. Stop
          BY <2>1, <3>7, <4>3
             DEF Next, Progress, StartRun, PopCase, PersistHoldout, Abstain, PersistPlan,
                 SkipClaimed, ClaimDueBatch, Gate, Execute, ExecuteFails, Attribute, Complete,
                 WriteReport, Crash, vars, database
        <5> DEFINE end == [kind |-> "expired", recovered |-> 0, reason_code |-> "max_case_age"]
        <5>2. end.kind = "expired" /\ end.recovered = 0
          OBVIOUS
        <5>3. cases' = [cases EXCEPT ![k].state = "expired", ![k].outcome = end]
          BY <1>0, <3>7, <4>1, <5>1, StopIs
        <5> HIDE DEF end
        <5>4. cases'[k] = [cases[k] EXCEPT !.state = "expired", !.outcome = end]
          BY <2>4, <5>3
        <5>5. cases'[k].state = "expired" /\ cases'[k].outcome = end
          BY <3>1, <5>4 DEF CaseRecords
        <5> QED
          BY <5>2, <5>5
      <4>4. CASE pc = "execute"
        BY <3>3, <3>7, <4>4 DEF CaseStep
      <4>5. CASE pc = "attribute"
        <5>1. Attribute
          BY <2>1, <3>7, <4>5
             DEF Next, Progress, StartRun, PopCase, PersistHoldout, Abstain, PersistPlan,
                 SkipClaimed, ClaimDueBatch, Gate, Stop, Execute, ExecuteFails, Complete,
                 WriteReport, Crash, vars, database
        <5>2. PICK n : n = sim.next_id
          OBVIOUS
        <5>3. /\ cases'[k].state = "recovered" /\ cases'[k].outcome.kind = "recovered"
              /\ cases'[k].outcome.recovered = sim.payments[n].amount
          BY <2>1, <2>4, <4>1, <5>1, <5>2, CreditIs
        <5>4. /\ n \in DOMAIN sim.payments /\ sim.payments[n].status = "captured"
              /\ sim.payments[n].order = cases[k].source_payment + 1
          BY <1>0, <4>1, <4>5, <5>2 DEF Paid
        <5>5. sim.payments[n].amount = Source(k).amount
          <6>1. cases[k].source_payment \in Nat
            BY <3>1 DEF CaseRecords
          <6>2. sim.payments[n].order - 1 = cases[k].source_payment
            BY <5>4, <6>1
          <6> QED
            BY <3>1, <5>4, <6>2 DEF Priced
        <5>6. n \in Captures(cases[k].source_payment + 1)'
          BY <2>2, <3>4, <5>4 DEF Captures
        <5>7. HasPlaybook(k)
          BY <1>0, <4>1, <4>5, ItemIs, RowIs
        <5> QED
          BY <2>1, <5>3, <5>5, <5>6, <5>7
      <4> QED
        BY <4>1, <4>2, <4>3, <4>4, <4>5
    <3> QED
      BY <3>6, <3>7
  <2> QED
    BY <2>3, <2>4
<1> QED
  BY <1>1, <1>2

\* What the ledgers of a run hold.
Booked == Charged /\ Judged /\ Priced /\ Settled

LEMMA BooksOpen == Init => Booked
<1> SUFFICES ASSUME Init
             PROVE  Booked
  OBVIOUS
<1>1. /\ DOMAIN cases = {} /\ DOMAIN sim.payments = {} /\ pc = "over"
  BY DEF Init, NewSimulator
<1>2. OwnCases = {}
  BY <1>1 DEF OwnCases
<1> QED
  BY <1>1, <1>2 DEF Booked, Charged, Judged, Priced, Settled

LEMMA BooksKept == Spec => []Booked
<1>1. IInv /\ Booked /\ [Next]_vars => Booked'
  BY ChargedHolds, JudgedHolds, PricedHolds, SettledHolds DEF Booked
<1> QED
  BY <1>1, BooksOpen, Invariance, PTL DEF Spec

-----------------------------------------------------------------------------
(* The sums of a report.                                                   *)

\* What the folds over outcomes, rows, payments and cases return.
LEMMA AtRiskIsSum ==
    ASSUME NEW O, NEW c, Summable(c, O), \A o \in O : c[o] = o.at_risk
    PROVE  TotalAtRisk(O) = Sum(c, O)
<1> DEFINE S == O
           Folds(g) == g = [s \in SUBSET S |->
                               IF s = {} THEN 0
                               ELSE (CHOOSE x \in s : TRUE).at_risk
                                    + g[s \ {CHOOSE x \in s : TRUE}]]
           f == CHOOSE g : Folds(g)
<1>1. \A s \in SUBSET S : s # {} => c[First(s)] = First(s).at_risk
  BY FirstIsIn
<1>2. TotalAtRisk(O) = f[S]
  BY DEF TotalAtRisk, MapThenSumSet, MapThenFoldSet
<1>3. Summable(c, S)
  OBVIOUS
<1> HIDE DEF S
<1>4. \A g : Folds(g) <=> IsSum(g, c, S)
  BY <1>1 DEF IsSum, Adds, First
<1>5. PICK g : IsSum(g, c, S)
  BY <1>3, SumExists
<1> HIDE DEF Folds
<1>6. IsSum(f, c, S)
  BY <1>4, <1>5, Zenon
<1> HIDE DEF f
<1>7. f[S] = Sum(c, S)
  BY <1>3, <1>6, FoldIsSum
<1> QED
  BY <1>2, <1>7 DEF S

LEMMA RecoveredIsSum ==
    ASSUME NEW O, NEW c, Summable(c, O), \A o \in O : c[o] = o.recovered
    PROVE  TotalRecovered(O) = Sum(c, O)
<1> DEFINE S == O
           Folds(g) == g = [s \in SUBSET S |->
                               IF s = {} THEN 0
                               ELSE (CHOOSE x \in s : TRUE).recovered
                                    + g[s \ {CHOOSE x \in s : TRUE}]]
           f == CHOOSE g : Folds(g)
<1>1. \A s \in SUBSET S : s # {} => c[First(s)] = First(s).recovered
  BY FirstIsIn
<1>2. TotalRecovered(O) = f[S]
  BY DEF TotalRecovered, MapThenSumSet, MapThenFoldSet
<1>3. Summable(c, S)
  OBVIOUS
<1> HIDE DEF S
<1>4. \A g : Folds(g) <=> IsSum(g, c, S)
  BY <1>1 DEF IsSum, Adds, First
<1>5. PICK g : IsSum(g, c, S)
  BY <1>3, SumExists
<1> HIDE DEF Folds
<1>6. IsSum(f, c, S)
  BY <1>4, <1>5, Zenon
<1> HIDE DEF f
<1>7. f[S] = Sum(c, S)
  BY <1>3, <1>6, FoldIsSum
<1> QED
  BY <1>2, <1>7 DEF S

LEMMA CostsAreSum ==
    ASSUME NEW O, NEW c, Summable(c, O), \A o \in O : c[o] = o.cost
    PROVE  TotalCost(O) = Sum(c, O)
<1> DEFINE S == O
           Folds(g) == g = [s \in SUBSET S |->
                               IF s = {} THEN 0
                               ELSE (CHOOSE x \in s : TRUE).cost
                                    + g[s \ {CHOOSE x \in s : TRUE}]]
           f == CHOOSE g : Folds(g)
<1>1. \A s \in SUBSET S : s # {} => c[First(s)] = First(s).cost
  BY FirstIsIn
<1>2. TotalCost(O) = f[S]
  BY DEF TotalCost, MapThenSumSet, MapThenFoldSet
<1>3. Summable(c, S)
  OBVIOUS
<1> HIDE DEF S
<1>4. \A g : Folds(g) <=> IsSum(g, c, S)
  BY <1>1 DEF IsSum, Adds, First
<1>5. PICK g : IsSum(g, c, S)
  BY <1>3, SumExists
<1> HIDE DEF Folds
<1>6. IsSum(f, c, S)
  BY <1>4, <1>5, Zenon
<1> HIDE DEF f
<1>7. f[S] = Sum(c, S)
  BY <1>3, <1>6, FoldIsSum
<1> QED
  BY <1>2, <1>7 DEF S

LEMMA RowCostsAreSum ==
    ASSUME NEW R, NEW c, Summable(c, R), \A r \in R : c[r] = ActionOf(r).cost
    PROVE  CostOfRows(R) = Sum(c, R)
<1> DEFINE S == R
           Folds(g) == g = [s \in SUBSET S |->
                               IF s = {} THEN 0
                               ELSE ActionOf((CHOOSE x \in s : TRUE)).cost
                                    + g[s \ {CHOOSE x \in s : TRUE}]]
           f == CHOOSE g : Folds(g)
<1>1. \A s \in SUBSET S : s # {} => c[First(s)] = ActionOf(First(s)).cost
  BY FirstIsIn
<1>2. CostOfRows(R) = f[S]
  BY DEF CostOfRows, MapThenSumSet, MapThenFoldSet
<1>3. Summable(c, S)
  OBVIOUS
<1> HIDE DEF S
<1>4. \A g : Folds(g) <=> IsSum(g, c, S)
  BY <1>1 DEF IsSum, Adds, First
<1>5. PICK g : IsSum(g, c, S)
  BY <1>3, SumExists
<1> HIDE DEF Folds
<1>6. IsSum(f, c, S)
  BY <1>4, <1>5, Zenon
<1> HIDE DEF f
<1>7. f[S] = Sum(c, S)
  BY <1>3, <1>6, FoldIsSum
<1> QED
  BY <1>2, <1>7 DEF S

LEMMA CapturedIsSum ==
    ASSUME NEW order, NEW c, Summable(c, Captures(order)),
           \A n \in Captures(order) : c[n] = sim.payments[n].amount
    PROVE  CapturedOf(order) = Sum(c, Captures(order))
<1> DEFINE S == Captures(order)
           Folds(g) == g = [s \in SUBSET S |->
                               IF s = {} THEN 0
                               ELSE sim.payments[(CHOOSE x \in s : TRUE)].amount
                                    + g[s \ {CHOOSE x \in s : TRUE}]]
           f == CHOOSE g : Folds(g)
<1>1. \A s \in SUBSET S : s # {} => c[First(s)] = sim.payments[First(s)].amount
  BY FirstIsIn
<1>2. CapturedOf(order) = f[S]
  BY DEF CapturedOf, MapThenSumSet, MapThenFoldSet
<1>3. Summable(c, S)
  OBVIOUS
<1> HIDE DEF S
<1>4. \A g : Folds(g) <=> IsSum(g, c, S)
  BY <1>1 DEF IsSum, Adds, First
<1>5. PICK g : IsSum(g, c, S)
  BY <1>3, SumExists
<1> HIDE DEF Folds
<1>6. IsSum(f, c, S)
  BY <1>4, <1>5, Zenon
<1> HIDE DEF f
<1>7. f[S] = Sum(c, S)
  BY <1>3, <1>6, FoldIsSum
<1> QED
  BY <1>2, <1>7 DEF S

LEMMA CapturesAreSum ==
    ASSUME NEW ks, NEW c, Summable(c, ks),
           \A k \in ks : c[k] = CapturedOf(cases[k].source_payment + 1)
    PROVE  CapturedFor(ks) = Sum(c, ks)
<1> DEFINE S == ks
           Folds(g) == g = [s \in SUBSET S |->
                               IF s = {} THEN 0
                               ELSE CapturedOf(cases[(CHOOSE x \in s : TRUE)].source_payment + 1)
                                    + g[s \ {CHOOSE x \in s : TRUE}]]
           f == CHOOSE g : Folds(g)
<1>1. \A s \in SUBSET S : s # {} => c[First(s)] = CapturedOf(cases[First(s)].source_payment + 1)
  BY FirstIsIn
<1>2. CapturedFor(ks) = f[S]
  BY DEF CapturedFor, MapThenSumSet, MapThenFoldSet
<1>3. Summable(c, S)
  OBVIOUS
<1> HIDE DEF S
<1>4. \A g : Folds(g) <=> IsSum(g, c, S)
  BY <1>1 DEF IsSum, Adds, First
<1>5. PICK g : IsSum(g, c, S)
  BY <1>3, SumExists
<1> HIDE DEF Folds
<1>6. IsSum(f, c, S)
  BY <1>4, <1>5, Zenon
<1> HIDE DEF f
<1>7. f[S] = Sum(c, S)
  BY <1>3, <1>6, FoldIsSum
<1> QED
  BY <1>2, <1>7 DEF S

LEMMA ChargesAreSum ==
    ASSUME NEW ks, NEW c, Summable(c, ks), \A k \in ks : c[k] = cases[k].cost_spent
    PROVE  ChargedTo(ks) = Sum(c, ks)
<1> DEFINE S == ks
           Folds(g) == g = [s \in SUBSET S |->
                               IF s = {} THEN 0
                               ELSE cases[(CHOOSE x \in s : TRUE)].cost_spent
                                    + g[s \ {CHOOSE x \in s : TRUE}]]
           f == CHOOSE g : Folds(g)
<1>1. \A s \in SUBSET S : s # {} => c[First(s)] = cases[First(s)].cost_spent
  BY FirstIsIn
<1>2. ChargedTo(ks) = f[S]
  BY DEF ChargedTo, MapThenSumSet, MapThenFoldSet
<1>3. Summable(c, S)
  OBVIOUS
<1> HIDE DEF S
<1>4. \A g : Folds(g) <=> IsSum(g, c, S)
  BY <1>1 DEF IsSum, Adds, First
<1>5. PICK g : IsSum(g, c, S)
  BY <1>3, SumExists
<1> HIDE DEF Folds
<1>6. IsSum(f, c, S)
  BY <1>4, <1>5, Zenon
<1> HIDE DEF f
<1>7. f[S] = Sum(c, S)
  BY <1>3, <1>6, FoldIsSum
<1> QED
  BY <1>2, <1>7 DEF S

LEMMA DenialsAreSum ==
    ASSUME NEW c, Summable(c, DOMAIN c)
    PROVE  AllDenials(c) = Sum(c, DOMAIN c)
<1> DEFINE S == DOMAIN c
           Folds(g) == g = [s \in SUBSET S |->
                               IF s = {} THEN 0
                               ELSE c[(CHOOSE x \in s : TRUE)]
                                    + g[s \ {CHOOSE x \in s : TRUE}]]
           f == CHOOSE g : Folds(g)
<1>1. \A s \in SUBSET S : s # {} => c[First(s)] = c[First(s)]
  BY FirstIsIn
<1>2. AllDenials(c) = f[S]
  BY DEF AllDenials, MapThenSumSet, MapThenFoldSet
<1>3. Summable(c, S)
  OBVIOUS
<1> HIDE DEF S
<1>4. \A g : Folds(g) <=> IsSum(g, c, S)
  BY <1>1 DEF IsSum, Adds, First
<1>5. PICK g : IsSum(g, c, S)
  BY <1>3, SumExists
<1> HIDE DEF Folds
<1>6. IsSum(f, c, S)
  BY <1>4, <1>5, Zenon
<1> HIDE DEF f
<1>7. f[S] = Sum(c, S)
  BY <1>3, <1>6, FoldIsSum
<1> QED
  BY <1>2, <1>7 DEF S

-----------------------------------------------------------------------------
(* The report and the ledgers.                                             *)

Amounts == [n \in DOMAIN sim.payments |-> sim.payments[n].amount]

\* What the gateway took for a case of the run, what that was charged, and what is at
\* risk in it.
Taken == [k \in OwnCases |-> Sum(Amounts, Captures(cases[k].source_payment + 1))]
Spent == [k \in OwnCases |-> cases[k].cost_spent]
Stakes == [k \in OwnCases |-> Source(k).amount]

InArm(arm) == {k \in OwnCases : Source(k).arm = arm}

LEMMA OwnAreFinite ==
    ASSUME CasesFiled
    PROVE  IsFiniteSet(OwnCases)
<1> DEFINE I == DOMAIN Cohort[runs[run]]
           f == [i \in I |-> <<run, i>>]
<1>1. CASE run > 0
  <2>1. runs[run] \in DOMAIN Cohort
    BY <1>1, RunsAre
  <2>2. I = 1..Len(Cohort[runs[run]]) /\ Len(Cohort[runs[run]]) \in Nat
    BY <2>1, BenchmarkConstants
  <2> DEFINE n == Len(Cohort[runs[run]])
  <2>3. I = 1..n /\ n \in Nat
    BY <2>2
  <2> HIDE DEF n, I
  <2>4. IsFiniteSet(I)
    BY <2>3, FS_Interval
  <2>5. IsFiniteSet({f[i] : i \in I})
    BY <2>4, ImageIsFinite
  <2>6. OwnCases \subseteq {f[i] : i \in I}
    <3> SUFFICES ASSUME NEW k \in OwnCases
                 PROVE  \E i \in I : k = f[i]
      OBVIOUS
    <3>1. k[1] = run /\ Keyed(k)
      BY FiledAre DEF OwnCases
    <3>2. k = <<run, k[2]>> /\ k[2] \in I
      BY <3>1 DEF Keyed, I
    <3> QED
      BY <3>2
  <2> QED
    BY <2>5, <2>6, FS_Subset
<1>2. CASE ~(run > 0)
  <2>1. OwnCases = {}
    <3> SUFFICES ASSUME NEW k \in OwnCases
                 PROVE  FALSE
      OBVIOUS
    <3>1. k[1] = run /\ k[1] \in 1..run /\ run \in Nat
      BY FiledAre, RunsAre DEF OwnCases, Keyed
    <3> QED
      BY <1>2, <3>1
  <2> QED
    BY <2>1, FS_EmptySet
<1> QED
  BY <1>1, <1>2

\* Payments are finitely many, and what was captured of an order has a sum.
LEMMA CapturesAreSummable ==
    ASSUME Simulated
    PROVE  /\ \A order : Summable(Amounts, Captures(order))
           /\ \A order : CapturedOf(order) = Sum(Amounts, Captures(order))
<1>1. sim.next_id \in Nat /\ DOMAIN sim.payments \subseteq 1..sim.next_id
  BY DEF Simulated
<1>2. IsFiniteSet(1..sim.next_id)
  <2> DEFINE n == sim.next_id
  <2>1. n \in Nat
    BY <1>1
  <2> HIDE DEF n
  <2>2. IsFiniteSet(1..n)
    BY <2>1, FS_Interval
  <2> QED
    BY <2>2 DEF n
<1>3. \A n \in DOMAIN sim.payments : Amounts[n] = sim.payments[n].amount /\ Amounts[n] \in Nat
  BY DEF Simulated, Payments, Amounts
<1> SUFFICES ASSUME NEW order
             PROVE  /\ Summable(Amounts, Captures(order))
                    /\ CapturedOf(order) = Sum(Amounts, Captures(order))
  OBVIOUS
<1>4. Captures(order) \subseteq DOMAIN sim.payments
  BY DEF Captures
<1>5. Captures(order) \subseteq 1..sim.next_id
  BY <1>1, <1>4
<1>6. IsFiniteSet(Captures(order))
  BY <1>2, <1>5, FS_Subset
<1>7. Summable(Amounts, Captures(order))
  BY <1>3, <1>4, <1>6 DEF Summable
<1>8. \A n \in Captures(order) : Amounts[n] = sim.payments[n].amount
  BY <1>3, <1>4
<1>9. CapturedOf(order) = Sum(Amounts, Captures(order))
  BY <1>7, <1>8, CapturedIsSum
<1> QED
  BY <1>7, <1>9

LEMMA LedgersAreSummable ==
    ASSUME CasesFiled, Simulated, NEW K \in SUBSET OwnCases
    PROVE  IsFiniteSet(K) /\ Summable(Taken, K) /\ Summable(Spent, K) /\ Summable(Stakes, K)
<1>1. IsFiniteSet(K)
  BY OwnAreFinite, FS_Subset
<1>2. ASSUME NEW k \in K
      PROVE  Taken[k] \in Int /\ Spent[k] \in Int /\ Stakes[k] \in Int
  <2>1. Keyed(k) /\ cases[k] \in CaseRecords
    BY FiledAre DEF OwnCases
  <2>2. Spent[k] \in Int
    BY <2>1 DEF CaseRecords, Spent
  <2>3. Stakes[k] \in Int
    BY <2>1, CaseIs DEF CohortCase, Stakes
  <2>4. PICK order : order = cases[k].source_payment + 1
    OBVIOUS
  <2>5. Taken[k] = Sum(Amounts, Captures(order))
    BY <2>4 DEF Taken
  <2>6. Summable(Amounts, Captures(order))
    BY CapturesAreSummable
  <2> DEFINE C == Captures(order)
  <2>7. C \in SUBSET C /\ Summable(Amounts, C)
    BY <2>6
  <2> HIDE DEF C
  <2>8. Sum(Amounts, C) \in Int
    BY <2>7, SumWithout
  <2> QED
    BY <2>2, <2>3, <2>5, <2>8 DEF C
<1> QED
  BY <1>1, <1>2 DEF Summable

\* What the gateway took for a case is its amount, if it has been recovered.
LEMMA TakenIs ==
    ASSUME IInv, Booked, pc = "report", Fresh, NEW k \in OwnCases
    PROVE  /\ Taken[k] = IF cases[k].state = "recovered" THEN Source(k).amount ELSE 0
           /\ Captures(cases[k].source_payment + 1) = {} <=> cases[k].state # "recovered"
<1>0. CasesFiled /\ Simulated /\ Paid
  BY DEF IInv
<1>1. PICK n, order : n = cases[k].source_payment /\ order = n + 1
  OBVIOUS
<1>2. Keyed(k) /\ cases[k] \in CaseRecords /\ k \in DOMAIN cases
  BY <1>0, FiledAre DEF OwnCases
<1>3. n \in Nat /\ order - 1 = n
  BY <1>1, <1>2 DEF CaseRecords
<1>4. Taken[k] = Sum(Amounts, Captures(order))
  BY <1>1 DEF Taken
<1>5. CASE cases[k].state = "recovered"
  <2>1. Captures(order) # {}
    BY <1>1, <1>5 DEF Booked, Settled
  <2>2. PICK m \in Captures(order) : TRUE
    BY <2>1
  <2>3. m \in DOMAIN sim.payments /\ sim.payments[m].order = order /\ sim.payments[m].status = "captured"
    BY DEF Captures
  <2>4. Captures(order) = {m}
    BY <1>0, <2>2, <2>3 DEF Captures, Paid
  <2>5. sim.payments[m].amount = Source(k).amount
    BY <1>1, <1>3, <2>3 DEF Booked, Priced
  <2>6. Amounts[m] = Source(k).amount /\ Source(k).amount \in Int
    BY <1>0, <1>2, <2>3, <2>5, CaseIs DEF Amounts, CohortCase
  <2>7. Sum(Amounts, {m}) = Amounts[m]
    BY <2>6, SumOfOne
  <2> QED
    BY <1>1, <1>4, <1>5, <2>1, <2>4, <2>6, <2>7
<1>6. CASE cases[k].state # "recovered"
  <2>1. Captures(order) = {}
    <3> SUFFICES ASSUME NEW m \in Captures(order)
                 PROVE  FALSE
      OBVIOUS
    <3>1. /\ m \in DOMAIN sim.payments /\ sim.payments[m].order = order
          /\ sim.payments[m].status = "captured"
      BY DEF Captures
    <3>2. PICK j \in OwnCases : order = cases[j].source_payment + 1 /\ cases[j].state = "recovered"
      BY <1>0, <3>1 DEF Paid
    <3>3. cases[j].source_payment \in Nat
      BY <1>0, FiledAre DEF OwnCases, CaseRecords
    <3>4. cases[j].source_payment = n
      BY <1>1, <1>3, <3>2, <3>3
    <3>5. j = k
      BY <1>0, <1>1, <3>4 DEF Simulated
    <3> QED
      BY <1>6, <3>2, <3>5
  <2> QED
    BY <1>1, <1>4, <1>6, <2>1, SumOfNothing
<1> QED
  BY <1>5, <1>6

\* The rows that count cost what the case was charged.
LEMMA CountedIsCharged ==
    ASSUME IInv, Booked, NEW k \in OwnCases
    PROVE  CostOfRows({r \in RowsOf(k) : Counted(r)}) = cases[k].cost_spent
<1>0. CasesFiled /\ RowsFiled
  BY DEF IInv
<1> DEFINE p == PlaybookOf(k)
           D == {r \in RowsOf(k) : Counted(r)}
           f == [i \in DoneSteps(k) |-> <<k, i>>]
           c == [r \in D |-> ActionOf(r).cost]
<1>1. Keyed(k) /\ k \in DOMAIN cases
  BY <1>0, FiledAre DEF OwnCases
<1>2. \A r \in D : r \in DOMAIN rows /\ CaseOf(r) = k /\ rows[r].status = "done"
  BY DEF RowsOf, Counted
<1>3. CASE HasPlaybook(k)
  <2>1. WellFormed(p) /\ DoneSteps(k) \in SUBSET DOMAIN p.steps
    BY <1>0, <1>1, <1>3, CaseIs DEF DoneSteps
  <2>2. ASSUME NEW r \in D
        PROVE  StepOf(r) \in DoneSteps(k) /\ r = <<k, StepOf(r)>>
    BY <1>0, <1>2, RowIs DEF DoneSteps
  <2>3. ASSUME NEW i \in DoneSteps(k)
        PROVE  <<k, i>> \in D /\ c[<<k, i>>] = Costs(p)[i]
    <3>1. <<k, i>> \in DOMAIN rows /\ rows[<<k, i>>].status = "done" /\ i \in DOMAIN p.steps
      BY DEF DoneSteps
    <3>2. CaseOf(<<k, i>>) = k /\ StepOf(<<k, i>>) = i
      BY DEF CaseOf, StepOf
    <3>3. <<k, i>> \in D
      BY <3>1, <3>2 DEF RowsOf, Counted
    <3>4. ActionOf(<<k, i>>).cost = p.steps[i].cost
      BY <3>2 DEF ActionOf, StepIn
    <3>5. Costs(p)[i] = p.steps[i].cost
      BY <2>1, <3>1, CostsAreSummable
    <3> HIDE DEF D, p
    <3> QED
      BY <3>3, <3>4, <3>5
  <2>4. D = {f[i] : i \in DoneSteps(k)}
    <3> HIDE DEF D
    <3> QED
      BY <2>2, <2>3
  <2>5. Summable(Costs(p), DoneSteps(k))
    BY <2>1, CostsAreSummable
  <2>6. /\ \A i, j \in DoneSteps(k) : f[i] = f[j] => i = j
        /\ \A i \in DoneSteps(k) : c[f[i]] = Costs(p)[i]
    <3> HIDE DEF c
    <3> QED
      BY <2>3
  <2>7. /\ \A r \in D : c[r] = ActionOf(r).cost
        /\ Summable(c, D)
    <3>1. IsFiniteSet(D)
      BY <1>0, FS_Subset DEF RowsFiled, RowsOf
    <3>2. \A r \in D : c[r] \in Int
      <4>1. \A i \in DoneSteps(k) : Costs(p)[i] \in Int
        BY <2>5 DEF Summable
      <4> HIDE DEF D, c, p
      <4> QED
        BY <2>2, <2>3, <4>1
    <3>3. \A r \in D : c[r] = ActionOf(r).cost
      OBVIOUS
    <3> HIDE DEF D, c
    <3> QED
      BY <3>1, <3>2, <3>3 DEF Summable
  <2>8. cases[k].cost_spent = CostOf(p, DoneSteps(k))
    BY <1>1, <1>3 DEF Booked, Charged
  <2> HIDE DEF c, D, f, p
  <2>9. Sum(c, {f[i] : i \in DoneSteps(k)}) = Sum(Costs(p), DoneSteps(k))
    BY <2>5, <2>6, SumAcross
  <2>10. CostOf(p, DoneSteps(k)) = Sum(Costs(p), DoneSteps(k))
    BY <2>1, CostIsSum
  <2>11. CostOfRows(D) = Sum(c, D)
    BY <2>7, RowCostsAreSum
  <2>12. CostOfRows(D) = cases[k].cost_spent
    BY <2>4, <2>8, <2>9, <2>10, <2>11
  <2> QED
    BY <2>12 DEF D
<1>4. CASE ~HasPlaybook(k)
  <2>1. D = {}
    BY <1>0, <1>2, <1>4, RowIs
  <2>2. cases[k].cost_spent = 0
    BY <1>1, <1>4 DEF Booked, Charged
  <2>3. CostOfRows({}) = Sum(c, {})
    <3>1. Summable(c, {}) /\ \A r \in {} : c[r] = ActionOf(r).cost
      BY FS_EmptySet DEF Summable
    <3> HIDE DEF c
    <3> QED
      BY <3>1, RowCostsAreSum
  <2> HIDE DEF c, D
  <2>4. CostOfRows(D) = cases[k].cost_spent
    BY <2>1, <2>2, <2>3, SumOfNothing
  <2> QED
    BY <2>4 DEF D
<1> QED
  BY <1>3, <1>4

\* What the report knows of a case.
LEMMA OutcomeIs ==
    ASSUME IInv, Booked, pc = "report", Fresh, NEW k \in OwnCases
    PROVE  LET o == CaseOutcome(k) IN
           /\ o.id = k /\ o.arm = Source(k).arm /\ o.at_risk = Stakes[k]
           /\ o.recovered = Taken[k] /\ o.cost = Spent[k]
           /\ o.outcome_kind = "recovered" <=> Captures(cases[k].source_payment + 1) # {}
           /\ o.playbook_id = cases[k].playbook_id
<1> DEFINE o == CaseOutcome(k)
           D == {r \in RowsOf(k) : Counted(r)}
<1>1. /\ o.id = k /\ o.arm = Source(k).arm /\ o.at_risk = Source(k).amount
      /\ o.recovered = IF cases[k].outcome = NULL THEN 0 ELSE cases[k].outcome.recovered
      /\ o.cost = CostOfRows(D)
      /\ o.outcome_kind = IF cases[k].outcome = NULL THEN NULL ELSE cases[k].outcome.kind
      /\ o.playbook_id = cases[k].playbook_id
  BY DEF CaseOutcome
<1>2. CostOfRows(D) = cases[k].cost_spent
  BY CountedIsCharged
<1> HIDE DEF o, D
<1>3. /\ Spent[k] = cases[k].cost_spent /\ Stakes[k] = Source(k).amount
  BY DEF Spent, Stakes
<1>4. /\ cases[k].state \in Terminal <=> cases[k].outcome # NULL
      /\ cases[k].state = "recovered" => cases[k].state \in Terminal
  BY StatesAre DEF IInv, CasesFiled, OwnCases
<1>5. cases[k].outcome # NULL =>
        /\ cases[k].outcome.kind = cases[k].state
        /\ cases[k].outcome.recovered = IF cases[k].state = "recovered" THEN Source(k).amount ELSE 0
  BY DEF Booked, Settled
<1>6. /\ Taken[k] = IF cases[k].state = "recovered" THEN Source(k).amount ELSE 0
      /\ Captures(cases[k].source_payment + 1) = {} <=> cases[k].state # "recovered"
  BY TakenIs
<1>7. NULL # "recovered"
  BY StatesAre, BenchmarkConstants
<1>8. o.recovered = Taken[k]
  BY <1>1, <1>4, <1>5, <1>6
<1>9. o.outcome_kind = "recovered" <=> cases[k].state = "recovered"
  BY <1>1, <1>4, <1>5, <1>7
<1> QED
  BY <1>1, <1>2, <1>3, <1>6, <1>8, <1>9 DEF o

\* The figures of a set of cases.
LEMMA GroupIs ==
    ASSUME IInv, Booked, pc = "report", Fresh, NEW K \in SUBSET OwnCases
    PROVE  LET S == {CaseOutcome(k) : k \in K} IN
           /\ Cardinality(S) = Cardinality(K)
           /\ TotalAtRisk(S) = Sum(Stakes, K) /\ TotalRecovered(S) = Sum(Taken, K)
           /\ TotalCost(S) = Sum(Spent, K)
           /\ {o.id : o \in S} = K
<1> DEFINE f == [k \in K |-> CaseOutcome(k)]
           S == {f[k] : k \in K}
           risks == [o \in S |-> o.at_risk]
           recoveries == [o \in S |-> o.recovered]
           costs == [o \in S |-> o.cost]
<1>0. CasesFiled /\ Simulated
  BY DEF IInv
<1>1. \A k \in K : /\ f[k].id = k /\ f[k].at_risk = Stakes[k]
                   /\ f[k].recovered = Taken[k] /\ f[k].cost = Spent[k]
  <2> SUFFICES ASSUME NEW k \in K
               PROVE  /\ f[k].id = k /\ f[k].at_risk = Stakes[k]
                      /\ f[k].recovered = Taken[k] /\ f[k].cost = Spent[k]
    OBVIOUS
  <2>1. f[k] = CaseOutcome(k) /\ k \in OwnCases
    OBVIOUS
  <2> HIDE DEF f
  <2> QED
    BY <2>1, OutcomeIs
<1>2. S = {CaseOutcome(k) : k \in K}
  OBVIOUS
<1>3. f \in Surjection(K, S)
  BY DEF Surjection
<1> HIDE DEF f
<1>4. IsFiniteSet(K) /\ Summable(Taken, K) /\ Summable(Spent, K) /\ Summable(Stakes, K)
  BY <1>0, LedgersAreSummable
<1>5. \A j, k \in K : f[j] = f[k] => j = k
  BY <1>1
<1>6. \A k \in K : risks[f[k]] = Stakes[k] /\ recoveries[f[k]] = Taken[k] /\ costs[f[k]] = Spent[k]
  BY <1>1
<1>7. \A o \in S : risks[o] = o.at_risk /\ recoveries[o] = o.recovered /\ costs[o] = o.cost
  OBVIOUS
<1>8. {o.id : o \in S} = K
  BY <1>1
<1>9. IsFiniteSet(S) /\ Cardinality(S) = Cardinality(K)
  <2> HIDE DEF S
  <2>1. f \in [K -> S]
    BY <1>3 DEF Surjection
  <2>2. f \in Injection(K, S)
    BY <1>5, <2>1 DEF Injection, IsInjective
  <2> QED
    BY <1>3, <1>4, <2>2, FS_Surjection
<1>10. Summable(risks, S) /\ Summable(recoveries, S) /\ Summable(costs, S)
  <2>1. \A k \in K : Stakes[k] \in Int /\ Taken[k] \in Int /\ Spent[k] \in Int
    BY <1>4 DEF Summable
  <2>2. \A o \in S : risks[o] \in Int /\ recoveries[o] \in Int /\ costs[o] \in Int
    <3> HIDE DEF risks, recoveries, costs
    <3> QED
      BY <1>6, <2>1
  <2> HIDE DEF risks, recoveries, costs, S
  <2> QED
    BY <1>9, <2>2 DEF Summable
<1> HIDE DEF risks, recoveries, costs
<1>11. Sum(risks, S) = Sum(Stakes, K)
  BY <1>4, <1>5, <1>6, SumAcross
<1>12. Sum(recoveries, S) = Sum(Taken, K)
  BY <1>4, <1>5, <1>6, SumAcross
<1>13. Sum(costs, S) = Sum(Spent, K)
  BY <1>4, <1>5, <1>6, SumAcross
<1> HIDE DEF S
<1>14. TotalAtRisk(S) = Sum(risks, S)
  BY <1>7, <1>10, AtRiskIsSum
<1>15. TotalRecovered(S) = Sum(recoveries, S)
  BY <1>7, <1>10, RecoveredIsSum
<1>16. TotalCost(S) = Sum(costs, S)
  BY <1>7, <1>10, CostsAreSum
<1> QED
  BY <1>2, <1>8, <1>9, <1>11, <1>12, <1>13, <1>14, <1>15, <1>16

\* What is taken is never more than what is at risk, which is something in every case.
LEMMA TakenIsBounded ==
    ASSUME IInv, Booked, pc = "report", Fresh, NEW K \in SUBSET OwnCases
    PROVE  /\ Sum(Taken, K) \in Nat /\ Sum(Stakes, K) \in Nat /\ Sum(Taken, K) <= Sum(Stakes, K)
           /\ K # {} => Sum(Stakes, K) > 0
           /\ Sum(Stakes, K) <= Sum(Stakes, OwnCases) /\ Sum(Stakes, OwnCases) \in Nat
<1>0. CasesFiled /\ Simulated
  BY DEF IInv
<1>1. ASSUME NEW k \in OwnCases
      PROVE  Stakes[k] \in Nat \ {0} /\ Taken[k] \in Nat /\ Taken[k] <= Stakes[k]
  <2>1. Source(k).amount \in Nat \ {0}
    BY <1>0, FiledAre, CaseIs DEF OwnCases, CohortCase
  <2>2. Stakes[k] = Source(k).amount
    BY DEF Stakes
  <2>3. Taken[k] = IF cases[k].state = "recovered" THEN Source(k).amount ELSE 0
    BY TakenIs
  <2> QED
    BY <2>1, <2>2, <2>3
<1>2. IsFiniteSet(K) /\ Summable(Taken, K) /\ Summable(Stakes, K) /\ IsFiniteSet(OwnCases)
  BY <1>0, LedgersAreSummable, OwnAreFinite
<1>3. Sum(Taken, K) <= Sum(Stakes, K)
  BY <1>1, <1>2, SumCompares
<1>4. Sum(Stakes, K) \in Nat /\ Sum(Stakes, OwnCases) \in Nat /\ Sum(Stakes, K) <= Sum(Stakes, OwnCases)
  BY <1>1, <1>2, SumGrows
<1>5. Sum(Taken, K) \in Nat
  <2>1. K \in SUBSET K
    OBVIOUS
  <2> QED
    BY <1>1, <1>2, <2>1, SumGrows
<1>6. ASSUME K # {}
      PROVE  Sum(Stakes, K) > 0
  <2>1. PICK k \in K : TRUE
    BY <1>6
  <2>2. K \in SUBSET K /\ K \ {k} \in SUBSET K
    OBVIOUS
  <2>3. Sum(Stakes, K) = Stakes[k] + Sum(Stakes, K \ {k})
    BY <1>2, <2>1, <2>2, SumWithout
  <2>4. Sum(Stakes, K \ {k}) \in Nat
    BY <1>1, <1>2, <2>2, SumGrows
  <2>5. Stakes[k] \in Nat \ {0}
    BY <1>1, <2>1
  <2> QED
    BY <2>3, <2>4, <2>5
<1> QED
  BY <1>3, <1>4, <1>5, <1>6

LEMMA Enlarges ==
    ASSUME NEW a \in Nat, NEW b \in Nat, NEW c \in Nat, b >= 1, c >= a
    PROVE  b * c \in Nat /\ b * c >= a
  OBVIOUS

LEMMA RoundIs ==
    ASSUME NEW num \in Nat, NEW den \in Nat, den > 0
    PROVE  /\ num = 0 => ~(Round(num, den) > 0)
           /\ num >= den => Round(num, den) > 0
<1> DEFINE floor == num \div den
           twice == 2 * (num - floor * den)
<1>1. floor \in Nat /\ floor * den <= num /\ num < (floor + 1) * den
  OBVIOUS
<1>2. Round(num, den) \in {floor, floor + 1}
  BY DEF Round
<1>3. num = 0 => floor = 0
  OBVIOUS
<1>4. num = 0 => twice = 0
  BY <1>3
<1>5. twice < den => Round(num, den) = floor
  BY DEF Round
<1>6. num >= den => floor >= 1
  BY <1>1
<1> HIDE DEF floor, twice
<1> QED
  BY <1>1, <1>2, <1>3, <1>4, <1>5, <1>6

-----------------------------------------------------------------------------
(* The report of a run.                                                    *)

Reported == {CaseOutcome(k) : k \in OwnCases}

Uncaptured == {k \in OwnCases : Captures(cases[k].source_payment + 1) = {}}

\* The rows the gate has decided and nothing executed.
TurnedDown == {r \in OwnRows : rows[r].verdict # NULL /\ rows[r].status \notin {"done", "failed"}}

\* ReportMatchesLedgers, of sums.
Agrees(rep) ==
    /\ \A arm \in Arms :
        /\ rep.per_arm[arm].case_count = Cardinality(InArm(arm))
        /\ rep.per_arm[arm].recovered_total = Sum(Taken, InArm(arm))
        /\ rep.per_arm[arm].recovered_total <= rep.per_arm[arm].at_risk_total
    /\ rep.economics.total_cost = Sum(Spent, OwnCases)
    /\ DOMAIN rep.exceptions = Uncaptured
    /\ rep.baseline_beats_control <=> Sum(Taken, InArm("baseline")) > 0
    /\ Summable(rep.policy_denials, DOMAIN rep.policy_denials)
    /\ Sum(rep.policy_denials, DOMAIN rep.policy_denials) = Cardinality(TurnedDown)
    /\ \A x \in DOMAIN rep.playbook_breakdown :
        /\ rep.playbook_breakdown[x].cases \in SUBSET OwnCases
        /\ rep.playbook_breakdown[x].total_recovered = Sum(Taken, rep.playbook_breakdown[x].cases)

Tallied == report # NULL => pc = "over" /\ (Fresh => Agrees(report))

LEMMA DenialsAre ==
    ASSUME IInv, Booked, pc = "report"
    PROVE  /\ Summable(PolicyDenials, DOMAIN PolicyDenials)
           /\ Sum(PolicyDenials, DOMAIN PolicyDenials) = Cardinality(TurnedDown)
<1> DEFINE D == {r \in OwnRows : rows[r].verdict \notin {NULL, "allow"}}
           kind == [r \in D |-> rows[r].rule_id]
           R == {kind[r] : r \in D}
<1>1. NULL # "allow"
  BY BenchmarkConstants
<1>2. \A r \in OwnRows : rows[r].verdict = "allow" <=> rows[r].status \in {"done", "failed"}
  BY DEF Booked, Judged
<1>3. D = TurnedDown
  BY <1>1, <1>2 DEF TurnedDown
<1>4. IsFiniteSet(D)
  <2>1. D \subseteq DOMAIN rows /\ IsFiniteSet(DOMAIN rows)
    BY DEF OwnRows, IInv, RowsFiled
  <2> QED
    BY <2>1, FS_Subset
<1>5. R = {rows[r].rule_id : r \in D}
  OBVIOUS
<1>6. PolicyDenials = [rule \in R |-> Cardinality({r \in D : rows[r].rule_id = rule})]
  BY <1>5 DEF PolicyDenials
<1>7. \A rule : {r \in D : rows[r].rule_id = rule} = {r \in D : kind[r] = rule}
  OBVIOUS
<1> HIDE DEF D, kind
<1>8. DOMAIN PolicyDenials = R
  BY <1>6
<1>9. \A rule \in R : PolicyDenials[rule] = Cardinality({r \in D : kind[r] = rule})
  BY <1>6, <1>7
<1>10. Summable(PolicyDenials, R) /\ Sum(PolicyDenials, R) = Cardinality(D)
  <2> DEFINE of == [rule \in R |-> {r \in D : kind[r] = rule}]
  <2>1. \A rule \in R : /\ \A r : r \in of[rule] <=> r \in D /\ kind[r] = rule
                        /\ PolicyDenials[rule] = Cardinality(of[rule])
    BY <1>9
  <2>2. IsFiniteSet(R) /\ \A r \in D : kind[r] \in R
    BY <1>4, ImageIsFinite
  <2> HIDE DEF of, R
  <2> QED
    BY <1>4, <2>1, <2>2, SumOfKinds
<1> QED
  BY <1>3, <1>8, <1>10

\* The outcomes of an arm, and of a playbook.
LEMMA PartsAre ==
    ASSUME IInv, Booked, pc = "report", Fresh
    PROVE  /\ \A arm : OfArm(Reported, arm) = {CaseOutcome(k) : k \in InArm(arm)}
           /\ \A x : {o \in Reported : o.playbook_id = x}
                       = {CaseOutcome(k) : k \in {j \in OwnCases : cases[j].playbook_id = x}}
           /\ \A arm : InArm(arm) \in SUBSET OwnCases
<1>1. \A k \in OwnCases : /\ CaseOutcome(k).arm = Source(k).arm
                          /\ CaseOutcome(k).playbook_id = cases[k].playbook_id
  BY OutcomeIs
<1>2. \A arm : OfArm(Reported, arm) = {CaseOutcome(k) : k \in InArm(arm)}
  BY <1>1 DEF OfArm, Reported, InArm
<1>3. \A x : {o \in Reported : o.playbook_id = x}
               = {CaseOutcome(k) : k \in {j \in OwnCases : cases[j].playbook_id = x}}
  BY <1>1 DEF Reported
<1> QED
  BY <1>2, <1>3 DEF InArm

LEMMA ArmIs ==
    ASSUME IInv, Booked, pc = "report", Fresh, NEW arm
    PROVE  /\ Cardinality(OfArm(Reported, arm)) = Cardinality(InArm(arm))
           /\ TotalRecovered(OfArm(Reported, arm)) = Sum(Taken, InArm(arm))
           /\ TotalAtRisk(OfArm(Reported, arm)) = Sum(Stakes, InArm(arm))
           /\ OfArm(Reported, arm) # {} => InArm(arm) # {}
<1>1. OfArm(Reported, arm) = {CaseOutcome(k) : k \in InArm(arm)} /\ InArm(arm) \in SUBSET OwnCases
  BY PartsAre
<1>2. PICK K, S : K = InArm(arm) /\ S = OfArm(Reported, arm)
  OBVIOUS
<1>3. K \in SUBSET OwnCases /\ S = {CaseOutcome(k) : k \in K}
  BY <1>1, <1>2
<1>4. Cardinality(S) = Cardinality(K) /\ TotalRecovered(S) = Sum(Taken, K) /\ TotalAtRisk(S) = Sum(Stakes, K)
  BY <1>3, GroupIs
<1>5. S # {} => K # {}
  BY <1>3
<1> QED
  BY <1>2, <1>4, <1>5

\* The baseline beats the control arm, which recovers nothing, if it recovers anything.
LEMMA BaselineIs ==
    ASSUME IInv, Booked, pc = "report", Fresh, CanCompare(Reported)
    PROVE  IncrementalValue(Reported, "baseline", "control") > 0 <=> Sum(Taken, InArm("baseline")) > 0
<1> DEFINE tn == Sum(Taken, InArm("baseline"))
           td == Sum(Stakes, InArm("baseline"))
           cn == Sum(Taken, InArm("control"))
           cd == Sum(Stakes, InArm("control"))
           all == Sum(Stakes, OwnCases)
<1>0. CasesFiled
  BY DEF IInv
<1>1. InArm("baseline") # {} /\ InArm("control") # {}
  BY ArmIs DEF CanCompare, Arms
<1>2. \A arm : InArm(arm) \in SUBSET OwnCases
  BY DEF InArm
<1>3. /\ tn \in Nat /\ td \in Nat /\ td > 0 /\ td <= all /\ all \in Nat
      /\ cd \in Nat /\ cd > 0
  BY <1>1, <1>2, TakenIsBounded
<1>4. cn = 0
  <2>1. IsFiniteSet(InArm("control"))
    BY <1>0, <1>2, OwnAreFinite, FS_Subset
  <2>2. ASSUME NEW k \in InArm("control")
        PROVE  Taken[k] = 0
    <3>1. k \in OwnCases /\ Source(k).arm = "control"
      BY DEF InArm
    <3>2. ~HasPlaybook(k)
      BY <3>1 DEF HasPlaybook
    <3>3. cases[k].state # "recovered"
      BY <3>1, <3>2 DEF Booked, Settled
    <3> QED
      BY <3>1, <3>3, TakenIs
  <2> QED
    BY <2>1, <2>2, SumOfZeros
<1>5. TotalAtRisk(Reported) = all
  <2>1. OwnCases \in SUBSET OwnCases
    OBVIOUS
  <2> QED
    BY <2>1, GroupIs DEF Reported
<1>6. /\ TotalAtRisk(OfArm(Reported, "baseline")) = td
      /\ TotalRecovered(OfArm(Reported, "baseline")) = tn
      /\ TotalAtRisk(OfArm(Reported, "control")) = cd
      /\ TotalRecovered(OfArm(Reported, "control")) = cn
  BY ArmIs
<1> HIDE DEF tn, td, cn, cd, all
<1>7. /\ AmountWeightedRate(OfArm(Reported, "baseline")) = [num |-> tn, den |-> td]
      /\ AmountWeightedRate(OfArm(Reported, "control")) = [num |-> cn, den |-> cd]
  BY <1>3, <1>6 DEF AmountWeightedRate
<1>8. IncrementalValue(Reported, "baseline", "control") = Round((tn * cd - cn * td) * all, td * cd)
  BY <1>5, <1>7 DEF IncrementalValue
<1>9. (tn * cd - cn * td) * all = (tn * cd) * all
  <2>1. cn * td = 0
    BY <1>3, <1>4
  <2>2. tn * cd \in Nat
    BY <1>3
  <2> QED
    BY <2>1, <2>2
<1> DEFINE num == (tn * cd) * all
           den == td * cd
<1>10. num \in Nat /\ den \in Nat /\ den > 0
  BY <1>3
<1>11. tn = 0 => num = 0
  BY <1>3
<1>12. tn > 0 => num >= den
  <2> SUFFICES ASSUME tn > 0
               PROVE  num >= den
    OBVIOUS
  <2>1. tn * all \in Nat /\ tn * all >= td
    BY <1>3, Enlarges
  <2>2. num = (tn * all) * cd
    BY <1>3
  <2> DEFINE x == tn * all
  <2>3. x \in Nat /\ x >= td
    BY <2>1
  <2> HIDE DEF x
  <2>4. x * cd >= td * cd
    BY <1>3, <2>3
  <2> QED
    BY <2>2, <2>4 DEF x
<1>13. IncrementalValue(Reported, "baseline", "control") = Round(num, den)
  BY <1>8, <1>9
<1> HIDE DEF num, den
<1>14. /\ num = 0 => ~(Round(num, den) > 0)
       /\ num >= den => Round(num, den) > 0
  BY <1>10, RoundIs
<1>15. tn > 0 \/ tn = 0
  BY <1>3
<1> QED
  BY <1>11, <1>12, <1>13, <1>14, <1>15 DEF tn

LEMMA ReportIs ==
    ASSUME IInv, Booked, pc = "report", Fresh, CanCompare(Reported)
    PROVE  Agrees(BuildReport(Reported, PolicyDenials))
<1> DEFINE rep == BuildReport(Reported, PolicyDenials)
           kinds == {o.playbook_id : o \in Reported}
           Group(x) == {o \in Reported : o.playbook_id = x}
           Under(x) == {j \in OwnCases : cases[j].playbook_id = x}
<1>1. /\ \A arm \in Arms :
            /\ rep.per_arm[arm].case_count = Cardinality(OfArm(Reported, arm))
            /\ rep.per_arm[arm].recovered_total = TotalRecovered(OfArm(Reported, arm))
            /\ rep.per_arm[arm].at_risk_total = TotalAtRisk(OfArm(Reported, arm))
      /\ rep.baseline_beats_control = (IncrementalValue(Reported, "baseline", "control") > 0)
      /\ rep.economics = Economics(Reported)
      /\ rep.exceptions = ExceptionList(Reported)
      /\ rep.policy_denials = PolicyDenials
      /\ rep.playbook_breakdown = PlaybookBreakdown(Reported)
  BY DEF BuildReport, ArmStatistics
<1>2. rep.economics.total_cost = TotalCost(Reported)
  BY <1>1 DEF Economics
<1>3. /\ DOMAIN rep.playbook_breakdown = kinds
      /\ \A x \in kinds :
            /\ rep.playbook_breakdown[x].cases = {o.id : o \in Group(x)}
            /\ rep.playbook_breakdown[x].total_recovered = TotalRecovered(Group(x))
  BY <1>1 DEF PlaybookBreakdown
<1>4. DOMAIN rep.exceptions = {o.id : o \in {q \in Reported : q.outcome_kind # "recovered"}}
  BY <1>1 DEF ExceptionList, Reasons
<1> HIDE DEF rep
<1>5. ASSUME NEW arm \in Arms
      PROVE  /\ rep.per_arm[arm].case_count = Cardinality(InArm(arm))
             /\ rep.per_arm[arm].recovered_total = Sum(Taken, InArm(arm))
             /\ rep.per_arm[arm].recovered_total <= rep.per_arm[arm].at_risk_total
  <2>1. InArm(arm) \in SUBSET OwnCases
    BY PartsAre
  <2>2. Sum(Taken, InArm(arm)) <= Sum(Stakes, InArm(arm))
    BY <2>1, TakenIsBounded
  <2> QED
    BY <1>1, <2>2, ArmIs
<1>6. rep.economics.total_cost = Sum(Spent, OwnCases)
  <2>1. OwnCases \in SUBSET OwnCases
    OBVIOUS
  <2> QED
    BY <1>2, <2>1, GroupIs DEF Reported
<1>7. DOMAIN rep.exceptions = Uncaptured
  <2>1. \A k \in OwnCases :
          /\ CaseOutcome(k).id = k
          /\ CaseOutcome(k).outcome_kind = "recovered" <=> Captures(cases[k].source_payment + 1) # {}
    BY OutcomeIs
  <2> QED
    BY <1>4, <2>1 DEF Reported, Uncaptured
<1>8. rep.baseline_beats_control <=> Sum(Taken, InArm("baseline")) > 0
  BY <1>1, BaselineIs
<1>9. ASSUME NEW x \in kinds
      PROVE  /\ rep.playbook_breakdown[x].cases = Under(x)
             /\ rep.playbook_breakdown[x].total_recovered = Sum(Taken, Under(x))
  <2>1. Group(x) = {CaseOutcome(k) : k \in Under(x)}
    BY PartsAre
  <2>2. Under(x) \in SUBSET OwnCases
    OBVIOUS
  <2>3. /\ rep.playbook_breakdown[x].cases = {o.id : o \in Group(x)}
        /\ rep.playbook_breakdown[x].total_recovered = TotalRecovered(Group(x))
    BY <1>3
  <2> HIDE DEF Group, Under
  <2>4. /\ {o.id : o \in Group(x)} = Under(x)
        /\ TotalRecovered(Group(x)) = Sum(Taken, Under(x))
    BY <2>1, <2>2, GroupIs
  <2> QED
    BY <2>3, <2>4
<1>10. \A x \in DOMAIN rep.playbook_breakdown :
         /\ rep.playbook_breakdown[x].cases \in SUBSET OwnCases
         /\ rep.playbook_breakdown[x].total_recovered = Sum(Taken, rep.playbook_breakdown[x].cases)
  <2> SUFFICES ASSUME NEW x \in kinds
               PROVE  /\ rep.playbook_breakdown[x].cases \in SUBSET OwnCases
                      /\ rep.playbook_breakdown[x].total_recovered
                           = Sum(Taken, rep.playbook_breakdown[x].cases)
    BY <1>3
  <2>1. Under(x) \in SUBSET OwnCases
    OBVIOUS
  <2> QED
    BY <1>9, <2>1
<1>11. /\ Summable(rep.policy_denials, DOMAIN rep.policy_denials)
       /\ Sum(rep.policy_denials, DOMAIN rep.policy_denials) = Cardinality(TurnedDown)
  BY <1>1, DenialsAre
<1>12. Agrees(rep)
  BY <1>5, <1>6, <1>7, <1>8, <1>10, <1>11 DEF Agrees
<1> QED
  BY <1>12 DEF rep

\* What a report agrees with is in the database and at the gateway.
LEMMA AgreesStill ==
    ASSUME NEW rep, UNCHANGED <<database, sim>>
    PROVE  Agrees(rep)' <=> Agrees(rep)
<1>1. runs' = runs /\ cases' = cases /\ rows' = rows /\ sim' = sim
  BY DEF database
<1>2. OwnCases' = OwnCases /\ OwnRows' = OwnRows /\ \A k : Source(k)' = Source(k)
  BY <1>1 DEF OwnCases, OwnRows, Own, run, Source
<1>3. \A order : Captures(order)' = Captures(order)
  BY <1>1 DEF Captures
<1>4. Amounts' = Amounts
  BY <1>1 DEF Amounts
<1>5. Taken' = Taken /\ Spent' = Spent
  BY <1>1, <1>2, <1>3, <1>4 DEF Taken, Spent
<1>6. \A arm : InArm(arm)' = InArm(arm)
  BY <1>2 DEF InArm
<1>7. Uncaptured' = Uncaptured /\ TurnedDown' = TurnedDown
  BY <1>1, <1>2, <1>3 DEF Uncaptured, TurnedDown
<1> QED
  BY <1>2, <1>5, <1>6, <1>7 DEF Agrees

LEMMA TalliedHolds ==
    ASSUME IInv, Booked, Tallied, [Next]_vars
    PROVE  Tallied'
<1>1. CASE StartRun
  BY <1>1 DEF StartRun, Tallied
<1>2. CASE WriteReport
  <2>1. pc = "report" /\ pc' = "over" /\ UNCHANGED <<database, sim>>
    BY <1>2 DEF WriteReport
  <2>2. report' = IF CanCompare(Reported) THEN BuildReport(Reported, PolicyDenials) ELSE NULL
    BY <1>2 DEF WriteReport, Reported
  <2>3. ASSUME report' # NULL, Fresh'
        PROVE  Agrees(report)'
    <3>1. Fresh
      BY <2>1, <2>3, SameRun DEF database
    <3>2. PICK rep : rep = report'
      OBVIOUS
    <3>3. Agrees(rep)
      BY <2>1, <2>2, <2>3, <3>1, <3>2, ReportIs
    <3>4. Agrees(rep)'
      BY <2>1, <3>3, AgreesStill
    <3> QED
      BY <3>2, <3>4 DEF Agrees
  <2> QED
    BY <2>1, <2>3 DEF Tallied
<1>3. CASE ~StartRun /\ ~WriteReport
  <2>1. report' = report
    BY <1>3 DEF Next, Progress, PopCase, PersistHoldout, Abstain, PersistPlan, SkipClaimed,
                ClaimDueBatch, Gate, Stop, Execute, ExecuteFails, Attribute, Complete, Crash, vars
  <2>2. CASE report = NULL
    BY <2>1, <2>2 DEF Tallied
  <2>3. CASE report # NULL
    <3>1. pc = "over"
      BY <2>3 DEF Tallied
    <3>2. UNCHANGED vars
      BY <1>3, <3>1 DEF Next, Progress, PopCase, PersistHoldout, Abstain, PersistPlan, SkipClaimed,
                        ClaimDueBatch, Gate, Stop, Execute, ExecuteFails, Attribute, Complete, Crash
    <3>3. pc' = pc /\ UNCHANGED <<database, sim>>
      BY <3>2 DEF vars, process
    <3>4. Fresh' => Fresh
      BY <3>3, SameRun DEF database
    <3>5. PICK rep : rep = report
      OBVIOUS
    <3>6. Fresh => Agrees(rep)
      BY <2>3, <3>5 DEF Tallied
    <3>7. Fresh' => Agrees(rep)'
      BY <3>3, <3>4, <3>6, AgreesStill
    <3>8. Fresh' => Agrees(report)'
      BY <2>1, <3>5, <3>7 DEF Agrees
    <3> QED
      BY <3>1, <3>3, <3>8 DEF Tallied
  <2> QED
    BY <2>2, <2>3
<1> QED
  BY <1>1, <1>2, <1>3

\* A report that agrees with the sums agrees with the ledgers.
LEMMA TallyIsReport ==
    ASSUME IInv, Tallied
    PROVE  ReportMatchesLedgers
<1>0. CasesFiled /\ Simulated
  BY DEF IInv
<1> SUFFICES ASSUME report # NULL, Fresh
             PROVE  ReportMatchesLedgers
  BY DEF ReportMatchesLedgers
<1>1. Agrees(report)
  BY DEF Tallied
<1>2. ASSUME NEW K \in SUBSET OwnCases
      PROVE  CapturedFor(K) = Sum(Taken, K)
  <2>1. Summable(Taken, K)
    BY <1>0, LedgersAreSummable
  <2>2. ASSUME NEW k \in K
        PROVE  Taken[k] = CapturedOf(cases[k].source_payment + 1)
    <3>1. PICK order : order = cases[k].source_payment + 1
      OBVIOUS
    <3>2. Taken[k] = Sum(Amounts, Captures(order))
      BY <3>1 DEF Taken
    <3>3. CapturedOf(order) = Sum(Amounts, Captures(order))
      BY <1>0, CapturesAreSummable
    <3> QED
      BY <3>1, <3>2, <3>3
  <2> QED
    BY <2>1, <2>2, CapturesAreSum
<1>3. ChargedTo(OwnCases) = Sum(Spent, OwnCases)
  <2>1. OwnCases \in SUBSET OwnCases
    OBVIOUS
  <2>2. Summable(Spent, OwnCases)
    BY <1>0, <2>1, LedgersAreSummable
  <2>3. \A k \in OwnCases : Spent[k] = cases[k].cost_spent
    BY DEF Spent
  <2> QED
    BY <2>2, <2>3, ChargesAreSum
<1>4. AllDenials(report.policy_denials) = Sum(report.policy_denials, DOMAIN report.policy_denials)
  <2>1. Summable(report.policy_denials, DOMAIN report.policy_denials)
    BY <1>1 DEF Agrees
  <2> QED
    BY <2>1, DenialsAreSum
<1> DEFINE Arm(arm) == {k \in OwnCases : Source(k).arm = arm}
           decided == {r \in OwnRows : rows[r].verdict # NULL}
<1>5. \A arm : Arm(arm) = InArm(arm) /\ InArm(arm) \in SUBSET OwnCases
  BY DEF InArm
<1>6. {r \in decided : rows[r].status \notin {"done", "failed"}} = TurnedDown
  BY DEF TurnedDown
<1>7. \A arm \in Arms :
        /\ report.per_arm[arm].case_count = Cardinality(Arm(arm))
        /\ report.per_arm[arm].recovered_total = CapturedFor(Arm(arm))
        /\ report.per_arm[arm].recovered_total <= report.per_arm[arm].at_risk_total
  <2> HIDE DEF Arm
  <2> QED
    BY <1>1, <1>2, <1>5 DEF Agrees
<1>8. report.economics.total_cost = ChargedTo(OwnCases)
  BY <1>1, <1>3 DEF Agrees
<1>9. DOMAIN report.exceptions = {k \in OwnCases : Captures(cases[k].source_payment + 1) = {}}
  BY <1>1 DEF Agrees, Uncaptured
<1>10. report.baseline_beats_control <=> CapturedFor(Arm("baseline")) > 0
  <2> HIDE DEF Arm
  <2> QED
    BY <1>1, <1>2, <1>5 DEF Agrees
<1>11. AllDenials(report.policy_denials)
         = Cardinality({r \in decided : rows[r].status \notin {"done", "failed"}})
  BY <1>1, <1>4, <1>6 DEF Agrees
<1>12. \A x \in DOMAIN report.playbook_breakdown :
         report.playbook_breakdown[x].total_recovered
           = CapturedFor(report.playbook_breakdown[x].cases)
  BY <1>1, <1>2 DEF Agrees
<1> QED
  BY <1>7, <1>8, <1>9, <1>10, <1>11, <1>12 DEF ReportMatchesLedgers

\* METRICS-AND-KPIS section 8, runner.py:385-400, statistics.py: whatever ran before and
\* wherever it died, the report of a run of a new seed agrees with the gateway and with
\* what its cases were charged, in every figure that ReportMatchesLedgers names.
THEOREM ReportsAgree == Spec => []ReportMatchesLedgers
<1>1. Init => Tallied
  BY DEF Init, Tallied
<1>2. IInv /\ Booked /\ Tallied /\ [Next]_vars => Tallied'
  BY TalliedHolds
<1>3. IInv /\ Tallied => ReportMatchesLedgers
  BY TallyIsReport
<1> QED
  BY <1>1, <1>2, <1>3, BooksKept, Invariance, PTL DEF Spec

=============================================================================
