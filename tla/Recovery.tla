------------------------------ MODULE Recovery ------------------------------
(***************************************************************************)
(* The life of a case between its detection and its end: the plan, the     *)
(* gate every claimed row goes through (bench/runner.py _gate_and_execute, *)
(* the one caller of the gate), the stopping rules that close the case     *)
(* (execution/stopping.py), suppression by a caller that knows the reason  *)
(* (execution/suppression.py), the execution of the row, and the           *)
(* attribution of the payment it brought in.                               *)
(*                                                                         *)
(* A transaction that reads, waits for a lock or writes a second table     *)
(* after others had a chance to run is several steps here.  Closing a case *)
(* locks its scheduled_actions first and the cases row second; recording   *)
(* an execution takes them the other way round, and PostgreSQL aborts one  *)
(* of two that wait for each other.                                        *)
(*                                                                         *)
(* Against Outbox.tla, a claim is one row and may expire at any moment;    *)
(* against Executor.tla, the Redis key is left out: the gate lets an       *)
(* action through once (uq_policy_decisions_action_attempt).               *)
(***************************************************************************)
EXTENDS CaseStates, FiniteSets, FiniteSetsExt

CONSTANTS
    Workers,      \* scheduler processes
    Callers,      \* processes that call suppress_case
    Actions,      \* planned actions, one scheduled_actions row each
    Cases,
    CaseOf,       \* the case an action belongs to
    Arm,          \* cases.arm
    Large,        \* cases whose at_risk needs approval
    Causes,       \* what may happen to a case: see StoppingRules
    NULL

Actors == Workers \cup Callers

ASSUME RecoveryConstants ==
    /\ CaseOf \in [Actions -> Cases]
    /\ Arm \in [Cases -> Arms]
    /\ Large \subseteq Cases
    /\ Workers \cap Callers = {}
    /\ NULL \notin Actors \cup Actions

VARIABLES
    case,         \* cases.state
    outcome,      \* the outcomes row: its kind and reason code
    row,          \* scheduled_actions.status
    decision,     \* policy_decisions.verdict
    payment,      \* what became of the payment an action captured
    cause,        \* what is now true of the case or its customer
    at,           \* where each actor is in its code
    hand,         \* the row a worker deals with, the case a caller closes
    answer,       \* what the gate's rules answered on the state they read
    held,         \* rows an open transaction has updated: locked until it ends
    caseLock,     \* the open transaction that holds the cases row
    sent          \* history: channel calls

database == <<case, outcome, row, decision, payment>>
actors == <<at, hand, answer, held, caseLock>>
vars == <<database, cause, actors, sent>>

RowStatuses == {"unplanned", "pending", "claimed", "done", "failed", "cancelled"}
Verdicts == {"allow", "deny", "defer"}

\* R2 in the order stopping.evaluate asks, and what each rule closes the case
\* into ("none": it does not).
StoppingRules ==
    <<"customer_opt_out", "dispute_filed", "already_paid", "max_attempts_reached",
      "max_case_age", "mandate_revoked", "promise_to_pay_active",
      "customer_deceased_or_closed">>

StoppingOutcomes ==
    [customer_opt_out |-> "suppressed", dispute_filed |-> "suppressed",
     already_paid |-> "none", max_attempts_reached |-> "lost",
     max_case_age |-> "expired", mandate_revoked |-> "escalated",
     promise_to_pay_active |-> "none", customer_deceased_or_closed |-> "suppressed"]

Stopping == DOMAIN StoppingOutcomes

\* "denied" and "deferred" stand for the rules of the gate after R3 that look
\* at consent, time, frequency, cost, budget and rate.
Answers == Stopping \cup
    {"allow", "kill_switch_active", "domain_guard", "awaiting_approval",
     "denied", "deferred"}

VerdictOf(r) ==
    IF r = "allow" THEN "allow"
    ELSE IF r \in {"promise_to_pay_active", "awaiting_approval", "deferred"} THEN "defer"
    ELSE "deny"

Stages == {"idle", "claimed", "read", "cleared", "returned", "raised", "recording",
           "recording_failure", "attributing", "matched", "stopping", "closing"}

NoOutcome == [kind |-> "none", reason |-> "none"]

TypeOK ==
    /\ case \in [Cases -> States]
    /\ outcome \in [Cases -> [kind : Terminal \cup {"none"},
                              reason : Stopping \cup {"none", "caller", "payment"}]]
    /\ row \in [Actions -> RowStatuses]
    /\ decision \in [Actions -> Verdicts \cup {"none"}]
    /\ payment \in [Actions -> {"none", "captured", "attributed", "unattributed"}]
    /\ cause \in [Cases -> SUBSET Causes]
    /\ at \in [Actors -> Stages]
    /\ hand \in [Actors -> Actions \cup Cases \cup {NULL}]
    /\ answer \in [Actors -> Answers \cup {"none", "caller"}]
    /\ held \in [Actors -> SUBSET Actions]
    /\ caseLock \in [Cases -> Workers \cup {NULL}]
    /\ sent \in [Actions -> Nat]

Init ==
    /\ case = [c \in Cases |-> "detected"]
    /\ outcome = [c \in Cases |-> NoOutcome]
    /\ row = [a \in Actions |-> "unplanned"]
    /\ decision = [a \in Actions |-> "none"]
    /\ payment = [a \in Actions |-> "none"]
    /\ cause = [c \in Cases |-> {}]
    /\ at = [k \in Actors |-> "idle"]
    /\ hand = [k \in Actors |-> NULL]
    /\ answer = [k \in Actors |-> "none"]
    /\ held = [k \in Actors |-> {}]
    /\ caseLock = [c \in Cases |-> NULL]
    /\ sent = [a \in Actions |-> 0]

-----------------------------------------------------------------------------

RowsOf(c) == {a \in Actions : CaseOf[a] = c}
LiveRows(c) == {a \in RowsOf(c) : row[a] \in {"pending", "claimed"}}

CaseAt(k) == IF k \in Callers THEN hand[k] ELSE CaseOf[hand[k]]

\* Nobody's open transaction holds the cases row, or one of the rows S.
Free(c) == caseLock[c] = NULL
Untouched(k, S) == \A l \in Actors \ {k} : held[l] \cap S = {}

Goto(k, s) == at' = [at EXCEPT ![k] = s]

\* Return, or an exception that nobody catches: the open transaction, if any,
\* is over, and the row the worker had stays as the database has it.
Leave(k) ==
    /\ Goto(k, "idle")
    /\ hand' = [hand EXCEPT ![k] = NULL]
    /\ answer' = [answer EXCEPT ![k] = "none"]
    /\ held' = [held EXCEPT ![k] = {}]
    /\ caseLock' = [c \in Cases |-> IF caseLock[c] = k THEN NULL ELSE caseLock[c]]

-----------------------------------------------------------------------------
(* Planning, and what happens to cases and customers meanwhile.            *)

\* persist_plan: three transitions of the case in memory, then one commit.
\* resolved_iff_terminal refuses the commit when the case was closed since.
Plan(c) ==
    LET end == IF c \in Large THEN "awaiting_approval" ELSE "executing" IN
    /\ case[c] = "detected" /\ Free(c)
    /\ CanFollow(Arm[c], <<"detected", "diagnosing", "planned", end>>)
    /\ case' = [case EXCEPT ![c] = end]
    /\ row' = [a \in Actions |-> IF a \in RowsOf(c) THEN "pending" ELSE row[a]]
    /\ UNCHANGED <<outcome, decision, payment, cause, actors, sent>>

Happen(c, r) ==
    /\ cause' = [cause EXCEPT ![c] = @ \cup {r}]
    /\ UNCHANGED <<database, actors, sent>>

-----------------------------------------------------------------------------
(* The outbox, one row per claim.  Both wait for no row lock; the claim    *)
(* writes an audit event and waits for the cases row.                      *)

Claim(w, a) ==
    /\ at[w] = "idle"
    /\ row[a] = "pending" /\ Untouched(w, {a}) /\ Free(CaseOf[a])
    /\ row' = [row EXCEPT ![a] = "claimed"]
    /\ hand' = [hand EXCEPT ![w] = a]
    /\ Goto(w, "claimed")
    /\ UNCHANGED <<case, outcome, decision, payment, cause, answer, held,
                   caseLock, sent>>

Reclaim(a) ==
    /\ row[a] = "claimed" /\ \A k \in Actors : a \notin held[k]
    /\ row' = [row EXCEPT ![a] = "pending"]
    /\ UNCHANGED <<case, outcome, decision, payment, cause, actors, sent>>

-----------------------------------------------------------------------------
(* The gate: state and context are read, and the decision is committed.    *)

Holds(r, c) == IF r = "already_paid" THEN case[c] \in Recovered ELSE r \in cause[c]

FirstStopping(c) ==
    LET hit == {i \in DOMAIN StoppingRules : Holds(StoppingRules[i], c)}
    IN  IF hit = {} THEN {} ELSE {StoppingRules[Min(hit)]}

\* The kill switch, asked first, may be tripped or cleared at any time.
Evaluate(c) ==
    {"kill_switch_active"} \cup
    IF FirstStopping(c) # {} THEN FirstStopping(c)
    ELSE IF case[c] \in Terminal \/ Arm[c] = "control" THEN {"domain_guard"}
    ELSE {"denied", "deferred",
          IF case[c] = "awaiting_approval" THEN "awaiting_approval" ELSE "allow"}

Read(w) ==
    /\ at[w] = "claimed"
    /\ \E r \in Evaluate(CaseAt(w)) : answer' = [answer EXCEPT ![w] = r]
    /\ Goto(w, "read")
    /\ UNCHANGED <<database, cause, hand, held, caseLock, sent>>

\* Mutation of Decide: a second decision on the attempt replaces the first.
DecideAgain(w) ==
    LET a == hand[w] IN
    /\ at[w] = "read" /\ Free(CaseOf[a])
    /\ decision' = [decision EXCEPT ![a] = VerdictOf(answer[w])]
    /\ \/ /\ answer[w] \in Stopping \cup {"allow"}
          /\ Goto(w, IF answer[w] = "allow" THEN "cleared" ELSE "stopping")
          /\ UNCHANGED <<hand, answer, held, caseLock>>
       \/ answer[w] \notin Stopping \cup {"allow"} /\ Leave(w)
    /\ UNCHANGED <<case, outcome, row, payment, cause, sent>>

Decide(w) ==
    LET a == hand[w] IN
    /\ at[w] = "read" /\ decision[a] = "none" /\ Free(CaseOf[a])
    /\ decision' = [decision EXCEPT ![a] = VerdictOf(answer[w])]
    /\ \/ /\ answer[w] \in Stopping \cup {"allow"}
          /\ Goto(w, IF answer[w] = "allow" THEN "cleared" ELSE "stopping")
          /\ UNCHANGED <<hand, answer, held, caseLock>>
       \/ answer[w] \notin Stopping \cup {"allow"} /\ Leave(w)
    /\ UNCHANGED <<case, outcome, row, payment, cause, sent>>

\* UNIQUE (action_id, attempt): the action has a decision already.
DecideTwice(w) ==
    /\ at[w] = "read" /\ decision[hand[w]] # "none"
    /\ Leave(w)
    /\ UNCHANGED <<database, cause, sent>>

-----------------------------------------------------------------------------
(* Closing a case: the rows first, the case second, one commit.            *)

\* Mutation of Sweep: rows that somebody has claimed are left to him.
SweepPending(k, c, r) ==
    /\ Untouched(k, LiveRows(c))
    /\ held' = [held EXCEPT ![k] = {a \in RowsOf(c) : row[a] = "pending"}]
    /\ Goto(k, "closing")

\* UPDATE scheduled_actions: waits for rows another transaction has updated.
\* A promise to pay moves only the rows due before its date.
Sweep(k, c, r) ==
    /\ Untouched(k, LiveRows(c))
    /\ \E S \in SUBSET LiveRows(c) :
        /\ r # "promise_to_pay_active" => S = LiveRows(c)
        /\ held' = [held EXCEPT ![k] = S]
    /\ Goto(k, "closing")

ApplyStoppingRule(w) ==
    /\ at[w] = "stopping"
    /\ Sweep(w, CaseAt(w), answer[w])
    /\ UNCHANGED <<database, cause, hand, answer, caseLock, sent>>

SuppressCase(k, c) ==
    /\ at[k] = "idle"
    /\ hand' = [hand EXCEPT ![k] = c]
    /\ answer' = [answer EXCEPT ![k] = "caller"]
    /\ Sweep(k, c, "caller")
    /\ UNCHANGED <<database, cause, caseLock, sent>>

Target(r) == IF r = "caller" THEN "suppressed" ELSE StoppingOutcomes[r]

SetHeld(k, s) == row' = [a \in Actions |-> IF a \in held[k] THEN s ELSE row[a]]

\* promise_to_pay_active and already_paid leave the case as it is.
CommitSweep(k) ==
    /\ at[k] = "closing" /\ Target(answer[k]) = "none" /\ Free(CaseAt(k))
    /\ SetHeld(k, IF answer[k] = "promise_to_pay_active" THEN "pending" ELSE "cancelled")
    /\ Leave(k)
    /\ UNCHANGED <<case, outcome, decision, payment, cause, sent>>

\* Mutation of CloseCase: the outcome is written for ESCALATED as well.
CloseCaseWithOutcome(k) ==
    LET c == CaseAt(k)
        t == Target(answer[k])
    IN  /\ at[k] = "closing" /\ t # "none" /\ Free(c)
        /\ CanMove(Arm[c], case[c], t)
        /\ case' = [case EXCEPT ![c] = t]
        /\ outcome' = [outcome EXCEPT ![c] = [kind |-> t, reason |-> answer[k]]]
        /\ SetHeld(k, "cancelled")
        /\ Leave(k)
        /\ UNCHANGED <<decision, payment, cause, sent>>

\* SELECT ... FOR UPDATE on the case, the transition, its outcome, the commit.
CloseCase(k) ==
    LET c == CaseAt(k)
        t == Target(answer[k])
    IN  /\ at[k] = "closing" /\ t # "none" /\ Free(c)
        /\ CanMove(Arm[c], case[c], t)
        /\ case' = [case EXCEPT ![c] = t]
        /\ outcome' = [outcome EXCEPT ![c] =
               IF t \in Terminal THEN [kind |-> t, reason |-> answer[k]] ELSE @]
        /\ SetHeld(k, "cancelled")
        /\ Leave(k)
        /\ UNCHANGED <<decision, payment, cause, sent>>

\* IllegalTransition: the cancelled rows are rolled back with it.
RefuseClose(k) ==
    /\ at[k] = "closing" /\ Target(answer[k]) # "none" /\ Free(CaseAt(k))
    /\ ~CanMove(Arm[CaseAt(k)], case[CaseAt(k)], Target(answer[k]))
    /\ Leave(k)
    /\ UNCHANGED <<database, cause, sent>>

-----------------------------------------------------------------------------
(* Executing the row and recording it: the case first, the row second.     *)

CallChannel(w) ==
    LET a == hand[w] IN
    /\ at[w] = "cleared"
    /\ \/ /\ Goto(w, "returned")
          /\ sent' = [sent EXCEPT ![a] = @ + 1]
          /\ \E p \in {"none", "captured"} : payment' = [payment EXCEPT ![a] = p]
       \/ /\ Goto(w, "raised")
          /\ \E n \in {0, 1} : sent' = [sent EXCEPT ![a] = @ + n]
          /\ UNCHANGED payment
    /\ UNCHANGED <<case, outcome, row, decision, cause, hand, answer, held,
                   caseLock>>

\* record_event takes the cases row; the cost is added under the same lock.
StartRecording(w) ==
    /\ at[w] \in {"returned", "raised"} /\ Free(CaseAt(w))
    /\ caseLock' = [caseLock EXCEPT ![CaseAt(w)] = w]
    /\ Goto(w, IF at[w] = "returned" THEN "recording" ELSE "recording_failure")
    /\ UNCHANGED <<database, cause, hand, answer, held, sent>>

\* mark_done or mark_failed, and the commit.
FinishRecording(w) ==
    LET a == hand[w]
        s == IF at[w] = "recording" THEN "done" ELSE "failed"
    IN  /\ at[w] \in {"recording", "recording_failure"}
        /\ Untouched(w, {a})
        /\ row' = [row EXCEPT ![a] = IF @ = "claimed" THEN s ELSE @]
        /\ \/ /\ s = "done" /\ payment[a] = "captured"
              /\ caseLock' = [caseLock EXCEPT ![CaseOf[a]] = NULL]
              /\ Goto(w, "attributing")
              /\ UNCHANGED <<hand, answer, held>>
           \/ ~(s = "done" /\ payment[a] = "captured") /\ Leave(w)
        /\ UNCHANGED <<case, outcome, decision, payment, cause, sent>>

\* A worker that records an execution and an actor that closes the case wait
\* for each other: PostgreSQL aborts one of them.
Deadlocked(k, w) ==
    /\ at[k] = "closing" /\ caseLock[CaseAt(k)] = w
    /\ hand[w] \in held[k]

BreakDeadlock(k, w) ==
    /\ Deadlocked(k, w)
    /\ Leave(k) \/ Leave(w)
    /\ UNCHANGED <<database, cause, sent>>

-----------------------------------------------------------------------------
(* Attributing the payment of a retry.                                     *)

Eligible == {"holdout", "executing", "awaiting_outcome"}

\* No candidate when no row of the case is done; a payment out of the window
\* or too large matches none.  A payment without a winner is stored as such.
LoadCandidates(w) ==
    LET c == CaseAt(w) IN
    /\ at[w] = "attributing"
    /\ \/ /\ case[c] \in Eligible /\ \E a \in RowsOf(c) : row[a] = "done"
          /\ Goto(w, "matched")
          /\ UNCHANGED <<payment, hand, answer, held, caseLock>>
       \/ /\ payment' = [payment EXCEPT ![hand[w]] = "unattributed"]
          /\ Leave(w)
    /\ UNCHANGED <<case, outcome, row, decision, cause, sent>>

\* Mutation of ResolveCase: the case is not read again under the lock.
ResolveCaseUnread(w) ==
    LET c == CaseAt(w) IN
    /\ at[w] = "matched" /\ Free(c)
    /\ \E kind \in Recovered :
        /\ case' = [case EXCEPT ![c] = kind]
        /\ outcome' = [outcome EXCEPT ![c] = [kind |-> kind, reason |-> "payment"]]
    /\ payment' = [payment EXCEPT ![hand[w]] = "attributed"]
    /\ Leave(w)
    /\ UNCHANGED <<row, decision, cause, sent>>

Resolvable(c) ==
    case[c] = "awaiting_outcome" \/ CanMove(Arm[c], case[c], "awaiting_outcome")

\* _resolve_case: FOR UPDATE, up to two transitions, outcome and payment.
ResolveCase(w) ==
    LET c == CaseAt(w) IN
    /\ at[w] = "matched" /\ Free(c) /\ Resolvable(c)
    /\ \E kind \in Recovered :
        /\ case' = [case EXCEPT ![c] = kind]
        /\ outcome' = [outcome EXCEPT ![c] = [kind |-> kind, reason |-> "payment"]]
    /\ payment' = [payment EXCEPT ![hand[w]] = "attributed"]
    /\ Leave(w)
    /\ UNCHANGED <<row, decision, cause, sent>>

RefuseResolve(w) ==
    /\ at[w] = "matched" /\ Free(CaseAt(w)) /\ ~Resolvable(CaseAt(w))
    /\ Leave(w)
    /\ UNCHANGED <<database, cause, sent>>

-----------------------------------------------------------------------------

Crash(k) ==
    /\ at[k] # "idle"
    /\ Leave(k)
    /\ UNCHANGED <<database, cause, sent>>

Work(w) ==
    \/ Read(w) \/ Decide(w) \/ DecideTwice(w)
    \/ ApplyStoppingRule(w)
    \/ CallChannel(w) \/ StartRecording(w) \/ FinishRecording(w)
    \/ LoadCandidates(w) \/ ResolveCase(w) \/ RefuseResolve(w)

EndSweep(k) == CommitSweep(k) \/ CloseCase(k) \/ RefuseClose(k)

Next ==
    \/ \E c \in Cases : Plan(c) \/ \E r \in Causes : Happen(c, r)
    \/ \E a \in Actions : Reclaim(a) \/ \E w \in Workers : Claim(w, a)
    \/ \E w \in Workers : Work(w)
    \/ \E k \in Callers, c \in Cases : SuppressCase(k, c)
    \/ \E k \in Actors : EndSweep(k) \/ Crash(k) \/ \E w \in Workers : BreakDeadlock(k, w)

Spec == Init /\ [][Next]_vars

-----------------------------------------------------------------------------
(* Properties.                                                             *)

\* I1: a case ends once.  Suppression, two stopping rules, a late attribution
\* and the plan itself may race for it; the loser changes nothing.
EndsOnce ==
    [][\A c \in Cases : case[c] \in Terminal =>
           case'[c] = case[c] /\ outcome'[c] = outcome[c]]_vars

\* The outcomes row exists exactly for a case that ended, and says how; an
\* escalated case is not over and has none (execution/stopping.py:193-196).
OutcomeTellsTheEnd ==
    \A c \in Cases :
        outcome[c].kind = (IF case[c] \in Terminal THEN case[c] ELSE "none")

\* The gate alone, without the Redis key, lets an action reach its channel
\* once: no reclaim, crash or second worker gets a second decision.
GateLetsThroughOnce ==
    \A a \in Actions : sent[a] <= 1 /\ (sent[a] = 1 => decision[a] = "allow")

\* What a stopping rule closed or escalated has no live row left, claimed rows
\* of other workers included, and never gets one again.
StoppedCaseIsSwept ==
    \A c \in Cases :
        case[c] = "escalated" \/ outcome[c].reason \in Stopping => LiveRows(c) = {}
=============================================================================
