----------------------------- MODULE Attribution -----------------------------
(***************************************************************************)
(* Attribution of the payments of one customer to his open cases           *)
(* (attribution/engine.py, attribution/matcher.py).  Several runs of       *)
(* attribute_payment proceed at once, on different payments or, when a     *)
(* payment is delivered again, on the same one, while actions are executed *)
(* and cases are closed.                                                   *)
(*                                                                         *)
(* A run reads the payments row, the open cases and their executions in    *)
(* three statements of their own snapshot, and then writes in one          *)
(* transaction: the payments row first, the winning case second, and one   *)
(* event on each losing case after it.  The locks it takes are its own     *)
(* until that transaction ends; what it writes is seen by others then.     *)
(* The foreign key of the payments row makes PostgreSQL share the winner's *)
(* cases row (FOR KEY SHARE) before _resolve_case asks for it alone.       *)
(***************************************************************************)
EXTENDS CaseStates, FiniteSets, FiniteSetsExt, SequencesExt

CONSTANTS
    Runs,         \* calls of attribute_payment that may be open at once
    Payments,     \* payments of the customer
    Cases,        \* his cases
    Id,           \* cases.id, time-ordered
    Opened,       \* cases.opened_at
    Arm,          \* cases.arm
    AtRisk,       \* cases.at_risk_paise
    Amount,       \* payments.amount_paise
    Window,       \* ATTRIBUTION_WINDOW
    NULL,
    MaxTime       \* bound: the clock stops here

ASSUME AttributionConstants ==
    /\ Id \in [Cases -> Nat] /\ \A c, d \in Cases : Id[c] = Id[d] => c = d
    /\ Opened \in [Cases -> Nat]
    /\ Arm \in [Cases -> Arms]
    /\ AtRisk \in [Cases -> Nat \ {0}]
    /\ Amount \in [Payments -> Nat]
    /\ Window \in Nat
    /\ MaxTime \in Nat
    /\ NULL \notin Nat \cup Runs \cup Payments \cup Cases
    /\ IsFiniteSet(Cases) /\ Cases \cap {"absent", "unattributed"} = {}

VARIABLES
    now,
    case,         \* cases.state
    outcome,      \* the outcomes row of a case: kind and payment
    executed,     \* scheduled_actions.executed_at of the rows that are done
    captured,     \* when the gateway captured a payment
    credited,     \* the payments row: absent, without a case, or its case
    ambiguous,    \* attribution_ambiguous events: payment and losing case
    at,           \* where each run is in attribute_payment
    pay,          \* the payment it is called with
    found,        \* the open cases it found, with the state it saw
    todo,         \* the matches it has not dealt with yet, the winner first
    won,          \* the winner, once it is locked and resolved in memory
    payLock,      \* the run whose open transaction wrote the payments row
    sharing,      \* the runs whose open transaction references the cases row
    caseLock,     \* the run whose open transaction holds it FOR UPDATE
    overlapped    \* history: payments two runs had in hand at once

database == <<case, outcome, executed, captured, credited, ambiguous>>
runVars == <<at, pay, found, todo, won, payLock, sharing, caseLock>>
vars == <<now, database, runVars, overlapped>>

Stages == {"idle", "read", "found", "matched", "upserting", "upserted", "resolved"}
Closed == {"expired", "escalated"}
NoOutcome == [kind |-> "none", payment |-> NULL]

TypeOK ==
    /\ now \in 0..MaxTime
    /\ case \in [Cases -> States]
    /\ outcome \in [Cases -> [kind : Recovered \cup {"none", "expired"},
                              payment : Payments \cup {NULL}]]
    /\ executed \in [Cases -> SUBSET (0..MaxTime)]
    /\ captured \in [Payments -> 0..MaxTime \cup {NULL}]
    /\ credited \in [Payments -> Cases \cup {"absent", "unattributed"}]
    /\ ambiguous \in SUBSET (Payments \X Cases)
    /\ at \in [Runs -> Stages]
    /\ pay \in [Runs -> Payments \cup {NULL}]
    /\ found \in [Runs -> SUBSET (Cases \X States)]
    /\ todo \in [Runs -> Seq(Cases)]
    /\ won \in [Runs -> Cases \cup {NULL}]
    /\ payLock \in [Payments -> Runs \cup {NULL}]
    /\ sharing \in [Cases -> SUBSET Runs]
    /\ caseLock \in [Cases -> Runs \cup {NULL}]
    /\ overlapped \in SUBSET Payments

Init ==
    /\ now = 0
    /\ case = [c \in Cases |-> "detected"]
    /\ outcome = [c \in Cases |-> NoOutcome]
    /\ executed = [c \in Cases |-> {}]
    /\ captured = [p \in Payments |-> NULL]
    /\ credited = [p \in Payments |-> "absent"]
    /\ ambiguous = {}
    /\ at = [r \in Runs |-> "idle"]
    /\ pay = [r \in Runs |-> NULL]
    /\ found = [r \in Runs |-> {}]
    /\ todo = [r \in Runs |-> <<>>]
    /\ won = [r \in Runs |-> NULL]
    /\ payLock = [p \in Payments |-> NULL]
    /\ sharing = [c \in Cases |-> {}]
    /\ caseLock = [c \in Cases |-> NULL]
    /\ overlapped = {}

-----------------------------------------------------------------------------
(* The matcher, a pure function of the payment and the candidates.         *)

\* max(Rs 1, 0.5% of at_risk), in whole paise.
Tolerance(c) == Max({100, (AtRisk[c] * 5) \div 1000})

Overpays(p, c) == Amount[p] - AtRisk[c] > Tolerance(c)

\* What the payment is to a case that it does not overpay.
Kind(p, c) ==
    IF Amount[p] - AtRisk[c] < -Tolerance(c) THEN "partially_recovered" ELSE "recovered"

\* Mutation of InWindow: the window has no end.
InOpenWindow(t, anchor) == anchor <= t

InWindow(t, anchor) == anchor <= t /\ t <= anchor + Window

\* The anchors of a candidate that was seen in the given state: the opening of
\* a held-out case, the latest execution of any other, none if there is none.
Anchors(c, state) ==
    IF state = "holdout" THEN {Opened[c]}
    ELSE IF executed[c] = {} THEN {} ELSE {Max(executed[c])}

Matches(p, seen) ==
    {s[1] : s \in {u \in seen :
        /\ Amount[p] > 0 /\ ~Overpays(p, u[1])
        /\ \E anchor \in Anchors(u[1], u[2]) : InWindow(captured[p], anchor)}}

Older(c, d) == Opened[c] < Opened[d] \/ (Opened[c] = Opened[d] /\ Id[c] < Id[d])

\* Mutation of Ordered: the matches stay as the database returned them.
AnyOrder(S) == SetToSeqs(S)

\* matches.sort: the oldest first.
Ordered(S) ==
    {s \in [1..Cardinality(S) -> S] : \A i, j \in DOMAIN s : i < j => Older(s[i], s[j])}

-----------------------------------------------------------------------------
(* Planning, execution, closing of cases, and payments.                    *)

Advance ==
    /\ now < MaxTime
    /\ now' = now + 1
    /\ UNCHANGED <<database, runVars, overlapped>>

\* persist_plan, or persist_holdout for a case of the control arm.
Start(c) ==
    /\ case[c] = "detected" /\ Opened[c] <= now
    /\ case' = [case EXCEPT ![c] = IF Arm[c] = "control" THEN "holdout" ELSE "executing"]
    /\ UNCHANGED <<now, outcome, executed, captured, credited, ambiguous, runVars,
                   overlapped>>

\* mark_done.  Attribution leaves the rows of the case it resolves live; a
\* held-out case has none.
MarkDone(c) ==
    /\ case[c] = "executing" \/ (case[c] \in Recovered /\ executed[c] # {})
    /\ executed' = [executed EXCEPT ![c] = @ \cup {now}]
    /\ UNCHANGED <<now, case, outcome, captured, credited, ambiguous, runVars,
                   overlapped>>

\* Mutation of CloseCase: the outcome is written for an escalated case as well.
CloseCaseWithOutcome(c) ==
    /\ case[c] = "executing" /\ caseLock[c] = NULL /\ sharing[c] = {}
    /\ \E s \in Closed :
        /\ case' = [case EXCEPT ![c] = s]
        /\ outcome' = [outcome EXCEPT ![c].kind = s]
    /\ UNCHANGED <<now, executed, captured, credited, ambiguous, runVars, overlapped>>

\* A stopping rule: one that ends the case, one that hands it to a human.
CloseCase(c) ==
    /\ case[c] = "executing" /\ caseLock[c] = NULL /\ sharing[c] = {}
    /\ \E s \in Closed :
        /\ case' = [case EXCEPT ![c] = s]
        /\ outcome' = [outcome EXCEPT ![c].kind = IF s \in Terminal THEN s ELSE @]
    /\ UNCHANGED <<now, executed, captured, credited, ambiguous, runVars, overlapped>>

Capture(p) ==
    /\ captured[p] = NULL
    /\ captured' = [captured EXCEPT ![p] = now]
    /\ UNCHANGED <<now, case, outcome, executed, credited, ambiguous, runVars,
                   overlapped>>

-----------------------------------------------------------------------------
(* attribute_payment.                                                      *)

Goto(r, s) == at' = [at EXCEPT ![r] = s]

\* The run returns, fails or dies: its transaction is over.
Leave(r) ==
    /\ Goto(r, "idle")
    /\ pay' = [pay EXCEPT ![r] = NULL]
    /\ found' = [found EXCEPT ![r] = {}]
    /\ todo' = [todo EXCEPT ![r] = <<>>]
    /\ won' = [won EXCEPT ![r] = NULL]
    /\ payLock' = [p \in Payments |-> IF payLock[p] = r THEN NULL ELSE payLock[p]]
    /\ sharing' = [c \in Cases |-> sharing[c] \ {r}]
    /\ caseLock' = [c \in Cases |-> IF caseLock[c] = r THEN NULL ELSE caseLock[c]]

\* Mutation of ReadPayment: a payment with a case is not left alone.
ReadPaymentUnasked(r, p) ==
    /\ at[r] = "idle" /\ captured[p] # NULL
    /\ pay' = [pay EXCEPT ![r] = p]
    /\ Goto(r, "read")
    /\ overlapped' = IF \E s \in Runs : pay[s] = p THEN overlapped \cup {p} ELSE overlapped
    /\ UNCHANGED <<now, database, found, todo, won, payLock, sharing, caseLock>>

\* A payment that has its case already goes no further; one that is not
\* captured never enters.
ReadPayment(r, p) ==
    /\ at[r] = "idle" /\ captured[p] # NULL /\ credited[p] \notin Cases
    /\ pay' = [pay EXCEPT ![r] = p]
    /\ Goto(r, "read")
    /\ overlapped' = IF \E s \in Runs : pay[s] = p THEN overlapped \cup {p} ELSE overlapped
    /\ UNCHANGED <<now, database, found, todo, won, payLock, sharing, caseLock>>

Eligible == {"holdout", "executing", "awaiting_outcome"}

LoadCases(r) ==
    /\ at[r] = "read"
    /\ found' = [found EXCEPT ![r] = {<<c, case[c]>> : c \in {d \in Cases : case[d] \in Eligible}}]
    /\ Goto(r, "found")
    /\ UNCHANGED <<now, database, pay, todo, won, payLock, sharing, caseLock, overlapped>>

\* The executions are read by a later statement than the cases.
Match(r) ==
    /\ at[r] = "found"
    /\ \E s \in Ordered(Matches(pay[r], found[r])) : todo' = [todo EXCEPT ![r] = s]
    /\ found' = [found EXCEPT ![r] = {}]
    /\ Goto(r, "matched")
    /\ UNCHANGED <<now, database, pay, won, payLock, sharing, caseLock, overlapped>>

\* Mutation of RecordUnmatched: ON CONFLICT DO UPDATE for both.
OverwriteUnmatched(r) ==
    /\ at[r] = "matched" /\ todo[r] = <<>> /\ payLock[pay[r]] = NULL
    /\ credited' = [credited EXCEPT ![pay[r]] = "unattributed"]
    /\ Leave(r)
    /\ UNCHANGED <<now, case, outcome, executed, captured, ambiguous, overlapped>>

\* INSERT ... ON CONFLICT DO NOTHING waits for a row that is being inserted,
\* not for one that is being updated.
RecordUnmatched(r) ==
    /\ at[r] = "matched" /\ todo[r] = <<>>
    /\ credited[pay[r]] # "absent" \/ payLock[pay[r]] = NULL
    /\ credited' = [credited EXCEPT ![pay[r]] = IF @ = "absent" THEN "unattributed" ELSE @]
    /\ Leave(r)
    /\ UNCHANGED <<now, case, outcome, executed, captured, ambiguous, overlapped>>

\* INSERT ... ON CONFLICT DO UPDATE SET case_id: locks the row either way.
Upsert(r) ==
    /\ at[r] = "matched" /\ todo[r] # <<>> /\ payLock[pay[r]] = NULL
    /\ payLock' = [payLock EXCEPT ![pay[r]] = r]
    /\ Goto(r, "upserting")
    /\ UNCHANGED <<now, database, pay, found, todo, won, sharing, caseLock, overlapped>>

\* The check of payments.case_id at the end of that statement: it shares the
\* winner's row with other checks, not with a run that holds it FOR UPDATE.
ShareWinner(r) ==
    LET c == Head(todo[r]) IN
    /\ at[r] = "upserting" /\ caseLock[c] = NULL
    /\ sharing' = [sharing EXCEPT ![c] = @ \cup {r}]
    /\ Goto(r, "upserted")
    /\ UNCHANGED <<now, database, pay, found, todo, won, payLock, caseLock, overlapped>>

\* No other open transaction holds the cases row or shares it.
Lockable(r, c) == caseLock[c] \in {NULL, r} /\ sharing[c] \subseteq {r}

\* Both transitions of _resolve_case; only the control arm is held out, and
\* the guard on it concerns EXECUTING alone.
Resolvable(c) ==
    case[c] = "awaiting_outcome" \/ CanMove("treatment", case[c], "awaiting_outcome")

\* SELECT ... FOR UPDATE on the winner, and the transitions in memory.
ResolveCase(r) ==
    LET c == Head(todo[r]) IN
    /\ at[r] = "upserted" /\ Lockable(r, c) /\ Resolvable(c)
    /\ caseLock' = [caseLock EXCEPT ![c] = r]
    /\ won' = [won EXCEPT ![r] = c]
    /\ todo' = [todo EXCEPT ![r] = Tail(@)]
    /\ Goto(r, "resolved")
    /\ UNCHANGED <<now, database, pay, found, payLock, sharing, overlapped>>

\* IllegalTransition: nothing of the run stays, the payments row included.
RefuseResolve(r) ==
    /\ at[r] = "upserted" /\ Lockable(r, Head(todo[r])) /\ ~Resolvable(Head(todo[r]))
    /\ Leave(r)
    /\ UNCHANGED <<now, database, overlapped>>

\* The cases the run has locked besides its winner: its losers so far.
Losers(r) == {c \in Cases : caseLock[c] = r} \ {won[r]}

\* record_event for the next loser takes its cases row.
RecordAmbiguity(r) ==
    /\ at[r] = "resolved" /\ todo[r] # <<>> /\ Lockable(r, Head(todo[r]))
    /\ caseLock' = [caseLock EXCEPT ![Head(todo[r])] = r]
    /\ todo' = [todo EXCEPT ![r] = Tail(@)]
    /\ UNCHANGED <<now, database, at, pay, found, won, payLock, sharing, overlapped>>

Commit(r) ==
    LET c == won[r]
        kind == Kind(pay[r], c)
    IN  /\ at[r] = "resolved" /\ todo[r] = <<>>
        /\ credited' = [credited EXCEPT ![pay[r]] = c]
        /\ case' = [case EXCEPT ![c] = kind]
        /\ outcome' = [outcome EXCEPT ![c] = [kind |-> kind, payment |-> pay[r]]]
        /\ ambiguous' = ambiguous \cup ({pay[r]} \X Losers(r))
        /\ Leave(r)
        /\ UNCHANGED <<now, executed, captured, overlapped>>

Crash(r) ==
    /\ at[r] # "idle"
    /\ Leave(r)
    /\ UNCHANGED <<now, database, overlapped>>

AttributePayment(r) ==
    \/ \E p \in Payments : ReadPayment(r, p)
    \/ LoadCases(r) \/ Match(r)
    \/ RecordUnmatched(r) \/ Upsert(r) \/ ShareWinner(r)
    \/ ResolveCase(r) \/ RefuseResolve(r)
    \/ RecordAmbiguity(r) \/ Commit(r)

Next ==
    \/ Advance
    \/ \E c \in Cases : Start(c) \/ MarkDone(c) \/ CloseCase(c)
    \/ \E p \in Payments : Capture(p)
    \/ \E r \in Runs : AttributePayment(r) \/ Crash(r)

Spec == Init /\ [][Next]_vars
-----------------------------------------------------------------------------
(* Properties.                                                             *)

CreditsOf(p) == {c \in Cases : outcome[c].payment = p}

\* The payments row and the outcomes row name each other, whatever runs, stopping
\* rules and rollbacks came in between: a payments row with a case is the payment
\* of that case's outcome, and a payment some outcome names is never without one.
CreditIsMutual ==
    \A p \in Payments :
        /\ credited[p] \in Cases => outcome[credited[p]].payment = p
        /\ CreditsOf(p) # {} => credited[p] \in Cases

\* TR-29 as the code keeps it: a payment is credited to one case unless two runs
\* had it in hand at once; a replay after the first run is a no-op.
CreditedOnceUnlessRaced ==
    \A p \in Payments : Cardinality(CreditsOf(p)) > 1 => p \in overlapped

\* METRICS section 6: whatever the cases and executions did between the reads and
\* the commit, a credited payment was captured inside a window that an execution
\* of the case started, or the opening of a case that was never acted on.
CreditedInWindow ==
    \A p \in Payments : \A c \in CreditsOf(p) :
        \E anchor \in IF executed[c] = {} THEN {Opened[c]} ELSE executed[c] :
            captured[p] \in anchor..(anchor + Window)

\* TR-29: who is reported as the loser of a payment lost it to an older case.
LosersLoseToOlder ==
    \A e \in ambiguous : \E c \in CreditsOf(e[1]) : Older(c, e[2])

\* What a run waits for, and whom.
Waits(r, s) ==
    \/ at[r] = "matched" /\ todo[r] # <<>> /\ payLock[pay[r]] = s
    \/ at[r] = "upserting" /\ caseLock[Head(todo[r])] = s
    \/ at[r] \in {"upserted", "resolved"} /\ todo[r] # <<>> /\ s # r
       /\ (caseLock[Head(todo[r])] = s \/ s \in sharing[Head(todo[r])])

Circles == {D \in (SUBSET Runs) \ {{}} : \A r \in D : \E s \in D : Waits(r, s)}

\* engine.py:124-133: runs lock winners and losers in one order, the age of the
\* cases, which rules out that they wait for each other - but for one way that
\* order cannot rule out: two runs that share one winner through their payments
\* rows and both ask for it alone.
CirclesShareTheirWinner ==
    \A D \in Circles : \E r, s \in D :
        r # s /\ at[r] = "upserted" /\ at[s] = "upserted" /\ Head(todo[r]) = Head(todo[s])

\* engine.py:6-10: replaying a payment "can never move it to a second case".
CreditedOnce ==
    \A p \in Payments : Cardinality(CreditsOf(p)) <= 1
=============================================================================
