------------------------------- MODULE Intake -------------------------------
(***************************************************************************)
(* From a delivered webhook to an open case: the deduplicated write of raw *)
(* events (api/routes/webhooks.py, gateway/ingestion.py) and run_detection *)
(* (detection/pipeline.py), which several processes may run over the same  *)
(* stored events, or over events of one new customer, at once.             *)
(*                                                                         *)
(* A run is one transaction in a session of its own.  Each of its          *)
(* statements sees what others had committed when it began; an insert that *)
(* meets the uncommitted row of another run under a unique index waits for *)
(* that run to end.  A run that has nothing to do returns without ending   *)
(* its transaction: that is left to whoever called it.  Signal and case    *)
(* are written together, so that the cases of an event stand for its       *)
(* signals as well.                                                        *)
(***************************************************************************)
EXTENDS Integers, Sequences, FiniteSets

CONSTANTS
    Detectors,    \* processes that run detection
    Events,       \* raw events, by provider_event_id
    Customers,    \* razorpay_customer_id
    CustomerOf,   \* the customer an event names, if it does
    Type,         \* its event_type
    Failed,       \* events about a payment with status "failed"
    Amount,       \* the amount of its entity in paise, 0 if there is none
    NULL

ASSUME IntakeConstants ==
    /\ CustomerOf \in [Events -> Customers \cup {NULL}]
    /\ Type \in [Events -> STRING]
    /\ Failed \subseteq Events
    /\ Amount \in [Events -> Nat]
    /\ NULL \notin Events \cup Customers

VARIABLES
    raw_events,   \* raw_events rows
    customers,    \* customers rows
    cases,        \* the cases opened from an event, "open" until terminal
    at,           \* where each detector is in run_detection
    event,        \* the event it works on
    fresh,        \* whether its transaction inserted the customer
    overlapped    \* history: events two runs had in hand at once

database == <<raw_events, customers, cases>>
runVars == <<at, event, fresh>>
vars == <<database, runVars, overlapped>>

Stages == {"idle", "started", "missing", "resolved", "undetected", "inserted", "returned"}

TypeOK ==
    /\ raw_events \subseteq Events
    /\ customers \subseteq Customers
    /\ cases \in [Events -> Seq({"open", "over"})]
    /\ at \in [Detectors -> Stages]
    /\ event \in [Detectors -> Events \cup {NULL}]
    /\ \A d \in Detectors :
        at[d] # "idle" => event[d] \in Events /\ CustomerOf[event[d]] # NULL
    /\ fresh \in [Detectors -> BOOLEAN]
    /\ overlapped \subseteq Events

Init ==
    /\ raw_events = {}
    /\ customers = {}
    /\ cases = [e \in Events |-> <<>>]
    /\ at = [d \in Detectors |-> "idle"]
    /\ event = [d \in Detectors |-> NULL]
    /\ fresh = [d \in Detectors |-> FALSE]
    /\ overlapped = {}

-----------------------------------------------------------------------------

\* ON CONFLICT DO NOTHING, and a commit before the answer.
StoreRawEvent(e) == raw_events' = raw_events \cup {e}

\* A delivery, the first or a later one; a body that does not parse is stored
\* too, as an event that names no customer.
Receive(e) ==
    /\ StoreRawEvent(e)
    /\ UNCHANGED <<customers, cases, runVars, overlapped>>

\* Mutation of Close: the state's own name is kept for what is over.
CloseByName(e, i) ==
    /\ cases[e][i] = "open"
    /\ cases' = [cases EXCEPT ![e][i] = "suppressed"]
    /\ UNCHANGED <<raw_events, customers, runVars, overlapped>>

\* The case, whatever closes it, gets a terminal state.
Close(e, i) ==
    /\ cases[e][i] = "open"
    /\ cases' = [cases EXCEPT ![e][i] = "over"]
    /\ UNCHANGED <<raw_events, customers, runVars, overlapped>>

-----------------------------------------------------------------------------
(* run_detection.                                                          *)

Goto(d, s) == at' = [at EXCEPT ![d] = s]

\* The transaction is over, and nobody has the event in hand.
Leave(d) ==
    /\ Goto(d, "idle")
    /\ event' = [event EXCEPT ![d] = NULL]
    /\ fresh' = [fresh EXCEPT ![d] = FALSE]

\* The runs that have e in hand; one that returned will do no more about it.
Handling(e) == {d \in Detectors : event[d] = e /\ at[d] # "returned"}

\* An event that names no customer is left alone.
Start(d, e) ==
    /\ at[d] = "idle" /\ e \in raw_events /\ CustomerOf[e] # NULL
    /\ event' = [event EXCEPT ![d] = e]
    /\ Goto(d, "started")
    /\ overlapped' = IF Handling(e) # {} THEN overlapped \cup {e} ELSE overlapped
    /\ UNCHANGED <<database, fresh>>

CustomerAt(d) == CustomerOf[event[d]]

\* resolve_customer: the SELECT.
FindCustomer(d) ==
    /\ at[d] = "started"
    /\ Goto(d, IF CustomerAt(d) \in customers THEN "resolved" ELSE "missing")
    /\ UNCHANGED <<database, event, fresh, overlapped>>

\* The other runs whose transaction has inserted the customer of d.
Inserting(d) ==
    {k \in Detectors \ {d} : fresh[k] /\ CustomerAt(k) = CustomerAt(d)}

\* Mutation of InsertCustomer: the row is committed on its own.
InsertCustomerAtOnce(d) ==
    /\ at[d] = "missing" /\ CustomerAt(d) \notin customers /\ Inserting(d) = {}
    /\ customers' = customers \cup {CustomerAt(d)}
    /\ Goto(d, "resolved")
    /\ UNCHANGED <<raw_events, cases, event, fresh, overlapped>>

\* resolve_customer: the INSERT, which waits for another of the same id.
InsertCustomer(d) ==
    /\ at[d] = "missing" /\ CustomerAt(d) \notin customers /\ Inserting(d) = {}
    /\ fresh' = [fresh EXCEPT ![d] = TRUE]
    /\ Goto(d, "resolved")
    /\ UNCHANGED <<database, event, overlapped>>

\* The other run was first: IntegrityError, which nobody catches.
CustomerExists(d) ==
    /\ at[d] = "missing" /\ CustomerAt(d) \in customers
    /\ Leave(d)
    /\ UNCHANGED <<database, overlapped>>

\* The three detectors; a debit against a mandate is a leak only if it failed.
FailedPayment(e) == Type[e] = "payment.failed"
FailedMandateDebit(e) == Type[e] = "subscription.charged" /\ e \in Failed
HaltedSubscription(e) == Type[e] = "subscription.halted"

Leak(e) ==
    /\ FailedPayment(e) \/ FailedMandateDebit(e) \/ HaltedSubscription(e)
    /\ Amount[e] > 0

\* Mutation of CheckDetected: the detectors are not told of earlier signals.
CheckLeakOnly(d) ==
    /\ at[d] = "resolved"
    /\ Goto(d, IF Leak(event[d]) THEN "undetected" ELSE "returned")
    /\ UNCHANGED <<database, event, fresh, overlapped>>

\* already_detected and the detectors.  With nothing to do the run returns as it is,
\* with the customer it may have flushed.
CheckDetected(d) ==
    /\ at[d] = "resolved"
    /\ Goto(d, IF Leak(event[d]) /\ cases[event[d]] = <<>> THEN "undetected" ELSE "returned")
    /\ UNCHANGED <<database, event, fresh, overlapped>>

\* What a run with nothing to do left open, its caller commits or rolls back.
EndByCaller(d) ==
    /\ at[d] = "returned"
    /\ \/ customers' = customers \cup {c \in {CustomerAt(d)} : fresh[d]}
       \/ UNCHANGED customers
    /\ Leave(d)
    /\ UNCHANGED <<raw_events, cases, overlapped>>

\* Events that fall under one entry of cases_open_dedup.
SameEntry(e, f) == CustomerOf[e] = CustomerOf[f] /\ Amount[e] = Amount[f]

\* The index has an entry for an open case like the one e would open.
Shadowed(e) ==
    \E f \in Events : SameEntry(e, f) /\ \E i \in DOMAIN cases[f] : cases[f][i] = "open"

\* open_case_for_signal: signal and case are flushed; the partial unique index
\* makes the insert wait for another run's uncommitted case.
InsertCase(d) ==
    /\ at[d] = "undetected" /\ ~Shadowed(event[d])
    /\ \A k \in Detectors \ {d} : at[k] = "inserted" => ~SameEntry(event[k], event[d])
    /\ Goto(d, "inserted")
    /\ UNCHANGED <<database, event, fresh, overlapped>>

\* IntegrityError: rollback, the signal included, and no case.
RefuseCase(d) ==
    /\ at[d] = "undetected" /\ Shadowed(event[d])
    /\ Leave(d)
    /\ UNCHANGED <<database, overlapped>>

\* Three audit events of a case nobody else can see yet, and the commit.
Commit(d) ==
    /\ at[d] = "inserted"
    /\ cases' = [cases EXCEPT ![event[d]] = Append(@, "open")]
    /\ customers' = customers \cup {CustomerAt(d)}
    /\ Leave(d)
    /\ UNCHANGED <<raw_events, overlapped>>

Crash(d) ==
    /\ at[d] # "idle"
    /\ Leave(d)
    /\ UNCHANGED <<database, overlapped>>

RunDetection(d) ==
    \/ \E e \in Events : Start(d, e)
    \/ FindCustomer(d) \/ InsertCustomer(d) \/ CustomerExists(d)
    \/ CheckDetected(d) \/ EndByCaller(d)
    \/ InsertCase(d) \/ RefuseCase(d) \/ Commit(d)

Next ==
    \/ \E e \in Events : Receive(e) \/ \E i \in DOMAIN cases[e] : Close(e, i)
    \/ \E d \in Detectors : RunDetection(d) \/ Crash(d)

Spec == Init /\ [][Next]_vars
-----------------------------------------------------------------------------
(* Properties.                                                             *)

\* TR-8: a customer has one open case of an amount at a time, be it opened from
\* one event twice or from two events by runs that saw nothing of each other.
OneOpenCase ==
    \A e, f \in Events : SameEntry(e, f) =>
        \A i \in DOMAIN cases[e], j \in DOMAIN cases[f] :
            cases[e][i] = "open" /\ cases[f][j] = "open" => e = f /\ i = j

\* TR-4, as the code keeps it: an event opens a second case only if two runs had
\* it in hand at once; a later run over a stored event never does, whatever has
\* become of the case meanwhile.
OneCaseUnlessRaced ==
    \A e \in Events : Len(cases[e]) > 1 => e \in overlapped

\* A case never lacks its customer, and a customer without a case is one that some
\* event named which is no leak: of a leak whose run lost a race, was refused by the
\* index or died, nothing is left, whatever callers commit.
CustomersHaveReasons ==
    /\ \A e \in Events : cases[e] # <<>> => CustomerOf[e] \in customers
    /\ \A c \in customers :
           \E e \in raw_events : CustomerOf[e] = c /\ (cases[e] # <<>> \/ ~Leak(e))
=============================================================================
