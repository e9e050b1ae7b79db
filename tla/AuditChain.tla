----------------------------- MODULE AuditChain -----------------------------
(***************************************************************************)
(* The audit chain of every case (audit/repository.py, audit/events.py)    *)
(* under all the transactions that append to one: detection, planning, the *)
(* control arm, the gate, the outbox claim, execution, the stopping rules  *)
(* and attribution.                                                        *)
(*                                                                         *)
(* A transaction is what the calls of record_event in it make it: events   *)
(* on cases, in the order of the calls, and at most one new state of a     *)
(* case.  Each event is three statements: the cases row FOR UPDATE, the    *)
(* tail of the chain, the INSERT.  Locks and rows stay the transaction's   *)
(* own until it commits or dies.  An event is what it says of its case's   *)
(* state; of its kind and payload nothing else is told apart.              *)
(*                                                                         *)
(* Of the locks only those of record_event itself are here.  The others    *)
(* (outbox rows, shares a foreign key takes) can only make a transaction   *)
(* wait or, in a deadlock, die, as it may at any statement: what is said   *)
(* of the chains holds with them, and of deadlocks nothing is said here.   *)
(*                                                                         *)
(* The table of one case is a function from seq to row: seq is unique per  *)
(* case (audit_seq_unique), and nothing but that makes it a sequence.  A   *)
(* hash stands for all it was computed from: the events up to it.          *)
(***************************************************************************)
EXTENDS CaseStates, FiniteSets

CONSTANTS
    Writers,      \* sessions: each has one transaction open at a time
    Cases,
    Id,           \* cases.id, a UUIDv7
    Opened,       \* cases.opened_at
    MaxSeq,       \* bound: no transaction begins that would pass it
    NULL

ASSUME AuditConstants ==
    /\ IsFiniteSet(Cases)
    /\ Id \in [Cases -> Nat] /\ \A c, d \in Cases : Id[c] = Id[d] => c = d
    /\ Opened \in [Cases -> Nat]
    /\ MaxSeq \in Nat
    /\ NULL \notin Writers \cup Cases \cup Nat

VARIABLES
    state,        \* cases.state, "absent" before the row is committed
    log,          \* audit_events: per case, its rows by seq
    kind,         \* what a transaction is, "none" between two
    at,           \* which statement of record_event it comes to
    todo,         \* the events it still has to record
    sets,         \* the case whose state it writes, and the state
    staged,       \* its rows, flushed and not committed, per case
    tail,         \* the seq _latest returned, 0 for none
    caseLock      \* the transaction that holds a cases row

table == <<state, log>>
vars == <<table, kind, at, todo, sets, staged, tail, caseLock>>

-----------------------------------------------------------------------------
(* Events and chains.                                                      *)

Bodies == States \cup {"silent"}

\* sha256 of the event with its prev_hash in it; "" for no event.
Hash(row) == Append(row.prev, row.body)
HashAt(t, n) == IF n = 0 THEN <<>> ELSE Hash(t[n])

\* Mutation of AppendEvent: the link is the prior event's own link.
AppendToGrandparent(t, n, body) ==
    [seq |-> n + 1, row |-> [body |-> body, prev |-> IF n = 0 THEN <<>> ELSE t[n].prev]]

\* Mutation of AppendEvent: seq counts from zero.
AppendFromZero(t, n, body) ==
    [seq |-> n, row |-> [body |-> body, prev |-> HashAt(t, n)]]

\* append_event: seq and prev_hash come from the prior event, n = 0 for none.
AppendEvent(t, n, body) ==
    [seq |-> n + 1, row |-> [body |-> body, prev |-> HashAt(t, n)]]

\* Rows b on top of the rows a.
Merge(a, b) ==
    [n \in DOMAIN a \cup DOMAIN b |-> IF n \in DOMAIN b THEN b[n] ELSE a[n]]

\* What a transaction sees of a chain: the committed rows and its own.
Seen(w, c) == Merge(log[c], staged[w][c])

\* ORDER BY seq DESC LIMIT 1.
LastSeq(t) == CHOOSE n \in DOMAIN t \cup {0} : \A m \in DOMAIN t : m <= n

\* verify_chain over the rows in the order of seq: the first position whose row has
\* another seq or another prev_hash than expected, 0 for an intact chain.
VerifyChain(t) ==
    LET bad == {n \in 1..Cardinality(DOMAIN t) :
                   n \notin DOMAIN t \/ t[n].prev # HashAt(t, n - 1)}
    IN  IF bad = {} THEN 0 ELSE CHOOSE n \in bad : \A m \in bad : n <= m

-----------------------------------------------------------------------------
(* Transactions, as the events they record.                                *)

On(c, bodies) == [i \in 1..Len(bodies) |-> [case |-> c, body |-> bodies[i]]]

NoState == [case |-> NULL, to |-> "silent"]

Recording(k, c, bodies) == [kind |-> k, todo |-> On(c, bodies), sets |-> NoState]
Moving(k, c, to, bodies) ==
    [kind |-> k, todo |-> On(c, bodies), sets |-> [case |-> c, to |-> to]]

\* open_case_for_signal: signal_detected, case_opened, arm_assigned.
Openings == {Moving("open", c, "detected", <<"silent", "detected", "silent">>) : c \in Cases}

\* persist_plan: plan_created, with approval_requested after it when the at_risk of
\* the case asks for it, and an event for a dropped step; persist_holdout, for a case
\* whose arm is the control arm (any case may be one here).
Plannings ==
    UNION {{Moving("plan", c, "executing", <<"executing">>),
            Moving("plan", c, "executing", <<"executing", "silent">>),
            Moving("plan", c, "awaiting_approval", <<"silent", "awaiting_approval">>),
            Moving("plan", c, "holdout", <<"silent", "holdout">>)} : c \in Cases}

\* persist_decision (one event, or two for DENY and DEFER), the executor's
\* action_executed or action_failed, a stopping rule that leaves the case open.
Records ==
    UNION {{Recording("record", c, <<"silent">>),
            Recording("record", c, <<"silent", "silent">>)} : c \in Cases}

\* _close_case, suppress_case: one event that hands the case to a human, or the
\* rule's event and case_resolved.
Closings ==
    {Moving("close", c, "escalated", <<"escalated">>) : c \in Cases}
    \cup {Moving("close", p[1], p[2], <<"silent", p[2]>>)
          : p \in Cases \X (Terminal \ Recovered)}

\* Sequences of different cases, each before the later ones in the order.
Batches(Before) ==
    UNION {{q \in [1..n -> Cases] : \A i, j \in 1..n : i < j => <<q[i], q[j]>> \in Before}
              : n \in 1..Cardinality(Cases)}

ById == {p \in Cases \X Cases : Id[p[1]] < Id[p[2]]}
ByAge ==
    {p \in Cases \X Cases :
        \/ Opened[p[1]] < Opened[p[2]]
        \/ Opened[p[1]] = Opened[p[2]] /\ Id[p[1]] < Id[p[2]]}

OneEach(q) == [i \in 1..Len(q) |-> [case |-> q[i], body |-> "silent"]]

\* _record_claims: action_claimed on the cases of a batch, sorted by case_id.
Claims ==
    {[kind |-> "claim", todo |-> OneEach(q), sets |-> NoState] : q \in Batches(ById)}

\* _resolve_case on the winner, _record_ambiguity on the losers: the oldest first.
Attributions ==
    UNION {{[kind |-> "attribute",
             todo |-> On(q[1], <<"silent", to>>) \o OneEach(Tail(q)),
             sets |-> [case |-> q[1], to |-> to]] : to \in Recovered}
               : q \in Batches(ByAge)}

Transactions ==
    Openings \cup Plannings \cup Records \cup Closings \cup Claims \cup Attributions

TypeOK ==
    /\ state \in [Cases -> States \cup {"absent"}]
    /\ \A c \in Cases : \A n \in DOMAIN log[c] :
           n \in Nat \ {0} /\ log[c][n] \in [body : Bodies, prev : Seq(Bodies)]
    /\ kind \in [Writers -> {"none", "open", "plan", "record", "close", "claim", "attribute"}]
    /\ at \in [Writers -> {"idle", "asking", "locked", "read"}]
    /\ \A w \in Writers :
        /\ todo[w] \in Seq([case : Cases, body : Bodies])
        /\ sets[w] \in [case : Cases \cup {NULL}, to : Bodies]
        /\ \A c \in Cases : \A n \in DOMAIN staged[w][c] :
               n \in Nat \ {0} /\ staged[w][c][n] \in [body : Bodies, prev : Seq(Bodies)]
    /\ tail \in [Writers -> Nat]
    /\ caseLock \in [Cases -> Writers \cup {NULL}]

Nothing == [c \in Cases |-> <<>>]

Init ==
    /\ state = [c \in Cases |-> "absent"]
    /\ log = Nothing
    /\ kind = [w \in Writers |-> "none"]
    /\ at = [w \in Writers |-> "idle"]
    /\ todo = [w \in Writers |-> <<>>]
    /\ sets = [w \in Writers |-> NoState]
    /\ staged = [w \in Writers |-> Nothing]
    /\ tail = [w \in Writers |-> 0]
    /\ caseLock = [c \in Cases |-> NULL]

-----------------------------------------------------------------------------
(* Beginning and ending a transaction.                                     *)

\* The states attribution looks for a winner and losers in.
Eligible == {"holdout", "executing", "awaiting_outcome"}

\* A plan, and with it rows to claim, gate and execute, is in the chain.
Planned(c) ==
    \E n \in DOMAIN log[c] : log[c][n].body \in {"executing", "awaiting_approval"}

\* What its caller has seen of the cases when it begins.
CanBegin(x, c) ==
    CASE x.kind = "open"      -> state[c] = "absent"
      [] x.kind = "plan"      -> state[c] = "detected"
      [] x.kind = "close"     ->
            Planned(c) \/ (x.sets.to = "suppressed" /\ state[c] # "absent")
      [] x.kind = "attribute" -> state[c] \in Eligible
      [] OTHER                -> Planned(c)

Fits(x, c) ==
    Cardinality(DOMAIN log[c]) + Cardinality({i \in DOMAIN x.todo : x.todo[i].case = c}) <= MaxSeq

Begin(w, x) ==
    /\ at[w] = "idle"
    /\ \A i \in DOMAIN x.todo : CanBegin(x, x.todo[i].case) /\ Fits(x, x.todo[i].case)
    /\ x.kind = "open" =>
           \A v \in Writers : ~(kind[v] = "open" /\ sets[v].case = x.sets.case)
    /\ kind' = [kind EXCEPT ![w] = x.kind]
    /\ todo' = [todo EXCEPT ![w] = x.todo]
    /\ sets' = [sets EXCEPT ![w] = x.sets]
    /\ at' = [at EXCEPT ![w] = "asking"]
    /\ UNCHANGED <<table, staged, tail, caseLock>>

\* The transaction is over, and what it held is free.
Leave(w) ==
    /\ kind' = [kind EXCEPT ![w] = "none"]
    /\ at' = [at EXCEPT ![w] = "idle"]
    /\ todo' = [todo EXCEPT ![w] = <<>>]
    /\ sets' = [sets EXCEPT ![w] = NoState]
    /\ staged' = [staged EXCEPT ![w] = Nothing]
    /\ tail' = [tail EXCEPT ![w] = 0]
    /\ caseLock' = [c \in Cases |-> IF caseLock[c] = w THEN NULL ELSE caseLock[c]]

\* Mutation of Commit: the state is committed, and the events by a later commit.
CommitStateFirst(w) ==
    /\ at[w] = "asking" /\ todo[w] = <<>>
    /\ state' = [c \in Cases |-> IF c = sets[w].case THEN sets[w].to ELSE state[c]]
    /\ \/ /\ sets[w] = NoState
          /\ log' = [c \in Cases |-> Seen(w, c)]
          /\ Leave(w)
       \/ /\ sets[w] # NoState
          /\ sets' = [sets EXCEPT ![w] = NoState]
          /\ UNCHANGED <<log, kind, at, todo, staged, tail, caseLock>>

\* session.commit(): rows and state are there for all to see, at once.
Commit(w) ==
    /\ at[w] = "asking" /\ todo[w] = <<>>
    /\ state' = [c \in Cases |-> IF c = sets[w].case THEN sets[w].to ELSE state[c]]
    /\ log' = [c \in Cases |-> Seen(w, c)]
    /\ Leave(w)

\* The process dies, an exception rolls back, PostgreSQL picks a deadlock's victim.
Crash(w) ==
    /\ at[w] # "idle"
    /\ Leave(w)
    /\ UNCHANGED table

-----------------------------------------------------------------------------
(* record_event.                                                           *)

Subject(w) == Head(todo[w]).case

Obtainable(w) == at[w] = "asking" /\ todo[w] # <<>> /\ caseLock[Subject(w)] \in {NULL, w}

\* transition_to, where the arm makes no difference: to any state but EXECUTING.
Moves(from, to) == CanMove("control", from, to)

\* What the transitions of the transaction's case ask of the state under the lock.
Legal(w) ==
    LET c == Subject(w) IN
    CASE sets[w].case # c        -> TRUE
      [] kind[w] = "open"        -> TRUE
      [] kind[w] = "plan"        -> state[c] = "detected"
      [] kind[w] = "attribute"   ->
            state[c] = "awaiting_outcome" \/ Moves(state[c], "awaiting_outcome")
      [] OTHER                   -> Moves(state[c], sets[w].to)

\* Mutation of Lock: FOR UPDATE on the latest event, which no INSERT waits for.
LockLatestEvent(w) ==
    /\ Obtainable(w) /\ Legal(w)
    /\ at' = [at EXCEPT ![w] = "locked"]
    /\ UNCHANGED <<table, kind, todo, sets, staged, tail, caseLock>>

\* SELECT cases.id ... FOR UPDATE.
Lock(w) ==
    /\ Obtainable(w) /\ Legal(w)
    /\ caseLock' = [caseLock EXCEPT ![Subject(w)] = w]
    /\ at' = [at EXCEPT ![w] = "locked"]
    /\ UNCHANGED <<table, kind, todo, sets, staged, tail>>

\* IllegalTransition, or for a plan a constraint: the case moved on in between.
Refuse(w) ==
    /\ Obtainable(w) /\ ~Legal(w)
    /\ Leave(w)
    /\ UNCHANGED table

\* _latest, a statement of its own after the lock.
ReadTail(w) ==
    /\ at[w] = "locked"
    /\ tail' = [tail EXCEPT ![w] = LastSeq(Seen(w, Subject(w)))]
    /\ at' = [at EXCEPT ![w] = "read"]
    /\ UNCHANGED <<table, kind, todo, sets, staged, caseLock>>

\* session.add and flush.  audit_seq_unique would refuse a seq that is taken:
\* NoAppendCollides says that none ever is.
Insert(w) ==
    LET c == Subject(w)
        e == AppendEvent(Seen(w, c), tail[w], Head(todo[w]).body)
    IN  /\ at[w] = "read"
        /\ staged' = [staged EXCEPT ![w][c] = Merge(@, [n \in {e.seq} |-> e.row])]
        /\ todo' = [todo EXCEPT ![w] = Tail(@)]
        /\ tail' = [tail EXCEPT ![w] = 0]
        /\ at' = [at EXCEPT ![w] = "asking"]
        /\ UNCHANGED <<table, kind, sets, caseLock>>

Next ==
    \E w \in Writers :
        \/ \E x \in Transactions : Begin(w, x)
        \/ Lock(w) \/ Refuse(w) \/ ReadTail(w) \/ Insert(w)
        \/ Commit(w) \/ Crash(w)

Spec == Init /\ [][Next]_vars

-----------------------------------------------------------------------------
(* Properties.                                                             *)

\* DOMAIN-MODEL section 10: `recoup audit verify` finds no divergence in any chain
\* at any time, with transactions open and after any number of rollbacks.
ChainsIntact == \A c \in Cases : VerifyChain(log[c]) = 0

\* repository.py:14-18: two transactions on one case serialise instead of computing
\* the same next seq and one losing to audit_seq_unique; nor does a transaction
\* compute a seq twice for two events of its own.
NoAppendCollides ==
    \A w \in Writers : at[w] = "read" =>
        /\ tail[w] + 1 \notin DOMAIN log[Subject(w)]
        /\ \A v \in Writers : tail[w] + 1 \notin DOMAIN staged[v][Subject(w)]

\* I4: chains only grow, by whole transactions, and a case's state changes exactly
\* when a new event tells it, to what it tells.
Chain == [c \in Cases |-> [n \in DOMAIN log[c] |-> log[c][n].body]]
Promise == INSTANCE AuditLog WITH chain <- Chain, Unborn <- "absent"
KeepsItsPromise == Promise!Spec
=============================================================================
