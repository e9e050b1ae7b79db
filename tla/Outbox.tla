------------------------------- MODULE Outbox -------------------------------
(***************************************************************************)
(* The durable outbox: the table scheduled_actions, the scheduler tick     *)
(* that reclaims expired claims and claims due rows, and the statements    *)
(* that complete, cancel or defer rows (execution/outbox.py,               *)
(* execution/scheduler.py).                                                *)
(*                                                                         *)
(* There is one row per action.  Every transaction of the code that only   *)
(* touches this table is one step; what a worker does between two of its   *)
(* transactions is not.  The worker that is handed a batch is left open    *)
(* here: it reports the row at the head of its batch done or failed,       *)
(* leaves it, or dies.  Executor.tla says what it really does.             *)
(***************************************************************************)
EXTENDS Integers, Sequences, FiniteSets, Functions

CONSTANTS
    Workers,      \* scheduler processes, one claim batch each
    Actions,      \* planned actions, one scheduled_actions row each
    Cases,
    CaseOf,       \* the case an action belongs to
    PlannedAt,    \* the due_at persist_plan writes
    ClaimTTL,     \* DEFAULT_CLAIM_TTL
    BatchSize,    \* batch_size of claim_due_batch
    DeferTimes,   \* dates a customer may promise to pay by
    NULL,
    MaxTime,      \* bound: the clock stops here
    QuietAfter    \* bound: no crash, cancel or defer from here on

ASSUME OutboxConstants ==
    /\ IsFiniteSet(Workers)
    /\ IsFiniteSet(Actions)
    /\ CaseOf \in [Actions -> Cases]
    /\ PlannedAt \in [Actions -> Nat]
    /\ ClaimTTL \in Nat \ {0}
    /\ BatchSize \in Nat \ {0}
    /\ DeferTimes \subseteq Nat
    /\ MaxTime \in Nat
    /\ QuietAfter \in Nat
    /\ NULL \notin Nat \cup Workers

VARIABLES
    now,               \* Clock.now(), the same for every process
    status,            \* the columns of scheduled_actions, by action
    due_at,
    claimed_by,
    claim_expires_at,
    executed_at,
    ticking,           \* "reclaimed" between the two transactions of a tick
    batch,             \* rows run_scheduler_tick returned, not yet dealt with
    lease              \* claim_expires_at on the rows it was handed, 0 if none

columns == <<status, due_at, claimed_by, claim_expires_at, executed_at>>
workerVars == <<ticking, batch, lease>>
outboxVars == <<now, columns, workerVars>>

Settled == {"done", "failed", "cancelled"}
Statuses == {"pending", "claimed"} \cup Settled

OutboxTypeOK ==
    /\ now \in Nat
    /\ status \in [Actions -> Statuses]
    /\ due_at \in [Actions -> Nat]
    /\ claimed_by \in [Actions -> Workers \cup {NULL}]
    /\ claim_expires_at \in [Actions -> Nat \cup {NULL}]
    /\ executed_at \in [Actions -> Nat \cup {NULL}]
    /\ ticking \in [Workers -> {"no", "reclaimed"}]
    /\ batch \in [Workers -> Seq(Actions)]
    /\ lease \in [Workers -> Nat]

OutboxInit ==
    /\ now = 0
    /\ status = [a \in Actions |-> "pending"]
    /\ due_at = PlannedAt
    /\ claimed_by = [a \in Actions |-> NULL]
    /\ claim_expires_at = [a \in Actions |-> NULL]
    /\ executed_at = [a \in Actions |-> NULL]
    /\ ticking = [w \in Workers |-> "no"]
    /\ batch = [w \in Workers |-> <<>>]
    /\ lease = [w \in Workers |-> 0]

-----------------------------------------------------------------------------
(* Statements on the table, each inside a transaction of some caller.      *)

Live(a) == status[a] \in {"pending", "claimed"}

\* Rows S go back to pending with their claim cleared.
Unclaim(S) ==
    /\ status' = [a \in Actions |-> IF a \in S THEN "pending" ELSE status[a]]
    /\ claimed_by' = [a \in Actions |-> IF a \in S THEN NULL ELSE claimed_by[a]]
    /\ claim_expires_at' =
           [a \in Actions |-> IF a \in S THEN NULL ELSE claim_expires_at[a]]

CancelPendingAndClaimed(c) ==
    /\ status' = [a \in Actions |-> IF CaseOf[a] = c /\ Live(a)
                                    THEN "cancelled" ELSE status[a]]
    /\ UNCHANGED <<due_at, claimed_by, claim_expires_at, executed_at>>

DeferPendingAndClaimed(c, until) ==
    LET deferred == {a \in Actions : CaseOf[a] = c /\ Live(a) /\ due_at[a] < until}
    IN  /\ Unclaim(deferred)
        /\ due_at' = [a \in Actions |-> IF a \in deferred THEN until ELSE due_at[a]]
        /\ UNCHANGED executed_at

\* Mutation of Complete: the WHERE clause does not ask for status = 'claimed'.
CompleteAnyRow(a, outcome) ==
    /\ status' = [status EXCEPT ![a] = outcome]
    /\ executed_at' = [executed_at EXCEPT ![a] = IF outcome = "done" THEN now ELSE @]
    /\ UNCHANGED <<due_at, claimed_by, claim_expires_at>>

\* UPDATE ... WHERE id = a AND status = 'claimed': whoever holds the claim.
Complete(a, outcome) ==
    /\ status' = [status EXCEPT ![a] = IF @ = "claimed" THEN outcome ELSE @]
    /\ executed_at' = [executed_at EXCEPT ![a] =
           IF status[a] = "claimed" /\ outcome = "done" THEN now ELSE @]
    /\ UNCHANGED <<due_at, claimed_by, claim_expires_at>>

-----------------------------------------------------------------------------
(* The scheduler tick: reclaim, commit, claim, commit.  locked is the set  *)
(* of rows another open transaction holds, which SKIP LOCKED passes over.  *)

Busy(w) == batch[w] # <<>>

\* Mutations of Expired: a claim counts as expired at the very end of its TTL,
\* or the comparison is the wrong way round.
ExpiredAtTheTick == {a \in Actions : status[a] = "claimed" /\ claim_expires_at[a] <= now}
NotYetExpired == {a \in Actions : status[a] = "claimed" /\ now < claim_expires_at[a]}

Expired == {a \in Actions : status[a] = "claimed" /\ claim_expires_at[a] < now}

ReclaimExpiredClaims(w, locked) ==
    /\ ~Busy(w) /\ ticking[w] = "no"
    /\ Unclaim(Expired \ locked)
    /\ ticking' = [ticking EXCEPT ![w] = "reclaimed"]
    /\ UNCHANGED <<now, due_at, executed_at, batch, lease>>

Due == {a \in Actions : status[a] = "pending" /\ due_at[a] <= now}

\* ORDER BY due_at LIMIT batch_size over the rows nobody has locked.
OldestOf(S) ==
    {B \in SUBSET S :
        /\ Cardinality(B) <= BatchSize
        /\ B # S => Cardinality(B) = BatchSize
        /\ \A a \in B, b \in S \ B : due_at[a] <= due_at[b]}

\* sorted(..., key=due_at): ties come in the order RETURNING gave them.
OldestFirst(B) ==
    {s \in Bijection(1..Cardinality(B), B) :
        \A i, j \in 1..Cardinality(B) : i < j => due_at[s[i]] <= due_at[s[j]]}

ClaimDueBatch(w, locked) ==
    /\ ticking[w] = "reclaimed"
    /\ \E B \in OldestOf(Due \ locked) :
        /\ status' = [a \in Actions |-> IF a \in B THEN "claimed" ELSE status[a]]
        /\ claimed_by' = [a \in Actions |-> IF a \in B THEN w ELSE claimed_by[a]]
        /\ claim_expires_at' = [a \in Actions |->
               IF a \in B THEN now + ClaimTTL ELSE claim_expires_at[a]]
        /\ \E s \in OldestFirst(B) : batch' = [batch EXCEPT ![w] = s]
        /\ lease' = [lease EXCEPT ![w] = IF B = {} THEN 0 ELSE now + ClaimTTL]
    /\ ticking' = [ticking EXCEPT ![w] = "no"]
    /\ UNCHANGED <<now, due_at, executed_at>>

-----------------------------------------------------------------------------
(* The worker and its surroundings.                                        *)

Advance ==
    /\ now < MaxTime
    /\ now' = now + 1
    /\ UNCHANGED <<columns, workerVars>>

Current(w) == Head(batch[w])

DropCurrent(w) ==
    /\ batch' = [batch EXCEPT ![w] = Tail(@)]
    /\ lease' = [lease EXCEPT ![w] = IF Len(batch[w]) = 1 THEN 0 ELSE @]
    /\ UNCHANGED <<now, ticking>>

\* mark_done or mark_failed for the row at hand, in a transaction of its own.
Report(w, outcome) ==
    /\ Busy(w)
    /\ Complete(Current(w), outcome)
    /\ DropCurrent(w)

\* The worker goes on to its next row and leaves this one claimed.
Abandon(w) ==
    /\ Busy(w)
    /\ DropCurrent(w)
    /\ UNCHANGED columns

\* The process dies: what it held in memory is gone, what it committed stays.
Crash(w) ==
    /\ batch' = [batch EXCEPT ![w] = <<>>]
    /\ lease' = [lease EXCEPT ![w] = 0]
    /\ ticking' = [ticking EXCEPT ![w] = "no"]
    /\ UNCHANGED <<now, columns>>

Cancel(c) ==
    /\ CancelPendingAndClaimed(c)
    /\ UNCHANGED <<now, workerVars>>

Defer(c, until) ==
    /\ now < until
    /\ DeferPendingAndClaimed(c, until)
    /\ UNCHANGED <<now, workerVars>>

\* The worker is done with the row at hand, with a report or without.
LetsGo(w) == Abandon(w) \/ \E outcome \in {"done", "failed"} : Report(w, outcome)

OutboxNext ==
    \/ Advance
    \/ \E w \in Workers, locked \in SUBSET Actions :
        \/ ReclaimExpiredClaims(w, locked)
        \/ ClaimDueBatch(w, locked)
    \/ \E w \in Workers : LetsGo(w)
    \/ /\ now < QuietAfter
       /\ \/ \E w \in Workers : Crash(w)
          \/ \E c \in Cases : Cancel(c) \/ \E until \in DeferTimes : Defer(c, until)

OutboxSpec == OutboxInit /\ [][OutboxNext]_outboxVars

\* run_scheduler_loop, and no more than that: it ticks for ever and lets go of what a
\* tick returned (it counts and drops it).  A row is not locked by others at every tick.
OutboxFairness ==
    \A w \in Workers :
        /\ SF_outboxVars(ReclaimExpiredClaims(w, {}))
        /\ SF_outboxVars(ClaimDueBatch(w, {}))
        /\ WF_outboxVars(LetsGo(w))

FairOutboxSpec == OutboxSpec /\ OutboxFairness

-----------------------------------------------------------------------------
(* Properties.                                                             *)

Holds(w, a) == a \in Range(batch[w])

\* test_concurrent_workers_never_double_claim: as long as neither lease has
\* run out, no row is in the hands of two workers.  Only a deferral, which
\* hands the row out again under a worker still busy with it, breaks this.
ExclusiveLease ==
    \A w, v \in Workers, a \in Actions :
        /\ w # v /\ Holds(w, a) /\ Holds(v, a)
        /\ now <= lease[w] /\ now <= lease[v]
        => due_at[a] # PlannedAt[a]

\* A pending row carries nothing of an earlier claim, and a claimed row names
\* its worker and its expiry: what the reclaim of the next tick goes by.
ClaimFieldsAgree ==
    \A a \in Actions :
        /\ status[a] = "pending" => claimed_by[a] = NULL /\ claim_expires_at[a] = NULL
        /\ status[a] = "claimed" =>
            /\ claimed_by[a] \in Workers
            /\ claim_expires_at[a] \in Nat
        /\ (executed_at[a] # NULL) <=> (status[a] = "done")

\* A row that is done, failed or cancelled stays so whatever a late worker, a
\* reclaim, a stopping rule or a promise date does; executed_at, the anchor of
\* the attribution window, is never rewritten; due_at never moves earlier.
SettledIsFinal ==
    [][\A a \in Actions :
        /\ status[a] \in Settled => status'[a] = status[a]
        /\ executed_at[a] # NULL => executed_at'[a] = executed_at[a]
        /\ due_at'[a] >= due_at[a]]_outboxVars

\* _complete asks for status = 'claimed' and not whose claim it is, so that a worker can
\* complete a row under another's claim; but none whose own lease still runs ever does,
\* unless a promise date handed the row out under it.
ForeignCompletionIsLate ==
    [][\A a \in Actions :
        status[a] = "claimed" /\ status'[a] \in {"done", "failed"} =>
            \E w \in Workers :
                /\ Holds(w, a) /\ batch'[w] = Tail(batch[w])
                /\ \/ claimed_by[a] = w
                   \/ lease[w] < now
                   \/ due_at[a] # PlannedAt[a]]_outboxVars

\* TR-56: as long as the scheduler loop runs somewhere, no claim outlives its lease for
\* good: whatever its worker did or left undone, one tick returns the row or it has been
\* settled, also if workers go on dying and other transactions lock the row at times.
Overdue(a) == status[a] = "claimed" /\ claim_expires_at[a] < now
ExpiredClaimsComeBack == \A a \in Actions : Overdue(a) ~> ~Overdue(a)
=============================================================================
