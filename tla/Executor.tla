------------------------------ MODULE Executor ------------------------------
(***************************************************************************)
(* What a worker does with the rows of its batch (execution/executor.py):  *)
(* assert the recorded ALLOW, take the Redis idempotency key, call the     *)
(* channel, and write cost, audit event and outbox status in one           *)
(* transaction.  Several workers run this over the rows of Outbox, any of  *)
(* them can die between two steps, and the rows they work on can be        *)
(* reclaimed, cancelled or deferred under them.                            *)
(*                                                                         *)
(* The policy gate is upstream of the executor: here a decision simply     *)
(* appears, at most one per action (uq_policy_decisions_action_attempt,    *)
(* and every action is attempt 1).                                         *)
(***************************************************************************)
EXTENDS Outbox

CONSTANTS
    KeyTTL,       \* _IDEMPOTENCY_TTL
    Cost,         \* actions.cost_paise
    Ceiling       \* cases.cost_ceiling_paise, as persist_plan left it

ASSUME ExecutorConstants ==
    /\ KeyTTL \in Nat \ {0}
    /\ Cost \in [Actions -> Nat]
    /\ Ceiling \in [Cases -> Nat]

VARIABLES
    decision,     \* policy_decisions.verdict of the action, if there is one
    key_until,    \* when the action's Redis key expires
    step,         \* where each worker is inside execute()
    spent,        \* cases.cost_spent_paise
    charged,      \* action_executed events, each committed with its cost
    sent,         \* history: channel calls that reached the outside world
    grants,       \* history: successful SET NX
    first_grant   \* history: when the first of them was

execVars == <<decision, key_until, step, spent, charged, sent, grants, first_grant>>
vars == <<outboxVars, execVars>>

Verdicts == {"allow", "deny"}
Steps == {"none", "acquired", "returned", "raised"}

TypeOK ==
    /\ OutboxTypeOK
    /\ decision \in [Actions -> Verdicts \cup {"none"}]
    /\ key_until \in [Actions -> Nat]
    /\ step \in [Workers -> Steps]
    /\ spent \in [Cases -> Nat]
    /\ charged \in [Actions -> Nat]
    /\ sent \in [Actions -> Nat]
    /\ grants \in [Actions -> Nat]
    /\ first_grant \in [Actions -> Nat]

Init ==
    /\ OutboxInit
    /\ decision = [a \in Actions |-> "none"]
    /\ key_until = [a \in Actions |-> 0]
    /\ step = [w \in Workers |-> "none"]
    /\ spent = [c \in Cases |-> 0]
    /\ charged = [a \in Actions |-> 0]
    /\ sent = [a \in Actions |-> 0]
    /\ grants = [a \in Actions |-> 0]
    /\ first_grant = [a \in Actions |-> 0]

-----------------------------------------------------------------------------
(* execute(), from its first statement to its last.                        *)

At(w, s) == Busy(w) /\ step[w] = s

Goto(w, s) == step' = [step EXCEPT ![w] = s]

\* The gate upstream commits its decision; DENY and DEFER are one to us.
Decide(a, verdict) ==
    /\ decision[a] = "none"
    /\ decision' = [decision EXCEPT ![a] = verdict]
    /\ UNCHANGED <<outboxVars, key_until, step, spent, charged, sent, grants, first_grant>>

\* _assert_allowed raises NoAllowDecisionError; the row stays claimed.
Refuse(w) ==
    /\ At(w, "none") /\ decision[Current(w)] # "allow"
    /\ Abandon(w)
    /\ UNCHANGED execVars

KeyHeld(a) == key_until[a] > now

\* Mutation of Acquire: the decision is not asserted.
AcquireUnasserted(w) ==
    LET a == Current(w) IN
    /\ At(w, "none") /\ ~KeyHeld(a)
    /\ key_until' = [key_until EXCEPT ![a] = now + KeyTTL]
    /\ grants' = [grants EXCEPT ![a] = @ + 1]
    /\ first_grant' = [first_grant EXCEPT ![a] = IF grants[a] = 0 THEN now ELSE @]
    /\ Goto(w, "acquired")
    /\ UNCHANGED <<outboxVars, decision, spent, charged, sent>>

\* Mutation of Acquire: SET without NX.
AcquireWithoutNX(w) ==
    LET a == Current(w) IN
    /\ At(w, "none") /\ decision[a] = "allow"
    /\ key_until' = [key_until EXCEPT ![a] = now + KeyTTL]
    /\ grants' = [grants EXCEPT ![a] = @ + 1]
    /\ first_grant' = [first_grant EXCEPT ![a] = IF grants[a] = 0 THEN now ELSE @]
    /\ Goto(w, "acquired")
    /\ UNCHANGED <<outboxVars, decision, spent, charged, sent>>

\* SET key NX EX succeeds.  A decision never changes once it is written, so
\* the assertion that read it a moment before is part of this step.
Acquire(w) ==
    LET a == Current(w) IN
    /\ At(w, "none") /\ decision[a] = "allow" /\ ~KeyHeld(a)
    /\ key_until' = [key_until EXCEPT ![a] = now + KeyTTL]
    /\ grants' = [grants EXCEPT ![a] = @ + 1]
    /\ first_grant' = [first_grant EXCEPT ![a] = IF grants[a] = 0 THEN now ELSE @]
    /\ Goto(w, "acquired")
    /\ UNCHANGED <<outboxVars, decision, spent, charged, sent>>

\* Mutations of Suppress: the row gets the result's name for its status; the
\* cost the dead worker may have lost is made up for.
SuppressAsSuppressed(w) ==
    /\ At(w, "none") /\ decision[Current(w)] = "allow" /\ KeyHeld(Current(w))
    /\ Complete(Current(w), "suppressed")
    /\ DropCurrent(w)
    /\ UNCHANGED execVars

SuppressAndCharge(w) ==
    LET a == Current(w) IN
    /\ At(w, "none") /\ decision[a] = "allow" /\ KeyHeld(a)
    /\ charged' = [charged EXCEPT ![a] = @ + 1]
    /\ Complete(a, "done")
    /\ DropCurrent(w)
    /\ UNCHANGED <<decision, key_until, step, spent, sent, grants, first_grant>>

\* SET key NX finds the key: the row is marked done, the channel left alone.
Suppress(w) ==
    LET a == Current(w) IN
    /\ At(w, "none") /\ decision[a] = "allow" /\ KeyHeld(a)
    /\ Report(w, "done")
    /\ UNCHANGED execVars

\* The handler returns, or raises before or after it reached the provider.
CallChannel(w) ==
    LET a == Current(w) IN
    /\ At(w, "acquired")
    /\ \/ /\ Goto(w, "returned")
          /\ sent' = [sent EXCEPT ![a] = @ + 1]
       \/ /\ Goto(w, "raised")
          /\ \/ sent' = [sent EXCEPT ![a] = @ + 1]
             \/ UNCHANGED sent
    /\ UNCHANGED <<outboxVars, decision, key_until, spent, charged, grants, first_grant>>

Fits(a) == spent[CaseOf[a]] + Cost[a] <= Ceiling[CaseOf[a]]

\* Event, contact, cost and mark_done commit together; whether the row was
\* still claimed decides its status only, mark_done's answer is not read.
RecordExecution(w) ==
    LET a == Current(w) IN
    /\ At(w, "returned") /\ Fits(a)
    /\ charged' = [charged EXCEPT ![a] = @ + 1]
    /\ spent' = [spent EXCEPT ![CaseOf[a]] = @ + Cost[a]]
    /\ Report(w, "done")
    /\ Goto(w, "none")
    /\ UNCHANGED <<decision, key_until, sent, grants, first_grant>>

\* cost_within_ceiling (or record_cost) raises: nothing of it is committed.
RejectExecution(w) ==
    /\ At(w, "returned") /\ ~Fits(Current(w))
    /\ Abandon(w)
    /\ Goto(w, "none")
    /\ UNCHANGED <<decision, key_until, spent, charged, sent, grants, first_grant>>

RecordFailure(w) ==
    /\ At(w, "raised")
    /\ Report(w, "failed")
    /\ Goto(w, "none")
    /\ UNCHANGED <<decision, key_until, spent, charged, sent, grants, first_grant>>

Execute(w) ==
    \/ Refuse(w)
    \/ Acquire(w)
    \/ Suppress(w)
    \/ CallChannel(w)
    \/ RecordExecution(w)
    \/ RejectExecution(w)
    \/ RecordFailure(w)

\* Mutation of Die: the key of the action in hand is released with the process.
DieReleasingKey(w) ==
    /\ Crash(w)
    /\ key_until' = [a \in Actions |->
           IF Busy(w) /\ a = Current(w) THEN 0 ELSE key_until[a]]
    /\ Goto(w, "none")
    /\ UNCHANGED <<decision, spent, charged, sent, grants, first_grant>>

\* The Redis key outlives the process that set it.
Die(w) ==
    /\ Crash(w)
    /\ Goto(w, "none")
    /\ UNCHANGED <<decision, key_until, spent, charged, sent, grants, first_grant>>

-----------------------------------------------------------------------------

Tick(w, locked) ==
    /\ ReclaimExpiredClaims(w, locked) \/ ClaimDueBatch(w, locked)
    /\ UNCHANGED execVars

Surroundings ==
    /\ \/ Advance
       \/ /\ now < QuietAfter
          /\ \E c \in Cases : Cancel(c) \/ \E until \in DeferTimes : Defer(c, until)
    /\ UNCHANGED execVars

Next ==
    \/ Surroundings
    \/ \E w \in Workers :
        \/ \E locked \in SUBSET Actions : Tick(w, locked)
        \/ Execute(w)
    \/ /\ now < QuietAfter
       /\ \/ \E a \in Actions, verdict \in Verdicts : Decide(a, verdict)
          \/ \E w \in Workers : Die(w)

Spec == Init /\ [][Next]_vars

-----------------------------------------------------------------------------
(* Properties.                                                             *)

\* TR-22, I6: no channel is called, and no cost recorded, for an action
\* without a recorded ALLOW, however often the action was claimed before the
\* decision arrived.
AllowedBeforeSent ==
    \A a \in Actions : sent[a] > 0 \/ charged[a] > 0 => decision[a] = "allow"

\* TR-57 as the code keeps it: a channel is called again only after the first
\* idempotency key of the action has expired.  Up to then no crash, reclaim,
\* deferral or late worker leads to a second call.
ResendOnlyAfterKeyExpiry ==
    \A a \in Actions : sent[a] > 1 => now >= first_grant[a] + KeyTTL

\* TR-27: cost is recorded only for calls that were made, never more often
\* than they were; the gap of a crash in between only ever loses cost.
CostFollowsCall ==
    \A a \in Actions : charged[a] <= sent[a]

\* A call that raised costs nothing (test_a_channel_exception_marks_the_action
\* _failed_without_adding_cost), even when the row changed hands meanwhile.
FailureCostsNothing ==
    \A a \in Actions :
        status[a] = "failed" /\ charged[a] > 0 => now >= first_grant[a] + KeyTTL

\* TR-27 and TR-57 together, over the life of a key: see SideEffect.tla.
Abstract == INSTANCE SideEffect WITH calls <- sent, charges <- charged
AtMostOneSideEffect == Abstract!Spec

-----------------------------------------------------------------------------
(* What comments of the source say and the program does not do.            *)

\* platform/models.py:427-431: executed_at is set exactly when the side effect
\* of the action has run.
ExecutedMeansSent ==
    \A a \in Actions : executed_at[a] # NULL => sent[a] > 0
=============================================================================
