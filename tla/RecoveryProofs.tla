--------------------------- MODULE RecoveryProofs ---------------------------
(***************************************************************************)
(* Proofs about the life of a case, for any number of workers, callers,    *)
(* cases and actions.                                                      *)
(*                                                                         *)
(* A case ends once because every writer of cases.state asks the           *)
(* transition table under the lock, and nothing follows a terminal state.  *)
(* A case that a stopping rule closed has no live row because the rows the *)
(* closing transaction has locked are all that were live (SweepsAll), stay *)
(* locked until it commits (HeldAreLive), and rows appear only while a     *)
(* case is detected (PlannedOnce).  The gate lets an action through once   *)
(* because a worker it cleared is the only one (ClearedOnce).              *)
(***************************************************************************)
EXTENDS Recovery, TLAPS

\* What an actor has in hand fits the place in the code it is at.
Places ==
    /\ \A k \in Callers : at[k] # "idle" =>
        at[k] = "closing" /\ hand[k] \in Cases /\ answer[k] = "caller"
    /\ \A w \in Workers : at[w] # "idle" => hand[w] \in Actions /\ row[hand[w]] # "unplanned"
    /\ \A w \in Workers : at[w] \in {"stopping", "closing"} => answer[w] \in Stopping
    /\ \A w \in Workers : at[w] = "read" => answer[w] \in Answers

\* The rows of a case are inserted by the one step that leaves DETECTED.
PlannedOnce ==
    \A a \in Actions : case[CaseOf[a]] = "detected" => row[a] = "unplanned"

\* A row somebody's open transaction has updated is live and nobody else's, and
\* he is closing a case.
HeldAreLive ==
    /\ \A k \in Actors : held[k] # {} => at[k] = "closing"
    /\ \A k \in Actors : \A a \in held[k] : row[a] \in {"pending", "claimed"}
    /\ \A k, l \in Actors : k # l => held[k] \cap held[l] = {}

\* A stopping rule that is closing a case holds all its live rows.
SweepsAll ==
    \A w \in Workers :
        at[w] = "closing" /\ answer[w] # "promise_to_pay_active"
            => LiveRows(CaseAt(w)) \subseteq held[w]

\* A case without an outcome has no reason either.
NoReasonWithoutEnd ==
    \A c \in Cases : outcome[c].kind = "none" => outcome[c].reason = "none"

\* Of the workers the gate let through with one action, one is left to send it.
ClearedOnce ==
    /\ \A w \in Workers : at[w] = "cleared" =>
        decision[hand[w]] = "allow" /\ sent[hand[w]] = 0
    /\ \A v, w \in Workers :
        at[v] = "cleared" /\ at[w] = "cleared" /\ hand[v] = hand[w] => v = w

IInv ==
    /\ TypeOK
    /\ Places
    /\ PlannedOnce
    /\ HeldAreLive
    /\ SweepsAll
    /\ NoReasonWithoutEnd
    /\ ClearedOnce
    /\ OutcomeTellsTheEnd
    /\ GateLetsThroughOnce
    /\ StoppedCaseIsSwept

-----------------------------------------------------------------------------
(* The transition table and the rules.                                     *)

LEMMA StatesAre ==
    /\ DOMAIN Transitions =
           {"detected", "diagnosing", "abstained", "planned", "awaiting_approval",
            "holdout", "executing", "escalated", "awaiting_outcome"}
    /\ DOMAIN Transitions \cap Terminal = {}
    /\ Terminal = {"recovered", "partially_recovered", "lost", "expired", "suppressed"}
  BY DEF Transitions, Terminal, Recovered

\* Nothing follows a terminal state.
LEMMA TerminalIsFinal ==
    ASSUME NEW arm, NEW from, NEW to, CanMove(arm, from, to)
    PROVE  from \notin Terminal
  BY StatesAre DEF CanMove

\* Only a case that is executing or held out can be resolved by a payment.
LEMMA OnlyOpenResolve ==
    ASSUME NEW c, Resolvable(c)
    PROVE  case[c] \in {"awaiting_outcome", "executing", "holdout"}
  BY StatesAre DEF Resolvable, CanMove, Transitions

LEMMA StoppingIs ==
    Stopping = {"customer_opt_out", "dispute_filed", "already_paid", "max_attempts_reached",
                "max_case_age", "mandate_revoked", "promise_to_pay_active",
                "customer_deceased_or_closed"}
  BY DEF Stopping, StoppingOutcomes

\* Where the rules and a caller send a case.
LEMMA TargetsAre ==
    ASSUME NEW r \in Stopping \cup {"caller"}
    PROVE  /\ Target(r) \in {"none", "suppressed", "lost", "expired", "escalated"}
           /\ r = "caller" => Target(r) = "suppressed"
           /\ r = "promise_to_pay_active" => Target(r) = "none"
  BY StoppingIs DEF Target, StoppingOutcomes, Stopping

\* The first of the stopping rules that hold is one of them.
LEMMA FirstStoppingIs ==
    ASSUME NEW c
    PROVE  FirstStopping(c) \subseteq Stopping
<1> DEFINE hit == {i \in DOMAIN StoppingRules : Holds(StoppingRules[i], c)}
<1>1. hit \subseteq {1, 2, 3, 4, 5, 6, 7, 8}
  BY DEF StoppingRules
<1>2. ASSUME hit # {}
      PROVE  Min(hit) \in hit
  <2>1. \E i \in hit : \A j \in hit : i <= j
    BY <1>1, <1>2
  <2> HIDE DEF hit
  <2> QED
    BY <2>1 DEF Min
<1>3. \A i \in hit : StoppingRules[i] \in Stopping
  BY StoppingIs DEF StoppingRules
<1> QED
  BY <1>2, <1>3 DEF FirstStopping

LEMMA EvaluateIs ==
    ASSUME NEW c
    PROVE  Evaluate(c) \subseteq Answers
  BY FirstStoppingIs DEF Evaluate, Answers
-----------------------------------------------------------------------------
(* Types.                                                                  *)

LEMMA TypesStart == Init => TypeOK
  BY RecoveryConstants, StatesAre
     DEF Init, TypeOK, Actors, Stages, States, RowStatuses, NoOutcome, Stopping

\* The case an actor deals with.
LEMMA CaseAtIs ==
    ASSUME Places
    PROVE  /\ \A k \in Actors : at[k] # "idle" => CaseAt(k) \in Cases
           /\ \A w \in Workers : at[w] # "idle" => CaseAt(w) = CaseOf[hand[w]]
  BY RecoveryConstants DEF Places, CaseAt, Actors

\* Whoever leaves is idle, and what others hold stays theirs.
LEMMA LeaveTypes ==
    ASSUME TypeOK, NEW k \in Actors, Leave(k)
    PROVE  /\ at' \in [Actors -> Stages]
           /\ hand' \in [Actors -> Actions \cup Cases \cup {NULL}]
           /\ answer' \in [Actors -> Answers \cup {"none", "caller"}]
           /\ held' \in [Actors -> SUBSET Actions]
           /\ caseLock' \in [Cases -> Workers \cup {NULL}]
  BY DEF TypeOK, Leave, Goto, Stages

LEMMA TypesHold == TypeOK /\ Places /\ [Next]_vars => TypeOK'
<1> SUFFICES ASSUME TypeOK, Places, [Next]_vars
             PROVE  TypeOK'
  OBVIOUS
<1> USE RecoveryConstants
<1>1. CASE UNCHANGED vars
  BY <1>1 DEF TypeOK, vars, database, actors
<1>2. ASSUME NEW c \in Cases, Plan(c)
      PROVE  TypeOK'
  <2>1. {"awaiting_approval", "executing"} \subseteq States
    BY StatesAre DEF States
  <2> QED
    BY <1>2, <2>1 DEF TypeOK, Plan, RowStatuses, actors
<1>3. ASSUME NEW c \in Cases, NEW r \in Causes, Happen(c, r)
      PROVE  TypeOK'
  BY <1>3 DEF TypeOK, Happen, database, actors
<1>4. ASSUME NEW a \in Actions, Reclaim(a)
      PROVE  TypeOK'
  BY <1>4 DEF TypeOK, Reclaim, RowStatuses, actors
<1>5. ASSUME NEW a \in Actions, NEW w \in Workers, Claim(w, a)
      PROVE  TypeOK'
  BY <1>5 DEF TypeOK, Claim, Goto, Actors, RowStatuses, Stages
<1>6. ASSUME NEW w \in Workers, Work(w)
      PROVE  TypeOK'
  <2>0. w \in Actors /\ (at[w] # "idle" => CaseAt(w) \in Cases)
    BY CaseAtIs DEF Actors
  <2>1. CASE Read(w)
    BY <2>0, <2>1, EvaluateIs DEF TypeOK, Read, Goto, Stages, database
  <2>2. CASE Decide(w)
    <3>1. VerdictOf(answer[w]) \in Verdicts
      BY DEF VerdictOf, Verdicts
    <3>2. decision' \in [Actions -> Verdicts \cup {"none"}]
      BY <2>2, <3>1 DEF TypeOK, Decide
    <3>3. CASE Leave(w)
      BY <2>0, <2>2, <3>2, <3>3, LeaveTypes DEF TypeOK, Decide
    <3>4. CASE UNCHANGED <<hand, answer, held, caseLock>>
                 /\ \E s \in {"cleared", "stopping"} : Goto(w, s)
      BY <2>0, <2>2, <3>2, <3>4 DEF TypeOK, Decide, Goto, Stages
    <3> QED
      BY <2>2, <3>3, <3>4 DEF Decide
  <2>3. CASE DecideTwice(w)
    BY <2>0, <2>3, LeaveTypes DEF TypeOK, DecideTwice, database
  <2>4. CASE ApplyStoppingRule(w)
    BY <2>0, <2>4 DEF TypeOK, ApplyStoppingRule, Sweep, Goto, Stages, database, LiveRows, RowsOf
  <2>5. CASE CallChannel(w)
    <3>1. sent' \in [Actions -> Nat]
      <4>1. \/ sent' = [sent EXCEPT ![hand[w]] = @ + 1]
            \/ sent' = [sent EXCEPT ![hand[w]] = @ + 0]
        BY <2>5 DEF CallChannel
      <4>2. sent \in [Actions -> Nat] /\ hand[w] \in Actions
        BY <2>5 DEF TypeOK, Places, CallChannel
      <4>3. CASE sent' = [sent EXCEPT ![hand[w]] = @ + 1]
        BY <4>2, <4>3
      <4>4. CASE sent' = [sent EXCEPT ![hand[w]] = @ + 0]
        BY <4>2, <4>4
      <4> QED
        BY <4>1, <4>3, <4>4
    <3>2. payment' \in [Actions -> {"none", "captured", "attributed", "unattributed"}]
      <4>1. \/ \E p \in {"none", "captured"} : payment' = [payment EXCEPT ![hand[w]] = p]
            \/ payment' = payment
        BY <2>5 DEF CallChannel
      <4> QED
        BY <4>1 DEF TypeOK
    <3>3. at' \in [Actors -> Stages]
      <4>1. Goto(w, "returned") \/ Goto(w, "raised")
        BY <2>5 DEF CallChannel
      <4> QED
        BY <2>0, <4>1 DEF TypeOK, Goto, Stages
    <3> QED
      BY <2>5, <3>1, <3>2, <3>3 DEF TypeOK, CallChannel
  <2>6. CASE StartRecording(w)
    BY <2>0, <2>6 DEF TypeOK, StartRecording, Goto, Stages, database
  <2>7. CASE FinishRecording(w)
    <3>1. row' \in [Actions -> RowStatuses]
      BY <2>7 DEF TypeOK, FinishRecording, RowStatuses
    <3>2. CASE Leave(w)
      BY <2>0, <2>7, <3>1, <3>2, LeaveTypes DEF TypeOK, FinishRecording
    <3>3. CASE ~Leave(w)
      BY <2>0, <2>7, <3>1, <3>3 DEF TypeOK, FinishRecording, Goto, Stages
    <3> QED
      BY <3>2, <3>3
  <2>8. CASE LoadCandidates(w)
    <3>1. CASE Leave(w)
      BY <2>0, <2>8, <3>1, LeaveTypes DEF TypeOK, LoadCandidates
    <3>2. CASE ~Leave(w)
      BY <2>0, <2>8, <3>2 DEF TypeOK, LoadCandidates, Goto, Stages
    <3> QED
      BY <3>1, <3>2
  <2>9. CASE ResolveCase(w)
    <3>0. PICK kind \in Recovered :
              /\ case' = [case EXCEPT ![CaseAt(w)] = kind]
              /\ outcome' = [outcome EXCEPT ![CaseAt(w)] = [kind |-> kind, reason |-> "payment"]]
      BY <2>9 DEF ResolveCase
    <3>1. /\ case' \in [Cases -> States]
          /\ outcome' \in [Cases -> [kind : Terminal \cup {"none"},
                                     reason : Stopping \cup {"none", "caller", "payment"}]]
      BY <3>0 DEF TypeOK, States, Terminal
    <3> QED
      BY <2>0, <2>9, <3>1, LeaveTypes DEF TypeOK, ResolveCase
  <2>10. CASE RefuseResolve(w)
    BY <2>0, <2>10, LeaveTypes DEF TypeOK, RefuseResolve, database
  <2> QED
    BY <1>6, <2>1, <2>2, <2>3, <2>4, <2>5, <2>6, <2>7, <2>8, <2>9, <2>10 DEF Work
<1>7. ASSUME NEW k \in Callers, NEW c \in Cases, SuppressCase(k, c)
      PROVE  TypeOK'
  BY <1>7 DEF TypeOK, SuppressCase, Sweep, Goto, Actors, Stages, database, LiveRows, RowsOf
<1>8. ASSUME NEW k \in Actors, EndSweep(k)
      PROVE  TypeOK'
  <2>1. CASE CommitSweep(k)
    BY <1>8, <2>1, LeaveTypes DEF TypeOK, CommitSweep, SetHeld, RowStatuses
  <2>2. CASE CloseCase(k)
    <3>1. answer[k] \in Stopping \cup {"caller"}
      BY <2>2 DEF CloseCase, Places, Actors
    <3>2. Target(answer[k]) \in States
      BY <2>2, <3>1, TargetsAre, StatesAre DEF CloseCase, States
    <3>3. /\ case' \in [Cases -> States]
          /\ outcome' \in [Cases -> [kind : Terminal \cup {"none"},
                                     reason : Stopping \cup {"none", "caller", "payment"}]]
      BY <2>2, <3>1, <3>2 DEF TypeOK, CloseCase
    <3> QED
      BY <1>8, <2>2, <3>3, LeaveTypes DEF TypeOK, CloseCase, SetHeld, RowStatuses
  <2>3. CASE RefuseClose(k)
    BY <1>8, <2>3, LeaveTypes DEF TypeOK, RefuseClose, database
  <2> QED
    BY <1>8, <2>1, <2>2, <2>3 DEF EndSweep
<1>9. ASSUME NEW k \in Actors, Crash(k)
      PROVE  TypeOK'
  BY <1>9, LeaveTypes DEF TypeOK, Crash, database
<1>10. ASSUME NEW k \in Actors, NEW w \in Workers, BreakDeadlock(k, w)
       PROVE  TypeOK'
  <2>1. w \in Actors
    BY DEF Actors
  <2> QED
    BY <1>10, <2>1, LeaveTypes DEF TypeOK, BreakDeadlock, database
<1> QED
  BY <1>1, <1>2, <1>3, <1>4, <1>5, <1>6, <1>7, <1>8, <1>9, <1>10 DEF Next
-----------------------------------------------------------------------------
(* What a step does to a row, to a case, and to an actor that is closing.  *)

Live == {"pending", "claimed"}

\* Rows come to life in the step that plans their case, and in no other.
LEMMA RowSteps ==
    ASSUME TypeOK, Places, HeldAreLive, [Next]_vars, NEW a \in Actions
    PROVE  /\ row[a] # "unplanned" => row'[a] # "unplanned"
           /\ row[a] = "unplanned" /\ row'[a] # "unplanned" =>
                  case[CaseOf[a]] = "detected" /\ case'[CaseOf[a]] # "detected"
           /\ row'[a] \in Live =>
                  row[a] \in Live \/ case[CaseOf[a]] = "detected"
<1> DEFINE Goal ==
        /\ row[a] # "unplanned" => row'[a] # "unplanned"
        /\ row[a] = "unplanned" /\ row'[a] # "unplanned" =>
               case[CaseOf[a]] = "detected" /\ case'[CaseOf[a]] # "detected"
        /\ row'[a] \in Live => row[a] \in Live \/ case[CaseOf[a]] = "detected"
<1>0. CaseOf[a] \in Cases
  BY RecoveryConstants
<1>1. CASE UNCHANGED row
  BY <1>1
<1>2. ASSUME NEW c \in Cases, Plan(c)
      PROVE  Goal
  BY <1>0, <1>2 DEF Plan, RowsOf, TypeOK
<1>3. ASSUME NEW b \in Actions, Reclaim(b)
      PROVE  Goal
  BY <1>3 DEF Reclaim, TypeOK, Live
<1>4. ASSUME NEW b \in Actions, NEW w \in Workers, Claim(w, b)
      PROVE  Goal
  BY <1>4 DEF Claim, TypeOK, Live
<1>5. ASSUME NEW w \in Workers, FinishRecording(w)
      PROVE  Goal
  BY <1>5 DEF FinishRecording, TypeOK, Live
<1>6. ASSUME NEW k \in Actors, CommitSweep(k) \/ CloseCase(k)
      PROVE  Goal
  <2>1. \E s \in {"pending", "cancelled"} : SetHeld(k, s)
    BY <1>6 DEF CommitSweep, CloseCase
  <2> QED
    BY <1>6, <2>1 DEF SetHeld, HeldAreLive, TypeOK, Live
<1> QED
  BY <1>1, <1>2, <1>3, <1>4, <1>5, <1>6
     DEF Next, vars, database, Happen, Work, Read, Decide, DecideTwice, ApplyStoppingRule,
         CallChannel, StartRecording, LoadCandidates, ResolveCase, RefuseResolve,
         SuppressCase, EndSweep, RefuseClose, Crash, BreakDeadlock

\* The three writers of cases.state, and that the others leave it alone.
LEMMA CaseWriters ==
    ASSUME [Next]_vars
    PROVE  \/ UNCHANGED <<case, outcome>>
           \/ \E c \in Cases : Plan(c)
           \/ \E k \in Actors : CloseCase(k)
           \/ \E w \in Workers : ResolveCase(w)
  BY DEF Next, vars, database, Happen, Reclaim, Claim, Work, Read, Decide, DecideTwice,
         ApplyStoppingRule, CallChannel, StartRecording, FinishRecording, LoadCandidates,
         RefuseResolve, SuppressCase, EndSweep, CommitSweep, RefuseClose, Crash, BreakDeadlock

\* No step takes a case back to DETECTED, and none touches one that is over.
LEMMA CaseSteps ==
    ASSUME TypeOK, Places, [Next]_vars, NEW c \in Cases
    PROVE  /\ case'[c] = "detected" => case[c] = "detected"
           /\ case[c] \in Terminal => case'[c] = case[c] /\ outcome'[c] = outcome[c]
<1>1. CASE UNCHANGED <<case, outcome>>
  BY <1>1
<1>2. ASSUME NEW d \in Cases, Plan(d)
      PROVE  /\ case'[c] = "detected" => case[c] = "detected"
             /\ case[c] \in Terminal => case'[c] = case[c] /\ outcome'[c] = outcome[c]
  BY <1>2, StatesAre DEF Plan, TypeOK
<1>3. ASSUME NEW k \in Actors, CloseCase(k)
      PROVE  /\ case'[c] = "detected" => case[c] = "detected"
             /\ case[c] \in Terminal => case'[c] = case[c] /\ outcome'[c] = outcome[c]
  <2>1. answer[k] \in Stopping \cup {"caller"}
    BY <1>3 DEF CloseCase, Places, Actors
  <2>2. Target(answer[k]) # "detected"
    BY <2>1, TargetsAre
  <2>3. case[CaseAt(k)] \notin Terminal
    BY <1>3, TerminalIsFinal DEF CloseCase
  <2> QED
    BY <1>3, <2>2, <2>3 DEF CloseCase, TypeOK
<1>4. ASSUME NEW w \in Workers, ResolveCase(w)
      PROVE  /\ case'[c] = "detected" => case[c] = "detected"
             /\ case[c] \in Terminal => case'[c] = case[c] /\ outcome'[c] = outcome[c]
  <2>1. case[CaseAt(w)] \notin Terminal
    BY <1>4, OnlyOpenResolve, StatesAre DEF ResolveCase
  <2> QED
    BY <1>4, <2>1 DEF ResolveCase, TypeOK, Recovered
<1> QED
  BY <1>1, <1>2, <1>3, <1>4, CaseWriters

\* Whoever enters the closing stage swept then; whoever is in it and stays has
\* what he had.
LEMMA ClosingSteps ==
    ASSUME TypeOK, Places, [Next]_vars, NEW k \in Actors, at'[k] = "closing"
    PROVE  \/ at[k] = "closing" /\ UNCHANGED <<hand[k], answer[k], held[k]>>
           \/ k \in Workers /\ ApplyStoppingRule(k)
           \/ k \in Callers /\ \E c \in Cases : SuppressCase(k, c)
<1> DEFINE Goal ==
        \/ at[k] = "closing" /\ UNCHANGED <<hand[k], answer[k], held[k]>>
        \/ k \in Workers /\ ApplyStoppingRule(k)
        \/ k \in Callers /\ \E c \in Cases : SuppressCase(k, c)
<1>0. Workers \subseteq Actors /\ Callers \subseteq Actors
  BY DEF Actors
<1>1. CASE UNCHANGED <<at, hand, answer, held>>
  BY <1>1
<1>2. ASSUME NEW a \in Actions, NEW w \in Workers, Claim(w, a)
      PROVE  Goal
  BY <1>0, <1>2 DEF Claim, Goto, TypeOK
<1>3. ASSUME NEW l \in Actors, Leave(l)
      PROVE  Goal
  BY <1>3 DEF Leave, Goto, TypeOK
<1>4. ASSUME NEW w \in Workers, UNCHANGED <<hand, answer, held>>, NEW s \in Stages \ {"closing"},
             Goto(w, s)
      PROVE  Goal
  BY <1>0, <1>4 DEF Goto, TypeOK
<1>5. ASSUME NEW w \in Workers, ApplyStoppingRule(w)
      PROVE  Goal
  <2>1. CASE k = w
    BY <1>5, <2>1
  <2>2. CASE k # w
    BY <1>0, <1>5, <2>2 DEF ApplyStoppingRule, Sweep, Goto, TypeOK
  <2> QED
    BY <2>1, <2>2
<1>6. ASSUME NEW l \in Callers, NEW c \in Cases, SuppressCase(l, c)
      PROVE  Goal
  <2>1. CASE k = l
    BY <1>6, <2>1
  <2>2. CASE k # l
    BY <1>0, <1>6, <2>2 DEF SuppressCase, Sweep, Goto, TypeOK
  <2> QED
    BY <2>1, <2>2
<1>7. ASSUME NEW w \in Workers, Read(w)
      PROVE  Goal
  BY <1>0, <1>7 DEF Read, Goto, TypeOK
<1>8. ASSUME NEW w \in Workers, Work(w)
      PROVE  Goal
  <2>1. Leave(w) \/ Read(w) \/ ApplyStoppingRule(w)
        \/ (UNCHANGED <<hand, answer, held>> /\ \E s \in Stages \ {"closing"} : Goto(w, s))
    BY <1>8 DEF Work, Decide, DecideTwice, CallChannel, StartRecording, FinishRecording,
                LoadCandidates, ResolveCase, RefuseResolve, Stages
  <2> QED
    BY <1>0, <1>3, <1>4, <1>5, <1>7, <1>8, <2>1
<1>9. ASSUME NEW l \in Actors, EndSweep(l) \/ Crash(l)
      PROVE  Goal
  BY <1>3, <1>9 DEF EndSweep, CommitSweep, CloseCase, RefuseClose, Crash
<1>10. ASSUME NEW l \in Actors, NEW w \in Workers, BreakDeadlock(l, w)
       PROVE  Goal
  BY <1>0, <1>3, <1>10 DEF BreakDeadlock
<1> QED
  BY <1>1, <1>2, <1>6, <1>8, <1>9, <1>10 DEF Next, vars, actors, Plan, Happen, Reclaim
-----------------------------------------------------------------------------
(* The parts of the invariant.                                             *)

LEMMA PlacesHold == TypeOK /\ Places /\ HeldAreLive /\ [Next]_vars => Places'
<1> SUFFICES ASSUME TypeOK, Places, HeldAreLive, [Next]_vars
             PROVE  Places'
  OBVIOUS
<1> DEFINE Fits(k) ==
        /\ k \in Callers /\ at[k] # "idle" =>
               at[k] = "closing" /\ hand[k] \in Cases /\ answer[k] = "caller"
        /\ k \in Workers =>
               /\ at[k] # "idle" => hand[k] \in Actions
               /\ at[k] \in {"stopping", "closing"} => answer[k] \in Stopping
               /\ at[k] = "read" => answer[k] \in Answers
<1>0. /\ Workers \subseteq Actors /\ Callers \subseteq Actors /\ Workers \cap Callers = {}
      /\ Stopping \subseteq Answers
  BY RecoveryConstants DEF Actors, Answers
<1>1. \A k \in Actors : Fits(k)
  BY <1>0 DEF Places
<1>2. ASSUME NEW k \in Actors
      PROVE  Fits(k)'
  <2>1. CASE UNCHANGED <<at, hand, answer>>
    BY <1>1, <2>1
  <2>2. ASSUME NEW a \in Actions, NEW w \in Workers, Claim(w, a)
        PROVE  Fits(k)'
    BY <1>0, <1>1, <2>2 DEF Claim, Goto, TypeOK
  <2>3. ASSUME NEW l \in Actors, Leave(l)
        PROVE  Fits(k)'
    BY <1>1, <2>3 DEF Leave, Goto, TypeOK
  <2>4. ASSUME NEW w \in Workers, Read(w)
        PROVE  Fits(k)'
    <3>1. CASE k = w
      BY <1>0, <1>1, <2>4, <3>1, EvaluateIs DEF Read, Goto, TypeOK
    <3>2. CASE k # w
      BY <1>0, <1>1, <2>4, <3>2 DEF Read, Goto, TypeOK
    <3> QED
      BY <3>1, <3>2
  <2>5. ASSUME NEW w \in Workers, UNCHANGED <<hand, answer>>, at[w] # "idle",
               NEW s \in Stages, Goto(w, s),
               s = "read" => answer[w] \in Answers,
               s \in {"stopping", "closing"} => answer[w] \in Stopping
        PROVE  Fits(k)'
    BY <1>0, <1>1, <2>5 DEF Goto, TypeOK
  <2>6. ASSUME NEW w \in Workers, ApplyStoppingRule(w)
        PROVE  Fits(k)'
    <3>1. answer[w] \in Stopping
      BY <2>6 DEF ApplyStoppingRule, Places
    <3> QED
      BY <2>5, <2>6, <3>1 DEF ApplyStoppingRule, Sweep, Stages
  <2>7. ASSUME NEW l \in Callers, NEW c \in Cases, SuppressCase(l, c)
        PROVE  Fits(k)'
    BY <1>0, <1>1, <2>7 DEF SuppressCase, Sweep, Goto, TypeOK
  <2>8. ASSUME NEW w \in Workers, Work(w)
        PROVE  Fits(k)'
    <3>1. CASE Decide(w)
      <4>1. CASE Leave(w)
        BY <1>0, <2>3, <4>1
      <4>2. CASE ~Leave(w)
        <5>1. UNCHANGED <<hand, answer>> /\ at[w] # "idle"
          BY <3>1, <4>2 DEF Decide
        <5>2. Goto(w, "cleared") \/ (Goto(w, "stopping") /\ answer[w] \in Stopping)
          BY <3>1, <4>2 DEF Decide
        <5> QED
          BY <2>5, <5>1, <5>2 DEF Stages
      <4> QED
        BY <4>1, <4>2
    <3>2. Leave(w) \/ Read(w) \/ Decide(w) \/ ApplyStoppingRule(w)
          \/ (/\ UNCHANGED <<hand, answer>> /\ at[w] # "idle"
              /\ \E s \in Stages \ {"read", "stopping", "closing"} : Goto(w, s))
      BY <2>8 DEF Work, DecideTwice, CallChannel, StartRecording, FinishRecording,
                  LoadCandidates, ResolveCase, RefuseResolve, Stages
    <3> QED
      BY <1>0, <2>3, <2>4, <2>5, <2>6, <3>1, <3>2
  <2>9. ASSUME NEW l \in Actors, EndSweep(l) \/ Crash(l)
        PROVE  Fits(k)'
    BY <2>3, <2>9 DEF EndSweep, CommitSweep, CloseCase, RefuseClose, Crash
  <2>10. ASSUME NEW l \in Actors, NEW w \in Workers, BreakDeadlock(l, w)
         PROVE  Fits(k)'
    BY <1>0, <2>3, <2>10 DEF BreakDeadlock
  <2> QED
    BY <2>1, <2>2, <2>7, <2>8, <2>9, <2>10 DEF Next, vars, actors, Plan, Happen, Reclaim
<1>3. ASSUME NEW w \in Workers, at'[w] # "idle"
      PROVE  row'[hand'[w]] # "unplanned"
  <2>1. CASE at[w] # "idle" /\ hand'[w] = hand[w]
    BY <2>1, RowSteps DEF Places
  <2>2. ASSUME NEW a \in Actions, Claim(w, a)
        PROVE  row'[hand'[w]] # "unplanned"
    BY <1>0, <2>2 DEF Claim, TypeOK
  <2>3. (at[w] # "idle" /\ hand'[w] = hand[w]) \/ \E a \in Actions : Claim(w, a)
    <3>1. ASSUME NEW l \in Actors, Leave(l)
          PROVE  at[w] # "idle" /\ hand'[w] = hand[w]
      BY <1>0, <1>3, <3>1 DEF Leave, Goto, TypeOK
    <3>2. ASSUME NEW v \in Workers, NEW a \in Actions, Claim(v, a), v # w
          PROVE  at[w] # "idle" /\ hand'[w] = hand[w]
      BY <1>0, <1>3, <3>2 DEF Claim, Goto, TypeOK
    <3>3. ASSUME NEW v \in Workers, Work(v), ~Leave(v)
          PROVE  at[w] # "idle" /\ hand'[w] = hand[w]
      <4>1. UNCHANGED hand /\ at[v] # "idle" /\ \E s \in Stages : Goto(v, s)
        BY <3>3 DEF Work, Read, Decide, DecideTwice, ApplyStoppingRule, Sweep, CallChannel,
                    StartRecording, FinishRecording, LoadCandidates, ResolveCase,
                    RefuseResolve, Stages
      <4> QED
        BY <1>0, <1>3, <4>1 DEF Goto, TypeOK
    <3>4. ASSUME NEW l \in Callers, NEW c \in Cases, SuppressCase(l, c)
          PROVE  at[w] # "idle" /\ hand'[w] = hand[w]
      BY <1>0, <1>3, <3>4 DEF SuppressCase, Sweep, Goto, TypeOK
    <3>5. CASE UNCHANGED <<at, hand>>
      BY <1>3, <3>5
    <3> QED
      BY <1>0, <3>1, <3>2, <3>3, <3>4, <3>5
         DEF Next, vars, actors, Plan, Happen, Reclaim, EndSweep, CommitSweep, CloseCase,
             RefuseClose, Crash, BreakDeadlock
  <2> QED
    BY <2>1, <2>2, <2>3
<1> QED
  BY <1>0, <1>2, <1>3 DEF Places

LEMMA PlannedOnceHolds ==
    TypeOK /\ Places /\ HeldAreLive /\ PlannedOnce /\ [Next]_vars => PlannedOnce'
<1> SUFFICES ASSUME TypeOK, Places, HeldAreLive, PlannedOnce, [Next]_vars,
                    NEW a \in Actions, case'[CaseOf[a]] = "detected"
             PROVE  row'[a] = "unplanned"
  BY DEF PlannedOnce
<1>1. CaseOf[a] \in Cases
  BY RecoveryConstants
<1>2. row[a] = "unplanned"
  BY <1>1, CaseSteps DEF PlannedOnce
<1> QED
  BY <1>1, <1>2, RowSteps

\* A step leaves the rows an actor goes on holding alone; what a sweep takes
\* is live and in nobody's hands.
LEMMA HeldSteps ==
    ASSUME TypeOK, Places, HeldAreLive, PlannedOnce, [Next]_vars
    PROVE  \/ \A k \in Actors : /\ held'[k] \in {held[k], {}}
                                /\ \A a \in held'[k] : row'[a] = row[a]
           \/ /\ UNCHANGED row
              /\ \E k \in Actors :
                    /\ \A l \in Actors \ {k} : held'[l] = held[l] /\ held[l] \cap held'[k] = {}
                    /\ \A a \in held'[k] : row[a] \in Live
<1> DEFINE Stays == \A k \in Actors : /\ held'[k] \in {held[k], {}}
                                      /\ \A a \in held'[k] : row'[a] = row[a]
           Takes == /\ UNCHANGED row
                    /\ \E k \in Actors :
                        /\ \A l \in Actors \ {k} :
                               held'[l] = held[l] /\ held[l] \cap held'[k] = {}
                        /\ \A a \in held'[k] : row[a] \in Live
<1>0. Workers \subseteq Actors /\ Callers \subseteq Actors
  BY DEF Actors
<1>1. CASE UNCHANGED <<held, row>>
  BY <1>1
<1>2. ASSUME NEW l \in Actors, Leave(l), UNCHANGED row
      PROVE  Stays
  BY <1>2 DEF Leave, TypeOK
<1>3. ASSUME NEW c \in Cases, Plan(c)
      PROVE  Stays
  <2>1. ASSUME NEW k \in Actors, NEW a \in held[k]
        PROVE  a \in Actions /\ row'[a] = row[a]
    <3>1. a \in Actions /\ row[a] # "unplanned"
      BY DEF HeldAreLive, TypeOK
    <3>2. a \notin RowsOf(c)
      BY <1>3, <3>1 DEF Plan, RowsOf, PlannedOnce
    <3> QED
      BY <1>3, <3>1, <3>2 DEF Plan
  <2> QED
    BY <1>3, <2>1 DEF Plan, actors
<1>4. ASSUME NEW a \in Actions, Reclaim(a)
      PROVE  Stays
  <2>1. \A k \in Actors : \A b \in held[k] : b \in Actions /\ b # a
    BY <1>4 DEF Reclaim, TypeOK
  <2> QED
    BY <1>4, <2>1 DEF Reclaim, actors, TypeOK
<1>5. ASSUME NEW a \in Actions, NEW w \in Workers, Claim(w, a)
      PROVE  Stays
  <2>1. \A k \in Actors : \A b \in held[k] : b \in Actions /\ b # a
    BY <1>5 DEF Claim, Untouched, TypeOK, HeldAreLive
  <2> QED
    BY <1>5, <2>1 DEF Claim, TypeOK
<1>6. ASSUME NEW w \in Workers, FinishRecording(w)
      PROVE  Stays
  <2>1. \A k \in Actors : \A b \in held[k] : b \in Actions /\ b # hand[w]
    BY <1>6 DEF FinishRecording, Untouched, TypeOK, HeldAreLive
  <2>2. \A k \in Actors : held'[k] \in {held[k], {}}
    BY <1>6 DEF FinishRecording, TypeOK, Leave
  <2> QED
    BY <1>6, <2>1, <2>2 DEF FinishRecording, TypeOK
<1>7. ASSUME NEW k \in Actors, NEW c, NEW r, Sweep(k, c, r), UNCHANGED row
      PROVE  Takes
  <2>1. held' = [held EXCEPT ![k] = held'[k]] /\ held'[k] \subseteq LiveRows(c)
    BY <1>7 DEF Sweep, TypeOK
  <2>2. ASSUME NEW l \in Actors \ {k}
        PROVE  held'[l] = held[l] /\ held[l] \cap held'[k] = {}
    BY <1>7, <2>1 DEF Sweep, Untouched, TypeOK
  <2>3. \A a \in held'[k] : row[a] \in Live
    BY <2>1 DEF LiveRows, Live
  <2> QED
    BY <1>7, <2>2, <2>3
<1>8. ASSUME NEW k \in Actors, NEW s, SetHeld(k, s), Leave(k)
      PROVE  Stays
  <2>1. ASSUME NEW l \in Actors, l # k
        PROVE  held'[l] = held[l] /\ \A a \in held[l] : row'[a] = row[a]
    <3>1. held'[l] = held[l] /\ held[l] \cap held[k] = {} /\ held[l] \subseteq Actions
      BY <1>8, <2>1 DEF Leave, TypeOK, HeldAreLive
    <3> QED
      BY <1>8, <3>1 DEF SetHeld
  <2>2. held'[k] = {}
    BY <1>8 DEF Leave, TypeOK
  <2> QED
    BY <2>1, <2>2
<1>9. ASSUME NEW w \in Workers, Work(w)
      PROVE  Stays \/ Takes
  <2>1. \/ UNCHANGED row /\ (UNCHANGED held \/ Leave(w) \/ \E c, r : Sweep(w, c, r))
        \/ FinishRecording(w)
    BY <1>9 DEF Work, Read, Decide, DecideTwice, ApplyStoppingRule, CallChannel, StartRecording,
                LoadCandidates, ResolveCase, RefuseResolve, database
  <2> QED
    BY <1>0, <1>1, <1>2, <1>6, <1>7, <1>9, <2>1
<1>10. ASSUME NEW l \in Callers, NEW c \in Cases, SuppressCase(l, c)
       PROVE  Takes
  BY <1>0, <1>7, <1>10 DEF SuppressCase, database
<1>11. ASSUME NEW k \in Actors, EndSweep(k) \/ Crash(k)
       PROVE  Stays
  <2>1. Leave(k) /\ (UNCHANGED row \/ \E s : SetHeld(k, s))
    BY <1>11 DEF EndSweep, CommitSweep, CloseCase, RefuseClose, Crash, database
  <2> QED
    BY <1>2, <1>8, <2>1
<1>12. ASSUME NEW k \in Actors, NEW w \in Workers, BreakDeadlock(k, w)
       PROVE  Stays
  BY <1>0, <1>2, <1>12 DEF BreakDeadlock, database
<1> QED
  BY <1>1, <1>3, <1>4, <1>5, <1>9, <1>10, <1>11, <1>12
     DEF Next, vars, database, actors, Happen

\* Only an actor that is closing a case holds rows.
LEMMA HeldByClosers ==
    ASSUME TypeOK, Places, HeldAreLive, [Next]_vars, NEW k \in Actors, held'[k] # {}
    PROVE  at'[k] = "closing"
<1>0. Workers \subseteq Actors /\ Callers \subseteq Actors
  BY DEF Actors
<1>1. CASE UNCHANGED <<at, held>>
  BY <1>1 DEF HeldAreLive
<1>2. ASSUME NEW l \in Actors, Leave(l)
      PROVE  at'[k] = "closing"
  BY <1>2 DEF Leave, Goto, TypeOK, HeldAreLive
<1>3. ASSUME NEW w \in Workers, at[w] # "closing", UNCHANGED held, NEW s, Goto(w, s)
      PROVE  at'[k] = "closing"
  BY <1>0, <1>3 DEF Goto, TypeOK, HeldAreLive
<1>4. ASSUME NEW l \in Actors, NEW c, NEW r, Sweep(l, c, r)
      PROVE  at'[k] = "closing"
  <2>1. CASE k = l
    BY <1>4, <2>1 DEF Sweep, Goto, TypeOK
  <2>2. CASE k # l
    BY <1>4, <2>2 DEF Sweep, Goto, TypeOK, HeldAreLive
  <2> QED
    BY <2>1, <2>2
<1>5. ASSUME NEW w \in Workers, Work(w)
      PROVE  at'[k] = "closing"
  <2>1. \/ Leave(w) \/ \E c, r : Sweep(w, c, r)
        \/ at[w] # "closing" /\ UNCHANGED held /\ \E s : Goto(w, s)
    BY <1>5 DEF Work, Read, Decide, DecideTwice, ApplyStoppingRule, CallChannel, StartRecording,
                FinishRecording, LoadCandidates, ResolveCase, RefuseResolve
  <2> QED
    BY <1>0, <1>2, <1>3, <1>4, <1>5, <2>1
<1>6. ASSUME NEW l \in Callers, NEW c \in Cases, SuppressCase(l, c)
      PROVE  at'[k] = "closing"
  BY <1>0, <1>4, <1>6 DEF SuppressCase
<1>7. ASSUME NEW l \in Actors, EndSweep(l) \/ Crash(l)
      PROVE  at'[k] = "closing"
  BY <1>2, <1>7 DEF EndSweep, CommitSweep, CloseCase, RefuseClose, Crash
<1>8. ASSUME NEW l \in Actors, NEW w \in Workers, BreakDeadlock(l, w)
      PROVE  at'[k] = "closing"
  BY <1>0, <1>2, <1>8 DEF BreakDeadlock
<1>9. ASSUME NEW a \in Actions, NEW w \in Workers, Claim(w, a)
      PROVE  at'[k] = "closing"
  BY <1>3, <1>9 DEF Claim
<1> QED
  BY <1>1, <1>5, <1>6, <1>7, <1>8, <1>9 DEF Next, vars, actors, Plan, Happen, Reclaim

LEMMA HeldAreLiveHolds ==
    TypeOK /\ Places /\ HeldAreLive /\ PlannedOnce /\ [Next]_vars => HeldAreLive'
<1> SUFFICES ASSUME TypeOK, Places, HeldAreLive, PlannedOnce, [Next]_vars
             PROVE  HeldAreLive'
  OBVIOUS
<1>1. \A k \in Actors : held'[k] # {} => at'[k] = "closing"
  BY HeldByClosers
<1>2. \A k \in Actors : \A a \in held'[k] : row'[a] \in Live
  BY HeldSteps DEF HeldAreLive, Live
<1>3. \A k, l \in Actors : k # l => held'[k] \cap held'[l] = {}
  BY HeldSteps DEF HeldAreLive
<1> QED
  BY <1>1, <1>2, <1>3 DEF HeldAreLive, Live

LEMMA SweepsAllHolds ==
    TypeOK /\ Places /\ HeldAreLive /\ PlannedOnce /\ SweepsAll /\ [Next]_vars => SweepsAll'
<1> SUFFICES ASSUME TypeOK, Places, HeldAreLive, PlannedOnce, SweepsAll, [Next]_vars,
                    NEW w \in Workers, at'[w] = "closing", answer'[w] # "promise_to_pay_active"
             PROVE  LiveRows(CaseAt(w))' \subseteq held'[w]
  BY DEF SweepsAll
<1>0. w \in Actors /\ w \notin Callers
  BY RecoveryConstants DEF Actors
<1>1. CASE at[w] = "closing" /\ UNCHANGED <<hand[w], answer[w], held[w]>>
  <2>1. hand[w] \in Actions /\ row[hand[w]] # "unplanned"
    BY <1>1 DEF Places
  <2>2. CaseAt(w)' = CaseAt(w) /\ CaseAt(w) = CaseOf[hand[w]]
    BY <1>0, <1>1 DEF CaseAt
  <2>3. LiveRows(CaseAt(w))' \subseteq LiveRows(CaseAt(w))
    BY <2>1, <2>2, RowSteps DEF LiveRows, RowsOf, Live, PlannedOnce
  <2> QED
    BY <1>1, <2>3 DEF SweepsAll
<1>2. CASE ApplyStoppingRule(w)
  <2>1. held'[w] = LiveRows(CaseAt(w))
    BY <1>0, <1>2 DEF ApplyStoppingRule, Sweep, TypeOK
  <2>2. LiveRows(CaseAt(w))' = LiveRows(CaseAt(w))
    BY <1>0, <1>2 DEF ApplyStoppingRule, LiveRows, CaseAt, RowsOf, database
  <2> QED
    BY <2>1, <2>2
<1> QED
  BY <1>0, <1>1, <1>2, ClosingSteps
LEMMA OutcomesHold ==
    TypeOK /\ Places /\ OutcomeTellsTheEnd /\ NoReasonWithoutEnd /\ [Next]_vars
        => OutcomeTellsTheEnd' /\ NoReasonWithoutEnd'
<1> SUFFICES ASSUME TypeOK, Places, OutcomeTellsTheEnd, NoReasonWithoutEnd, [Next]_vars,
                    NEW c \in Cases
             PROVE  /\ outcome'[c].kind = IF case'[c] \in Terminal THEN case'[c] ELSE "none"
                    /\ outcome'[c].kind = "none" => outcome'[c].reason = "none"
  BY DEF OutcomeTellsTheEnd, NoReasonWithoutEnd
<1> DEFINE Goal == /\ outcome'[c].kind = IF case'[c] \in Terminal THEN case'[c] ELSE "none"
                   /\ outcome'[c].kind = "none" => outcome'[c].reason = "none"
<1>0. /\ outcome[c].kind = IF case[c] \in Terminal THEN case[c] ELSE "none"
      /\ outcome[c].kind = "none" => outcome[c].reason = "none"
  BY DEF OutcomeTellsTheEnd, NoReasonWithoutEnd
<1>1. CASE UNCHANGED <<case, outcome>>
  BY <1>0, <1>1
<1>2. ASSUME NEW d \in Cases, Plan(d)
      PROVE  Goal
  <2>1. case'[c] = case[c] \/ (case[c] = "detected" /\ case'[c] \in {"awaiting_approval", "executing"})
    BY <1>2 DEF Plan, TypeOK
  <2> QED
    BY <1>0, <1>2, <2>1, StatesAre DEF Plan
<1>3. ASSUME NEW k \in Actors, CloseCase(k)
      PROVE  Goal
  <2>1. case[CaseAt(k)] \notin Terminal
    BY <1>3, TerminalIsFinal DEF CloseCase
  <2>2. Target(answer[k]) # "none"
    BY <1>3 DEF CloseCase
  <2>3. CASE c = CaseAt(k)
    <3>1. case'[c] = Target(answer[k])
      BY <1>3, <2>3 DEF CloseCase, TypeOK
    <3>2. outcome'[c] = IF Target(answer[k]) \in Terminal
                        THEN [kind |-> Target(answer[k]), reason |-> answer[k]] ELSE outcome[c]
      BY <1>3, <2>3 DEF CloseCase, TypeOK
    <3> QED
      BY <1>0, <2>1, <2>2, <2>3, <3>1, <3>2
  <2>4. CASE c # CaseAt(k)
    BY <1>0, <1>3, <2>4 DEF CloseCase, TypeOK
  <2> QED
    BY <2>3, <2>4
<1>4. ASSUME NEW w \in Workers, ResolveCase(w)
      PROVE  Goal
  <2>1. PICK kind \in Recovered :
            /\ case' = [case EXCEPT ![CaseAt(w)] = kind]
            /\ outcome' = [outcome EXCEPT ![CaseAt(w)] = [kind |-> kind, reason |-> "payment"]]
    BY <1>4 DEF ResolveCase
  <2>2. kind \in Terminal /\ kind # "none"
    BY StatesAre DEF Terminal, Recovered
  <2>3. case \in [Cases -> States] /\ DOMAIN outcome = Cases
    BY DEF TypeOK
  <2> QED
    BY <1>0, <2>1, <2>2, <2>3
<1> QED
  BY <1>1, <1>2, <1>3, <1>4, CaseWriters

LEMMA SweptHolds == IInv /\ [Next]_vars => StoppedCaseIsSwept'
<1> SUFFICES ASSUME IInv, [Next]_vars, NEW c \in Cases,
                    case'[c] = "escalated" \/ outcome'[c].reason \in Stopping
             PROVE  LiveRows(c)' = {}
  BY DEF StoppedCaseIsSwept
<1> USE DEF IInv
<1>1. CASE case[c] = "escalated" \/ outcome[c].reason \in Stopping
  <2>1. case[c] # "detected"
    <3>1. CASE case[c] = "escalated"
      BY <3>1
    <3>2. CASE outcome[c].reason \in Stopping
      <4>1. outcome[c].kind # "none"
        BY <3>2, StoppingIs DEF NoReasonWithoutEnd
      <4> QED
        BY <4>1, StatesAre DEF OutcomeTellsTheEnd
    <3> QED
      BY <1>1, <3>1, <3>2
  <2>2. LiveRows(c) = {}
    BY <1>1 DEF StoppedCaseIsSwept
  <2> QED
    BY <2>1, <2>2, RowSteps DEF LiveRows, RowsOf, Live
<1>2. CASE ~(case[c] = "escalated" \/ outcome[c].reason \in Stopping)
  <2>1. ASSUME NEW d \in Cases, Plan(d)
        PROVE  FALSE
    BY <1>2, <2>1 DEF Plan, TypeOK
  <2>2. ASSUME NEW w \in Workers, ResolveCase(w)
        PROVE  FALSE
    <3>1. PICK kind \in Recovered :
              /\ case' = [case EXCEPT ![CaseAt(w)] = kind]
              /\ outcome' = [outcome EXCEPT ![CaseAt(w)] = [kind |-> kind, reason |-> "payment"]]
      BY <2>2 DEF ResolveCase
    <3>2. "payment" \notin Stopping /\ kind # "escalated"
      BY StoppingIs DEF Recovered
    <3>3. DOMAIN case = Cases /\ DOMAIN outcome = Cases
      BY DEF TypeOK
    <3> QED
      BY <1>2, <3>1, <3>2, <3>3
  <2>3. PICK k \in Actors : CloseCase(k)
    BY <1>2, <2>1, <2>2, CaseWriters
  <2>4. c = CaseAt(k)
    BY <1>2, <2>3 DEF CloseCase, TypeOK
  <2>5. k \in Workers
    <3>1. CASE k \in Callers
      <4>1. answer[k] = "caller" /\ "caller" \notin Stopping
        BY <2>3, <3>1, StoppingIs DEF CloseCase, Places
      <4>2. case'[c] = "suppressed" /\ outcome'[c].reason = "caller"
        BY <2>3, <2>4, <4>1, TargetsAre, StatesAre DEF CloseCase, TypeOK
      <4> QED
        BY <4>1, <4>2
    <3> QED
      BY <3>1 DEF Actors
  <2>6. LiveRows(c) \subseteq held[k]
    <3>1. answer[k] # "promise_to_pay_active" /\ at[k] = "closing"
      BY <2>3, TargetsAre, StoppingIs DEF CloseCase
    <3> QED
      BY <2>4, <2>5, <3>1 DEF SweepsAll
  <2>7. row' = [a \in Actions |-> IF a \in held[k] THEN "cancelled" ELSE row[a]]
    BY <2>3 DEF CloseCase, SetHeld
  <2> QED
    BY <2>6, <2>7 DEF LiveRows, RowsOf
<1> QED
  BY <1>1, <1>2

-----------------------------------------------------------------------------
(* The gate lets an action through once.                                   *)

LEMMA GateHolds ==
    TypeOK /\ Places /\ ClearedOnce /\ GateLetsThroughOnce /\ [Next]_vars
        => ClearedOnce' /\ GateLetsThroughOnce'
<1> SUFFICES ASSUME TypeOK, Places, ClearedOnce, GateLetsThroughOnce, [Next]_vars
             PROVE  ClearedOnce' /\ GateLetsThroughOnce'
  OBVIOUS
<1>0. Workers \subseteq Actors
  BY DEF Actors
\* Nobody is newly cleared, and whoever stays cleared has the same action.
<1> DEFINE NobodyNew == \A w \in Workers : at'[w] = "cleared" => at[w] = "cleared" /\ hand'[w] = hand[w]
<1>1. ASSUME NobodyNew, UNCHANGED <<decision, sent>>
      PROVE  ClearedOnce' /\ GateLetsThroughOnce'
  BY <1>1 DEF ClearedOnce, GateLetsThroughOnce
<1>2. CASE UNCHANGED <<at, hand, decision, sent>>
  BY <1>1, <1>2
<1>3. ASSUME NEW k \in Actors, Leave(k)
      PROVE  NobodyNew
  BY <1>0, <1>3 DEF Leave, Goto, TypeOK
<1>4. ASSUME NEW w \in Workers, UNCHANGED hand, NEW s, s # "cleared", Goto(w, s)
      PROVE  NobodyNew
  BY <1>0, <1>4 DEF Goto, TypeOK
<1>5. ASSUME NEW a \in Actions, NEW w \in Workers, Claim(w, a)
      PROVE  NobodyNew /\ UNCHANGED <<decision, sent>>
  BY <1>0, <1>5 DEF Claim, Goto, TypeOK
<1>6. ASSUME NEW k \in Callers, NEW c \in Cases, SuppressCase(k, c)
      PROVE  NobodyNew /\ UNCHANGED <<decision, sent>>
  BY <1>0, <1>6, RecoveryConstants DEF SuppressCase, Sweep, Goto, TypeOK, database
<1>7. ASSUME NEW w \in Workers, Decide(w)
      PROVE  ClearedOnce' /\ GateLetsThroughOnce'
  <2> DEFINE a == hand[w]
  <2>1. /\ a \in Actions /\ decision[a] = "none" /\ sent' = sent
        /\ decision' = [decision EXCEPT ![a] = VerdictOf(answer[w])]
    BY <1>7 DEF Decide, Places
  <2>2. sent[a] = 0
    <3>1. sent[a] \in Nat
      BY <2>1 DEF TypeOK
    <3>2. sent[a] <= 1 /\ sent[a] # 1
      BY <2>1 DEF GateLetsThroughOnce
    <3> QED
      BY <3>1, <3>2
  <2>3. \A v \in Workers : at[v] = "cleared" => hand[v] # a
    BY <2>1 DEF ClearedOnce
  <2>4. GateLetsThroughOnce'
    BY <2>1, <2>2 DEF GateLetsThroughOnce, TypeOK
  <2>5. CASE Leave(w)
    <3>1. NobodyNew
      BY <1>0, <1>3, <2>5
    <3> QED
      BY <2>1, <2>3, <2>4, <3>1 DEF ClearedOnce, TypeOK
  <2>6. CASE UNCHANGED hand /\ Goto(w, "stopping")
    <3>1. NobodyNew
      BY <1>4, <2>6
    <3> QED
      BY <2>1, <2>3, <2>4, <3>1 DEF ClearedOnce, TypeOK
  <2>7. CASE UNCHANGED hand /\ Goto(w, "cleared") /\ answer[w] = "allow"
    <3>1. decision'[a] = "allow" /\ \A b \in Actions \ {a} : decision'[b] = decision[b]
      BY <2>1, <2>7 DEF VerdictOf, TypeOK
    <3>2. \A v \in Workers : at'[v] = "cleared" => v = w \/ at[v] = "cleared"
      BY <1>0, <2>7 DEF Goto, TypeOK
    <3>3. \A v \in Workers : at[v] = "cleared" => hand[v] \in Actions
      BY DEF Places
    <3>4. ClearedOnce'
      BY <2>1, <2>2, <2>3, <2>7, <3>1, <3>2, <3>3 DEF ClearedOnce
    <3> QED
      BY <2>4, <3>4
  <2> QED
    BY <1>7, <2>5, <2>6, <2>7 DEF Decide
<1>8. ASSUME NEW w \in Workers, CallChannel(w)
      PROVE  ClearedOnce' /\ GateLetsThroughOnce'
  <2> DEFINE a == hand[w]
  <2>1. /\ a \in Actions /\ decision[a] = "allow" /\ sent[a] = 0
        /\ UNCHANGED <<hand, decision>>
    BY <1>8 DEF CallChannel, Places, ClearedOnce
  <2>2. \/ sent' = [sent EXCEPT ![a] = @ + 1]
        \/ sent' = [sent EXCEPT ![a] = @ + 0]
    BY <1>8 DEF CallChannel
  <2>3. /\ sent'[a] \in {0, 1}
        /\ \A b \in Actions \ {a} : sent'[b] = sent[b]
    BY <2>1, <2>2 DEF TypeOK
  <2>4. GateLetsThroughOnce'
    BY <2>1, <2>3 DEF GateLetsThroughOnce
  <2>5. Goto(w, "returned") \/ Goto(w, "raised")
    BY <1>8 DEF CallChannel
  <2>6. \A v \in Workers : at'[v] = "cleared" => v # w /\ at[v] = "cleared"
    BY <1>0, <2>5 DEF Goto, TypeOK
  <2>7. \A v \in Workers : at'[v] = "cleared" => hand[v] \in Actions \ {a}
    BY <1>8, <2>6 DEF CallChannel, Places, ClearedOnce
  <2> QED
    BY <2>1, <2>3, <2>4, <2>6, <2>7 DEF ClearedOnce
<1>9. ASSUME NEW w \in Workers, Work(w)
      PROVE  ClearedOnce' /\ GateLetsThroughOnce'
  <2>1. \/ Decide(w) \/ CallChannel(w)
        \/ /\ UNCHANGED <<decision, sent>>
           /\ Leave(w) \/ (UNCHANGED hand /\ \E s : s # "cleared" /\ Goto(w, s))
    BY <1>9 DEF Work, Read, DecideTwice, ApplyStoppingRule, Sweep, StartRecording,
                FinishRecording, LoadCandidates, ResolveCase, RefuseResolve, database
  <2> QED
    BY <1>0, <1>1, <1>3, <1>4, <1>7, <1>8, <1>9, <2>1
<1>10. ASSUME NEW k \in Actors, EndSweep(k) \/ Crash(k)
       PROVE  ClearedOnce' /\ GateLetsThroughOnce'
  <2>1. Leave(k) /\ UNCHANGED <<decision, sent>>
    BY <1>10 DEF EndSweep, CommitSweep, CloseCase, RefuseClose, Crash, database
  <2> QED
    BY <1>1, <1>3, <2>1
<1>11. ASSUME NEW k \in Actors, NEW w \in Workers, BreakDeadlock(k, w)
       PROVE  ClearedOnce' /\ GateLetsThroughOnce'
  BY <1>0, <1>1, <1>3, <1>11 DEF BreakDeadlock, database
<1> QED
  BY <1>1, <1>2, <1>5, <1>6, <1>9, <1>10, <1>11
     DEF Next, vars, database, actors, Plan, Happen, Reclaim

-----------------------------------------------------------------------------
(* The theorems.                                                           *)

LEMMA Starts == Init => IInv
<1> SUFFICES ASSUME Init
             PROVE  IInv
  OBVIOUS
<1>1. TypeOK
  BY TypesStart
<1>2. "detected" \notin Terminal /\ "none" \notin Stopping
  BY StatesAre, StoppingIs
<1>3. CaseOf \in [Actions -> Cases] /\ Workers \subseteq Actors /\ Callers \subseteq Actors
  BY RecoveryConstants DEF Actors
<1>4. Places /\ PlannedOnce /\ HeldAreLive /\ SweepsAll /\ ClearedOnce
  BY <1>3 DEF Init, Places, PlannedOnce, HeldAreLive, SweepsAll, ClearedOnce
<1>5. NoReasonWithoutEnd /\ OutcomeTellsTheEnd /\ GateLetsThroughOnce
  BY <1>2 DEF Init, NoOutcome, NoReasonWithoutEnd, OutcomeTellsTheEnd, GateLetsThroughOnce
<1>6. StoppedCaseIsSwept
  BY <1>2 DEF Init, NoOutcome, StoppedCaseIsSwept
<1> QED
  BY <1>1, <1>4, <1>5, <1>6 DEF IInv

LEMMA Continues == IInv /\ [Next]_vars => IInv'
  BY TypesHold, PlacesHold, PlannedOnceHolds, HeldAreLiveHolds, SweepsAllHolds, OutcomesHold,
     SweptHolds, GateHolds
     DEF IInv

\* The inductive invariant, which the theorems below read their properties from.
LEMMA Invariance == Spec => []IInv
  BY Starts, Continues, PTL DEF Spec

\* The variables have the types of the columns and the places in the code, for
\* any number of workers, callers, cases and actions.
THEOREM TypeCorrect == Spec => []TypeOK
<1>1. IInv => TypeOK
  BY DEF IInv
<1> QED
  BY <1>1, Invariance, PTL

\* I1: whatever races for the end of a case, the first commit decides; state and
\* outcome of a case that is over never change (domain/case.py, the lock in
\* stopping.py and engine.py).
THEOREM CasesEndOnce == Spec => EndsOnce
<1>1. IInv /\ [Next]_vars =>
          [\A c \in Cases : case[c] \in Terminal =>
               case'[c] = case[c] /\ outcome'[c] = outcome[c]]_vars
  BY CaseSteps DEF IInv
<1> QED
  BY <1>1, Invariance, PTL DEF Spec, EndsOnce

\* A case has an outcomes row exactly when it is over, and the row says how.
THEOREM OutcomesCorrect == Spec => []OutcomeTellsTheEnd
<1>1. IInv => OutcomeTellsTheEnd
  BY DEF IInv
<1> QED
  BY <1>1, Invariance, PTL

\* UNIQUE (action_id, attempt) is enough for one channel call per action: crashes,
\* reclaims and second workers never get a second one through the gate.
THEOREM GateCorrect == Spec => []GateLetsThroughOnce
<1>1. IInv => GateLetsThroughOnce
  BY DEF IInv
<1> QED
  BY <1>1, Invariance, PTL

\* A case that a stopping rule closed or escalated has no live row and never gets
\* one, although other workers have rows of it in hand.
THEOREM StoppedStaysSwept == Spec => []StoppedCaseIsSwept
<1>1. IInv => StoppedCaseIsSwept
  BY DEF IInv
<1> QED
  BY <1>1, Invariance, PTL
=============================================================================
