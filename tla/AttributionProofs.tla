------------------------- MODULE AttributionProofs -------------------------
(***************************************************************************)
(* Proofs about attribution, for any number of runs, payments and cases.   *)
(*                                                                         *)
(* A run reads without locks and commits later.  What it still knows at    *)
(* its commit: the winner is open, because it holds the cases row          *)
(* (InHand), and an open case has no payment yet (OpenIsUnpaid); each      *)
(* match is explained by an execution or an opening, which stay what they  *)
(* were (Promised); what it locked is younger than its winner (LocksAge);  *)
(* a payment that got a case meanwhile was in two hands (Late); and who    *)
(* shares a cases row is one of those that resolve it (LocksKept).         *)
(***************************************************************************)
EXTENDS Attribution, WellFoundedInduction, FiniteSetTheorems, SequenceTheorems, TLAPS

\* A run has a captured payment, someone to deal with, and its winner locked.
InHand ==
    \A r \in Runs :
        /\ IF at[r] = "idle" THEN pay[r] = NULL
           ELSE pay[r] \in Payments /\ captured[pay[r]] \in Nat
        /\ at[r] \in {"idle", "read", "found"} => todo[r] = <<>>
        /\ at[r] \in {"upserting", "upserted"} => todo[r] # <<>>
        /\ at[r] = "resolved" =>
               won[r] \in Cases /\ caseLock[won[r]] = r /\ case[won[r]] \in Eligible

\* A case without a payment's outcome has no payment.
OpenIsUnpaid == \A c \in Cases : case[c] \notin Recovered => outcome[c].payment = NULL

\* A held-out case is one nobody has acted on.
HeldOutIsIdle == \A c \in Cases : case[c] \in {"detected", "holdout"} => executed[c] = {}

\* Why a payment belongs to a case: an execution, or its opening if there was
\* none and will be none.
Explained(p, c) ==
    \/ \E t \in executed[c] : captured[p] \in t..(t + Window)
    \/ /\ executed[c] = {} /\ case[c] \notin {"detected", "executing"}
       /\ captured[p] \in Opened[c]..(Opened[c] + Window)

\* The matches a run has not let go of.
InTodo(r) ==
    {c \in Cases : (\E i \in DOMAIN todo[r] : todo[r][i] = c) \/ (at[r] = "resolved" /\ won[r] = c)}

\* What a run saw held out is idle for good, and its matches are explained.
Promised ==
    \A r \in Runs :
        /\ \A u \in found[r] : u[2] = "holdout" =>
               executed[u[1]] = {} /\ case[u[1]] \notin {"detected", "executing"}
        /\ at[r] # "idle" => \A c \in InTodo(r) : Explained(pay[r], c)

CreditsExplained == \A p \in Payments : \A c \in CreditsOf(p) : Explained(p, c)

\* The locks a run holds are its winner's and of younger cases, older than what
\* it has still to do, which is in order.
LocksAge ==
    \A r \in Runs :
        /\ \A i, j \in DOMAIN todo[r] : i < j => Older(todo[r][i], todo[r][j])
        /\ \A c \in Cases : caseLock[c] = r =>
               /\ at[r] = "resolved"
               /\ c = won[r] \/ Older(won[r], c)
               /\ \A i \in DOMAIN todo[r] : Older(c, todo[r][i])

\* Who has written the payments row is at one of the cases, and who shares a
\* cases row is about to resolve that case or has.
LocksKept ==
    \A r \in Runs :
        /\ \A p \in Payments : payLock[p] = r => at[r] \in {"upserting", "upserted", "resolved"}
        /\ \A c \in Cases : r \in sharing[c] =>
               \/ at[r] = "upserted" /\ Head(todo[r]) = c
               \/ at[r] = "resolved" /\ won[r] = c

\* Two runs that have one payment in hand now have overlapped.
Raced ==
    \A r, s \in Runs :
        r # s /\ pay[r] = pay[s] /\ pay[r] \in Payments => pay[r] \in overlapped

\* A payment in hand that has its case by now got it from another run.
Late ==
    \A r \in Runs :
        pay[r] \in Payments /\ CreditsOf(pay[r]) # {} => pay[r] \in overlapped

\* CreditedOnceUnlessRaced without a cardinality.
OneCreditUnlessRaced ==
    \A p \in Payments : \A c, d \in CreditsOf(p) : c = d \/ p \in overlapped

IInv ==
    /\ TypeOK
    /\ InHand
    /\ OpenIsUnpaid
    /\ HeldOutIsIdle
    /\ Promised
    /\ CreditsExplained
    /\ LocksAge
    /\ LocksKept
    /\ Raced
    /\ Late
    /\ OneCreditUnlessRaced
    /\ CreditIsMutual
    /\ LosersLoseToOlder

-----------------------------------------------------------------------------
(* Numbers, and the order of the cases.                                    *)

\* A set of natural numbers has a least element.
LEMMA LeastNat ==
    ASSUME NEW T, T \subseteq Nat, T # {}
    PROVE  \E x \in T : \A y \in T : x <= y
<1>1. \E x \in T : \A y \in T : ~(<<y, x>> \in OpToRel(<, Nat))
  BY WFMin, NatLessThanWellFounded
<1>2. \A x, y \in T : ~(<<y, x>> \in OpToRel(<, Nat)) => x <= y
  BY DEF OpToRel
<1> QED
  BY <1>1, <1>2

\* The latest of some executions is one of them.
LEMMA MaxIsOne ==
    ASSUME NEW n \in Nat, NEW S \in SUBSET (0..n), S # {}
    PROVE  Max(S) \in S
<1> DEFINE T == {n - x : x \in S}
<1>1. T \subseteq Nat /\ T # {}
  <2>1. \A x \in S : n - x \in Nat
    OBVIOUS
  <2>2. \E x : x \in S
    OBVIOUS
  <2> QED
    BY <2>1, <2>2
<1>2. \E t \in T : \A u \in T : t <= u
  <2> HIDE DEF T
  <2> QED
    BY <1>1, LeastNat
<1>3. \E x \in S : \A y \in S : n - x <= n - y
  BY <1>2
<1>4. \E x \in S : \A y \in S : y <= x
  BY <1>3
<1> QED
  BY <1>4 DEF Max

LEMMA OlderIsAnOrder ==
    ASSUME NEW c \in Cases, NEW d \in Cases
    PROVE  /\ ~Older(c, c)
           /\ c # d => Older(c, d) \/ Older(d, c)
           /\ \A e \in Cases : Older(c, d) /\ Older(d, e) => Older(c, e)
  BY AttributionConstants DEF Older

\* What the matcher returns is a sequence of the matches in order.
LEMMA OrderedIs ==
    ASSUME NEW S \in SUBSET Cases, NEW s \in Ordered(S)
    PROVE  /\ s \in Seq(Cases)
           /\ \A i \in DOMAIN s : s[i] \in S
           /\ \A i, j \in DOMAIN s : i < j => Older(s[i], s[j])
<1>1. Cardinality(S) \in Nat
  BY AttributionConstants, FS_Subset, FS_CardinalityType
<1> QED
  BY <1>1 DEF Ordered

LEMMA EligibleIs ==
    /\ Eligible \subseteq States
    /\ Recovered = {"recovered", "partially_recovered"} /\ Recovered \subseteq States
    /\ Closed \subseteq States
    /\ {"detected", "executing", "holdout"} \subseteq States
    /\ Eligible \cap Recovered = {} /\ Closed \cap Recovered = {}
    /\ "detected" \notin Eligible \cup Closed \cup Recovered
  BY DEF Eligible, States, Transitions, Terminal, Recovered, Closed

LEMMA ResolvableIs ==
    ASSUME NEW c, Resolvable(c)
    PROVE  case[c] \in Eligible
  BY DEF Resolvable, CanMove, Transitions, Eligible

-----------------------------------------------------------------------------
(* Types.                                                                  *)

LEMMA TypesStart == Init => TypeOK
  BY AttributionConstants, EligibleIs, EmptySeq
     DEF Init, TypeOK, NoOutcome, Stages

LEMMA LeaveTypes ==
    ASSUME TypeOK, NEW r \in Runs, Leave(r)
    PROVE  /\ at' \in [Runs -> Stages]
           /\ pay' \in [Runs -> Payments \cup {NULL}]
           /\ found' \in [Runs -> SUBSET (Cases \X States)]
           /\ todo' \in [Runs -> Seq(Cases)]
           /\ won' \in [Runs -> Cases \cup {NULL}]
           /\ payLock' \in [Payments -> Runs \cup {NULL}]
           /\ sharing' \in [Cases -> SUBSET Runs]
           /\ caseLock' \in [Cases -> Runs \cup {NULL}]
<1>1. <<>> \in Seq(Cases)
  BY EmptySeq
<1> QED
  BY <1>1 DEF TypeOK, Leave, Goto, Stages

\* The matches of a run are cases, and what it goes on with is a sequence of them.
LEMMA TodoTypes ==
    ASSUME TypeOK, NEW r \in Runs, todo[r] # <<>>
    PROVE  /\ Head(todo[r]) \in Cases /\ Tail(todo[r]) \in Seq(Cases)
           /\ DOMAIN todo[r] = 1..Len(todo[r]) /\ Len(todo[r]) \in Nat \ {0}
           /\ Head(todo[r]) = todo[r][1]
           /\ DOMAIN Tail(todo[r]) = 1..(Len(todo[r]) - 1)
           /\ \A i \in 1..(Len(todo[r]) - 1) : Tail(todo[r])[i] = todo[r][i + 1]
<1>1. todo[r] \in Seq(Cases)
  BY DEF TypeOK
<1> QED
  BY <1>1, HeadTailProperties

LEMMA MatchesAre ==
    ASSUME NEW p, NEW seen \in SUBSET (Cases \X States)
    PROVE  Matches(p, seen) \in SUBSET Cases
  BY DEF Matches

LEMMA TypesHold == TypeOK /\ InHand /\ [Next]_vars => TypeOK'
<1> SUFFICES ASSUME TypeOK, InHand, [Next]_vars
             PROVE  TypeOK'
  OBVIOUS
<1> USE AttributionConstants
<1>1. CASE UNCHANGED vars
  BY <1>1 DEF TypeOK, vars, database, runVars
<1>2. CASE Advance
  BY <1>2 DEF TypeOK, Advance, database, runVars
<1>3. ASSUME NEW c \in Cases, Start(c)
      PROVE  TypeOK'
  <2>1. case' \in [Cases -> States]
    BY <1>3, EligibleIs DEF TypeOK, Start
  <2> QED
    BY <1>3, <2>1 DEF TypeOK, Start, runVars
<1>4. ASSUME NEW c \in Cases, MarkDone(c)
      PROVE  TypeOK'
  BY <1>4 DEF TypeOK, MarkDone, runVars
<1>5. ASSUME NEW c \in Cases, CloseCase(c)
      PROVE  TypeOK'
  <2>1. case' \in [Cases -> States]
    BY <1>5, EligibleIs DEF TypeOK, CloseCase
  <2>2. outcome' \in [Cases -> [kind : Recovered \cup {"none", "expired"},
                                payment : Payments \cup {NULL}]]
    <3>1. PICK s \in Closed :
              outcome' = [outcome EXCEPT ![c].kind = IF s \in Terminal THEN s ELSE @]
      BY <1>5 DEF CloseCase
    <3>2. s \in Terminal => s = "expired"
      BY DEF Closed, Terminal, Recovered
    <3>3. outcome \in [Cases -> [kind : Recovered \cup {"none", "expired"},
                                 payment : Payments \cup {NULL}]]
      BY DEF TypeOK
    <3> DEFINE v == IF s \in Terminal THEN s ELSE outcome[c].kind
    <3>4. v \in Recovered \cup {"none", "expired"}
      BY <3>2, <3>3
    <3>5. outcome' = [outcome EXCEPT ![c].kind = v]
      BY <3>1
    <3> HIDE DEF v
    <3> QED
      BY <3>3, <3>4, <3>5
  <2> QED
    BY <1>5, <2>1, <2>2 DEF TypeOK, CloseCase, runVars
<1>6. ASSUME NEW p \in Payments, Capture(p)
      PROVE  TypeOK'
  BY <1>6 DEF TypeOK, Capture, runVars
<1>7. ASSUME NEW r \in Runs, AttributePayment(r)
      PROVE  TypeOK'
  <2>1. ASSUME NEW p \in Payments, ReadPayment(r, p)
        PROVE  TypeOK'
    BY <2>1 DEF TypeOK, ReadPayment, Goto, Stages, database
  <2>2. CASE LoadCases(r)
    <3>1. {<<c, case[c]>> : c \in {d \in Cases : case[d] \in Eligible}} \subseteq Cases \X States
      BY DEF TypeOK
    <3> QED
      BY <2>2, <3>1 DEF TypeOK, LoadCases, Goto, Stages, database
  <2>3. CASE Match(r)
    <3>1. Matches(pay[r], found[r]) \in SUBSET Cases
      BY MatchesAre DEF TypeOK
    <3>2. PICK s \in Ordered(Matches(pay[r], found[r])) : todo' = [todo EXCEPT ![r] = s]
      BY <2>3 DEF Match
    <3>4. s \in Seq(Cases)
      BY <3>1, OrderedIs
    <3>3. todo' \in [Runs -> Seq(Cases)]
      BY <3>2, <3>4 DEF TypeOK
    <3> QED
      BY <2>3, <3>3 DEF TypeOK, Match, Goto, Stages, database
  <2>4. CASE RecordUnmatched(r)
    BY <2>4, LeaveTypes DEF TypeOK, RecordUnmatched
  <2>5. CASE Upsert(r)
    BY <2>5 DEF TypeOK, Upsert, Goto, Stages, database
  <2>6. CASE ShareWinner(r)
    BY <2>6 DEF TypeOK, ShareWinner, Goto, Stages, database
  <2>7. CASE ResolveCase(r)
    <3>1. todo[r] # <<>>
      BY <2>7 DEF ResolveCase, InHand
    <3> QED
      BY <2>7, <3>1, TodoTypes DEF TypeOK, ResolveCase, Goto, Stages, database
  <2>8. CASE RefuseResolve(r)
    BY <2>8, LeaveTypes DEF TypeOK, RefuseResolve, database
  <2>9. CASE RecordAmbiguity(r)
    BY <2>9, TodoTypes DEF TypeOK, RecordAmbiguity, database
  <2>10. CASE Commit(r)
    <3>1. won[r] \in Cases /\ pay[r] \in Payments
      BY <2>10 DEF Commit, InHand
    <3>2. Kind(pay[r], won[r]) \in Recovered
      BY DEF Kind, Recovered
    <3>3. Losers(r) \subseteq Cases
      BY DEF Losers
    <3> QED
      BY <2>10, <3>1, <3>2, <3>3, LeaveTypes, EligibleIs DEF TypeOK, Commit
  <2> QED
    BY <1>7, <2>1, <2>2, <2>3, <2>4, <2>5, <2>6, <2>7, <2>8, <2>9, <2>10 DEF AttributePayment
<1>8. ASSUME NEW r \in Runs, Crash(r)
      PROVE  TypeOK'
  BY <1>8, LeaveTypes DEF TypeOK, Crash, database
<1> QED
  BY <1>1, <1>2, <1>3, <1>4, <1>5, <1>6, <1>7, <1>8 DEF Next
-----------------------------------------------------------------------------
(* What a step does to the tables.                                         *)

\* Two steps of a run write tables, four of other processes do.
LEMMA Writers ==
    ASSUME [Next]_vars
    PROVE  \/ UNCHANGED database
           \/ /\ UNCHANGED <<runVars, overlapped>>
              /\ \/ \E c \in Cases : Start(c) \/ MarkDone(c) \/ CloseCase(c)
                 \/ \E p \in Payments : Capture(p)
           \/ \E r \in Runs : RecordUnmatched(r) \/ Commit(r)
  BY DEF Next, vars, Advance, Start, MarkDone, CloseCase, Capture, AttributePayment, ReadPayment,
         LoadCases, Match, Upsert, ShareWinner, ResolveCase, RefuseResolve, RecordAmbiguity, Crash

\* What a run commits: its winner, locked and open, is resolved by its payment.
LEMMA CommitWrites ==
    ASSUME TypeOK, InHand, OpenIsUnpaid, NEW r \in Runs, Commit(r)
    PROVE  /\ won[r] \in Cases /\ pay[r] \in Payments /\ won[r] \in InTodo(r)
           /\ case[won[r]] \in Eligible /\ outcome[won[r]].payment = NULL
           /\ case' = [case EXCEPT ![won[r]] = case'[won[r]]] /\ case'[won[r]] \in Recovered
           /\ outcome'[won[r]].payment = pay[r]
           /\ \A c \in Cases \ {won[r]} : outcome'[c] = outcome[c] /\ case'[c] = case[c]
           /\ credited' = [credited EXCEPT ![pay[r]] = won[r]]
           /\ ambiguous' = ambiguous \cup ({pay[r]} \X Losers(r))
           /\ UNCHANGED <<executed, captured>>
<1>1. won[r] \in Cases /\ pay[r] \in Payments /\ case[won[r]] \in Eligible /\ at[r] = "resolved"
  BY DEF Commit, InHand
<1>2. Kind(pay[r], won[r]) \in Recovered
  BY DEF Kind, Recovered
<1> QED
  BY <1>1, <1>2, EligibleIs DEF Commit, TypeOK, OpenIsUnpaid, InTodo

\* Executions are never taken back, and a case that is past its chance to be
\* acted on stays so.
LEMMA IdleStays ==
    ASSUME TypeOK, InHand, OpenIsUnpaid, [Next]_vars, NEW c \in Cases
    PROVE  /\ executed[c] \subseteq executed'[c]
           /\ executed[c] = {} /\ case[c] \notin {"detected", "executing"} =>
                  executed'[c] = {} /\ case'[c] \notin {"detected", "executing"}
<1> DEFINE Goal == /\ executed[c] \subseteq executed'[c]
                   /\ executed[c] = {} /\ case[c] \notin {"detected", "executing"} =>
                          executed'[c] = {} /\ case'[c] \notin {"detected", "executing"}
<1>1. CASE UNCHANGED <<case, executed>>
  BY <1>1
<1>2. ASSUME NEW d \in Cases, Start(d)
      PROVE  Goal
  BY <1>2 DEF Start, TypeOK
<1>3. ASSUME NEW d \in Cases, MarkDone(d)
      PROVE  Goal
  BY <1>3 DEF MarkDone, TypeOK
<1>4. ASSUME NEW d \in Cases, CloseCase(d)
      PROVE  Goal
  BY <1>4 DEF CloseCase, TypeOK
<1>5. ASSUME NEW r \in Runs, Commit(r)
      PROVE  Goal
  BY <1>5, CommitWrites, EligibleIs DEF TypeOK
<1> QED
  BY <1>1, <1>2, <1>3, <1>4, <1>5, Writers DEF database, Capture, RecordUnmatched

\* An explanation holds for good.
LEMMA ExplainedStays ==
    ASSUME TypeOK, InHand, OpenIsUnpaid, [Next]_vars, NEW p \in Payments, NEW c \in Cases,
           Explained(p, c)
    PROVE  Explained(p, c)'
<1>1. captured[p] # NULL
  <2>1. captured[p] \in Nat
    BY AttributionConstants DEF Explained, TypeOK
  <2> QED
    BY <2>1, AttributionConstants
<1>2. captured'[p] = captured[p]
  <2>1. ASSUME NEW q \in Payments, Capture(q)
        PROVE  captured'[p] = captured[p]
    BY <1>1, <2>1 DEF Capture, TypeOK
  <2> QED
    BY <2>1, Writers DEF database, Start, MarkDone, CloseCase, RecordUnmatched, Commit
<1> QED
  BY <1>2, IdleStays DEF Explained

\* A payment's credits grow when a run that has it commits, and not otherwise.
LEMMA CreditsSteps ==
    ASSUME TypeOK, InHand, OpenIsUnpaid, [Next]_vars, NEW p \in Payments
    PROVE  \/ CreditsOf(p)' = CreditsOf(p)
           \/ \E r \in Runs : /\ Commit(r) /\ pay[r] = p
                              /\ CreditsOf(p)' = CreditsOf(p) \cup {won[r]}
<1>1. CASE UNCHANGED outcome
  BY <1>1 DEF CreditsOf
<1>2. ASSUME NEW c \in Cases, CloseCase(c)
      PROVE  CreditsOf(p)' = CreditsOf(p)
  <2>1. \A d \in Cases : outcome'[d].payment = outcome[d].payment
    BY <1>2 DEF CloseCase, TypeOK
  <2> QED
    BY <2>1 DEF CreditsOf
<1>3. ASSUME NEW r \in Runs, Commit(r), pay[r] = p
      PROVE  CreditsOf(p)' = CreditsOf(p) \cup {won[r]}
  BY <1>3, CommitWrites DEF CreditsOf
<1>4. ASSUME NEW r \in Runs, Commit(r), pay[r] # p
      PROVE  CreditsOf(p)' = CreditsOf(p)
  <2>1. p # NULL
    BY AttributionConstants
  <2> QED
    BY <1>4, <2>1, CommitWrites DEF CreditsOf
<1> QED
  BY <1>1, <1>2, <1>3, <1>4, Writers DEF database, Start, MarkDone, Capture, RecordUnmatched

-----------------------------------------------------------------------------
(* The parts of the invariant that are about cases.                        *)

LEMMA CasesHold ==
    TypeOK /\ InHand /\ OpenIsUnpaid /\ HeldOutIsIdle /\ [Next]_vars
        => OpenIsUnpaid' /\ HeldOutIsIdle'
<1> SUFFICES ASSUME TypeOK, InHand, OpenIsUnpaid, HeldOutIsIdle, [Next]_vars, NEW c \in Cases
             PROVE  /\ case'[c] \notin Recovered => outcome'[c].payment = NULL
                    /\ case'[c] \in {"detected", "holdout"} => executed'[c] = {}
  BY DEF OpenIsUnpaid, HeldOutIsIdle
<1> DEFINE Goal == /\ case'[c] \notin Recovered => outcome'[c].payment = NULL
                   /\ case'[c] \in {"detected", "holdout"} => executed'[c] = {}
<1>0. /\ case[c] \notin Recovered => outcome[c].payment = NULL
      /\ case[c] \in {"detected", "holdout"} => executed[c] = {}
  BY DEF OpenIsUnpaid, HeldOutIsIdle
<1>1. CASE UNCHANGED <<case, outcome, executed>>
  BY <1>0, <1>1
<1>2. ASSUME NEW d \in Cases, Start(d)
      PROVE  Goal
  <2>1. case[d] = "detected" /\ UNCHANGED <<outcome, executed>>
        /\ \A e \in Cases \ {d} : case'[e] = case[e]
    BY <1>2 DEF Start, TypeOK
  <2> QED
    BY <1>0, <2>1, EligibleIs
<1>3. ASSUME NEW d \in Cases, MarkDone(d)
      PROVE  Goal
  <2>1. case[d] \notin {"detected", "holdout"}
    BY <1>3, EligibleIs DEF MarkDone
  <2> QED
    BY <1>0, <1>3, <2>1 DEF MarkDone, TypeOK
<1>4. ASSUME NEW d \in Cases, CloseCase(d)
      PROVE  Goal
  <2>1. \A e \in Cases : outcome'[e].payment = outcome[e].payment
    BY <1>4 DEF CloseCase, TypeOK
  <2>2. /\ case[d] = "executing" /\ case'[d] \in Closed /\ UNCHANGED executed
        /\ \A e \in Cases \ {d} : case'[e] = case[e]
    BY <1>4 DEF CloseCase, TypeOK
  <2> QED
    BY <1>0, <2>1, <2>2, EligibleIs DEF Closed
<1>5. ASSUME NEW r \in Runs, Commit(r)
      PROVE  Goal
  BY <1>0, <1>5, CommitWrites, EligibleIs
<1> QED
  BY <1>1, <1>2, <1>3, <1>4, <1>5, Writers DEF database, Capture, RecordUnmatched

LEMMA MutualHolds ==
    TypeOK /\ InHand /\ OpenIsUnpaid /\ CreditIsMutual /\ [Next]_vars => CreditIsMutual'
<1> SUFFICES ASSUME TypeOK, InHand, OpenIsUnpaid, CreditIsMutual, [Next]_vars, NEW p \in Payments
             PROVE  /\ credited'[p] \in Cases => outcome'[credited'[p]].payment = p
                    /\ CreditsOf(p)' # {} => credited'[p] \in Cases
  BY DEF CreditIsMutual
<1> DEFINE Goal == /\ credited'[p] \in Cases => outcome'[credited'[p]].payment = p
                   /\ CreditsOf(p)' # {} => credited'[p] \in Cases
<1>0. /\ credited[p] \in Cases => outcome[credited[p]].payment = p
      /\ CreditsOf(p) # {} => credited[p] \in Cases
      /\ p # NULL /\ "unattributed" \notin Cases /\ "absent" \notin Cases
  BY AttributionConstants DEF CreditIsMutual
<1>1. CASE UNCHANGED <<outcome, credited>>
  BY <1>0, <1>1 DEF CreditsOf
<1>2. ASSUME NEW c \in Cases, CloseCase(c)
      PROVE  Goal
  <2>1. (\A d \in Cases : outcome'[d].payment = outcome[d].payment) /\ UNCHANGED credited
    BY <1>2 DEF CloseCase, TypeOK
  <2> QED
    BY <1>0, <2>1 DEF CreditsOf
<1>3. ASSUME NEW r \in Runs, RecordUnmatched(r)
      PROVE  Goal
  <2>1. UNCHANGED outcome /\ (credited'[p] = credited[p] \/
            (credited[p] = "absent" /\ credited'[p] = "unattributed"))
    BY <1>3 DEF RecordUnmatched, TypeOK
  <2> QED
    BY <1>0, <2>1 DEF CreditsOf
<1>4. ASSUME NEW r \in Runs, Commit(r), pay[r] = p
      PROVE  Goal
  BY <1>4, CommitWrites DEF TypeOK
<1>5. ASSUME NEW r \in Runs, Commit(r), pay[r] # p
      PROVE  Goal
  <2>1. credited'[p] = credited[p]
    BY <1>5, CommitWrites DEF TypeOK
  <2>2. \A d \in Cases : outcome[d].payment = p => outcome'[d].payment = p
    BY <1>0, <1>5, CommitWrites
  <2>3. CreditsOf(p)' = CreditsOf(p)
    BY <1>0, <1>5, CommitWrites DEF CreditsOf
  <2> QED
    BY <1>0, <2>1, <2>2, <2>3
<1> QED
  BY <1>1, <1>2, <1>3, <1>4, <1>5, Writers DEF database, Start, MarkDone, Capture

LEMMA CreditsExplainedHolds ==
    TypeOK /\ InHand /\ OpenIsUnpaid /\ Promised /\ CreditsExplained /\ [Next]_vars
        => CreditsExplained'
<1> SUFFICES ASSUME TypeOK, InHand, OpenIsUnpaid, Promised, CreditsExplained, [Next]_vars,
                    NEW p \in Payments, NEW c \in CreditsOf(p)'
             PROVE  Explained(p, c)'
  BY DEF CreditsExplained
<1>0. c \in Cases
  BY DEF CreditsOf
<1>1. CASE c \in CreditsOf(p)
  BY <1>0, <1>1, ExplainedStays DEF CreditsExplained
<1>2. ASSUME NEW r \in Runs, Commit(r), pay[r] = p, c = won[r]
      PROVE  Explained(p, c)'
  <2>1. Explained(p, c)
    BY <1>2, CommitWrites DEF Promised, Commit
  <2> QED
    BY <1>0, <2>1, ExplainedStays
<1> QED
  BY <1>1, <1>2, CreditsSteps
-----------------------------------------------------------------------------
(* The parts that are about runs.  A run's variables change by its own      *)
(* steps alone, its locks included.                                         *)

\* What a step of one run leaves of another's.
LEMMA OthersStay ==
    ASSUME TypeOK, [Next]_vars, NEW r \in Runs
    PROVE  \/ AttributePayment(r) \/ Crash(r)
           \/ /\ UNCHANGED <<at[r], pay[r], found[r], todo[r], won[r]>>
              /\ \A c \in Cases : caseLock'[c] = r <=> caseLock[c] = r
              /\ \A c \in Cases : r \in sharing'[c] <=> r \in sharing[c]
              /\ \A p \in Payments : payLock'[p] = r <=> payLock[p] = r
<1> DEFINE Same == /\ UNCHANGED <<at[r], pay[r], found[r], todo[r], won[r]>>
                   /\ \A c \in Cases : caseLock'[c] = r <=> caseLock[c] = r
                   /\ \A c \in Cases : r \in sharing'[c] <=> r \in sharing[c]
                   /\ \A p \in Payments : payLock'[p] = r <=> payLock[p] = r
<1>0. r # NULL
  BY AttributionConstants
<1>1. CASE UNCHANGED runVars
  BY <1>1 DEF runVars
<1>2. ASSUME NEW s \in Runs, s # r, Leave(s)
      PROVE  Same
  BY <1>0, <1>2 DEF Leave, Goto, TypeOK
<1>3. ASSUME NEW s \in Runs, s # r, AttributePayment(s)
      PROVE  Same
  <2>1. CASE \E q \in Payments : ReadPayment(s, q)
    BY <1>3, <2>1 DEF ReadPayment, Goto, TypeOK
  <2>2. CASE LoadCases(s) \/ Match(s)
    BY <1>3, <2>2 DEF LoadCases, Match, Goto, TypeOK
  <2>6. CASE Upsert(s)
    BY <1>0, <1>3, <2>6 DEF Upsert, Goto, TypeOK
  <2>7. CASE ShareWinner(s)
    BY <1>3, <2>7 DEF ShareWinner, Goto, TypeOK
  <2>3. CASE ResolveCase(s)
    BY <1>0, <1>3, <2>3 DEF ResolveCase, Lockable, Goto, TypeOK
  <2>4. CASE RecordAmbiguity(s)
    BY <1>0, <1>3, <2>4 DEF RecordAmbiguity, Lockable, TypeOK
  <2>5. CASE RecordUnmatched(s) \/ RefuseResolve(s) \/ Commit(s)
    BY <1>2, <1>3, <2>5 DEF RecordUnmatched, RefuseResolve, Commit
  <2> QED
    BY <1>3, <2>1, <2>2, <2>3, <2>4, <2>5, <2>6, <2>7 DEF AttributePayment
<1>4. ASSUME NEW s \in Runs, s # r, Crash(s)
      PROVE  Same
  BY <1>2, <1>4 DEF Crash
<1> QED
  BY <1>1, <1>3, <1>4 DEF Next, vars, Advance, Start, MarkDone, CloseCase, Capture

\* Nobody changes a case that a run has locked.
LEMMA LockedStays ==
    ASSUME TypeOK, InHand, OpenIsUnpaid, [Next]_vars, NEW r \in Runs, NEW c \in Cases,
           caseLock[c] = r, case[c] \in Eligible, ~Commit(r)
    PROVE  case'[c] = case[c]
<1>0. r # NULL /\ case[c] # "detected"
  BY AttributionConstants, EligibleIs
<1>1. ASSUME NEW d \in Cases, Start(d) \/ CloseCase(d)
      PROVE  case'[c] = case[c]
  BY <1>0, <1>1 DEF Start, CloseCase, TypeOK
<1>2. ASSUME NEW s \in Runs, Commit(s)
      PROVE  case'[c] = case[c]
  <2>1. won[s] # c
    BY <1>2 DEF InHand, Commit
  <2> QED
    BY <1>2, <2>1, CommitWrites
<1> QED
  BY <1>1, <1>2, Writers DEF database, MarkDone, Capture, RecordUnmatched

\* The payment a run has in hand stays captured.
LEMMA CapturedStays ==
    ASSUME TypeOK, [Next]_vars, NEW p \in Payments, captured[p] \in Nat
    PROVE  captured'[p] = captured[p]
  BY AttributionConstants, Writers
     DEF database, Start, MarkDone, CloseCase, Capture, RecordUnmatched, Commit, TypeOK

LEMMA InHandHolds == TypeOK /\ InHand /\ OpenIsUnpaid /\ [Next]_vars => InHand'
<1> SUFFICES ASSUME TypeOK, InHand, OpenIsUnpaid, [Next]_vars, NEW r \in Runs
             PROVE  /\ IF at'[r] = "idle" THEN pay'[r] = NULL
                       ELSE pay'[r] \in Payments /\ captured'[pay'[r]] \in Nat
                    /\ at'[r] \in {"idle", "read", "found"} => todo'[r] = <<>>
                    /\ at'[r] \in {"upserting", "upserted"} => todo'[r] # <<>>
                    /\ at'[r] = "resolved" =>
                           /\ won'[r] \in Cases /\ caseLock'[won'[r]] = r
                           /\ case'[won'[r]] \in Eligible
  BY DEF InHand
<1> DEFINE Goal == /\ IF at'[r] = "idle" THEN pay'[r] = NULL
                      ELSE pay'[r] \in Payments /\ captured'[pay'[r]] \in Nat
                   /\ at'[r] \in {"idle", "read", "found"} => todo'[r] = <<>>
                   /\ at'[r] \in {"upserting", "upserted"} => todo'[r] # <<>>
                   /\ at'[r] = "resolved" =>
                          /\ won'[r] \in Cases /\ caseLock'[won'[r]] = r
                          /\ case'[won'[r]] \in Eligible
<1>0. /\ IF at[r] = "idle" THEN pay[r] = NULL
         ELSE pay[r] \in Payments /\ captured[pay[r]] \in Nat /\ captured'[pay[r]] = captured[pay[r]]
      /\ at[r] \in {"idle", "read", "found"} => todo[r] = <<>>
      /\ at[r] \in {"upserting", "upserted"} => todo[r] # <<>>
      /\ at[r] = "resolved" =>
             won[r] \in Cases /\ caseLock[won[r]] = r /\ case[won[r]] \in Eligible
  BY CapturedStays DEF InHand
<1>1. CASE Leave(r)
  BY <1>1 DEF Leave, Goto, TypeOK
<1>2. ASSUME UNCHANGED <<at[r], pay[r], found[r], todo[r], won[r]>>,
             \A c \in Cases : caseLock'[c] = r <=> caseLock[c] = r
      PROVE  Goal
  <2>1. CASE at[r] = "resolved"
    <3>1. CASE Commit(r)
      BY <1>1, <3>1 DEF Commit
    <3>2. CASE ~Commit(r)
      BY <1>0, <1>2, <2>1, <3>2, LockedStays
    <3> QED
      BY <3>1, <3>2
  <2>2. CASE at[r] # "resolved"
    BY <1>0, <1>2, <2>2
  <2> QED
    BY <2>1, <2>2
<1>3. CASE AttributePayment(r)
  <2>1. ASSUME NEW p \in Payments, ReadPayment(r, p)
        PROVE  Goal
    <3>1. captured[p] \in Nat /\ at[r] = "idle"
      BY <2>1 DEF ReadPayment, TypeOK
    <3> QED
      BY <1>0, <2>1, <3>1 DEF ReadPayment, Goto, TypeOK, database
  <2>2. CASE LoadCases(r) \/ Match(r) \/ Upsert(r) \/ ShareWinner(r)
    BY <1>0, <2>2 DEF LoadCases, Match, Upsert, ShareWinner, Goto, TypeOK, database
  <2>3. CASE ResolveCase(r)
    <3>1. Head(todo[r]) \in Cases /\ case[Head(todo[r])] \in Eligible
      BY <1>0, <2>3, TodoTypes, ResolvableIs DEF ResolveCase
    <3> QED
      BY <1>0, <2>3, <3>1 DEF ResolveCase, Goto, TypeOK, database
  <2>4. CASE RecordAmbiguity(r)
    BY <1>0, <2>4 DEF RecordAmbiguity, TypeOK, database
  <2> QED
    BY <1>1, <1>3, <2>1, <2>2, <2>3, <2>4
       DEF AttributePayment, RecordUnmatched, RefuseResolve, Commit
<1> QED
  BY <1>1, <1>2, <1>3, OthersStay DEF Crash

LEMMA LocksAgeHolds == TypeOK /\ InHand /\ LocksAge /\ [Next]_vars => LocksAge'
<1> SUFFICES ASSUME TypeOK, InHand, LocksAge, [Next]_vars, NEW r \in Runs
             PROVE  /\ \A i, j \in DOMAIN todo'[r] : i < j => Older(todo'[r][i], todo'[r][j])
                    /\ \A c \in Cases : caseLock'[c] = r =>
                           /\ at'[r] = "resolved"
                           /\ c = won'[r] \/ Older(won'[r], c)
                           /\ \A i \in DOMAIN todo'[r] : Older(c, todo'[r][i])
  BY DEF LocksAge, Older
<1> DEFINE Goal == /\ \A i, j \in DOMAIN todo'[r] : i < j => Older(todo'[r][i], todo'[r][j])
                   /\ \A c \in Cases : caseLock'[c] = r =>
                          /\ at'[r] = "resolved"
                          /\ c = won'[r] \/ Older(won'[r], c)
                          /\ \A i \in DOMAIN todo'[r] : Older(c, todo'[r][i])
<1>0. /\ \A i, j \in DOMAIN todo[r] : i < j => Older(todo[r][i], todo[r][j])
      /\ \A c \in Cases : caseLock[c] = r =>
             /\ at[r] = "resolved"
             /\ c = won[r] \/ Older(won[r], c)
             /\ \A i \in DOMAIN todo[r] : Older(c, todo[r][i])
      /\ r # NULL
  BY AttributionConstants DEF LocksAge
<1>1. CASE Leave(r)
  BY <1>0, <1>1, EmptySeq DEF Leave, TypeOK
<1>2. ASSUME UNCHANGED <<at[r], pay[r], found[r], todo[r], won[r]>>,
             \A c \in Cases : caseLock'[c] = r <=> caseLock[c] = r
      PROVE  Goal
  BY <1>0, <1>2
<1>3. CASE AttributePayment(r)
  <2>1. ASSUME at[r] # "resolved", UNCHANGED <<todo[r], caseLock>>
        PROVE  Goal
    BY <1>0, <2>1
  <2>2. CASE (\E p \in Payments : ReadPayment(r, p)) \/ LoadCases(r) \/ Upsert(r) \/ ShareWinner(r)
    BY <2>1, <2>2 DEF ReadPayment, LoadCases, Upsert, ShareWinner
  <2>3. CASE Match(r)
    <3>1. PICK s \in Ordered(Matches(pay[r], found[r])) : todo' = [todo EXCEPT ![r] = s]
      BY <2>3 DEF Match
    <3>2. todo'[r] = s
      BY <3>1 DEF TypeOK
    <3>3. \A i, j \in DOMAIN s : i < j => Older(s[i], s[j])
      BY OrderedIs, MatchesAre DEF TypeOK
    <3> QED
      BY <1>0, <2>3, <3>2, <3>3 DEF Match
  <2>4. ASSUME todo[r] # <<>>, todo'[r] = Tail(todo[r]), at'[r] = "resolved",
               NEW c \in Cases, c = Head(todo[r]),
               \A d \in Cases : caseLock'[d] = r => d = c \/ caseLock[d] = r,
               c = won'[r] \/ Older(won'[r], c),
               \A d \in Cases : caseLock[d] = r => d = won'[r] \/ Older(won'[r], d)
        PROVE  Goal
    <3>1. /\ DOMAIN todo[r] = 1..Len(todo[r]) /\ Len(todo[r]) \in Nat \ {0} /\ c = todo[r][1]
          /\ DOMAIN todo'[r] = 1..(Len(todo[r]) - 1)
          /\ \A i \in 1..(Len(todo[r]) - 1) : todo'[r][i] = todo[r][i + 1]
      BY <2>4, TodoTypes
    <3>5. \A i \in DOMAIN todo'[r] : /\ i + 1 \in DOMAIN todo[r] /\ 1 < i + 1 /\ i \in Int
                                      /\ todo'[r][i] = todo[r][i + 1]
      BY <3>1
    <3>6. 1 \in DOMAIN todo[r]
      BY <3>1
    <3>2. ASSUME NEW i \in DOMAIN todo'[r], NEW j \in DOMAIN todo'[r], i < j
          PROVE  Older(todo'[r][i], todo'[r][j])
      <4>1. i + 1 < j + 1 /\ i + 1 \in DOMAIN todo[r] /\ j + 1 \in DOMAIN todo[r]
        BY <3>2, <3>5
      <4>2. Older(todo[r][i + 1], todo[r][j + 1])
        BY <1>0, <4>1
      <4> QED
        BY <3>5, <4>2
    <3>3. ASSUME NEW i \in DOMAIN todo'[r]
          PROVE  Older(c, todo'[r][i])
      <4>1. Older(todo[r][1], todo[r][i + 1])
        BY <1>0, <3>5, <3>6
      <4> QED
        BY <3>1, <3>5, <4>1
    <3>4. \A d \in Cases : caseLock[d] = r => \A i \in DOMAIN todo'[r] : Older(d, todo'[r][i])
      BY <1>0, <3>1
    <3> QED
      BY <2>4, <3>2, <3>3, <3>4
  <2>5. CASE ResolveCase(r)
    <3>1. todo[r] # <<>> /\ Head(todo[r]) \in Cases
      BY <2>5, TodoTypes DEF ResolveCase, InHand
    <3>2. /\ todo'[r] = Tail(todo[r]) /\ at'[r] = "resolved" /\ won'[r] = Head(todo[r])
          /\ at[r] # "resolved"
          /\ \A d \in Cases : caseLock'[d] = r => d = Head(todo[r]) \/ caseLock[d] = r
      BY <2>5 DEF ResolveCase, Goto, TypeOK
    <3> QED
      BY <1>0, <2>4, <3>1, <3>2
  <2>6. CASE RecordAmbiguity(r)
    <3>1. todo[r] # <<>> /\ Head(todo[r]) \in Cases /\ 1 \in DOMAIN todo[r]
          /\ Head(todo[r]) = todo[r][1]
      BY <2>6, TodoTypes DEF RecordAmbiguity
    <3>2. /\ todo'[r] = Tail(todo[r]) /\ at'[r] = "resolved" /\ won'[r] = won[r]
          /\ \A d \in Cases : caseLock'[d] = r => d = Head(todo[r]) \/ caseLock[d] = r
          /\ won[r] \in Cases /\ caseLock[won[r]] = r
      BY <2>6 DEF RecordAmbiguity, TypeOK, InHand
    <3> QED
      BY <1>0, <2>4, <3>1, <3>2
  <2> QED
    BY <1>1, <1>3, <2>2, <2>3, <2>5, <2>6
       DEF AttributePayment, RecordUnmatched, RefuseResolve, Commit
<1> QED
  BY <1>1, <1>2, <1>3, OthersStay DEF Crash

LEMMA LocksKeptHold == TypeOK /\ InHand /\ LocksKept /\ [Next]_vars => LocksKept'
<1> SUFFICES ASSUME TypeOK, InHand, LocksKept, [Next]_vars, NEW r \in Runs
             PROVE  /\ \A p \in Payments : payLock'[p] = r =>
                           at'[r] \in {"upserting", "upserted", "resolved"}
                    /\ \A c \in Cases : r \in sharing'[c] =>
                           \/ at'[r] = "upserted" /\ Head(todo'[r]) = c
                           \/ at'[r] = "resolved" /\ won'[r] = c
  BY DEF LocksKept
<1> DEFINE Goal == /\ \A p \in Payments : payLock'[p] = r =>
                          at'[r] \in {"upserting", "upserted", "resolved"}
                   /\ \A c \in Cases : r \in sharing'[c] =>
                          \/ at'[r] = "upserted" /\ Head(todo'[r]) = c
                          \/ at'[r] = "resolved" /\ won'[r] = c
<1>0. /\ \A p \in Payments : payLock[p] = r => at[r] \in {"upserting", "upserted", "resolved"}
      /\ \A c \in Cases : r \in sharing[c] =>
             \/ at[r] = "upserted" /\ Head(todo[r]) = c
             \/ at[r] = "resolved" /\ won[r] = c
      /\ r # NULL
  BY AttributionConstants DEF LocksKept
<1>1. CASE Leave(r)
  BY <1>0, <1>1 DEF Leave, TypeOK
<1>2. ASSUME UNCHANGED <<at[r], todo[r], won[r]>>,
             \A c \in Cases : r \in sharing'[c] <=> r \in sharing[c],
             \A p \in Payments : payLock'[p] = r <=> payLock[p] = r
      PROVE  Goal
  BY <1>0, <1>2
<1>3. CASE AttributePayment(r)
  <2>1. CASE (\E p \in Payments : ReadPayment(r, p)) \/ LoadCases(r) \/ Match(r)
    BY <1>0, <2>1 DEF ReadPayment, LoadCases, Match
  <2>2. CASE Upsert(r)
    BY <1>0, <2>2 DEF Upsert, Goto, TypeOK
  <2>3. CASE ShareWinner(r)
    BY <1>0, <2>3 DEF ShareWinner, Goto, TypeOK
  <2>4. CASE ResolveCase(r)
    BY <1>0, <2>4 DEF ResolveCase, Goto, TypeOK
  <2>5. CASE RecordAmbiguity(r)
    BY <1>0, <2>5 DEF RecordAmbiguity
  <2> QED
    BY <1>1, <1>3, <2>1, <2>2, <2>3, <2>4, <2>5
       DEF AttributePayment, RecordUnmatched, RefuseResolve, Commit
<1> QED
  BY <1>1, <1>2, <1>3, OthersStay DEF Crash

\* A match is explained by what was read: the latest execution, or the opening
\* of a case seen held out.
LEMMA MatchExplains ==
    ASSUME TypeOK, InHand, Promised, NEW r \in Runs, at[r] = "found",
           NEW c \in Matches(pay[r], found[r])
    PROVE  Explained(pay[r], c)
<1>1. PICK u \in found[r] :
          c = u[1] /\ \E anchor \in Anchors(c, u[2]) : InWindow(captured[pay[r]], anchor)
  BY DEF Matches
<1>2. c \in Cases /\ captured[pay[r]] \in Nat /\ Opened[c] \in Nat /\ Window \in Nat
  BY <1>1, AttributionConstants DEF TypeOK, InHand
<1>3. CASE u[2] = "holdout"
  <2>1. executed[c] = {} /\ case[c] \notin {"detected", "executing"}
    BY <1>1, <1>3 DEF Promised
  <2>2. InWindow(captured[pay[r]], Opened[c])
    BY <1>1, <1>3 DEF Anchors
  <2> QED
    BY <1>2, <2>1, <2>2 DEF Explained, InWindow
<1>4. CASE u[2] # "holdout"
  <2>1. executed[c] # {} /\ InWindow(captured[pay[r]], Max(executed[c]))
    BY <1>1, <1>4 DEF Anchors
  <2>2. executed[c] \in SUBSET (0..MaxTime) /\ MaxTime \in Nat
    BY <1>2, AttributionConstants DEF TypeOK
  <2>3. Max(executed[c]) \in executed[c]
    BY <2>1, <2>2, MaxIsOne
  <2> QED
    BY <1>2, <2>1, <2>2, <2>3 DEF Explained, InWindow
<1> QED
  BY <1>3, <1>4

LEMMA PromisedHolds ==
    TypeOK /\ InHand /\ OpenIsUnpaid /\ HeldOutIsIdle /\ Promised /\ [Next]_vars => Promised'
<1> SUFFICES ASSUME TypeOK, InHand, OpenIsUnpaid, HeldOutIsIdle, Promised, [Next]_vars,
                    NEW r \in Runs
             PROVE  /\ \A u \in found'[r] : u[2] = "holdout" =>
                           executed'[u[1]] = {} /\ case'[u[1]] \notin {"detected", "executing"}
                    /\ at'[r] # "idle" => \A c \in InTodo(r)' : Explained(pay[r], c)'
  BY DEF Promised
<1>0. /\ \A u \in found[r] : u[1] \in Cases
      /\ at[r] # "idle" => pay[r] \in Payments
      /\ at[r] \in {"idle", "read", "found"} => todo[r] = <<>>
  BY DEF TypeOK, InHand
<1>1. ASSUME found'[r] = found[r]
      PROVE  \A u \in found'[r] : u[2] = "holdout" =>
                 executed'[u[1]] = {} /\ case'[u[1]] \notin {"detected", "executing"}
  <2>1. \A c \in Cases : executed[c] = {} /\ case[c] \notin {"detected", "executing"} =>
                            executed'[c] = {} /\ case'[c] \notin {"detected", "executing"}
    BY IdleStays
  <2>2. ASSUME NEW u \in found[r], u[2] = "holdout"
        PROVE  executed'[u[1]] = {} /\ case'[u[1]] \notin {"detected", "executing"}
    <3>1. executed[u[1]] = {} /\ case[u[1]] \notin {"detected", "executing"}
      BY <2>2 DEF Promised
    <3>2. u[1] \in Cases
      BY <1>0, <2>2
    <3> QED
      BY <2>1, <3>1, <3>2
  <2> QED
    BY <1>1, <2>2
<1>2. ASSUME at[r] # "idle", pay'[r] = pay[r], InTodo(r)' \subseteq InTodo(r)
      PROVE  \A c \in InTodo(r)' : Explained(pay[r], c)'
  <2>1. ASSUME NEW c \in InTodo(r)'
        PROVE  Explained(pay[r], c)'
    <3>1. c \in InTodo(r)
      BY <1>2, <2>1
    <3>2. c \in Cases /\ pay[r] \in Payments
      <4>1. c \in Cases
        BY <3>1 DEF InTodo
      <4>2. pay[r] \in Payments
        BY <1>0, <1>2
      <4> QED
        BY <4>1, <4>2
    <3>3. Explained(pay[r], c)
      BY <1>2, <3>1 DEF Promised
    <3>4. \A p \in Payments : Explained(p, c) => Explained(p, c)'
      BY <3>2, ExplainedStays
    <3> QED
      BY <1>2, <3>2, <3>3, <3>4 DEF Explained
  <2> QED
    BY <2>1
<1>7. ASSUME todo'[r] = <<>>, at'[r] # "resolved"
      PROVE  InTodo(r)' = {}
  <2>1. DOMAIN todo'[r] = {}
    BY <1>7
  <2> QED
    BY <1>7, <2>1 DEF InTodo
<1>3. ASSUME found'[r] = {} \/ found'[r] = found[r], InTodo(r)' = {}
      PROVE  /\ \A u \in found'[r] : u[2] = "holdout" =>
                    executed'[u[1]] = {} /\ case'[u[1]] \notin {"detected", "executing"}
             /\ at'[r] # "idle" => \A c \in InTodo(r)' : Explained(pay[r], c)'
  BY <1>1, <1>3
<1>4. CASE Leave(r)
  <2>1. found'[r] = {} /\ at'[r] = "idle"
    BY <1>4 DEF Leave, Goto, TypeOK
  <2> QED
    BY <2>1
<1>5. CASE UNCHANGED <<at[r], pay[r], found[r], todo[r], won[r]>>
  <2>1. InTodo(r)' = InTodo(r)
    BY <1>5 DEF InTodo
  <2> QED
    BY <1>1, <1>2, <1>5, <2>1
<1>6. CASE AttributePayment(r)
  <2>1. ASSUME NEW p \in Payments, ReadPayment(r, p)
        PROVE  found'[r] = found[r] /\ InTodo(r)' = {}
    <3>1. found'[r] = found[r] /\ todo'[r] = todo[r] /\ at[r] = "idle" /\ at'[r] = "read"
      BY <2>1 DEF ReadPayment, Goto, TypeOK
    <3>2. todo'[r] = <<>> /\ at'[r] # "resolved"
      BY <1>0, <3>1
    <3> QED
      BY <1>7, <3>1, <3>2
  <2>2. CASE LoadCases(r)
    <3>1. found'[r] = {<<c, case[c]>> : c \in {d \in Cases : case[d] \in Eligible}}
          /\ UNCHANGED <<case, executed>>
      BY <2>2 DEF LoadCases, TypeOK, database
    <3>2. InTodo(r)' = {}
      <4>1. todo'[r] = todo[r] /\ at[r] = "read" /\ at'[r] = "found"
        BY <2>2 DEF LoadCases, Goto, TypeOK
      <4>2. todo'[r] = <<>> /\ at'[r] # "resolved"
        BY <1>0, <4>1
      <4> QED
        BY <1>7, <4>2
    <3>3. \A c \in Cases : case[c] = "holdout" => executed[c] = {}
      BY DEF HeldOutIsIdle
    <3> QED
      BY <3>1, <3>2, <3>3
  <2>3. CASE Match(r)
    <3>1. PICK s \in Ordered(Matches(pay[r], found[r])) : todo' = [todo EXCEPT ![r] = s]
      BY <2>3 DEF Match
    <3>2. /\ todo'[r] = s /\ at'[r] = "matched" /\ found'[r] = {} /\ pay'[r] = pay[r]
          /\ at[r] = "found"
      BY <2>3, <3>1 DEF Match, Goto, TypeOK
    <3>3. \A i \in DOMAIN s : s[i] \in Matches(pay[r], found[r])
      BY OrderedIs, MatchesAre DEF TypeOK
    <3>4. ASSUME NEW c \in InTodo(r)'
          PROVE  Explained(pay[r], c)'
      <4>1. c \in Cases /\ c \in Matches(pay[r], found[r])
        BY <3>2, <3>3, <3>4 DEF InTodo
      <4>2. Explained(pay[r], c)
        BY <3>2, <4>1, MatchExplains
      <4>3. \A p \in Payments : Explained(p, c) => Explained(p, c)'
        BY <4>1, ExplainedStays
      <4>4. pay[r] \in Payments /\ pay'[r] = pay[r]
        BY <1>0, <3>2
      <4> QED
        BY <4>2, <4>3, <4>4 DEF Explained
    <3> QED
      BY <3>2, <3>4
  <2>4. CASE Upsert(r) \/ ShareWinner(r)
    <3>1. /\ UNCHANGED <<pay[r], found[r], todo[r], won[r]>> /\ at[r] # "idle"
          /\ at[r] # "resolved" /\ at'[r] # "resolved"
      BY <2>4 DEF Upsert, ShareWinner, Goto, TypeOK
    <3>2. InTodo(r)' = InTodo(r)
      BY <3>1 DEF InTodo
    <3> QED
      BY <1>1, <1>2, <3>1, <3>2
  <2>5. CASE ResolveCase(r) \/ RecordAmbiguity(r)
    <3>1. /\ UNCHANGED <<pay[r], found[r]>> /\ at[r] # "idle" /\ todo[r] # <<>>
          /\ todo'[r] = Tail(todo[r])
          /\ won'[r] = Head(todo[r]) \/ (won'[r] = won[r] /\ at[r] = "resolved")
      BY <2>5 DEF ResolveCase, RecordAmbiguity, Goto, TypeOK, InHand
    <3>2. InTodo(r)' \subseteq InTodo(r)
      BY <3>1, TodoTypes DEF InTodo
    <3> QED
      BY <1>1, <1>2, <3>1, <3>2
  <2> QED
    BY <1>3, <1>4, <1>6, <2>1, <2>2, <2>3, <2>4, <2>5
       DEF AttributePayment, RecordUnmatched, RefuseResolve, Commit
<1> QED
  BY <1>4, <1>5, <1>6, OthersStay DEF Crash

-----------------------------------------------------------------------------
(* Races, and losers.                                                      *)

\* Where a run's payment comes from.
LEMMA PaySteps ==
    ASSUME TypeOK, [Next]_vars
    PROVE  /\ overlapped \subseteq overlapped'
           /\ \/ \A r \in Runs : pay'[r] \in {pay[r], NULL}
              \/ \E r \in Runs, p \in Payments : ReadPayment(r, p)
<1>1. ASSUME NEW r \in Runs, Leave(r)
      PROVE  \A s \in Runs : pay'[s] \in {pay[s], NULL}
  BY <1>1 DEF Leave, TypeOK
<1> QED
  BY <1>1 DEF Next, vars, runVars, Advance, Start, MarkDone, CloseCase, Capture, AttributePayment,
         ReadPayment, LoadCases, Match, RecordUnmatched, Upsert, ShareWinner, ResolveCase,
         RefuseResolve, RecordAmbiguity, Commit, Crash

LEMMA RacesHold ==
    IInv /\ [Next]_vars => Raced' /\ Late' /\ OneCreditUnlessRaced'
<1> SUFFICES ASSUME IInv, [Next]_vars
             PROVE  Raced' /\ Late' /\ OneCreditUnlessRaced'
  OBVIOUS
<1> USE DEF IInv
<1>0. NULL \notin Payments /\ overlapped \subseteq overlapped'
  BY AttributionConstants, PaySteps
<1>1. Raced'
  <2>1. CASE \A r \in Runs : pay'[r] \in {pay[r], NULL}
    BY <1>0, <2>1 DEF Raced
  <2>2. ASSUME NEW q \in Runs, NEW p \in Payments, ReadPayment(q, p)
        PROVE  Raced'
    <3>1. /\ pay'[q] = p /\ \A r \in Runs \ {q} : pay'[r] = pay[r]
          /\ (\E s \in Runs : pay[s] = p) => p \in overlapped'
      BY <2>2 DEF ReadPayment, TypeOK
    <3> QED
      BY <1>0, <3>1 DEF Raced
  <2> QED
    BY <2>1, <2>2, PaySteps
\* Only runs that had the payment before have it after its commit, and nobody
\* takes up a payment that has a case.
<1>2. Late'
  <2> SUFFICES ASSUME NEW r \in Runs, NEW p \in Payments, pay'[r] = p, CreditsOf(p)' # {}
               PROVE  p \in overlapped'
    BY DEF Late, CreditsOf
  <2>1. CASE pay[r] = p
    <3>1. CASE CreditsOf(p) # {}
      BY <1>0, <2>1, <3>1 DEF Late
    <3>2. CASE CreditsOf(p) = {}
      <4>1. PICK s \in Runs : Commit(s) /\ pay[s] = p
        BY <3>2, CreditsSteps
      <4>2. s # r
        <5>1. pay'[s] = NULL
          BY <4>1 DEF Commit, Leave, TypeOK
        <5> QED
          BY <1>0, <5>1
      <4> QED
        BY <1>0, <2>1, <4>1, <4>2 DEF Raced
    <3> QED
      BY <3>1, <3>2
  <2>2. CASE pay[r] # p
    <3>1. ReadPayment(r, p)
      <4>1. ~\A s \in Runs : pay'[s] \in {pay[s], NULL}
        BY <1>0, <2>2
      <4>2. PICK s \in Runs, q \in Payments : ReadPayment(s, q)
        BY <4>1, PaySteps
      <4>3. s = r /\ q = p
        BY <2>2, <4>2 DEF ReadPayment, TypeOK
      <4> QED
        BY <4>2, <4>3
    <3>2. CreditsOf(p) = {}
      BY <3>1 DEF ReadPayment, CreditIsMutual
    <3>3. CreditsOf(p)' = CreditsOf(p)
      BY <3>1 DEF ReadPayment, database, CreditsOf
    <3> QED
      BY <3>2, <3>3
  <2> QED
    BY <2>1, <2>2
<1>3. OneCreditUnlessRaced'
  <2> SUFFICES ASSUME NEW p \in Payments, NEW c \in CreditsOf(p)', NEW d \in CreditsOf(p)', c # d
               PROVE  p \in overlapped'
    BY DEF OneCreditUnlessRaced
  <2>1. CASE CreditsOf(p)' = CreditsOf(p)
    BY <1>0, <2>1 DEF OneCreditUnlessRaced
  <2>2. ASSUME NEW r \in Runs, pay[r] = p, CreditsOf(p)' = CreditsOf(p) \cup {won[r]}
        PROVE  p \in overlapped'
    <3>1. CreditsOf(p) # {}
      BY <2>2
    <3> QED
      BY <1>0, <2>2, <3>1 DEF Late
  <2> QED
    BY <2>1, <2>2, CreditsSteps
<1> QED
  BY <1>1, <1>2, <1>3

LEMMA LosersHold == IInv /\ [Next]_vars => LosersLoseToOlder'
<1> SUFFICES ASSUME IInv, [Next]_vars, NEW e \in ambiguous'
             PROVE  \E c \in CreditsOf(e[1])' : Older(c, e[2])
  BY DEF LosersLoseToOlder, Older
<1> USE DEF IInv
<1>0. ambiguous' \subseteq Payments \X Cases
  BY TypesHold DEF TypeOK
<1>1. CASE e \in ambiguous
  <2>1. e[1] \in Payments /\ \E c \in CreditsOf(e[1]) : Older(c, e[2])
    BY <1>0, <1>1 DEF LosersLoseToOlder
  <2> QED
    BY <2>1, CreditsSteps
<1>2. ASSUME NEW r \in Runs, Commit(r), e \in {pay[r]} \X Losers(r)
      PROVE  \E c \in CreditsOf(e[1])' : Older(c, e[2])
  <2>1. e[1] = pay[r] /\ e[2] \in Cases /\ caseLock[e[2]] = r /\ e[2] # won[r]
    BY <1>2 DEF Losers
  <2>2. Older(won[r], e[2])
    BY <2>1 DEF LocksAge
  <2>3. won[r] \in CreditsOf(e[1])'
    BY <1>2, <2>1, CommitWrites DEF CreditsOf
  <2> QED
    BY <2>2, <2>3
<1>3. ambiguous' = ambiguous
      \/ \E r \in Runs : Commit(r) /\ ambiguous' = ambiguous \cup ({pay[r]} \X Losers(r))
  BY Writers, CommitWrites DEF database, Start, MarkDone, CloseCase, Capture, RecordUnmatched
<1> QED
  BY <1>1, <1>2, <1>3

-----------------------------------------------------------------------------
(* Circles.  Among the cases a circle of runs waits for, take one that is   *)
(* older than none of the others.                                           *)

LEMMA YoungestCase ==
    ASSUME NEW H \in SUBSET Cases, H # {}
    PROVE  \E c \in H : \A d \in H : ~Older(c, d)
<1> DEFINE Above(c) == {d \in H : Older(c, d)}
           T == {Cardinality(Above(c)) : c \in H}
<1>1. \A c \in H : IsFiniteSet(Above(c)) /\ Cardinality(Above(c)) \in Nat
  <2>1. \A c \in H : Above(c) \in SUBSET Cases
    OBVIOUS
  <2> HIDE DEF Above
  <2> QED
    BY <2>1, AttributionConstants, FS_Subset, FS_CardinalityType
<1>2. PICK c \in H : \A d \in H : Cardinality(Above(c)) <= Cardinality(Above(d))
  <2>1. T \subseteq Nat /\ T # {}
    <3> HIDE DEF Above
    <3> QED
      BY <1>1
  <2>2. \E x \in T : \A y \in T : x <= y
    <3> HIDE DEF T
    <3> QED
      BY <2>1, LeastNat
  <2> HIDE DEF Above
  <2> QED
    BY <2>2
<1>3. ASSUME NEW d \in H, Older(c, d)
      PROVE  FALSE
  <2>1. Above(d) \in SUBSET Above(c) /\ d \in Above(c) /\ d \notin Above(d)
    BY <1>3, OlderIsAnOrder
  <2> HIDE DEF Above
  <2>2. Cardinality(Above(d)) = Cardinality(Above(c))
    <3>1. /\ Cardinality(Above(d)) <= Cardinality(Above(c))
          /\ Cardinality(Above(d)) \in Nat /\ Cardinality(Above(c)) \in Nat
      BY <1>1, <2>1, FS_Subset
    <3> QED
      BY <1>2, <3>1
  <2> QED
    BY <1>1, <2>1, <2>2, FS_Subset
<1> QED
  BY <1>3

LEMMA NoOtherCircle == IInv => CirclesShareTheirWinner
<1> SUFFICES ASSUME IInv, NEW D \in SUBSET Runs, D # {},
                    \A r \in D : \E s \in D : Waits(r, s)
             PROVE  \E r, s \in D : r # s /\ at[r] = "upserted" /\ at[s] = "upserted"
                                    /\ Head(todo[r]) = Head(todo[s])
  BY DEF CirclesShareTheirWinner, Circles
<1> DEFINE AtCase(r) == at[r] \in {"upserting", "upserted", "resolved"} /\ todo[r] # <<>>
           H == {Head(todo[r]) : r \in {q \in D : AtCase(q)}}
<1>0. TypeOK /\ InHand /\ LocksAge /\ LocksKept
  BY DEF IInv
<1>1. \A r \in D : AtCase(r) \/ at[r] = "matched"
  BY <1>0 DEF Waits, InHand
<1>2. ASSUME NEW r \in D, at[r] = "matched"
      PROVE  \E s \in D : AtCase(s)
  <2>1. PICK s \in D : payLock[pay[r]] = s
    BY <1>2 DEF Waits
  <2>2. pay[r] \in Payments
    BY <1>0, <1>2 DEF InHand
  <2>3. at[s] # "matched"
    BY <1>0, <2>1, <2>2 DEF LocksKept
  <2> QED
    BY <1>1, <2>3
<1>3. H \in SUBSET Cases /\ H # {}
  <2>1. \A r \in D : AtCase(r) => Head(todo[r]) \in Cases
    BY <1>0, TodoTypes
  <2>2. \E r \in D : AtCase(r)
    BY <1>1, <1>2
  <2> QED
    BY <2>1, <2>2
<1>4. PICK c \in H : \A d \in H : ~Older(c, d)
  <2> HIDE DEF H
  <2> QED
    BY <1>3, YoungestCase
\* Who holds it alone would wait for a younger one.
<1>5. ASSUME NEW s \in D, caseLock[c] = s
      PROVE  FALSE
  <2>1. at[s] = "resolved" /\ \A i \in DOMAIN todo[s] : Older(c, todo[s][i])
    BY <1>0, <1>3, <1>5 DEF LocksAge
  <2>2. AtCase(s)
    BY <1>1, <2>1
  <2>3. 1 \in DOMAIN todo[s] /\ Head(todo[s]) = todo[s][1]
    BY <1>0, <2>2, TodoTypes
  <2> QED
    BY <1>4, <2>1, <2>2, <2>3
<1>6. ASSUME NEW r \in D, AtCase(r), Head(todo[r]) = c
      PROVE  \E s \in D : s # r /\ AtCase(s) /\ at[s] = "upserted" /\ Head(todo[s]) = c
  <2>1. PICK s \in D : s # r /\ s \in sharing[c]
    BY <1>5, <1>6 DEF Waits
  <2>2. (at[s] = "upserted" /\ Head(todo[s]) = c) \/ (at[s] = "resolved" /\ won[s] = c)
    BY <1>0, <1>3, <2>1 DEF LocksKept
  <2>3. at[s] = "resolved" => caseLock[won[s]] = s
    BY <1>0 DEF InHand
  <2> QED
    BY <1>1, <1>5, <2>1, <2>2, <2>3
<1>7. PICK r \in D : AtCase(r) /\ Head(todo[r]) = c
  BY <1>3
<1>8. PICK s \in D : AtCase(s) /\ at[s] = "upserted" /\ Head(todo[s]) = c
  BY <1>6, <1>7
<1>9. PICK q \in D : q # s /\ at[q] = "upserted" /\ Head(todo[q]) = c
  BY <1>6, <1>8
<1> QED
  BY <1>8, <1>9

-----------------------------------------------------------------------------
(* The theorems.                                                           *)

LEMMA Starts == Init => IInv
<1> SUFFICES ASSUME Init
             PROVE  IInv
  OBVIOUS
<1> USE AttributionConstants
<1>1. TypeOK
  BY TypesStart
<1>2. \A p \in Payments : CreditsOf(p) = {}
  BY DEF Init, CreditsOf, NoOutcome
<1>3. \A r \in Runs : r # NULL
  OBVIOUS
<1>4. InHand /\ OpenIsUnpaid /\ HeldOutIsIdle
  BY DEF Init, InHand, OpenIsUnpaid, HeldOutIsIdle, NoOutcome
<1>5. Promised /\ LocksAge /\ LocksKept
  BY <1>3, EmptySeq DEF Init, Promised, LocksAge, LocksKept
<1>6. CreditsExplained /\ Raced /\ Late /\ OneCreditUnlessRaced
  BY <1>2 DEF Init, CreditsExplained, Raced, Late, OneCreditUnlessRaced
<1>7. CreditIsMutual /\ LosersLoseToOlder
  BY <1>2 DEF Init, CreditIsMutual, LosersLoseToOlder
<1> QED
  BY <1>1, <1>4, <1>5, <1>6, <1>7 DEF IInv

LEMMA Continues == IInv /\ [Next]_vars => IInv'
  BY TypesHold, InHandHolds, CasesHold, PromisedHolds, CreditsExplainedHolds, LocksAgeHolds,
     LocksKeptHold, RacesHold, MutualHolds, LosersHold
     DEF IInv

\* The inductive invariant, which the theorems below read their properties from.
LEMMA Invariance == Spec => []IInv
  BY Starts, Continues, PTL DEF Spec

\* The variables have the types of the columns and of the engine's locals, for any
\* number of runs, payments and cases.
THEOREM TypeCorrect == Spec => []TypeOK
<1>1. IInv => TypeOK
  BY DEF IInv
<1> QED
  BY <1>1, Invariance, PTL

\* payments.case_id and outcomes.payment_id name each other, although the run that
\* writes them read both tables before it locked anything.
THEOREM MutualCredit == Spec => []CreditIsMutual
<1>1. IInv => CreditIsMutual
  BY DEF IInv
<1> QED
  BY <1>1, Invariance, PTL

\* TR-29 up to the race of the finding: a second case gets a payment only if two
\* runs had it in hand at once.
THEOREM CreditedOnceCorrect == Spec => []CreditedOnceUnlessRaced
<1>1. ASSUME IInv
      PROVE  CreditedOnceUnlessRaced
  <2> SUFFICES ASSUME NEW p \in Payments, Cardinality(CreditsOf(p)) > 1, p \notin overlapped
               PROVE  FALSE
    BY DEF CreditedOnceUnlessRaced
  <2>1. \A c, d \in CreditsOf(p) : c = d
    BY <1>1 DEF IInv, OneCreditUnlessRaced
  <2>2. CASE CreditsOf(p) = {}
    BY <2>2, FS_EmptySet
  <2>3. ASSUME NEW c \in CreditsOf(p)
        PROVE  FALSE
    <3>1. CreditsOf(p) = {c}
      BY <2>1, <2>3
    <3>2. Cardinality(CreditsOf(p)) = 1
      BY <3>1, FS_Singleton
    <3> QED
      BY <3>2
  <2> QED
    BY <2>2, <2>3
<1> QED
  BY <1>1, Invariance, PTL

\* METRICS section 6: every credited payment was captured inside a window that an
\* execution of its case opened, or its opening if it was never acted on, whatever
\* cases and executions did between the reads and the commit.
THEOREM WindowCorrect == Spec => []CreditedInWindow
<1>1. IInv => CreditedInWindow
  BY DEF IInv, CreditsExplained, Explained, CreditedInWindow
<1> QED
  BY <1>1, Invariance, PTL

\* TR-29: an attribution_ambiguous event names a case that lost to an older one.
THEOREM LosersCorrect == Spec => []LosersLoseToOlder
<1>1. IInv => LosersLoseToOlder
  BY DEF IInv
<1> QED
  BY <1>1, Invariance, PTL

\* engine.py:124-133: locking winners and losers by age leaves one circle, for any
\* number of runs: two that share a winner through their payments rows.
THEOREM CirclesCorrect == Spec => []CirclesShareTheirWinner
  BY Invariance, NoOtherCircle, PTL
=============================================================================
