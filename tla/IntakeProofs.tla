---------------------------- MODULE IntakeProofs ----------------------------
(***************************************************************************)
(* Proofs about detection, for any number of runs, events and customers.   *)
(*                                                                         *)
(* The argument: a case is committed only by a run whose row is in the     *)
(* index, and nobody commits or inserts under its entry while it is there  *)
(* (EntriesHeld).  A run past already_detected whose event has a case by   *)
(* now overlapped the run that opened it (Late), because a second run in   *)
(* hand marks the event (Raced).  What a caller may commit for a run that  *)
(* returned without a case is the customer of an event that is no leak, or *)
(* has its case (ForNothing).                                              *)
(***************************************************************************)
EXTENDS Intake, SequenceTheorems, TLAPS

\* An uncommitted case is alone under its entry of the index.
EntriesHeld ==
    \A d \in Detectors : at[d] = "inserted" =>
        /\ ~Shadowed(event[d])
        /\ \A k \in Detectors \ {d} : at[k] = "inserted" => ~SameEntry(event[k], event[d])

\* Two runs that have one event in hand now have overlapped.
Raced ==
    \A d, k \in Detectors :
        /\ d # k /\ event[d] = event[k] /\ event[d] \in Events
        /\ at[d] # "returned" /\ at[k] # "returned"
        => event[d] \in overlapped

\* Past already_detected, a case of the event can only be another run's.
Late ==
    \A d \in Detectors :
        at[d] \in {"undetected", "inserted"} /\ cases[event[d]] # <<>>
            => event[d] \in overlapped

\* An event in hand is stored; a run that returned had nothing to open a case for.
ForNothing ==
    \A d \in Detectors :
        /\ at[d] # "idle" => event[d] \in raw_events
        /\ at[d] = "returned" => cases[event[d]] # <<>> \/ ~Leak(event[d])

IInv ==
    /\ TypeOK
    /\ OneOpenCase
    /\ OneCaseUnlessRaced
    /\ CustomersHaveReasons
    /\ EntriesHeld
    /\ Raced
    /\ Late
    /\ ForNothing

-----------------------------------------------------------------------------
(* Types.                                                                  *)

\* The stages are what the steps below say.
LEMMA TypesHold == TypeOK /\ [Next]_vars => TypeOK'
<1> SUFFICES ASSUME TypeOK, [Next]_vars
             PROVE  TypeOK'
  OBVIOUS
<1> USE IntakeConstants
<1>1. CASE UNCHANGED vars
  BY <1>1 DEF TypeOK, vars, database, runVars
<1>2. ASSUME NEW e \in Events, Receive(e)
      PROVE  TypeOK'
  BY <1>2 DEF TypeOK, Receive, StoreRawEvent, runVars
<1>3. ASSUME NEW e \in Events, NEW i \in DOMAIN cases[e], Close(e, i)
      PROVE  TypeOK'
  <2>1. cases[e] \in Seq({"open", "over"}) /\ i \in 1..Len(cases[e])
    BY <1>3 DEF TypeOK
  <2>2. [cases[e] EXCEPT ![i] = "over"] \in Seq({"open", "over"})
    BY <2>1, ExceptSeq
  <2> QED
    BY <1>3, <2>2 DEF TypeOK, Close, runVars
<1>4. ASSUME NEW d \in Detectors, RunDetection(d) \/ Crash(d)
      PROVE  TypeOK'
  <2>1. ASSUME NEW e \in Events, Start(d, e)
        PROVE  TypeOK'
    BY <2>1 DEF TypeOK, Start, Goto, Stages, database
  <2>2. CASE FindCustomer(d) \/ InsertCustomer(d)
    BY <2>2 DEF TypeOK, FindCustomer, InsertCustomer, Goto, Stages, database
  <2>3. CASE CustomerExists(d) \/ RefuseCase(d) \/ Crash(d)
    BY <2>3 DEF TypeOK, CustomerExists, RefuseCase, Crash, Leave, Goto, Stages, database
  <2>4. CASE CheckDetected(d)
    BY <2>4 DEF TypeOK, CheckDetected, Goto, Stages, database
  <2>5. CASE InsertCase(d)
    BY <2>5 DEF TypeOK, InsertCase, Goto, Stages, database
  <2>6. CASE Commit(d)
    <3>1. event[d] \in Events /\ CustomerAt(d) \in Customers
      BY <2>6 DEF TypeOK, Commit, CustomerAt
    <3>2. Append(cases[event[d]], "open") \in Seq({"open", "over"})
      BY <3>1 DEF TypeOK
    <3>3. cases' \in [Events -> Seq({"open", "over"})]
      BY <2>6, <3>2 DEF TypeOK, Commit
    <3> QED
      BY <2>6, <3>1, <3>3 DEF TypeOK, Commit, Leave, Goto, Stages
  <2>7. CASE EndByCaller(d)
    <3>1. CustomerAt(d) \in Customers
      BY <2>7 DEF TypeOK, EndByCaller, CustomerAt
    <3> QED
      BY <2>7, <3>1 DEF TypeOK, EndByCaller, Leave, Goto, Stages
  <2> QED
    BY <1>4, <2>1, <2>2, <2>3, <2>4, <2>5, <2>6, <2>7 DEF RunDetection
<1> QED
  BY <1>1, <1>2, <1>3, <1>4 DEF Next

-----------------------------------------------------------------------------
(* The invariant.                                                          *)

\* What the table and the history alone say survives a step that writes no
\* row and forgets no overlap.
LEMMA TableUntouched ==
    ASSUME IInv, UNCHANGED <<customers, cases>>,
           raw_events \subseteq raw_events', overlapped \subseteq overlapped'
    PROVE  OneOpenCase' /\ OneCaseUnlessRaced' /\ CustomersHaveReasons'
<1>1. OneOpenCase'
  BY DEF IInv, OneOpenCase
<1>2. OneCaseUnlessRaced'
  BY DEF IInv, OneCaseUnlessRaced
<1>3. CustomersHaveReasons'
  BY DEF IInv, CustomersHaveReasons
<1> QED
  BY <1>1, <1>2, <1>3

\* A run that leaves without a commit takes what the invariant says of it away.
LEMMA LeavingIsSafe ==
    ASSUME IInv, TypeOK', NEW d \in Detectors, Leave(d), UNCHANGED <<database, overlapped>>
    PROVE  IInv'
<1> USE DEF Leave, Goto, database
<1>1. OneOpenCase' /\ OneCaseUnlessRaced' /\ CustomersHaveReasons'
  BY TableUntouched
<1>2. EntriesHeld'
  BY DEF IInv, TypeOK, EntriesHeld, Shadowed
<1>3. Raced'
  BY IntakeConstants DEF IInv, TypeOK, Raced
<1>4. Late'
  BY DEF IInv, TypeOK, Late
<1>5. ForNothing'
  BY DEF IInv, TypeOK, ForNothing
<1> QED
  BY <1>1, <1>2, <1>3, <1>4, <1>5 DEF IInv

\* So does a run that only gets on, short of having its case in the index.
LEMMA GettingOnIsSafe ==
    ASSUME IInv, TypeOK', NEW d \in Detectors, NEW s \in Stages \ {"inserted"}, Goto(d, s),
           at[d] \notin {"idle", "returned"},
           s = "undetected" => cases[event[d]] = <<>>,
           s = "returned" => cases[event[d]] # <<>> \/ ~Leak(event[d]),
           UNCHANGED <<database, event, overlapped>>
    PROVE  IInv'
<1> USE DEF Goto, database
<1>1. OneOpenCase' /\ OneCaseUnlessRaced' /\ CustomersHaveReasons'
  BY TableUntouched
<1>2. EntriesHeld'
  BY DEF IInv, TypeOK, EntriesHeld, Shadowed
<1>3. Raced'
  BY DEF IInv, TypeOK, Raced
<1>4. Late'
  BY DEF IInv, TypeOK, Late
<1>5. ForNothing'
  BY DEF IInv, TypeOK, ForNothing
<1> QED
  BY <1>1, <1>2, <1>3, <1>4, <1>5 DEF IInv

\* Taking an event in hand: if another run has it, it is marked.
LEMMA StartingIsSafe ==
    ASSUME IInv, TypeOK', NEW d \in Detectors, NEW e \in Events, Start(d, e)
    PROVE  IInv'
<1> USE DEF Start, Goto, database
<1>0. overlapped \subseteq overlapped'
  OBVIOUS
<1>1. OneOpenCase' /\ OneCaseUnlessRaced' /\ CustomersHaveReasons'
  BY <1>0, TableUntouched
<1>2. EntriesHeld'
  BY DEF IInv, TypeOK, EntriesHeld, Shadowed
<1>3. Raced'
  <2> SUFFICES ASSUME NEW k \in Detectors, NEW l \in Detectors, k # l,
                      event'[k] = event'[l], event'[k] \in Events,
                      at'[k] # "returned", at'[l] # "returned"
               PROVE  event'[k] \in overlapped'
    BY DEF Raced
  <2>1. CASE k # d /\ l # d
    BY <2>1, <1>0 DEF IInv, TypeOK, Raced
  <2>2. CASE k = d \/ l = d
    BY <2>2 DEF IInv, TypeOK, Handling
  <2> QED
    BY <2>1, <2>2
<1>4. Late'
  BY <1>0 DEF IInv, TypeOK, Late
<1>5. ForNothing'
  BY DEF IInv, TypeOK, ForNothing
<1> QED
  BY <1>1, <1>2, <1>3, <1>4, <1>5 DEF IInv

\* The index lets a case in only beside cases of other entries.
LEMMA InsertingIsSafe ==
    ASSUME IInv, TypeOK', NEW d \in Detectors, InsertCase(d)
    PROVE  IInv'
<1> USE DEF InsertCase, Goto, database
<1>1. OneOpenCase' /\ OneCaseUnlessRaced' /\ CustomersHaveReasons'
  BY TableUntouched
<1>2. EntriesHeld'
  <2> SUFFICES ASSUME NEW k \in Detectors, at'[k] = "inserted"
               PROVE  /\ ~Shadowed(event[k])
                      /\ \A l \in Detectors \ {k} :
                            at'[l] = "inserted" => ~SameEntry(event[l], event[k])
    BY DEF EntriesHeld, Shadowed
  <2>1. CASE k = d
    BY <2>1 DEF IInv, TypeOK
  <2>2. CASE k # d
    BY <2>2 DEF IInv, TypeOK, EntriesHeld, SameEntry
  <2> QED
    BY <2>1, <2>2
<1>3. Raced'
  BY DEF IInv, TypeOK, Raced
<1>4. Late'
  BY DEF IInv, TypeOK, Late
<1>5. ForNothing'
  BY DEF IInv, TypeOK, ForNothing
<1> QED
  BY <1>1, <1>2, <1>3, <1>4, <1>5 DEF IInv

\* Closing a case opens none, and an event keeps as many cases as it had.
LEMMA ClosingIsSafe ==
    ASSUME IInv, TypeOK', NEW e \in Events, NEW i \in DOMAIN cases[e], Close(e, i)
    PROVE  IInv'
<1> USE DEF Close, runVars
<1>1. \A f \in Events : /\ DOMAIN cases'[f] = DOMAIN cases[f]
                         /\ Len(cases'[f]) = Len(cases[f])
                         /\ cases'[f] = <<>> <=> cases[f] = <<>>
                         /\ \A j \in DOMAIN cases[f] :
                               cases'[f][j] = "open" => cases[f][j] = "open"
  <2> SUFFICES ASSUME NEW f \in Events
               PROVE  /\ DOMAIN cases'[f] = DOMAIN cases[f]
                      /\ Len(cases'[f]) = Len(cases[f])
                      /\ cases'[f] = <<>> <=> cases[f] = <<>>
                      /\ \A j \in DOMAIN cases[f] :
                            cases'[f][j] = "open" => cases[f][j] = "open"
    OBVIOUS
  <2>1. cases[f] \in Seq({"open", "over"}) /\ cases'[f] \in Seq({"open", "over"})
    BY DEF IInv, TypeOK
  <2>2. cases'[f] = IF f = e THEN [cases[e] EXCEPT ![i] = "over"] ELSE cases[f]
    BY DEF IInv, TypeOK
  <2>3. DOMAIN cases'[f] = DOMAIN cases[f]
    BY <2>2
  <2>4. Len(cases'[f]) = Len(cases[f])
    BY <2>1, <2>3, LenProperties
  <2>5. cases'[f] = <<>> <=> cases[f] = <<>>
    BY <2>1, <2>4, EmptySeq
  <2>6. \A j \in DOMAIN cases[f] : cases'[f][j] = "open" => cases[f][j] = "open"
    BY <2>2
  <2> QED
    BY <2>3, <2>4, <2>5, <2>6
<1>2. OneOpenCase'
  BY <1>1 DEF IInv, OneOpenCase
<1>3. OneCaseUnlessRaced'
  BY <1>1 DEF IInv, OneCaseUnlessRaced
<1>4. CustomersHaveReasons'
  BY <1>1 DEF IInv, CustomersHaveReasons
<1>5. \A f \in Events : Shadowed(f)' => Shadowed(f)
  BY <1>1 DEF Shadowed
<1>6. EntriesHeld'
  BY <1>5 DEF IInv, TypeOK, EntriesHeld
<1>7. Raced'
  BY DEF IInv, Raced
<1>8. Late'
  BY <1>1 DEF IInv, TypeOK, Late
<1>9. ForNothing'
  BY <1>1 DEF IInv, TypeOK, ForNothing
<1> QED
  BY <1>2, <1>3, <1>4, <1>6, <1>7, <1>8, <1>9 DEF IInv

\* The caller's commit: the customer of an event that is no leak, or has its case.
LEMMA EndingIsSafe ==
    ASSUME IInv, TypeOK', NEW d \in Detectors, EndByCaller(d)
    PROVE  IInv'
<1> USE DEF EndByCaller, Leave, Goto
<1>1. OneOpenCase' /\ OneCaseUnlessRaced'
  BY DEF IInv, OneOpenCase, OneCaseUnlessRaced
<1>2. CustomersHaveReasons'
  <2>1. /\ event[d] \in raw_events
        /\ cases[event[d]] # <<>> \/ ~Leak(event[d])
    BY DEF IInv, ForNothing
  <2>2. \A c \in customers' : c \in customers \/ c = CustomerOf[event[d]]
    BY DEF CustomerAt
  <2>3. customers \subseteq customers'
    OBVIOUS
  <2> QED
    BY <2>1, <2>2, <2>3 DEF IInv, CustomersHaveReasons
<1>3. EntriesHeld'
  BY DEF IInv, TypeOK, EntriesHeld, Shadowed
<1>4. Raced'
  BY IntakeConstants DEF IInv, TypeOK, Raced
<1>5. Late'
  BY DEF IInv, TypeOK, Late
<1>6. ForNothing'
  BY DEF IInv, TypeOK, ForNothing
<1> QED
  BY <1>1, <1>2, <1>3, <1>4, <1>5, <1>6 DEF IInv

\* The commit: one open case more, of an entry nobody else has.
LEMMA CommittingIsSafe ==
    ASSUME IInv, TypeOK', NEW d \in Detectors, Commit(d)
    PROVE  IInv'
<1> DEFINE e == event[d]
<1> USE DEF Commit, Leave, Goto
<1>1. e \in Events /\ cases[e] \in Seq({"open", "over"})
  BY DEF IInv, TypeOK
<1>2. cases' = [cases EXCEPT ![e] = Append(cases[e], "open")]
  OBVIOUS
<1>3. /\ Len(cases'[e]) = Len(cases[e]) + 1
      /\ DOMAIN cases'[e] = 1..(Len(cases[e]) + 1)
      /\ \A i \in 1..Len(cases[e]) : cases'[e][i] = cases[e][i]
      /\ DOMAIN cases[e] = 1..Len(cases[e])
      /\ Len(cases[e]) \in Nat
      /\ cases'[e] # <<>>
  <2>1. cases'[e] = Append(cases[e], "open")
    BY <1>1, <1>2 DEF IInv, TypeOK
  <2> QED
    BY <1>1, <2>1, AppendProperties, LenProperties
<1>4. \A f \in Events \ {e} : cases'[f] = cases[f]
  BY <1>1, <1>2 DEF IInv, TypeOK
<1>5. ~Shadowed(e) /\ \A k \in Detectors \ {d} : at[k] = "inserted" => ~SameEntry(event[k], e)
  BY DEF IInv, EntriesHeld
<1>6. \A f \in Events : \A i \in DOMAIN cases'[f] :
        cases'[f][i] = "open" => \/ f = e /\ i = Len(cases[e]) + 1
                                 \/ i \in DOMAIN cases[f] /\ cases[f][i] = "open"
  BY <1>3, <1>4
<1>7. \A f \in Events : SameEntry(e, f) => \A i \in DOMAIN cases[f] : cases[f][i] # "open"
  BY <1>5 DEF Shadowed
<1>8. OneOpenCase'
  <2> SUFFICES ASSUME NEW f \in Events, NEW g \in Events, SameEntry(f, g),
                      NEW i \in DOMAIN cases'[f], NEW j \in DOMAIN cases'[g],
                      cases'[f][i] = "open", cases'[g][j] = "open"
               PROVE  f = g /\ i = j
    BY DEF OneOpenCase, SameEntry
  <2>1. SameEntry(g, f) /\ SameEntry(e, e)
    BY DEF SameEntry
  <2>2. CASE f = e /\ i = Len(cases[e]) + 1
    BY <1>6, <1>7, <2>1, <2>2
  <2>3. CASE g = e /\ j = Len(cases[e]) + 1
    BY <1>6, <1>7, <2>1, <2>3
  <2>4. CASE /\ i \in DOMAIN cases[f] /\ cases[f][i] = "open"
             /\ j \in DOMAIN cases[g] /\ cases[g][j] = "open"
    BY <2>4 DEF IInv, OneOpenCase
  <2> QED
    BY <1>6, <2>2, <2>3, <2>4
<1>9. OneCaseUnlessRaced'
  <2>1. Len(cases[e]) > 0 => e \in overlapped
    BY <1>1, <1>3, EmptySeq DEF IInv, Late
  <2> QED
    BY <1>1, <1>3, <1>4, <2>1 DEF IInv, OneCaseUnlessRaced
<1>10. CustomersHaveReasons'
  <2>1. e \in raw_events /\ cases'[e] # <<>>
    BY <1>3 DEF IInv, ForNothing
  <2>2. \A f \in Events : cases[f] # <<>> => cases'[f] # <<>>
    BY <1>3, <1>4
  <2>3. \A f \in Events : cases'[f] # <<>> => CustomerOf[f] \in customers'
    BY <1>4 DEF IInv, CustomersHaveReasons, CustomerAt
  <2>4. \A c \in customers' : c \in customers \/ c = CustomerOf[e]
    BY DEF CustomerAt
  <2>5. raw_events \subseteq Events
    BY DEF IInv, TypeOK
  <2> QED
    BY <2>1, <2>2, <2>3, <2>4, <2>5 DEF IInv, CustomersHaveReasons
<1>11. EntriesHeld'
  <2> SUFFICES ASSUME NEW k \in Detectors, at'[k] = "inserted"
               PROVE  /\ ~Shadowed(event[k])'
                      /\ \A l \in Detectors \ {k} :
                            at'[l] = "inserted" => ~SameEntry(event'[l], event'[k])
    BY DEF EntriesHeld, SameEntry
  <2>1. k # d /\ at[k] = "inserted" /\ event'[k] = event[k]
    BY DEF IInv, TypeOK
  <2>2. ~SameEntry(event[k], e) /\ ~Shadowed(event[k])
    BY <1>5, <2>1 DEF IInv, EntriesHeld
  <2>3. ~Shadowed(event[k])'
    BY <1>6, <2>1, <2>2 DEF Shadowed, SameEntry
  <2>4. \A l \in Detectors \ {k} :
            at'[l] = "inserted" => ~SameEntry(event'[l], event'[k])
    BY <2>1 DEF IInv, TypeOK, EntriesHeld
  <2> QED
    BY <2>3, <2>4
<1>12. Raced'
  BY IntakeConstants DEF IInv, TypeOK, Raced
<1>13. Late'
  <2> SUFFICES ASSUME NEW k \in Detectors, at'[k] \in {"undetected", "inserted"},
                      cases'[event'[k]] # <<>>
               PROVE  event'[k] \in overlapped
    BY DEF Late
  <2>1. k # d /\ at'[k] = at[k] /\ event'[k] = event[k] /\ event[k] \in Events
    BY DEF IInv, TypeOK
  <2>2. CASE event[k] = e
    BY <1>1, <2>1, <2>2 DEF IInv, Raced
  <2>3. CASE event[k] # e
    BY <1>4, <2>1, <2>3 DEF IInv, Late
  <2> QED
    BY <2>2, <2>3
<1>14. ForNothing'
  BY <1>3, <1>4 DEF IInv, TypeOK, ForNothing
<1> QED
  BY <1>8, <1>9, <1>10, <1>11, <1>12, <1>13, <1>14 DEF IInv

\* The invariant of detection: no crash, race or closed case breaks it.
THEOREM DetectionInvariance == Spec => []IInv
<1>1. Init => IInv
  <2> SUFFICES ASSUME Init
               PROVE  IInv
    OBVIOUS
  <2>1. \A e \in Events : cases[e] = <<>> /\ DOMAIN cases[e] = {} /\ Len(cases[e]) = 0
    BY DEF Init
  <2>2. TypeOK
    BY IntakeConstants DEF Init, TypeOK, Stages
  <2>3. OneOpenCase /\ OneCaseUnlessRaced
    BY <2>1 DEF OneOpenCase, OneCaseUnlessRaced
  <2>4. CustomersHaveReasons
    BY <2>1 DEF Init, CustomersHaveReasons
  <2>5. EntriesHeld /\ Raced /\ Late /\ ForNothing
    BY IntakeConstants DEF Init, EntriesHeld, Raced, Late, ForNothing
  <2> QED
    BY <2>2, <2>3, <2>4, <2>5 DEF IInv
<1>2. IInv /\ [Next]_vars => IInv'
  <2> SUFFICES ASSUME IInv, [Next]_vars
               PROVE  IInv'
    OBVIOUS
  <2>0. TypeOK'
    BY TypesHold DEF IInv
  <2>1. CASE UNCHANGED vars
    BY <2>1 DEF IInv, TypeOK, OneOpenCase, OneCaseUnlessRaced, CustomersHaveReasons,
                EntriesHeld, Shadowed, Raced, Late, ForNothing, vars, database, runVars
  <2>2. ASSUME NEW e \in Events, Receive(e)
        PROVE  IInv'
    <3>1. OneOpenCase' /\ OneCaseUnlessRaced' /\ CustomersHaveReasons'
      BY <2>2, TableUntouched DEF Receive, StoreRawEvent
    <3>2. ForNothing'
      BY <2>2 DEF IInv, ForNothing, Receive, StoreRawEvent, runVars
    <3> QED
      BY <2>0, <2>2, <3>1, <3>2 DEF IInv, EntriesHeld, Shadowed, Raced, Late, Receive, runVars
  <2>3. ASSUME NEW e \in Events, NEW i \in DOMAIN cases[e], Close(e, i)
        PROVE  IInv'
    BY <2>0, <2>3, ClosingIsSafe
  <2>4. ASSUME NEW d \in Detectors, RunDetection(d) \/ Crash(d)
        PROVE  IInv'
    <3>1. ASSUME NEW e \in Events, Start(d, e)
          PROVE  IInv'
      BY <2>0, <3>1, StartingIsSafe
    <3>2. CASE FindCustomer(d)
      BY <2>0, <3>2, GettingOnIsSafe DEF FindCustomer, Stages, database
    <3>3. CASE InsertCustomer(d)
      BY <2>0, <3>3, GettingOnIsSafe DEF InsertCustomer, Stages, database
    <3>4. CASE CustomerExists(d) \/ RefuseCase(d) \/ Crash(d)
      BY <2>0, <3>4, LeavingIsSafe DEF CustomerExists, RefuseCase, Crash
    <3>5. CASE CheckDetected(d)
      <4>1. \/ Goto(d, "undetected") /\ cases[event[d]] = <<>>
            \/ Goto(d, "returned") /\ (cases[event[d]] # <<>> \/ ~Leak(event[d]))
        BY <3>5 DEF CheckDetected
      <4> QED
        BY <2>0, <3>5, <4>1, GettingOnIsSafe DEF CheckDetected, Stages, database
    <3>6. CASE InsertCase(d)
      BY <2>0, <3>6, InsertingIsSafe
    <3>7. CASE Commit(d)
      BY <2>0, <3>7, CommittingIsSafe
    <3>8. CASE EndByCaller(d)
      BY <2>0, <3>8, EndingIsSafe
    <3> QED
      BY <2>4, <3>1, <3>2, <3>3, <3>4, <3>5, <3>6, <3>7, <3>8 DEF RunDetection
  <2> QED
    BY <2>1, <2>2, <2>3, <2>4 DEF Next
<1> QED
  BY <1>1, <1>2, PTL DEF Spec

\* Every reachable state of ingestion and detection is well typed.
THEOREM IntakeTypeCorrect == Spec => []TypeOK
<1>1. IInv => TypeOK
  BY DEF IInv
<1> QED
  BY <1>1, DetectionInvariance, PTL

\* TR-8: one open case of a customer and an amount, however many runs race.
THEOREM OneCaseIsOpen == Spec => []OneOpenCase
<1>1. IInv => OneOpenCase
  BY DEF IInv
<1> QED
  BY <1>1, DetectionInvariance, PTL

\* TR-4: an event opens a second case only if two runs had it in hand at once.
THEOREM SecondCaseNeedsARace == Spec => []OneCaseUnlessRaced
<1>1. IInv => OneCaseUnlessRaced
  BY DEF IInv
<1> QED
  BY <1>1, DetectionInvariance, PTL

\* Every case has its customer, and a customer without a case is one that an event
\* named which is no leak: no refused, raced or dead run over a leak leaves one.
THEOREM CustomersAreAccountedFor == Spec => []CustomersHaveReasons
<1>1. IInv => CustomersHaveReasons
  BY DEF IInv
<1> QED
  BY <1>1, DetectionInvariance, PTL
=============================================================================
