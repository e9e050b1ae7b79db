----------------------------- MODULE GateProofs -----------------------------
(***************************************************************************)
(* Proofs about the gate, for any cases, playbooks, caps, opening hours,   *)
(* facts and customer.                                                     *)
(*                                                                         *)
(* The gate answers for the tick it is asked in.  What makes the answer    *)
(* last: contacts and words are dated when they are recorded, so that      *)
(* none comes in behind an older one (Dated); the date consent was asked   *)
(* for does not move, and lies behind the contact however a promise moved  *)
(* the row (DatesStand).                                                   *)
(*                                                                         *)
(* What makes a budget last: it is the cost of what was planned, and a     *)
(* step is charged what it was planned to cost, or nothing (Budgeted).     *)
(***************************************************************************)
EXTENDS Gate, PlannerProofs

\* The clock, the customer, and the contacts so far.
Dated ==
    /\ now \in 0..MaxTime
    /\ fact \in Facts
    /\ utc_offset \in Offsets
    /\ \A word \in consent_events : word.occurred_at \in Int
    /\ IsFiniteSet(contact_events)
    /\ \A e \in contact_events :
        /\ e.case \in Cases /\ e.step \in StepsOf(e.case)
        /\ e.occurred_at \in 0..now
        /\ state[e.case] # "detected"
        /\ due[e.case][e.step] \in Nat /\ due[e.case][e.step] <= e.occurred_at

Plans == UNION {[StepsOf(k) -> Nat \cup {NULL}] : k \in Cases}

\* A step is due when it was planned to be, and its row no sooner.
DatesStand ==
    /\ DOMAIN state = Cases
    /\ due \in [Cases -> Plans] /\ row_due \in [Cases -> Plans]
    /\ \A k \in Cases :
        /\ due[k] \in [StepsOf(k) -> Nat \cup {NULL}]
        /\ row_due[k] \in [StepsOf(k) -> Nat \cup {NULL}]
        /\ \A i \in Planned(k) : due[k][i] \in Nat /\ row_due[k][i] \in Nat
                                    /\ due[k][i] <= row_due[k][i]
        /\ state[k] = "detected" => Planned(k) = {}

\* Every step of every case has its place for a decision.
Filed ==
    /\ DOMAIN decision = Cases
    /\ \A k \in Cases : decision[k] = [i \in StepsOf(k) |-> decision[k][i]]

\* What is left of a budget pays for what is still to be decided; nothing is
\* budgeted or spent before a case is planned, and what is planned is what
\* fits.
Budgeted ==
    /\ cost_spent \in [Cases -> Nat] /\ cost_ceiling \in [Cases -> Nat]
    /\ \A k \in Cases :
        /\ state[k] = "detected" => cost_spent[k] = 0 /\ cost_ceiling[k] = 0
        /\ Planned(k) # {} => Planned(k) = IncludedSteps(PlaybookOf[k], AtRisk[k])
        /\ cost_spent[k] + CostOf(PlaybookOf[k], Waiting(k)) <= cost_ceiling[k]
        /\ cost_ceiling[k] <= CeilingFor(PlaybookOf[k], AtRisk[k])

\* Where the cases are, what words there were, and what the decisions are of.
Typed ==
    /\ words \in 0..MaxWords
    /\ \A k \in Cases :
        /\ state[k] \in States
        /\ \A i \in StepsOf(k) :
            /\ decision[k][i] \in Decisions \cup {None, Cancelled}
            /\ decision[k][i] # None => i \in Planned(k)

IInv ==
    /\ Dated
    /\ DatesStand
    /\ LoadsContacts => ContactsWithinCaps
    /\ OnlyEmailAtNight
    /\ ContactsHadConsent
    /\ Filed
    /\ DeferredNoLongerThanNeeded
    /\ Budgeted
    /\ Typed

-----------------------------------------------------------------------------
(* Days.                                                                   *)

LEMMA Multiples ==
    ASSUME NEW d \in Nat, NEW a \in Int, NEW b \in Int, a <= b
    PROVE  a * d <= b * d
  OBVIOUS

LEMMA Parts ==
    ASSUME NEW d \in Nat \ {0}, NEW t \in Int
    PROVE  /\ t \div d \in Int
           /\ t = (t \div d) * d + (t % d)
  OBVIOUS

\* An instant within opening hours is in no night, of whatever date.
LEMMA NotAtNight ==
    ASSUME NEW d \in Nat \ {0}, NEW closes \in 1..d, NEW opens \in 0..(closes - 1),
           NEW t \in Int, t % d \in opens..(closes - 1), NEW date \in Int
    PROVE  t \notin (date * d + closes)..((date + 1) * d + opens - 1)
<1> DEFINE day == t \div d
           local == t % d
<1>1. day \in Int /\ local \in opens..(closes - 1) /\ t = day * d + local
  BY Parts
<1> HIDE DEF day, local
<1>2. CASE date + 1 <= day
  <2>1. (date + 1) * d <= day * d
    BY <1>1, <1>2, Multiples
  <2>2. (date + 1) * d \in Int /\ day * d \in Int
    BY <1>1
  <2> QED
    BY <1>1, <2>1, <2>2
<1>3. CASE day <= date
  <2>1. day * d <= date * d
    BY <1>1, <1>3, Multiples
  <2>2. date * d \in Int /\ day * d \in Int
    BY <1>1
  <2> QED
    BY <1>1, <2>1, <2>2
<1> QED
  BY <1>1, <1>2, <1>3

-----------------------------------------------------------------------------
(* The engine.                                                             *)

\* What is allowed is what no rule is against.
LEMMA AllowedMeans ==
    ASSUME NEW a, NEW c, Evaluate(a, c).verdict = "allow"
    PROVE  ~OptedOut(c) /\ ~NoConsent(a, c) /\ ~QuietHours(a, c) /\ ~FrequencyCap(a, c)
<1> DEFINE firing == {i \in DOMAIN RULES : Fires(RULES[i], a, c)}
<1>1. firing = {}
  <2>1. firing # {} => Evaluate(a, c).verdict \in {"defer", "deny"}
    BY DEF Evaluate
  <2> QED
    BY <2>1
<1>2. \A i \in DOMAIN RULES : ~Fires(RULES[i], a, c)
  BY <1>1
<1>3. {2, 11, 13, 14} \subseteq DOMAIN RULES
      /\ RULES[2] = "customer_opt_out" /\ RULES[11] = "no_consent"
      /\ RULES[13] = "quiet_hours" /\ RULES[14] = "frequency_cap"
  BY DEF RULES
<1>4. /\ ~Fires("customer_opt_out", a, c) /\ ~Fires("no_consent", a, c)
      /\ ~Fires("quiet_hours", a, c) /\ ~Fires("frequency_cap", a, c)
  BY <1>2, <1>3
<1> QED
  BY <1>4 DEF Fires

\* A case is put off as a whole for a promise, and to the date of the promise.
LEMMA DeferralMeans ==
    ASSUME NEW a, NEW c, NEW d, d = Evaluate(a, c), d.verdict = "defer",
           d.rule_id \in DOMAIN STOPPING_OUTCOMES
    PROVE  c.promise_to_pay # NULL /\ d.defer_until = c.promise_to_pay * Day
<1> DEFINE firing == {i \in DOMAIN RULES : Fires(RULES[i], a, c)}
           rule == RULES[Min(firing)]
<1>1. firing # {}
  BY DEF Evaluate
<1>2. d.rule_id = rule /\ Defers(rule) /\ d.defer_until = DeferUntil(rule, a, c)
  BY <1>1 DEF Evaluate
<1>3. rule = "promise_to_pay_active"
  BY <1>2 DEF Defers, STOPPING_OUTCOMES
<1>4. Min(firing) \in firing
  <2>1. firing \subseteq Nat
    BY DEF RULES
  <2> HIDE DEF firing
  <2>2. \E i \in firing : \A j \in firing : i <= j
    BY <1>1, <2>1, LeastNat
  <2> QED
    BY <2>2 DEF Min
<1>5. PromiseActive(c)
  BY <1>3, <1>4 DEF Fires
<1> QED
  BY <1>2, <1>3, <1>5 DEF PromiseActive, DeferUntil

-----------------------------------------------------------------------------
(* Dates.                                                                  *)

\* What the gate is told of the clock and of the ledgers.
LEMMA ContextIs ==
    ASSUME NEW k
    PROVE  /\ Context(k).now = now /\ Context(k).utc_offset = utc_offset
           /\ Context(k).consent_events = consent_events
           /\ Context(k).contact_history =
                  IF LoadsContacts THEN {e \in contact_events : e.occurred_at >= now - Week}
                                   ELSE {}
           /\ Context(k).promise_to_pay = fact.promise_to_pay
  BY DEF Context, LoadConsentEvents, LoadContactHistory

\* A case is planned once.
LEMMA PlannedStays ==
    ASSUME DatesStand, [Next]_vars, NEW k \in Cases, state[k] # "detected"
    PROVE  state'[k] # "detected" /\ due'[k] = due[k]
<1> DEFINE Goal == state'[k] # "detected" /\ due'[k] = due[k]
<1>1. ASSUME NEW l \in Cases, PersistPlan(l)
      PROVE  Goal
  BY <1>1 DEF PersistPlan, DatesStand
<1>2. ASSUME NEW l \in Cases, NEW i, NEW d,
             Execute(l, i, d) \/ ExecuteFails(l, i, d) \/ Refuse(l, i, d)
      PROVE  Goal
  BY <1>2 DEF Execute, ExecuteFails, Refuse, DatesStand, caseVars, Recovered
<1>3. ASSUME NEW l \in Cases, NEW i, NEW d, Stop(l, i, d)
      PROVE  Goal
  <2>1. STOPPING_OUTCOMES[d.rule_id] # "detected" \/ STOPPING_OUTCOMES[d.rule_id] = NULL
    BY <1>3 DEF Stop, STOPPING_OUTCOMES
  <2> QED
    BY <1>3, <2>1 DEF Stop, DatesStand
<1> QED
  BY <1>1, <1>2, <1>3 DEF Next, vars, caseVars, planVars, Advance, RecordConsent, GateAndExecute

LEMMA DatesStandHold == Dated /\ DatesStand /\ [Next]_vars => DatesStand'
<1> SUFFICES ASSUME Dated, DatesStand, [Next]_vars
             PROVE  DatesStand'
  OBVIOUS
<1>1. ASSUME UNCHANGED <<due, row_due>>, DOMAIN state' = Cases,
             \A k \in Cases : state'[k] = "detected" => state[k] = "detected"
      PROVE  DatesStand'
  BY <1>1 DEF DatesStand, Planned
<1>2. ASSUME NEW k \in Cases, PersistPlan(k)
      PROVE  DatesStand'
  <2> DEFINE dates == [i \in StepsOf(k) |->
                          IF i \in IncludedSteps(PlaybookOf[k], AtRisk[k])
                          THEN DueDates(PlaybookOf[k], now)[i] ELSE NULL]
  <2>1. dates \in [StepsOf(k) -> Nat \cup {NULL}]
    <3>1. WellFormed(PlaybookOf[k]) /\ now \in Nat
      BY GateConstants DEF Dated
    <3>2. DueDates(PlaybookOf[k], now) \in [StepsOf(k) -> Nat]
      BY <3>1, DatesAreInstants DEF StepsOf
    <3> QED
      BY <3>2
  <2>2. due' = [due EXCEPT ![k] = dates] /\ row_due' = [row_due EXCEPT ![k] = dates]
    BY <1>2 DEF PersistPlan
  <2>3. DOMAIN state' = Cases /\ state'[k] # "detected"
        /\ \A l \in Cases \ {k} : state'[l] = state[l]
    BY <1>2 DEF PersistPlan, DatesStand
  <2>4. dates \in Plans
    BY <2>1 DEF Plans
  <2> HIDE DEF dates
  <2>5. /\ due' \in [Cases -> Plans] /\ row_due' \in [Cases -> Plans]
        /\ due'[k] = dates /\ row_due'[k] = dates
        /\ \A l \in Cases \ {k} : due'[l] = due[l] /\ row_due'[l] = row_due[l]
    BY <2>2, <2>4 DEF DatesStand
  <2> QED
    BY <2>1, <2>3, <2>5 DEF DatesStand, Planned
<1>3. ASSUME NEW k \in Cases, NEW i \in StepsOf(k), NEW d,
             d = Evaluate(ActionOf(k, i), Context(k)), Stop(k, i, d)
      PROVE  DatesStand'
  <2>1. due' = due /\ DOMAIN state' = Cases
        /\ \A l \in Cases : state'[l] = "detected" => state[l] = "detected"
    <3>1. STOPPING_OUTCOMES[d.rule_id] # "detected" \/ STOPPING_OUTCOMES[d.rule_id] = NULL
      BY <1>3 DEF Stop, STOPPING_OUTCOMES
    <3> QED
      BY <1>3, <3>1 DEF Stop, DatesStand
  <2>2. CASE row_due' = row_due
    BY <1>1, <2>1, <2>2
  <2>3. CASE d.verdict = "defer"
    <3> DEFINE dates == [j \in StepsOf(k) |->
                            IF j \in Waiting(k) /\ row_due[k][j] < d.defer_until
                            THEN d.defer_until ELSE row_due[k][j]]
    <3>1. d.defer_until \in Nat
      <4>1. fact.promise_to_pay # NULL /\ d.defer_until = fact.promise_to_pay * Day
        <5>1. Context(k).promise_to_pay = fact.promise_to_pay
          BY ContextIs
        <5> QED
          BY <1>3, <2>3, <5>1, DeferralMeans DEF Stop
      <4>2. fact.promise_to_pay \in Nat
        BY <4>1, GateConstants DEF Dated
      <4> QED
        BY <4>1, <4>2, PolicyConstants
    <3>2. row_due' = [row_due EXCEPT ![k] = dates]
      BY <1>3, <2>3 DEF Stop, DatesStand
    <3>3. dates \in [StepsOf(k) -> Nat \cup {NULL}]
      BY <3>1 DEF DatesStand
    <3>4. \A j \in Planned(k) : dates[j] \in Nat /\ due[k][j] <= dates[j]
      BY <3>1 DEF DatesStand, Planned, StepsOf
    <3>5. dates \in Plans
      BY <3>3 DEF Plans
    <3> HIDE DEF dates
    <3>6. /\ row_due' \in [Cases -> Plans] /\ row_due'[k] = dates
          /\ \A l \in Cases \ {k} : row_due'[l] = row_due[l]
      BY <3>2, <3>5 DEF DatesStand
    <3> QED
      BY <2>1, <3>3, <3>4, <3>6 DEF DatesStand, Planned
  <2> QED
    BY <1>3, <2>2, <2>3 DEF Stop
<1>4. ASSUME NEW k \in Cases, NEW i, NEW d,
             Execute(k, i, d) \/ ExecuteFails(k, i, d) \/ Refuse(k, i, d)
      PROVE  DatesStand'
  <2>1. UNCHANGED <<due, row_due>> /\ DOMAIN state' = Cases
    BY <1>4 DEF Execute, ExecuteFails, Refuse, DatesStand, caseVars, Recovered
  <2>2. \A l \in Cases : state'[l] = "detected" => state[l] = "detected"
    BY <1>4 DEF Execute, ExecuteFails, Refuse, DatesStand, caseVars, Recovered
  <2> QED
    BY <1>1, <2>1, <2>2
<1>5. CASE UNCHANGED <<due, row_due, state>>
  BY <1>1, <1>5 DEF DatesStand
<1> QED
  BY <1>2, <1>3, <1>4, <1>5
     DEF Next, vars, caseVars, planVars, Advance, RecordConsent, GateAndExecute

-----------------------------------------------------------------------------
(* Contacts.                                                               *)

\* A step adds no contact but that of an action that is due and allowed.
LEMMA ContactSteps ==
    ASSUME [Next]_vars
    PROVE  \/ contact_events' = contact_events
           \/ \E k \in Cases : \E i \in StepsOf(k) :
                  /\ contact_events' = contact_events \cup {ContactOf(k, i)}
                  /\ Due(k, i) /\ IsContact(ActionOf(k, i))
                  /\ Evaluate(ActionOf(k, i), Context(k)).verdict = "allow"
                  /\ UNCHANGED <<now, world>>
<1>1. ASSUME NEW k \in Cases, NEW i \in StepsOf(k), NEW d,
             d = Evaluate(ActionOf(k, i), Context(k)), Execute(k, i, d), Due(k, i)
      PROVE  \/ contact_events' = contact_events
             \/ /\ contact_events' = contact_events \cup {ContactOf(k, i)}
                /\ Due(k, i) /\ IsContact(ActionOf(k, i))
                /\ Evaluate(ActionOf(k, i), Context(k)).verdict = "allow"
                /\ UNCHANGED <<now, world>>
  BY <1>1 DEF Execute
<1>2. ASSUME NEW k \in Cases, NEW i, NEW d,
             ExecuteFails(k, i, d) \/ Refuse(k, i, d) \/ Stop(k, i, d)
      PROVE  contact_events' = contact_events
  BY <1>2 DEF ExecuteFails, Refuse, Stop
<1>3. ASSUME NEW k \in Cases, PersistPlan(k)
      PROVE  contact_events' = contact_events
  BY <1>3 DEF PersistPlan
<1>4. ASSUME Advance \/ (\E word \in Words : RecordConsent(word)) \/ UNCHANGED vars
      PROVE  contact_events' = contact_events
  BY <1>4 DEF Advance, RecordConsent, vars
<1>5. ASSUME NEW k \in Cases, NEW i \in StepsOf(k), GateAndExecute(k, i)
      PROVE  \/ contact_events' = contact_events
             \/ /\ contact_events' = contact_events \cup {ContactOf(k, i)}
                /\ Due(k, i) /\ IsContact(ActionOf(k, i))
                /\ Evaluate(ActionOf(k, i), Context(k)).verdict = "allow"
                /\ UNCHANGED <<now, world>>
  <2> DEFINE d == Evaluate(ActionOf(k, i), Context(k))
  <2>1. /\ Due(k, i)
        /\ Execute(k, i, d) \/ ExecuteFails(k, i, d) \/ Refuse(k, i, d) \/ Stop(k, i, d)
    BY <1>5 DEF GateAndExecute
  <2> HIDE DEF d
  <2>2. CASE Execute(k, i, d)
    BY <1>1, <2>1, <2>2 DEF d
  <2> QED
    BY <1>2, <2>1, <2>2
<1> QED
  BY <1>3, <1>4, <1>5 DEF Next

\* Clock, customer and ledgers, step by step.
LEMMA WorldSteps ==
    ASSUME Dated, [Next]_vars
    PROVE  /\ now' \in now..MaxTime
           /\ fact' = fact /\ utc_offset' = utc_offset
           /\ \/ consent_events' = consent_events
              \/ \E word : /\ consent_events' = consent_events \cup {word}
                            /\ word.occurred_at = now
<1>1. ASSUME NEW word \in Words, RecordConsent(word)
      PROVE  /\ UNCHANGED <<now, fact, utc_offset>>
             /\ \E said : consent_events' = consent_events \cup {said} /\ said.occurred_at = now
  <2> DEFINE said == [channel |-> word.channel, granted |-> word.granted,
                      source |-> word.source, occurred_at |-> now]
  <2>1. consent_events' = consent_events \cup {said} /\ UNCHANGED <<now, fact, utc_offset>>
    BY <1>1 DEF RecordConsent
  <2>2. said.occurred_at = now
    OBVIOUS
  <2> HIDE DEF said
  <2> QED
    BY <2>1, <2>2
<1>2. CASE Advance
  <2>1. now' = now + 1 /\ now < MaxTime /\ UNCHANGED <<fact, utc_offset, consent_events>>
    BY <1>2 DEF Advance, world
  <2>2. now' \in now..MaxTime
    BY <2>1, GateConstants DEF Dated
  <2> QED
    BY <2>1, <2>2
<1>3. CASE UNCHANGED <<now, fact, utc_offset, consent_events>>
  BY <1>3, GateConstants DEF Dated
<1>4. now \in now..MaxTime
  BY GateConstants DEF Dated
<1>5. ASSUME NEW k \in Cases, NEW i \in StepsOf(k), GateAndExecute(k, i)
      PROVE  UNCHANGED <<now, fact, utc_offset, consent_events>>
  BY <1>5 DEF GateAndExecute, Execute, ExecuteFails, Refuse, Stop, world
<1>6. ASSUME NEW k \in Cases, PersistPlan(k)
      PROVE  UNCHANGED <<now, fact, utc_offset, consent_events>>
  BY <1>6 DEF PersistPlan, world
<1> QED
  BY <1>1, <1>2, <1>3, <1>4, <1>5, <1>6 DEF Next, vars, world

\* A new contact is dated now and was due before.
LEMMA ContactIs ==
    ASSUME Dated, DatesStand, NEW k \in Cases, NEW i \in StepsOf(k), Due(k, i)
    PROVE  /\ ContactOf(k, i).case = k /\ ContactOf(k, i).step = i
           /\ ContactOf(k, i).channel = ActionOf(k, i).channel
           /\ ContactOf(k, i).occurred_at = now
           /\ ActionOf(k, i).due_at = due[k][i]
           /\ due[k][i] \in Nat /\ due[k][i] <= now
           /\ state[k] # "detected"
<1>1. due[k][i] \in Nat /\ row_due[k][i] \in Nat /\ due[k][i] <= row_due[k][i]
      /\ row_due[k][i] <= now
  BY DEF Due, DatesStand
<1>2. due[k][i] <= now
  BY <1>1 DEF Dated
<1> QED
  BY <1>1, <1>2 DEF ContactOf, ActionOf, Due, DatesStand

LEMMA DatedHolds == Dated /\ DatesStand /\ [Next]_vars => Dated'
<1> SUFFICES ASSUME Dated, DatesStand, [Next]_vars
             PROVE  Dated'
  OBVIOUS
<1>1. now' \in 0..MaxTime /\ now <= now' /\ fact' \in Facts /\ utc_offset' \in Offsets
  BY WorldSteps DEF Dated
<1>2. \A word \in consent_events' : word.occurred_at \in Int
  BY WorldSteps DEF Dated
<1>3. ASSUME NEW e \in contact_events
      PROVE  /\ e.case \in Cases /\ e.step \in StepsOf(e.case)
             /\ e.occurred_at \in 0..now'
             /\ state'[e.case] # "detected"
             /\ due'[e.case][e.step] \in Nat /\ due'[e.case][e.step] <= e.occurred_at
  <2>1. e.case \in Cases /\ e.occurred_at \in 0..now' /\ state[e.case] # "detected"
    BY <1>1 DEF Dated
  <2>2. state'[e.case] # "detected" /\ due'[e.case] = due[e.case]
    BY <2>1, PlannedStays
  <2> QED
    BY <2>1, <2>2 DEF Dated
<1>4. ASSUME NEW k \in Cases, NEW i \in StepsOf(k), Due(k, i),
             contact_events' = contact_events \cup {ContactOf(k, i)}, now' = now
      PROVE  Dated'
  <2>1. /\ state[k] # "detected" /\ due[k][i] \in Nat /\ due[k][i] <= now
        /\ ContactOf(k, i).case = k /\ ContactOf(k, i).step = i
        /\ ContactOf(k, i).occurred_at = now
    BY <1>4, ContactIs
  <2>2. state'[k] # "detected" /\ due'[k] = due[k]
    BY <2>1, PlannedStays
  <2>3. IsFiniteSet(contact_events')
    BY <1>4, FS_AddElement DEF Dated
  <2> QED
    BY <1>1, <1>2, <1>3, <1>4, <2>1, <2>2, <2>3 DEF Dated, StepsOf
<1>5. CASE contact_events' = contact_events
  BY <1>1, <1>2, <1>3, <1>5 DEF Dated, StepsOf
<1> QED
  BY <1>4, <1>5, ContactSteps

-----------------------------------------------------------------------------
(* Quiet hours.                                                            *)

LEMMA OnlyEmailAtNightHolds ==
    Dated /\ DatesStand /\ OnlyEmailAtNight /\ [Next]_vars => OnlyEmailAtNight'
<1> SUFFICES ASSUME Dated, DatesStand, OnlyEmailAtNight, [Next]_vars
             PROVE  OnlyEmailAtNight'
  OBVIOUS
<1> DEFINE Night(channel, date) ==
        date * Day + ClosesFor(channel) .. (date + 1) * Day + OpensFor(channel) - 1
<1>1. utc_offset' = utc_offset
  BY WorldSteps
<1>2. CASE contact_events' = contact_events
  BY <1>1, <1>2 DEF OnlyEmailAtNight, AtNight
<1>3. ASSUME NEW k \in Cases, NEW i \in StepsOf(k), Due(k, i), IsContact(ActionOf(k, i)),
             Evaluate(ActionOf(k, i), Context(k)).verdict = "allow",
             contact_events' = contact_events \cup {ContactOf(k, i)}
      PROVE  OnlyEmailAtNight'
  <2> DEFINE new == ContactOf(k, i)
             opens == OpensFor(new.channel)
             closes == ClosesFor(new.channel)
  <2>1. ~QuietHours(ActionOf(k, i), Context(k))
    BY <1>3, AllowedMeans
  <2>2. new.channel = ActionOf(k, i).channel /\ new.occurred_at = now
    BY <1>3, ContactIs
  <2>3. new.channel \notin NON_CONTACT_CHANNELS
    BY <1>3, <2>2 DEF IsContact
  <2>4. Day \in Nat \ {0} /\ closes \in 1..Day /\ opens \in 0..(closes - 1)
    BY PolicyConstants DEF OpensFor, ClosesFor
  <2>5. ASSUME new.channel # "email"
        PROVE  (now + utc_offset) % Day \in opens..(closes - 1)
    BY <2>1, <2>2, <2>3, <2>5, ContextIs DEF QuietHours, LocalTime
  <2>6. now + utc_offset \in Int
    BY GateConstants DEF Dated
  <2>7. ASSUME new.channel # "email", NEW date \in Int
        PROVE  new.occurred_at + utc_offset \notin Night(new.channel, date)
    <3> HIDE DEF new, opens, closes
    <3>1. now + utc_offset \notin (date * Day + closes)..((date + 1) * Day + opens - 1)
      BY <2>4, <2>5, <2>6, <2>7, NotAtNight
    <3> QED
      BY <2>2, <3>1 DEF opens, closes
  <2>8. \A date \in -2 .. MaxTime \div Day + 1 : date \in Int
    OBVIOUS
  <2> HIDE DEF new, Night
  <2>9. \A e \in contact_events' : e.channel # "email" =>
            \A date \in -2 .. MaxTime \div Day + 1 :
                e.occurred_at + utc_offset \notin Night(e.channel, date)
    BY <1>3, <2>7, <2>8 DEF OnlyEmailAtNight, AtNight, Night, new
  <2> QED
    BY <1>1, <2>9 DEF OnlyEmailAtNight, AtNight, Night
<1> QED
  BY <1>2, <1>3, ContactSteps

-----------------------------------------------------------------------------
(* Consent.                                                                *)

\* Of the words on a channel by an instant one is the latest.
LEMMA LatestWord ==
    ASSUME NEW said, \A e \in said : e.occurred_at \in Int, NEW when \in Nat,
           \A e \in said : e.occurred_at <= when, said # {}
    PROVE  \E g \in said : \A f \in said : f.occurred_at <= g.occurred_at
<1> DEFINE Ages == {when - e.occurred_at : e \in said}
<1>1. Ages \subseteq Nat /\ Ages # {}
  <2>1. \A e \in said : when - e.occurred_at \in Nat
    OBVIOUS
  <2>2. \E e : e \in said
    OBVIOUS
  <2> QED
    BY <2>1, <2>2
<1>2. \E x \in Ages : \A y \in Ages : x <= y
  <2> HIDE DEF Ages
  <2> QED
    BY <1>1, LeastNat
<1>3. \E g \in said : \A f \in said : when - g.occurred_at <= when - f.occurred_at
  BY <1>2
<1> QED
  BY <1>3

\* A customer whose consent stands gave it, and no refusal lies between.
LEMMA ConsentMeans ==
    ASSUME NEW c, NEW channel, NEW when \in Nat, ConsentAt(c, channel, when),
           \A e \in c.consent_events : e.occurred_at \in Int
    PROVE  \E g \in c.consent_events :
               /\ g.channel = channel /\ g.granted /\ g.occurred_at <= when
               /\ \A r \in c.consent_events : r.channel = channel /\ ~r.granted =>
                      r.occurred_at \notin g.occurred_at + 1 .. when - 1
<1> DEFINE relevant == {e \in c.consent_events : e.channel = channel /\ e.occurred_at <= when}
           latest == {e \in relevant : \A f \in relevant : f.occurred_at <= e.occurred_at}
<1>1. relevant # {} /\ (\/ \A e \in latest : e.granted
                        \/ \E e \in latest : e.granted)
  BY DEF ConsentAt
<1>2. \E g \in relevant : \A f \in relevant : f.occurred_at <= g.occurred_at
  <2>1. \A e \in relevant : e.occurred_at \in Int /\ e.occurred_at <= when
    OBVIOUS
  <2> HIDE DEF relevant
  <2> QED
    BY <1>1, <2>1, LatestWord
<1>3. PICK g \in latest : g.granted
  BY <1>1, <1>2
<1> QED
  BY <1>3

LEMMA ContactsHadConsentHolds ==
    Dated /\ DatesStand /\ ContactsHadConsent /\ [Next]_vars => ContactsHadConsent'
<1> SUFFICES ASSUME Dated, DatesStand, ContactsHadConsent, [Next]_vars
             PROVE  ContactsHadConsent'
  OBVIOUS
<1> DEFINE Consented(said, channel, asked) ==
        \E g \in said :
            /\ g.channel = channel /\ g.granted /\ g.occurred_at <= asked
            /\ \A r \in said : r.channel = channel /\ ~r.granted =>
                   r.occurred_at \notin g.occurred_at + 1 .. asked - 1
        Unstopped(said, when) ==
            \A stop \in said : stop.source = "sms_stop" =>
                stop.granted \/ when <= stop.occurred_at
<1>1. SUFFICES \A e \in contact_events' :
                   /\ Consented(consent_events', e.channel, due'[e.case][e.step])
                   /\ Unstopped(consent_events', e.occurred_at)
  BY DEF ContactsHadConsent
<1>2. ASSUME NEW e \in contact_events
      PROVE  /\ Consented(consent_events, e.channel, due[e.case][e.step])
             /\ Unstopped(consent_events, e.occurred_at)
  BY DEF ContactsHadConsent
<1>3. ASSUME NEW e \in contact_events
      PROVE  /\ Consented(consent_events', e.channel, due'[e.case][e.step])
             /\ Unstopped(consent_events', e.occurred_at)
  <2>1. due'[e.case] = due[e.case]
    BY PlannedStays DEF Dated
  <2>2. due[e.case][e.step] \in Nat /\ due[e.case][e.step] <= e.occurred_at
        /\ e.occurred_at \in 0..now /\ now \in Nat
    BY DEF Dated
  <2>3. consent_events \subseteq consent_events'
        /\ \A word \in consent_events' \ consent_events : word.occurred_at = now
    BY WorldSteps
  <2>4. Unstopped(consent_events', e.occurred_at)
    BY <1>2, <2>2, <2>3
  <2>5. PICK g \in consent_events :
            /\ g.channel = e.channel /\ g.granted /\ g.occurred_at <= due[e.case][e.step]
            /\ \A r \in consent_events : r.channel = e.channel /\ ~r.granted =>
                   r.occurred_at \notin g.occurred_at + 1 .. due[e.case][e.step] - 1
    BY <1>2
  <2>6. \A r \in consent_events' : r.channel = e.channel /\ ~r.granted =>
            r.occurred_at \notin g.occurred_at + 1 .. due[e.case][e.step] - 1
    BY <2>2, <2>3, <2>5
  <2> QED
    BY <2>1, <2>3, <2>4, <2>5, <2>6
<1>4. ASSUME NEW k \in Cases, NEW i \in StepsOf(k), Due(k, i), IsContact(ActionOf(k, i)),
             Evaluate(ActionOf(k, i), Context(k)).verdict = "allow",
             contact_events' = contact_events \cup {ContactOf(k, i)}, UNCHANGED <<now, world>>
      PROVE  \A e \in contact_events' :
                 /\ Consented(consent_events', e.channel, due'[e.case][e.step])
                 /\ Unstopped(consent_events', e.occurred_at)
  <2> DEFINE new == ContactOf(k, i)
             a == ActionOf(k, i)
             c == Context(k)
  <2>1. /\ new.case = k /\ new.step = i /\ new.channel = a.channel
        /\ a.due_at = due[k][i] /\ due[k][i] \in Nat /\ state[k] # "detected"
    BY <1>4, ContactIs
  <2>2. due'[k] = due[k] /\ consent_events' = consent_events
    BY <1>4, <2>1, PlannedStays DEF world
  <2>3. ~OptedOut(c) /\ ConsentAt(c, new.channel, due[k][i])
    BY <1>4, <2>1, AllowedMeans DEF NoConsent
  <2>4. c.consent_events = consent_events
    BY ContextIs
  <2>5. \A e \in consent_events : e.occurred_at \in Int
    BY DEF Dated
  <2> HIDE DEF new, a, c
  <2>6. Consented(consent_events, new.channel, due[k][i])
    BY <2>1, <2>3, <2>4, <2>5, ConsentMeans
  <2>7. Unstopped(consent_events, new.occurred_at)
    BY <2>3, <2>4 DEF OptedOut
  <2> HIDE DEF Consented, Unstopped
  <2> QED
    BY <1>3, <1>4, <2>1, <2>2, <2>6, <2>7 DEF new
<1> QED
  BY <1>3, <1>4, ContactSteps

-----------------------------------------------------------------------------
(* Frequency caps.                                                         *)

Recent(contacts, when, window) ==
    {f \in contacts : f.occurred_at \in when - window + 1 .. when}

OnChannel(contacts, channel) == {f \in contacts : f.channel = channel}

\* The caps hold in the windows that end in an instant, as a channel sees them.
CapsHoldAt(contacts, when, channel) ==
    /\ Cardinality(OnChannel(Recent(contacts, when, Day), channel)) <= 1
    /\ Cardinality(Recent(contacts, when, Week)) <= 3
    /\ channel = "voice" =>
           Cardinality(OnChannel(Recent(contacts, when, Week), channel)) <= 1

LEMMA OneMore ==
    ASSUME NEW S, IsFiniteSet(S), NEW x, NEW cap \in Nat, ~(Cardinality(S) >= cap)
    PROVE  Cardinality(S \cup {x}) <= cap
  BY FS_AddElement, FS_CardinalityType

\* An action that no cap is against leaves room for its contact below each.
LEMMA RoomBelowCaps ==
    ASSUME NEW a, NEW c, IsContact(a), ~FrequencyCap(a, c)
    PROVE  /\ ~(Cardinality(OnChannel(Within(c, Day), a.channel)) >= 1)
           /\ ~(Cardinality(Within(c, Week)) >= 3)
           /\ a.channel = "voice" => ~(Cardinality(OnChannel(Within(c, Week), "voice")) >= 1)
<1> DEFINE caps == Caps(a, c)
<1>1. DOMAIN caps = {1, 2, 3}
  BY DEF Caps
<1>2. \A i \in {1, 2, 3} : ~(Cardinality(caps[i].counted) >= caps[i].cap)
  BY <1>1 DEF FrequencyCap, Breached
<1>3. /\ caps[1].counted = {e \in Within(c, Day) : e.channel = a.channel} /\ caps[1].cap = 1
      /\ caps[2].counted = Within(c, Week) /\ caps[2].cap = 3
      /\ caps[3].cap = 1
      /\ a.channel = "voice" => caps[3].counted = {e \in Within(c, Week) : e.channel = "voice"}
  BY DEF Caps
<1> HIDE DEF caps
<1> QED
  BY <1>2, <1>3 DEF OnChannel

LEMMA CapsHold ==
    LoadsContacts /\ Dated /\ DatesStand /\ ContactsWithinCaps /\ [Next]_vars
        => ContactsWithinCaps'
<1> SUFFICES ASSUME LoadsContacts, Dated, DatesStand, ContactsWithinCaps, [Next]_vars
             PROVE  ContactsWithinCaps'
  OBVIOUS
<1>1. \A e \in contact_events : CapsHoldAt(contact_events, e.occurred_at, e.channel)
  BY DEF ContactsWithinCaps, CapsHoldAt, Recent, OnChannel
<1>2. CASE contact_events' = contact_events
  BY <1>2 DEF ContactsWithinCaps
<1>3. ASSUME NEW k \in Cases, NEW i \in StepsOf(k), Due(k, i), IsContact(ActionOf(k, i)),
             Evaluate(ActionOf(k, i), Context(k)).verdict = "allow",
             contact_events' = contact_events \cup {ContactOf(k, i)}
      PROVE  ContactsWithinCaps'
  <2> DEFINE new == ContactOf(k, i)
             a == ActionOf(k, i)
             c == Context(k)
             after == contact_events \cup {new}
             Lately(window) == Recent(contact_events, now, window)
  <2>1. new.channel = a.channel /\ new.occurred_at = now
    BY <1>3, ContactIs
  <2>2. now \in Nat /\ Day \in Nat \ {0} /\ Week \in Nat /\ Day <= Week
        /\ IsFiniteSet(contact_events) /\ \A e \in contact_events : e.occurred_at \in 0..now
    BY GateConstants, PolicyConstants DEF Dated
  <2>3. Within(c, Day) = Lately(Day) /\ Within(c, Week) = Lately(Week)
    BY <2>2, ContextIs DEF Within, Recent
  <2>4. ~FrequencyCap(a, c)
    BY <1>3, AllowedMeans
  <2>5. /\ ~(Cardinality(OnChannel(Lately(Day), new.channel)) >= 1)
        /\ ~(Cardinality(Lately(Week)) >= 3)
        /\ new.channel = "voice" => ~(Cardinality(OnChannel(Lately(Week), "voice")) >= 1)
    BY <1>3, <2>1, <2>3, <2>4, RoomBelowCaps
  <2> HIDE DEF new, a, c
  <2>6. \A window \in {Day, Week} : Recent(after, now, window) = Lately(window) \cup {new}
    BY <2>1, <2>2 DEF Recent
  <2>7. ASSUME NEW e \in contact_events, e.occurred_at # now
        PROVE  CapsHoldAt(after, e.occurred_at, e.channel)
    <3>1. \A window \in {Day, Week} :
              Recent(after, e.occurred_at, window) = Recent(contact_events, e.occurred_at, window)
      BY <2>1, <2>2, <2>7 DEF Recent
    <3> HIDE DEF after
    <3> QED
      BY <1>1, <3>1 DEF CapsHoldAt
  <2>8. IsFiniteSet(Lately(Day)) /\ IsFiniteSet(Lately(Week))
        /\ IsFiniteSet(OnChannel(Lately(Day), new.channel))
        /\ IsFiniteSet(OnChannel(Lately(Week), "voice"))
    BY <2>2, FS_Subset DEF Recent, OnChannel
  <2>9. Cardinality(Recent(after, now, Week)) <= 3
    <3> HIDE DEF Lately, after
    <3> QED
      BY <2>5, <2>6, <2>8, OneMore
  <2>10. CapsHoldAt(after, now, new.channel)
    <3> HIDE DEF Lately, after
    <3>1. OnChannel(Recent(after, now, Day), new.channel)
              = OnChannel(Lately(Day), new.channel) \cup {new}
      BY <2>6 DEF OnChannel
    <3>2. Cardinality(OnChannel(Recent(after, now, Day), new.channel)) <= 1
      BY <2>5, <2>8, <3>1, OneMore
    <3>3. ASSUME new.channel = "voice"
          PROVE  Cardinality(OnChannel(Recent(after, now, Week), new.channel)) <= 1
      <4>1. OnChannel(Recent(after, now, Week), "voice")
                = OnChannel(Lately(Week), "voice") \cup {new}
        BY <2>6, <3>3 DEF OnChannel
      <4> QED
        BY <2>5, <2>8, <3>3, <4>1, OneMore
    <3> QED
      BY <2>9, <3>2, <3>3 DEF CapsHoldAt
  <2>11. ASSUME NEW e \in contact_events, e.occurred_at = now, e.channel # new.channel
         PROVE  CapsHoldAt(after, e.occurred_at, e.channel)
    <3>1. CapsHoldAt(contact_events, now, e.channel)
      BY <1>1, <2>11
    <3> HIDE DEF after
    <3>2. \A window \in {Day, Week} :
              OnChannel(Recent(after, now, window), e.channel)
                  = OnChannel(Lately(window), e.channel)
      BY <2>6, <2>11 DEF OnChannel
    <3> QED
      BY <2>9, <2>11, <3>1, <3>2 DEF CapsHoldAt
  <2>12. \A e \in after : CapsHoldAt(after, e.occurred_at, e.channel)
    BY <2>1, <2>7, <2>10, <2>11
  <2>13. contact_events' = after
    BY <1>3 DEF new
  <2> HIDE DEF after
  <2>14. \A e \in contact_events' : CapsHoldAt(contact_events', e.occurred_at, e.channel)
    BY <2>12, <2>13
  <2> QED
    BY <2>14 DEF ContactsWithinCaps, CapsHoldAt, Recent, OnChannel
<1> QED
  BY <1>2, <1>3, ContactSteps

-----------------------------------------------------------------------------
(* Deferrals.                                                              *)

\* The rules that know when their reason is over.
LEMMA FiresMeans ==
    ASSUME NEW a, NEW c
    PROVE  /\ Fires("quiet_hours", a, c) <=> QuietHours(a, c)
           /\ Fires("frequency_cap", a, c) <=> FrequencyCap(a, c)
  BY DEF Fires

\* A decision that names one of them is that rule's.
LEMMA RuleDecides ==
    ASSUME NEW a, NEW c, NEW rule \in {"quiet_hours", "frequency_cap"},
           Evaluate(a, c).rule_id = rule
    PROVE  Fires(rule, a, c) /\ Evaluate(a, c).defer_until = DeferUntil(rule, a, c)
<1> DEFINE firing == {i \in DOMAIN RULES : Fires(RULES[i], a, c)}
<1>1. {13, 14} \subseteq DOMAIN RULES /\ RULES[13] = "quiet_hours" /\ RULES[14] = "frequency_cap"
      /\ DOMAIN RULES \subseteq Nat
  BY DEF RULES
<1>2. NULL # rule
  BY <1>1, NullIsNoRule
<1>3. firing # {}
  BY <1>2 DEF Evaluate
<1>4. RULES[Min(firing)] = rule /\ Evaluate(a, c).defer_until = DeferUntil(rule, a, c)
  BY <1>3 DEF Evaluate
<1>5. \E i \in firing : \A j \in firing : i <= j
  <2>1. firing \subseteq Nat
    BY <1>1
  <2> HIDE DEF firing
  <2> QED
    BY <1>3, <2>1, LeastNat
<1>6. Min(firing) \in firing
  BY <1>5 DEF Min
<1> QED
  BY <1>4, <1>6

LEMMA RemainderIs ==
    ASSUME NEW d \in Nat \ {0}, NEW q \in Int, NEW r \in 0..(d - 1), NEW x \in Int,
           x = q * d + r
    PROVE  x % d = r
<1> DEFINE p == x \div d
           s == x % d
<1>1. p \in Int /\ s \in 0..(d - 1) /\ x = p * d + s
  BY Parts
<1> HIDE DEF p, s
<1>2. p * d \in Int /\ q * d \in Int /\ (p + 1) * d = p * d + d /\ (q + 1) * d = q * d + d
  BY <1>1
<1>3. CASE p + 1 <= q
  <2>1. (p + 1) * d <= q * d
    BY <1>1, <1>3, Multiples
  <2> QED
    BY <1>1, <1>2, <2>1
<1>4. CASE q + 1 <= p
  <2>1. (q + 1) * d <= p * d
    BY <1>1, <1>4, Multiples
  <2> QED
    BY <1>1, <1>2, <2>1
<1>5. CASE p = q
  BY <1>1, <1>2, <1>5 DEF s
<1> QED
  BY <1>1, <1>3, <1>4, <1>5

\* The clock of the day some ticks later, before and after midnight.
LEMMA LaterThatDay ==
    ASSUME NEW d \in Nat \ {0}, NEW x \in Int, NEW n \in Nat
    PROVE  /\ x % d \in 0..(d - 1)
           /\ (x % d) + n < d => (x + n) % d = (x % d) + n
           /\ (x % d) + n \in d..(2 * d - 1) => (x + n) % d = (x % d) + n - d
<1> DEFINE q == x \div d
           r == x % d
<1>1. q \in Int /\ r \in 0..(d - 1) /\ x = q * d + r
  BY Parts
<1> HIDE DEF q, r
<1>2. q * d \in Int /\ (q + 1) * d = q * d + d
  BY <1>1
<1>3. ASSUME r + n < d
      PROVE  (x + n) % d = r + n
  <2>1. x + n = q * d + (r + n) /\ r + n \in 0..(d - 1)
    BY <1>1, <1>2, <1>3
  <2> DEFINE y == x + n
             s == r + n
  <2>2. y \in Int /\ s \in 0..(d - 1) /\ y = q * d + s
    BY <1>1, <2>1
  <2> HIDE DEF y, s
  <2>3. y % d = s
    BY <1>1, <2>2, RemainderIs
  <2> QED
    BY <2>3 DEF y, s
<1>4. ASSUME r + n \in d..(2 * d - 1)
      PROVE  (x + n) % d = r + n - d
  <2>1. x + n = (q + 1) * d + (r + n - d) /\ r + n - d \in 0..(d - 1)
    BY <1>1, <1>2, <1>4
  <2> DEFINE y == x + n
             s == r + n - d
             p == q + 1
  <2>2. y \in Int /\ s \in 0..(d - 1) /\ p \in Int /\ y = p * d + s
    BY <1>1, <2>1
  <2> HIDE DEF y, s, p
  <2>3. y % d = s
    BY <2>2, RemainderIs
  <2> QED
    BY <2>3 DEF y, s
<1> QED
  BY <1>1, <1>3, <1>4 DEF r

\* From a night to the next opening it is night.
LEMMA NightLasts ==
    ASSUME NEW a, NEW c, QuietHours(a, c), c.now \in Nat, c.utc_offset \in Int,
           NEW until, until = NextWindowOpen(a, c)
    PROVE  /\ until \in Int /\ until > c.now
           /\ \A b : b.utc_offset = c.utc_offset =>
                  /\ b.now \in c.now .. until - 1 => QuietHours(a, b)
                  /\ b.now = until => ~QuietHours(a, b)
<1> DEFINE opens == OpensFor(a.channel)
           closes == ClosesFor(a.channel)
           x == c.now + c.utc_offset
           local == x % Day
<1>1. Day \in Nat \ {0} /\ closes \in 1..Day /\ opens \in 0..(closes - 1)
  BY PolicyConstants DEF OpensFor, ClosesFor
<1>2. x \in Int /\ local \in 0..(Day - 1)
  BY <1>1, LaterThatDay
<1>3. local \notin opens .. closes - 1 /\ a.channel \notin NON_CONTACT_CHANNELS \cup {"email"}
  BY DEF QuietHours, LocalTime
<1>4. \A n \in Nat : /\ local + n < Day => (x + n) % Day = local + n
                     /\ local + n \in Day..(2 * Day - 1) => (x + n) % Day = local + n - Day
  BY <1>1, <1>2, LaterThatDay
<1>5. until = IF c.now - local + opens <= c.now THEN c.now - local + opens + Day
                                                ELSE c.now - local + opens
  BY DEF NextWindowOpen, LocalTime
<1>6. ASSUME NEW b, b.utc_offset = c.utc_offset
      PROVE  QuietHours(a, b) <=> (b.now + c.utc_offset) % Day \notin opens .. closes - 1
  BY <1>3, <1>6 DEF QuietHours, LocalTime
<1> HIDE DEF opens, closes, local
<1>7. until \in Int /\ until > c.now
  BY <1>1, <1>2, <1>5
<1>8. ASSUME NEW n \in Nat, c.now + n <= until
      PROVE  /\ n < until - c.now => (x + n) % Day \notin opens .. closes - 1
             /\ n = until - c.now => (x + n) % Day \in opens .. closes - 1
  <2>1. CASE local < opens
    BY <1>1, <1>2, <1>4, <1>5, <1>8, <2>1
  <2>2. CASE local >= closes /\ local + n < Day
    BY <1>1, <1>2, <1>4, <1>5, <1>8, <2>2
  <2>3. CASE local >= closes /\ local + n >= Day
    <3>1. local + n \in Day..(2 * Day - 1)
      BY <1>1, <1>2, <1>5, <1>8, <2>3
    <3> QED
      BY <1>1, <1>2, <1>4, <1>5, <1>8, <2>3, <3>1
  <2> QED
    BY <1>1, <1>2, <1>3, <2>1, <2>2, <2>3
<1>9. ASSUME NEW b, b.utc_offset = c.utc_offset, b.now \in c.now .. until
      PROVE  /\ b.now < until => QuietHours(a, b)
             /\ b.now = until => ~QuietHours(a, b)
  <2> DEFINE n == b.now - c.now
  <2>1. n \in Nat /\ c.now + n <= until /\ b.now + c.utc_offset = x + n
        /\ (b.now < until => n < until - c.now) /\ (b.now = until => n = until - c.now)
    BY <1>7, <1>9
  <2> HIDE DEF n, x
  <2> QED
    BY <1>6, <1>8, <1>9, <2>1
<1> QED
  BY <1>7, <1>9

\* What counts against a cap counts until the oldest of it leaves, whatever comes in.
LEMMA CapLasts ==
    ASSUME NEW a, NEW c, FrequencyCap(a, c), c.now \in Nat,
           IsFiniteSet(c.contact_history),
           \A e \in c.contact_history : e.occurred_at \in 0..c.now,
           NEW until, until = OldestLeaves(a, c)
    PROVE  /\ until \in Int /\ until > c.now
           /\ \A b : /\ b.now \in c.now .. until - 1
                     /\ c.contact_history \subseteq b.contact_history
                     /\ IsFiniteSet(b.contact_history)
                     => FrequencyCap(a, b)
<1> DEFINE i == Min(Breached(a, c))
           counted == Caps(a, c)[i].counted
           window == Caps(a, c)[i].window
           cap == Caps(a, c)[i].cap
           times == {e.occurred_at : e \in counted}
<1>1. i \in {1, 2, 3} /\ Cardinality(counted) >= cap
  <2>1. Breached(a, c) \subseteq {1, 2, 3} /\ Breached(a, c) # {}
    <3>1. DOMAIN Caps(a, c) = {1, 2, 3}
      BY DEF Caps
    <3> QED
      BY <3>1 DEF Breached, FrequencyCap
  <2>2. Min(Breached(a, c)) \in Breached(a, c)
    <3>1. \E m \in Breached(a, c) : \A j \in Breached(a, c) : m <= j
      BY <2>1, LeastNat
    <3> QED
      BY <3>1 DEF Min
  <2> QED
    BY <2>1, <2>2 DEF Breached
<1>2. Day \in Nat /\ Week \in Nat
  BY PolicyConstants
<1>3. /\ counted \subseteq Within(c, window) /\ window \in {Day, Week} /\ cap \in Nat /\ cap >= 1
      /\ \A b : /\ Caps(a, b)[i].cap = cap
                /\ \A e \in Within(b, window) : e \in counted => e \in Caps(a, b)[i].counted
                /\ Caps(a, b)[i].counted \subseteq b.contact_history
  <2>1. CASE i = 1
    BY <1>2, <2>1 DEF Caps, Within
  <2>2. CASE i = 2
    BY <1>2, <2>2 DEF Caps, Within
  <2>3. CASE i = 3
    BY <1>2, <2>3 DEF Caps, Within
  <2> QED
    BY <1>1, <2>1, <2>2, <2>3
<1> HIDE DEF i, counted, window, cap
<1>4. counted \subseteq c.contact_history /\ \A e \in counted : e.occurred_at > c.now - window
  BY <1>3 DEF Within
<1>5. counted # {}
  <2>1. ~(Cardinality({}) >= cap)
    BY <1>3, FS_EmptySet
  <2> QED
    BY <1>1, <2>1
<1>6. times \subseteq Nat /\ times # {}
  BY <1>4, <1>5
<1>7. Min(times) \in times /\ \A m \in times : Min(times) <= m
  <2> HIDE DEF times
  <2>1. \E m \in times : \A j \in times : m <= j
    BY <1>6, LeastNat
  <2> QED
    BY <2>1 DEF Min
<1>8. until = Min(times) + window
  BY DEF OldestLeaves, i, counted, window, times
<1>9. \A e \in counted : e.occurred_at \in Nat /\ Min(times) <= e.occurred_at
  BY <1>4, <1>7
<1>10. Min(times) \in Nat /\ Min(times) > c.now - window
  BY <1>4, <1>7
<1> HIDE DEF times
<1>11. until \in Int /\ until > c.now
  BY <1>2, <1>3, <1>8, <1>10
<1>12. ASSUME NEW b, b.now \in c.now .. until - 1, IsFiniteSet(b.contact_history),
              c.contact_history \subseteq b.contact_history
       PROVE  FrequencyCap(a, b)
  <2>1. \A e \in counted : e \in Within(b, window)
    BY <1>2, <1>3, <1>4, <1>8, <1>9, <1>10, <1>12 DEF Within
  <2>2. counted \subseteq Caps(a, b)[i].counted
    BY <1>3, <2>1
  <2>3. IsFiniteSet(Caps(a, b)[i].counted)
    BY <1>3, <1>12, FS_Subset
  <2>4. Cardinality(Caps(a, b)[i].counted) >= cap
    BY <1>1, <1>3, <2>2, <2>3, FS_Subset, FS_CardinalityType
  <2>5. i \in DOMAIN Caps(a, b)
    BY <1>1 DEF Caps
  <2>6. IsContact(a)
    BY DEF FrequencyCap
  <2> QED
    BY <1>3, <2>4, <2>5, <2>6 DEF FrequencyCap, Breached
<1> QED
  BY <1>11, <1>12

\* A step leaves a decision, cancels it, or records the verdict of the
\* engine, and touches that of planned actions only.
LEMMA DecisionSteps ==
    ASSUME Filed, [Next]_vars
    PROVE  /\ Filed'
           /\ \A l \in Cases : \A j \in StepsOf(l) :
                  /\ \/ decision'[l][j] \in {decision[l][j], Cancelled}
                     \/ decision'[l][j] = Recorded(Evaluate(ActionOf(l, j), Context(l)))
                  /\ decision'[l][j] # decision[l][j] => j \in Planned(l)
<1> DEFINE Goal ==
        /\ Filed'
        /\ \A l \in Cases : \A j \in StepsOf(l) :
               /\ \/ decision'[l][j] \in {decision[l][j], Cancelled}
                  \/ decision'[l][j] = Recorded(Evaluate(ActionOf(l, j), Context(l)))
               /\ decision'[l][j] # decision[l][j] => j \in Planned(l)
<1>1. ASSUME NEW k \in Cases, NEW i \in StepsOf(k), NEW d,
             d = Evaluate(ActionOf(k, i), Context(k)), i \in Planned(k), Decide(k, i, d)
      PROVE  Goal
  <2>1. decision' = [decision EXCEPT ![k][i] = Recorded(d)]
    BY <1>1 DEF Decide
  <2> QED
    BY <1>1, <2>1 DEF Filed
<1>2. ASSUME NEW k \in Cases, NEW i \in StepsOf(k), NEW d,
             d = Evaluate(ActionOf(k, i), Context(k)), i \in Planned(k), Stop(k, i, d)
      PROVE  Goal
  <2>1. CASE Decide(k, i, d)
    BY <1>1, <1>2, <2>1
  <2>2. CASE decision' = [decision EXCEPT ![k] =
                 [j \in StepsOf(k) |-> CASE j = i -> Recorded(d)
                                         [] j \in Waiting(k) \ {i} -> Cancelled
                                         [] OTHER -> @[j]]]
    <3> DEFINE row == [j \in StepsOf(k) |-> CASE j = i -> Recorded(d)
                                              [] j \in Waiting(k) \ {i} -> Cancelled
                                              [] OTHER -> decision[k][j]]
    <3>1. decision' = [decision EXCEPT ![k] = row]
      BY <2>2
    <3>2. ASSUME NEW j \in StepsOf(k)
          PROVE  /\ row[j] \in {decision[k][j], Cancelled} \/ (j = i /\ row[j] = Recorded(d))
                 /\ row[j] # decision[k][j] => j \in Planned(k)
      <4>1. CASE j = i
        BY <1>2, <4>1
      <4>2. CASE j # i /\ j \in Waiting(k) \ {i}
        <5>1. row[j] = Cancelled
          BY <4>2
        <5> HIDE DEF row
        <5> QED
          BY <4>2, <5>1 DEF Waiting
      <4>3. CASE j # i /\ j \notin Waiting(k) \ {i}
        <5>1. row[j] = decision[k][j]
          BY <4>3
        <5> HIDE DEF row
        <5> QED
          BY <5>1
      <4> QED
        BY <4>1, <4>2, <4>3
    <3>3. row = [j \in StepsOf(k) |-> row[j]]
      OBVIOUS
    <3> HIDE DEF row
    <3>4. decision'[k] = row /\ DOMAIN decision' = Cases
          /\ \A l \in Cases \ {k} : decision'[l] = decision[l]
      BY <3>1 DEF Filed
    <3>5. Filed'
      <4> SUFFICES ASSUME NEW l \in Cases
                   PROVE  decision'[l] = [j \in StepsOf(l) |-> decision'[l][j]]
        BY <3>4 DEF Filed, StepsOf
      <4>1. CASE l = k
        BY <3>3, <3>4, <4>1
      <4>2. CASE l # k
        <5>1. decision'[l] = decision[l]
          BY <3>4, <4>2
        <5>2. decision[l] = [j \in StepsOf(l) |-> decision[l][j]]
          BY DEF Filed
        <5> QED
          BY <5>1, <5>2
      <4> QED
        BY <4>1, <4>2
    <3> QED
      BY <1>2, <3>2, <3>4, <3>5
  <2> QED
    BY <1>2, <2>1, <2>2 DEF Stop
<1>3. ASSUME UNCHANGED decision
      PROVE  Goal
  BY <1>3 DEF Filed
<1>4. ASSUME NEW k \in Cases, NEW i \in StepsOf(k), GateAndExecute(k, i)
      PROVE  Goal
  <2> DEFINE d == Evaluate(ActionOf(k, i), Context(k))
  <2>1. /\ i \in Planned(k)
        /\ Execute(k, i, d) \/ ExecuteFails(k, i, d) \/ Refuse(k, i, d) \/ Stop(k, i, d)
    BY <1>4 DEF GateAndExecute, Due
  <2> HIDE DEF d
  <2>2. Decide(k, i, d) \/ Stop(k, i, d)
    BY <2>1 DEF Execute, ExecuteFails, Refuse
  <2> QED
    BY <1>1, <1>2, <2>1, <2>2 DEF d
<1>5. ASSUME Advance \/ (\E word \in Words : RecordConsent(word)) \/ UNCHANGED vars
      PROVE  UNCHANGED decision
  BY <1>5 DEF Advance, RecordConsent, vars, planVars
<1>6. ASSUME NEW k \in Cases, PersistPlan(k)
      PROVE  UNCHANGED decision
  BY <1>6 DEF PersistPlan
<1> QED
  BY <1>3, <1>4, <1>5, <1>6 DEF Next

\* The gate as it would be asked at another instant.
AskedAt(t, offset, contacts) == [now |-> t, utc_offset |-> offset, contact_history |-> contacts]

\* A deferral lasts as long as its reason.
Justified(a, d, offset, contacts) ==
    /\ d.defer_until > d.at
    /\ \A t \in d.at .. d.defer_until - 1 : Fires(d.rule_id, a, AskedAt(t, offset, contacts))
    /\ d.rule_id = "quiet_hours" => ~QuietHours(a, AskedAt(d.defer_until, offset, contacts))

LEMMA AskedIs ==
    ASSUME NEW t, NEW offset, NEW contacts
    PROVE  /\ AskedAt(t, offset, contacts).now = t
           /\ AskedAt(t, offset, contacts).utc_offset = offset
           /\ AskedAt(t, offset, contacts).contact_history = contacts
  BY DEF AskedAt

LEMMA CapStays ==
    ASSUME NEW a, NEW b, a.channel = b.channel, NEW c, NEW e, c.now = e.now,
           c.contact_history \subseteq e.contact_history, IsFiniteSet(e.contact_history),
           FrequencyCap(a, c)
    PROVE  FrequencyCap(b, e)
<1>1. DOMAIN Caps(a, c) = {1, 2, 3} /\ DOMAIN Caps(b, e) = {1, 2, 3}
  BY DEF Caps
<1>2. PICK i \in {1, 2, 3} : Cardinality(Caps(a, c)[i].counted) >= Caps(a, c)[i].cap
  BY <1>1 DEF FrequencyCap, Breached
<1>3. /\ Caps(a, c)[i].counted \subseteq Caps(b, e)[i].counted
      /\ Caps(a, c)[i].cap = Caps(b, e)[i].cap /\ Caps(b, e)[i].cap \in Nat
      /\ Caps(b, e)[i].counted \subseteq e.contact_history
  BY DEF Caps, Within
<1>4. IsFiniteSet(Caps(b, e)[i].counted)
  BY <1>3, FS_Subset
<1>5. Cardinality(Caps(b, e)[i].counted) >= Caps(b, e)[i].cap
  BY <1>2, <1>3, <1>4, FS_Subset, FS_CardinalityType
<1>6. IsContact(b)
  BY DEF FrequencyCap, IsContact
<1> QED
  BY <1>1, <1>5, <1>6 DEF FrequencyCap, Breached

\* Contacts that come in take nothing from the reason.
LEMMA StaysJustified ==
    ASSUME NEW a, NEW b, a.channel = b.channel,
           NEW d, d.rule_id \in {"quiet_hours", "frequency_cap"}, NEW offset,
           NEW before, NEW after, before \subseteq after, IsFiniteSet(after),
           Justified(a, d, offset, before)
    PROVE  Justified(b, d, offset, after)
<1>1. ASSUME NEW t
      PROVE  /\ QuietHours(a, AskedAt(t, offset, before))
                    <=> QuietHours(b, AskedAt(t, offset, after))
             /\ FrequencyCap(a, AskedAt(t, offset, before))
                    => FrequencyCap(b, AskedAt(t, offset, after))
  <2>1. QuietHours(a, AskedAt(t, offset, before)) <=> QuietHours(b, AskedAt(t, offset, after))
    BY AskedIs DEF QuietHours, LocalTime
  <2>2. ASSUME FrequencyCap(a, AskedAt(t, offset, before))
        PROVE  FrequencyCap(b, AskedAt(t, offset, after))
    <3> DEFINE c == AskedAt(t, offset, before)
               e == AskedAt(t, offset, after)
    <3>1. c.now = e.now /\ c.contact_history = before /\ e.contact_history = after
      BY AskedIs
    <3>2. FrequencyCap(a, c)
      BY <2>2
    <3> HIDE DEF c, e
    <3>3. FrequencyCap(b, e)
      BY <3>1, <3>2, CapStays
    <3> QED
      BY <3>3 DEF e
  <2> QED
    BY <2>1, <2>2
<1>2. ASSUME NEW t, Fires(d.rule_id, a, AskedAt(t, offset, before))
      PROVE  Fires(d.rule_id, b, AskedAt(t, offset, after))
  BY <1>1, <1>2, FiresMeans
<1> QED
  BY <1>1, <1>2 DEF Justified

LEMMA StartsJustified ==
    ASSUME NEW a, NEW c, c.now \in Nat, c.utc_offset \in Int,
           IsFiniteSet(c.contact_history),
           \A e \in c.contact_history : e.occurred_at \in 0..c.now,
           NEW d, d.rule_id = Evaluate(a, c).rule_id, d.at = c.now,
           d.defer_until = Evaluate(a, c).defer_until,
           d.rule_id \in {"quiet_hours", "frequency_cap"},
           NEW contacts, c.contact_history \subseteq contacts, IsFiniteSet(contacts)
    PROVE  Justified(a, d, c.utc_offset, contacts)
<1> DEFINE later(t) == AskedAt(t, c.utc_offset, contacts)
<1>1. Fires(d.rule_id, a, c) /\ d.defer_until = DeferUntil(d.rule_id, a, c)
  BY RuleDecides
<1>2. \A t : later(t).now = t /\ later(t).utc_offset = c.utc_offset
             /\ later(t).contact_history = contacts
  BY AskedIs
<1> HIDE DEF later
<1>3. ASSUME d.rule_id = "quiet_hours"
      PROVE  /\ d.defer_until > d.at
             /\ \A t \in d.at .. d.defer_until - 1 : QuietHours(a, later(t))
             /\ ~QuietHours(a, later(d.defer_until))
  <2>1. QuietHours(a, c) /\ d.defer_until = NextWindowOpen(a, c)
    BY <1>1, <1>3, FiresMeans DEF DeferUntil
  <2> QED
    BY <1>2, <2>1, NightLasts
<1>4. ASSUME d.rule_id = "frequency_cap"
      PROVE  /\ d.defer_until > d.at
             /\ \A t \in d.at .. d.defer_until - 1 : FrequencyCap(a, later(t))
  <2>1. FrequencyCap(a, c) /\ d.defer_until = OldestLeaves(a, c)
    BY <1>1, <1>4, FiresMeans DEF DeferUntil
  <2> QED
    BY <1>2, <2>1, CapLasts
<1>5. CASE d.rule_id = "quiet_hours"
  BY <1>3, <1>5, FiresMeans DEF Justified, later
<1>6. CASE d.rule_id = "frequency_cap"
  BY <1>4, <1>6, FiresMeans DEF Justified, later
<1> QED
  BY <1>5, <1>6

LEMMA DeferralsJustified ==
    Dated /\ DatesStand /\ Filed /\ DeferredNoLongerThanNeeded /\ [Next]_vars
        => DeferredNoLongerThanNeeded'
<1> SUFFICES ASSUME Dated, DatesStand, Filed, DeferredNoLongerThanNeeded, [Next]_vars
             PROVE  DeferredNoLongerThanNeeded'
  OBVIOUS
<1>1. /\ utc_offset' = utc_offset /\ utc_offset \in Int /\ now \in Nat
      /\ contact_events \subseteq contact_events' /\ IsFiniteSet(contact_events)
      /\ \A e \in contact_events : e.occurred_at \in 0..now
  BY WorldSteps, ContactSteps, GateConstants DEF Dated
<1>2. IsFiniteSet(contact_events')
  BY DatedHolds DEF Dated
<1>3. \A k, i : ActionOf(k, i)'.channel = ActionOf(k, i).channel
  BY DEF ActionOf
<1>4. ASSUME NEW k \in Cases, NEW i \in StepsOf(k), NEW d, d = decision'[k][i],
             d \notin {None, Cancelled}, d.rule_id \in {"quiet_hours", "frequency_cap"}
      PROVE  Justified(ActionOf(k, i)', d, utc_offset', contact_events')
  <2> DEFINE a == ActionOf(k, i)
             b == ActionOf(k, i)'
  <2>1. a.channel = b.channel
    BY <1>3
  <2> HIDE DEF a, b
  <2>2. ASSUME Justified(a, d, utc_offset, contact_events)
        PROVE  Justified(b, d, utc_offset', contact_events')
    BY <1>1, <1>2, <1>4, <2>1, <2>2, StaysJustified
  <2>3. CASE d = decision[k][i]
    <3>1. Justified(a, d, utc_offset, contact_events)
      BY <1>4, <2>3 DEF DeferredNoLongerThanNeeded, Justified, AskedAt, a
    <3> QED
      BY <2>2, <3>1 DEF b
  <2>4. CASE d = Recorded(Evaluate(a, Context(k)))
    <3> DEFINE c == Context(k)
    <3>1. c.now = now /\ c.utc_offset = utc_offset
          /\ c.contact_history \subseteq contact_events
      BY ContextIs
    <3>2. d.rule_id = Evaluate(a, c).rule_id /\ d.at = now
          /\ d.defer_until = Evaluate(a, c).defer_until
      BY <2>4 DEF Recorded
    <3> HIDE DEF c
    <3>3. IsFiniteSet(c.contact_history)
      BY <1>1, <3>1, FS_Subset
    <3>4. Justified(a, d, utc_offset, contact_events)
      BY <1>1, <1>4, <3>1, <3>2, <3>3, StartsJustified
    <3> QED
      BY <2>2, <3>4 DEF b
  <2>5. d \in {decision[k][i], Cancelled} \/ d = Recorded(Evaluate(a, Context(k)))
    BY <1>4, DecisionSteps DEF a
  <2> QED
    BY <1>4, <2>3, <2>4, <2>5 DEF b
<1> QED
  BY <1>4 DEF DeferredNoLongerThanNeeded, Justified, AskedAt

-----------------------------------------------------------------------------
(* Budgets.                                                                *)

\* No decision is undone.
LEMMA NoneStays ==
    ASSUME Filed, [Next]_vars, NEW k \in Cases, NEW i \in StepsOf(k), decision'[k][i] = None
    PROVE  decision[k][i] = None
<1>1. Cancelled # None
  BY DEF Cancelled, None
<1>2. Recorded(Evaluate(ActionOf(k, i), Context(k))) # None
  <2> DEFINE d == Evaluate(ActionOf(k, i), Context(k))
  <2>1. d.verdict \in {"allow", "defer", "deny"}
    BY DEF Evaluate
  <2> HIDE DEF d
  <2>2. Recorded(d).verdict = d.verdict /\ None.verdict = "none"
    BY DEF Recorded, None
  <2>3. Recorded(d) # None
    BY <2>1, <2>2
  <2> QED
    BY <2>3 DEF d
<1> QED
  BY <1>1, <1>2, DecisionSteps

\* What a step does to a case that it neither plans nor charges.
Kept(k) ==
    /\ cost_spent'[k] = cost_spent[k] /\ cost_ceiling'[k] = cost_ceiling[k]
    /\ due'[k] = due[k]
    /\ state'[k] = "detected" => state[k] = "detected"

LEMMA CaseSteps ==
    ASSUME DatesStand, Budgeted, [Next]_vars, NEW l \in Cases
    PROVE  \/ PersistPlan(l)
           \/ \E i \in StepsOf(l) :
                  /\ Due(l, i)
                  /\ Execute(l, i, Evaluate(ActionOf(l, i), Context(l)))
           \/ Kept(l)
<1>1. DOMAIN cost_spent = Cases /\ DOMAIN cost_ceiling = Cases
      /\ DOMAIN state = Cases /\ DOMAIN due = Cases
  BY DEF Budgeted, DatesStand
<1>2. ASSUME NEW k \in Cases, PersistPlan(k), k # l
      PROVE  Kept(l)
  BY <1>1, <1>2 DEF PersistPlan, Kept
<1>3. ASSUME NEW k \in Cases, NEW i, NEW d, Execute(k, i, d), k # l
      PROVE  Kept(l)
  BY <1>1, <1>3 DEF Execute, Kept
<1>4. ASSUME NEW k \in Cases, NEW i, NEW d, ExecuteFails(k, i, d) \/ Refuse(k, i, d)
      PROVE  Kept(l)
  BY <1>4 DEF ExecuteFails, Refuse, Kept, caseVars
<1>5. ASSUME NEW k \in Cases, NEW i, NEW d, Stop(k, i, d)
      PROVE  Kept(l)
  <2>1. STOPPING_OUTCOMES[d.rule_id] # "detected" \/ STOPPING_OUTCOMES[d.rule_id] = NULL
    BY <1>5 DEF Stop, STOPPING_OUTCOMES
  <2> QED
    BY <1>1, <1>5, <2>1 DEF Stop, Kept
<1>6. CASE Advance \/ (\E word \in Words : RecordConsent(word)) \/ UNCHANGED vars
  BY <1>6 DEF Advance, RecordConsent, vars, caseVars, planVars, Kept
<1>7. ASSUME NEW k \in Cases, NEW i \in StepsOf(k), GateAndExecute(k, i)
      PROVE  \/ Kept(l)
             \/ l = k /\ Due(k, i) /\ Execute(k, i, Evaluate(ActionOf(k, i), Context(k)))
  <2> DEFINE d == Evaluate(ActionOf(k, i), Context(k))
  <2>1. /\ Due(k, i)
        /\ Execute(k, i, d) \/ ExecuteFails(k, i, d) \/ Refuse(k, i, d) \/ Stop(k, i, d)
    BY <1>7 DEF GateAndExecute
  <2> HIDE DEF d
  <2> QED
    BY <1>3, <1>4, <1>5, <2>1 DEF d
<1> QED
  BY <1>2, <1>6, <1>7 DEF Next

\* A step that is planned or waits is a step of the playbook.
LEMMA PlannedIs ==
    ASSUME NEW k \in Cases
    PROVE  /\ WellFormed(PlaybookOf[k]) /\ AtRisk[k] \in Nat \ {0}
           /\ Planned(k) \in SUBSET DOMAIN PlaybookOf[k].steps
           /\ Waiting(k) \in SUBSET DOMAIN PlaybookOf[k].steps
           /\ IncludedSteps(PlaybookOf[k], AtRisk[k]) \in SUBSET DOMAIN PlaybookOf[k].steps
<1>1. WellFormed(PlaybookOf[k]) /\ AtRisk[k] \in Nat \ {0}
  BY GateConstants
<1>2. IncludedSteps(PlaybookOf[k], AtRisk[k]) \in SUBSET DOMAIN PlaybookOf[k].steps
  BY <1>1, IncludedAre
<1> QED
  BY <1>1, <1>2 DEF Planned, Waiting, StepsOf

LEMMA BudgetedHolds ==
    Dated /\ DatesStand /\ Filed /\ Budgeted /\ [Next]_vars => Budgeted'
<1> SUFFICES ASSUME Dated, DatesStand, Filed, Budgeted, [Next]_vars
             PROVE  Budgeted'
  OBVIOUS
<1> DEFINE Covered(k) ==
        /\ cost_spent'[k] \in Nat /\ cost_ceiling'[k] \in Nat
        /\ state'[k] = "detected" => cost_spent'[k] = 0 /\ cost_ceiling'[k] = 0
        /\ Planned(k)' # {} => Planned(k)' = IncludedSteps(PlaybookOf[k], AtRisk[k])
        /\ cost_spent'[k] + CostOf(PlaybookOf[k], Waiting(k)') <= cost_ceiling'[k]
        /\ cost_ceiling'[k] <= CeilingFor(PlaybookOf[k], AtRisk[k])
<1>1. ASSUME NEW k \in Cases
      PROVE  Covered(k)
  <2> DEFINE p == PlaybookOf[k]
             ceiling == CeilingFor(PlaybookOf[k], AtRisk[k])
             spent == cost_spent[k]
             budget == cost_ceiling[k]
             waiting == Waiting(k)
             planned == Planned(k)
             after == Waiting(k)'
             included == IncludedSteps(PlaybookOf[k], AtRisk[k])
  <2>1. /\ WellFormed(p) /\ ceiling \in Nat
        /\ {waiting, planned, included} \subseteq SUBSET DOMAIN p.steps
    <3>1. WellFormed(p) /\ AtRisk[k] \in Nat
      BY PlannedIs
    <3>2. ceiling \in Nat
      <4> HIDE DEF p
      <4> QED
        BY <3>1, CeilingLaws DEF p
    <3> QED
      BY <3>1, <3>2, PlannedIs
  <2>2. /\ spent \in Nat /\ budget \in Nat /\ budget <= ceiling
        /\ spent + CostOf(p, waiting) <= budget
        /\ state[k] = "detected" => spent = 0 /\ budget = 0
        /\ planned # {} => planned = included
    BY DEF Budgeted
  <2>3. \A i \in StepsOf(k) : decision'[k][i] = None => decision[k][i] = None
    BY NoneStays
  <2>4. CASE Kept(k)
    <3>1. Planned(k)' = planned
      BY <2>4 DEF Kept, Planned, StepsOf
    <3>2. after \subseteq waiting
      BY <2>3, <3>1 DEF Waiting, Planned
    <3>3. CostOf(p, after) \in Nat /\ CostOf(p, waiting) \in Nat
          /\ CostOf(p, after) <= CostOf(p, waiting)
      <4> HIDE DEF p, waiting, after
      <4> QED
        BY <2>1, <3>2, CostLaws
    <3>4. cost_spent'[k] = spent /\ cost_ceiling'[k] = budget
          /\ (state'[k] = "detected" => state[k] = "detected")
      BY <2>4 DEF Kept
    <3>5. spent + CostOf(p, after) <= budget
      <4> HIDE DEF p, waiting, after, spent, budget
      <4> QED
        BY <2>2, <3>3
    <3> QED
      BY <2>2, <3>1, <3>4, <3>5
  <2>5. CASE PersistPlan(k)
    <3> DEFINE cost == CostOf(p, included)
    <3>1. state[k] = "detected" /\ cost <= ceiling /\ cost \in Nat
      <4>1. state[k] = "detected" /\ cost <= ceiling
        BY <2>5 DEF PersistPlan, CanBePlanned
      <4>2. cost \in Nat
        <5> HIDE DEF p, included
        <5> QED
          BY <2>1, CostLaws
      <4> QED
        BY <4>1, <4>2
    <3>2. spent = 0 /\ budget = 0
      BY <2>2, <3>1
    <3>3. cost_spent'[k] = 0
      BY <2>5, <3>2 DEF PersistPlan
    <3>4. state'[k] # "detected"
      BY <2>5 DEF PersistPlan, DatesStand
    <3>5. cost_ceiling'[k] = cost
      <4>1. cost_ceiling'[k] = Max({budget, cost})
        BY <2>5 DEF PersistPlan, Budgeted
      <4>2. Max({0, cost}) = cost
        <5> HIDE DEF cost
        <5> QED
          BY <3>1 DEF Max
      <4> QED
        BY <3>2, <4>1, <4>2
    <3>6. Planned(k)' = included
      <4>1. \A i \in StepsOf(k) : DueDates(p, now)[i] # NULL
        <5>1. now \in Nat
          BY GateConstants DEF Dated
        <5>2. DueDates(p, now) \in [DOMAIN p.steps -> Nat]
          BY <2>1, <5>1, DatesAreInstants
        <5> QED
          BY <5>2, PolicyConstants DEF StepsOf
      <4>2. due'[k] = [i \in StepsOf(k) |->
                           IF i \in included THEN DueDates(p, now)[i] ELSE NULL]
        BY <2>5 DEF PersistPlan, DatesStand
      <4>3. \A i \in StepsOf(k) : due'[k][i] # NULL <=> i \in included
        <5> HIDE DEF p, included
        <5> QED
          BY <4>1, <4>2
      <4>4. included \subseteq StepsOf(k)
        BY <2>1 DEF StepsOf
      <4> QED
        BY <4>3, <4>4 DEF Planned, StepsOf
    <3>7. after \in SUBSET included
      BY <3>6 DEF Waiting
    <3>8. CostOf(p, after) \in Nat /\ CostOf(p, after) <= cost
      <4> HIDE DEF p, after, included
      <4> QED
        BY <2>1, <3>7, CostLaws
    <3> HIDE DEF cost, after, ceiling, p
    <3>9. 0 + CostOf(p, after) <= cost
      BY <3>1, <3>8
    <3> QED
      BY <3>1, <3>3, <3>4, <3>5, <3>6, <3>9 DEF after, p, ceiling
  <2>6. ASSUME NEW i \in StepsOf(k), Due(k, i),
               Execute(k, i, Evaluate(ActionOf(k, i), Context(k)))
        PROVE  Covered(k)
    <3> DEFINE d == Evaluate(ActionOf(k, i), Context(k))
               cost == p.steps[i].cost
    <3>1. i \in waiting
      BY <2>6 DEF Due, Waiting
    <3>2. /\ due' = due /\ cost_ceiling' = cost_ceiling
          /\ cost_spent' = [cost_spent EXCEPT ![k] = @ + ActionOf(k, i).cost]
          /\ decision' = [decision EXCEPT ![k][i] = Recorded(d)]
          /\ state'[k] = "detected" => state[k] = "detected"
      BY <2>6 DEF Execute, Decide, DatesStand, Recovered
    <3>3. ActionOf(k, i).cost = cost
      BY DEF ActionOf
    <3>4. cost_spent'[k] = spent + cost
      BY <3>2, <3>3 DEF Budgeted
    <3>5. Planned(k)' = planned
      BY <3>2 DEF Planned
    <3>6. i \notin after
      <4> DEFINE recorded == Recorded(d)
      <4>1. decision'[k][i] = recorded
        BY <3>2 DEF Filed
      <4>2. d.verdict = "allow"
        BY <2>6 DEF Execute
      <4> HIDE DEF d
      <4>3. recorded.verdict = "allow" /\ None.verdict = "none"
        BY <4>2 DEF Recorded, None
      <4> HIDE DEF recorded
      <4>4. decision'[k][i] # None
        BY <4>1, <4>3
      <4> QED
        BY <4>4 DEF Waiting
    <3>7. after \in SUBSET (waiting \ {i})
      BY <2>3, <3>5, <3>6 DEF Waiting, Planned
    <3>8. /\ cost \in Nat /\ CostOf(p, after) \in Nat
          /\ cost + CostOf(p, after) <= CostOf(p, waiting)
      <4>0. cost \in Nat
        BY <2>1 DEF WellFormed, StepsOf
      <4> HIDE DEF p, after, waiting, cost
      <4>1. CostOf(p, waiting) = cost + CostOf(p, waiting \ {i})
        BY <2>1, <3>1, CostLaws DEF cost
      <4>2. CostOf(p, after) \in Nat /\ CostOf(p, waiting \ {i}) \in Nat
            /\ CostOf(p, after) <= CostOf(p, waiting \ {i})
        <5> DEFINE rest == waiting \ {i}
        <5>1. rest \in SUBSET DOMAIN p.steps
          BY <2>1
        <5>2. after \in SUBSET rest
          BY <3>7
        <5> HIDE DEF rest
        <5>3. CostOf(p, after) \in Nat /\ CostOf(p, rest) \in Nat
              /\ CostOf(p, after) <= CostOf(p, rest)
          BY <2>1, <5>1, <5>2, CostLaws
        <5> QED
          BY <5>3 DEF rest
      <4> QED
        BY <4>0, <4>1, <4>2
    <3>9. CostOf(p, waiting) \in Nat
      <4> HIDE DEF p, waiting
      <4> QED
        BY <2>1, CostLaws
    <3>10. spent + cost + CostOf(p, after) <= budget /\ spent + cost \in Nat
      <4> HIDE DEF p, after, waiting, cost, spent, budget
      <4> QED
        BY <2>2, <3>8, <3>9
    <3>11. state[k] # "detected"
      BY <2>6 DEF Due, DatesStand
    <3> HIDE DEF cost, p, after
    <3> QED
      BY <2>2, <3>2, <3>4, <3>5, <3>10, <3>11 DEF p, after
  <2> HIDE DEF Covered
  <2> QED
    BY <2>4, <2>5, <2>6, CaseSteps
<1>2. cost_spent' \in [Cases -> Nat] /\ cost_ceiling' \in [Cases -> Nat]
  <2>1. cost_spent' = [k \in Cases |-> cost_spent'[k]]
        /\ cost_ceiling' = [k \in Cases |-> cost_ceiling'[k]]
    <3>1. ASSUME NEW k \in Cases, PersistPlan(k)
          PROVE  cost_spent' = cost_spent
                 /\ cost_ceiling' = [l \in Cases |-> cost_ceiling'[l]]
      BY <3>1 DEF PersistPlan, Budgeted
    <3>2. ASSUME NEW k \in Cases, NEW i \in StepsOf(k), GateAndExecute(k, i)
          PROVE  cost_ceiling' = cost_ceiling
                 /\ cost_spent' = [l \in Cases |-> cost_spent'[l]]
      BY <3>2 DEF GateAndExecute, Execute, ExecuteFails, Refuse, Stop, caseVars, Budgeted
    <3>3. CASE Advance \/ (\E word \in Words : RecordConsent(word)) \/ UNCHANGED vars
      BY <3>3 DEF Advance, RecordConsent, vars, caseVars, Budgeted
    <3>4. /\ cost_spent = [l \in Cases |-> cost_spent[l]]
          /\ cost_ceiling = [l \in Cases |-> cost_ceiling[l]]
      BY DEF Budgeted
    <3> QED
      BY <3>1, <3>2, <3>3, <3>4 DEF Next
  <2>2. \A k \in Cases : cost_spent'[k] \in Nat /\ cost_ceiling'[k] \in Nat
    BY <1>1
  <2> QED
    BY <2>1, <2>2
<1> QED
  BY <1>1, <1>2 DEF Budgeted

\* What is planned, paid and still to be paid is as a playbook asks.
LEMMA BudgetedMeans == Budgeted => BudgetCoversPlan
<1> SUFFICES ASSUME Budgeted, NEW k \in Cases
             PROVE  /\ NothingDroppedInVain(k)
                    /\ cost_spent[k] + CostOf(PlaybookOf[k], Waiting(k)) <= cost_ceiling[k]
                    /\ ~ExceedsShare(PlaybookOf[k], AtRisk[k], cost_ceiling[k])
  BY DEF BudgetCoversPlan, Waiting
<1> DEFINE p == PlaybookOf[k]
           at_risk == AtRisk[k]
           ceiling == CeilingFor(p, at_risk)
           budget == cost_ceiling[k]
           Exceeds(n) == ExceedsShare(p, at_risk, n)
<1>1. /\ WellFormed(p) /\ at_risk \in Nat
      /\ Planned(k) \in SUBSET DOMAIN p.steps
  BY PlannedIs
<1>2. /\ ceiling \in Nat /\ \A n \in Nat : n <= ceiling => ~Exceeds(n)
      /\ \A n \in Nat : n > ceiling => Exceeds(n)
  <2> HIDE DEF p, at_risk
  <2> QED
    BY <1>1, CeilingLaws
<1>4. budget \in Nat /\ budget <= ceiling
  BY DEF Budgeted
<1>5. ~Exceeds(budget)
  <2> HIDE DEF budget, ceiling, Exceeds
  <2> QED
    BY <1>2, <1>4
<1>6. ASSUME Planned(k) # {}
      PROVE  NothingDroppedInVain(k)
  <2> DEFINE all == ApplicableSteps(p, at_risk)
             kept == Planned(k)
             first == Min(all \ kept)
  <2>1. kept = FitToCeiling(p, all, ceiling)
    BY <1>6 DEF Budgeted, IncludedSteps
  <2>2. all \in SUBSET DOMAIN p.steps
    BY DEF ApplicableSteps
  <2>3. /\ \A i \in all \ kept : ~p.steps[i].required
        /\ all \ kept # {} =>
               /\ first \in all \ kept
               /\ \A i \in kept : i > first => p.steps[i].required
               /\ CostOf(p, kept \cup {first}) > ceiling
    <3> HIDE DEF p, all, kept, ceiling
    <3>1. Fitted(p, all, ceiling, kept)
      BY <1>1, <1>2, <2>1, <2>2, FitLaws
    <3> QED
      BY <3>1 DEF Fitted
  <2>4. ASSUME all \ kept # {}
        PROVE  Exceeds(CostOf(p, kept \cup {first}))
    <3> DEFINE more == kept \cup {first}
               cost == CostOf(p, more)
    <3>1. more \in SUBSET DOMAIN p.steps
      BY <1>1, <2>2, <2>3, <2>4
    <3>2. cost \in Nat
      <4> HIDE DEF p, more
      <4> QED
        BY <1>1, <3>1, CostLaws
    <3>3. cost > ceiling
      BY <2>3, <2>4
    <3> HIDE DEF cost, ceiling, Exceeds
    <3>4. Exceeds(cost)
      BY <1>2, <3>2, <3>3
    <3> QED
      BY <3>4 DEF cost
  <2> QED
    BY <2>3, <2>4 DEF NothingDroppedInVain
<1>7. cost_spent[k] + CostOf(PlaybookOf[k], Waiting(k)) <= cost_ceiling[k]
  BY DEF Budgeted
<1> QED
  BY <1>5, <1>6, <1>7 DEF NothingDroppedInVain

-----------------------------------------------------------------------------
(* Types.                                                                  *)

\* The engine answers with a verdict, a rule of its table and an instant, or none.
LEMMA EngineTypes ==
    ASSUME NEW a, NEW c, c.now \in Nat, c.utc_offset \in Int,
           c.promise_to_pay \in Nat \cup {NULL},
           IsFiniteSet(c.contact_history),
           \A e \in c.contact_history : e.occurred_at \in 0..c.now,
           NEW d, d = Evaluate(a, c)
    PROVE  /\ d.verdict \in {"allow", "defer", "deny"}
           /\ d.rule_id \in {RULES[i] : i \in DOMAIN RULES} \cup {NULL}
           /\ d.defer_until \in Nat \cup {NULL}
<1> DEFINE firing == {i \in DOMAIN RULES : Fires(RULES[i], a, c)}
           rule == RULES[Min(firing)]
           until == DeferUntil(rule, a, c)
<1>1. CASE firing = {}
  BY <1>1 DEF Evaluate
<1>2. CASE firing # {}
  <2>1. Min(firing) \in firing
    <3>1. firing \in SUBSET Nat
      BY DEF RULES
    <3> HIDE DEF firing
    <3> QED
      BY <1>2, <3>1, MinIs
  <2>2. /\ d.verdict \in {"defer", "deny"} /\ d.rule_id = rule /\ d.defer_until = until
    BY <1>2 DEF Evaluate
  <2>3. rule \in {RULES[i] : i \in DOMAIN RULES} /\ Fires(rule, a, c)
    BY <2>1
  <2>4. \/ rule = "promise_to_pay_active" /\ until = c.promise_to_pay * Day
        \/ rule = "quiet_hours" /\ until = NextWindowOpen(a, c)
        \/ rule = "frequency_cap" /\ until = OldestLeaves(a, c)
        \/ until = c.now + 1
        \/ until = NULL
    <3> HIDE DEF rule
    <3> QED
      BY DEF DeferUntil
  <2> HIDE DEF firing, rule, until
  <2>5. CASE rule = "promise_to_pay_active" /\ until = c.promise_to_pay * Day
    <3>1. PromiseActive(c)
      BY <2>3, <2>5 DEF Fires
    <3>2. c.promise_to_pay \in Nat
      BY <3>1 DEF PromiseActive
    <3>3. until \in Nat
      BY <2>5, <3>2, PolicyConstants
    <3> QED
      BY <2>2, <2>3, <3>3
  <2>6. CASE rule = "quiet_hours" /\ until = NextWindowOpen(a, c)
    <3>1. QuietHours(a, c)
      BY <2>3, <2>6, FiresMeans
    <3>2. until \in Nat
      BY <2>6, <3>1, NightLasts
    <3> QED
      BY <2>2, <2>3, <3>2
  <2>7. CASE rule = "frequency_cap" /\ until = OldestLeaves(a, c)
    <3>1. FrequencyCap(a, c)
      BY <2>3, <2>7, FiresMeans
    <3>2. until \in Nat
      BY <2>7, <3>1, CapLasts
    <3> QED
      BY <2>2, <2>3, <3>2
  <2>8. CASE until = c.now + 1 \/ until = NULL
    BY <2>2, <2>3, <2>8
  <2> QED
    BY <2>4, <2>5, <2>6, <2>7, <2>8
<1> QED
  BY <1>1, <1>2

\* So it does of any action, asked at the gate.
LEMMA RecordedIsDecision ==
    ASSUME Dated, NEW a, NEW k
    PROVE  Recorded(Evaluate(a, Context(k))) \in Decisions
<1> DEFINE c == Context(k)
           d == Evaluate(a, c)
<1>1. c.now = now /\ c.utc_offset = utc_offset /\ c.promise_to_pay = fact.promise_to_pay
      /\ c.contact_history \subseteq contact_events
  BY ContextIs
<1>2. now \in Nat /\ now \in 0..MaxTime /\ utc_offset \in Int
      /\ fact.promise_to_pay \in Nat \cup {NULL}
      /\ IsFiniteSet(contact_events) /\ \A e \in contact_events : e.occurred_at \in 0..now
  BY GateConstants DEF Dated
<1> HIDE DEF c
<1>3. IsFiniteSet(c.contact_history)
  BY <1>1, <1>2, FS_Subset
<1>4. /\ d.verdict \in {"allow", "defer", "deny"}
      /\ d.rule_id \in {RULES[i] : i \in DOMAIN RULES} \cup {NULL}
      /\ d.defer_until \in Nat \cup {NULL}
  BY <1>1, <1>2, <1>3, EngineTypes
<1> HIDE DEF d
<1>5. Recorded(d) \in Decisions
  BY <1>2, <1>4 DEF Recorded, Decisions
<1> QED
  BY <1>5 DEF d, c

LEMMA StatesHold ==
    ASSUME DatesStand, [Next]_vars, NEW l \in Cases, state[l] \in States
    PROVE  state'[l] \in States
<1>1. DOMAIN state = Cases
  BY DEF DatesStand
<1>2. {"awaiting_approval", "executing"} \cup Recovered \subseteq States
  BY DEF States, Terminal, Recovered, Transitions
<1>3. ASSUME NEW k \in Cases, PersistPlan(k)
      PROVE  state'[l] \in States
  BY <1>1, <1>2, <1>3 DEF PersistPlan
<1>4. ASSUME NEW k \in Cases, NEW i, NEW d,
             Execute(k, i, d) \/ ExecuteFails(k, i, d) \/ Refuse(k, i, d)
      PROVE  state'[l] \in States
  BY <1>1, <1>2, <1>4 DEF Execute, ExecuteFails, Refuse, caseVars
<1>5. ASSUME NEW k \in Cases, NEW i, NEW d, Stop(k, i, d)
      PROVE  state'[l] \in States
  <2>1. STOPPING_OUTCOMES[d.rule_id] \in States \cup {NULL}
    <3>1. d.rule_id \in DOMAIN STOPPING_OUTCOMES
      BY <1>5 DEF Stop
    <3>2. {"suppressed", "lost", "expired", "escalated"} \subseteq States
      BY DEF States, Terminal, Transitions
    <3> HIDE DEF States
    <3> QED
      BY <3>1, <3>2 DEF STOPPING_OUTCOMES
  <2> QED
    BY <1>1, <1>5, <2>1 DEF Stop
<1>6. CASE UNCHANGED state
  BY <1>6
<1> QED
  BY <1>3, <1>4, <1>5, <1>6
     DEF Next, vars, caseVars, planVars, Advance, RecordConsent, GateAndExecute

LEMMA TypedHolds ==
    Dated /\ DatesStand /\ Filed /\ Typed /\ [Next]_vars => Typed'
<1> SUFFICES ASSUME Dated, DatesStand, Filed, Typed, [Next]_vars
             PROVE  Typed'
  OBVIOUS
<1>1. words' \in 0..MaxWords
  <2>1. ASSUME NEW word \in Words, RecordConsent(word)
        PROVE  words' \in 0..MaxWords
    BY <2>1, GateConstants DEF RecordConsent, Typed
  <2>2. ASSUME NEW k \in Cases, NEW i \in StepsOf(k), GateAndExecute(k, i)
        PROVE  words' = words
    BY <2>2 DEF GateAndExecute, Execute, ExecuteFails, Refuse, Stop, world
  <2>3. ASSUME NEW k \in Cases, PersistPlan(k)
        PROVE  words' = words
    BY <2>3 DEF PersistPlan, world
  <2>4. CASE Advance \/ UNCHANGED vars
    BY <2>4 DEF Advance, vars, world, Typed
  <2> QED
    BY <2>1, <2>2, <2>3, <2>4 DEF Next, Typed
<1>2. ASSUME NEW k \in Cases, NEW i \in StepsOf(k)
      PROVE  /\ decision'[k][i] \in Decisions \cup {None, Cancelled}
             /\ decision'[k][i] # None => i \in Planned(k)'
  <2>1. /\ \/ decision'[k][i] \in {decision[k][i], Cancelled}
           \/ decision'[k][i] = Recorded(Evaluate(ActionOf(k, i), Context(k)))
        /\ decision'[k][i] # decision[k][i] => i \in Planned(k)
    BY DecisionSteps
  <2>2. Recorded(Evaluate(ActionOf(k, i), Context(k))) \in Decisions
    BY RecordedIsDecision
  <2>3. i \in Planned(k) => i \in Planned(k)'
    <3> SUFFICES ASSUME i \in Planned(k)
                 PROVE  i \in Planned(k)'
      OBVIOUS
    <3>1. due'[k] = due[k]
      BY PlannedStays DEF DatesStand
    <3> QED
      BY <3>1 DEF Planned, StepsOf
  <2>4. decision[k][i] \in Decisions \cup {None, Cancelled}
        /\ (decision[k][i] # None => i \in Planned(k))
    BY DEF Typed
  <2> QED
    BY <2>1, <2>2, <2>3, <2>4
<1>3. \A k \in Cases : state'[k] \in States
  BY StatesHold DEF Typed
<1> QED
  BY <1>1, <1>2, <1>3 DEF Typed, StepsOf

LEMMA TypesFollow == Dated /\ DatesStand /\ Filed /\ Budgeted /\ Typed => TypeOK
<1> SUFFICES ASSUME Dated, DatesStand, Filed, Budgeted, Typed
             PROVE  TypeOK
  OBVIOUS
<1>1. ASSUME NEW k \in Cases
      PROVE  {cost_spent[k], cost_ceiling[k]} \subseteq 0..AtRisk[k]
  <2> DEFINE p == PlaybookOf[k]
             at_risk == AtRisk[k]
             ceiling == CeilingFor(p, at_risk)
             cost == CostOf(p, Waiting(k))
  <2>1. WellFormed(p) /\ at_risk \in Nat /\ Waiting(k) \in SUBSET DOMAIN p.steps
    BY PlannedIs
  <2>2. ceiling \in Nat /\ ceiling <= at_risk /\ cost \in Nat
    <3> HIDE DEF p, at_risk
    <3> QED
      BY <2>1, CeilingLaws, CostLaws
  <2>3. cost_spent[k] \in Nat /\ cost_ceiling[k] \in Nat
        /\ cost_spent[k] + cost <= cost_ceiling[k] /\ cost_ceiling[k] <= ceiling
    BY DEF Budgeted
  <2> HIDE DEF ceiling, cost
  <2> QED
    BY <2>1, <2>2, <2>3
<1>2. ASSUME NEW k \in Cases
      PROVE  decision[k] \in [StepsOf(k) -> Decisions \cup {None, Cancelled}]
  BY DEF Filed, Typed
<1> QED
  BY <1>1, <1>2 DEF TypeOK, Dated, DatesStand, Typed

-----------------------------------------------------------------------------
(* The invariant.                                                          *)

LEMMA Starts == Init => IInv
<1> SUFFICES ASSUME Init
             PROVE  IInv
  OBVIOUS
<1>1. Dated
  BY GateConstants, FS_EmptySet DEF Init, Dated
<1>2. DatesStand
  <2> DEFINE none == [k \in Cases |-> [i \in StepsOf(k) |-> NULL]]
  <2>1. due = none /\ row_due = none /\ state = [k \in Cases |-> "detected"]
    BY DEF Init, ForEachStep
  <2>2. \A k \in Cases : none[k] \in [StepsOf(k) -> Nat \cup {NULL}]
    OBVIOUS
  <2>3. none \in [Cases -> Plans]
    BY <2>2 DEF Plans
  <2>4. \A k \in Cases : \A i \in StepsOf(k) : none[k][i] = NULL
    OBVIOUS
  <2> HIDE DEF none
  <2> QED
    BY <2>1, <2>2, <2>3, <2>4 DEF DatesStand, Planned
<1>3. ContactsWithinCaps /\ OnlyEmailAtNight /\ ContactsHadConsent
  BY DEF Init, ContactsWithinCaps, OnlyEmailAtNight, ContactsHadConsent
<1>4. Filed /\ \A k \in Cases : \A i \in StepsOf(k) : decision[k][i] = None
  BY DEF Init, ForEachStep, Filed
<1>5. DeferredNoLongerThanNeeded
  BY <1>4 DEF DeferredNoLongerThanNeeded
<1>6. \A k \in Cases : Planned(k) = {} /\ Waiting(k) = {}
  <2>1. \A k \in Cases : \A i \in StepsOf(k) : due[k][i] = NULL
    BY DEF Init, ForEachStep
  <2> QED
    BY <2>1 DEF Planned, Waiting
<1>7. Budgeted
  <2>1. ASSUME NEW k \in Cases
        PROVE  CostOf(PlaybookOf[k], {}) = 0 /\ CeilingFor(PlaybookOf[k], AtRisk[k]) \in Nat
    <3>1. WellFormed(PlaybookOf[k]) /\ AtRisk[k] \in Nat
      BY GateConstants
    <3>2. {} \in SUBSET DOMAIN PlaybookOf[k].steps
      OBVIOUS
    <3> QED
      BY <3>1, <3>2, CostLaws, CeilingLaws
  <2>2. /\ cost_spent \in [Cases -> Nat] /\ cost_ceiling \in [Cases -> Nat]
        /\ \A k \in Cases : cost_spent[k] = 0 /\ cost_ceiling[k] = 0
    BY DEF Init
  <2>3. ASSUME NEW k \in Cases
        PROVE  /\ cost_spent[k] + CostOf(PlaybookOf[k], Waiting(k)) <= cost_ceiling[k]
               /\ cost_ceiling[k] <= CeilingFor(PlaybookOf[k], AtRisk[k])
    <3>1. Waiting(k) = {}
      BY <1>6
    <3> HIDE DEF Init
    <3> QED
      BY <2>1, <2>2, <3>1
  <2> QED
    BY <1>6, <2>2, <2>3 DEF Budgeted
<1>8. Typed
  <2>1. "detected" \in States
    BY DEF States, Transitions
  <2> QED
    BY <1>4, <2>1, GateConstants DEF Init, Typed
<1> QED
  BY <1>1, <1>2, <1>3, <1>4, <1>5, <1>7, <1>8 DEF IInv

LEMMA Continues == IInv /\ [Next]_vars => IInv'
  BY DatedHolds, DatesStandHold, CapsHold, OnlyEmailAtNightHolds, ContactsHadConsentHolds,
     DecisionSteps, DeferralsJustified, BudgetedHolds, TypedHolds DEF IInv

LEMMA Invariance == Spec => []IInv
<1>1. Init => IInv
  BY Starts
<1>2. IInv /\ [Next]_vars => IInv'
  BY Continues
<1> QED
  BY <1>1, <1>2, PTL DEF Spec

\* P7: rule R7 as it is written keeps a customer's contacts below every cap of
\* frequency_cap.py, however many cases are gated and however their plans fall together,
\* on the condition that the gate is handed load_contact_history.  The runner, its only
\* caller so far, hands over none, and MCCaps.cfg shows the caps exceeded.
THEOREM CapsCorrect ==
    ASSUME LoadsContacts
    PROVE  Spec => []ContactsWithinCaps
<1>1. IInv => ContactsWithinCaps
  BY DEF IInv
<1> QED
  BY <1>1, Invariance, PTL

\* Whatever the customer's offset and the hours configured, quiet_hours.py lets no SMS, no
\* WhatsApp message and no call out in a night, whatever day it is.  It exempts email,
\* which POLICY-ENGINE.md's P3 does not: MCNight.cfg shows one sent in a night.
THEOREM NightsAreQuiet == Spec => []OnlyEmailAtNight
<1>1. IInv => OnlyEmailAtNight
  BY DEF IInv
<1> QED
  BY <1>1, Invariance, PTL

\* P4: every contact had consent when it was due and no STOP before it, whatever
\* words came in between planning and contact and after it.
THEOREM ConsentCorrect == Spec => []ContactsHadConsent
<1>1. IInv => ContactsHadConsent
  BY DEF IInv
<1> QED
  BY <1>1, Invariance, PTL

\* What quiet_hours.py or frequency_cap.py puts off could not have gone out
\* sooner, and quiet hours are over at the date they name, for every offset.
THEOREM DeferralsAreTight == Spec => []DeferredNoLongerThanNeeded
<1>1. IInv => DeferredNoLongerThanNeeded
  BY DEF IInv
<1> QED
  BY <1>1, Invariance, PTL

\* P2 and TR-18: what persist_plan budgets pays for every step of the plan that is
\* still to be decided, whatever was charged and cancelled in between; it is within
\* the playbook's share of the amount, rounded down to whole paise; and planner.py
\* leaves out no required step, and none that could have been paid for.
THEOREM BudgetCorrect == Spec => []BudgetCoversPlan
<1>1. IInv => BudgetCoversPlan
  BY BudgetedMeans DEF IInv
<1> QED
  BY <1>1, Invariance, PTL

\* The gate's answers are of its table and its dates are instants; no case is in a
\* state that case.py does not know, no budget beyond the amount at risk, and no
\* decision of a step that was not planned.
THEOREM TypeCorrect == Spec => []TypeOK
<1>1. IInv => TypeOK
  BY TypesFollow DEF IInv
<1> QED
  BY <1>1, Invariance, PTL

=============================================================================
