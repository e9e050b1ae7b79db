-------------------------- MODULE AuditChainProofs --------------------------
(***************************************************************************)
(* Proofs about the audit chains, for any number of cases and sessions and *)
(* any bound on their length.                                              *)
(*                                                                         *)
(* The argument: what a transaction sees of a chain - the committed rows   *)
(* and its own - is always an intact chain, and only the holder of the     *)
(* case's lock has rows of its own.  So the tail read under the lock is    *)
(* still the tail at the INSERT, and a commit publishes an intact chain.   *)
(***************************************************************************)
EXTENDS AuditChain, SequenceTheorems, FiniteSetTheorems, TLAPS

Row == [body : Bodies, prev : Seq(Bodies)]
Rows == UNION {[D -> Row] : D \in SUBSET (Nat \ {0})}
Steps == [case : Cases, body : Bodies]

\* A chain verify_chain finds nothing wrong with.
Intact(t) ==
    /\ t \in Seq(Row)
    /\ \A n \in 1..Len(t) : t[n].prev = HashAt(t, n - 1)

Typed ==
    /\ state \in [Cases -> States \cup {"absent"}]
    /\ log \in [Cases -> Seq(Row)]
    /\ kind \in [Writers -> {"none", "open", "plan", "record", "close", "claim", "attribute"}]
    /\ at \in [Writers -> {"idle", "asking", "locked", "read"}]
    /\ todo \in [Writers -> Seq(Steps)]
    /\ sets \in [Writers -> [case : Cases \cup {NULL}, to : Bodies]]
    /\ staged \in [Writers -> [Cases -> Rows]]
    /\ tail \in [Writers -> Nat]
    /\ caseLock \in [Cases -> Writers \cup {NULL}]

\* Rows that are not committed belong to the holder of the case's lock.
OwnRows ==
    \A w \in Writers : \A c \in Cases :
        at[w] = "idle" \/ caseLock[c] # w => staged[w][c] = <<>>

\* Everybody's view of every chain is intact, and nobody's rows hide committed ones.
ViewsIntact ==
    \A c \in Cases :
        /\ Intact(log[c])
        /\ \A w \in Writers :
            /\ Intact(Seen(w, c))
            /\ DOMAIN log[c] \cap DOMAIN staged[w][c] = {}

\* From the lock to the INSERT the case is the transaction's own, and what it read is
\* the end of what it sees.
TailIsCurrent ==
    \A w \in Writers :
        /\ at[w] \in {"locked", "read"} => todo[w] # <<>> /\ caseLock[Subject(w)] = w
        /\ at[w] = "read" => tail[w] = Len(Seen(w, Subject(w)))

\* What the events of a transaction say of a case, flushed or still to come.
RowsSay(t) == {t[n].body : n \in DOMAIN t}
TodoSays(t, c) == {t[i].body : i \in {j \in DOMAIN t : t[j].case = c}}
Saying(w, c) == (RowsSay(staged[w][c]) \cup TodoSays(todo[w], c)) \ {"silent"}

SaysWhatItSets ==
    \A w \in Writers : \A c \in Cases :
        Saying(w, c) = IF sets[w].case = c THEN {sets[w].to} ELSE {}

IInv ==
    /\ Typed
    /\ OwnRows
    /\ ViewsIntact
    /\ TailIsCurrent
    /\ SaysWhatItSets

-----------------------------------------------------------------------------
(* Chains.                                                                 *)

\* The sequences of rows are the functions with an initial segment as domain.
LEMMA RowsOfChain == \A t \in Seq(Row) : t \in Rows /\ DOMAIN t = 1..Len(t)
<1> SUFFICES ASSUME NEW t \in Seq(Row)
             PROVE  t \in Rows /\ DOMAIN t = 1..Len(t)
  OBVIOUS
<1>1. DOMAIN t = 1..Len(t) /\ t \in [1..Len(t) -> Row] /\ 1..Len(t) \in SUBSET (Nat \ {0})
  OBVIOUS
<1> QED
  BY <1>1 DEF Rows

\* The latest seq of a chain is its length.
LEMMA LastSeqIsLen ==
    ASSUME NEW t \in Seq(Row)
    PROVE  LastSeq(t) = Len(t)
<1>1. DOMAIN t = 1..Len(t) /\ Len(t) \in Nat
  OBVIOUS
<1>2. ASSUME NEW n \in DOMAIN t \cup {0}, \A m \in DOMAIN t : m <= n
      PROVE  n = Len(t)
  <2>1. n \in Nat /\ n <= Len(t)
    BY <1>1, <1>2
  <2>2. Len(t) # 0 => Len(t) \in DOMAIN t
    BY <1>1
  <2>3. Len(t) # 0 => Len(t) <= n
    BY <1>2, <2>2
  <2> DEFINE k == Len(t)
  <2>4. k \in Nat /\ n \in Nat /\ n <= k /\ (k # 0 => k <= n)
    BY <1>1, <2>1, <2>3
  <2>5. n = k
    <3> HIDE DEF k
    <3> QED
      BY <2>4
  <2> QED
    BY <2>5
<1>3. Len(t) \in DOMAIN t \cup {0} /\ \A m \in DOMAIN t : m <= Len(t)
  BY <1>1
<1> QED
  BY <1>2, <1>3 DEF LastSeq

\* A transaction without rows sees the committed chain.
LEMMA MergeNothing ==
    ASSUME NEW t \in Seq(Row)
    PROVE  Merge(t, <<>>) = t
<1>1. DOMAIN t = 1..Len(t) /\ t = [n \in 1..Len(t) |-> t[n]] /\ DOMAIN <<>> = {}
  OBVIOUS
<1> QED
  BY <1>1 DEF Merge

\* A row after the last one is appended to the view.
LEMMA MergeAppends ==
    ASSUME NEW a \in Seq(Row), NEW b \in Rows, NEW r \in Row,
           Merge(a, b) \in Seq(Row)
    PROVE  LET n == Len(Merge(a, b)) + 1
           IN  Merge(a, Merge(b, [m \in {n} |-> r])) = Append(Merge(a, b), r)
<1> DEFINE t == Merge(a, b)
           n == Len(t) + 1
           u == Merge(a, Merge(b, [m \in {n} |-> r]))
<1>1. DOMAIN t = 1..Len(t) /\ Len(t) \in Nat /\ t = [m \in 1..Len(t) |-> t[m]]
  OBVIOUS
<1>2. DOMAIN t = DOMAIN a \cup DOMAIN b
  BY DEF Merge
<1>3. DOMAIN u = DOMAIN a \cup DOMAIN b \cup {n}
  BY DEF Merge
<1>4. DOMAIN u = 1..n
  <2> HIDE DEF t, u
  <2>1. DOMAIN u = 1..Len(t) \cup {n}
    BY <1>1, <1>2, <1>3
  <2> QED
    BY <1>1, <2>1
<1>5. \A m \in 1..Len(t) : u[m] = t[m]
  <2> SUFFICES ASSUME NEW m \in 1..Len(t)
               PROVE  u[m] = t[m]
    OBVIOUS
  <2>1. m # n /\ m \in DOMAIN a \cup DOMAIN b
    BY <1>1, <1>2
  <2> QED
    BY <2>1 DEF Merge
<1>6. u[n] = r
  BY DEF Merge
<1>7. u = [m \in 1..n |-> IF m = n THEN r ELSE t[m]]
  <2>1. u = [m \in DOMAIN u |-> u[m]]
    BY DEF Merge
  <2> HIDE DEF t, u
  <2>2. u = [m \in 1..n |-> u[m]]
    BY <2>1, <1>4
  <2>3. \A m \in 1..n : u[m] = IF m = n THEN r ELSE t[m]
    BY <1>1, <1>5, <1>6
  <2> QED
    BY <2>2, <2>3, Zenon
<1>8. Append(t, r) = [m \in 1..n |-> IF m = n THEN r ELSE t[m]]
  <2> HIDE DEF t
  <2>1. t \in Seq(Row)
    BY DEF t
  <2> DEFINE v == Append(t, r)
  <2>2. v \in Seq(Row) /\ Len(v) = n
    BY <1>1, <2>1
  <2>3. \A m \in 1..n : v[m] = IF m = n THEN r ELSE t[m]
    BY <1>1, <2>1
  <2> HIDE DEF v, n
  <2>4. v = [m \in 1..n |-> v[m]]
    <3>1. v = [m \in 1..Len(v) |-> v[m]]
      BY <2>2
    <3> QED
      BY <2>2, <3>1, Zenon
  <2>5. v = [m \in 1..n |-> IF m = n THEN r ELSE t[m]]
    BY <2>3, <2>4, Zenon
  <2> QED
    BY <2>5 DEF v, n
<1> QED
  BY <1>7, <1>8

\* append_event extends an intact chain to an intact chain.
LEMMA AppendKeepsIntact ==
    ASSUME NEW t, Intact(t), NEW b \in Bodies
    PROVE  /\ AppendEvent(t, Len(t), b).seq = Len(t) + 1
           /\ AppendEvent(t, Len(t), b).row \in Row
           /\ Intact(Append(t, AppendEvent(t, Len(t), b).row))
<1> DEFINE r == AppendEvent(t, Len(t), b).row
           u == Append(t, r)
<1>1. t \in Seq(Row) /\ Len(t) \in Nat
  BY DEF Intact
<1>2. HashAt(t, Len(t)) \in Seq(Bodies)
  <2>1. CASE Len(t) = 0
    BY <2>1 DEF HashAt
  <2>2. CASE Len(t) # 0
    <3>1. t[Len(t)] \in Row
      BY <1>1, <2>2
    <3> QED
      BY <2>2, <3>1 DEF HashAt, Hash, Row
  <2> QED
    BY <2>1, <2>2
<1>3. r = [body |-> b, prev |-> HashAt(t, Len(t))]
  BY DEF AppendEvent
<1>4. r \in Row
  BY <1>2, <1>3 DEF Row
<1>5. u \in Seq(Row) /\ Len(u) = Len(t) + 1 /\ u[Len(t) + 1] = r
      /\ \A m \in 1..Len(t) : u[m] = t[m]
  BY <1>1, <1>4
<1>6. ASSUME NEW n \in 1..Len(u)
      PROVE  u[n].prev = HashAt(u, n - 1)
  <2>1. CASE n = Len(t) + 1
    <3>1. HashAt(u, Len(t)) = HashAt(t, Len(t))
      BY <1>1, <1>5 DEF HashAt
    <3> QED
      BY <1>1, <1>3, <1>5, <2>1, <3>1
  <2>2. CASE n # Len(t) + 1
    <3>1. n \in 1..Len(t) /\ (n - 1 = 0 \/ n - 1 \in 1..Len(t))
      BY <1>1, <1>5, <2>2
    <3>2. HashAt(u, n - 1) = HashAt(t, n - 1)
      BY <1>5, <3>1 DEF HashAt
    <3> QED
      BY <1>5, <3>1, <3>2 DEF Intact
  <2> QED
    BY <2>1, <2>2
<1>7. AppendEvent(t, Len(t), b).seq = Len(t) + 1
  BY DEF AppendEvent
<1> QED
  BY <1>4, <1>5, <1>6, <1>7 DEF Intact

\* verify_chain finds nothing in an intact chain.
LEMMA IntactVerifies ==
    ASSUME NEW t, Intact(t)
    PROVE  VerifyChain(t) = 0
<1>1. DOMAIN t = 1..Len(t) /\ Len(t) \in Nat
  BY DEF Intact
<1>2. Cardinality(1..Len(t)) = Len(t)
  <2> DEFINE n == Len(t)
  <2>1. n \in Nat
    BY <1>1
  <2> HIDE DEF n
  <2>2. Cardinality(1..n) = IF 1 > n THEN 0 ELSE n - 1 + 1
    BY <2>1, FS_Interval
  <2>3. Cardinality(1..n) = n
    BY <2>1, <2>2
  <2> QED
    BY <2>3 DEF n
<1> QED
  BY <1>1, <1>2 DEF VerifyChain, Intact

-----------------------------------------------------------------------------
(* Transactions.                                                           *)

\* What the events of a transaction say of a case.
Says(x, c) == TodoSays(x.todo, c) \ {"silent"}

WellFormed(x) ==
    /\ x.kind \in {"open", "plan", "record", "close", "claim", "attribute"}
    /\ x.todo \in Seq(Steps)
    /\ x.sets \in [case : Cases \cup {NULL}, to : Bodies]
    /\ \A c \in Cases : Says(x, c) = IF x.sets.case = c THEN {x.sets.to} ELSE {}

LEMMA SomeBodies ==
    /\ "silent" \in Bodies
    /\ {"detected", "executing", "awaiting_approval", "holdout", "escalated"} \subseteq Bodies
    /\ Terminal \subseteq Bodies \ {"silent"} /\ Recovered \subseteq Bodies \ {"silent"}
    /\ Cases \cap {NULL} = {}
  BY AuditConstants DEF Bodies, States, Transitions, Terminal, Recovered

\* A transaction on one case, whose events say its new state or nothing.
LEMMA MovingWellFormed ==
    ASSUME NEW k \in {"open", "plan", "record", "close", "claim", "attribute"},
           NEW c \in Cases, NEW b \in Bodies \ {"silent"}, NEW q \in Seq(Bodies),
           {q[i] : i \in 1..Len(q)} \ {"silent"} = {b}
    PROVE  WellFormed(Moving(k, c, b, q))
<1> DEFINE x == Moving(k, c, b, q)
<1>1. x.kind = k /\ x.sets = [case |-> c, to |-> b]
      /\ x.todo = [i \in 1..Len(q) |-> [case |-> c, body |-> q[i]]]
  BY DEF Moving, On
<1> HIDE DEF x
<1>2. \A i \in 1..Len(q) : [case |-> c, body |-> q[i]] \in Steps
  BY DEF Steps
<1>3. x.todo \in Seq(Steps) /\ DOMAIN x.todo = 1..Len(q)
  BY <1>1, <1>2
<1>4. ASSUME NEW d \in Cases
      PROVE  Says(x, d) = IF x.sets.case = d THEN {x.sets.to} ELSE {}
  <2>1. \A i \in DOMAIN x.todo : x.todo[i].case = c /\ x.todo[i].body = q[i]
    BY <1>1, <1>3
  <2>2. x.sets.case = c /\ x.sets.to = b
    BY <1>1
  <2>3. CASE d = c
    <3>1. {j \in DOMAIN x.todo : x.todo[j].case = d} = 1..Len(q)
      BY <1>3, <2>1, <2>3
    <3>2. {x.todo[i].body : i \in 1..Len(q)} = {q[i] : i \in 1..Len(q)}
      BY <1>3, <2>1
    <3> QED
      BY <2>2, <2>3, <3>1, <3>2 DEF Says, TodoSays
  <2>4. CASE d # c
    BY <2>1, <2>2, <2>4 DEF Says, TodoSays
  <2> QED
    BY <2>3, <2>4
<1>5. WellFormed(x)
  BY <1>1, <1>3, <1>4 DEF WellFormed
<1> QED
  BY <1>5 DEF x

\* The bodies of the sequences of one, two and three events.
LEMMA OneBody ==
    ASSUME NEW b \in Bodies \ {"silent"}
    PROVE  <<b>> \in Seq(Bodies) /\ {<<b>>[i] : i \in 1..Len(<<b>>)} \ {"silent"} = {b}
  OBVIOUS

LEMMA TwoBodies ==
    ASSUME NEW a \in Bodies, NEW b \in Bodies, NEW s \in Bodies, {a, b} \ {"silent"} = {s}
    PROVE  <<a, b>> \in Seq(Bodies) /\ {<<a, b>>[i] : i \in 1..Len(<<a, b>>)} \ {"silent"} = {s}
<1> DEFINE q == <<a, b>>
<1>1. q \in Seq(Bodies) /\ 1..Len(q) = {1, 2} /\ q[1] = a /\ q[2] = b
  OBVIOUS
<1> HIDE DEF q
<1>2. {q[i] : i \in 1..Len(q)} = {a, b}
  BY <1>1
<1> QED
  BY <1>1, <1>2 DEF q

LEMMA ThreeBodies ==
    LET q == <<"silent", "detected", "silent">>
    IN  q \in Seq(Bodies) /\ {q[i] : i \in 1..Len(q)} \ {"silent"} = {"detected"}
<1> DEFINE q == <<"silent", "detected", "silent">>
<1>1. q \in Seq(Bodies) /\ 1..Len(q) = {1, 2, 3}
      /\ q[1] = "silent" /\ q[2] = "detected" /\ q[3] = "silent"
  BY SomeBodies
<1> HIDE DEF q
<1>2. {q[i] : i \in 1..Len(q)} = {"silent", "detected"}
  BY <1>1
<1> QED
  BY <1>1, <1>2 DEF q

LEMMA OpeningsWellFormed == \A x \in Openings : WellFormed(x)
<1> DEFINE q == <<"silent", "detected", "silent">>
<1> SUFFICES ASSUME NEW c \in Cases
             PROVE  WellFormed(Moving("open", c, "detected", q))
  BY DEF Openings
<1>1. q \in Seq(Bodies) /\ {q[i] : i \in 1..Len(q)} \ {"silent"} = {"detected"}
  BY ThreeBodies
<1>2. "detected" \in Bodies \ {"silent"}
  BY SomeBodies
<1> HIDE DEF q
<1> QED
  BY <1>1, <1>2, MovingWellFormed

LEMMA PlanningsWellFormed == \A x \in Plannings : WellFormed(x)
<1> SUFFICES ASSUME NEW c \in Cases
             PROVE  /\ WellFormed(Moving("plan", c, "executing", <<"executing">>))
                    /\ WellFormed(Moving("plan", c, "executing", <<"executing", "silent">>))
                    /\ WellFormed(Moving("plan", c, "awaiting_approval",
                                         <<"silent", "awaiting_approval">>))
                    /\ WellFormed(Moving("plan", c, "holdout", <<"silent", "holdout">>))
  BY DEF Plannings
<1>1. \A a, b, s \in Bodies : {a, b} \ {"silent"} = {s} => 
          s # "silent" /\ WellFormed(Moving("plan", c, s, <<a, b>>))
  <2> SUFFICES ASSUME NEW a \in Bodies, NEW b \in Bodies, NEW s \in Bodies,
                      {a, b} \ {"silent"} = {s}
               PROVE  s # "silent" /\ WellFormed(Moving("plan", c, s, <<a, b>>))
    OBVIOUS
  <2>1. s # "silent"
    OBVIOUS
  <2> DEFINE q == <<a, b>>
  <2>2. q \in Seq(Bodies) /\ {q[i] : i \in 1..Len(q)} \ {"silent"} = {s}
    BY TwoBodies
  <2> HIDE DEF q
  <2>3. WellFormed(Moving("plan", c, s, q))
    BY <2>1, <2>2, MovingWellFormed
  <2> QED
    BY <2>1, <2>3 DEF q
<1>2. WellFormed(Moving("plan", c, "executing", <<"executing">>))
  BY MovingWellFormed, OneBody, SomeBodies
<1>3. /\ {"executing", "silent"} \ {"silent"} = {"executing"}
      /\ {"silent", "awaiting_approval"} \ {"silent"} = {"awaiting_approval"}
      /\ {"silent", "holdout"} \ {"silent"} = {"holdout"}
  OBVIOUS
<1>4. {"silent", "executing", "awaiting_approval", "holdout"} \subseteq Bodies
  BY SomeBodies
<1> QED
  BY <1>1, <1>2, <1>3, <1>4

LEMMA ClosingsWellFormed == \A x \in Closings : WellFormed(x)
<1>1. \A c \in Cases : WellFormed(Moving("close", c, "escalated", <<"escalated">>))
  BY MovingWellFormed, OneBody, SomeBodies
<1>2. ASSUME NEW c \in Cases, NEW t \in Terminal \ Recovered
      PROVE  WellFormed(Moving("close", c, t, <<"silent", t>>))
  <2>1. t \in Bodies \ {"silent"} /\ "silent" \in Bodies
    BY SomeBodies
  <2>2. {"silent", t} \ {"silent"} = {t}
    BY <2>1
  <2> QED
    BY <2>1, <2>2, TwoBodies, MovingWellFormed
<1> QED
  BY <1>1, <1>2 DEF Closings

\* Events that say nothing, in a transaction that sets nothing.
LEMMA SilentWellFormed ==
    ASSUME NEW x, x.sets = NoState, x.todo \in Seq(Steps),
           x.kind \in {"open", "plan", "record", "close", "claim", "attribute"},
           \A i \in DOMAIN x.todo : x.todo[i].body = "silent"
    PROVE  WellFormed(x)
<1>1. \A c \in Cases : Says(x, c) = {}
  BY DEF Says, TodoSays
<1> QED
  BY <1>1, SomeBodies DEF WellFormed, NoState

LEMMA RecordsWellFormed == \A x \in Records : WellFormed(x)
<1> SUFFICES ASSUME NEW c \in Cases,
                    NEW q \in {<<"silent">>, <<"silent", "silent">>}
             PROVE  WellFormed(Recording("record", c, q))
  BY DEF Records
<1> DEFINE x == Recording("record", c, q)
<1>1. x.kind = "record" /\ x.sets = NoState /\ x.todo = [i \in 1..Len(q) |-> [case |-> c, body |-> q[i]]]
  BY DEF Recording, On
<1>2. Len(q) \in Nat /\ \A i \in 1..Len(q) : q[i] = "silent"
  OBVIOUS
<1> HIDE DEF x
<1>3. \A i \in 1..Len(q) : [case |-> c, body |-> q[i]] \in Steps
  BY <1>2, SomeBodies DEF Steps
<1>4. x.todo \in Seq(Steps) /\ \A i \in DOMAIN x.todo : x.todo[i].body = "silent"
  BY <1>1, <1>2, <1>3
<1>5. WellFormed(x)
  BY <1>1, <1>4, SilentWellFormed
<1> QED
  BY <1>5 DEF x

\* One silent event per case of a batch.
LEMMA OneEachIsSilent ==
    ASSUME NEW q \in Seq(Cases)
    PROVE  /\ OneEach(q) \in Seq(Steps)
           /\ \A i \in DOMAIN OneEach(q) : OneEach(q)[i].body = "silent"
<1>1. \A i \in 1..Len(q) : [case |-> q[i], body |-> "silent"] \in Steps
  BY SomeBodies DEF Steps
<1>2. OneEach(q) = [i \in 1..Len(q) |-> [case |-> q[i], body |-> "silent"]] /\ Len(q) \in Nat
  BY DEF OneEach
<1>3. \A i \in DOMAIN OneEach(q) : OneEach(q)[i].body = "silent"
  BY <1>2
<1>4. OneEach(q) \in Seq(Steps)
  BY <1>1, <1>2
<1> QED
  BY <1>3, <1>4

LEMMA BatchesAreSequences ==
    ASSUME NEW R, NEW q \in Batches(R)
    PROVE  q \in Seq(Cases) /\ Len(q) > 0
<1>1. Cardinality(Cases) \in Nat
  BY AuditConstants, FS_CardinalityType
<1>2. PICK n \in 1..Cardinality(Cases) : q \in [1..n -> Cases]
  BY DEF Batches
<1>3. n \in Nat /\ n > 0
  BY <1>1
<1> QED
  BY <1>2, <1>3

LEMMA ClaimsWellFormed == \A x \in Claims : WellFormed(x)
<1> SUFFICES ASSUME NEW q \in Batches(ById), NEW x,
                    x = [kind |-> "claim", todo |-> OneEach(q), sets |-> NoState]
             PROVE  WellFormed(x)
  BY DEF Claims
<1>1. q \in Seq(Cases)
  BY BatchesAreSequences
<1>2. x.todo = OneEach(q) /\ x.sets = NoState /\ x.kind = "claim"
  OBVIOUS
<1>3. /\ OneEach(q) \in Seq(Steps)
      /\ \A i \in DOMAIN OneEach(q) : OneEach(q)[i].body = "silent"
  BY <1>1, OneEachIsSilent
<1> QED
  BY <1>2, <1>3, SilentWellFormed

LEMMA AttributionsWellFormed == \A x \in Attributions : WellFormed(x)
<1> SUFFICES ASSUME NEW q \in Batches(ByAge), NEW to \in Recovered, NEW x,
                    x = [kind |-> "attribute",
                         todo |-> On(q[1], <<"silent", to>>) \o OneEach(Tail(q)),
                         sets |-> [case |-> q[1], to |-> to]]
             PROVE  WellFormed(x)
  BY DEF Attributions
<1> DEFINE a == On(q[1], <<"silent", to>>)
           b == OneEach(Tail(q))
           t == a \o b
<1>1. q \in Seq(Cases) /\ q[1] \in Cases /\ Tail(q) \in Seq(Cases)
  BY BatchesAreSequences
<1>2. to \in Bodies \ {"silent"} /\ "silent" \in Bodies
  BY SomeBodies
<1>3. a = <<[case |-> q[1], body |-> "silent"], [case |-> q[1], body |-> to]>>
  BY DEF On
<1>4. /\ a \in Seq(Steps) /\ Len(a) = 2
      /\ a[1].case = q[1] /\ a[1].body = "silent" /\ a[2].case = q[1] /\ a[2].body = to
  <2>1. [case |-> q[1], body |-> "silent"] \in Steps /\ [case |-> q[1], body |-> to] \in Steps
    BY <1>1, <1>2 DEF Steps
  <2> HIDE DEF a
  <2> QED
    BY <1>3, <2>1
<1>5. /\ b \in Seq(Steps) /\ \A i \in DOMAIN b : b[i].body = "silent"
  <2>1. Tail(q) \in Seq(Cases)
    BY <1>1
  <2> QED
    BY <2>1, OneEachIsSilent
<1> HIDE DEF a, b
<1>6. t \in Seq(Steps) /\ Len(t) = 2 + Len(b) /\ DOMAIN t = 1..Len(t)
      /\ t[1] = a[1] /\ t[2] = a[2] /\ \A i \in DOMAIN t : i > 2 => t[i] = b[i - 2]
  <2>1. t \in Seq(Steps) /\ Len(t) = Len(a) + Len(b)
        /\ \A i \in 1..Len(a) + Len(b) : t[i] = IF i <= Len(a) THEN a[i] ELSE b[i - Len(a)]
    BY <1>4, <1>5, ConcatProperties
  <2>2. DOMAIN t = 1..Len(t) /\ Len(b) \in Nat
    BY <1>5, <2>1
  <2> HIDE DEF t
  <2> QED
    BY <1>4, <2>1, <2>2
<1>7. \A i \in DOMAIN t : i # 2 => t[i].body = "silent"
  <2> SUFFICES ASSUME NEW i \in DOMAIN t, i # 2
               PROVE  t[i].body = "silent"
    OBVIOUS
  <2>1. CASE i = 1
    BY <1>4, <1>6, <2>1
  <2>2. CASE i # 1
    <3>1. i - 2 \in DOMAIN b /\ i > 2
      BY <1>5, <1>6, <2>2
    <3> QED
      BY <1>5, <1>6, <3>1
  <2> QED
    BY <2>1, <2>2
<1>8. 2 \in DOMAIN t /\ t[2].case = q[1] /\ t[2].body = to
  BY <1>4, <1>5, <1>6
<1>9. x.kind = "attribute" /\ x.todo = t /\ x.sets = [case |-> q[1], to |-> to]
  BY DEF a, b
<1> HIDE DEF t
<1>10. ASSUME NEW d \in Cases
       PROVE  Says(x, d) = IF x.sets.case = d THEN {x.sets.to} ELSE {}
  <2>1. x.sets.case = q[1] /\ x.sets.to = to
    BY <1>9
  <2>2. CASE d = q[1]
    <3>1. to \in Says(x, d)
      BY <1>2, <1>8, <1>9, <2>2 DEF Says, TodoSays
    <3>2. \A s \in Says(x, d) : s = to
      <4> SUFFICES ASSUME NEW i \in DOMAIN t, t[i].body # "silent"
                   PROVE  t[i].body = to
        BY <1>9 DEF Says, TodoSays
      <4> QED
        BY <1>7, <1>8
    <3> QED
      BY <2>1, <2>2, <3>1, <3>2
  <2>3. CASE d # q[1]
    <3>1. \A s \in Says(x, d) : FALSE
      <4> SUFFICES ASSUME NEW i \in DOMAIN t, t[i].case = d, t[i].body # "silent"
                   PROVE  FALSE
        BY <1>9 DEF Says, TodoSays
      <4> QED
        BY <1>7, <1>8, <2>3
    <3> QED
      BY <2>1, <2>3, <3>1
  <2> QED
    BY <2>2, <2>3
<1>11. x.sets \in [case : Cases \cup {NULL}, to : Bodies]
  BY <1>1, <1>2, <1>9
<1> QED
  BY <1>6, <1>9, <1>10, <1>11 DEF WellFormed

\* The events of every transaction say exactly the state it sets.
LEMMA TransactionsWellFormed == \A x \in Transactions : WellFormed(x)
  BY OpeningsWellFormed, PlanningsWellFormed, RecordsWellFormed, ClosingsWellFormed,
     ClaimsWellFormed, AttributionsWellFormed DEF Transactions

-----------------------------------------------------------------------------
(* The invariant is inductive.                                             *)

LEMMA TypedIsTypeOK == Typed => TypeOK
<1> SUFFICES ASSUME Typed
             PROVE  TypeOK
  OBVIOUS
<1>1. \A t \in Rows : \A n \in DOMAIN t : n \in Nat \ {0} /\ t[n] \in Row
  BY DEF Rows
<1>2. ASSUME NEW c \in Cases, NEW n \in DOMAIN log[c]
      PROVE  n \in Nat \ {0} /\ log[c][n] \in Row
  BY <1>1, RowsOfChain DEF Typed
<1>3. ASSUME NEW w \in Writers, NEW c \in Cases, NEW n \in DOMAIN staged[w][c]
      PROVE  n \in Nat \ {0} /\ staged[w][c][n] \in Row
  BY <1>1 DEF Typed
<1> QED
  BY <1>2, <1>3 DEF Typed, TypeOK, Row, Steps

LEMMA NoRows ==
    /\ <<>> \in Rows /\ <<>> \in Seq(Row) /\ Nothing \in [Cases -> Rows]
    /\ DOMAIN <<>> = {} /\ Intact(<<>>) /\ RowsSay(<<>>) = {} /\ \A c : TodoSays(<<>>, c) = {}
<1>1. <<>> \in Seq(Row) /\ <<>> \in Rows
  BY EmptySeq, RowsOfChain
<1>2. Intact(<<>>)
  BY <1>1 DEF Intact
<1> QED
  BY <1>1, <1>2 DEF Nothing, RowsSay, TodoSays

LEMMA InitIInv == Init => IInv
<1> SUFFICES ASSUME Init
             PROVE  IInv
  OBVIOUS
<1>1. NULL \notin Writers /\ NULL \notin Cases
  BY AuditConstants
<1>2. \A w \in Writers, c \in Cases : log[c] = <<>> /\ staged[w][c] = <<>> /\ Seen(w, c) = <<>>
  BY MergeNothing, NoRows DEF Init, Nothing, Seen
<1>3. Typed
  BY NoRows, SomeBodies DEF Init, Typed, NoState, Nothing
<1>4. OwnRows /\ TailIsCurrent
  BY <1>2 DEF Init, OwnRows, TailIsCurrent
<1>5. ViewsIntact
  <2> SUFFICES ASSUME NEW c \in Cases
               PROVE  /\ Intact(log[c])
                      /\ \A w \in Writers :
                             Intact(Seen(w, c)) /\ DOMAIN log[c] \cap DOMAIN staged[w][c] = {}
    BY DEF ViewsIntact
  <2>1. log[c] = <<>>
    BY DEF Init, Nothing
  <2>2. DOMAIN log[c] = {}
    BY <2>1, NoRows
  <2> QED
    BY <1>2, <2>1, <2>2, NoRows
<1>6. SaysWhatItSets
  BY <1>1, <1>2, NoRows DEF Init, SaysWhatItSets, Saying, NoState
<1> QED
  BY <1>3, <1>4, <1>5, <1>6 DEF IInv

\* The next event of a transaction is one on a case.
LEMMA SubjectIsCase ==
    ASSUME IInv, NEW w \in Writers, todo[w] # <<>>
    PROVE  /\ Head(todo[w]) \in Steps /\ Tail(todo[w]) \in Seq(Steps)
           /\ Subject(w) \in Cases /\ Head(todo[w]).body \in Bodies
<1>1. todo[w] \in Seq(Steps)
  BY DEF IInv, Typed
<1>2. Head(todo[w]) \in Steps /\ Tail(todo[w]) \in Seq(Steps)
  BY <1>1, HeadTailProperties
<1> QED
  BY <1>2 DEF Subject, Steps

LEMMA BeginKeeps ==
    ASSUME IInv, NEW w \in Writers, NEW x \in Transactions, Begin(w, x)
    PROVE  IInv'
<1>1. WellFormed(x)
  BY TransactionsWellFormed
<1>2. \A v \in Writers, c \in Cases : Seen(v, c)' = Seen(v, c)
  BY DEF Begin, table, Seen
<1>3. Typed'
  BY <1>1 DEF IInv, Typed, WellFormed, Begin, table
<1>4. OwnRows'
  BY DEF IInv, Typed, OwnRows, Begin
<1>5. ViewsIntact'
  BY <1>2 DEF IInv, ViewsIntact, Begin, table
<1>6. TailIsCurrent'
  <2> SUFFICES ASSUME NEW v \in Writers
               PROVE  /\ at'[v] \in {"locked", "read"} =>
                            todo'[v] # <<>> /\ caseLock'[Subject(v)'] = v
                      /\ at'[v] = "read" => tail'[v] = Len(Seen(v, Subject(v)'))
    BY DEF TailIsCurrent, Begin, table, Seen
  <2>1. CASE v = w
    BY <2>1 DEF IInv, Typed, Begin
  <2>2. CASE v # w
    <3>1. Subject(v)' = Subject(v)
      BY <2>2 DEF Subject, Begin, IInv, Typed
    <3> QED
      BY <2>2, <3>1 DEF IInv, Typed, TailIsCurrent, Begin
  <2> QED
    BY <2>1, <2>2
<1>7. SaysWhatItSets'
  <2> SUFFICES ASSUME NEW v \in Writers, NEW c \in Cases
               PROVE  Saying(v, c)' = IF sets'[v].case = c THEN {sets'[v].to} ELSE {}
    BY DEF SaysWhatItSets
  <2>1. CASE v = w
    <3>1. staged'[w][c] = <<>> /\ todo'[w] = x.todo /\ sets'[w] = x.sets
      BY DEF IInv, Typed, OwnRows, Begin
    <3>2. Saying(w, c)' = Says(x, c)
      BY <3>1, NoRows DEF Saying, Says
    <3> QED
      BY <1>1, <2>1, <3>1, <3>2 DEF WellFormed
  <2>2. CASE v # w
    <3>1. staged'[v] = staged[v] /\ todo'[v] = todo[v] /\ sets'[v] = sets[v]
      BY <2>2 DEF Begin, IInv, Typed
    <3> QED
      BY <3>1 DEF IInv, SaysWhatItSets, Saying
  <2> QED
    BY <2>1, <2>2
<1> QED
  BY <1>3, <1>4, <1>5, <1>6, <1>7 DEF IInv

\* A transaction's end, with its rows in the log or without them.
LEMMA LeaveKeeps ==
    ASSUME IInv, NEW w \in Writers, Leave(w), state' \in [Cases -> States \cup {"absent"}],
           log' = [c \in Cases |-> Seen(w, c)] \/ log' = log
    PROVE  IInv'
<1>1. NULL \notin Writers /\ NULL \notin Cases
  BY AuditConstants
<1>2. \A c \in Cases : log'[c] \in {log[c], Seen(w, c)} /\ Intact(log'[c])
  BY DEF IInv, ViewsIntact
<1>3. log' \in [Cases -> Seq(Row)]
  BY <1>2 DEF Intact, IInv, Typed
<1>4. Typed'
  BY <1>3, NoRows, SomeBodies, EmptySeq DEF IInv, Typed, Leave, NoState
<1>5. OwnRows'
  BY <1>1 DEF IInv, Typed, OwnRows, Leave, Nothing
<1>6. ASSUME NEW v \in Writers, v # w
      PROVE  /\ at'[v] = at[v] /\ todo'[v] = todo[v] /\ sets'[v] = sets[v]
             /\ staged'[v] = staged[v] /\ tail'[v] = tail[v]
             /\ \A c \in Cases : caseLock[c] = v <=> caseLock'[c] = v
  BY <1>1, <1>6 DEF IInv, Typed, Leave
<1>7. ASSUME NEW c \in Cases, caseLock[c] # w
      PROVE  log'[c] = log[c]
  <2>1. staged[w][c] = <<>> /\ log[c] \in Seq(Row)
    BY <1>7 DEF IInv, OwnRows, Typed
  <2>2. Seen(w, c) = log[c]
    BY <2>1, MergeNothing DEF Seen
  <2> QED
    BY <1>2, <2>2
<1>8. ASSUME NEW c \in Cases, NEW v \in Writers
      PROVE  /\ Seen(v, c)' \in {log'[c], Seen(v, c)}
             /\ DOMAIN log'[c] \cap DOMAIN staged'[v][c] = {}
             /\ caseLock[c] = v /\ v # w => Seen(v, c)' = Seen(v, c)
  <2>1. staged'[v][c] = <<>> => Seen(v, c)' = log'[c] /\ DOMAIN staged'[v][c] = {}
    BY <1>3, MergeNothing DEF Seen
  <2>2. CASE v = w
    <3>1. staged'[v][c] = <<>>
      BY <2>2 DEF Leave, Nothing, IInv, Typed
    <3> QED
      BY <2>1, <2>2, <3>1
  <2>3. CASE v # w /\ caseLock[c] = w
    <3>1. staged'[v][c] = <<>>
      BY <1>6, <2>3 DEF IInv, OwnRows
    <3> QED
      BY <2>1, <2>3, <3>1
  <2>4. CASE v # w /\ caseLock[c] # w
    <3>1. log'[c] = log[c] /\ staged'[v][c] = staged[v][c]
      BY <1>6, <1>7, <2>4
    <3> QED
      BY <3>1 DEF Seen, IInv, ViewsIntact
  <2> QED
    BY <2>2, <2>3, <2>4
<1>9. ViewsIntact'
  BY <1>2, <1>8 DEF IInv, ViewsIntact
<1>10. TailIsCurrent'
  <2> SUFFICES ASSUME NEW v \in Writers, at'[v] \in {"locked", "read"}
               PROVE  /\ todo'[v] # <<>> /\ caseLock'[Subject(v)'] = v
                      /\ at'[v] = "read" => tail'[v] = Len(Seen(v, Subject(v))')
    BY DEF TailIsCurrent
  <2>1. v # w
    BY DEF Leave, IInv, Typed
  <2>2. Subject(v)' = Subject(v) /\ todo[v] # <<>> /\ caseLock[Subject(v)] = v
    BY <1>6, <2>1 DEF Subject, IInv, TailIsCurrent
  <2>3. Subject(v) \in Cases
    BY <2>2, SubjectIsCase
  <2>4. Seen(v, Subject(v))' = Seen(v, Subject(v))
    <3> DEFINE c == Subject(v)
    <3>1. Seen(v, c)' = Merge(log'[c'], staged'[v][c']) /\ c' = c
      BY <2>2 DEF Seen
    <3>2. Merge(log'[c], staged'[v][c]) = Merge(log[c], staged[v][c])
      BY <1>6, <1>7, <2>1, <2>2, <2>3
    <3> QED
      BY <3>1, <3>2 DEF Seen
  <2> QED
    BY <1>6, <2>1, <2>2, <2>3, <2>4 DEF IInv, TailIsCurrent
<1>11. SaysWhatItSets'
  <2> SUFFICES ASSUME NEW v \in Writers, NEW c \in Cases
               PROVE  Saying(v, c)' = IF sets'[v].case = c THEN {sets'[v].to} ELSE {}
    BY DEF SaysWhatItSets
  <2>1. CASE v = w
    <3>1. staged'[w][c] = <<>> /\ todo'[w] = <<>> /\ sets'[w].case = NULL
      BY DEF IInv, Typed, Leave, Nothing, NoState
    <3> QED
      BY <1>1, <2>1, <3>1, NoRows DEF Saying
  <2>2. CASE v # w
    BY <1>6, <2>2 DEF IInv, SaysWhatItSets, Saying
  <2> QED
    BY <2>1, <2>2
<1> QED
  BY <1>4, <1>5, <1>9, <1>10, <1>11 DEF IInv

LEMMA LockKeeps ==
    ASSUME IInv, NEW w \in Writers, Lock(w)
    PROVE  IInv'
<1> DEFINE c == Subject(w)
<1>1. /\ NULL \notin Writers /\ todo[w] # <<>> /\ caseLock[c] \in {NULL, w}
      /\ caseLock' = [caseLock EXCEPT ![c] = w] /\ at' = [at EXCEPT ![w] = "locked"]
      /\ UNCHANGED <<state, log, kind, todo, sets, staged, tail>>
  BY AuditConstants DEF Lock, Obtainable, table
<1>2. c \in Cases
  BY <1>1, SubjectIsCase
<1>3. \A v \in Writers : Subject(v)' = Subject(v) /\ \A d \in Cases : Seen(v, d)' = Seen(v, d)
  BY <1>1 DEF Subject, Seen
<1>4. \A v \in Writers : \A d \in Cases :
          v # w /\ caseLock[d] = v => d # c /\ caseLock'[d] = v
  BY <1>1, <1>2 DEF IInv, Typed
<1> HIDE DEF c
<1>5. Typed'
  BY <1>1, <1>2 DEF IInv, Typed
<1>6. OwnRows'
  <2> SUFFICES ASSUME NEW v \in Writers, NEW d \in Cases, at'[v] = "idle" \/ caseLock'[d] # v
               PROVE  staged[v][d] = <<>>
    BY <1>1 DEF OwnRows
  <2>1. at[v] = "idle" \/ caseLock[d] # v
    BY <1>1, <1>2, <1>4 DEF IInv, Typed
  <2> QED
    BY <2>1 DEF IInv, OwnRows
<1>7. ViewsIntact'
  BY <1>1, <1>3 DEF IInv, ViewsIntact
<1>8. TailIsCurrent'
  <2> SUFFICES ASSUME NEW v \in Writers, at'[v] \in {"locked", "read"}
               PROVE  /\ todo[v] # <<>> /\ caseLock'[Subject(v)] = v
                      /\ at'[v] = "read" => tail[v] = Len(Seen(v, Subject(v)))
    BY <1>1, <1>3 DEF TailIsCurrent, Seen
  <2>1. CASE v = w
    BY <1>1, <1>2, <2>1 DEF IInv, Typed, c
  <2>2. CASE v # w
    <3>1. at[v] = at'[v]
      BY <1>1, <2>2 DEF IInv, Typed
    <3>2. todo[v] # <<>> /\ caseLock[Subject(v)] = v
          /\ (at[v] = "read" => tail[v] = Len(Seen(v, Subject(v))))
      BY <3>1 DEF IInv, TailIsCurrent
    <3>3. Subject(v) \in Cases
      BY <3>2, SubjectIsCase
    <3> QED
      BY <1>4, <2>2, <3>1, <3>2, <3>3
  <2> QED
    BY <2>1, <2>2
<1>9. SaysWhatItSets'
  BY <1>1 DEF IInv, SaysWhatItSets, Saying
<1> QED
  BY <1>5, <1>6, <1>7, <1>8, <1>9 DEF IInv

LEMMA ReadTailKeeps ==
    ASSUME IInv, NEW w \in Writers, ReadTail(w)
    PROVE  IInv'
<1> DEFINE c == Subject(w)
<1>1. /\ at[w] = "locked" /\ tail' = [tail EXCEPT ![w] = LastSeq(Seen(w, c))]
      /\ at' = [at EXCEPT ![w] = "read"]
      /\ UNCHANGED <<state, log, kind, todo, sets, staged, caseLock>>
  BY DEF ReadTail, table
<1>2. todo[w] # <<>> /\ caseLock[c] = w
  BY <1>1 DEF IInv, TailIsCurrent
<1>3. c \in Cases
  BY <1>2, SubjectIsCase
<1>4. LastSeq(Seen(w, c)) = Len(Seen(w, c)) /\ Len(Seen(w, c)) \in Nat
  BY <1>3, LastSeqIsLen DEF IInv, ViewsIntact, Intact
<1>5. \A v \in Writers : Subject(v)' = Subject(v) /\ \A d \in Cases : Seen(v, d)' = Seen(v, d)
  BY <1>1 DEF Subject, Seen
<1> HIDE DEF c
<1>6. Typed'
  BY <1>1, <1>4 DEF IInv, Typed
<1>7. OwnRows'
  BY <1>1 DEF IInv, Typed, OwnRows
<1>8. ViewsIntact'
  BY <1>1, <1>5 DEF IInv, ViewsIntact
<1>9. TailIsCurrent'
  <2> SUFFICES ASSUME NEW v \in Writers, at'[v] \in {"locked", "read"}
               PROVE  /\ todo[v] # <<>> /\ caseLock[Subject(v)] = v
                      /\ at'[v] = "read" => tail'[v] = Len(Seen(v, Subject(v)))
    BY <1>1, <1>5 DEF TailIsCurrent, Seen
  <2>1. CASE v = w
    BY <1>1, <1>2, <1>4, <2>1 DEF IInv, Typed, c
  <2>2. CASE v # w
    BY <1>1, <2>2 DEF IInv, Typed, TailIsCurrent
  <2> QED
    BY <2>1, <2>2
<1>10. SaysWhatItSets'
  BY <1>1 DEF IInv, SaysWhatItSets, Saying
<1> QED
  BY <1>6, <1>7, <1>8, <1>9, <1>10 DEF IInv

\* What is left to say when the first event is recorded.
LEMMA TailSays ==
    ASSUME NEW t \in Seq(Steps), t # <<>>, NEW c
    PROVE  TodoSays(t, c) =
              TodoSays(Tail(t), c) \cup (IF Head(t).case = c THEN {Head(t).body} ELSE {})
<1> DEFINE u == Tail(t)
<1>1. /\ Len(t) \in Nat \ {0} /\ DOMAIN t = 1..Len(t) /\ Head(t) = t[1]
      /\ Len(u) = Len(t) - 1 /\ DOMAIN u = 1..Len(u) /\ \A i \in 1..Len(u) : u[i] = t[i + 1]
  OBVIOUS
<1> HIDE DEF u
<1>2. ASSUME NEW b \in TodoSays(t, c)
      PROVE  b \in TodoSays(u, c) \/ (Head(t).case = c /\ b = Head(t).body)
  <2>1. PICK i \in DOMAIN t : t[i].case = c /\ b = t[i].body
    BY <1>2 DEF TodoSays
  <2>2. CASE i = 1
    BY <1>1, <2>1, <2>2
  <2>3. CASE i # 1
    <3>1. i - 1 \in DOMAIN u /\ u[i - 1] = t[i]
      BY <1>1, <2>3
    <3> QED
      BY <2>1, <3>1 DEF TodoSays
  <2> QED
    BY <2>2, <2>3
<1>3. ASSUME NEW b \in TodoSays(u, c)
      PROVE  b \in TodoSays(t, c)
  <2>1. PICK i \in DOMAIN u : u[i].case = c /\ b = u[i].body
    BY <1>3 DEF TodoSays
  <2>2. i + 1 \in DOMAIN t /\ t[i + 1] = u[i]
    BY <1>1
  <2> QED
    BY <2>1, <2>2 DEF TodoSays
<1>4. Head(t).case = c => Head(t).body \in TodoSays(t, c)
  BY <1>1 DEF TodoSays
<1> QED
  BY <1>2, <1>3, <1>4 DEF u

\* What rows say with one more among them.
LEMMA MergeSays ==
    ASSUME NEW t, NEW k, k \notin DOMAIN t, NEW r
    PROVE  RowsSay(Merge(t, [n \in {k} |-> r])) = RowsSay(t) \cup {r.body}
<1> DEFINE u == Merge(t, [n \in {k} |-> r])
<1>1. DOMAIN u = DOMAIN t \cup {k} /\ u[k] = r /\ \A n \in DOMAIN t : u[n] = t[n]
  BY DEF Merge
<1> HIDE DEF u
<1> QED
  BY <1>1 DEF RowsSay, u

\* One more row after the others is still a set of rows by seq.
LEMMA MergeRows ==
    ASSUME NEW t \in Rows, NEW k \in Nat \ {0}, NEW r \in Row
    PROVE  Merge(t, [n \in {k} |-> r]) \in Rows
<1> DEFINE u == Merge(t, [n \in {k} |-> r])
<1>1. PICK D \in SUBSET (Nat \ {0}) : t \in [D -> Row]
  BY DEF Rows
<1>2. u \in [D \cup {k} -> Row]
  BY <1>1 DEF Merge
<1>3. D \cup {k} \in SUBSET (Nat \ {0})
  OBVIOUS
<1> HIDE DEF u
<1>4. u \in Rows
  BY <1>2, <1>3 DEF Rows
<1> QED
  BY <1>4 DEF u

LEMMA InsertKeeps ==
    ASSUME IInv, NEW w \in Writers, Insert(w)
    PROVE  IInv'
<1> DEFINE c == Subject(w)
           b == Head(todo[w]).body
           k == Len(Seen(w, c)) + 1
           row == AppendEvent(Seen(w, c), Len(Seen(w, c)), b).row
           mine == Merge(staged[w][c], [n \in {k} |-> row])
<1>1. todo[w] # <<>> /\ caseLock[c] = w /\ tail[w] = Len(Seen(w, c)) /\ at[w] = "read"
  BY DEF Insert, IInv, TailIsCurrent
<1>2. c \in Cases /\ b \in Bodies /\ Head(todo[w]).case = c /\ Tail(todo[w]) \in Seq(Steps)
  BY <1>1, SubjectIsCase DEF Subject
<1>3. Intact(Seen(w, c)) /\ DOMAIN log[c] \cap DOMAIN staged[w][c] = {}
  BY <1>2 DEF IInv, ViewsIntact
<1>4. /\ AppendEvent(Seen(w, c), tail[w], b).seq = k
      /\ AppendEvent(Seen(w, c), tail[w], b).row = row
      /\ row \in Row /\ Intact(Append(Seen(w, c), row))
  BY <1>1, <1>2, <1>3, AppendKeepsIntact
<1>5. row.body = b
  BY DEF AppendEvent
<1>6. /\ staged' = [staged EXCEPT ![w][c] = mine]
      /\ todo' = [todo EXCEPT ![w] = Tail(@)]
      /\ tail' = [tail EXCEPT ![w] = 0] /\ at' = [at EXCEPT ![w] = "asking"]
      /\ UNCHANGED <<state, log, kind, sets, caseLock>>
  BY <1>4 DEF Insert, table
<1>7. /\ Seen(w, c) \in Seq(Row) /\ DOMAIN Seen(w, c) = 1..Len(Seen(w, c))
      /\ Len(Seen(w, c)) \in Nat /\ k \in Nat \ {0} /\ k \notin DOMAIN Seen(w, c)
  BY <1>3 DEF Intact
<1>8. DOMAIN Seen(w, c) = DOMAIN log[c] \cup DOMAIN staged[w][c]
  BY DEF Seen, Merge
<1>9. Merge(log[c], mine) = Append(Seen(w, c), row)
  <2>1. log[c] \in Seq(Row) /\ staged[w][c] \in Rows
    BY <1>2 DEF IInv, Typed
  <2> QED
    BY <1>4, <1>7, <2>1, MergeAppends DEF Seen
<1>10. DOMAIN mine = DOMAIN staged[w][c] \cup {k}
  BY DEF Merge
<1>11. mine \in Rows
  <2>1. staged[w][c] \in Rows
    BY <1>2 DEF IInv, Typed
  <2> HIDE DEF k, row
  <2> QED
    BY <1>4, <1>7, <2>1, MergeRows
<1>12. RowsSay(mine) = RowsSay(staged[w][c]) \cup {b}
  <2>1. k \notin DOMAIN staged[w][c]
    BY <1>7, <1>8
  <2> HIDE DEF k, row
  <2>2. RowsSay(mine) = RowsSay(staged[w][c]) \cup {row.body}
    BY <2>1, MergeSays
  <2> QED
    BY <1>5, <2>2
<1> HIDE DEF c, b, k, row, mine
<1>13. \A v \in Writers, d \in Cases :
           staged'[v][d] = IF v = w /\ d = c THEN mine ELSE staged[v][d]
  BY <1>2, <1>6 DEF IInv, Typed
<1>14. Typed'
  BY <1>2, <1>6, <1>11 DEF IInv, Typed
<1>15. OwnRows'
  <2> SUFFICES ASSUME NEW v \in Writers, NEW d \in Cases, at'[v] = "idle" \/ caseLock[d] # v
               PROVE  staged'[v][d] = <<>>
    BY <1>6 DEF OwnRows
  <2>1. at[v] = "idle" \/ caseLock[d] # v
    BY <1>6 DEF IInv, Typed
  <2>2. ~(v = w /\ d = c)
    BY <1>1, <2>1
  <2> QED
    BY <1>13, <2>1, <2>2 DEF IInv, OwnRows
<1>16. ViewsIntact'
  <2> SUFFICES ASSUME NEW v \in Writers, NEW d \in Cases
               PROVE  Intact(Merge(log[d], staged'[v][d])) /\ DOMAIN log[d] \cap DOMAIN staged'[v][d] = {}
    BY <1>6 DEF IInv, ViewsIntact, Seen
  <2>1. CASE v = w /\ d = c
    <3>1. staged'[v][d] = mine
      BY <1>13, <2>1
    <3>2. Intact(Merge(log[c], mine))
      BY <1>3, <1>4, <1>7, <1>8, <1>9, <1>10
    <3>3. DOMAIN log[c] \cap DOMAIN mine = {}
      BY <1>3, <1>4, <1>7, <1>8, <1>9, <1>10
    <3> QED
      BY <2>1, <3>1, <3>2, <3>3
  <2>2. CASE ~(v = w /\ d = c)
    BY <1>13, <2>2 DEF IInv, ViewsIntact, Seen
  <2> QED
    BY <2>1, <2>2
<1>17. TailIsCurrent'
  <2> SUFFICES ASSUME NEW v \in Writers, at'[v] \in {"locked", "read"}
               PROVE  /\ todo'[v] # <<>> /\ caseLock'[Subject(v)'] = v
                      /\ at'[v] = "read" => tail'[v] = Len(Seen(v, Subject(v))')
    BY DEF TailIsCurrent
  <2>1. v # w /\ at'[v] = at[v]
    BY <1>6 DEF IInv, Typed
  <2>2. todo'[v] = todo[v] /\ tail'[v] = tail[v]
    BY <1>6, <2>1 DEF IInv, Typed
  <2>3. todo[v] # <<>> /\ caseLock[Subject(v)] = v
        /\ (at[v] = "read" => tail[v] = Len(Seen(v, Subject(v))))
    BY <2>1 DEF IInv, TailIsCurrent
  <2>4. Subject(v) \in Cases /\ Subject(v)' = Subject(v)
    BY <2>2, <2>3, SubjectIsCase DEF Subject
  <2>5. Seen(v, Subject(v))' = Seen(v, Subject(v))
    <3>1. staged'[v][Subject(v)] = staged[v][Subject(v)]
      BY <1>13, <2>1, <2>4
    <3> QED
      BY <1>6, <2>4, <3>1 DEF Seen
  <2> QED
    BY <1>6, <2>1, <2>2, <2>3, <2>4, <2>5
<1>18. SaysWhatItSets'
  <2> SUFFICES ASSUME NEW v \in Writers, NEW d \in Cases
               PROVE  Saying(v, d)' = Saying(v, d)
    BY <1>6 DEF IInv, SaysWhatItSets
  <2>1. CASE v # w
    BY <1>6, <1>13, <2>1 DEF Saying, IInv, Typed
  <2>2. CASE v = w
    <3>1. todo'[w] = Tail(todo[w]) /\ todo[w] \in Seq(Steps)
      BY <1>6 DEF IInv, Typed
    <3>2. TodoSays(todo[w], d) = TodoSays(todo'[w], d) \cup (IF c = d THEN {b} ELSE {})
      BY <1>1, <1>2, <3>1, TailSays DEF b
    <3>3. RowsSay(staged'[w][d]) = RowsSay(staged[w][d]) \cup (IF c = d THEN {b} ELSE {})
      BY <1>12, <1>13
    <3> QED
      BY <2>2, <3>2, <3>3 DEF Saying
  <2> QED
    BY <2>1, <2>2
<1> QED
  BY <1>14, <1>15, <1>16, <1>17, <1>18 DEF IInv

THEOREM Inductive == IInv /\ [Next]_vars => IInv'
<1> SUFFICES ASSUME IInv, [Next]_vars
             PROVE  IInv'
  OBVIOUS
<1>1. CASE UNCHANGED vars
  <2>1. UNCHANGED <<state, log, kind, at, todo, sets, staged, tail, caseLock>>
    BY <1>1 DEF vars, table
  <2>2. Typed' /\ OwnRows' /\ SaysWhatItSets'
    BY <2>1 DEF IInv, Typed, OwnRows, SaysWhatItSets, Saying
  <2>3. ViewsIntact'
    BY <2>1 DEF IInv, ViewsIntact, Seen
  <2>4. TailIsCurrent'
    BY <2>1 DEF IInv, TailIsCurrent, Seen, Subject
  <2> QED
    BY <2>2, <2>3, <2>4 DEF IInv
<1>2. ASSUME NEW w \in Writers, Refuse(w) \/ Crash(w)
      PROVE  IInv'
  <2>1. Leave(w) /\ log' = log /\ state' = state
    BY <1>2 DEF Refuse, Crash, table
  <2> QED
    BY <2>1, LeaveKeeps DEF IInv, Typed
<1>3. ASSUME NEW w \in Writers, Commit(w)
      PROVE  IInv'
  <2>1. state' \in [Cases -> States \cup {"absent"}]
    <3>1. \A c \in Cases : sets[w].case = c => sets[w].to \in States
      <4> SUFFICES ASSUME NEW c \in Cases, sets[w].case = c
                   PROVE  sets[w].to \in States
        OBVIOUS
      <4>1. sets[w].to \in Saying(w, c)
        BY DEF IInv, SaysWhatItSets
      <4>2. sets[w].to \in Bodies /\ sets[w].to # "silent"
        BY <4>1 DEF IInv, Typed, Saying
      <4> QED
        BY <4>2 DEF Bodies
    <3> QED
      BY <1>3, <3>1 DEF Commit, IInv, Typed
  <2>2. Leave(w) /\ log' = [c \in Cases |-> Seen(w, c)]
    BY <1>3 DEF Commit
  <2> QED
    BY <2>1, <2>2, LeaveKeeps
<1> QED
  BY <1>1, <1>2, <1>3, BeginKeeps, LockKeeps, ReadTailKeeps, InsertKeeps DEF Next

THEOREM IInvCorrect == Spec => []IInv
  BY InitIInv, Inductive, PTL DEF Spec

-----------------------------------------------------------------------------
(* What follows from it.                                                   *)

\* Every variable of the audit chains has its type.
THEOREM TypeCorrect == Spec => []TypeOK
<1>1. IInv => TypeOK
  BY TypedIsTypeOK DEF IInv
<1> QED
  BY <1>1, IInvCorrect, PTL

\* `recoup audit verify` never finds a divergence (verify.py:13-31), whatever the
\* interleaving of transactions and however many of them roll back.
THEOREM ChainsCorrect == Spec => []ChainsIntact
<1>1. IInv => ChainsIntact
  BY IntactVerifies DEF IInv, ViewsIntact, ChainsIntact
<1> QED
  BY <1>1, IInvCorrect, PTL

\* No INSERT of an audit event meets audit_seq_unique (repository.py:14-18).
THEOREM AppendsCorrect == Spec => []NoAppendCollides
<1>1. ASSUME IInv
      PROVE  NoAppendCollides
  <2> SUFFICES ASSUME NEW w \in Writers, at[w] = "read"
               PROVE  /\ tail[w] + 1 \notin DOMAIN log[Subject(w)]
                      /\ \A v \in Writers : tail[w] + 1 \notin DOMAIN staged[v][Subject(w)]
    BY DEF NoAppendCollides
  <2> DEFINE c == Subject(w)
  <2>1. todo[w] # <<>> /\ caseLock[c] = w /\ tail[w] = Len(Seen(w, c))
    BY <1>1 DEF IInv, TailIsCurrent
  <2>2. c \in Cases
    BY <1>1, <2>1, SubjectIsCase
  <2>3. DOMAIN Seen(w, c) = 1..tail[w] /\ tail[w] \in Nat
    BY <1>1, <2>1, <2>2 DEF IInv, ViewsIntact, Intact
  <2>4. tail[w] + 1 \notin DOMAIN log[c] \cup DOMAIN staged[w][c]
    BY <2>3 DEF Seen, Merge
  <2>5. ASSUME NEW v \in Writers, v # w
        PROVE  DOMAIN staged[v][c] = {}
    BY <1>1, <2>1, <2>2, <2>5, NoRows DEF IInv, OwnRows
  <2> QED
    BY <2>4, <2>5
<1> QED
  BY <1>1, IInvCorrect, PTL

\* A commit adds to a chain what the transaction's own rows say of the case.
LEMMA CommitTells ==
    ASSUME IInv, NEW w \in Writers, NEW c \in Cases, Commit(w)
    PROVE  /\ Promise!Grows(Chain[c], Chain'[c])
           /\ Chain'[c] \in Seq(Bodies)
           /\ Promise!Told(Chain[c], Chain'[c]) = Saying(w, c)
<1> DEFINE old == log[c]
           new == Seen(w, c)
           own == staged[w][c]
           a == Chain[c]
           b == Chain'[c]
<1>1. /\ old \in Seq(Row) /\ DOMAIN old = 1..Len(old) /\ Len(old) \in Nat
      /\ new \in Seq(Row) /\ DOMAIN new = 1..Len(new) /\ Len(new) \in Nat
      /\ DOMAIN old \cap DOMAIN own = {} /\ todo[w] = <<>>
  BY DEF IInv, ViewsIntact, Intact, Commit
<1>2. log'[c] = new
  BY DEF Commit
<1>3. /\ DOMAIN new = DOMAIN old \cup DOMAIN own
      /\ \A n \in DOMAIN own : new[n] = own[n]
      /\ \A n \in DOMAIN old : new[n] = old[n]
  BY <1>1 DEF Seen, Merge
<1>4. a = [n \in DOMAIN old |-> old[n].body] /\ b = [n \in DOMAIN new |-> new[n].body]
  BY <1>2 DEF Chain
<1>5. Saying(w, c) = {own[n].body : n \in DOMAIN own} \ {"silent"}
  BY <1>1, NoRows DEF Saying, RowsSay
<1> HIDE DEF old, new, own, a, b
<1> DEFINE Speaks(t) == \A n \in 1..Len(t) : t[n].body \in Bodies
<1>6. Speaks(old) /\ Speaks(new)
  <2>1. ASSUME NEW t \in Seq(Row)
        PROVE  Speaks(t)
    <3> SUFFICES ASSUME NEW n \in 1..Len(t)
                 PROVE  t[n].body \in Bodies
      OBVIOUS
    <3>1. t[n] \in Row
      BY ElementOfSeq
    <3> QED
      BY <3>1 DEF Row
  <2> QED
    BY <1>1, <2>1
<1>7. /\ \A n \in 1..Len(old) : old[n].body \in Bodies
      /\ \A n \in 1..Len(new) : new[n].body \in Bodies
  BY <1>6
<1>8. a \in Seq(Bodies) /\ Len(a) = Len(old) /\ b \in Seq(Bodies) /\ Len(b) = Len(new)
  BY <1>1, <1>4, <1>7
<1>9. Len(old) <= Len(new)
  BY <1>1, <1>3
<1>10. Promise!Grows(a, b)
  BY <1>1, <1>3, <1>4, <1>8, <1>9 DEF Promise!Grows
<1>11. DOMAIN own = (Len(old) + 1)..Len(new)
  <2> DEFINE m == Len(old)
             n == Len(new)
             D == DOMAIN own
  <2>1. m \in Nat /\ n \in Nat /\ 1..n = 1..m \cup D /\ 1..m \cap D = {}
    BY <1>1, <1>3
  <2> HIDE DEF m, n, D
  <2>2. ASSUME NEW i \in D
        PROVE  i \in (m + 1)..n
    BY <2>1
  <2>3. ASSUME NEW i \in (m + 1)..n
        PROVE  i \in D
    <3>1. i \in 1..n /\ i \notin 1..m
      BY <2>1
    <3> QED
      BY <2>1, <3>1
  <2>4. D = (m + 1)..n
    BY <2>2, <2>3
  <2> QED
    BY <2>4 DEF m, n, D
<1>12. Promise!Told(a, b) = {b[i] : i \in DOMAIN own} \ {"silent"}
  BY <1>8, <1>11 DEF Promise!Told, Promise!New
<1>13. \A i \in DOMAIN own : b[i] = own[i].body
  BY <1>3, <1>4
<1>14. Promise!Told(a, b) = Saying(w, c)
  BY <1>5, <1>12, <1>13
<1> QED
  BY <1>8, <1>10, <1>14 DEF a, b

\* I4: the chains and the states implement the abstract audit log: a case's state
\* changes only in a transaction whose events on that case tell it.
THEOREM KeepsItsPromiseCorrect == Spec => KeepsItsPromise
<1>1. Init => Promise!Init
  <2> SUFFICES ASSUME Init
               PROVE  Promise!Init
    OBVIOUS
  <2>1. \A c \in Cases : Chain[c] = <<>>
    <3> SUFFICES ASSUME NEW c \in Cases
                 PROVE  [n \in DOMAIN log[c] |-> log[c][n].body] = <<>>
      BY DEF Chain
    <3>1. log[c] = <<>>
      BY DEF Init, Nothing
    <3> QED
      BY <3>1
  <2>2. Chain = [c \in Cases |-> <<>>]
    BY <2>1 DEF Chain
  <2> QED
    BY <2>2 DEF Init, Promise!Init
<1>2. ASSUME IInv, [Next]_vars
      PROVE  [Promise!Record]_<<Chain, state>>
  <2>1. ASSUME UNCHANGED <<log, state>>
        PROVE  UNCHANGED <<Chain, state>>
    BY <2>1 DEF Chain
  <2>2. ASSUME NEW w \in Writers, Commit(w)
        PROVE  Promise!Record
    <3>1. \A c \in Cases : state'[c] = IF c = sets[w].case THEN sets[w].to ELSE state[c]
      BY <2>2 DEF Commit
    <3>2. \A c \in Cases : Saying(w, c) = IF sets[w].case = c THEN {sets[w].to} ELSE {}
      BY <1>2 DEF IInv, SaysWhatItSets
    <3>3. ASSUME NEW c \in Cases
          PROVE  /\ Promise!Grows(Chain[c], Chain'[c])
                 /\ Chain'[c] \in Seq(Bodies)
                 /\ Promise!Told(Chain[c], Chain'[c]) =
                        IF sets[w].case = c THEN {state'[c]} ELSE {}
                 /\ sets[w].case # c => state'[c] = state[c]
      BY <1>2, <2>2, <3>1, <3>2, CommitTells
    <3>4. Chain' \in [Cases -> Seq(Bodies)]
      BY <3>3 DEF Chain
    <3> QED
      BY <3>3, <3>4 DEF Promise!Record
  <2>3. (\E w \in Writers : Commit(w)) \/ UNCHANGED <<log, state>>
    BY <1>2 DEF Next, vars, table, Begin, Lock, Refuse, ReadTail, Insert, Crash
  <2> QED
    BY <2>1, <2>2, <2>3
<1> QED
  BY <1>1, <1>2, IInvCorrect, PTL DEF Spec, KeepsItsPromise, Promise!Spec
=============================================================================
