--------------------------- MODULE ExecutorProofs ---------------------------
(***************************************************************************)
(* Proofs about the outbox and the executor on it, for any number of       *)
(* workers, actions and cases, any claim TTL and any key TTL.              *)
(*                                                                         *)
(* IInv is the outbox's inductive invariant.  ExclusiveLease needs         *)
(* LeaseBacked: the row a worker holds under a lease that has not run out  *)
(* is still the row it claimed (or settled since), so no other claim can   *)
(* take it.                                                                *)
(*                                                                         *)
(* The executor's, ExecInv, adds to it: until a second SET NX succeeds for *)
(* an action, at most one worker is past it, and what it has sent and      *)
(* charged is bounded (OneGrant).  A second SET NX succeeds only once the  *)
(* first key has run out (KeyRemembers).                                   *)
(***************************************************************************)
EXTENDS Executor, FiniteSetTheorems, SequenceTheorems, TLAPS

-----------------------------------------------------------------------------
(* The outbox.                                                             *)

\* What a lease that has not run out is worth, unless the row was deferred.
LeaseBacked ==
    \A w \in Workers, a \in Actions :
        /\ Holds(w, a) /\ now <= lease[w] /\ due_at[a] = PlannedAt[a]
        => \/ status[a] \in Settled
           \/ /\ status[a] = "claimed"
              /\ claimed_by[a] = w
              /\ claim_expires_at[a] = lease[w]

\* Rows only ever move to a later date.
NeverEarlier == \A a \in Actions : due_at[a] >= PlannedAt[a]

IInv ==
    /\ OutboxTypeOK
    /\ ClaimFieldsAgree
    /\ NeverEarlier
    /\ LeaseBacked
    /\ ExclusiveLease

-----------------------------------------------------------------------------
(* Sequences.                                                              *)

\* Dropping the head of a batch leaves a batch of rows it already had.
LEMMA TailOfBatch ==
    ASSUME NEW S, NEW s \in Seq(S), s # <<>>
    PROVE  /\ Head(s) \in S
           /\ Head(s) \in Range(s)
           /\ Tail(s) \in Seq(S)
           /\ Range(Tail(s)) \subseteq Range(s)
<1>1. /\ Head(s) \in S /\ Tail(s) \in Seq(S) /\ Len(Tail(s)) = Len(s) - 1
      /\ \A i \in 1 .. Len(Tail(s)) : Tail(s)[i] = s[i + 1]
  BY HeadTailProperties
<1>2. Len(s) \in Nat \ {0} /\ DOMAIN s = 1 .. Len(s)
  BY EmptySeq, LenProperties
<1>3. DOMAIN Tail(s) = 1 .. Len(s) - 1
  BY <1>1, LenProperties
<1>4. Range(Tail(s)) \subseteq Range(s)
  BY <1>1, <1>2, <1>3 DEF Range
<1>5. Head(s) \in Range(s)
  BY <1>2 DEF Range
<1> QED
  BY <1>1, <1>4, <1>5

\* An ordering of a set of rows is a batch of exactly those rows.
LEMMA OrderedBatch ==
    ASSUME NEW B \in SUBSET Actions, NEW s \in OldestFirst(B)
    PROVE  s \in Seq(Actions) /\ Range(s) = B
<1>1. IsFiniteSet(B)
  BY OutboxConstants, FS_Subset
<1>2. Cardinality(B) \in Nat
  BY <1>1, FS_CardinalityType
<1>3. /\ s \in [1 .. Cardinality(B) -> B]
      /\ \A b \in B : \E i \in 1 .. Cardinality(B) : s[i] = b
  BY DEF OldestFirst, Bijection, Injection, Surjection
<1>4. s \in Seq(Actions)
  BY <1>2, <1>3, IsASeq
<1>5. Range(s) = B
  BY <1>3 DEF Range
<1> QED
  BY <1>4, <1>5

-----------------------------------------------------------------------------
(* Types.                                                                  *)

\* Every variable starts in its type.
LEMMA InitTyped == OutboxInit => OutboxTypeOK
  BY OutboxConstants, EmptySeq DEF OutboxInit, OutboxTypeOK, Statuses, Settled

\* Every step keeps every variable in its type.
LEMMA StepTyped == OutboxTypeOK /\ OutboxNext => OutboxTypeOK'
<1> SUFFICES ASSUME OutboxTypeOK, OutboxNext
             PROVE  OutboxTypeOK'
  OBVIOUS
<1> USE OutboxConstants DEF OutboxTypeOK, Statuses, Settled
<1>drop. ASSUME NEW w \in Workers, Busy(w), DropCurrent(w)
         PROVE  /\ now' \in Nat /\ ticking' \in [Workers -> {"no", "reclaimed"}]
                /\ batch' \in [Workers -> Seq(Actions)] /\ lease' \in [Workers -> Nat]
  BY <1>drop, TailOfBatch DEF DropCurrent, Busy
<1>1. CASE Advance
  BY <1>1 DEF Advance, columns, workerVars
<1>2. ASSUME NEW w \in Workers, NEW locked \in SUBSET Actions,
             ReclaimExpiredClaims(w, locked)
      PROVE  OutboxTypeOK'
  BY <1>2 DEF ReclaimExpiredClaims, Unclaim
<1>3. ASSUME NEW w \in Workers, NEW locked \in SUBSET Actions,
             ClaimDueBatch(w, locked)
      PROVE  OutboxTypeOK'
  <2>1. PICK B \in OldestOf(Due \ locked) :
          /\ status' = [a \in Actions |-> IF a \in B THEN "claimed" ELSE status[a]]
          /\ claimed_by' = [a \in Actions |-> IF a \in B THEN w ELSE claimed_by[a]]
          /\ claim_expires_at' = [a \in Actions |->
                 IF a \in B THEN now + ClaimTTL ELSE claim_expires_at[a]]
          /\ \E s \in OldestFirst(B) : batch' = [batch EXCEPT ![w] = s]
          /\ lease' = [lease EXCEPT ![w] = IF B = {} THEN 0 ELSE now + ClaimTTL]
    BY <1>3 DEF ClaimDueBatch
  <2>2. B \in SUBSET Actions
    BY DEF OldestOf, Due
  <2>3. batch' \in [Workers -> Seq(Actions)]
    BY <2>1, <2>2, OrderedBatch
  <2>4. /\ now' = now /\ due_at' = due_at /\ executed_at' = executed_at
        /\ ticking' = [ticking EXCEPT ![w] = "no"]
    BY <1>3 DEF ClaimDueBatch
  <2> QED
    BY <2>1, <2>3, <2>4
<1>4. ASSUME NEW w \in Workers, NEW outcome \in {"done", "failed"}, Report(w, outcome)
      PROVE  OutboxTypeOK'
  <2>1. Current(w) \in Actions
    BY <1>4, TailOfBatch DEF Report, Busy, Current
  <2> QED
    BY <1>4, <1>drop, <2>1 DEF Report, Complete
<1>5. ASSUME NEW w \in Workers, Abandon(w)
      PROVE  OutboxTypeOK'
  BY <1>5, <1>drop DEF Abandon, columns
<1>6. ASSUME NEW w \in Workers, Crash(w)
      PROVE  OutboxTypeOK'
  BY <1>6, EmptySeq DEF Crash, columns
<1>7. ASSUME NEW c \in Cases, Cancel(c)
      PROVE  OutboxTypeOK'
  BY <1>7 DEF Cancel, CancelPendingAndClaimed, workerVars
<1>8. ASSUME NEW c \in Cases, NEW until \in DeferTimes, Defer(c, until)
      PROVE  OutboxTypeOK'
  BY <1>8 DEF Defer, DeferPendingAndClaimed, Unclaim, workerVars
<1> QED
  BY <1>1, <1>2, <1>3, <1>4, <1>5, <1>6, <1>7, <1>8 DEF OutboxNext, LetsGo

\* A step that leaves the outbox alone changes none of its predicates.
LEMMA StutterTyped == OutboxTypeOK /\ UNCHANGED outboxVars => OutboxTypeOK'
  BY DEF OutboxTypeOK, outboxVars, columns, workerVars

\* Every row, worker and claim is in its type in every reachable state.
THEOREM OutboxTypeCorrect == OutboxSpec => []OutboxTypeOK
<1>1. OutboxTypeOK /\ [OutboxNext]_outboxVars => OutboxTypeOK'
  BY StepTyped, StutterTyped
<1> QED
  BY InitTyped, <1>1, PTL DEF OutboxSpec

-----------------------------------------------------------------------------
(* Claim fields.                                                           *)

\* Rows start pending, without claim or execution date.
LEMMA InitAgrees == OutboxInit => ClaimFieldsAgree
  BY DEF OutboxInit, ClaimFieldsAgree

\* Every statement that changes a row's status keeps its claim and its
\* execution date in agreement with it.
LEMMA StepAgrees == OutboxTypeOK /\ ClaimFieldsAgree /\ OutboxNext => ClaimFieldsAgree'
<1> SUFFICES ASSUME OutboxTypeOK, ClaimFieldsAgree, OutboxNext
             PROVE  ClaimFieldsAgree'
  OBVIOUS
<1> USE OutboxConstants DEF OutboxTypeOK, ClaimFieldsAgree, Statuses, Settled
<1>1. CASE UNCHANGED columns
  BY <1>1 DEF columns
<1>2. ASSUME NEW w \in Workers, NEW locked \in SUBSET Actions,
             ReclaimExpiredClaims(w, locked)
      PROVE  ClaimFieldsAgree'
  BY <1>2 DEF ReclaimExpiredClaims, Unclaim, Expired
<1>3. ASSUME NEW w \in Workers, NEW locked \in SUBSET Actions,
             ClaimDueBatch(w, locked)
      PROVE  ClaimFieldsAgree'
  <2>1. PICK B \in SUBSET Due :
          /\ status' = [a \in Actions |-> IF a \in B THEN "claimed" ELSE status[a]]
          /\ claimed_by' = [a \in Actions |-> IF a \in B THEN w ELSE claimed_by[a]]
          /\ claim_expires_at' = [a \in Actions |->
                 IF a \in B THEN now + ClaimTTL ELSE claim_expires_at[a]]
          /\ executed_at' = executed_at
    BY <1>3 DEF ClaimDueBatch, OldestOf
  <2>2. \A a \in B : status[a] = "pending"
    BY DEF Due
  <2> QED
    BY <2>1, <2>2
<1>4. ASSUME NEW w \in Workers, NEW outcome \in {"done", "failed"}, Report(w, outcome)
      PROVE  ClaimFieldsAgree'
  <2>1. Current(w) \in Actions
    BY <1>4, TailOfBatch DEF Report, Busy, Current
  <2> QED
    BY <1>4, <2>1 DEF Report, Complete
<1>5. ASSUME NEW c \in Cases, Cancel(c)
      PROVE  ClaimFieldsAgree'
  BY <1>5 DEF Cancel, CancelPendingAndClaimed, Live
<1>6. ASSUME NEW c \in Cases, NEW until \in DeferTimes, Defer(c, until)
      PROVE  ClaimFieldsAgree'
  BY <1>6 DEF Defer, DeferPendingAndClaimed, Unclaim, Live
<1>7. ASSUME Advance \/ \E w \in Workers : Abandon(w) \/ Crash(w)
      PROVE  UNCHANGED columns
  BY <1>7 DEF Advance, Abandon, Crash
<1> QED
  BY <1>1, <1>2, <1>3, <1>4, <1>5, <1>6, <1>7 DEF OutboxNext, LetsGo

-----------------------------------------------------------------------------
(* Leases.                                                                 *)

\* Nobody holds a row at the start.
LEMMA InitLeases == OutboxInit => NeverEarlier /\ LeaseBacked /\ ExclusiveLease
<1>1. Range(<<>>) = {}
  BY DEF Range
<1> QED
  BY <1>1, OutboxConstants
     DEF OutboxInit, NeverEarlier, LeaseBacked, ExclusiveLease, Holds

\* A worker that only lets go of rows, while the rows stay or are settled,
\* disturbs no lease.
LEMMA LettingGoKeepsLeases ==
    ASSUME IInv, OutboxTypeOK',
           now' = now, due_at' = due_at,
           \A a \in Actions :
               \/ /\ status'[a] = status[a]
                  /\ claimed_by'[a] = claimed_by[a]
                  /\ claim_expires_at'[a] = claim_expires_at[a]
               \/ status'[a] \in Settled,
           \A w \in Workers :
               /\ Range(batch'[w]) \subseteq Range(batch[w])
               /\ Range(batch'[w]) # {} => lease'[w] = lease[w]
    PROVE  (NeverEarlier /\ LeaseBacked /\ ExclusiveLease)'
<1>1. NeverEarlier'
  BY DEF IInv, NeverEarlier
<1>2. \A w \in Workers, a \in Actions :
          Holds(w, a)' => Holds(w, a) /\ lease'[w] = lease[w]
  BY DEF Holds
<1>3. LeaseBacked'
  BY <1>2 DEF IInv, LeaseBacked
<1>4. ExclusiveLease'
  BY <1>2 DEF IInv, ExclusiveLease
<1> QED
  BY <1>1, <1>3, <1>4

\* No step breaks an unexpired lease.
LEMMA StepKeepsLeases ==
    IInv /\ OutboxNext => (NeverEarlier /\ LeaseBacked /\ ExclusiveLease)'
<1> SUFFICES ASSUME IInv, OutboxNext
             PROVE  (NeverEarlier /\ LeaseBacked /\ ExclusiveLease)'
  OBVIOUS
<1> USE OutboxConstants
<1>typed. OutboxTypeOK /\ OutboxTypeOK'
  BY StepTyped DEF IInv
<1>1. CASE Advance
  <2>1. /\ now' = now + 1 /\ now \in Nat /\ UNCHANGED <<columns, batch, lease>>
        /\ lease \in [Workers -> Nat]
    BY <1>1, <1>typed DEF Advance, workerVars, OutboxTypeOK
  <2>2. \A w \in Workers, a \in Actions : Holds(w, a)' <=> Holds(w, a)
    BY <2>1 DEF Holds
  <2>3. \A w \in Workers : now' <= lease'[w] => now <= lease[w]
    BY <2>1
  <2> QED
    BY <2>1, <2>2, <2>3 DEF IInv, NeverEarlier, LeaseBacked, ExclusiveLease, columns
<1>2. ASSUME NEW w \in Workers, NEW locked \in SUBSET Actions,
             ReclaimExpiredClaims(w, locked)
      PROVE  (NeverEarlier /\ LeaseBacked /\ ExclusiveLease)'
  <2>1. /\ now' = now /\ due_at' = due_at /\ batch' = batch /\ lease' = lease
        /\ now \in Nat /\ lease \in [Workers -> Nat]
    BY <1>2, <1>typed DEF ReclaimExpiredClaims, OutboxTypeOK
  <2>2. \A a \in Actions :
           \/ /\ status'[a] = status[a] /\ claimed_by'[a] = claimed_by[a]
              /\ claim_expires_at'[a] = claim_expires_at[a]
           \/ a \in Expired
    BY <1>2 DEF ReclaimExpiredClaims, Unclaim
  <2>3. \A v \in Workers, a \in Actions : Holds(v, a)' <=> Holds(v, a)
    BY <2>1 DEF Holds
  <2>4. \A v \in Workers, a \in Expired :
           Holds(v, a) /\ now <= lease[v] => due_at[a] # PlannedAt[a]
    BY <2>1 DEF IInv, LeaseBacked, Expired, Settled
  <2>5. LeaseBacked'
    BY <2>1, <2>2, <2>3, <2>4 DEF IInv, LeaseBacked
  <2> QED
    BY <2>1, <2>3, <2>5 DEF IInv, NeverEarlier, ExclusiveLease
<1>3. ASSUME NEW w \in Workers, NEW locked \in SUBSET Actions,
             ClaimDueBatch(w, locked)
      PROVE  (NeverEarlier /\ LeaseBacked /\ ExclusiveLease)'
  <2>1. PICK B \in SUBSET Due :
          /\ status' = [a \in Actions |-> IF a \in B THEN "claimed" ELSE status[a]]
          /\ claimed_by' = [a \in Actions |-> IF a \in B THEN w ELSE claimed_by[a]]
          /\ claim_expires_at' = [a \in Actions |->
                 IF a \in B THEN now + ClaimTTL ELSE claim_expires_at[a]]
          /\ \E s \in OldestFirst(B) : batch' = [batch EXCEPT ![w] = s]
          /\ lease' = [lease EXCEPT ![w] = IF B = {} THEN 0 ELSE now + ClaimTTL]
    BY <1>3 DEF ClaimDueBatch, OldestOf
  <2>s. PICK s \in OldestFirst(B) : batch' = [batch EXCEPT ![w] = s]
    BY <2>1
  <2>2. now' = now /\ due_at' = due_at
    BY <1>3 DEF ClaimDueBatch
  <2>3. B \subseteq Actions /\ \A a \in B : status[a] = "pending"
    BY DEF Due
  <2>4. Range(s) = B
    BY <2>3, OrderedBatch
  <2>5. batch \in [Workers -> Seq(Actions)] /\ lease \in [Workers -> Nat]
    BY <1>typed DEF OutboxTypeOK
  <2>6. \A a \in Actions : Holds(w, a)' => a \in B /\ lease'[w] = now + ClaimTTL
    BY <2>1, <2>s, <2>4, <2>5 DEF Holds
  <2>7. \A v \in Workers \ {w}, a \in Actions :
           (Holds(v, a)' <=> Holds(v, a)) /\ lease'[v] = lease[v]
    BY <2>1, <2>s, <2>5 DEF Holds
  <2>8. \A v \in Workers, a \in B :
           Holds(v, a) /\ now <= lease[v] => due_at[a] # PlannedAt[a]
    BY <2>3 DEF IInv, LeaseBacked, Settled
  <2>9. LeaseBacked'
    <3>1. ASSUME NEW v \in Workers, NEW a \in Actions,
                 Holds(v, a)', now <= lease'[v], due_at[a] = PlannedAt[a]
          PROVE  \/ status'[a] \in Settled
                 \/ /\ status'[a] = "claimed"
                    /\ claimed_by'[a] = v
                    /\ claim_expires_at'[a] = lease'[v]
      <4>1. CASE v = w
        BY <3>1, <4>1, <2>1, <2>6
      <4>2. CASE v # w
        <5>1. Holds(v, a) /\ now <= lease[v] /\ lease'[v] = lease[v]
          BY <3>1, <4>2, <2>7
        <5>2. a \notin B
          BY <3>1, <5>1, <2>8
        <5> QED
          BY <3>1, <5>1, <5>2, <2>1 DEF IInv, LeaseBacked
      <4> QED
        BY <4>1, <4>2
    <3> QED
      BY <3>1, <2>2 DEF LeaseBacked
  <2>10. ExclusiveLease'
    <3>1. ASSUME NEW v \in Workers, NEW u \in Workers, NEW a \in Actions, v # u,
                 Holds(v, a)', Holds(u, a)', now <= lease'[v], now <= lease'[u],
                 due_at[a] = PlannedAt[a]
          PROVE  FALSE
      <4>1. CASE v # w /\ u # w
        BY <3>1, <4>1, <2>7 DEF IInv, ExclusiveLease
      <4>2. CASE v = w
        BY <3>1, <4>2, <2>6, <2>7, <2>8
      <4>3. CASE u = w
        BY <3>1, <4>3, <2>6, <2>7, <2>8
      <4> QED
        BY <4>1, <4>2, <4>3
    <3> QED
      BY <3>1, <2>2 DEF ExclusiveLease
  <2> QED
    BY <2>2, <2>9, <2>10 DEF IInv, NeverEarlier
<1>drop. ASSUME NEW w \in Workers, Busy(w), DropCurrent(w)
         PROVE  \A v \in Workers :
                    /\ Range(batch'[v]) \subseteq Range(batch[v])
                    /\ Range(batch'[v]) # {} => lease'[v] = lease[v]
  <2>1. /\ batch \in [Workers -> Seq(Actions)] /\ lease \in [Workers -> Nat]
        /\ batch[w] \in Seq(Actions) /\ batch[w] # <<>>
    BY <1>drop, <1>typed DEF OutboxTypeOK, Busy
  <2>2. /\ batch'[w] = Tail(batch[w])
        /\ lease'[w] = (IF Len(batch[w]) = 1 THEN 0 ELSE lease[w])
        /\ \A v \in Workers \ {w} : batch'[v] = batch[v] /\ lease'[v] = lease[v]
    BY <1>drop, <2>1 DEF DropCurrent
  <2>3. Len(batch[w]) = 1 => Range(Tail(batch[w])) = {}
    <3>1. Tail(batch[w]) \in Seq(Actions) /\ Len(Tail(batch[w])) = Len(batch[w]) - 1
      BY <2>1, HeadTailProperties
    <3>2. DOMAIN Tail(batch[w]) = 1 .. Len(batch[w]) - 1
      BY <3>1, LenProperties
    <3> QED
      BY <3>2 DEF Range
  <2>4. Range(Tail(batch[w])) \subseteq Range(batch[w])
    BY <2>1, TailOfBatch
  <2> QED
    BY <2>2, <2>3, <2>4
<1>4. ASSUME NEW w \in Workers, NEW outcome \in {"done", "failed"}, Report(w, outcome)
      PROVE  (NeverEarlier /\ LeaseBacked /\ ExclusiveLease)'
  <2>1. Busy(w) /\ DropCurrent(w) /\ Complete(Current(w), outcome)
    BY <1>4 DEF Report
  <2>2. now' = now /\ due_at' = due_at
    BY <2>1 DEF DropCurrent, Complete
  <2>3. \A a \in Actions :
           \/ /\ status'[a] = status[a] /\ claimed_by'[a] = claimed_by[a]
              /\ claim_expires_at'[a] = claim_expires_at[a]
           \/ status'[a] \in Settled
    BY <2>1, <1>typed DEF Complete, OutboxTypeOK, Settled
  <2> QED
    BY <2>1, <2>2, <2>3, <1>drop, <1>typed, LettingGoKeepsLeases
<1>5. ASSUME NEW w \in Workers, Abandon(w)
      PROVE  (NeverEarlier /\ LeaseBacked /\ ExclusiveLease)'
  <2>1. Busy(w) /\ DropCurrent(w) /\ UNCHANGED columns
    BY <1>5 DEF Abandon
  <2>2. /\ now' = now /\ due_at' = due_at /\ status' = status
        /\ claimed_by' = claimed_by /\ claim_expires_at' = claim_expires_at
    BY <2>1 DEF DropCurrent, columns
  <2> QED
    BY <2>1, <2>2, <1>drop, <1>typed, LettingGoKeepsLeases
<1>6. ASSUME NEW w \in Workers, Crash(w)
      PROVE  (NeverEarlier /\ LeaseBacked /\ ExclusiveLease)'
  <2>1. /\ now' = now /\ due_at' = due_at /\ status' = status
        /\ claimed_by' = claimed_by /\ claim_expires_at' = claim_expires_at
        /\ batch' = [batch EXCEPT ![w] = <<>>]
        /\ lease' = [lease EXCEPT ![w] = 0]
    BY <1>6 DEF Crash, columns
  <2>2. Range(<<>>) = {}
    BY DEF Range
  <2>3. \A v \in Workers :
           /\ Range(batch'[v]) \subseteq Range(batch[v])
           /\ Range(batch'[v]) # {} => lease'[v] = lease[v]
    BY <2>1, <2>2, <1>typed DEF OutboxTypeOK
  <2> QED
    BY <2>1, <2>3, <1>typed, LettingGoKeepsLeases
<1>7. ASSUME NEW c \in Cases, Cancel(c)
      PROVE  (NeverEarlier /\ LeaseBacked /\ ExclusiveLease)'
  <2>1. /\ now' = now /\ due_at' = due_at /\ batch' = batch /\ lease' = lease
        /\ claimed_by' = claimed_by /\ claim_expires_at' = claim_expires_at
    BY <1>7 DEF Cancel, CancelPendingAndClaimed, workerVars
  <2>2. \A a \in Actions : status'[a] = status[a] \/ status'[a] \in Settled
    BY <1>7 DEF Cancel, CancelPendingAndClaimed, Settled
  <2> QED
    BY <2>1, <2>2, <1>typed, LettingGoKeepsLeases
<1>8. ASSUME NEW c \in Cases, NEW until \in DeferTimes, Defer(c, until)
      PROVE  (NeverEarlier /\ LeaseBacked /\ ExclusiveLease)'
  <2>1. /\ now' = now /\ batch' = batch /\ lease' = lease
        /\ due_at \in [Actions -> Nat] /\ until \in Nat
    BY <1>8, <1>typed DEF Defer, workerVars, OutboxTypeOK
  <2>2. PICK deferred \in SUBSET Actions :
           /\ \A a \in deferred : due_at[a] < until
           /\ due_at' = [a \in Actions |-> IF a \in deferred THEN until ELSE due_at[a]]
           /\ Unclaim(deferred)
    BY <1>8 DEF Defer, DeferPendingAndClaimed
  <2>3. \A a \in deferred : due_at'[a] > PlannedAt[a]
    BY <2>1, <2>2 DEF IInv, NeverEarlier
  <2>4. \A a \in Actions \ deferred :
           /\ due_at'[a] = due_at[a] /\ status'[a] = status[a]
           /\ claimed_by'[a] = claimed_by[a] /\ claim_expires_at'[a] = claim_expires_at[a]
    BY <2>2 DEF Unclaim
  <2>5. NeverEarlier'
    <3>1. \A a \in Actions : due_at'[a] \in Nat /\ PlannedAt[a] \in Nat
      BY <1>typed DEF OutboxTypeOK
    <3> QED
      BY <2>3, <2>4, <3>1 DEF IInv, NeverEarlier
  <2>6. LeaseBacked'
    BY <2>1, <2>3, <2>4 DEF IInv, LeaseBacked, Holds
  <2>7. ExclusiveLease'
    BY <2>1, <2>3, <2>4 DEF IInv, ExclusiveLease, Holds
  <2> QED
    BY <2>5, <2>6, <2>7
<1> QED
  BY <1>1, <1>2, <1>3, <1>4, <1>5, <1>6, <1>7, <1>8 DEF OutboxNext, LetsGo

-----------------------------------------------------------------------------
(* The inductive invariant and what follows from it.                       *)

\* The inductive invariant holds at the start.
LEMMA InitIInv == OutboxInit => IInv
  BY InitTyped, InitAgrees, InitLeases DEF IInv

\* Every step of the outbox keeps the inductive invariant.
LEMMA StepIInv == IInv /\ OutboxNext => IInv'
  BY StepTyped, StepAgrees, StepKeepsLeases DEF IInv

\* A step that leaves the outbox alone keeps it as well.
LEMMA StutterIInv == IInv /\ UNCHANGED outboxVars => IInv'
  BY DEF IInv, OutboxTypeOK, ClaimFieldsAgree, NeverEarlier, LeaseBacked, ExclusiveLease,
         Holds, outboxVars, columns, workerVars

\* The inductive invariant of the outbox: claim columns, leases and batches describe
\* each other, whatever workers, crashes, cancellations and deferrals do.
THEOREM Invariance == OutboxSpec => []IInv
<1>1. IInv /\ [OutboxNext]_outboxVars => IInv'
  BY StepIInv, StutterIInv
<1> QED
  BY InitIInv, <1>1, PTL DEF OutboxSpec

\* No row is in the hands of two workers whose leases run, unless a deferral
\* handed it out again.
THEOREM LeasesAreExclusive == OutboxSpec => []ExclusiveLease
  BY Invariance, PTL DEF IInv

\* Claim fields and execution date agree with the status of every row.
THEOREM ClaimFieldsCorrect == OutboxSpec => []ClaimFieldsAgree
  BY Invariance, PTL DEF IInv

\* Who completes a row under another's claim has held it longer than its own lease:
\* a running lease on a row that kept its date is backed by the worker's own claim.
THEOREM ForeignCompletions == OutboxSpec => ForeignCompletionIsLate
<1> DEFINE Completed(a) == status[a] = "claimed" /\ status'[a] \in {"done", "failed"}
           Late(a) == \E w \in Workers :
                        /\ Holds(w, a) /\ batch'[w] = Tail(batch[w])
                        /\ \/ claimed_by[a] = w
                           \/ lease[w] < now
                           \/ due_at[a] # PlannedAt[a]
<1> USE OutboxConstants
<1>1. ASSUME IInv, [OutboxNext]_outboxVars
      PROVE  \A a \in Actions : Completed(a) => Late(a)
  <2>typed. OutboxTypeOK /\ LeaseBacked
    BY <1>1 DEF IInv
  <2> SUFFICES ASSUME NEW a \in Actions, Completed(a)
               PROVE  Late(a)
    OBVIOUS
  <2>1. ASSUME NEW w \in Workers, NEW outcome \in {"done", "failed"}, Report(w, outcome)
        PROVE  Late(a)
    <3>1. Current(w) = a
      BY <2>typed, <2>1 DEF Report, Complete, OutboxTypeOK
    <3>2. Holds(w, a) /\ batch'[w] = Tail(batch[w])
      BY <2>typed, <2>1, <3>1, TailOfBatch DEF Report, DropCurrent, Busy, Current, Holds, OutboxTypeOK
    <3>3. now \in Nat /\ lease[w] \in Nat /\ status[a] = "claimed"
      BY <2>typed DEF OutboxTypeOK
    <3>4. now <= lease[w] /\ due_at[a] = PlannedAt[a] => claimed_by[a] = w
      BY <2>typed, <3>2, <3>3 DEF LeaseBacked, Settled
    <3> QED
      BY <3>2, <3>3, <3>4
  <2>2. CASE UNCHANGED columns
    BY <2>2 DEF columns
  <2>3. ASSUME NEW w \in Workers, NEW locked \in SUBSET Actions,
               ReclaimExpiredClaims(w, locked)
        PROVE  FALSE
    BY <2>3 DEF ReclaimExpiredClaims, Unclaim
  <2>4. ASSUME NEW w \in Workers, NEW locked \in SUBSET Actions,
               ClaimDueBatch(w, locked)
        PROVE  FALSE
    BY <2>4 DEF ClaimDueBatch
  <2>5. ASSUME NEW c \in Cases, Cancel(c)
        PROVE  FALSE
    BY <2>5 DEF Cancel, CancelPendingAndClaimed
  <2>6. ASSUME NEW c \in Cases, NEW until \in DeferTimes, Defer(c, until)
        PROVE  FALSE
    BY <2>6 DEF Defer, DeferPendingAndClaimed, Unclaim
  <2> QED
    BY <1>1, <2>1, <2>2, <2>3, <2>4, <2>5, <2>6
       DEF OutboxNext, LetsGo, Advance, Abandon, Crash, outboxVars
<1> QED
  BY <1>1, Invariance, PTL DEF OutboxSpec, ForeignCompletionIsLate

\* Whatever a late worker, a reclaim, a stopping rule or a promise does, a row
\* that is settled stays settled, its execution date is never rewritten, and no
\* row moves to an earlier date.
THEOREM SettledStaysFinal == OutboxSpec => SettledIsFinal
<1> DEFINE Final ==
        \A a \in Actions :
            /\ status[a] \in Settled => status'[a] = status[a]
            /\ executed_at[a] # NULL => executed_at'[a] = executed_at[a]
            /\ due_at'[a] >= due_at[a]
<1> USE OutboxConstants
<1>1. ASSUME IInv, [OutboxNext]_outboxVars
      PROVE  Final
  <2>typed. OutboxTypeOK /\ ClaimFieldsAgree
    BY <1>1 DEF IInv
  <2> USE <2>typed DEF OutboxTypeOK
  <2>1. ASSUME UNCHANGED columns
        PROVE  Final
    BY <2>1 DEF columns
  <2>2. ASSUME NEW w \in Workers, NEW locked \in SUBSET Actions,
               ReclaimExpiredClaims(w, locked)
        PROVE  Final
    BY <2>2 DEF ReclaimExpiredClaims, Unclaim, Expired, Settled
  <2>3. ASSUME NEW w \in Workers, NEW locked \in SUBSET Actions,
               ClaimDueBatch(w, locked)
        PROVE  Final
    <3>1. PICK B \in SUBSET Due :
             status' = [a \in Actions |-> IF a \in B THEN "claimed" ELSE status[a]]
      BY <2>3 DEF ClaimDueBatch, OldestOf
    <3>2. \A a \in B : status[a] = "pending"
      BY DEF Due
    <3>3. due_at' = due_at /\ executed_at' = executed_at
      BY <2>3 DEF ClaimDueBatch
    <3> QED
      BY <3>1, <3>2, <3>3 DEF Settled
  <2>4. ASSUME NEW w \in Workers, NEW outcome \in {"done", "failed"}, Report(w, outcome)
        PROVE  Final
    <3>1. executed_at[Current(w)] # NULL => status[Current(w)] # "claimed"
      <4>1. Current(w) \in Actions
        BY <2>4, TailOfBatch DEF Report, Busy, Current
      <4> QED
        BY <4>1 DEF ClaimFieldsAgree
    <3> QED
      BY <2>4, <3>1 DEF Report, Complete, Settled
  <2>5. ASSUME NEW c \in Cases, Cancel(c)
        PROVE  Final
    BY <2>5 DEF Cancel, CancelPendingAndClaimed, Live, Settled
  <2>6. ASSUME NEW c \in Cases, NEW until \in DeferTimes, Defer(c, until)
        PROVE  Final
    BY <2>6 DEF Defer, DeferPendingAndClaimed, Unclaim, Live, Settled
  <2>7. ASSUME Advance \/ (\E w \in Workers : Abandon(w) \/ Crash(w)) \/ UNCHANGED outboxVars
        PROVE  UNCHANGED columns
    BY <2>7 DEF Advance, Abandon, Crash, outboxVars
  <2> QED
    BY <1>1, <2>1, <2>2, <2>3, <2>4, <2>5, <2>6, <2>7 DEF OutboxNext, LetsGo
<1> QED
  BY <1>1, Invariance, PTL DEF OutboxSpec, SettledIsFinal

-----------------------------------------------------------------------------
(* The executor.                                                           *)

\* Worker w holds the key of a and is not through with a.
InFlight(w, a) == Busy(w) /\ Current(w) = a /\ step[w] # "none"

\* A worker that fetches a batch is not inside execute().
IdleWhileTicking ==
    \A w \in Workers :
        /\ ticking[w] = "reclaimed" => ~Busy(w)
        /\ step[w] # "none" => Busy(w)

\* Redis forgets an action's first key only when its TTL is over.
KeyRemembers ==
    \A a \in Actions :
        /\ grants[a] > 0 => /\ decision[a] = "allow"
                            /\ first_grant[a] + KeyTTL <= key_until[a]
        /\ grants[a] > 1 => first_grant[a] + KeyTTL <= now

\* Nothing happens to an action before its first key is set.
NoGrantNoEffect ==
    \A a \in Actions :
        grants[a] = 0 => /\ sent[a] = 0 /\ charged[a] = 0 /\ status[a] # "failed"
                         /\ \A w \in Workers : ~InFlight(w, a)

\* While its first key is the only one, one worker at most is busy with an
\* action, and what it did so far says how far it got.
OneGrant ==
    \A a \in Actions : grants[a] <= 1 =>
        /\ charged[a] <= sent[a] /\ sent[a] <= 1
        /\ status[a] = "failed" => charged[a] = 0
        /\ \A w \in Workers : InFlight(w, a) =>
            /\ \A v \in Workers : InFlight(v, a) => v = w
            /\ charged[a] = 0
            /\ status[a] # "failed"
            /\ step[w] = "acquired" => sent[a] = 0
            /\ step[w] = "returned" => sent[a] = 1

ExecInv ==
    /\ IInv
    /\ TypeOK
    /\ IdleWhileTicking
    /\ KeyRemembers
    /\ NoGrantNoEffect
    /\ OneGrant

-----------------------------------------------------------------------------
(* The executor and the outbox.                                            *)

\* Every step of the executor is a step of the outbox or leaves it alone.
LEMMA StepsOfOutbox == [Next]_vars => OutboxNext \/ UNCHANGED outboxVars
<1> SUFFICES ASSUME [Next]_vars
             PROVE  OutboxNext \/ UNCHANGED outboxVars
  OBVIOUS
<1>1. CASE Surroundings
  BY <1>1 DEF Surroundings, OutboxNext, LetsGo
<1>2. ASSUME NEW w \in Workers, NEW locked \in SUBSET Actions, Tick(w, locked)
      PROVE  OutboxNext
  BY <1>2 DEF Tick, OutboxNext, LetsGo
<1>3. ASSUME NEW w \in Workers, Execute(w)
      PROVE  OutboxNext \/ UNCHANGED outboxVars
  <2>1. CASE Refuse(w) \/ RejectExecution(w)
    BY <2>1 DEF Refuse, RejectExecution, OutboxNext, LetsGo
  <2>2. CASE Acquire(w) \/ CallChannel(w)
    BY <2>2 DEF Acquire, CallChannel
  <2>3. CASE Suppress(w) \/ RecordExecution(w) \/ RecordFailure(w)
    BY <2>3 DEF Suppress, RecordExecution, RecordFailure, OutboxNext, LetsGo
  <2> QED
    BY <1>3, <2>1, <2>2, <2>3 DEF Execute
<1>4. ASSUME NEW a \in Actions, NEW verdict \in Verdicts, Decide(a, verdict)
      PROVE  UNCHANGED outboxVars
  BY <1>4 DEF Decide
<1>5. ASSUME NEW w \in Workers, Die(w), now < QuietAfter
      PROVE  OutboxNext
  BY <1>5 DEF Die, OutboxNext, LetsGo
<1>6. CASE UNCHANGED vars
  BY <1>6 DEF vars
<1> QED
  BY <1>1, <1>2, <1>3, <1>4, <1>5, <1>6 DEF Next

\* The executor uses the outbox as the outbox allows: it implements Outbox.
THEOREM ExecutorImplementsOutbox == Spec => OutboxSpec
<1>1. Init => OutboxInit
  BY DEF Init
<1>2. [Next]_vars => [OutboxNext]_outboxVars
  BY StepsOfOutbox
<1> QED
  BY <1>1, <1>2, PTL DEF Spec, OutboxSpec

\* A step of the executor is a step of the outbox or leaves it alone, so it keeps
\* the invariant of the outbox.
LEMMA StepKeepsIInv == IInv /\ [Next]_vars => IInv'
  BY StepsOfOutbox, StepIInv, StutterIInv

\* Leases, claim fields and types of the outbox hold whatever the executor does.
THEOREM OutboxInvariantUnderExecutor == Spec => []IInv
<1>1. Init => IInv
  BY InitIInv DEF Init
<1> QED
  BY <1>1, StepKeepsIInv, PTL DEF Spec

-----------------------------------------------------------------------------
(* Types.                                                                  *)

\* Every variable starts in its type.
LEMMA ExecInitTyped == Init => TypeOK
  BY InitTyped DEF Init, TypeOK, Verdicts, Steps

\* The head of a worker's batch is an action.
LEMMA CurrentIsAction ==
    ASSUME TypeOK, NEW w \in Workers, Busy(w)
    PROVE  Current(w) \in Actions
  BY TailOfBatch DEF TypeOK, OutboxTypeOK, Busy, Current

\* Every step of a worker, a tick or the surroundings keeps every variable in its
\* type; the batches it works on are those of the outbox.
LEMMA ExecStepTyped == IInv /\ TypeOK /\ [Next]_vars => TypeOK'
<1> SUFFICES ASSUME IInv, TypeOK, [Next]_vars
             PROVE  TypeOK'
  OBVIOUS
<1> USE OutboxConstants, ExecutorConstants DEF TypeOK, Verdicts, Steps
<1>o. OutboxTypeOK'
  BY StepKeepsIInv DEF IInv
<1>n. now \in Nat
  BY DEF OutboxTypeOK
<1>1. CASE UNCHANGED execVars
  BY <1>1, <1>o DEF execVars
<1>2. ASSUME NEW a \in Actions, NEW verdict \in Verdicts, Decide(a, verdict)
      PROVE  TypeOK'
  BY <1>2, <1>o DEF Decide
<1>3. ASSUME NEW w \in Workers, Acquire(w)
      PROVE  TypeOK'
  <2>1. Current(w) \in Actions
    BY <1>3, CurrentIsAction DEF Acquire, At
  <2>2. first_grant' \in [Actions -> Nat]
    BY <1>3, <1>n, <2>1 DEF Acquire
  <2> QED
    BY <1>3, <1>o, <1>n, <2>1, <2>2 DEF Acquire, Goto
<1>4. ASSUME NEW w \in Workers, CallChannel(w)
      PROVE  TypeOK'
  BY <1>4, <1>o DEF CallChannel, Goto
<1>5. ASSUME NEW w \in Workers, RecordExecution(w)
      PROVE  TypeOK'
  <2>1. Current(w) \in Actions /\ CaseOf[Current(w)] \in Cases
    BY <1>5, CurrentIsAction DEF RecordExecution, At
  <2> QED
    BY <1>5, <1>o, <2>1 DEF RecordExecution, Goto
<1>6. ASSUME NEW w \in Workers, RejectExecution(w) \/ RecordFailure(w) \/ Die(w)
      PROVE  TypeOK'
  BY <1>6, <1>o DEF RejectExecution, RecordFailure, Die, Goto
<1>7. ASSUME \/ Surroundings \/ UNCHANGED vars
             \/ \E w \in Workers : \/ \E locked \in SUBSET Actions : Tick(w, locked)
                                   \/ Refuse(w) \/ Suppress(w)
      PROVE  UNCHANGED execVars
  BY <1>7 DEF Surroundings, Tick, Refuse, Suppress, vars
<1> QED
  BY <1>1, <1>2, <1>3, <1>4, <1>5, <1>6, <1>7 DEF Next, Execute

\* Every variable of the executor keeps its type.
THEOREM ExecutorTypeCorrect == Spec => []TypeOK
  BY ExecInitTyped, OutboxInvariantUnderExecutor, ExecStepTyped, PTL DEF Spec

-----------------------------------------------------------------------------
(* One key, one worker, one effect.                                        *)

\* Nothing has been allowed, sent or charged at the start.
LEMMA InitExecInv == Init => ExecInv
<1> SUFFICES ASSUME Init
             PROVE  ExecInv
  OBVIOUS
<1>1. IInv /\ TypeOK
  BY InitIInv, ExecInitTyped DEF Init
<1>2. \A w \in Workers : ~Busy(w) /\ step[w] = "none"
  BY DEF Init, OutboxInit, Busy
<1>3. \A a \in Actions : grants[a] = 0 /\ sent[a] = 0 /\ charged[a] = 0
  BY DEF Init
<1>4. IdleWhileTicking
  BY <1>2 DEF IdleWhileTicking
<1>5. KeyRemembers
  BY <1>3 DEF KeyRemembers
<1>6. NoGrantNoEffect /\ OneGrant
  BY <1>2, <1>3 DEF Init, OutboxInit, NoGrantNoEffect, OneGrant, InFlight
<1> QED
  BY <1>1, <1>4, <1>5, <1>6 DEF ExecInv

\* No worker is inside execute() when the tick hands it a batch.
LEMMA StepKeepsIdle == ExecInv /\ [Next]_vars => IdleWhileTicking'
<1> SUFFICES ASSUME ExecInv, [Next]_vars
             PROVE  IdleWhileTicking'
  OBVIOUS
<1> USE DEF IdleWhileTicking
<1>typed. /\ IdleWhileTicking
          /\ ticking \in [Workers -> {"no", "reclaimed"}]
          /\ batch \in [Workers -> Seq(Actions)]
          /\ step \in [Workers -> Steps]
  BY DEF ExecInv, TypeOK, OutboxTypeOK
<1>1. CASE UNCHANGED <<ticking, batch, step>>
  BY <1>typed, <1>1 DEF Busy
<1>2. ASSUME NEW w \in Workers, NEW locked \in SUBSET Actions, Tick(w, locked)
      PROVE  IdleWhileTicking'
  <2>1. step' = step /\ ~Busy(w)
    BY <1>2, <1>typed DEF Tick, execVars, ReclaimExpiredClaims, ClaimDueBatch
  <2>2. CASE ReclaimExpiredClaims(w, locked)
    BY <2>1, <2>2, <1>typed DEF ReclaimExpiredClaims, Busy
  <2>3. CASE ClaimDueBatch(w, locked)
    <3>1. /\ ticking' = [ticking EXCEPT ![w] = "no"]
          /\ \A v \in Workers \ {w} : batch'[v] = batch[v]
      BY <2>3, <1>typed DEF ClaimDueBatch
    <3> QED
      BY <2>1, <3>1, <1>typed DEF Busy
  <2> QED
    BY <1>2, <2>2, <2>3 DEF Tick
<1>3. ASSUME NEW w \in Workers, Busy(w), DropCurrent(w),
             step' = [step EXCEPT ![w] = "none"]
      PROVE  IdleWhileTicking'
  BY <1>3, <1>typed DEF DropCurrent, Busy
<1>4. ASSUME NEW w \in Workers, Execute(w)
      PROVE  IdleWhileTicking'
  <2>1. CASE Refuse(w) \/ Suppress(w)
    <3>1. step' = [step EXCEPT ![w] = "none"]
      BY <2>1, <1>typed DEF Refuse, Suppress, At, execVars
    <3>2. Busy(w) /\ DropCurrent(w)
      BY <2>1 DEF Refuse, Suppress, Abandon, Report
    <3> QED
      BY <3>1, <3>2, <1>3
  <2>2. CASE Acquire(w) \/ CallChannel(w)
    <3>1. Busy(w) /\ UNCHANGED <<ticking, batch>>
          /\ \A v \in Workers \ {w} : step'[v] = step[v]
      BY <2>2, <1>typed DEF Acquire, CallChannel, At, Goto, outboxVars, workerVars
    <3> QED
      BY <3>1, <1>typed DEF Busy
  <2>3. CASE RecordExecution(w) \/ RejectExecution(w) \/ RecordFailure(w)
    <3>1. Busy(w) /\ DropCurrent(w) /\ step' = [step EXCEPT ![w] = "none"]
      BY <2>3 DEF RecordExecution, RejectExecution, RecordFailure, Abandon, Report, Goto
    <3> QED
      BY <3>1, <1>3
  <2> QED
    BY <1>4, <2>1, <2>2, <2>3 DEF Execute
<1>5. ASSUME NEW w \in Workers, Die(w)
      PROVE  IdleWhileTicking'
  BY <1>5, <1>typed DEF Die, Crash, Goto, Busy
<1>6. ASSUME Surroundings \/ UNCHANGED vars
             \/ \E a \in Actions, verdict \in Verdicts : Decide(a, verdict)
      PROVE  UNCHANGED <<ticking, batch, step>>
  BY <1>6 DEF Surroundings, Advance, Cancel, Defer, Decide, workerVars, outboxVars,
              execVars, vars
<1> QED
  BY <1>1, <1>2, <1>4, <1>5, <1>6 DEF Next

\* Steps that set no key, call no channel and charge nothing keep the account.
LEMMA UntouchedAccount ==
    ASSUME ExecInv, TypeOK', now <= now',
           UNCHANGED <<key_until, grants, first_grant, sent, charged>>,
           \A a \in Actions :
               /\ decision[a] = "allow" => decision'[a] = "allow"
               /\ status'[a] = "failed" => status[a] = "failed",
           \A w \in Workers :
               step'[w] # "none" => step'[w] = step[w] /\ batch'[w] = batch[w]
    PROVE  (KeyRemembers /\ NoGrantNoEffect /\ OneGrant)'
<1>1. \A w \in Workers, a \in Actions :
         InFlight(w, a)' => InFlight(w, a) /\ step'[w] = step[w]
  BY DEF InFlight, Busy, Current
<1>2. KeyRemembers'
  <2>1. now \in Nat /\ now' \in Nat /\ KeyTTL \in Nat /\ first_grant \in [Actions -> Nat]
    BY ExecutorConstants DEF ExecInv, TypeOK, OutboxTypeOK
  <2> QED
    BY <2>1 DEF ExecInv, KeyRemembers
<1>3. NoGrantNoEffect'
  BY <1>1 DEF ExecInv, NoGrantNoEffect
<1>4. OneGrant'
  BY <1>1 DEF ExecInv, OneGrant
<1> QED
  BY <1>2, <1>3, <1>4

\* SET NX succeeds: nobody else is busy with the action under its first key.
LEMMA AcquireKeepsAccount ==
    ASSUME ExecInv, NEW w \in Workers, Acquire(w)
    PROVE  (KeyRemembers /\ NoGrantNoEffect /\ OneGrant)'
<1> USE ExecutorConstants
<1>a. PICK a \in Actions : a = Current(w)
  BY CurrentIsAction DEF Acquire, At, ExecInv
<1>1. /\ a = Current(w) /\ Busy(w) /\ step[w] = "none"
      /\ decision[a] = "allow" /\ key_until[a] <= now
  <2>1. key_until[a] \in Nat /\ now \in Nat
    BY DEF ExecInv, TypeOK, OutboxTypeOK
  <2> QED
    BY <1>a, <2>1 DEF Acquire, At, KeyHeld
<1>2. /\ grants' = [grants EXCEPT ![a] = @ + 1]
      /\ key_until' = [key_until EXCEPT ![a] = now + KeyTTL]
      /\ first_grant' = [first_grant EXCEPT ![a] = IF grants[a] = 0 THEN now ELSE @]
      /\ step' = [step EXCEPT ![w] = "acquired"]
      /\ UNCHANGED <<now, status, batch, decision, sent, charged>>
  BY <1>a DEF Acquire, Goto, outboxVars, columns, workerVars
<1>3. /\ now \in Nat /\ key_until \in [Actions -> Nat] /\ grants \in [Actions -> Nat]
      /\ first_grant \in [Actions -> Nat] /\ step \in [Workers -> Steps]
  BY DEF ExecInv, TypeOK, OutboxTypeOK
<1>4. grants'[a] = grants[a] + 1 /\ \A b \in Actions \ {a} : grants'[b] = grants[b]
  BY <1>1, <1>2, <1>3
<1>5. \A v \in Workers, b \in Actions :
         /\ v # w => (InFlight(v, b)' <=> InFlight(v, b)) /\ step'[v] = step[v]
         /\ InFlight(w, b)' => b = a /\ step'[w] = "acquired"
  BY <1>1, <1>2, <1>3 DEF InFlight, Busy, Current
<1>6. KeyRemembers'
  <2>1. ASSUME NEW b \in Actions, b # a
        PROVE  /\ grants'[b] = grants[b] /\ key_until'[b] = key_until[b]
               /\ first_grant'[b] = first_grant[b] /\ decision'[b] = decision[b]
    BY <2>1, <1>1, <1>2, <1>3
  <2>2. /\ first_grant'[a] = (IF grants[a] = 0 THEN now ELSE first_grant[a])
        /\ key_until'[a] = now + KeyTTL /\ decision'[a] = "allow" /\ now' = now
    BY <1>1, <1>2, <1>3
  <2>3. grants[a] > 0 => first_grant[a] + KeyTTL <= now
    BY <1>1, <1>3 DEF ExecInv, KeyRemembers
  <2>4. /\ first_grant'[a] + KeyTTL <= key_until'[a]
        /\ grants'[a] > 1 => first_grant'[a] + KeyTTL <= now'
    BY <1>1, <1>3, <1>4, <2>2, <2>3
  <2> QED
    BY <2>1, <2>2, <2>4 DEF ExecInv, KeyRemembers
<1>7. NoGrantNoEffect'
  BY <1>1, <1>2, <1>3, <1>4, <1>5 DEF ExecInv, NoGrantNoEffect
<1>8. OneGrant'
  <2>1. ASSUME NEW b \in Actions, b # a
        PROVE  \A v \in Workers : InFlight(v, b)' => InFlight(v, b) /\ step'[v] = step[v]
    BY <2>1, <1>5
  <2>2. ASSUME grants'[a] <= 1
        PROVE  /\ sent[a] = 0 /\ charged[a] = 0
               /\ \A v \in Workers : InFlight(v, a)' => v = w
    <3>1. grants[a] = 0
      BY <2>2, <1>1, <1>3, <1>4
    <3> QED
      BY <3>1, <1>1, <1>5 DEF ExecInv, NoGrantNoEffect
  <2>3. grants'[a] <= 1 => status[a] # "failed"
    <3>1. \A b \in Actions : grants[b] = 0 => status[b] # "failed"
      BY DEF ExecInv, NoGrantNoEffect
    <3> QED
      BY <3>1, <1>1, <1>3, <1>4
  <2> QED
    BY <1>1, <1>2, <1>4, <1>5, <2>1, <2>2, <2>3 DEF ExecInv, OneGrant
<1> QED
  BY <1>6, <1>7, <1>8

\* The channel is called: once, as long as there was one key only.
LEMMA CallKeepsAccount ==
    ASSUME ExecInv, NEW w \in Workers, CallChannel(w)
    PROVE  (KeyRemembers /\ NoGrantNoEffect /\ OneGrant)'
<1>a. PICK a \in Actions : a = Current(w)
  BY CurrentIsAction DEF CallChannel, At, ExecInv
<1>1. InFlight(w, a) /\ step[w] = "acquired"
  BY <1>a DEF CallChannel, At, InFlight
<1>2. /\ UNCHANGED <<now, status, batch, decision, key_until, charged, grants, first_grant>>
      /\ \/ sent' = [sent EXCEPT ![a] = @ + 1] /\ step' = [step EXCEPT ![w] = "returned"]
         \/ sent' = [sent EXCEPT ![a] = @ + 1] /\ step' = [step EXCEPT ![w] = "raised"]
         \/ sent' = sent /\ step' = [step EXCEPT ![w] = "raised"]
  BY <1>a DEF CallChannel, Goto, outboxVars, columns, workerVars
<1>3. /\ grants \in [Actions -> Nat] /\ sent \in [Actions -> Nat]
      /\ step \in [Workers -> Steps]
  BY DEF ExecInv, TypeOK
<1>4. \A v \in Workers, b \in Actions :
         /\ InFlight(v, b)' <=> InFlight(v, b)
         /\ v # w => step'[v] = step[v]
  BY <1>1, <1>2, <1>3 DEF InFlight, Busy, Current
<1>5. KeyRemembers'
  BY <1>2 DEF ExecInv, KeyRemembers
<1>6. grants[a] # 0
  BY <1>1 DEF ExecInv, NoGrantNoEffect
<1>7. NoGrantNoEffect'
  BY <1>2, <1>3, <1>4, <1>6 DEF ExecInv, NoGrantNoEffect
<1>8. OneGrant'
  <2>1. ASSUME NEW b \in Actions, b # a, grants[b] <= 1
        PROVE  /\ sent'[b] = sent[b]
               /\ \A v \in Workers : InFlight(v, b)' => InFlight(v, b) /\ step'[v] = step[v]
    <3>1. ~InFlight(w, b)
      BY <2>1, <1>1 DEF InFlight
    <3> QED
      BY <3>1, <2>1, <1>2, <1>3, <1>4
  <2>2. ASSUME grants[a] <= 1
        PROVE  /\ charged[a] = 0 /\ sent'[a] \in {0, 1} /\ status[a] # "failed"
               /\ \A v \in Workers : InFlight(v, a)' => v = w
               /\ step'[w] # "acquired"
               /\ step'[w] = "returned" => sent'[a] = 1
    <3>1. sent[a] = 0 /\ charged[a] = 0 /\ status[a] # "failed"
          /\ \A v \in Workers : InFlight(v, a) => v = w
      BY <2>2, <1>1 DEF ExecInv, OneGrant
    <3> QED
      BY <3>1, <1>2, <1>3, <1>4
  <2> QED
    BY <1>2, <1>4, <2>1, <2>2 DEF ExecInv, OneGrant
<1> QED
  BY <1>5, <1>7, <1>8

\* The outcome is recorded, and the worker is through with the action.
LEMMA RecordKeepsAccount ==
    ASSUME ExecInv, TypeOK', NEW w \in Workers, RecordExecution(w) \/ RecordFailure(w)
    PROVE  (KeyRemembers /\ NoGrantNoEffect /\ OneGrant)'
<1>a. PICK a \in Actions : a = Current(w)
  BY CurrentIsAction DEF RecordExecution, RecordFailure, At, ExecInv
<1>1. InFlight(w, a)
  BY <1>a DEF RecordExecution, RecordFailure, At, InFlight
<1>2. /\ UNCHANGED <<now, decision, key_until, sent, grants, first_grant>>
      /\ step' = [step EXCEPT ![w] = "none"]
      /\ \A v \in Workers \ {w} : batch'[v] = batch[v]
      /\ \A b \in Actions \ {a} : status'[b] = status[b]
  <2>1. Report(w, "done") \/ Report(w, "failed")
    BY DEF RecordExecution, RecordFailure
  <2>2. status \in [Actions -> Statuses] /\ batch \in [Workers -> Seq(Actions)]
    BY DEF ExecInv, TypeOK, OutboxTypeOK
  <2>3. /\ now' = now /\ \A v \in Workers \ {w} : batch'[v] = batch[v]
        /\ \A b \in Actions \ {a} : status'[b] = status[b]
    BY <2>1, <2>2, <1>a DEF Report, Complete, DropCurrent
  <2> QED
    BY <2>3 DEF RecordExecution, RecordFailure, Goto
<1>3. \/ /\ charged' = [charged EXCEPT ![a] = @ + 1]
         /\ step[w] = "returned"
         /\ status'[a] = "failed" => status[a] = "failed"
      \/ charged' = charged
  <2>1. CASE RecordExecution(w)
    BY <2>1, <1>a DEF RecordExecution, Report, Complete, At, ExecInv, TypeOK, OutboxTypeOK
  <2>2. CASE RecordFailure(w)
    BY <2>2 DEF RecordFailure
  <2> QED
    BY <2>1, <2>2
<1>4. /\ grants \in [Actions -> Nat] /\ charged \in [Actions -> Nat]
      /\ step \in [Workers -> Steps]
  BY DEF ExecInv, TypeOK
<1>5. \A v \in Workers, b \in Actions :
         InFlight(v, b)' => v # w /\ InFlight(v, b) /\ step'[v] = step[v]
  BY <1>2, <1>4 DEF InFlight, Busy, Current
<1>6. KeyRemembers'
  BY <1>2 DEF ExecInv, KeyRemembers
<1>7. grants[a] # 0
  BY <1>1 DEF ExecInv, NoGrantNoEffect
<1>8. NoGrantNoEffect'
  BY <1>2, <1>3, <1>4, <1>5, <1>7 DEF ExecInv, NoGrantNoEffect
<1>9. OneGrant'
  <2>1. ASSUME NEW b \in Actions, b # a
        PROVE  charged'[b] = charged[b] /\ status'[b] = status[b]
    BY <2>1, <1>2, <1>3, <1>4
  <2>2. ASSUME grants[a] <= 1
        PROVE  /\ charged'[a] <= sent[a] /\ sent[a] <= 1
               /\ status'[a] = "failed" => charged'[a] = 0
               /\ \A v \in Workers : ~InFlight(v, a)'
    <3>1. /\ charged[a] = 0 /\ sent[a] <= 1 /\ status[a] # "failed"
          /\ charged[a] <= sent[a]
          /\ step[w] = "returned" => sent[a] = 1
          /\ \A v \in Workers : InFlight(v, a) => v = w
      BY <2>2, <1>1 DEF ExecInv, OneGrant
    <3> QED
      BY <3>1, <1>3, <1>4, <1>5
  <2> QED
    BY <1>2, <1>5, <2>1, <2>2 DEF ExecInv, OneGrant
<1> QED
  BY <1>6, <1>8, <1>9

\* What each of the other steps leaves alone.
LEMMA StepKeepsAccount ==
    ExecInv /\ TypeOK' /\ [Next]_vars => (KeyRemembers /\ NoGrantNoEffect /\ OneGrant)'
<1> SUFFICES ASSUME ExecInv, TypeOK', [Next]_vars
             PROVE  (KeyRemembers /\ NoGrantNoEffect /\ OneGrant)'
  OBVIOUS
<1>typed. /\ now \in Nat
          /\ status \in [Actions -> Statuses]
          /\ batch \in [Workers -> Seq(Actions)]
          /\ step \in [Workers -> Steps]
          /\ decision \in [Actions -> Verdicts \cup {"none"}]
  BY DEF ExecInv, TypeOK, OutboxTypeOK
<1>1. CASE Surroundings \/ UNCHANGED vars
  <2> DEFINE NothingFails ==
          /\ UNCHANGED <<batch, execVars>> /\ now <= now'
          /\ \A a \in Actions : status'[a] = "failed" => status[a] = "failed"
  <2>1. ASSUME Advance, UNCHANGED execVars
        PROVE  NothingFails
    BY <2>1, <1>typed DEF Advance, columns, workerVars
  <2>2. ASSUME NEW c \in Cases, Cancel(c), UNCHANGED execVars
        PROVE  NothingFails
    BY <2>2, <1>typed DEF Cancel, CancelPendingAndClaimed, workerVars
  <2>3. ASSUME NEW c \in Cases, NEW until \in DeferTimes, Defer(c, until),
               UNCHANGED execVars
        PROVE  NothingFails
    BY <2>3, <1>typed DEF Defer, DeferPendingAndClaimed, Unclaim, workerVars
  <2>4. ASSUME UNCHANGED vars
        PROVE  NothingFails
    BY <2>4, <1>typed DEF vars, outboxVars, columns, workerVars
  <2>5. NothingFails
    BY <1>1, <2>1, <2>2, <2>3, <2>4 DEF Surroundings
  <2> QED
    BY <2>5, UntouchedAccount DEF execVars
<1>2. ASSUME NEW w \in Workers, NEW locked \in SUBSET Actions, Tick(w, locked)
      PROVE  (KeyRemembers /\ NoGrantNoEffect /\ OneGrant)'
  <2>1. step[w] = "none"
    BY <1>2, <1>typed
       DEF Tick, ReclaimExpiredClaims, ClaimDueBatch, ExecInv, IdleWhileTicking, Steps
  <2>2. /\ \A v \in Workers \ {w} : batch'[v] = batch[v]
        /\ \A a \in Actions : status'[a] = "failed" => status[a] = "failed"
        /\ now' = now
    <3>1. CASE ReclaimExpiredClaims(w, locked)
      BY <3>1, <1>typed DEF ReclaimExpiredClaims, Unclaim
    <3>2. CASE ClaimDueBatch(w, locked)
      BY <3>2, <1>typed DEF ClaimDueBatch
    <3> QED
      BY <1>2, <3>1, <3>2 DEF Tick
  <2>3. UNCHANGED execVars
    BY <1>2 DEF Tick
  <2> QED
    BY <1>typed, <2>1, <2>2, <2>3, UntouchedAccount DEF execVars
<1>3. ASSUME NEW w \in Workers, Refuse(w) \/ Suppress(w) \/ RejectExecution(w) \/ Die(w)
      PROVE  (KeyRemembers /\ NoGrantNoEffect /\ OneGrant)'
  <2>1. UNCHANGED <<now, decision, key_until, grants, first_grant, sent, charged>>
    BY <1>3 DEF Refuse, Suppress, RejectExecution, Die, Abandon, Report, DropCurrent, Crash,
                execVars
  <2>2. /\ step' = [step EXCEPT ![w] = "none"]
        /\ \A v \in Workers \ {w} : batch'[v] = batch[v]
    BY <1>3, <1>typed DEF Refuse, Suppress, RejectExecution, Die, At, Goto, Abandon, Report,
                          DropCurrent, Crash, execVars
  <2>3. \A a \in Actions : status'[a] = "failed" => status[a] = "failed"
    <3>1. CASE Suppress(w)
      BY <3>1, <1>typed DEF Suppress, Report, Complete
    <3>2. CASE Refuse(w) \/ RejectExecution(w) \/ Die(w)
      BY <3>2 DEF Refuse, RejectExecution, Die, Abandon, Crash, columns
    <3> QED
      BY <1>3, <3>1, <3>2
  <2> QED
    BY <1>typed, <2>1, <2>2, <2>3, UntouchedAccount
<1>4. ASSUME NEW a \in Actions, NEW verdict \in Verdicts, Decide(a, verdict)
      PROVE  (KeyRemembers /\ NoGrantNoEffect /\ OneGrant)'
  <2>1. /\ UNCHANGED <<outboxVars, key_until, step, sent, charged, grants, first_grant>>
        /\ \A b \in Actions : decision[b] = "allow" => decision'[b] = "allow"
    BY <1>4, <1>typed DEF Decide
  <2> QED
    BY <1>typed, <2>1, UntouchedAccount DEF outboxVars, columns, workerVars
<1> QED
  BY <1>1, <1>2, <1>3, <1>4, AcquireKeepsAccount, CallKeepsAccount, RecordKeepsAccount
     DEF Next, Execute

\* The inductive invariant of the executor: what a worker inside execute() has done
\* to its row so far, against the key, the calls and the charges.
THEOREM ExecutorInvariance == Spec => []ExecInv
<1>1. ExecInv /\ [Next]_vars => ExecInv'
  BY StepKeepsIInv, ExecStepTyped, StepKeepsIdle, StepKeepsAccount DEF ExecInv
<1> QED
  BY InitExecInv, <1>1, PTL DEF Spec

-----------------------------------------------------------------------------
(* What follows for the channel and the ledger.                            *)

\* TR-22: no channel is called and no cost recorded without a recorded ALLOW.
THEOREM AllowComesFirst == Spec => []AllowedBeforeSent
<1>1. ExecInv => AllowedBeforeSent
  BY DEF ExecInv, TypeOK, KeyRemembers, NoGrantNoEffect, AllowedBeforeSent
<1> QED
  BY <1>1, ExecutorInvariance, PTL

\* TR-57, as far as the code keeps it: no second call before the first
\* idempotency key has run out.
THEOREM ResendNeedsKeyExpiry == Spec => []ResendOnlyAfterKeyExpiry
<1>1. ExecInv => ResendOnlyAfterKeyExpiry
  <2> SUFFICES ASSUME ExecInv, NEW a \in Actions, sent[a] > 1
               PROVE  now >= first_grant[a] + KeyTTL
    BY DEF ResendOnlyAfterKeyExpiry
  <2>1. grants[a] \in Nat /\ sent[a] \in Nat /\ now \in Nat /\ first_grant[a] \in Nat
    BY DEF ExecInv, TypeOK, OutboxTypeOK
  <2>2. grants[a] > 1
    BY <2>1 DEF ExecInv, OneGrant
  <2> QED
    BY <2>1, <2>2, ExecutorConstants DEF ExecInv, KeyRemembers
<1> QED
  BY <1>1, ExecutorInvariance, PTL

\* A failed action was not charged for, as long as its first key lives.
THEOREM FailureIsFree == Spec => []FailureCostsNothing
<1>1. ExecInv => FailureCostsNothing
  <2> SUFFICES ASSUME ExecInv, NEW a \in Actions, status[a] = "failed", charged[a] > 0
               PROVE  now >= first_grant[a] + KeyTTL
    BY DEF FailureCostsNothing
  <2>1. grants[a] \in Nat /\ charged[a] \in Nat /\ now \in Nat /\ first_grant[a] \in Nat
    BY DEF ExecInv, TypeOK, OutboxTypeOK
  <2>2. grants[a] > 1
    BY <2>1 DEF ExecInv, OneGrant
  <2> QED
    BY <2>1, <2>2, ExecutorConstants DEF ExecInv, KeyRemembers
<1> QED
  BY <1>1, ExecutorInvariance, PTL

-----------------------------------------------------------------------------
(* Cost and calls, however many keys were granted.                         *)

\* The workers that called the channel for a and have not recorded it yet.
Returned(a) == {w \in Workers : At(w, "returned") /\ Current(w) = a}

\* Every call is charged for once, or will be, or never.
CallsCovered == \A a \in Actions : Cardinality(Returned(a)) + charged[a] <= sent[a]

\* Cost and calls of one action, when a call is made or recorded or neither.
LEMMA CoverArithmetic ==
    ASSUME NEW S, IsFiniteSet(S), NEW T, NEW w, NEW c \in Nat, NEW n \in Nat,
           Cardinality(S) + c <= n
    PROVE  /\ T \subseteq S => Cardinality(T) + c <= n
           /\ T \subseteq S \cup {w} => Cardinality(T) + c <= n + 1
           /\ w \in S /\ T \subseteq S \ {w} => Cardinality(T) + (c + 1) <= n
<1>1. Cardinality(S) \in Nat
  BY FS_CardinalityType
<1>2. ASSUME T \subseteq S
      PROVE  Cardinality(T) + c <= n
  <2>1. Cardinality(T) \in Nat /\ Cardinality(T) <= Cardinality(S)
    BY <1>2, FS_Subset, FS_CardinalityType
  <2> QED
    BY <1>1, <2>1
<1>3. ASSUME T \subseteq S \cup {w}
      PROVE  Cardinality(T) + c <= n + 1
  <2>1. IsFiniteSet(S \cup {w}) /\ Cardinality(S \cup {w}) <= Cardinality(S) + 1
    <3>1. CASE w \in S
      <4>1. S \cup {w} = S
        BY <3>1
      <4> QED
        BY <1>1, <4>1
    <3>2. CASE w \notin S
      <4>1. IsFiniteSet(S \cup {w}) /\ Cardinality(S \cup {w}) = Cardinality(S) + 1
        BY <3>2, FS_AddElement
      <4> QED
        BY <1>1, <4>1
    <3> QED
      BY <3>1, <3>2
  <2>2. /\ Cardinality(T) \in Nat /\ Cardinality(S \cup {w}) \in Nat
        /\ Cardinality(T) <= Cardinality(S \cup {w})
    BY <1>3, <2>1, FS_Subset, FS_CardinalityType
  <2> QED
    BY <1>1, <2>1, <2>2
<1>4. ASSUME w \in S, T \subseteq S \ {w}
      PROVE  Cardinality(T) + (c + 1) <= n
  <2>1. IsFiniteSet(S \ {w}) /\ Cardinality(S \ {w}) = Cardinality(S) - 1
    BY <1>4, FS_RemoveElement
  <2>2. /\ Cardinality(T) \in Nat /\ Cardinality(S \ {w}) \in Nat
        /\ Cardinality(T) <= Cardinality(S \ {w})
    BY <1>4, <2>1, FS_Subset, FS_CardinalityType
  <2> QED
    BY <1>1, <2>1, <2>2
<1> QED
  BY <1>2, <1>3, <1>4

\* Charges stay covered by calls when a worker records, fails, is suppressed or dies.
LEMMA StepKeepsCover == ExecInv /\ CallsCovered /\ [Next]_vars => CallsCovered'
<1> SUFFICES ASSUME ExecInv, CallsCovered, [Next]_vars, NEW a \in Actions
             PROVE  Cardinality(Returned(a)') + charged'[a] <= sent'[a]
  BY DEF CallsCovered
<1>typed. /\ charged \in [Actions -> Nat] /\ sent \in [Actions -> Nat]
          /\ batch \in [Workers -> Seq(Actions)] /\ step \in [Workers -> Steps]
  BY DEF ExecInv, TypeOK, OutboxTypeOK
<1>S. /\ IsFiniteSet(Returned(a)) /\ charged[a] \in Nat /\ sent[a] \in Nat
      /\ Cardinality(Returned(a)) + charged[a] <= sent[a]
  BY <1>typed, OutboxConstants, FS_Subset DEF Returned, CallsCovered
<1>1. ASSUME UNCHANGED <<charged, sent>>, Returned(a)' \subseteq Returned(a)
      PROVE  Cardinality(Returned(a)') + charged'[a] <= sent'[a]
  BY <1>1, <1>S, CoverArithmetic
<1>2. ASSUME NEW w \in Workers, CallChannel(w)
      PROVE  Cardinality(Returned(a)') + charged'[a] <= sent'[a]
  <2>1. UNCHANGED <<batch, charged>> /\ \A v \in Workers \ {w} : step'[v] = step[v]
    BY <1>2, <1>typed DEF CallChannel, Goto, outboxVars, workerVars
  <2>2. CASE step'[w] = "returned" /\ Current(w) = a
    <3>1. Returned(a)' \subseteq Returned(a) \cup {w}
      BY <2>1 DEF Returned, At, Busy, Current
    <3>2. sent'[a] = sent[a] + 1
      BY <1>2, <2>2, <1>typed DEF CallChannel, Goto, Steps
    <3> QED
      BY <2>1, <3>1, <3>2, <1>S, CoverArithmetic
  <2>3. CASE ~(step'[w] = "returned" /\ Current(w) = a)
    <3>1. Returned(a)' \subseteq Returned(a)
      BY <2>1, <2>3 DEF Returned, At, Busy, Current
    <3>2. sent'[a] = sent[a] \/ sent'[a] = sent[a] + 1
      BY <1>2, <1>typed DEF CallChannel
    <3>3. Cardinality(Returned(a)') + charged[a] <= sent[a]
      BY <3>1, <1>S, CoverArithmetic
    <3>4. Cardinality(Returned(a)') \in Nat
      BY <3>1, <1>S, FS_Subset, FS_CardinalityType
    <3> QED
      BY <2>1, <3>2, <3>3, <3>4, <1>S
  <2> QED
    BY <2>2, <2>3
<1>3. ASSUME NEW w \in Workers, RecordExecution(w)
      PROVE  Cardinality(Returned(a)') + charged'[a] <= sent'[a]
  <2>1. /\ sent' = sent /\ charged' = [charged EXCEPT ![Current(w)] = @ + 1]
        /\ step' = [step EXCEPT ![w] = "none"]
        /\ \A v \in Workers \ {w} : batch'[v] = batch[v]
        /\ At(w, "returned")
    BY <1>3, <1>typed DEF RecordExecution, Report, DropCurrent, Goto
  <2>2. Returned(a)' \subseteq Returned(a) \ {w}
    BY <2>1, <1>typed DEF Returned, At, Busy, Current
  <2>3. CASE Current(w) = a
    <3>1. w \in Returned(a)
      BY <2>1, <2>3 DEF Returned
    <3>2. charged'[a] = charged[a] + 1 /\ sent'[a] = sent[a]
      BY <2>1, <2>3, <1>typed
    <3> QED
      BY <2>2, <3>1, <3>2, <1>S, CoverArithmetic
  <2>4. CASE Current(w) # a
    <3>1. charged'[a] = charged[a]
      BY <2>1, <2>4, <1>typed
    <3> QED
      BY <2>1, <2>2, <3>1, <1>S, CoverArithmetic
  <2> QED
    BY <2>3, <2>4
<1>4. ASSUME UNCHANGED <<batch, step, charged, sent>>
      PROVE  Cardinality(Returned(a)') + charged'[a] <= sent'[a]
  <2>1. Returned(a)' \subseteq Returned(a)
    BY <1>4 DEF Returned, At, Busy, Current
  <2> QED
    BY <1>1, <1>4, <2>1
<1>5. ASSUME NEW w \in Workers, UNCHANGED <<charged, sent>>, step'[w] # "returned",
             \A v \in Workers \ {w} : step'[v] = step[v] /\ batch'[v] = batch[v]
      PROVE  Cardinality(Returned(a)') + charged'[a] <= sent'[a]
  <2>1. Returned(a)' \subseteq Returned(a)
    BY <1>5 DEF Returned, At, Busy, Current
  <2> QED
    BY <1>1, <1>5, <2>1
<1>6. ASSUME NEW w \in Workers, NEW locked \in SUBSET Actions, Tick(w, locked)
      PROVE  Cardinality(Returned(a)') + charged'[a] <= sent'[a]
  <2>1. step' = step /\ step[w] = "none" /\ UNCHANGED <<charged, sent>>
    BY <1>6, <1>typed
       DEF Tick, execVars, ReclaimExpiredClaims, ClaimDueBatch, ExecInv, IdleWhileTicking, Steps
  <2>2. \A v \in Workers \ {w} : batch'[v] = batch[v]
    BY <1>6, <1>typed DEF Tick, ReclaimExpiredClaims, ClaimDueBatch
  <2> QED
    BY <2>1, <2>2, <1>5
<1>7. ASSUME NEW w \in Workers,
             \/ Refuse(w) \/ Acquire(w) \/ Suppress(w)
             \/ RejectExecution(w) \/ RecordFailure(w) \/ Die(w)
      PROVE  Cardinality(Returned(a)') + charged'[a] <= sent'[a]
  <2>1. UNCHANGED <<charged, sent>>
    BY <1>7 DEF Refuse, Acquire, Suppress, RejectExecution, RecordFailure, Die, execVars
  <2>2. step'[w] # "returned" /\ \A v \in Workers \ {w} : step'[v] = step[v]
    BY <1>7, <1>typed DEF Refuse, Acquire, Suppress, RejectExecution, RecordFailure, Die,
                          At, Goto, execVars, Steps
  <2>3. \A v \in Workers \ {w} : batch'[v] = batch[v]
    BY <1>7, <1>typed DEF Refuse, Acquire, Suppress, RejectExecution, RecordFailure, Die,
                          Abandon, Report, DropCurrent, Crash, outboxVars, workerVars
  <2> QED
    BY <2>1, <2>2, <2>3, <1>5
<1>8. ASSUME \/ Surroundings \/ UNCHANGED vars
             \/ \E b \in Actions, verdict \in Verdicts : Decide(b, verdict)
      PROVE  UNCHANGED <<batch, step, charged, sent>>
  BY <1>8 DEF Surroundings, Advance, Cancel, Defer, Decide, execVars, outboxVars, workerVars,
              vars
<1> QED
  BY <1>2, <1>3, <1>4, <1>6, <1>7, <1>8 DEF Next, Execute

\* TR-27: no cost without a call, no call charged for twice.
THEOREM CostNeedsCall == Spec => []CostFollowsCall
<1>1. Init => CallsCovered
  <2> SUFFICES ASSUME Init, NEW a \in Actions
               PROVE  Cardinality(Returned(a)) + charged[a] <= sent[a]
    BY DEF CallsCovered
  <2>1. Returned(a) = {}
    BY DEF Init, Returned, At
  <2> QED
    BY <2>1, FS_EmptySet DEF Init
<1>2. ExecInv /\ CallsCovered => CostFollowsCall
  <2> SUFFICES ASSUME ExecInv, CallsCovered, NEW a \in Actions
               PROVE  charged[a] <= sent[a]
    BY DEF CostFollowsCall
  <2>1. charged[a] \in Nat /\ sent[a] \in Nat
    BY DEF ExecInv, TypeOK
  <2>2. IsFiniteSet(Returned(a))
    BY OutboxConstants, FS_Subset DEF Returned
  <2>3. Cardinality(Returned(a)) \in Nat
    BY <2>2, FS_CardinalityType
  <2> QED
    BY <2>1, <2>3 DEF CallsCovered
<1> QED
  BY <1>1, <1>2, StepKeepsCover, ExecutorInvariance, PTL DEF Spec

-----------------------------------------------------------------------------
(* Within the life of a key the executor implements SideEffect.            *)

\* The clock stays within the bound of the model.
LEMMA ClockBounded == Spec => [](now \in Nat /\ now <= MaxTime)
<1>1. Init => now \in Nat /\ now <= MaxTime
  BY OutboxConstants DEF Init, OutboxInit
<1>2. now \in Nat /\ now <= MaxTime /\ [OutboxNext]_outboxVars
      => (now \in Nat /\ now <= MaxTime)'
  <2> SUFFICES ASSUME now \in Nat, now <= MaxTime, [OutboxNext]_outboxVars
               PROVE  (now \in Nat /\ now <= MaxTime)'
    OBVIOUS
  <2>1. CASE Advance
    BY <2>1, OutboxConstants DEF Advance
  <2>2. CASE ~Advance
    BY <2>2 DEF OutboxNext, LetsGo, ReclaimExpiredClaims, ClaimDueBatch, Report, Abandon,
                DropCurrent, Crash, Cancel, Defer, outboxVars
  <2> QED
    BY <2>1, <2>2
<1> QED
  BY <1>1, <1>2, ExecutorImplementsOutbox, PTL DEF Spec, OutboxSpec

\* A key that outlives the run is granted once.
LEMMA GrantedOnce ==
    ASSUME MaxTime < KeyTTL, ExecInv, now <= MaxTime
    PROVE  \A a \in Actions : grants[a] <= 1
<1> SUFFICES ASSUME NEW a \in Actions, ~(grants[a] <= 1)
             PROVE  FALSE
  OBVIOUS
<1>1. /\ grants[a] \in Nat /\ first_grant[a] \in Nat /\ now \in Nat
      /\ KeyTTL \in Nat /\ MaxTime \in Nat
  BY ExecutorConstants, OutboxConstants DEF ExecInv, TypeOK, OutboxTypeOK
<1>2. first_grant[a] + KeyTTL <= now
  BY <1>1 DEF ExecInv, KeyRemembers
<1> QED
  BY <1>1, <1>2

\* TR-23, TR-27, TR-57 as one refinement: for any plan, workers and crashes, as
\* long as no key runs out, each action is called at most once and charged for
\* at most once, and only after its call.
THEOREM OneSideEffect ==
    ASSUME MaxTime < KeyTTL
    PROVE  Spec => AtMostOneSideEffect
<1>1. Init => Abstract!Init
  BY DEF Init, Abstract!Init
<1>2. ASSUME ExecInv, now \in Nat, now <= MaxTime, [Next]_vars
      PROVE  [Abstract!Next]_<<sent, charged>>
  <2>1. \A a \in Actions : grants[a] <= 1
    BY <1>2, GrantedOnce
  <2>2. ASSUME NEW w \in Workers, CallChannel(w)
        PROVE  [Abstract!Next]_<<sent, charged>>
    <3>1. PICK a \in Actions : a = Current(w)
      BY <1>2, <2>2, CurrentIsAction DEF CallChannel, At, ExecInv
    <3>2. sent[a] = 0
      BY <1>2, <2>1, <2>2, <3>1 DEF ExecInv, OneGrant, InFlight, CallChannel, At
    <3>3. sent \in [Actions -> Nat]
      BY <1>2 DEF ExecInv, TypeOK
    <3>4. charged' = charged /\ (sent' = sent \/ sent' = [sent EXCEPT ![a] = @ + 1])
      BY <2>2, <3>1 DEF CallChannel
    <3>5. sent' = sent \/ sent' = [sent EXCEPT ![a] = 1]
      BY <3>2, <3>3, <3>4
    <3> QED
      BY <3>2, <3>4, <3>5 DEF Abstract!Next, Abstract!Call
  <2>3. ASSUME NEW w \in Workers, RecordExecution(w)
        PROVE  Abstract!Next
    <3>1. PICK a \in Actions : a = Current(w)
      BY <1>2, <2>3, CurrentIsAction DEF RecordExecution, At, ExecInv
    <3>2. sent[a] = 1 /\ charged[a] = 0
      BY <1>2, <2>1, <2>3, <3>1 DEF ExecInv, OneGrant, InFlight, RecordExecution, At
    <3>3. charged \in [Actions -> Nat]
      BY <1>2 DEF ExecInv, TypeOK
    <3>4. sent' = sent /\ charged' = [charged EXCEPT ![a] = @ + 1]
      BY <2>3, <3>1 DEF RecordExecution
    <3>5. charged' = [charged EXCEPT ![a] = 1]
      BY <3>2, <3>3, <3>4
    <3> QED
      BY <3>2, <3>4, <3>5 DEF Abstract!Next, Abstract!Charge
  <2>4. ASSUME \/ Surroundings \/ UNCHANGED vars
               \/ \E a \in Actions, verdict \in Verdicts : Decide(a, verdict)
               \/ \E w \in Workers :
                    \/ \E locked \in SUBSET Actions : Tick(w, locked)
                    \/ Refuse(w) \/ Acquire(w) \/ Suppress(w)
                    \/ RejectExecution(w) \/ RecordFailure(w) \/ Die(w)
        PROVE  UNCHANGED <<sent, charged>>
    BY <2>4 DEF Surroundings, Decide, Tick, Refuse, Acquire, Suppress, RejectExecution,
                RecordFailure, Die, execVars, vars
  <2> QED
    BY <1>2, <2>2, <2>3, <2>4 DEF Next, Execute
<1> QED
  BY <1>1, <1>2, ExecutorInvariance, ClockBounded, PTL DEF Spec, AtMostOneSideEffect, Abstract!Spec
=============================================================================
