----------------------------- MODULE Simulator -----------------------------
(***************************************************************************)
(* The gateway of a benchmark run (gateway/simulator/simulator.py): an     *)
(* object in the memory of one process, gone with it, whose every roll is  *)
(* a hash of the seed and of what is attempted (world.py).                 *)
(*                                                                         *)
(* Instrument and issuer belong to the customer and the attempt is always  *)
(* the first: customer and instant are what tells two rolls apart.  The    *)
(* number of a payment makes its id, pay_<seed>_<number>.                  *)
(***************************************************************************)
EXTENDS Naturals

CONSTANTS
    Retryable     \* the decline categories a retry is permitted for

VARIABLES
    world,        \* the rolls that succeed, of any seed
    sim           \* the simulator of the current process

NewSimulator(seed) == [seed |-> seed, next_id |-> 0, payments |-> <<>>]

PaymentId(n) == <<sim.seed, n>>

\* Mutation of AttemptOutcome: a generator that moves on with every call.
OutcomeByCall(customer, at) == sim.next_id % 2 = 0

AttemptOutcome(customer, at) == <<sim.seed, customer, at>> \in world

Recorded(n, payment) ==
    [m \in DOMAIN sim.payments \cup {n} |-> IF m = n THEN payment ELSE sim.payments[m]]

\* A payment that failed for a given reason; it takes a number for itself and one for
\* its order.
SeedFailedPayment(customer, amount, decline, at) ==
    LET n == sim.next_id + 1
    IN  [sim EXCEPT !.next_id = n + 1,
                    !.payments = Recorded(n, [order |-> n + 1, customer |-> customer,
                                              amount |-> amount, status |-> "failed",
                                              error_reason |-> decline, created_at |-> at])]

\* retry_payment raises unless the original failed for a retryable reason.  It stays
\* as it is, whatever came of the retries before.
CanRetry(n) == sim.payments[n].status = "failed" /\ sim.payments[n].error_reason \in Retryable

\* A new payment of the same order and amount, captured or failed.
RetryPayment(n, at) ==
    LET original == sim.payments[n]
        captured == AttemptOutcome(original.customer, at)
        m == sim.next_id + 1
    IN  [sim EXCEPT !.next_id = m,
                    !.payments = Recorded(m, [original EXCEPT
                                    !.status = IF captured THEN "captured" ELSE "failed",
                                    !.error_reason = IF captured THEN "" ELSE "rolled",
                                    !.created_at = at])]

\* A link is nothing but two numbers here: no customer follows it.
CreatePaymentLink == [sim EXCEPT !.next_id = @ + 2]

\* What the gateway captured of an order.
Captures(order) ==
    {n \in DOMAIN sim.payments :
        sim.payments[n].order = order /\ sim.payments[n].status = "captured"}
=============================================================================
