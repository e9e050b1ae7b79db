------------------------------ MODULE MCIntake ------------------------------
(* Three runs of detection over the events of two customers.               *)
EXTENDS Intake, TLC

CONSTANTS d1, d2, d3, e1, e2, e3, e4, u1, u2

MCDetectors == {d1, d2, d3}
MCEvents == {e1, e2, e3, e4}
MCCustomers == {u1, u2}

\* e1 and e2 fall under one index entry; u2 has a leak, e3, and a debit that went
\* through, e4, which is none and may bring its customer in first.
MCCustomerOf == e1 :> u1 @@ e2 :> u1 @@ e3 :> u2 @@ e4 :> u2
MCType == e1 :> "payment.failed" @@ e2 :> "subscription.charged"
          @@ e3 :> "subscription.halted" @@ e4 :> "subscription.charged"
MCFailed == {e1, e2}
MCAmount == e1 :> 1 @@ e2 :> 1 @@ e3 :> 1 @@ e4 :> 1

DetectorSymmetry == Permutations(MCDetectors)
=============================================================================
