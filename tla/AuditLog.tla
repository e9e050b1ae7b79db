------------------------------ MODULE AuditLog ------------------------------
(***************************************************************************)
(* What the audit trail promises (DOMAIN-MODEL section 10, invariant I4):  *)
(* per case one chain that only grows, by whole transactions, and a state  *)
(* that changes only together with the one event that tells it.            *)
(***************************************************************************)
EXTENDS Naturals, Sequences

CONSTANTS
    Cases,
    Bodies,       \* what an event may say of its case: a state, or "silent"
    Unborn        \* the state of a case that is not there yet

VARIABLES
    chain,        \* the events of each case, in their order
    state         \* cases.state

Init ==
    /\ chain = [c \in Cases |-> <<>>]
    /\ state = [c \in Cases |-> Unborn]

\* The events a step adds to a chain.
New(old, new) == (Len(old) + 1)..Len(new)

Told(old, new) == {new[i] : i \in New(old, new)} \ {"silent"}

Grows(old, new) ==
    /\ Len(old) <= Len(new)
    /\ \A i \in 1..Len(old) : new[i] = old[i]

\* One transaction: chains grow, and a state is what the new events tell.
Record ==
    /\ chain' \in [Cases -> Seq(Bodies)]
    /\ \A c \in Cases :
        /\ Grows(chain[c], chain'[c])
        /\ Told(chain[c], chain'[c]) = {} => state'[c] = state[c]
        /\ Told(chain[c], chain'[c]) # {} => Told(chain[c], chain'[c]) = {state'[c]}

Spec == Init /\ [][Record]_<<chain, state>>
=============================================================================
