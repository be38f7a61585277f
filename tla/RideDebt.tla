------------------------------ MODULE RideDebt ------------------------------
(***************************************************************************)
(* What rentals and payments agree on about the debt of a ride.  Rentals   *)
(* relies on it (its EndCharge and Settle are Charge and Settle below);    *)
(* Payments provides it.                                                   *)
(***************************************************************************)
CONSTANT Rides

VARIABLES debt,      \* "open" until the ride ends, then what it still costs
          charged    \* has the one attempt to charge a card been made?
vars == <<debt, charged>>

Init == /\ debt = [r \in Rides |-> "open"]
        /\ charged = [r \in Rides |-> FALSE]

\* The ride ends with a cost or without one; if the rider cannot be loaded
\* nobody will ever try to charge a card for it.
Close(r) ==
  /\ debt[r] = "open"
  /\ \E d \in {"none", "owed"} : debt' = [debt EXCEPT ![r] = d]
  /\ \E c \in BOOLEAN : charged' = [charged EXCEPT ![r] = c]

\* The attempt is made once, after the end.  Its outcome replaces whatever
\* was recorded before it, so that even a ride settled by hand may be owed
\* again.
Charge(r) ==
  /\ debt[r] # "open"
  /\ ~charged[r]
  /\ charged' = [charged EXCEPT ![r] = TRUE]
  /\ \E d \in {"none", "owed", "settled"} :
       /\ (d = "none") <=> (debt[r] = "none")
       /\ debt' = [debt EXCEPT ![r] = d]

\* Money arrives from Stripe, or an administrator approves a payment by hand: a
\* debt only ever goes away.
Settle(r) ==
  /\ debt[r] = "owed"
  /\ debt' = [debt EXCEPT ![r] = "settled"]
  /\ UNCHANGED charged

Next == \E r \in Rides : Close(r) \/ Charge(r) \/ Settle(r)

Spec == Init /\ [][Next]_vars
=============================================================================
