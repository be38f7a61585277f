------------------------------ MODULE RideLife ------------------------------
(***************************************************************************)
(* What a reader of the table rentals may rely on, however many statements *)
(* of however many requests its writers need: a ride starts once, on terms *)
(* that never change, it ends once, as completed or as cancelled, and what *)
(* its end recorded is never written again.  Rentals implements it with    *)
(* the rider and the scooter as the terms, Fares with the price model, the *)
(* start, the end and the cost.                                            *)
(***************************************************************************)
CONSTANTS Rides,
          Terms, NoTerms,  \* what is agreed at the start
          Bills, NoBill    \* what is recorded at the end

VARIABLES status, terms, bill
vars == <<status, terms, bill>>

Init == /\ status = [r \in Rides |-> "absent"]
        /\ terms = [r \in Rides |-> NoTerms]
        /\ bill = [r \in Rides |-> NoBill]

Move(r, from, to) ==
  /\ status[r] = from
  /\ status' = [status EXCEPT ![r] = to]

Start(r) ==
  /\ Move(r, "absent", "active")
  /\ terms'[r] \in Terms
  /\ terms' = [terms EXCEPT ![r] = terms'[r]]
  /\ UNCHANGED bill

Complete(r) ==
  /\ Move(r, "active", "completed")
  /\ bill'[r] \in Bills
  /\ bill' = [bill EXCEPT ![r] = bill'[r]]
  /\ UNCHANGED terms

Cancel(r) ==
  /\ Move(r, "active", "cancelled")
  /\ UNCHANGED <<terms, bill>>

Next == \E r \in Rides : Start(r) \/ Complete(r) \/ Cancel(r)

Spec == Init /\ [][Next]_vars
=============================================================================
