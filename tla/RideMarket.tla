---------------------------- MODULE RideMarket ----------------------------
(***************************************************************************)
(* What the rental service promises, without requests, rows or locks: each *)
(* scooter is either on offer, ridden by one rider, or off the market.     *)
(* Rides begin and end in one step.                                        *)
(***************************************************************************)
CONSTANTS Users, Scooters, None

VARIABLES rider,    \* who rides each scooter, or None
          offered   \* the scooters a rider can take
vars == <<rider, offered>>

Init == rider = [s \in Scooters |-> None] /\ offered = {}

\* A rider without a ride takes a scooter on offer.
Take(u, s) ==
  /\ s \in offered
  /\ \A t \in Scooters : rider[t] # u
  /\ rider' = [rider EXCEPT ![s] = u]
  /\ offered' = offered \ {s}

\* The ride ends and the scooter is on offer again, both at once.
GiveBack(s) ==
  /\ rider[s] # None
  /\ rider' = [rider EXCEPT ![s] = None]
  /\ offered' = offered \cup {s}

\* A ride is cut off; its scooter stays off the market for now.
CutOff(s) ==
  /\ rider[s] # None
  /\ rider' = [rider EXCEPT ![s] = None]
  /\ UNCHANGED offered

\* A scooter nobody rides comes (back) on offer.
Offer(s) ==
  /\ rider[s] = None
  /\ s \notin offered
  /\ offered' = offered \cup {s}
  /\ UNCHANGED rider

Next == \E s \in Scooters :
          (\E u \in Users : Take(u, s)) \/ GiveBack(s) \/ CutOff(s) \/ Offer(s)

Spec == Init /\ [][Next]_vars
=============================================================================
