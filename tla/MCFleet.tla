------------------------------ MODULE MCFleet ------------------------------
(* Constants of Fleet for TLC: two places five metres apart. *)
EXTENDS Fleet

CONSTANTS p1, p2

TwoPlaces == {p1, p2}
Metres == [pq \in TwoPlaces \X TwoPlaces |-> IF pq[1] = pq[2] THEN 0 ELSE 5]
SomeRadii == {0, 1, 5, 13}
SomeTypes == {"no_park"}
ClientLimits == {0, 7}
=============================================================================
