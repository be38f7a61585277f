\* Administrators edit scooters while riders race, requests may fail.
SPECIFICATION Spec
CONSTANTS
  Users = {u1, u2}
  Scooters = {s1, s2}
  Rentals = {r1, r2}
  Requests = {q1, q2}
  None = None
  AdminEdits = TRUE
  Faults = TRUE
SYMMETRY Symmetry
INVARIANTS TypeOK OneActiveRide ChargedAtMostOnce EventsMatchRows
PROPERTIES ImplementsRideLife
