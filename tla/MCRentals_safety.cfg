SPECIFICATION Spec
CONSTANTS
  Users = {u1, u2}
  Scooters = {s1, s2}
  Rentals = {r1, r2}
  Requests = {q1, q2, q3}
  None = None
  AdminEdits = FALSE
  Faults = TRUE
SYMMETRY Symmetry
INVARIANTS ActiveHoldsScooter RentedIsExplained WaitsAreShort
PROPERTIES ImplementsMarket KeepsContract
