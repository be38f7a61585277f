SPECIFICATION FairSpec
CONSTANTS
  Users = {u1}
  Scooters = {s1}
  Rentals = {r1, r2}
  Requests = {q1, q2}
  None = None
  AdminEdits = TRUE
  Faults = FALSE
PROPERTIES RequestsReturn
