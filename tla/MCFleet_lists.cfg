SPECIFICATION Spec
CONSTANTS
  p1 = p1
  p2 = p2
  Zones = {z1, z2}
  Scooters = {s1, s2}
  Logs = {l1}
  Rides = {r1}
  Places <- TwoPlaces
  Distance <- Metres
  Radii <- SomeRadii
  Types <- SomeTypes
  Half = 8
  MaxPageLimit = 1
  DefaultPageLimit = 1
  ZonesAsked = 10
  Limits <- ClientLimits
  Nil = Nil
  Absent = Absent
  Junk = Junk
  Odd = Odd
  MaxWrites = 3
INVARIANTS
  PageWalkSeesAll
PROPERTIES
  NoParkEnforced
CHECK_DEADLOCK FALSE
