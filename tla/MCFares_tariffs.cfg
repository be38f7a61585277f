SPECIFICATION Spec
CONSTANTS
  PriceModels = {m1, m2}
  Rides = {r1}
  Amounts <- SomeAmounts
  Unit = 2
  Minute = 2
  MinRate = 1
  MaxRate = 3
  UsualRate = 2
  MaxFee = 2
  RateLimit = 100
  MoneyLimit = 11
  Nil = Nil
  Absent = Absent
  Junk = Junk
  MaxTime = 3
  MaxEdits = 2
INVARIANTS
  RidesPriced
  BandUnlessForced
PROPERTIES ImplementsRideLife
CHECK_DEADLOCK FALSE
