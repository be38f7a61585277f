\* One ride is charged while Stripe's replies are lost, webhooks are duplicated,
\* late and reordered, and two offline approvals race on shared keys.
\* No symmetry: it is not sound for liveness.
SPECIFICATION FairSpec
CONSTANTS
  Rides = {r1}
  Approvals = {a1, a2}
  Keys = {k1, k2}
  NoKey = NoKey
  None = None
  Faults = TRUE
INVARIANTS MoneyHasRow SucceededMeansPaid OneVerdict NoDebtMissed KeyIsIdempotent
PROPERTIES VerdictStays KeepsContract PendingNotForgotten DecisionReachesRow
CHECK_DEADLOCK FALSE
