SPECIFICATION Spec
CONSTANTS
  Rides = {r1}
  Approvals = {a1}
  Keys = {k1}
  NoKey = NoKey
  None = None
  Faults = FALSE
INVARIANTS WebhookReconciles
CHECK_DEADLOCK FALSE
