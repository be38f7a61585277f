SPECIFICATION FairSpec
CONSTANTS
  Exchanges = {x1}
  Consumers = {c1, c2}
  Conns = {k1, k2, k3, k4}
  None = None
INVARIANTS AttachedWhenSettled RegistrationsAccounted OneConnection LoopEndsForReason
PROPERTIES Reattaches CloseStopsLoop
CHECK_DEADLOCK FALSE
