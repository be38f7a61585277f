SPECIFICATION Spec
CONSTANTS
  Exchanges = {x1}
  Consumers = {c1, c2}
  Conns = {k1, k2, k3, k4}
  None = None
SYMMETRY Symmetry
INVARIANTS LoopOutlivesLosses
CHECK_DEADLOCK FALSE
