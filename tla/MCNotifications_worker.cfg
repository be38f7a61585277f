SPECIFICATION FairSpec
CONSTANTS
  Events = {e1, e2}
  Types = {"rental.completed", "rental.started"}
  Channels = {c1, c2}
  Prefetch = 2
  None = None
INVARIANTS InOnePlace OneMailWithoutFaults
PROPERTIES ImplementsContract EventuallyMailed
CHECK_DEADLOCK FALSE
