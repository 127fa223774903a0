SPECIFICATION ManagerSpec
CONSTANTS
  Callers = {a1, a2}
  Lifespan = lifespan
  MaxRetries = 2
  MaxLosses = 2
INVARIANTS
  ManagerTypeOK
  NoStrayConnection
PROPERTY EveryCallEnds
CHECK_DEADLOCK FALSE
