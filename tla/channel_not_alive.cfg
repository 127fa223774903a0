SPECIFICATION ManagerSpec
CONSTANTS
  Callers = {a1, a2}
  Lifespan = lifespan
  MaxRetries = 2
  MaxLosses = 2
PROPERTY EnsuresLiveChannel
CHECK_DEADLOCK FALSE
