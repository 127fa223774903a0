SPECIFICATION Spec
CONSTANTS
  r1 = r1
  r2 = r2
  r3 = r3
  w1 = w1
  w2 = w2
  t1 = t1
  t2 = t2
  NoRequest = NoRequest
  NoText = NoText
  Requests = {r1, r2, r3}
  Workers = {w1}
  Texts = {t1}
  WithCallback = {}
  Disruptive = {"broker_stop", "broker_crash", "publish_fails", "stall"}
  MaxDisruptions = 2
CONSTRAINT Scope
SYMMETRY RequestSymmetry
INVARIANTS
  DispatchedOnce
  NothingVanishes
  ExitEmptiesMemory
CHECK_DEADLOCK FALSE
