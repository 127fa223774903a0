SPECIFICATION Spec
CONSTANTS
  r1 = r1
  r2 = r2
  r3 = r3
  w1 = w1
  w2 = w2
  t1 = t1
  t2 = t2
  NoRequest = NoRequest
  NoText = NoText
  Requests = {r1}
  Workers = {w1, w2}
  Texts = {t1, t2}
  WithCallback = {r1}
  Disruptive = {"worker_stop", "worker_crash", "broker_stop", "broker_crash",
                "stall", "inference_fails", "publish_fails", "db_fails"}
  MaxDisruptions = 1
SYMMETRY WorkerSymmetry
INVARIANTS
  TypeOK
  UndisturbedLosesNothing
  NothingVanishes
  Provenance
  ReadyIsCalledBack
PROPERTIES
  ForwardOnly
  ImplementsLifecycle
CHECK_DEADLOCK FALSE
