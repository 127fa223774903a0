SPECIFICATION FairSpec
CONSTANTS
  r1 = r1
  r2 = r2
  r3 = r3
  w1 = w1
  w2 = w2
  t1 = t1
  t2 = t2
  NoRequest = NoRequest
  NoText = NoText
  Requests = {r1, r2}
  Workers = {w1}
  Texts = {t1}
  WithCallback = {r1}
  Disruptive = {"worker_stop", "broker_stop", "broker_crash"}
  MaxDisruptions = 1
PROPERTIES
  ComesToRest
  CallbackFollows
CHECK_DEADLOCK FALSE
