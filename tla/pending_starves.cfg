SPECIFICATION FairSpec
CONSTANTS
  r1 = r1
  r2 = r2
  r3 = r3
  w1 = w1
  w2 = w2
  t1 = t1
  t2 = t2
  NoRequest = NoRequest
  NoText = NoText
  Requests = {r1}
  Workers = {w1}
  Texts = {t1}
  WithCallback = {}
  Disruptive = {}
  MaxDisruptions = 0
PROPERTIES
  PendingIsServed
CHECK_DEADLOCK FALSE
