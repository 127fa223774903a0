SPECIFICATION FairSpec
CONSTANTS
  Callbacks = {c1, c2, c3}
  Relative = {c2}
  Malformed = {c3}
  PrefetchCount = 1
  MaxTries = 3
  MaxExits = 1
  MaxDrops = 1
INVARIANTS
  TypeOK
  OutcomeIsEarned
  NothingDroppedSilently
  BoundedPosts
PROPERTIES
  EveryCallbackFinishes
CHECK_DEADLOCK FALSE
