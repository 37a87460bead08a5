SPECIFICATION FairSpec
CONSTANTS
  w1 = w1
  w2 = w2
  Records = {1, 2}
  Channels = {"IN_APP", "EMAIL"}
  Keyed = {"EMAIL"}
  Workers = {w1, w2}
  Limit = 2
  MaxOverlaps = 1
  MaxFaults = 1
INVARIANTS KeyedOnce DeliveriesOnRecord
PROPERTY Retried
CHECK_DEADLOCK FALSE
