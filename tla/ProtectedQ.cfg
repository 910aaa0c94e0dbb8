CONSTANTS
  Producers = {p1, p2}
  Consumers = {c1, c2, c3}
  Items = {i1, i2, i3}
  NoItem = NoItem
  NoThread = NoThread
SPECIFICATION FairSpec
INVARIANTS TypeOK MutualExclusion NeverPopEmpty NoLostWakeup
PROPERTIES IsFifoQueue ItemDelivered
