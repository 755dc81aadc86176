CONSTANTS
  p1 = p1
  p2 = p2
  c1 = c1
  c2 = c2
  x1 = x1
  x2 = x2
  x3 = x3
  x4 = x4
  none = none
  Producers = {p1, p2}
  Consumers = {c1, c2}
  Items = {x1, x2, x3, x4}
  Idle = none
  Lifo = FALSE
SPECIFICATION QFairSpec
INVARIANTS NoLostWakeup DeliveredOnce FifoOrder
PROPERTY EveryItemTaken
