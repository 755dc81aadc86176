CONSTANTS
  w1 = w1
  w2 = w2
  w3 = w3
  a = a
  b = b
  c = c
  Workers = {w1, w2}
  Peers = {a, b}
  Events = {"start", "stop", "complete", "count"}
  MaxAnnounces = 3
SPECIFICATION Spec
INVARIANT ListSound
CHECK_DEADLOCK FALSE
