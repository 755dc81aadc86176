CONSTANTS
  w1 = w1
  w2 = w2
  w3 = w3
  a = a
  b = b
  c = c
  Workers = {w1, w2, w3}
  Peers = {a, b}
  Events = {"start", "stop", "complete", "count"}
  MaxAnnounces = 5
SPECIFICATION Spec
SYMMETRY Symmetry
INVARIANTS SwarmTypeOK NoDuplicates CountsRight WorkingBalanced StartListsPeer
PROPERTY OnlyStopRemoves
CHECK_DEADLOCK FALSE
