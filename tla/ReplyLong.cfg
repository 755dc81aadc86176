CONSTANTS
  Required <- Keys3
  Pairs <- SomePairs
  Wrong <- SomeWrong
  Order <- InOrder
  MaxPairs = 4
  PeerDigits = {44, 68}
  HeaderDigits = {2, 6}
  ScrapeDigits = {33}
  MaxWant = 5
  BufferSize = 64
  HalfRange = 1048576
  MaxFailures = 5
  Pieces = {50}
  MaxPeers = 2
  MaxRequests = 1
SPECIFICATION Spec
INVARIANT BigEnough
CHECK_DEADLOCK FALSE
