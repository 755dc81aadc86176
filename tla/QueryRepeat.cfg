CONSTANTS
  Required <- Keys3
  Pairs <- SomePairs
  Wrong <- SomeWrong
  Order <- InOrder
  MaxPairs = 4
  PeerDigits = {10, 44}
  HeaderDigits = {2, 6}
  ScrapeDigits = {3, 33}
  MaxWant = 2
  BufferSize = 64
  HalfRange = 1048576
  MaxFailures = 5
  Pieces = {50}
  MaxPeers = 3
  MaxRequests = 1
SPECIFICATION Spec
INVARIANT AllKeysListed
CHECK_DEADLOCK FALSE
