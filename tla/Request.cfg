CONSTANTS
  Required <- Keys3
  Pairs <- SomePairs
  Wrong <- SomeWrong
  Order <- InOrder
  MaxPairs = 4
  PeerDigits = {44, 87, 130}
  HeaderDigits = {6, 22}
  ScrapeDigits = {3, 33}
  MaxWant = 5
  BufferSize = 64
  HalfRange = 1048576
  MaxFailures = 5
  Pieces = {50}
  MaxPeers = 6
  MaxRequests = 2
SPECIFICATION FairSpec
INVARIANTS CheckIsRight  ReplyFits BuffersFit SentInOrder SentOrGivenUp AnnouncesTheReply
PROPERTY EveryRequestEnds
CHECK_DEADLOCK FALSE
