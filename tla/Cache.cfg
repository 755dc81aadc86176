CONSTANTS
  w1 = w1
  w2 = w2
  w3 = w3
  h1 = h1
  h2 = h2
  a = a
  b = b
  none = none
  Workers = {w1, w2}
  Hashes = {h1, h2}
  Registered = {h1, h2}
  Peers = {a}
  Events = {"start", "stop"}
  Memory = {"zero", "used"}
  MaxTry = 1
  Scrapes <- Scrapes2
  MaxJobs = 3
  NoWorker = none
SPECIFICATION FairSpec
INVARIANTS CacheTypeOK OneTorrentPerHash CacheWorkingBalanced ScrapeIsWhole
PROPERTIES ImplementsRegistry EveryJobEnds
CHECK_DEADLOCK FALSE
