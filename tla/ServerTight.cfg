CONSTANTS
  c1 = c1
  c2 = c2
  c3 = c3
  main = main
  r1 = r1
  r2 = r2
  w1 = w1
  w2 = w2
  none = none
  Clients = {c1, c2}
  Main = main
  Reqs = {r1, r2}
  Workers = {w1}
  NoClient = none
  MaxTd = 1
  TdAmp = 1
  MaxBuf = 3
  BufAmp = 1
  MaxSignals = 0
  SpuriousWakeups = TRUE
SPECIFICATION FairSpec
PROPERTIES EveryClientServed UsesTdPool UsesBufPool
CHECK_DEADLOCK FALSE
