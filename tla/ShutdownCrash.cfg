CONSTANTS
  c1 = c1
  c2 = c2
  c3 = c3
  main = main
  r1 = r1
  r2 = r2
  w1 = w1
  w2 = w2
  none = none
  Clients = {c1}
  Main = main
  Reqs = {r1}
  Workers = {w1}
  NoClient = none
  MaxTd = 1
  TdAmp = 1
  MaxBuf = 4
  BufAmp = 4
  MaxSignals = 1
  SpuriousWakeups = FALSE
SPECIFICATION Spec
INVARIANT ShutdownIsClean
CHECK_DEADLOCK FALSE
