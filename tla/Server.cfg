CONSTANTS
  c1 = c1
  c2 = c2
  c3 = c3
  main = main
  r1 = r1
  r2 = r2
  w1 = w1
  w2 = w2
  none = none
  Clients = {c1, c2, c3}
  Main = main
  Reqs = {r1}
  Workers = {w1}
  NoClient = none
  MaxTd = 2
  TdAmp = 1
  MaxBuf = 5
  BufAmp = 5
  MaxSignals = 0
  SpuriousWakeups = TRUE
SPECIFICATION Spec
SYMMETRY Symmetry
INVARIANTS OwnClient ReplyIsOwn TdUsable BuffersSuffice
PROPERTY ImplementsService
CHECK_DEADLOCK FALSE
