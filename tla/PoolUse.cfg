CONSTANTS
  t1 = t1
  t2 = t2
  t3 = t3
  t4 = t4
  Threads = {t1, t2, t3, t4}
  MaxHold = 2
  MaxNum = 6
  Amp = 2
SPECIFICATION PSpec
SYMMETRY Symmetry
INVARIANTS PTypeOK NeverNull NoLostWakeup StatusMatchesHolders
PROPERTY ImplementsAllocator
