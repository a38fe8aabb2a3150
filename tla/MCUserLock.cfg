SPECIFICATION FairSpec
CONSTANTS
  Threads = {t1, t2, t3}
  W = 4
  Rounds = 4
PROPERTY ImplementsLock
PROPERTY ImplementsFifo
PROPERTY AllDone
CHECK_DEADLOCK FALSE
