SPECIFICATION FairSpec
CONSTANTS
  NULL = NULL
  NPROC = 2
  CPUs = {c1, c2}
  MAX_MUTEXES = 1
  MaxMid = 1
  Rounds = 1
  LateInit = FALSE
  Killer = FALSE
PROPERTY AllDone
