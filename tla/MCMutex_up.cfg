SPECIFICATION FairSpec
CONSTANTS
  NULL = NULL
  NPROC = 3
  CPUs = {c1}
  MAX_MUTEXES = 2
  MaxMid = 2
  Rounds = 2
  LateInit = FALSE
  Killer = TRUE
INVARIANT MutualExclusion
PROPERTY AllDone
