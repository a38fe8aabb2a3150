SPECIFICATION FairSpec
CONSTANTS
  NULL = NULL
  NPROC = 4
  CPUs = {c1, c2}
  Parties = 3
  Calls = 1
  Cycles = 2
INVARIANT Separation
INVARIANT NoLostWakeup
PROPERTY AllResume
