SPECIFICATION Spec
CONSTANTS
  NULL = NULL
  NPROC = 3
  CPUs = {c1, c2}
  MAX_MUTEXES = 2
  MaxMid = 3
  Rounds = 2
  LateInit = TRUE
  Killer = FALSE
SYMMETRY Symmetry
INVARIANT OneCpuPerProc
INVARIANT TableExclusion
