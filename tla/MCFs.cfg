SPECIFICATION Spec
CONSTANTS
  NULL = NULL
  Procs = {p1, p2}
  NInodes = 5
  NINODE = 4
  NBlocks = 9
  NDIRECT = 1
  NINDIRECT = 1
  EPB = 5
  MaxCalls = 5
  Files <- ImageFiles
  Calls <- CallsMade
SYMMETRY Symmetry
INVARIANT LockOrder
INVARIANT CacheRight
INVARIANT NoPanic
INVARIANT Consistent
CHECK_DEADLOCK FALSE
