SPECIFICATION Spec
CONSTANTS
  NULL = NULL
  Empty = Empty
  Procs = {p1, p2}
  InitProc = p1
  Bufs = {k1, k2, k3, k4}
  Blocks = {0, 1, 2, 3, d1, d2, d3}
  Data = {d1, d2, d3}
  Values = {v0, v1}
  MAXOPBLOCKS = 2
  OPBLOCKS = 1
  LOGSIZE = 4
VIEW View
SYMMETRY Symmetry
INVARIANT CacheRight
INVARIANT NoPanic
INVARIANT NoMissedWakeup
PROPERTY ImplementsAtomicDisk
CHECK_DEADLOCK FALSE
