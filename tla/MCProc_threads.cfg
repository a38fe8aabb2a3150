SPECIFICATION Spec
CONSTANTS
  NULL = NULL
  NPROC = 4
  CPUs = {c1, c2}
  Pages = {1, 2, 3, 4, 5, 6, 7}
  Heads <- LowestPage
  Calls = {"fork", "clone", "exit", "wait", "join", "exec"}
  KillPids = {}
  MaxPid = 4
  Disciplined = TRUE
SYMMETRY Symmetry
INVARIANT TypeOK
INVARIANT OneCpuPerProc
INVARIANT NoMissedExit
INVARIANT ParentAlive
INVARIANT PagesAccounted
