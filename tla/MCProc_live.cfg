SPECIFICATION FairSpec
CONSTANTS
  NULL = NULL
  NPROC = 3
  CPUs = {c1, c2}
  Pages = {1, 2, 3, 4, 5, 6}
  Heads <- LowestPage
  Calls = {"fork", "exit", "wait", "kill"}
  KillPids = {2, 3}
  MaxPid = 4
  Disciplined = FALSE
PROPERTY KilledExits
PROPERTY OrphanReaped
