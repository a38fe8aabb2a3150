SPECIFICATION Spec
CONSTANTS
  NULL = NULL
  NPROC = 3
  NPAGES = 17
  NV = 8
  NPT = 4
  PGSIZE = 2
  Images <- Programs
  Deltas <- Steps
  User = 2
  Requests = {2, 3}
  MinUnits = 4
VIEW View
INVARIANT PagesAccounted
INVARIANT SizeMapped
INVARIANT HeapRight
