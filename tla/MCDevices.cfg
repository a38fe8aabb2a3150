SPECIFICATION Spec
CHECK_DEADLOCK FALSE
CONSTANTS
  NULL = NULL
  NCPU = 2
  NPROC = 2
  INPUT_BUF = 2
  Wrap = 4
  COLS = 2
  ROWS = 2
  TicksWrap = 4
  SleepTimes = {2}
  ReadSizes = {2}
  CallsOf <- Programs
  Tickets = {0}
  DEFAULT_TICKETS = 1
  MaxKeys = 3
  MaxInterrupts = 2
  MaxCalls = 1
INVARIANT NoPanic
INVARIANT LocksRight
INVARIANT InterruptsRight
INVARIANT NoMissedWakeup
INVARIANT SomeoneWins
PROPERTY SleptEnough
PROPERTY ImplementsLineInput
