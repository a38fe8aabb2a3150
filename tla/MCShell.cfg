SPECIFICATION Spec
CONSTANTS
  NULL = NULL
  Procs = {0, 1, 2, 3, 4}
  NFILE = 4
  NOFILE = 5
  Pipes = {i1, i2}
  PIPESIZE = 2
  W = 4
  Names = {"f"}
  Words = {"e", "c", "f"}
  MAXARGS = 3
  Lines <- LinesRun
  MaxLen = 4
  MaxLines = 1
  MaxKills = 1
INVARIANT FilesRight
INVARIANT OutputRight
INVARIANT ParserRight
PROPERTY Finishes
CHECK_DEADLOCK FALSE
