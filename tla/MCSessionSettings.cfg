\* A scan after a parse that failed under other settings.
SPECIFICATION Spec
CONSTANTS
  t1 = t1
  t2 = t2
  default = default
  custom = custom
  Threads <- OneThread
  Ops <- ParseThenScan
  ParserOptions <- BothOptions
  DefaultOptions = default
  MaxKeys = 1
  MaxCalls = 2
  MaxFrames = 2
  MaxNodes = 1
  MaxStmts = 1
  AllocationFailures = FALSE
  CallsExit = FALSE
INVARIANT
  LexedAsRequested
CHECK_DEADLOCK FALSE
