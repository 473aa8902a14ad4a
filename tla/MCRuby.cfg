\* One thread, every API function through its method, three calls in a row, errors at every step.
SPECIFICATION RFairSpec
CONSTANTS
  t1 = t1
  t2 = t2
  default = default
  custom = custom
  Threads <- OneThread
  Ops <- AllOps
  ParserOptions <- BothOptions
  DefaultOptions = default
  MaxKeys = 1
  MaxCalls = 3
  MaxFrames = 4
  MaxComments = 2
  MaxNodes = 4
  MaxStmts = 2
  AllocationFailures = FALSE
  CallsExit = FALSE
INVARIANT
  ReadsWhatIsThere
PROPERTIES
  MethodsImplementContract
  LosesOnly
CHECK_DEADLOCK FALSE
