\* One thread, every API function, three calls in a row, errors at every step.
SPECIFICATION FairSpec
CONSTANTS
  t1 = t1
  t2 = t2
  default = default
  custom = custom
  Threads <- OneThread
  Ops <- AllOps
  ParserOptions <- BothOptions
  DefaultOptions = default
  MaxKeys = 1
  MaxCalls = 3
  MaxFrames = 4
  MaxNodes = 4
  MaxStmts = 2
  AllocationFailures = FALSE
  CallsExit = FALSE
INVARIANTS
  TypeOK
  ErrorsStayInside
  ResultOwned
PROPERTY
  ImplementsContract
CHECK_DEADLOCK FALSE
