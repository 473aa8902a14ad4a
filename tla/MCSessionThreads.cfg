\* Two threads that initialise, call and exit in every order, one key for both, allocations
\* that fail and a host that calls pg_query_exit.
SPECIFICATION FairSpec
CONSTANTS
  t1 = t1
  t2 = t2
  default = default
  custom = custom
  Threads <- TwoThreads
  Ops <- ParseOps
  ParserOptions <- BothOptions
  DefaultOptions = default
  MaxKeys = 1
  MaxCalls = 2
  MaxFrames = 2
  MaxNodes = 1
  MaxStmts = 1
  AllocationFailures = TRUE
  CallsExit = TRUE
INVARIANTS
  LexedAsRequested
  NothingLeaked
  ExitedThreadsFreed
  ReadyBetweenCalls
PROPERTY
  CallsReturn
CHECK_DEADLOCK FALSE
