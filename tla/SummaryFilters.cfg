\* A condition after a sub-SELECT in the same WHERE clause.
SPECIFICATION Spec
CONSTANTS
  Names = {x}
  x = x
  Limits = {}
  Distinct = {}
  MaxStmts = 2
INVARIANT FilterColumnsFound
CHECK_DEADLOCK FALSE
