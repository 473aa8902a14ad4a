SPECIFICATION Spec
CONSTANTS
  MaxNodes = 6
  MaxDepth = 5
INVARIANTS SameAsReference TokensAgree VisitsBounded
CHECK_DEADLOCK FALSE
