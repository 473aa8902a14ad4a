SPECIFICATION Spec
CONSTANTS
  Names = {x, y}
  x = x
  y = y
  MaxItems = 6
  MaxWith = 2
INVARIANTS NothingLeftOver CtesHidden SelfReferencesKept
CHECK_DEADLOCK FALSE
