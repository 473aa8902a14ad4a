SPECIFICATION Spec
CONSTANTS
  Names = {x, y}
  x = x
  y = y
  Limits = {12, 16}
  Distinct = {1, 3}
  MaxStmts = 3
INVARIANTS EverythingFoundOnce CtesHidden FiltersReal TextFits
PROPERTIES DeepestFirst RoundsShorten
CHECK_DEADLOCK FALSE
SYMMETRY Symmetry
