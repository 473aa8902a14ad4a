SPECIFICATION Spec
CONSTANTS
  Params = {1}
  Fps = {plain, select}
  plain = plain
  select = select
  SelectFps = {select}
  MaxDepth = 2
  MaxWalk = 5
  MaxTargets = 2
  Unwalked = TRUE
  Folding = FALSE
  DeepTrees = FALSE
INVARIANTS RefsInBounds HighestIsNext NumbersDistinct NoCollision
PROPERTY PlainGroupItemsShare
CHECK_DEADLOCK FALSE
