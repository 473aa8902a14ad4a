SPECIFICATION Spec
CONSTANTS
  Params = {1}
  Fps = {plain, select}
  plain = plain
  select = select
  SelectFps = {select}
  MaxDepth = 1
  MaxWalk = 5
  MaxTargets = 2
  Unwalked = FALSE
  Folding = FALSE
  DeepTrees = FALSE
PROPERTY GroupItemsShare
CHECK_DEADLOCK FALSE
