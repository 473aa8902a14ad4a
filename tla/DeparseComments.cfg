SPECIFICATION Spec
CONSTANTS
  MaxLen = 7
  Breaks = {"newline"}
INVARIANTS CommentsOnceInOrder CommentsInFront EmittedWhenReached NewlinesOnce LineCommentsEnd
CHECK_DEADLOCK FALSE
