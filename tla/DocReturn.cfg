\* What a statement of the session reports when a return leaves it.
SPECIFICATION Spec
CONSTANTS
  t1 = t1
  t2 = t2
  Tag <- MCTag
  MaxIds = 2
  MaxDepth = 3
  MaxOps = 2
CHECK_DEADLOCK FALSE
INVARIANT ReturnsAreConverted
