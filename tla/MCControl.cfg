\* Signals of every kind leave nested calls, handlers, threads and files.
SPECIFICATION Spec
CONSTANTS
  t1 = t1
  t2 = t2
  Tag <- MCTag
  MaxIds = 3
  MaxDepth = 4
  MaxOps = 3
SYMMETRY TagSymmetry
CHECK_DEADLOCK FALSE
INVARIANT SignalsStop
PROPERTIES
  ReturnsLandWhereAimed
  ImplementsUnwind
