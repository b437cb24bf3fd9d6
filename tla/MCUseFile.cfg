CONSTANTS
  x = x
  y = y
  z = z
  dirz = dirz
  Request = {x, y, z, dirz}
  Basename = {"x", "y", "z"}
  Plain = Plain
  MaxDepth = 4
  MaxRequests = 3
  BaseOf <- MCBaseOf
  Program <- MCProgram
SPECIFICATION Spec
CHECK_DEADLOCK FALSE
INVARIANT GuardMatchesLoads
PROPERTIES EveryUseReturns ImplementsLoadOnce
