CONSTANTS
  Name = {a, f}
  FnName = {f}
  Data = {v1, v2}
  Namespace = {default, kap}
  Default = default
  Kap = kap
  Bare = Bare
  Unbound = Unbound
  NoParam = NoParam
  MaxScopes = 4
  MaxDepth = 4
  MaxOps = 5
  MaxImports = 0
  Params = {a}
SYMMETRY DataSymmetry
SPECIFICATION LexSpec
CHECK_DEADLOCK FALSE
PROPERTIES AssignedNamesAreValues
