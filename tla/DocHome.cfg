CONSTANTS
  Name = {a, f}
  FnName = {f}
  Data = {v1, v2}
  Namespace = {default, kap, lib}
  Default = default
  Kap = kap
  Library = lib
  Bare = Bare
  Unbound = Unbound
  NoParam = NoParam
  MaxScopes = 3
  MaxDepth = 2
  MaxOps = 6
  MaxImports = 1
  Params = {NoParam}
SPECIFICATION ModSpec
CHECK_DEADLOCK FALSE
INVARIANTS HomeFirst
