CONSTANTS
  Name = {a, f}
  FnName = {f}
  Data = {v1}
  Namespace = {default, kap, lib}
  Default = default
  Kap = kap
  Library = lib
  Bare = Bare
  Unbound = Unbound
  NoParam = NoParam
  MaxScopes = 3
  MaxDepth = 3
  MaxOps = 6
  MaxImports = 1
  Params = {NoParam}
SPECIFICATION ModSpec
CHECK_DEADLOCK FALSE
INVARIANTS FileNamespaceContained UnexportedNamesInvisible
PROPERTIES ConstantsHold
