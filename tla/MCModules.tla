----------------------------- MODULE MCModules -----------------------------
(* Scopes with the module-level statements: namespaces, exports, imports,   *)
(* constants, files loaded by use(), and errors on the way out of them.     *)
EXTENDS Scopes

CONSTANTS
  FnName,     \* the names the programs use for functions
  Library     \* the namespace programs name explicitly

ASSUME FnName \subseteq Name /\ Library \in Namespace

VarName  == Name \ FnName
Written  == {Bare, Library}

ModNext ==
  \/ \E n \in VarName, q \in Written, v \in Data : Assign(n, q, v)
  \/ \E n \in VarName, q \in Written : AssignConstant(n, q)
  \/ \E n \in FnName, q \in Written, written \in SUBSET VarName :
       DefineFn(n, q, NoParam, written)
  \/ \E n \in FnName, q \in Written : DefineTradFn(n, q, NoParam)
  \/ \E n \in FnName, q \in Written, v \in Data : CallFn(n, q, v)
  \/ \E n \in VarName, v \in Data : MacroExpand(n, v)
  \/ \E n \in VarName : DeclareConst(n) \/ DeclareExport(n)
  \/ Import(Library)
  \/ \E m \in {Default, Library} : SetNamespace(m)
  \/ UseFile
  \/ NextFileStatement
  \/ Leave
  \/ Errors

ModSpec == Init /\ [][ModNext]_vars
=============================================================================
