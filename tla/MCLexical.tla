----------------------------- MODULE MCLexical -----------------------------
(* Scopes with the statements that bind and call: one namespace besides     *)
(* "kap", and no directive but declare(:local).                             *)
EXTENDS Scopes, TLC

CONSTANT FnName     \* the names the programs use for functions

ASSUME FnName \subseteq Name

DataSymmetry == Permutations(Data)

(* Lambdas take the parameters in Params, defined functions take none.      *)
LexNext ==
  \/ \E n \in Name, v \in Data : Assign(n, Bare, v)
  \/ \E n \in FnName, v \in Literal \ Data : Assign(n, Bare, v)
  \/ \E n \in FnName : DefineFn(n, Bare, NoParam, {})
  \/ \E n \in FnName : DefineTradFn(n, Bare, NoParam)
  \/ \E n \in Name \ FnName : DeclareLocal(n)
  \/ \E n \in FnName, v \in Data :
       CallFn(n, Bare, v) \/ ApplyDynamicRef(n, Bare, v)
  \/ \E p \in Params, v \in Data : ApplyLambda(p, v)
  \/ ApplyBlock
  \/ Leave
  \/ Errors

LexSpec == Init /\ [][LexNext]_vars
=============================================================================
