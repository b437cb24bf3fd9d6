------------------------------- MODULE Scopes -------------------------------
(***************************************************************************)
(* Name binding in the evaluator (kap-core/src/evaluator.rs, impl          *)
(* Environment, eval_instr, apply_user_fn, eval_string_in_env_tolerant):   *)
(* lexical scopes, call frames, declared locals, closures, files loaded by *)
(* use(), and the namespace registry underneath.                           *)
(*                                                                         *)
(* The interpreter is single-threaded: the state is an arena of scopes and *)
(* a stack of evaluations, and the statement on top of the stack runs.     *)
(* A scope's parent is always older, so a chain is a set of scope numbers  *)
(* and "the nearest scope such that" is the largest number in it.          *)
(***************************************************************************)
EXTENDS Registry

CONSTANTS
  MaxDepth,    \* bound: evaluations nested in each other
  MaxOps,      \* bound: statements evaluated in a behaviour
  MaxImports,  \* bound: import statements per namespace
  Params       \* the parameters function literals are written with

ASSUME ScopesAssumption ==
  /\ MaxDepth \in Nat /\ MaxOps \in Nat /\ MaxImports \in Nat
  /\ Params \subseteq Name \cup {NoParam}

VARIABLES
  scopes,            \* number of scopes created so far
  chain,             \* each scope's parent chain, itself included
  symbols,           \* lexical bindings of each scope
  unassignedLocals,  \* names declared :local and not assigned yet
  functionDefs,      \* names each scope knows as function definitions
  isCallFrame,       \* scopes of sealed (nabla) calls
  actsAsRoot,        \* scopes that bind like the session root
  homeNs,            \* the namespace a scope is anchored to, or Bare
  fnBodyDepth,       \* how many body evaluations run directly in a scope
  engineFns,         \* engine-global table of nabla functions
  stack,             \* the evaluations in progress, innermost last
  raising,           \* an error is propagating
  ops,               \* statements evaluated so far (bounds the behaviour)
  outerNs            \* history: current namespace as set outside any file

lexVars == <<scopes, chain, symbols, unassignedLocals, functionDefs,
             isCallFrame, actsAsRoot, homeNs, fnBodyDepth, engineFns>>
ctlVars == <<stack, raising, ops, outerNs>>
vars    == <<regVars, lexVars, ctlVars>>

Created == 1..scopes

Frame == [kind : {"session", "fn", "block", "macro", "file"},
          env : Scope, savedNs : Namespace]

TypeOK ==
  /\ RegistryTypeOK
  /\ scopes \in Scope
  /\ chain \in [Scope -> SUBSET Scope]
  /\ symbols \in [Scope -> [Name -> Value \cup {Unbound}]]
  /\ unassignedLocals \in [Scope -> SUBSET Name]
  /\ functionDefs \in [Scope -> SUBSET Name]
  /\ isCallFrame \subseteq Scope
  /\ actsAsRoot \subseteq Scope
  /\ homeNs \in [Scope -> Namespace \cup {Bare}]
  /\ fnBodyDepth \in [Scope -> Nat]
  /\ engineFns \in [Name -> Closure \cup {Unbound}]
  /\ stack \in Seq(Frame) /\ stack # <<>>
  /\ raising \in BOOLEAN
  /\ ops \in Nat
  /\ outerNs \in Namespace

NoBindings == [n \in Name |-> Unbound]

Init ==
  /\ RegistryInit
  /\ scopes = 1
  /\ chain = [s \in Scope |-> IF s = 1 THEN {1} ELSE {}]
  /\ symbols = [s \in Scope |-> NoBindings]
  /\ unassignedLocals = [s \in Scope |-> {}]
  /\ functionDefs = [s \in Scope |-> {}]
  /\ isCallFrame = {}
  /\ actsAsRoot = {1}
  /\ homeNs = [s \in Scope |-> Bare]
  /\ fnBodyDepth = [s \in Scope |-> 0]
  /\ engineFns = [n \in Name |-> Unbound]
  /\ stack = <<[kind |-> "session", env |-> 1, savedNs |-> Default]>>
  /\ raising = FALSE
  /\ ops = 0
  /\ outerNs = Default

-----------------------------------------------------------------------------
(* Lookup                                                                  *)

Innermost(S) == CHOOSE s \in S : \A t \in S : t <= s

TopFrame == stack[Len(stack)]
Top      == TopFrame.env

BoundOn(e, n)  == {s \in chain[e] : symbols[s][n] # Unbound}
MarkedOn(e, n) == {s \in chain[e] : n \in unassignedLocals[s]}

Lexical(e, n) ==
  IF BoundOn(e, n) = {} THEN Unbound ELSE symbols[Innermost(BoundOn(e, n))][n]

HomeAnchor(e, n) ==
  LET homes == {s \in chain[e] : /\ homeNs[s] # Bare
                                 /\ nsSymbols[homeNs[s]][n] # Unbound}
  IN  IF homes = {} THEN Unbound ELSE nsSymbols[homeNs[Innermost(homes)]][n]

(* Environment::lookup.  Lexical keys carry no namespace, so a qualified   *)
(* name skips the scopes; the engine table is keyed by the plain name.     *)
Lookup(e, n, q) ==
  IF q = Bare
  THEN Or(Lexical(e, n), Or(ResolveBare(n), Or(HomeAnchor(e, n), engineFns[n])))
  ELSE Or(nsSymbols[q][n], engineFns[n])

(* Environment::unassigned_local_ns: is the nearest scope that knows n one *)
(* that has only declared it?                                              *)
UnassignedLocal(e, n) ==
  LET known == BoundOn(e, n) \cup MarkedOn(e, n)
  IN  known # {} /\ symbols[Innermost(known)][n] = Unbound

(* The value a symbol read yields; Unbound stands for the read's error.    *)
Read(e, n, q) ==
  IF q = Bare /\ UnassignedLocal(e, n) THEN Unbound ELSE Lookup(e, n, q)

(* Bare names the parser takes for functions in a statement of scope e.    *)
FunctionNames(e) ==
  UNION {functionDefs[s] : s \in chain[e]} \cup RegistryFunctionNames

-----------------------------------------------------------------------------
(* Assignment                                                              *)

FramesOn(e) == isCallFrame \cap chain[e]

(* Mutant: assignments see through call frames.                            *)
ReachUnbarriered(e) == chain[e]

(* The scopes an assignment may update: up to the innermost call frame.    *)
Reach(e) == {s \in chain[e] : \A f \in FramesOn(e) : f <= s}

IsRoot(e) == e \in actsAsRoot

(* Mutant: a bound name is updated before a pending local is looked for.   *)
BindScopeBoundFirst(e, n) ==
  CASE BoundOn(e, n) \cap Reach(e) # {} -> Innermost(BoundOn(e, n))
    [] /\ BoundOn(e, n) \cap Reach(e) = {}
       /\ MarkedOn(e, n) # {}           -> Innermost(MarkedOn(e, n))
    [] OTHER ->
         IF nsSymbols[current][n] # Unbound \/ IsRoot(e) THEN 0 ELSE e

(* Mutant: dynamic scoping, the callers' bindings are updated too.         *)
BindScopeDynamic(e, n) ==
  LET bound == {s \in {stack[i].env : i \in DOMAIN stack} :
                  symbols[s][n] # Unbound}
  IN  IF bound = {} THEN (IF IsRoot(e) THEN 0 ELSE e) ELSE Innermost(bound)

(* Environment::assign: the scope a bare assignment binds in, 0 for the    *)
(* namespace table.                                                        *)
BindScope(e, n) ==
  CASE MarkedOn(e, n) # {}                    -> Innermost(MarkedOn(e, n))
    [] /\ MarkedOn(e, n) = {}
       /\ BoundOn(e, n) \cap Reach(e) # {}    -> Innermost(BoundOn(e, n))
    [] /\ MarkedOn(e, n) = {}
       /\ BoundOn(e, n) \cap Reach(e) = {}
       /\ FramesOn(e) # {}                    -> Innermost(FramesOn(e))
    [] OTHER ->
         IF nsSymbols[current][n] # Unbound \/ IsRoot(e) THEN 0 ELSE e

FileInFlight == \E i \in DOMAIN stack : stack[i].kind = "file"

(* Mutant: qualified assignments are not checked.                          *)
ConstantBlocksBare(e, n, q) ==
  /\ ~FileInFlight /\ fnBodyDepth[e] = 0
  /\ q = Bare
  /\ \E m \in {current, Kap} : <<m, n>> \in constants

(* Engine::check_not_constant.                                             *)
ConstantBlocks(e, n, q) ==
  /\ ~FileInFlight
  /\ fnBodyDepth[e] = 0
  /\ \E m \in {DefNs(q), current, Kap} : <<m, n>> \in constants

Statement == ~raising /\ ops < MaxOps /\ ops' = ops + 1

BindIn(s, n, v) ==
  /\ symbols' = [symbols EXCEPT ![s][n] = v]
  /\ unassignedLocals' = [unassignedLocals EXCEPT ![s] = @ \ {n}]

Raise == raising' = TRUE

(* n <- v, or q:n <- v.                                                    *)
Assign(n, q, v) ==
  /\ Statement
  /\ ~ConstantBlocks(Top, n, q)
  /\ UnmarkFnDef(q, n)
  /\ \/ /\ q = Bare /\ BindScope(Top, n) # 0
        /\ BindIn(BindScope(Top, n), n, v)
        /\ UNCHANGED nsSymbols
     \/ /\ q # Bare \/ BindScope(Top, n) = 0
        /\ NsDefine(DefNs(q), n, v)
        /\ UNCHANGED <<symbols, unassignedLocals>>
  /\ UNCHANGED <<current, exports, imports, constants, scopes, chain,
                 functionDefs, isCallFrame, actsAsRoot, homeNs, fnBodyDepth,
                 engineFns, stack, raising, outerNs>>

AssignConstant(n, q) ==
  /\ Statement
  /\ ConstantBlocks(Top, n, q)
  /\ Raise
  /\ UNCHANGED <<regVars, lexVars, stack, outerNs>>

FnLiteral(e, sealed, p) == [env |-> e, sealed |-> sealed, param |-> p]

(* n <= {...}, or q:n <= {...}: define, mark, and only then look for an     *)
(* assignment to a constant in the body; "written" is a name the body      *)
(* assigns that is not its own local.                                      *)
DefineFn(n, q, p, written) ==
  LET f == FnLiteral(Top, FALSE, p) IN
  /\ Statement
  /\ IF q = Bare /\ ~IsRoot(Top)
     THEN /\ symbols' = [symbols EXCEPT ![Top][n] = f]
          /\ UNCHANGED nsSymbols
     ELSE /\ NsDefine(DefNs(q), n, f)
          /\ UNCHANGED symbols
  /\ functionDefs' = [functionDefs EXCEPT ![Top] = @ \cup {n}]
  /\ MarkFnDef(q, n)
  /\ raising' = \E m \in written : ConstantBlocks(Top, m, Bare)
  /\ UNCHANGED <<current, exports, imports, constants, scopes, chain,
                 unassignedLocals, isCallFrame, actsAsRoot, homeNs,
                 fnBodyDepth, engineFns, stack, outerNs>>

(* A nabla definition: the engine-global table, whatever the scope.        *)
DefineTradFn(n, q, p) ==
  /\ Statement
  /\ engineFns' = [engineFns EXCEPT ![n] = FnLiteral(Top, TRUE, p)]
  /\ functionDefs' = [functionDefs EXCEPT ![Top] = @ \cup {n}]
  /\ MarkFnDef(q, n)
  /\ UNCHANGED <<current, nsSymbols, exports, imports, constants, scopes,
                 chain, symbols, unassignedLocals, isCallFrame, actsAsRoot,
                 homeNs, fnBodyDepth, stack, raising, outerNs>>

-----------------------------------------------------------------------------
(* Directives                                                              *)

DeclareLocal(n) ==
  /\ Statement
  /\ unassignedLocals' = [unassignedLocals EXCEPT ![Top] = @ \cup {n}]
  /\ UNCHANGED <<regVars, scopes, chain, symbols, functionDefs, isCallFrame,
                 actsAsRoot, homeNs, fnBodyDepth, engineFns, stack, raising,
                 outerNs>>

DeclareConst(n) ==
  /\ Statement
  /\ constants' = constants \cup {<<current, n>>}
  /\ UNCHANGED <<current, nsSymbols, exports, imports, fnDefinitions,
                 lexVars, stack, raising, outerNs>>

DeclareExport(n) ==
  /\ Statement
  /\ exports' = [exports EXCEPT ![current] = @ \cup {n}]
  /\ UNCHANGED <<current, nsSymbols, imports, constants, fnDefinitions,
                 lexVars, stack, raising, outerNs>>

Import(m) ==
  /\ Statement
  /\ Len(imports[current]) < MaxImports
  /\ imports' = [imports EXCEPT ![current] = Append(@, m)]
  /\ UNCHANGED <<current, nsSymbols, exports, constants, fnDefinitions,
                 lexVars, stack, raising, outerNs>>

(* namespace("m") switches the registry, wherever it is executed.          *)
SetNamespace(m) ==
  /\ Statement
  /\ current' = m
  /\ outerNs' = IF FileInFlight THEN outerNs ELSE m
  /\ UNCHANGED <<nsSymbols, exports, imports, constants, fnDefinitions,
                 lexVars, stack, raising>>

-----------------------------------------------------------------------------
(* Evaluations nested in the running one                                   *)

(* Environment::child and the evaluation that starts in it.                *)
OpenScope(parent, kind, bindings) ==
  /\ scopes < MaxScopes
  /\ Len(stack) < MaxDepth
  /\ scopes' = scopes + 1
  /\ chain' = [chain EXCEPT ![scopes + 1] = chain[parent] \cup {scopes + 1}]
  /\ symbols' = [symbols EXCEPT ![scopes + 1] = bindings]
  /\ functionDefs' = [functionDefs EXCEPT ![scopes + 1] = functionDefs[parent]]
  /\ stack' = Append(stack, [kind |-> kind, env |-> scopes + 1,
                             savedNs |-> current])
  /\ UNCHANGED <<regVars, unassignedLocals, engineFns, raising, outerNs>>

(* Mutant: only sealed calls count as running bodies.                      *)
ApplyUserFnUncounted(f, self, v) ==
  /\ Statement
  /\ OpenScope(f.env, "fn", [n \in Name |-> IF n \in self THEN f
                                            ELSE IF n = f.param THEN v
                                            ELSE Unbound])
  /\ isCallFrame' = isCallFrame \cup (IF f.sealed THEN {scopes + 1} ELSE {})
  /\ fnBodyDepth' = [fnBodyDepth EXCEPT ![scopes + 1] =
                       IF f.sealed THEN @ + 1 ELSE @]
  /\ UNCHANGED <<actsAsRoot, homeNs>>

(* Mutant: the body's scope is opened below the caller's.                  *)
ApplyUserFnDynamic(f, self, v) ==
  /\ Statement
  /\ OpenScope(Top, "fn", [n \in Name |-> IF n \in self THEN f
                                          ELSE IF n = f.param THEN v
                                          ELSE Unbound])
  /\ isCallFrame' = isCallFrame \cup (IF f.sealed THEN {scopes + 1} ELSE {})
  /\ fnBodyDepth' = [fnBodyDepth EXCEPT ![scopes + 1] = @ + 1]
  /\ UNCHANGED <<actsAsRoot, homeNs>>

(* apply_user_fn: parameters are bound first, then the function's own name. *)
ApplyUserFn(f, self, v) ==
  /\ Statement
  /\ OpenScope(f.env, "fn", [n \in Name |-> IF n \in self THEN f
                                            ELSE IF n = f.param THEN v
                                            ELSE Unbound])
  /\ isCallFrame' = isCallFrame \cup (IF f.sealed THEN {scopes + 1} ELSE {})
  /\ fnBodyDepth' = [fnBodyDepth EXCEPT ![scopes + 1] = @ + 1]
  /\ UNCHANGED <<actsAsRoot, homeNs>>

(* The name a call goes by is bound in the body; a qualified one under its  *)
(* whole spelling, which no symbol read asks for.                          *)
CallFn(n, q, v) ==
  /\ Lookup(Top, n, q) \in Closure
  /\ ApplyUserFn(Lookup(Top, n, q), IF q = Bare THEN {n} ELSE {}, v)

(* A dynamic reference applied: the body does not learn the name.          *)
ApplyDynamicRef(n, q, v) ==
  /\ Lookup(Top, n, q) \in Closure
  /\ ApplyUserFn(Lookup(Top, n, q), {}, v)

ApplyLambda(p, v) == ApplyUserFn(FnLiteral(Top, FALSE, p), {}, v)

(* {...} applied on the spot: only the omega and alpha glyphs are bound.   *)
ApplyBlock ==
  /\ Statement
  /\ OpenScope(Top, "block", NoBindings)
  /\ UNCHANGED <<isCallFrame, actsAsRoot, homeNs, fnBodyDepth>>

(* MacroExpand: a child scope with the macro's variable bound.             *)
MacroExpand(n, v) ==
  /\ Statement
  /\ OpenScope(Top, "macro", [NoBindings EXCEPT ![n] = v])
  /\ UNCHANGED <<isCallFrame, actsAsRoot, homeNs, fnBodyDepth>>

(* use("file"): the file's statements run in an anchor scope that binds     *)
(* like the root.  Which file is loaded, and when, is module UseFile.      *)
UseFile ==
  /\ Statement
  /\ OpenScope(Top, "file", NoBindings)
  /\ actsAsRoot' = actsAsRoot \cup {scopes + 1}
  /\ homeNs' = [homeNs EXCEPT ![scopes + 1] = current]
  /\ UNCHANGED <<isCallFrame, fnBodyDepth>>

(* Between two statements of a file its anchor follows the directives.     *)
NextFileStatement ==
  /\ ~raising
  /\ TopFrame.kind = "file" /\ homeNs[Top] # current
  /\ homeNs' = [homeNs EXCEPT ![Top] = current]
  /\ UNCHANGED <<regVars, scopes, chain, symbols, unassignedLocals,
                 functionDefs, isCallFrame, actsAsRoot, fnBodyDepth,
                 engineFns, ctlVars>>

(* The fields no return from an evaluation touches.                        *)
LeaveUnchanged ==
  UNCHANGED <<nsSymbols, exports, imports, constants, fnDefinitions,
              scopes, chain, symbols, unassignedLocals, functionDefs,
              isCallFrame, actsAsRoot, homeNs, engineFns, raising, ops, outerNs>>

Pop == Len(stack) > 1 /\ stack' = SubSeq(stack, 1, Len(stack) - 1)

RestoreNs ==
  current' = IF TopFrame.kind = "file" THEN TopFrame.savedNs ELSE current

EndBody ==
  fnBodyDepth' = [fnBodyDepth EXCEPT ![Top] =
                    IF TopFrame.kind = "fn" THEN @ - 1 ELSE @]

(* Mutant: an error skips the line that takes one off the depth.           *)
LeaveEarly ==
  /\ Pop /\ RestoreNs
  /\ IF raising THEN UNCHANGED fnBodyDepth ELSE EndBody
  /\ LeaveUnchanged

(* Mutant: an error skips the line that restores the namespace.            *)
LeaveInFileNs ==
  /\ Pop /\ EndBody
  /\ IF raising THEN UNCHANGED current ELSE RestoreNs
  /\ LeaveUnchanged

(* The innermost evaluation ends, with a value or with the error that is   *)
(* propagating; its owner undoes what it set up.                           *)
Leave == Pop /\ RestoreNs /\ EndBody /\ LeaveUnchanged

(* Any statement may fail: an unbound name, a wrong argument count, throw. *)
Fail ==
  /\ Statement
  /\ Raise
  /\ UNCHANGED <<regVars, lexVars, stack, outerNs>>

(* The error stops here: the session reports it, or a catch or makeThread  *)
(* of the running evaluation swallows it.                                  *)
Handle ==
  /\ raising
  /\ raising' = FALSE
  /\ UNCHANGED <<regVars, lexVars, stack, ops, outerNs>>

-----------------------------------------------------------------------------

(* What a statement assigns: data, or a function literal closed over here. *)
Literal == Data \cup {FnLiteral(Top, FALSE, p) : p \in Params}

Qualifier == Namespace \cup {Bare}

Binding ==
  \/ \E n \in Name, q \in Qualifier, v \in Literal : Assign(n, q, v)
  \/ \E n \in Name, q \in Qualifier : AssignConstant(n, q)
  \/ \E n \in Name, q \in Qualifier, p \in Params, written \in SUBSET Name :
       DefineFn(n, q, p, written \ {p})
  \/ \E n \in Name, q \in Qualifier, p \in Params : DefineTradFn(n, q, p)
  \/ \E n \in Name : DeclareLocal(n)

Calls ==
  \/ \E n \in Name, q \in Qualifier, v \in Data :
       CallFn(n, q, v) \/ ApplyDynamicRef(n, q, v)
  \/ \E p \in Params, v \in Data : ApplyLambda(p, v)
  \/ ApplyBlock
  \/ \E n \in Name, v \in Data : MacroExpand(n, v)
  \/ Leave

Directives ==
  \/ \E n \in Name : DeclareConst(n) \/ DeclareExport(n)
  \/ \E m \in Namespace : Import(m) \/ SetNamespace(m)
  \/ UseFile
  \/ NextFileStatement

Errors == Fail \/ Handle

Next == Binding \/ Calls \/ Directives \/ Errors

Spec == Init /\ [][Next]_vars

-----------------------------------------------------------------------------
(* Properties                                                              *)

(* The arena is a tree of lexical scopes: every chain ends in the session   *)
(* root, and the chain of an ancestor is the part of the chain below it.   *)
ScopeTree ==
  \A s \in Created :
    /\ {1, s} \subseteq chain[s] /\ chain[s] \subseteq 1..s
    /\ \A t \in chain[s] : chain[t] = chain[s] \cap 1..t

(* The evaluations in progress run in ever newer scopes, and the deferred   *)
(* body depth counts 1 in the scopes of running function bodies only.      *)
StackInv ==
  /\ \A i \in DOMAIN stack : stack[i].env \in Created
  /\ \A i, j \in DOMAIN stack : i < j => stack[i].env < stack[j].env
  /\ \A s \in Scope : fnBodyDepth[s] =
       IF \E i \in DOMAIN stack : stack[i].kind = "fn" /\ stack[i].env = s
       THEN 1 ELSE 0

(* Every function value closes over a scope that exists.                   *)
ClosuresLive ==
  /\ \A m \in Namespace, n \in Name :
       nsSymbols[m][n] \in Closure => nsSymbols[m][n].env \in Created
  /\ \A s \in Scope, n \in Name :
       symbols[s][n] \in Closure => symbols[s][n].env \in Created
  /\ \A n \in Name :
       engineFns[n] \in Closure => engineFns[n].env \in Created

(* The inductive invariant of the proofs: what makes chains trees is that   *)
(* running scopes and closed-over scopes are all created ones.             *)
IInv == TypeOK /\ StackInv /\ ScopeTree /\ ClosuresLive

(* However evaluations end, by value or by error, the deferred-body depth   *)
(* that switches the constant check off in a scope is exactly the number of *)
(* function bodies still running in it (apply_user_fn's paired set calls).  *)
BodyDepthMatchesStack ==
  \A s \in Scope : fnBodyDepth[s] =
    Cardinality({i \in DOMAIN stack : stack[i].kind = "fn" /\ stack[i].env = s})

(* A namespace directive inside a file, at any nesting of files, calls and  *)
(* errors, never decides the namespace of statements outside it.           *)
FileNamespaceContained == ~FileInFlight => current = outerNs

(* A callee can change the lexical bindings and pending locals of scopes on *)
(* its own chain only: a caller it is not nested in is out of reach.       *)
WritesStayOnChain ==
  [][\A s \in Created \ chain[Top] :
       /\ symbols'[s] = symbols[s]
       /\ unassignedLocals'[s] = unassignedLocals[s]]_vars

(* Evaluation under a sealed call leaves every older binding alone, except  *)
(* a name that scope has declared :local and not assigned; and its bare     *)
(* assignments never reach the module tables.                              *)
FramesSealed ==
  [][\A c \in FramesOn(Top) :
       /\ \A s \in Created, n \in Name :
            s < c /\ symbols'[s][n] # symbols[s][n] => n \in unassignedLocals[s]
       /\ \A n \in Name, v \in Literal :
            Assign(n, Bare, v) /\ MarkedOn(Top, n) = {}
              => UNCHANGED nsSymbols]_vars

(* An inner scope binds n itself although an outer one awaits its first    *)
(* assignment.                                                             *)
MarkShadowed(e, n) ==
  \E m \in MarkedOn(e, n) : /\ \A t \in MarkedOn(e, n) : t <= m
                            /\ \E s \in BoundOn(e, n) : m < s

(* A statement that reads the name the previous one assigned, in the same   *)
(* scope, gets the value assigned, through frames, locals, namespaces and   *)
(* file anchors; a pending local that an inner scope shadows is assigned    *)
(* first, out of the sight of a read.                                      *)
ReadYourWrites ==
  [][\A e \in Created, n \in Name, q \in Qualifier, v \in Literal :
       /\ e = Top
       /\ Assign(n, q, v)
       /\ q = Bare => ~MarkShadowed(e, n)
       => Read(e, n, q)' = v]_vars

(* A body starts with the names of the scope its function was written in,   *)
(* wherever it is called: but for the names the call itself binds it reads  *)
(* what that scope reads, and it assigns there, in itself or in a module.   *)
LexicalScoping ==
  [][\A n \in Name, q \in Qualifier, v \in Data :
       CallFn(n, q, v) \/ ApplyDynamicRef(n, q, v) =>
         LET f == Lookup(Top, n, q) IN
         \A m \in Name \ {n, f.param} :
           /\ Read(Top, m, Bare)' = Read(f.env, m, Bare)
           /\ BindScope(Top, m)' \in chain[f.env] \cup {0, scopes'}]_vars

(* A declared constant keeps its module value under assignments of every    *)
(* scope that is neither loading a file nor directly a function body: what  *)
(* is left are definitions, which the constant check does not cover.       *)
ConstantsHold ==
  [][\A m \in Namespace, n \in Name :
       /\ <<m, n>> \in constants
       /\ ~FileInFlight
       /\ fnBodyDepth[Top] = 0
       /\ nsSymbols'[m][n] # nsSymbols[m][n]
       => nsSymbols'[m][n] \in Closure /\ <<m, n>> \in fnDefinitions']_vars

(* A name bound only in namespace m, not exported there, cannot be read     *)
(* bare from code whose current namespace and anchors are elsewhere.       *)
UnexportedNamesInvisible ==
  \A m \in Namespace \ {current, Default, Kap}, n \in Name :
    /\ n \notin exports[m]
    /\ \A k \in Namespace \ {m} : nsSymbols[k][n] = Unbound
    /\ \A s \in chain[Top] : symbols[s][n] = Unbound /\ homeNs[s] # m
    /\ engineFns[n] = Unbound
    => Read(Top, n, Bare) = Unbound

(* "Only the names defined by a function definition are seeded as           *)
(* functions": after a data assignment at the session root the name is one *)
(* no longer.                                                              *)
AssignedNamesAreValues ==
  [][\A n \in Name, v \in Data :
       Len(stack) = 1 /\ Assign(n, Bare, v) => n \notin FunctionNames(1)']_vars

(* "A function body's bare references must resolve against the defining     *)
(* file's namespace, not whatever namespace is current when it is called". *)
HomeFirst ==
  \A n \in Name :
    /\ TopFrame.kind = "fn" /\ TopFrame.savedNs = current
    /\ Lexical(Top, n) = Unbound /\ HomeAnchor(Top, n) # Unbound
    => Lookup(Top, n, Bare) = HomeAnchor(Top, n)

=============================================================================
