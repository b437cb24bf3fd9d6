---------------------------- MODULE ScopesProofs ----------------------------
(***************************************************************************)
(* Proofs about module Scopes, for every value of its constants.  The      *)
(* heart is the inductive invariant IInv: a scope's chain is a tree path    *)
(* because the parent of every new scope is one that exists, and it exists  *)
(* because it is a running scope or the scope of a closure a lookup found.  *)
(* From it follows what name binding promises: what a step may write, what  *)
(* a sealed call keeps, which reads see which assignments, and how files    *)
(* and constants contain each other.                                       *)
(***************************************************************************)
EXTENDS Scopes, SequenceTheorems, FiniteSetTheorems, WellFoundedInduction, TLAPS

(* The values a table may hold once k scopes were created: closures over    *)
(* one of these, data, or nothing.                                         *)
LiveClosure(k) == [env : 1..k, sealed : BOOLEAN, param : Name \cup {NoParam}]

Live(k) == Data \cup LiveClosure(k) \cup {Unbound}

TablesLive(k) ==
  /\ nsSymbols \in [Namespace -> [Name -> Live(k)]]
  /\ symbols \in [Scope -> [Name -> Live(k)]]
  /\ engineFns \in [Name -> LiveClosure(k) \cup {Unbound}]

(* TypeOK without the tables.                                              *)
RestTypeOK ==
  /\ current \in Namespace
  /\ exports \in [Namespace -> SUBSET Name]
  /\ imports \in [Namespace -> Seq(Namespace)]
  /\ constants \subseteq Namespace \X Name
  /\ fnDefinitions \subseteq Namespace \X Name
  /\ scopes \in Scope
  /\ chain \in [Scope -> SUBSET Scope]
  /\ unassignedLocals \in [Scope -> SUBSET Name]
  /\ functionDefs \in [Scope -> SUBSET Name]
  /\ isCallFrame \subseteq Scope
  /\ actsAsRoot \subseteq Scope
  /\ homeNs \in [Scope -> Namespace \cup {Bare}]
  /\ fnBodyDepth \in [Scope -> Nat]
  /\ stack \in Seq(Frame) /\ stack # <<>>
  /\ raising \in BOOLEAN
  /\ ops \in Nat
  /\ outerNs \in Namespace

-----------------------------------------------------------------------------
(* Nearest scope, first import                                             *)

(* A nonempty set of naturals has a least element: the first import.       *)
LEMMA LeastProperties ==
  ASSUME NEW S \in SUBSET Nat, S # {}
  PROVE  Least(S) \in S /\ \A t \in S : Least(S) <= t
<1>1. PICK x \in S : \A y \in S : ~(<<y, x>> \in OpToRel(<, Nat))
  BY NatLessThanWellFounded, WFMin
<1>2. \A y \in S : <<y, x>> \in OpToRel(<, Nat) <=> y < x
  BY DEF OpToRel
<1>3. \A y \in S : ~(y < x)
  BY <1>1, <1>2, Zenon
<1>4. \A y \in S : x <= y
  BY <1>3
<1> QED
  BY <1>4 DEF Least

(* Every nonempty set of scopes has a nearest one, which is what Innermost  *)
(* returns: walks up a chain that can stop do stop at it.                  *)
LEMMA InnermostProperties ==
  ASSUME NEW S \in SUBSET Scope, S # {}
  PROVE  Innermost(S) \in S /\ \A t \in S : t <= Innermost(S)
<1> DEFINE D == {MaxScopes - s : s \in S}
<1>1. MaxScopes \in Nat /\ S \subseteq Int /\ \A s \in S : s <= MaxScopes
  BY RegistryAssumption DEF Scope
<1>2. \A s \in S : MaxScopes - s \in Nat
  BY <1>1
<1>3. D \subseteq Nat /\ D # {}
  BY <1>2
<1>4. Least(D) \in D /\ \A d \in D : Least(D) <= d
  BY <1>3, LeastProperties
<1>5. PICK x \in S : MaxScopes - x = Least(D)
  BY <1>4
<1>6. \A t \in S : MaxScopes - x <= MaxScopes - t
  BY <1>4, <1>5
<1>7. \A t \in S : t <= x
  BY <1>1, <1>6
<1> QED
  BY <1>7 DEF Innermost
-----------------------------------------------------------------------------
(* What the invariant says of the running statement and of every lookup    *)

(* There is always a running statement, and its scope exists.              *)
LEMMA TopProperties ==
  ASSUME IInv
  PROVE  /\ scopes \in Nat \ {0} /\ Created \subseteq Scope
         /\ Len(stack) \in Nat \ {0} /\ DOMAIN stack = 1..Len(stack)
         /\ \A i \in 1..Len(stack) : stack[i] \in Frame
         /\ TopFrame \in Frame /\ Top \in Created
<1> USE DEF IInv, TypeOK
<1>1. scopes \in Nat \ {0} /\ Created \subseteq Scope
  BY RegistryAssumption DEF Scope, Created
<1>2. /\ Len(stack) \in Nat \ {0} /\ DOMAIN stack = 1..Len(stack)
      /\ \A i \in 1..Len(stack) : stack[i] \in Frame
  BY EmptySeq, LenProperties, ElementOfSeq
<1>3. Len(stack) \in 1..Len(stack)
  BY <1>2
<1>4. TopFrame \in Frame
  BY <1>2, <1>3 DEF TopFrame
<1>5. Top \in Created
  BY <1>2, <1>3 DEF TopFrame, Top, StackInv
<1> QED
  BY <1>1, <1>2, <1>4, <1>5

(* A live value is a value of the tables, and its closure's scope is one of *)
(* the first k.                                                            *)
LEMMA LiveValues ==
  ASSUME NEW k \in Scope, NEW v \in Live(k)
  PROVE  v \in Value \cup {Unbound} /\ (v \in Closure => v.env \in 1..k)
<1>1. 1..k \subseteq Scope
  BY RegistryAssumption DEF Scope
<1>2. CASE v \in LiveClosure(k)
  BY <1>1, <1>2 DEF LiveClosure, Closure, Value
<1>3. CASE v \in Data \cup {Unbound}
  BY <1>3, ValueAssumption DEF Value
<1> QED
  BY <1>2, <1>3 DEF Live

(* What is live stays live when scopes are added.                          *)
LEMMA LiveMonotone ==
  ASSUME NEW j \in Nat, NEW k \in Nat, j <= k
  PROVE  Live(j) \subseteq Live(k)
<1>1. 1..j \subseteq 1..k
  OBVIOUS
<1> QED
  BY <1>1 DEF Live, LiveClosure

(* Every table holds live values only.                                     *)
LEMMA LiveTables ==
  ASSUME IInv
  PROVE  TablesLive(scopes) /\ RestTypeOK
<1>1. \A v \in Value \cup {Unbound} :
        (v \in Closure => v.env \in Created) => v \in Live(scopes)
  BY DEF Value, Closure, Live, LiveClosure, Created
<1>2. /\ nsSymbols \in [Namespace -> [Name -> Value \cup {Unbound}]]
      /\ symbols \in [Scope -> [Name -> Value \cup {Unbound}]]
      /\ engineFns \in [Name -> Value \cup {Unbound}]
  BY DEF IInv, TypeOK, RegistryTypeOK, Value
<1>3. ClosuresLive
  BY DEF IInv
<1>4. \A m \in Namespace, n \in Name : nsSymbols[m][n] \in Live(scopes)
  <2> TAKE m \in Namespace, n \in Name
  <2>1. nsSymbols[m][n] \in Value \cup {Unbound}
    BY <1>2
  <2>2. nsSymbols[m][n] \in Closure => nsSymbols[m][n].env \in Created
    BY <1>3 DEF ClosuresLive
  <2> QED
    BY <1>1, <2>1, <2>2
<1>5. \A s \in Scope, n \in Name : symbols[s][n] \in Live(scopes)
  <2> TAKE s \in Scope, n \in Name
  <2>1. symbols[s][n] \in Value \cup {Unbound}
    BY <1>2
  <2>2. symbols[s][n] \in Closure => symbols[s][n].env \in Created
    BY <1>3 DEF ClosuresLive
  <2> QED
    BY <1>1, <2>1, <2>2
<1>6. \A n \in Name : engineFns[n] \in LiveClosure(scopes) \cup {Unbound}
  <2> TAKE n \in Name
  <2>1. engineFns[n] \in Closure \cup {Unbound}
    BY DEF IInv, TypeOK
  <2>2. engineFns[n] \in Closure => engineFns[n].env \in Created
    BY <1>3 DEF ClosuresLive
  <2> QED
    BY <2>1, <2>2 DEF Closure, LiveClosure, Created
<1>7. RestTypeOK
  BY DEF IInv, TypeOK, RegistryTypeOK, RestTypeOK
<1> QED
  BY <1>2, <1>4, <1>5, <1>6, <1>7 DEF TablesLive

(* Environment::lookup yields a live value or nothing, for any scope that   *)
(* exists: no call can start in a scope that was never created.            *)
LEMMA LookupLive ==
  ASSUME IInv, NEW e \in Created, NEW n \in Name, NEW q \in Qualifier
  PROVE  Lookup(e, n, q) \in Live(scopes)
<1>1. /\ nsSymbols \in [Namespace -> [Name -> Live(scopes)]]
      /\ symbols \in [Scope -> [Name -> Live(scopes)]]
      /\ engineFns \in [Name -> Live(scopes)]
      /\ Unbound \in Live(scopes)
  <2>1. TablesLive(scopes)
    BY LiveTables
  <2>2. engineFns \in [Name -> LiveClosure(scopes) \cup {Unbound}]
    BY <2>1 DEF TablesLive
  <2> QED
    BY <2>1, <2>2 DEF TablesLive, Live
<1>2. chain[e] \subseteq Scope
  BY TopProperties DEF IInv, TypeOK
<1>3. Lexical(e, n) \in Live(scopes)
  <2>1. BoundOn(e, n) \in SUBSET Scope
    BY <1>2 DEF BoundOn
  <2>2. CASE BoundOn(e, n) = {}
    BY <1>1, <2>2 DEF Lexical
  <2>3. CASE BoundOn(e, n) # {}
    BY <1>1, <2>1, <2>3, InnermostProperties DEF Lexical
  <2> QED
    BY <2>2, <2>3
<1>4. FromImports(n) \in Live(scopes)
  <2>1. current \in Namespace /\ imports[current] \in Seq(Namespace)
    BY DEF IInv, TypeOK, RegistryTypeOK
  <2>2. /\ DOMAIN imports[current] = 1..Len(imports[current])
        /\ Len(imports[current]) \in Nat
    BY <2>1, LenProperties
  <2>3. \A i \in DOMAIN imports[current] : imports[current][i] \in Namespace
    BY <2>1, <2>2, ElementOfSeq
  <2>4. /\ ImportsShowing(n) \in SUBSET Nat
        /\ ImportsShowing(n) \subseteq DOMAIN imports[current]
    BY <2>2 DEF ImportsShowing
  <2>5. CASE ImportsShowing(n) = {}
    BY <1>1, <2>5 DEF FromImports
  <2>6. CASE ImportsShowing(n) # {}
    <3>1. Least(ImportsShowing(n)) \in DOMAIN imports[current]
      BY <2>4, <2>6, LeastProperties
    <3> QED
      BY <1>1, <2>3, <2>6, <3>1 DEF FromImports
  <2> QED
    BY <2>5, <2>6
<1>5. ResolveBare(n) \in Live(scopes)
  <2>1. current \in Namespace /\ Default \in Namespace /\ Kap \in Namespace
    BY RegistryAssumption DEF IInv, TypeOK, RegistryTypeOK
  <2> QED
    BY <1>1, <1>4, <2>1 DEF ResolveBare, Or
<1>6. HomeAnchor(e, n) \in Live(scopes)
  <2> DEFINE homes == {s \in chain[e] : /\ homeNs[s] # Bare
                                        /\ nsSymbols[homeNs[s]][n] # Unbound}
  <2>1. homes \in SUBSET Scope
    BY <1>2
  <2>2. CASE homes = {}
    BY <1>1, <2>2 DEF HomeAnchor
  <2>3. CASE homes # {}
    <3>1. Innermost(homes) \in homes
      BY <2>1, <2>3, InnermostProperties
    <3>2. homeNs[Innermost(homes)] \in Namespace
      BY <2>1, <3>1 DEF IInv, TypeOK
    <3> QED
      BY <1>1, <2>3, <3>2 DEF HomeAnchor
  <2> QED
    BY <2>2, <2>3
<1> QED
  BY <1>1, <1>3, <1>5, <1>6 DEF Lookup, Or, Qualifier

-----------------------------------------------------------------------------
(* What a step must leave behind                                           *)

(* Function literals written in the running scope are live.                *)
LEMMA LiteralsLive ==
  ASSUME IInv
  PROVE  /\ Literal \subseteq Live(scopes)
         /\ \A sealed \in BOOLEAN, p \in Params :
              FnLiteral(Top, sealed, p) \in LiveClosure(scopes)
<1>1. \A sealed \in BOOLEAN, p \in Params :
        FnLiteral(Top, sealed, p) \in LiveClosure(scopes)
  BY TopProperties, ScopesAssumption DEF FnLiteral, LiveClosure, Created
<1> QED
  BY <1>1 DEF Literal, Live

(* Typed parts and live tables make the typing conjuncts of IInv.          *)
LEMMA PartsMakeTypes ==
  ASSUME RestTypeOK', TablesLive(scopes)'
  PROVE  TypeOK' /\ ClosuresLive'
<1>1. scopes' \in Scope
  BY DEF RestTypeOK
<1>2. \A v \in Live(scopes') :
        v \in Value \cup {Unbound} /\ (v \in Closure => v.env \in 1..scopes')
  BY <1>1, LiveValues
<1>3. /\ nsSymbols' \in [Namespace -> [Name -> Live(scopes')]]
      /\ symbols' \in [Scope -> [Name -> Live(scopes')]]
      /\ engineFns' \in [Name -> LiveClosure(scopes') \cup {Unbound}]
  BY DEF TablesLive
<1>4. /\ nsSymbols' \in [Namespace -> [Name -> Value \cup {Unbound}]]
      /\ symbols' \in [Scope -> [Name -> Value \cup {Unbound}]]
  BY <1>2, <1>3
<1>5. /\ LiveClosure(scopes') \subseteq Closure
      /\ LiveClosure(scopes') \subseteq Live(scopes')
  BY <1>1, RegistryAssumption DEF LiveClosure, Closure, Scope, Live
<1>6. engineFns' \in [Name -> Closure \cup {Unbound}]
  BY <1>3, <1>5
<1>7. ClosuresLive'
  <2>1. \A m \in Namespace, n \in Name : nsSymbols'[m][n] \in Live(scopes')
    BY <1>3
  <2>2. \A s \in Scope, n \in Name : symbols'[s][n] \in Live(scopes')
    BY <1>3
  <2>3. \A n \in Name : engineFns'[n] \in Live(scopes')
    BY <1>3, <1>5 DEF Live
  <2> QED
    BY <1>2, <2>1, <2>2, <2>3 DEF ClosuresLive, Created
<1> QED
  BY <1>4, <1>6, <1>7 DEF RestTypeOK, TypeOK, RegistryTypeOK

(* A step that creates no scope and starts or ends no evaluation keeps the  *)
(* shape of the arena and of the stack.                                    *)
LEMMA ShapeKept ==
  ASSUME IInv, UNCHANGED <<scopes, chain, stack, fnBodyDepth>>
  PROVE  StackInv' /\ ScopeTree'
BY DEF IInv, StackInv, ScopeTree, Created

-----------------------------------------------------------------------------
(* The invariant is kept: assignments and definitions                      *)

(* The namespace a definition of q:n goes to is a namespace.               *)
LEMMA DefNsTyped ==
  ASSUME IInv, NEW q \in Qualifier
  PROVE  DefNs(q) \in Namespace
BY DEF IInv, TypeOK, RegistryTypeOK, DefNs, Qualifier

(* An assignment, in whatever scope or namespace it ends up binding.       *)
LEMMA AssignKeepsInv ==
  ASSUME IInv, NEW n \in Name, NEW q \in Qualifier, NEW v \in Literal,
         Assign(n, q, v)
  PROVE  IInv'
<1>1. TablesLive(scopes) /\ RestTypeOK /\ v \in Live(scopes)
  BY LiveTables, LiteralsLive
<1>2. UNCHANGED <<scopes, chain, stack, fnBodyDepth>>
  BY DEF Assign
<1>3. fnDefinitions' \subseteq Namespace \X Name /\ ops' \in Nat
  BY <1>1 DEF Assign, Statement, UnmarkFnDef, RestTypeOK
<1>4. /\ symbols' \in [Scope -> [Name -> Live(scopes)]]
      /\ unassignedLocals' \in [Scope -> SUBSET Name]
      /\ nsSymbols' \in [Namespace -> [Name -> Live(scopes)]]
  <2>1. CASE /\ BindIn(BindScope(Top, n), n, v)
             /\ UNCHANGED nsSymbols
    BY <1>1, <2>1 DEF BindIn, TablesLive, RestTypeOK
  <2>2. CASE /\ NsDefine(DefNs(q), n, v)
             /\ UNCHANGED <<symbols, unassignedLocals>>
    BY <1>1, <2>2, DefNsTyped DEF NsDefine, TablesLive, RestTypeOK
  <2> QED
    BY <2>1, <2>2 DEF Assign
<1>5. RestTypeOK'
  BY <1>1, <1>3, <1>4 DEF Assign, RestTypeOK
<1>6. TablesLive(scopes)'
  BY <1>1, <1>2, <1>4 DEF Assign, TablesLive
<1> QED
  BY <1>2, <1>5, <1>6, PartsMakeTypes, ShapeKept DEF IInv

(* A definition with a double arrow: lexical below the root, else module.   *)
LEMMA DefineFnKeepsInv ==
  ASSUME IInv, NEW n \in Name, NEW q \in Qualifier, NEW p \in Params,
         NEW written \in SUBSET Name, DefineFn(n, q, p, written)
  PROVE  IInv'
<1> DEFINE f == FnLiteral(Top, FALSE, p)
<1>1. TablesLive(scopes) /\ RestTypeOK /\ f \in Live(scopes)
  BY LiveTables, LiteralsLive DEF Live
<1>2. UNCHANGED <<scopes, chain, stack, fnBodyDepth>>
  BY DEF DefineFn
<1>3. DefNs(q) \in Namespace /\ Top \in Scope
  BY DefNsTyped, TopProperties
<1>4. /\ fnDefinitions' \subseteq Namespace \X Name
      /\ functionDefs' \in [Scope -> SUBSET Name]
      /\ raising' \in BOOLEAN /\ ops' \in Nat
  BY <1>1, <1>3 DEF DefineFn, Statement, MarkFnDef, RestTypeOK
<1>5. /\ symbols' \in [Scope -> [Name -> Live(scopes)]]
      /\ nsSymbols' \in [Namespace -> [Name -> Live(scopes)]]
  <2>1. CASE /\ symbols' = [symbols EXCEPT ![Top][n] = f]
             /\ UNCHANGED nsSymbols
    BY <1>1, <2>1 DEF TablesLive
  <2>2. CASE NsDefine(DefNs(q), n, f) /\ UNCHANGED symbols
    BY <1>1, <1>3, <2>2 DEF NsDefine, TablesLive
  <2> QED
    BY <2>1, <2>2 DEF DefineFn
<1>6. RestTypeOK'
  BY <1>1, <1>4 DEF DefineFn, RestTypeOK
<1>7. TablesLive(scopes)'
  BY <1>1, <1>2, <1>5 DEF DefineFn, TablesLive
<1> QED
  BY <1>2, <1>6, <1>7, PartsMakeTypes, ShapeKept DEF IInv

(* A nabla definition: the engine-global table.                            *)
LEMMA DefineTradFnKeepsInv ==
  ASSUME IInv, NEW n \in Name, NEW q \in Qualifier, NEW p \in Params,
         DefineTradFn(n, q, p)
  PROVE  IInv'
<1>1. TablesLive(scopes) /\ RestTypeOK
  BY LiveTables
<1>2. UNCHANGED <<scopes, chain, stack, fnBodyDepth>>
  BY DEF DefineTradFn
<1>3. DefNs(q) \in Namespace /\ Top \in Scope
  BY DefNsTyped, TopProperties
<1>4. FnLiteral(Top, TRUE, p) \in LiveClosure(scopes)
  BY LiteralsLive
<1>5. RestTypeOK'
  BY <1>1, <1>3 DEF DefineTradFn, Statement, MarkFnDef, RestTypeOK
<1>6. TablesLive(scopes)'
  BY <1>1, <1>2, <1>4 DEF DefineTradFn, TablesLive
<1> QED
  BY <1>2, <1>5, <1>6, PartsMakeTypes, ShapeKept DEF IInv

-----------------------------------------------------------------------------
(* The invariant is kept: evaluations that start and end                   *)

(* Environment::child under a scope that exists, with live bindings: the    *)
(* new scope extends the parent's chain, and its body depth is counted     *)
(* from zero.                                                              *)
LEMMA OpenScopeKeepsInv ==
  ASSUME IInv,
         NEW parent \in Created, NEW kind \in {"fn", "block", "macro", "file"},
         NEW bindings \in [Name -> Live(scopes)],
         OpenScope(parent, kind, bindings),
         ops' \in Nat, isCallFrame' \subseteq Scope, actsAsRoot' \subseteq Scope,
         homeNs' \in [Scope -> Namespace \cup {Bare}],
         fnBodyDepth' = IF kind = "fn"
                        THEN [fnBodyDepth EXCEPT ![scopes + 1] = @ + 1]
                        ELSE fnBodyDepth
  PROVE  IInv'
<1> DEFINE new == scopes + 1
           frame == [kind |-> kind, env |-> new, savedNs |-> current]
<1>1. TablesLive(scopes) /\ RestTypeOK /\ StackInv /\ ScopeTree
  BY LiveTables DEF IInv
<1>2. /\ scopes \in Nat /\ scopes' = new /\ new \in Scope
      /\ Created' = Created \cup {new} /\ new \notin Created
      /\ \A s \in Created : s < new
  <2>1. scopes \in Nat /\ scopes < MaxScopes /\ scopes' = new
    BY TopProperties DEF OpenScope
  <2>2. new \in Scope
    BY <2>1, RegistryAssumption DEF Scope
  <2> QED
    BY <2>1, <2>2 DEF Created
<1>3. Created \subseteq Scope /\ parent \in Scope
  BY TopProperties
<1>4. Live(scopes) \subseteq Live(scopes')
  BY <1>2, LiveMonotone
<1>5. TablesLive(scopes)'
  <2>1. LiveClosure(scopes) \subseteq LiveClosure(scopes')
    BY <1>2 DEF LiveClosure
  <2>2. engineFns' \in [Name -> LiveClosure(scopes') \cup {Unbound}]
    BY <1>1, <2>1 DEF TablesLive, OpenScope
  <2>3. symbols' \in [Scope -> [Name -> Live(scopes')]]
    <3>1. symbols \in [Scope -> [Name -> Live(scopes')]]
      BY <1>1, <1>4 DEF TablesLive
    <3>2. bindings \in [Name -> Live(scopes')]
      BY <1>4
    <3>3. symbols' = [symbols EXCEPT ![new] = bindings]
      BY DEF OpenScope
    <3> QED
      BY <3>1, <3>2, <3>3
  <2>4. nsSymbols' \in [Namespace -> [Name -> Live(scopes')]]
    BY <1>1, <1>4 DEF TablesLive, OpenScope, regVars
  <2> QED
    BY <2>2, <2>3, <2>4 DEF TablesLive
<1>6. /\ frame \in Frame
      /\ stack' = Append(stack, frame)
      /\ stack' \in Seq(Frame) /\ stack' # <<>>
      /\ Len(stack') = Len(stack) + 1
      /\ DOMAIN stack' = 1..(Len(stack) + 1)
      /\ \A i \in 1..Len(stack) : stack'[i] = stack[i]
      /\ stack'[Len(stack) + 1] = frame
  <2>1. frame \in Frame
    BY <1>1, <1>2 DEF Frame, RestTypeOK
  <2>2. stack' = Append(stack, frame)
    BY DEF OpenScope
  <2>3. stack \in Seq(Frame)
    BY <1>1 DEF RestTypeOK
  <2> QED
    BY <2>1, <2>2, <2>3, AppendProperties, LenProperties, EmptySeq
<1>7. RestTypeOK'
  <2>1. chain' \in [Scope -> SUBSET Scope]
    BY <1>1, <1>2, <1>3 DEF OpenScope, RestTypeOK
  <2>2. functionDefs' \in [Scope -> SUBSET Name]
    BY <1>1, <1>2, <1>3 DEF OpenScope, RestTypeOK
  <2>3. fnBodyDepth' \in [Scope -> Nat]
    BY <1>1, <1>2 DEF RestTypeOK
  <2> QED
    BY <1>1, <1>2, <1>6, <2>1, <2>2, <2>3 DEF OpenScope, RestTypeOK, regVars
<1>8. StackInv'
  <2>1. /\ DOMAIN stack = 1..Len(stack) /\ Len(stack) \in Nat
        /\ \A i \in 1..Len(stack) : stack[i].env \in Created
    BY <1>1, TopProperties DEF StackInv
  <2>2. frame.env = new /\ frame.kind = kind
    OBVIOUS
  <2>3. \A i \in DOMAIN stack' : stack'[i].env \in Created'
    BY <1>2, <1>6, <2>1, <2>2
  <2>4. \A i, j \in DOMAIN stack' : i < j => stack'[i].env < stack'[j].env
    BY <1>1, <1>2, <1>6, <2>1, <2>2 DEF StackInv
  <2>5. ASSUME NEW s \in Scope
        PROVE  fnBodyDepth'[s] =
                 IF \E i \in DOMAIN stack' : /\ stack'[i].kind = "fn"
                                            /\ stack'[i].env = s
                 THEN 1 ELSE 0
    <3>1. fnBodyDepth[s] =
            IF \E i \in DOMAIN stack : stack[i].kind = "fn" /\ stack[i].env = s
            THEN 1 ELSE 0
      BY <1>1 DEF StackInv
    <3>2. CASE s = new
      <4>1. fnBodyDepth[new] = 0
        BY <1>2, <2>1, <3>1, <3>2
      <4>2. fnBodyDepth'[new] = IF kind = "fn" THEN 1 ELSE 0
        BY <1>1, <1>2, <4>1 DEF RestTypeOK
      <4>3. (\E i \in DOMAIN stack' : /\ stack'[i].kind = "fn"
                                      /\ stack'[i].env = new) <=> kind = "fn"
        BY <1>2, <1>6, <2>1, <2>2
      <4> QED
        BY <3>2, <4>2, <4>3
    <3>3. CASE s # new
      <4>1. fnBodyDepth'[s] = fnBodyDepth[s]
        BY <1>1, <1>2, <3>3 DEF RestTypeOK
      <4>2. (\E i \in DOMAIN stack' : /\ stack'[i].kind = "fn"
                                      /\ stack'[i].env = s)
            <=> (\E i \in DOMAIN stack : /\ stack[i].kind = "fn"
                                         /\ stack[i].env = s)
        BY <1>6, <2>1, <2>2, <3>3
      <4> QED
        BY <3>1, <4>1, <4>2
    <3> QED
      BY <3>2, <3>3
  <2> QED
    BY <2>3, <2>4, <2>5 DEF StackInv
<1>9. ScopeTree'
  <2>1. chain' = [chain EXCEPT ![new] = chain[parent] \cup {new}]
    BY DEF OpenScope
  <2>2. /\ chain'[new] = chain[parent] \cup {new}
        /\ \A s \in Created : chain'[s] = chain[s]
    BY <1>1, <1>2, <1>3, <2>1 DEF RestTypeOK
  <2>3. /\ {1, parent} \subseteq chain[parent] /\ chain[parent] \subseteq 1..parent
        /\ \A t \in chain[parent] : chain[t] = chain[parent] \cap 1..t
    BY <1>1 DEF ScopeTree
  <2>4. chain[parent] \subseteq Created
    BY <1>2, <2>3 DEF Created
  <2>5. ASSUME NEW s \in Created
        PROVE  /\ {1, s} \subseteq chain'[s] /\ chain'[s] \subseteq 1..s
               /\ \A t \in chain'[s] : chain'[t] = chain'[s] \cap 1..t
    <3>1. /\ {1, s} \subseteq chain[s] /\ chain[s] \subseteq 1..s
          /\ \A t \in chain[s] : chain[t] = chain[s] \cap 1..t
      BY <1>1 DEF ScopeTree
    <3>2. chain[s] \subseteq Created
      BY <1>2, <3>1 DEF Created
    <3> QED
      BY <2>2, <3>1, <3>2
  <2>6. /\ {1, new} \subseteq chain'[new] /\ chain'[new] \subseteq 1..new
        /\ \A t \in chain'[new] : chain'[t] = chain'[new] \cap 1..t
    <3>1. {1, new} \subseteq chain'[new] /\ chain'[new] \subseteq 1..new
      BY <1>2, <2>2, <2>3, <2>4 DEF Created
    <3>2. chain'[new] = chain'[new] \cap 1..new
      BY <3>1
    <3>3. ASSUME NEW t \in chain[parent]
          PROVE  chain'[t] = chain'[new] \cap 1..t
      <4>1. t \in Created /\ t < new /\ t \in Nat
        BY <1>2, <2>4 DEF Created
      <4>2. chain'[t] = chain[parent] \cap 1..t
        BY <2>2, <2>3, <4>1
      <4>3. new \notin 1..t
        BY <1>2, <4>1
      <4> QED
        BY <2>2, <4>2, <4>3
    <3> QED
      BY <2>2, <3>1, <3>2, <3>3
  <2> QED
    BY <1>2, <2>5, <2>6 DEF ScopeTree
<1> QED
  BY <1>5, <1>7, <1>8, <1>9, PartsMakeTypes DEF IInv

(* apply_user_fn starts a body under the scope its closure captured.       *)
LEMMA ApplyUserFnKeepsInv ==
  ASSUME IInv, NEW f \in LiveClosure(scopes), NEW self \in SUBSET Name,
         NEW v \in Data, ApplyUserFn(f, self, v)
  PROVE  IInv'
<1> DEFINE bindings == [n \in Name |-> IF n \in self THEN f
                                       ELSE IF n = f.param THEN v
                                       ELSE Unbound]
<1>1. f \in Live(scopes) /\ v \in Live(scopes) /\ Unbound \in Live(scopes)
  BY DEF Live
<1>2. f.env \in Created
  BY DEF LiveClosure, Created
<1>3. bindings \in [Name -> Live(scopes)]
  BY <1>1
<1>4. RestTypeOK
  BY LiveTables
<1>5. scopes + 1 \in Scope
  BY TopProperties, RegistryAssumption DEF ApplyUserFn, OpenScope, Scope
<1>6. OpenScope(f.env, "fn", bindings)
  BY DEF ApplyUserFn
<1>7. ops' \in Nat /\ isCallFrame' \subseteq Scope /\ actsAsRoot' \subseteq Scope
  BY <1>4, <1>5 DEF ApplyUserFn, Statement, RestTypeOK
<1>8. homeNs' \in [Scope -> Namespace \cup {Bare}]
  BY <1>4 DEF ApplyUserFn, RestTypeOK
<1>9. fnBodyDepth' = [fnBodyDepth EXCEPT ![scopes + 1] = @ + 1]
  BY DEF ApplyUserFn
<1> HIDE DEF bindings
<1> QED
  BY <1>2, <1>3, <1>6, <1>7, <1>8, <1>9, OpenScopeKeepsInv

(* Named calls, dynamic references and lambdas all apply a live closure.    *)
LEMMA CallsKeepInv ==
  ASSUME IInv, NEW v \in Data,
         \/ \E n \in Name, q \in Qualifier :
              CallFn(n, q, v) \/ ApplyDynamicRef(n, q, v)
         \/ \E p \in Params : ApplyLambda(p, v)
  PROVE  IInv'
<1>1. CASE \E n \in Name, q \in Qualifier :
             CallFn(n, q, v) \/ ApplyDynamicRef(n, q, v)
  <2>1. PICK n \in Name, q \in Qualifier :
          CallFn(n, q, v) \/ ApplyDynamicRef(n, q, v)
    BY <1>1
  <2> DEFINE f == Lookup(Top, n, q)
             self == IF q = Bare THEN {n} ELSE {}
  <2>2. f \in Live(scopes) /\ f \in Closure
    BY <2>1, TopProperties, LookupLive DEF CallFn, ApplyDynamicRef
  <2>3. f \in LiveClosure(scopes)
    BY <2>2, ValueAssumption DEF Live
  <2>4. self \in SUBSET Name /\ {} \in SUBSET Name
    OBVIOUS
  <2>5. ApplyUserFn(f, self, v) \/ ApplyUserFn(f, {}, v)
    BY <2>1 DEF CallFn, ApplyDynamicRef
  <2> HIDE DEF f, self
  <2> QED
    BY <2>3, <2>4, <2>5, ApplyUserFnKeepsInv
<1>2. CASE \E p \in Params : ApplyLambda(p, v)
  <2>1. PICK p \in Params : ApplyUserFn(FnLiteral(Top, FALSE, p), {}, v)
    BY <1>2 DEF ApplyLambda
  <2>2. FnLiteral(Top, FALSE, p) \in LiveClosure(scopes)
    BY LiteralsLive
  <2>3. {} \in SUBSET Name
    OBVIOUS
  <2> QED
    BY <2>1, <2>2, <2>3, ApplyUserFnKeepsInv
<1> QED
  BY <1>1, <1>2

(* A block, a macro and a file run in a child of the running scope.         *)
LEMMA NestedCodeKeepsInv ==
  ASSUME IInv,
         \/ ApplyBlock
         \/ \E n \in Name, v \in Data : MacroExpand(n, v)
         \/ UseFile
  PROVE  IInv'
<1>1. RestTypeOK /\ Top \in Created /\ scopes \in Nat
  BY LiveTables, TopProperties
<1>2. NoBindings \in [Name -> Live(scopes)]
  BY DEF NoBindings, Live
<1>3. CASE ApplyBlock
  <2>1. OpenScope(Top, "block", NoBindings) /\ fnBodyDepth' = fnBodyDepth
    BY <1>3 DEF ApplyBlock
  <2>2. /\ ops' \in Nat /\ isCallFrame' \subseteq Scope
        /\ actsAsRoot' \subseteq Scope
        /\ homeNs' \in [Scope -> Namespace \cup {Bare}]
    BY <1>1, <1>3 DEF ApplyBlock, Statement, RestTypeOK
  <2> QED
    BY <1>1, <1>2, <2>1, <2>2, OpenScopeKeepsInv
<1>4. CASE \E n \in Name, v \in Data : MacroExpand(n, v)
  <2>1. PICK n \in Name, v \in Data : MacroExpand(n, v)
    BY <1>4
  <2> DEFINE bindings == [NoBindings EXCEPT ![n] = v]
  <2>2. bindings \in [Name -> Live(scopes)]
    BY <1>2 DEF Live
  <2>3. OpenScope(Top, "macro", bindings) /\ fnBodyDepth' = fnBodyDepth
    BY <2>1 DEF MacroExpand
  <2>4. /\ ops' \in Nat /\ isCallFrame' \subseteq Scope
        /\ actsAsRoot' \subseteq Scope
        /\ homeNs' \in [Scope -> Namespace \cup {Bare}]
    BY <1>1, <2>1 DEF MacroExpand, Statement, RestTypeOK
  <2> HIDE DEF bindings
  <2> QED
    BY <1>1, <2>2, <2>3, <2>4, OpenScopeKeepsInv
<1>5. CASE UseFile
  <2>1. OpenScope(Top, "file", NoBindings) /\ fnBodyDepth' = fnBodyDepth
    BY <1>5 DEF UseFile
  <2>2. scopes + 1 \in Scope
    BY <1>1, <2>1, RegistryAssumption DEF OpenScope, Scope
  <2>3. /\ ops' \in Nat /\ isCallFrame' \subseteq Scope
        /\ actsAsRoot' \subseteq Scope
        /\ homeNs' \in [Scope -> Namespace \cup {Bare}]
    BY <1>1, <1>5, <2>2 DEF UseFile, Statement, RestTypeOK
  <2> QED
    BY <1>1, <1>2, <2>1, <2>3, OpenScopeKeepsInv
<1> QED
  BY <1>3, <1>4, <1>5

(* Leaving drops the last frame and keeps the others.                      *)
LEMMA StackPopped ==
  ASSUME IInv, Leave
  PROVE  /\ Len(stack) \in Nat \ {0, 1}
         /\ DOMAIN stack = 1..Len(stack)
         /\ stack' \in Seq(Frame) /\ Len(stack') = Len(stack) - 1
         /\ DOMAIN stack' = 1..(Len(stack) - 1)
         /\ \A i \in 1..(Len(stack) - 1) : stack'[i] = stack[i]
<1> DEFINE last == Len(stack)
<1>1. last \in Nat \ {0, 1} /\ DOMAIN stack = 1..last
  BY TopProperties DEF Leave, Pop
<1>2. stack' = SubSeq(stack, 1, last - 1) /\ stack \in Seq(Frame)
  BY DEF Leave, Pop, IInv, TypeOK
<1>3. /\ last - 1 \in Nat /\ 1 <= last - 1 /\ last - 1 <= last
      /\ 1 \in 1..(last + 1) /\ last - 1 \in 0..last
      /\ (last - 1) - 1 + 1 = last - 1
  BY <1>1
<1>4. \A i \in 1..(last - 1) : 1 + i - 1 = i
  OBVIOUS
<1>5. /\ stack' \in Seq(Frame)
      /\ Len(stack') = IF 1 <= last - 1 THEN (last - 1) - 1 + 1 ELSE 0
      /\ \A i \in 1..((last - 1) - 1 + 1) : stack'[i] = stack[1 + i - 1]
  BY <1>2, <1>3, SubSeqProperties
<1> HIDE DEF last
<1>6. Len(stack') = last - 1
  BY <1>3, <1>5
<1>7. \A i \in 1..(last - 1) : stack'[i] = stack[i]
  BY <1>3, <1>4, <1>5
<1> QED
  BY <1>1, <1>5, <1>6, <1>7, LenProperties DEF last

(* The innermost evaluation ends.  It is the only body in its scope, so     *)
(* taking one off its depth leaves none.                                   *)
LEMMA LeaveKeepsInv ==
  ASSUME IInv, Leave
  PROVE  IInv'
<1> DEFINE last == Len(stack)
<1>1. TablesLive(scopes) /\ RestTypeOK /\ StackInv /\ ScopeTree
  BY LiveTables DEF IInv
<1>2. /\ last \in Nat \ {0, 1}
      /\ DOMAIN stack = 1..last
      /\ \A i \in 1..last : stack[i] \in Frame
      /\ Top \in Scope
  BY TopProperties DEF Leave, Pop
<1>3. /\ stack' \in Seq(Frame) /\ Len(stack') = last - 1
      /\ DOMAIN stack' = 1..(last - 1)
      /\ \A i \in 1..(last - 1) : stack'[i] = stack[i]
  BY StackPopped
<1>4. stack' # <<>>
  BY <1>2, <1>3
<1>5. current' \in Namespace
  <2>1. TopFrame.savedNs \in Namespace
    BY TopProperties DEF Frame
  <2> QED
    BY <1>1, <2>1 DEF Leave, RestoreNs, RestTypeOK
<1>6. UNCHANGED <<nsSymbols, exports, imports, constants, fnDefinitions,
                  scopes, chain, symbols, unassignedLocals, functionDefs,
                  isCallFrame, actsAsRoot, homeNs, engineFns, raising, ops,
                  outerNs>>
  BY DEF Leave, LeaveUnchanged
<1>7. fnBodyDepth' = [fnBodyDepth EXCEPT ![Top] =
                        IF TopFrame.kind = "fn" THEN @ - 1 ELSE @]
  BY DEF Leave, EndBody
<1>8. TopFrame = stack[last] /\ Top = stack[last].env
  BY DEF TopFrame, Top
<1>9. \A i \in 1..(last - 1) : stack[i].env # Top
  <2>1. \A i \in 1..(last - 1) : stack[i].env < stack[last].env
    BY <1>1, <1>2 DEF StackInv
  <2>2. \A i \in 1..(last - 1) : stack[i].env \in Nat
    BY <1>2 DEF Frame, Scope
  <2> QED
    BY <1>8, <2>1, <2>2
<1>10. ASSUME NEW s \in Scope
       PROVE  /\ fnBodyDepth'[s] \in Nat
              /\ fnBodyDepth'[s] =
                   IF \E i \in DOMAIN stack' : /\ stack'[i].kind = "fn"
                                               /\ stack'[i].env = s
                   THEN 1 ELSE 0
  <2>1. fnBodyDepth[s] =
          IF \E i \in 1..last : stack[i].kind = "fn" /\ stack[i].env = s
          THEN 1 ELSE 0
    BY <1>1, <1>2 DEF StackInv
  <2>2. (\E i \in DOMAIN stack' : /\ stack'[i].kind = "fn"
                                  /\ stack'[i].env = s)
        <=> (\E i \in 1..(last - 1) : /\ stack[i].kind = "fn"
                                      /\ stack[i].env = s)
    BY <1>3
  <2>3. CASE s = Top
    <3>1. ~ \E i \in 1..(last - 1) : /\ stack[i].kind = "fn"
                                     /\ stack[i].env = s
      BY <1>9, <2>3
    <3>2. fnBodyDepth[s] = IF TopFrame.kind = "fn" THEN 1 ELSE 0
      BY <1>2, <1>8, <2>1, <2>3, <3>1
    <3>3. fnBodyDepth'[s] = 0
      BY <1>1, <1>2, <1>7, <2>3, <3>2 DEF RestTypeOK
    <3> QED
      BY <2>2, <3>1, <3>3
  <2>4. CASE s # Top
    <3>1. fnBodyDepth'[s] = fnBodyDepth[s]
      BY <1>1, <1>2, <1>7, <2>4 DEF RestTypeOK
    <3>2. (\E i \in 1..last : stack[i].kind = "fn" /\ stack[i].env = s)
          <=> (\E i \in 1..(last - 1) : /\ stack[i].kind = "fn"
                                        /\ stack[i].env = s)
      BY <1>2, <1>8, <2>4
    <3> QED
      BY <2>1, <2>2, <3>1, <3>2
  <2> QED
    BY <2>3, <2>4
<1>11. RestTypeOK'
  <2>1. fnBodyDepth' \in [Scope -> Nat]
    BY <1>1, <1>7, <1>10 DEF RestTypeOK
  <2> QED
    BY <1>1, <1>3, <1>4, <1>5, <1>6, <2>1 DEF RestTypeOK
<1>12. TablesLive(scopes)'
  BY <1>1, <1>6 DEF TablesLive
<1>13. StackInv'
  <2>1. \A i \in DOMAIN stack' : stack'[i].env \in Created'
    BY <1>1, <1>2, <1>3, <1>6 DEF StackInv, Created
  <2>2. \A i, j \in DOMAIN stack' : i < j => stack'[i].env < stack'[j].env
    BY <1>1, <1>2, <1>3 DEF StackInv
  <2> QED
    BY <1>10, <2>1, <2>2 DEF StackInv
<1>14. ScopeTree'
  BY <1>1, <1>6 DEF ScopeTree, Created
<1> QED
  BY <1>11, <1>12, <1>13, <1>14, PartsMakeTypes DEF IInv

(* A step that touches no table and neither starts nor ends an evaluation   *)
(* keeps the invariant if it keeps the types.                              *)
LEMMA TablesUntouchedKeepInv ==
  ASSUME IInv, RestTypeOK',
         UNCHANGED <<nsSymbols, symbols, engineFns, scopes, chain, stack,
                     fnBodyDepth>>
  PROVE  IInv'
<1>1. TablesLive(scopes)'
  BY LiveTables DEF TablesLive
<1> QED
  BY <1>1, PartsMakeTypes, ShapeKept DEF IInv

(* Directives, a file's next statement, failures and stuttering.           *)
LEMMA OtherStepsKeepInv ==
  ASSUME IInv,
         \/ \E n \in Name, q \in Qualifier : AssignConstant(n, q)
         \/ \E n \in Name : \/ DeclareLocal(n)
                            \/ DeclareConst(n)
                            \/ DeclareExport(n)
         \/ \E m \in Namespace : Import(m) \/ SetNamespace(m)
         \/ NextFileStatement
         \/ Errors
         \/ UNCHANGED vars
  PROVE  IInv'
<1> USE DEF Statement, Raise
<1>1. RestTypeOK /\ Top \in Scope /\ current \in Namespace
  BY LiveTables, TopProperties DEF RestTypeOK
<1>2. CASE \E n \in Name, q \in Qualifier : AssignConstant(n, q)
  <2>1. /\ UNCHANGED <<regVars, lexVars, stack, outerNs>>
        /\ raising' \in BOOLEAN /\ ops' \in Nat
    BY <1>1, <1>2 DEF AssignConstant, RestTypeOK
  <2> QED
    BY <1>1, <2>1, TablesUntouchedKeepInv DEF RestTypeOK, regVars, lexVars
<1>3. CASE \E n \in Name : DeclareLocal(n)
  <2>1. PICK n \in Name : DeclareLocal(n)
    BY <1>3
  <2>2. unassignedLocals' \in [Scope -> SUBSET Name] /\ ops' \in Nat
    BY <1>1, <2>1 DEF DeclareLocal, RestTypeOK
  <2> QED
    BY <1>1, <2>1, <2>2, TablesUntouchedKeepInv
       DEF DeclareLocal, RestTypeOK, regVars
<1>4. CASE \E n \in Name : DeclareConst(n)
  <2>1. PICK n \in Name : DeclareConst(n)
    BY <1>4
  <2>2. constants' \subseteq Namespace \X Name /\ ops' \in Nat
    BY <1>1, <2>1 DEF DeclareConst, RestTypeOK
  <2> QED
    BY <1>1, <2>1, <2>2, TablesUntouchedKeepInv
       DEF DeclareConst, RestTypeOK, lexVars
<1>5. CASE \E n \in Name : DeclareExport(n)
  <2>1. PICK n \in Name : DeclareExport(n)
    BY <1>5
  <2>2. exports' \in [Namespace -> SUBSET Name] /\ ops' \in Nat
    BY <1>1, <2>1 DEF DeclareExport, RestTypeOK
  <2> QED
    BY <1>1, <2>1, <2>2, TablesUntouchedKeepInv
       DEF DeclareExport, RestTypeOK, lexVars
<1>6. CASE \E m \in Namespace : Import(m)
  <2>1. PICK m \in Namespace : Import(m)
    BY <1>6
  <2>2. Append(imports[current], m) \in Seq(Namespace)
    BY <1>1, AppendProperties DEF RestTypeOK
  <2>3. imports' \in [Namespace -> Seq(Namespace)] /\ ops' \in Nat
    BY <1>1, <2>1, <2>2 DEF Import, RestTypeOK
  <2> QED
    BY <1>1, <2>1, <2>3, TablesUntouchedKeepInv
       DEF Import, RestTypeOK, lexVars
<1>7. CASE \E m \in Namespace : SetNamespace(m)
  <2>1. PICK m \in Namespace : SetNamespace(m)
    BY <1>7
  <2>2. current' \in Namespace /\ outerNs' \in Namespace /\ ops' \in Nat
    BY <1>1, <2>1 DEF SetNamespace, RestTypeOK
  <2> QED
    BY <1>1, <2>1, <2>2, TablesUntouchedKeepInv
       DEF SetNamespace, RestTypeOK, lexVars
<1>8. CASE NextFileStatement
  <2>1. homeNs' \in [Scope -> Namespace \cup {Bare}]
    BY <1>1, <1>8 DEF NextFileStatement, RestTypeOK
  <2> QED
    BY <1>1, <1>8, <2>1, TablesUntouchedKeepInv
       DEF NextFileStatement, RestTypeOK, regVars, ctlVars
<1>9. CASE Errors
  <2>1. UNCHANGED <<regVars, lexVars, stack, outerNs>>
    BY <1>9 DEF Errors, Fail, Handle
  <2>2. raising' \in BOOLEAN /\ (ops' = ops + 1 \/ ops' = ops)
    BY <1>9 DEF Errors, Fail, Handle
  <2>3. ops' \in Nat
    BY <1>1, <2>2 DEF RestTypeOK
  <2> QED
    BY <1>1, <2>1, <2>2, <2>3, TablesUntouchedKeepInv
       DEF RestTypeOK, regVars, lexVars
<1>10. CASE UNCHANGED vars
  BY <1>1, <1>10, TablesUntouchedKeepInv
     DEF RestTypeOK, vars, regVars, lexVars, ctlVars
<1> QED
  BY <1>2, <1>3, <1>4, <1>5, <1>6, <1>7, <1>8, <1>9, <1>10

-----------------------------------------------------------------------------
(* The theorems                                                            *)

(* The engine starts in the invariant: one scope, one evaluation in it.     *)
LEMMA InitInv == Init => IInv
<1> SUFFICES ASSUME Init PROVE IInv
  OBVIOUS
<1> USE DEF Init, RegistryInit
<1>1. 1 \in Scope /\ Default \in Namespace
  BY RegistryAssumption DEF Scope
<1>2. stack[1] \in Frame /\ Len(stack) = 1 /\ DOMAIN stack = 1..1
  BY <1>1 DEF Frame
<1>3. stack \in Seq(Frame) /\ stack # <<>>
  BY <1>2
<1>4. imports \in [Namespace -> Seq(Namespace)]
  BY EmptySeq
<1>5. /\ nsSymbols \in [Namespace -> [Name -> Value \cup {Unbound}]]
      /\ symbols \in [Scope -> [Name -> Value \cup {Unbound}]]
      /\ engineFns \in [Name -> Closure \cup {Unbound}]
  BY DEF NoBindings
<1>6. TypeOK
  BY <1>1, <1>3, <1>4, <1>5 DEF TypeOK, RegistryTypeOK
<1>7. Created = {1}
  BY DEF Created
<1>8. StackInv
  <2>1. \A i \in DOMAIN stack : i = 1 /\ stack[i].env = 1
    BY <1>2
  <2>2. \A i \in DOMAIN stack : stack[i].kind # "fn"
    BY <2>1
  <2> QED
    BY <1>7, <2>1, <2>2 DEF StackInv
<1>9. ScopeTree
  BY <1>1, <1>7 DEF ScopeTree
<1>10. ClosuresLive
  BY ValueAssumption DEF ClosuresLive, NoBindings, Value
<1> QED
  BY <1>6, <1>8, <1>9, <1>10 DEF IInv

(* Every statement the evaluator runs, and every return, keeps it.          *)
LEMMA NextKeepsInv ==
  ASSUME IInv, [Next]_vars
  PROVE  IInv'
<1>1. CASE Binding
  <2>1. CASE \E n \in Name, q \in Qualifier, v \in Literal : Assign(n, q, v)
    BY <2>1, AssignKeepsInv
  <2>2. CASE \E n \in Name, q \in Qualifier, p \in Params,
                written \in SUBSET Name : DefineFn(n, q, p, written \ {p})
    <3>1. PICK n \in Name, q \in Qualifier, p \in Params,
               written \in SUBSET Name : DefineFn(n, q, p, written \ {p})
      BY <2>2
    <3>2. written \ {p} \in SUBSET Name
      OBVIOUS
    <3> QED
      BY <3>1, <3>2, DefineFnKeepsInv
  <2>3. CASE \E n \in Name, q \in Qualifier, p \in Params : DefineTradFn(n, q, p)
    BY <2>3, DefineTradFnKeepsInv
  <2>4. CASE \/ \E n \in Name, q \in Qualifier : AssignConstant(n, q)
             \/ \E n \in Name : DeclareLocal(n)
    BY <2>4, OtherStepsKeepInv
  <2> QED
    BY <1>1, <2>1, <2>2, <2>3, <2>4 DEF Binding
<1>2. CASE Calls
  <2>1. CASE \/ \E n \in Name, q \in Qualifier, v \in Data :
                  CallFn(n, q, v) \/ ApplyDynamicRef(n, q, v)
             \/ \E p \in Params, v \in Data : ApplyLambda(p, v)
    BY <2>1, CallsKeepInv
  <2>2. CASE ApplyBlock \/ \E n \in Name, v \in Data : MacroExpand(n, v)
    BY <2>2, NestedCodeKeepsInv
  <2>3. CASE Leave
    BY <2>3, LeaveKeepsInv
  <2> QED
    BY <1>2, <2>1, <2>2, <2>3 DEF Calls
<1>3. CASE Directives
  BY <1>3, NestedCodeKeepsInv, OtherStepsKeepInv DEF Directives
<1>4. CASE Errors \/ UNCHANGED vars
  BY <1>4, OtherStepsKeepInv
<1> QED
  BY <1>1, <1>2, <1>3, <1>4 DEF Next

(* The evaluator never leaves the invariant: chains are tree paths, running *)
(* scopes and closed-over scopes exist, and running bodies are counted.    *)
THEOREM InductiveInvariant == Spec => []IInv
<1>1. IInv /\ [Next]_vars => IInv'
  BY NextKeepsInv
<1> QED
  BY <1>1, InitInv, PTL DEF Spec

(* Every variable of the evaluator and the registry keeps its type.        *)
THEOREM TypeCorrect == Spec => []TypeOK
<1>1. IInv => TypeOK
  BY DEF IInv
<1> QED
  BY <1>1, InductiveInvariant, PTL

(* Environment::child only ever grows a tree, so "the nearest scope" that   *)
(* lookup, assign and unassigned_local_ns walk to is well defined.         *)
THEOREM ChainsFormTree == Spec => []ScopeTree
<1>1. IInv => ScopeTree
  BY DEF IInv
<1> QED
  BY <1>1, InductiveInvariant, PTL

-----------------------------------------------------------------------------
(* What a step may write                                                   *)

(* Environment::assign binds on the running chain or in a namespace; below  *)
(* a call frame, a name that awaits no first assignment binds at the frame *)
(* or inside it, and never in a namespace.                                 *)
LEMMA BindScopeProperties ==
  ASSUME IInv, NEW n \in Name
  PROVE  /\ BindScope(Top, n) \in chain[Top] \cup {0}
         /\ MarkedOn(Top, n) # {} => BindScope(Top, n) \in MarkedOn(Top, n)
         /\ MarkedOn(Top, n) = {} =>
              \A c \in FramesOn(Top) : c <= BindScope(Top, n)
         /\ 0 \notin chain[Top] /\ Top \in chain[Top]
<1>1. Top \in Created /\ Created \subseteq Scope /\ chain[Top] \subseteq Scope
  BY TopProperties DEF IInv, TypeOK
<1>2. Top \in chain[Top] /\ chain[Top] \subseteq 1..Top
  BY <1>1 DEF IInv, ScopeTree
<1>3. 0 \notin chain[Top]
  BY <1>2
<1> DEFINE marked == MarkedOn(Top, n)
           bound  == BoundOn(Top, n) \cap Reach(Top)
           frames == FramesOn(Top)
<1>4. /\ marked \in SUBSET Scope /\ marked \subseteq chain[Top]
      /\ bound \in SUBSET Scope /\ bound \subseteq chain[Top]
      /\ frames \in SUBSET Scope /\ frames \subseteq chain[Top]
  BY <1>1 DEF MarkedOn, BoundOn, Reach, FramesOn
<1>5. \A s \in bound : \A c \in frames : c <= s
  BY DEF Reach
<1>6. CASE marked # {}
  <2>1. BindScope(Top, n) = Innermost(marked)
    BY <1>6 DEF BindScope
  <2>2. Innermost(marked) \in marked
    BY <1>4, <1>6, InnermostProperties
  <2> QED
    BY <1>2, <1>3, <1>4, <1>6, <2>1, <2>2
<1>7. CASE marked = {} /\ bound # {}
  <2> DEFINE near == Innermost(BoundOn(Top, n))
  <2>1. BindScope(Top, n) = near
    BY <1>7 DEF BindScope
  <2>2. BoundOn(Top, n) \in SUBSET Scope /\ BoundOn(Top, n) \subseteq chain[Top]
    BY <1>1 DEF BoundOn
  <2>3. near \in BoundOn(Top, n) /\ \A s \in bound : s <= near
    BY <1>7, <2>2, InnermostProperties
  <2>4. PICK s \in bound : s <= near /\ \A c \in frames : c <= s
    BY <1>5, <1>7, <2>3
  <2>5. near \in Nat /\ s \in Nat /\ \A c \in frames : c \in Nat
    BY <1>4, <2>2, <2>3, RegistryAssumption DEF Scope
  <2>6. \A c \in frames : c <= near
    BY <2>4, <2>5
  <2> QED
    BY <1>2, <1>3, <1>7, <2>1, <2>2, <2>3, <2>6
<1>8. CASE marked = {} /\ bound = {} /\ frames # {}
  <2>1. BindScope(Top, n) = Innermost(frames)
    BY <1>8 DEF BindScope
  <2>2. Innermost(frames) \in frames /\ \A c \in frames : c <= Innermost(frames)
    BY <1>4, <1>8, InnermostProperties
  <2> QED
    BY <1>2, <1>3, <1>4, <1>8, <2>1, <2>2
<1>9. CASE marked = {} /\ bound = {} /\ frames = {}
  <2>1. BindScope(Top, n) \in {0, Top}
    BY <1>9 DEF BindScope
  <2> QED
    BY <1>2, <1>3, <1>9, <2>1
<1> QED
  BY <1>6, <1>7, <1>8, <1>9

(* The only steps that write a scope that already exists: an assignment     *)
(* writes BindScope, a definition and a :local declaration the running one.*)
LEMMA ScopeWrites ==
  ASSUME IInv, [Next]_vars, NEW s \in Created
  PROVE  \/ symbols'[s] = symbols[s] /\ unassignedLocals'[s] = unassignedLocals[s]
         \/ \E n \in Name :
              /\ s = BindScope(Top, n)
              /\ \A k \in Name \ {n} : symbols'[s][k] = symbols[s][k]
         \/ s = Top
<1>1. /\ s \in Scope /\ s # scopes + 1
      /\ symbols \in [Scope -> [Name -> Value \cup {Unbound}]]
      /\ unassignedLocals \in [Scope -> SUBSET Name]
  <2>1. s \in Scope /\ scopes \in Nat
    BY TopProperties
  <2>2. s # scopes + 1
    BY <2>1 DEF Created
  <2> QED
    BY <2>1, <2>2 DEF IInv, TypeOK
<1> DEFINE same == /\ symbols'[s] = symbols[s]
                   /\ unassignedLocals'[s] = unassignedLocals[s]
<1>2. CASE \E n \in Name, q \in Qualifier, v \in Literal : Assign(n, q, v)
  <2>1. PICK n \in Name, q \in Qualifier, v \in Literal : Assign(n, q, v)
    BY <1>2
  <2>2. CASE UNCHANGED <<symbols, unassignedLocals>>
    BY <2>2
  <2>3. CASE BindIn(BindScope(Top, n), n, v)
    <3>1. CASE s = BindScope(Top, n)
      BY <1>1, <2>3, <3>1 DEF BindIn
    <3>2. CASE s # BindScope(Top, n)
      BY <1>1, <2>3, <3>2 DEF BindIn
    <3> QED
      BY <3>1, <3>2
  <2> QED
    BY <2>1, <2>2, <2>3 DEF Assign
<1>3. CASE Binding /\ ~ \E n \in Name, q \in Qualifier, v \in Literal : Assign(n, q, v)
  <2>1. CASE \E n \in Name, q \in Qualifier, p \in Params,
                written \in SUBSET Name : DefineFn(n, q, p, written \ {p})
    BY <1>1, <2>1 DEF DefineFn
  <2>2. CASE \E n \in Name, q \in Qualifier, p \in Params : DefineTradFn(n, q, p)
    BY <2>2 DEF DefineTradFn
  <2>3. CASE \E n \in Name, q \in Qualifier : AssignConstant(n, q)
    BY <2>3 DEF AssignConstant, lexVars
  <2>4. CASE \E n \in Name : DeclareLocal(n)
    BY <1>1, <2>4 DEF DeclareLocal
  <2> QED
    BY <1>3, <2>1, <2>2, <2>3, <2>4 DEF Binding
<1>4. ASSUME NEW parent, NEW kind, NEW bindings, OpenScope(parent, kind, bindings)
      PROVE  same
  BY <1>1, <1>4 DEF OpenScope
<1>5. CASE Calls
  <2>1. CASE \E n \in Name, q \in Qualifier, v \in Data :
               CallFn(n, q, v) \/ ApplyDynamicRef(n, q, v)
    BY <1>4, <2>1 DEF CallFn, ApplyDynamicRef, ApplyUserFn
  <2>2. CASE \E p \in Params, v \in Data : ApplyLambda(p, v)
    BY <1>4, <2>2 DEF ApplyLambda, ApplyUserFn
  <2>3. CASE ApplyBlock \/ \E n \in Name, v \in Data : MacroExpand(n, v)
    BY <1>4, <2>3 DEF ApplyBlock, MacroExpand
  <2>4. CASE Leave
    BY <2>4 DEF Leave, LeaveUnchanged
  <2> QED
    BY <1>5, <2>1, <2>2, <2>3, <2>4 DEF Calls
<1>6. CASE Directives
  <2>1. CASE UseFile
    BY <1>4, <2>1 DEF UseFile
  <2>2. CASE Directives /\ ~UseFile
    BY <2>2 DEF Directives, DeclareConst, DeclareExport, Import, SetNamespace,
                NextFileStatement, lexVars
  <2> QED
    BY <1>6, <2>1, <2>2
<1>7. CASE Errors
  BY <1>7 DEF Errors, Fail, Handle, lexVars
<1>8. CASE UNCHANGED vars
  BY <1>8 DEF vars, lexVars
<1> QED
  BY <1>2, <1>3, <1>5, <1>6, <1>7, <1>8 DEF Next

(* A callee changes bindings and pending locals on its own chain only.      *)
THEOREM WritesOnChain == Spec => WritesStayOnChain
<1>1. ASSUME IInv, [Next]_vars, NEW s \in Created \ chain[Top]
      PROVE  /\ symbols'[s] = symbols[s]
             /\ unassignedLocals'[s] = unassignedLocals[s]
  <2>1. \A n \in Name : BindScope(Top, n) \in chain[Top] \cup {0}
    BY <1>1, BindScopeProperties
  <2>2. s # Top /\ s # 0
    <3>1. Top \in chain[Top]
      BY <1>1, TopProperties DEF IInv, ScopeTree
    <3> QED
      BY <1>1, <3>1 DEF Created
  <2>3. \A n \in Name : s # BindScope(Top, n)
    BY <1>1, <2>1, <2>2
  <2> QED
    BY <1>1, <2>2, <2>3, ScopeWrites
<1>2. IInv /\ [Next]_vars =>
        [\A s \in Created \ chain[Top] :
           /\ symbols'[s] = symbols[s]
           /\ unassignedLocals'[s] = unassignedLocals[s]]_vars
  BY <1>1
<1> QED
  BY <1>2, InductiveInvariant, PTL DEF Spec, WritesStayOnChain

(* A sealed call keeps the bindings below its frame, except first           *)
(* assignments of declared locals, and keeps bare names out of modules.     *)
THEOREM CallFramesSeal == Spec => FramesSealed
<1> DEFINE OldKept(c) ==
             \A s \in Created, n \in Name :
               s < c /\ symbols'[s][n] # symbols[s][n] => n \in unassignedLocals[s]
           ModuleKept ==
             \A n \in Name, v \in Literal :
               Assign(n, Bare, v) /\ MarkedOn(Top, n) = {}
                 => UNCHANGED nsSymbols
<1>1. ASSUME IInv, [Next]_vars, NEW c \in FramesOn(Top)
      PROVE  OldKept(c) /\ ModuleKept
  <2>1. /\ c \in Nat \ {0} /\ c <= Top /\ Top \in Nat
        /\ Created \subseteq Nat
    <3>1. Top \in Created /\ Created \subseteq Scope
      BY <1>1, TopProperties
    <3>2. chain[Top] \subseteq 1..Top
      BY <1>1, <3>1 DEF IInv, ScopeTree
    <3> QED
      BY <1>1, <3>1, <3>2 DEF FramesOn, Scope
  <2>2. ASSUME NEW s \in Created, NEW n \in Name,
               s < c, symbols'[s][n] # symbols[s][n]
        PROVE  n \in unassignedLocals[s]
    <3>1. s # Top
      BY <2>1, <2>2
    <3>2. s = BindScope(Top, n)
      BY <1>1, <2>2, <3>1, ScopeWrites
    <3>3. ~(c <= s)
      BY <2>1, <2>2
    <3>4. MarkedOn(Top, n) # {}
      BY <1>1, <3>2, <3>3, BindScopeProperties
    <3>5. s \in MarkedOn(Top, n)
      BY <1>1, <3>2, <3>4, BindScopeProperties
    <3> QED
      BY <3>5 DEF MarkedOn
  <2>3. ASSUME NEW n \in Name, NEW v \in Literal,
               Assign(n, Bare, v), MarkedOn(Top, n) = {}
        PROVE  UNCHANGED nsSymbols
    <3>1. c <= BindScope(Top, n)
      BY <1>1, <2>3, BindScopeProperties
    <3>2. BindScope(Top, n) # 0
      BY <2>1, <3>1
    <3> QED
      BY <2>3, <3>2 DEF Assign
  <2> QED
    BY <2>2, <2>3
<1>2. IInv /\ [Next]_vars =>
        [\A c \in FramesOn(Top) :
           /\ \A s \in Created, n \in Name :
                s < c /\ symbols'[s][n] # symbols[s][n]
                  => n \in unassignedLocals[s]
           /\ \A n \in Name, v \in Literal :
                Assign(n, Bare, v) /\ MarkedOn(Top, n) = {}
                  => UNCHANGED nsSymbols]_vars
  BY <1>1
<1> QED
  BY <1>2, InductiveInvariant, PTL DEF Spec, FramesSealed

(* set_fn_body_depth stays paired: the count that defers the constant check *)
(* is the number of bodies running in the scope, after any error.          *)
THEOREM BodyDepthCounts == Spec => []BodyDepthMatchesStack
<1>1. ASSUME IInv PROVE BodyDepthMatchesStack
  <2> SUFFICES ASSUME NEW s \in Scope
               PROVE  fnBodyDepth[s] =
                        Cardinality({i \in DOMAIN stack :
                                       /\ stack[i].kind = "fn"
                                       /\ stack[i].env = s})
    BY DEF BodyDepthMatchesStack
  <2> DEFINE bodies == {i \in DOMAIN stack : stack[i].kind = "fn"
                                             /\ stack[i].env = s}
  <2>1. /\ StackInv /\ DOMAIN stack \subseteq Nat
        /\ \A i \in DOMAIN stack : stack[i].env \in Nat
    BY <1>1, TopProperties DEF IInv, Frame, Scope
  <2>2. fnBodyDepth[s] = IF bodies # {} THEN 1 ELSE 0
    BY <2>1 DEF StackInv
  <2>3. \A i, j \in bodies : i = j
    <3> SUFFICES ASSUME NEW i \in bodies, NEW j \in bodies, i < j
                 PROVE  FALSE
      BY <2>1
    <3>1. stack[i].env < stack[j].env
      BY <2>1 DEF StackInv
    <3> QED
      BY <2>1, <3>1
  <2>4. CASE bodies = {}
    BY <2>2, <2>4, FS_EmptySet
  <2>5. CASE bodies # {}
    <3>1. PICK i \in bodies : TRUE
      BY <2>5
    <3>2. bodies = {i}
      BY <2>3, <3>1
    <3>3. Cardinality(bodies) = 1
      BY <3>2, FS_Singleton
    <3> QED
      BY <2>2, <2>5, <3>3
  <2> QED
    BY <2>4, <2>5
<1> QED
  BY <1>1, InductiveInvariant, PTL

(* A constant of a namespace changes its value only by a definition, unless *)
(* a file is being loaded or a function body runs in the scope.            *)
THEOREM ConstantsAreKept == Spec => ConstantsHold
<1>1. ASSUME IInv, [Next]_vars, NEW m \in Namespace, NEW n \in Name,
             <<m, n>> \in constants, ~FileInFlight, fnBodyDepth[Top] = 0,
             nsSymbols'[m][n] # nsSymbols[m][n]
      PROVE  nsSymbols'[m][n] \in Closure /\ <<m, n>> \in fnDefinitions'
  <2>1. nsSymbols \in [Namespace -> [Name -> Value \cup {Unbound}]]
    BY <1>1 DEF IInv, TypeOK, RegistryTypeOK
  <2>2. nsSymbols' # nsSymbols
    BY <1>1
  <2>3. CASE \E k \in Name, q \in Qualifier, v \in Literal : Assign(k, q, v)
    <3>1. PICK k \in Name, q \in Qualifier, v \in Literal : Assign(k, q, v)
      BY <2>3
    <3>2. NsDefine(DefNs(q), k, v) /\ ~ConstantBlocks(Top, k, q)
      BY <2>2, <3>1 DEF Assign
    <3>3. m = DefNs(q) /\ n = k
      BY <1>1, <2>1, <3>2 DEF NsDefine
    <3>4. ConstantBlocks(Top, k, q)
      BY <1>1, <3>3 DEF ConstantBlocks
    <3> QED
      BY <3>2, <3>4
  <2>4. CASE \E k \in Name, q \in Qualifier, p \in Params,
                written \in SUBSET Name : DefineFn(k, q, p, written \ {p})
    <3>1. PICK k \in Name, q \in Qualifier, p \in Params,
               written \in SUBSET Name : DefineFn(k, q, p, written \ {p})
      BY <2>4
    <3> DEFINE f == FnLiteral(Top, FALSE, p)
    <3>2. NsDefine(DefNs(q), k, f) /\ MarkFnDef(q, k)
      BY <2>2, <3>1 DEF DefineFn
    <3>3. m = DefNs(q) /\ n = k /\ nsSymbols'[m][n] = f
      BY <1>1, <2>1, <3>2 DEF NsDefine
    <3>4. f \in Closure
      BY <1>1, TopProperties, ScopesAssumption DEF FnLiteral, Closure
    <3> QED
      BY <3>2, <3>3, <3>4 DEF MarkFnDef
  <2>5. ASSUME NEW parent, NEW kind, NEW bindings,
               OpenScope(parent, kind, bindings)
        PROVE  FALSE
    BY <2>2, <2>5 DEF OpenScope, regVars
  <2>6. ~(Calls \/ Directives \/ Errors \/ UNCHANGED vars)
    <3>1. ~Calls
      BY <2>2, <2>5 DEF Calls, CallFn, ApplyDynamicRef, ApplyLambda,
                        ApplyUserFn, ApplyBlock, MacroExpand, Leave,
                        LeaveUnchanged
    <3>2. ~Directives
      BY <2>2, <2>5 DEF Directives, DeclareConst, DeclareExport, Import,
                        SetNamespace, UseFile, NextFileStatement, regVars
    <3>3. ~(Errors \/ UNCHANGED vars)
      BY <2>2 DEF Errors, Fail, Handle, vars, regVars
    <3> QED
      BY <3>1, <3>2, <3>3
  <2>7. CASE Binding
    BY <2>2, <2>3, <2>4, <2>7
       DEF Binding, DefineTradFn, AssignConstant, DeclareLocal, regVars
  <2> QED
    BY <1>1, <2>6, <2>7 DEF Next
<1>2. IInv /\ [Next]_vars =>
        [\A m \in Namespace, n \in Name :
           /\ <<m, n>> \in constants
           /\ ~FileInFlight
           /\ fnBodyDepth[Top] = 0
           /\ nsSymbols'[m][n] # nsSymbols[m][n]
           => nsSymbols'[m][n] \in Closure /\ <<m, n>> \in fnDefinitions']_vars
  BY <1>1
<1> QED
  BY <1>2, InductiveInvariant, PTL DEF Spec, ConstantsHold

-----------------------------------------------------------------------------
(* Files and the namespace                                                 *)

(* What a file's return must find: outside files the namespace is the one   *)
(* set there, and the outermost file in flight has saved that one.         *)
OutermostFile(i) ==
  /\ stack[i].kind = "file"
  /\ \A j \in DOMAIN stack : j < i => stack[j].kind # "file"

OuterNsInv ==
  /\ ~FileInFlight => current = outerNs
  /\ \A i \in DOMAIN stack : OutermostFile(i) => stack[i].savedNs = outerNs

(* A step that starts or ends no evaluation keeps the stack; the namespace  *)
(* directive is recorded when it is executed outside files.                *)
LEMMA OuterNsKeptInPlace ==
  ASSUME OuterNsInv, UNCHANGED stack,
         \/ UNCHANGED <<current, outerNs>>
         \/ \E m \in Namespace : SetNamespace(m)
  PROVE  OuterNsInv'
<1>1. FileInFlight' = FileInFlight
  BY DEF FileInFlight
<1>2. \A i \in DOMAIN stack : OutermostFile(i)' <=> OutermostFile(i)
  BY DEF OutermostFile
<1>3. CASE UNCHANGED <<current, outerNs>>
  BY <1>1, <1>2, <1>3 DEF OuterNsInv
<1>4. CASE \E m \in Namespace : SetNamespace(m)
  <2>1. CASE FileInFlight
    BY <1>1, <1>2, <1>4, <2>1 DEF OuterNsInv, SetNamespace
  <2>2. CASE ~FileInFlight
    <3>1. \A i \in DOMAIN stack : ~OutermostFile(i)
      BY <2>2 DEF FileInFlight, OutermostFile
    <3>2. current' = outerNs'
      BY <1>4, <2>2 DEF SetNamespace
    <3> QED
      BY <1>2, <3>1, <3>2 DEF OuterNsInv
  <2> QED
    BY <2>1, <2>2
<1> QED
  BY <1>3, <1>4

(* A new evaluation saves the namespace it starts in.                      *)
LEMMA OuterNsKeptByOpenScope ==
  ASSUME IInv, OuterNsInv, NEW parent, NEW kind, NEW bindings,
         OpenScope(parent, kind, bindings)
  PROVE  OuterNsInv'
<1> DEFINE new == Len(stack) + 1
           frame == [kind |-> kind, env |-> scopes + 1, savedNs |-> current]
<1>1. /\ Len(stack) \in Nat /\ DOMAIN stack = 1..Len(stack)
      /\ UNCHANGED <<current, outerNs>>
  BY TopProperties DEF OpenScope, regVars
<1>2. /\ stack' = Append(stack, frame)
      /\ DOMAIN stack' = 1..new
      /\ \A i \in 1..Len(stack) : stack'[i] = stack[i]
      /\ stack'[new] = frame
  <2>1. stack' = Append(stack, frame)
    BY DEF OpenScope
  <2>2. stack \in Seq(Frame)
    BY DEF IInv, TypeOK
  <2>3. stack \in Seq(Frame \cup {frame})
    BY <2>2
  <2> HIDE DEF frame
  <2> QED
    BY <2>1, <2>3, AppendProperties, LenProperties
<1>3. frame.kind = kind /\ frame.savedNs = current
  OBVIOUS
<1> HIDE DEF frame
<1>4. FileInFlight' <=> FileInFlight \/ kind = "file"
  BY <1>1, <1>2, <1>3 DEF FileInFlight
<1>5. \A i \in 1..Len(stack) : OutermostFile(i)' <=> OutermostFile(i)
  BY <1>1, <1>2 DEF OutermostFile
<1>6. ASSUME NEW i \in {new}, OutermostFile(i)' PROVE ~FileInFlight
  BY <1>6, <1>1, <1>2 DEF OutermostFile, FileInFlight
<1>7. ASSUME NEW i \in 1..new, OutermostFile(i)'
      PROVE  stack'[i].savedNs = outerNs'
  <2>1. CASE i \in {new}
    <3>1. current = outerNs
      BY <1>6, <1>7, <2>1 DEF OuterNsInv
    <3> QED
      BY <1>1, <1>2, <1>3, <2>1, <3>1
  <2>2. CASE i \in 1..Len(stack)
    BY <1>1, <1>2, <1>5, <1>7, <2>2 DEF OuterNsInv
  <2> QED
    BY <1>1, <2>1, <2>2
<1> QED
  BY <1>1, <1>2, <1>4, <1>7 DEF OuterNsInv

(* An evaluation that ends restores the namespace if it was a file.         *)
LEMMA OuterNsKeptByLeave ==
  ASSUME IInv, OuterNsInv, Leave
  PROVE  OuterNsInv'
<1> DEFINE last == Len(stack)
<1>1. /\ last \in Nat \ {0, 1} /\ DOMAIN stack = 1..last
      /\ DOMAIN stack' = 1..(last - 1)
      /\ \A i \in 1..(last - 1) : stack'[i] = stack[i]
  BY StackPopped
<1>2. outerNs' = outerNs
  BY DEF Leave, LeaveUnchanged
<1>3. /\ TopFrame = stack[last]
      /\ current' = IF stack[last].kind = "file" THEN stack[last].savedNs
                    ELSE current
  BY DEF TopFrame, Leave, RestoreNs
<1> HIDE DEF last
<1>4. \A i \in 1..(last - 1) : OutermostFile(i)' <=> OutermostFile(i)
  BY <1>1 DEF OutermostFile
<1>5. ASSUME ~FileInFlight' PROVE current' = outerNs'
  <2>1. \A i \in 1..(last - 1) : stack[i].kind # "file"
    BY <1>1, <1>5 DEF FileInFlight
  <2>2. CASE stack[last].kind = "file"
    <3>1. OutermostFile(last)
      BY <1>1, <2>1, <2>2 DEF OutermostFile
    <3> QED
      BY <1>1, <1>2, <1>3, <2>2, <3>1 DEF OuterNsInv
  <2>3. CASE stack[last].kind # "file"
    <3>1. ~FileInFlight
      BY <1>1, <2>1, <2>3 DEF FileInFlight
    <3> QED
      BY <1>2, <1>3, <2>3, <3>1 DEF OuterNsInv
  <2> QED
    BY <2>2, <2>3
<1>6. \A i \in 1..(last - 1) : OutermostFile(i)' => stack'[i].savedNs = outerNs'
  BY <1>1, <1>2, <1>4 DEF OuterNsInv
<1> QED
  BY <1>1, <1>5, <1>6 DEF OuterNsInv

(* Every step keeps it.                                                    *)
LEMMA OuterNsKept ==
  ASSUME IInv, OuterNsInv, [Next]_vars
  PROVE  OuterNsInv'
<1>1. CASE Binding
  <2>1. UNCHANGED <<stack, current, outerNs>>
    BY <1>1 DEF Binding, Assign, AssignConstant, DefineFn, DefineTradFn,
                DeclareLocal, regVars
  <2> QED
    BY <2>1, OuterNsKeptInPlace
<1>2. CASE Calls
  BY <1>2, OuterNsKeptByOpenScope, OuterNsKeptByLeave
     DEF Calls, CallFn, ApplyDynamicRef, ApplyLambda, ApplyUserFn, ApplyBlock,
         MacroExpand
<1>3. CASE Directives
  <2>1. CASE UseFile
    BY <2>1, OuterNsKeptByOpenScope DEF UseFile
  <2>2. CASE \E m \in Namespace : SetNamespace(m)
    BY <2>2, OuterNsKeptInPlace DEF SetNamespace
  <2>3. CASE \/ \E n \in Name : DeclareConst(n) \/ DeclareExport(n)
             \/ \E m \in Namespace : Import(m)
             \/ NextFileStatement
    <3>1. UNCHANGED <<stack, current, outerNs>>
      BY <2>3 DEF DeclareConst, DeclareExport, Import, NextFileStatement,
                  regVars, ctlVars
    <3> QED
      BY <3>1, OuterNsKeptInPlace
  <2> QED
    BY <1>3, <2>1, <2>2, <2>3 DEF Directives
<1>4. CASE Errors \/ UNCHANGED vars
  <2>1. UNCHANGED <<stack, current, outerNs>>
    BY <1>4 DEF Errors, Fail, Handle, vars, regVars, ctlVars
  <2> QED
    BY <2>1, OuterNsKeptInPlace
<1> QED
  BY <1>1, <1>2, <1>3, <1>4 DEF Next

(* Directives in files never decide the namespace of what is outside them.  *)
THEOREM FilesKeepNamespace == Spec => []FileNamespaceContained
<1>1. Init => OuterNsInv
  <2> SUFFICES ASSUME Init PROVE OuterNsInv
    OBVIOUS
  <2>1. current = outerNs
    BY DEF Init, RegistryInit
  <2>2. \A i \in DOMAIN stack : stack[i].kind # "file"
    BY DEF Init
  <2> QED
    BY <2>1, <2>2 DEF OuterNsInv, OutermostFile
<1>2. IInv /\ OuterNsInv /\ [Next]_vars => OuterNsInv'
  BY OuterNsKept
<1>3. OuterNsInv => FileNamespaceContained
  BY DEF OuterNsInv, FileNamespaceContained
<1> QED
  BY <1>1, <1>2, <1>3, InductiveInvariant, PTL DEF Spec

-----------------------------------------------------------------------------
(* Reads see assignments                                                   *)

(* A scope of the set that no other is nearer than is the nearest.          *)
LEMMA InnermostIs ==
  ASSUME NEW S \in SUBSET Scope, NEW x \in S, \A s \in S : s <= x
  PROVE  Innermost(S) = x
<1>1. Innermost(S) \in S /\ \A s \in S : s <= Innermost(S)
  BY InnermostProperties
<1>2. Scope \subseteq Nat
  BY RegistryAssumption DEF Scope
<1>3. x \in Nat /\ Innermost(S) \in Nat
  BY <1>1, <1>2
<1> QED
  BY <1>1, <1>3

(* Environment::assign never binds outside a scope that knows the name, the *)
(* shadowed-mark case apart: no scope nearer than BindScope binds or awaits *)
(* it, and when a namespace is bound, none on the chain does.              *)
LEMMA BindScopeNearest ==
  ASSUME IInv, NEW n \in Name, ~MarkShadowed(Top, n)
  PROVE  \A s \in BoundOn(Top, n) \cup MarkedOn(Top, n) :
           s <= BindScope(Top, n) /\ BindScope(Top, n) # 0
<1> DEFINE marked == MarkedOn(Top, n)
           bound  == BoundOn(Top, n)
           frames == FramesOn(Top)
<1>1. Top \in Scope /\ chain[Top] \in SUBSET Scope
  BY TopProperties DEF IInv, TypeOK
<1>2. /\ marked \in SUBSET Scope /\ bound \in SUBSET Scope
      /\ frames \in SUBSET Scope
      /\ bound \subseteq chain[Top] /\ Scope \subseteq Nat \ {0}
  BY <1>1, RegistryAssumption DEF MarkedOn, BoundOn, FramesOn, Scope
<1>3. CASE marked # {}
  <2>1. BindScope(Top, n) = Innermost(marked)
    BY <1>3 DEF BindScope
  <2>2. /\ Innermost(marked) \in marked
        /\ \A t \in marked : t <= Innermost(marked)
    BY <1>2, <1>3, InnermostProperties
  <2>3. \A s \in bound : ~(Innermost(marked) < s)
    BY <2>2 DEF MarkShadowed
  <2>4. Innermost(marked) \in Nat \ {0} /\ bound \subseteq Nat
    BY <1>2, <2>2
  <2>5. \A s \in bound : s <= Innermost(marked)
    BY <2>3, <2>4
  <2> QED
    BY <2>1, <2>2, <2>4, <2>5
<1>4. CASE marked = {} /\ bound \cap Reach(Top) # {}
  <2>1. BindScope(Top, n) = Innermost(bound)
    BY <1>4 DEF BindScope
  <2>2. Innermost(bound) \in bound /\ \A s \in bound : s <= Innermost(bound)
    BY <1>2, <1>4, InnermostProperties
  <2> QED
    BY <1>2, <1>4, <2>1, <2>2
<1>5. CASE marked = {} /\ bound \cap Reach(Top) = {}
  <2>1. \A s \in bound : \E c \in frames : ~(c <= s)
    BY <1>2, <1>5 DEF Reach
  <2>2. CASE frames # {}
    <3>1. BindScope(Top, n) = Innermost(frames)
      BY <1>5, <2>2 DEF BindScope
    <3>2. /\ Innermost(frames) \in frames
          /\ \A c \in frames : c <= Innermost(frames)
      BY <1>2, <2>2, InnermostProperties
    <3>3. ASSUME NEW s \in bound
          PROVE  s <= Innermost(frames) /\ Innermost(frames) # 0
      <4>1. PICK c \in frames : ~(c <= s)
        BY <2>1
      <4>2. /\ c \in Nat /\ s \in Nat /\ Innermost(frames) \in Nat \ {0}
            /\ c <= Innermost(frames)
        BY <1>2, <3>2
      <4> QED
        BY <4>1, <4>2
    <3> QED
      BY <1>5, <3>1, <3>3
  <2>3. CASE frames = {}
    BY <1>5, <2>1, <2>3
  <2> QED
    BY <2>2, <2>3
<1> QED
  BY <1>3, <1>4, <1>5

(* What a statement assigns is a value.                                    *)
LEMMA LiteralsBound ==
  ASSUME IInv, NEW v \in Literal
  PROVE  v # Unbound
<1>1. \A p \in Params : FnLiteral(Top, FALSE, p) \in Closure
  BY TopProperties, ScopesAssumption DEF FnLiteral, Closure
<1> QED
  BY <1>1, ValueAssumption DEF Literal

(* A bare read after a bare assignment gets the value assigned.             *)
LEMMA BareReadSeesWrite ==
  ASSUME IInv, NEW e \in Created, NEW n \in Name, NEW v \in Literal,
         e = Top, Assign(n, Bare, v), ~MarkShadowed(e, n)
  PROVE  Read(e, n, Bare)' = v
<1> DEFINE B == BindScope(e, n)
           known == BoundOn(e, n) \cup MarkedOn(e, n)
<1>1. /\ v # Unbound /\ current \in Namespace
      /\ symbols \in [Scope -> [Name -> Value \cup {Unbound}]]
      /\ unassignedLocals \in [Scope -> SUBSET Name]
      /\ nsSymbols \in [Namespace -> [Name -> Value \cup {Unbound}]]
      /\ chain[e] \in SUBSET Scope
  BY TopProperties, LiteralsBound DEF IInv, TypeOK, RegistryTypeOK
<1>2. UNCHANGED <<chain, current, imports, exports>>
  BY DEF Assign
<1>3. \A s \in known : s <= B /\ B # 0
  BY BindScopeNearest
<1>4. B \in chain[e] \cup {0} /\ 0 \notin chain[e]
  BY BindScopeProperties
<1>5. CASE B # 0
  <2>1. B \in chain[e] /\ BindIn(B, n, v)
    BY <1>4, <1>5 DEF Assign
  <2>2. \A s \in chain[e] :
          /\ symbols'[s][n] = IF s = B THEN v ELSE symbols[s][n]
          /\ n \in unassignedLocals'[s] <=> s # B /\ n \in unassignedLocals[s]
    BY <1>1, <2>1 DEF BindIn
  <2>3. /\ BoundOn(e, n)' = BoundOn(e, n) \cup {B}
        /\ MarkedOn(e, n)' = MarkedOn(e, n) \ {B}
    BY <1>1, <1>2, <2>1, <2>2 DEF BoundOn, MarkedOn
  <2>4. known' \in SUBSET Scope /\ BoundOn(e, n)' \in SUBSET Scope
    BY <1>1, <2>1, <2>3 DEF BoundOn, MarkedOn
  <2>5. B \in Nat
    BY <1>1, <2>1, RegistryAssumption DEF Scope
  <2>6. \A s \in known' : s <= B
    BY <1>3, <2>3, <2>5
  <2> HIDE DEF B
  <2>7. Innermost(known') = B /\ Innermost(BoundOn(e, n)') = B
    BY <2>3, <2>4, <2>6, InnermostIs
  <2>8. Lexical(e, n)' = v
    BY <2>1, <2>2, <2>3, <2>7 DEF Lexical
  <2>9. ~UnassignedLocal(e, n)'
    BY <1>1, <2>1, <2>2, <2>7 DEF UnassignedLocal
  <2> QED
    BY <1>1, <2>8, <2>9 DEF Read, Lookup, Or
<1>6. CASE B = 0
  <2>1. /\ nsSymbols' = [nsSymbols EXCEPT ![current][n] = v]
        /\ UNCHANGED <<symbols, unassignedLocals>>
    BY <1>6 DEF Assign, NsDefine, DefNs
  <2>2. known = {}
    BY <1>3, <1>6
  <2>3. BoundOn(e, n)' = {} /\ MarkedOn(e, n)' = {}
    BY <1>2, <2>1, <2>2 DEF BoundOn, MarkedOn
  <2>4. nsSymbols'[current'][n] = v
    BY <1>1, <1>2, <2>1
  <2>5. ResolveBare(n)' = v
    BY <1>1, <2>4 DEF ResolveBare, Or
  <2>6. Lexical(e, n)' = Unbound /\ ~UnassignedLocal(e, n)'
    BY <2>3 DEF Lexical, UnassignedLocal
  <2> QED
    BY <1>1, <2>5, <2>6 DEF Read, Lookup, Or
<1> QED
  BY <1>5, <1>6

(* Reading back a name just assigned gives the value assigned.              *)
THEOREM ReadsSeeWrites == Spec => ReadYourWrites
<1>1. ASSUME IInv, NEW e \in Created, NEW n \in Name, NEW q \in Qualifier,
             NEW v \in Literal, e = Top, Assign(n, q, v),
             q = Bare => ~MarkShadowed(e, n)
      PROVE  Read(e, n, q)' = v
  <2>1. CASE q = Bare
    BY <1>1, <2>1, BareReadSeesWrite
  <2>2. CASE q # Bare
    <3>1. /\ q \in Namespace /\ v # Unbound
          /\ nsSymbols \in [Namespace -> [Name -> Value \cup {Unbound}]]
      BY <1>1, <2>2, LiteralsBound DEF Qualifier, IInv, TypeOK, RegistryTypeOK
    <3>2. nsSymbols' = [nsSymbols EXCEPT ![q][n] = v]
      BY <1>1, <2>2 DEF Assign, NsDefine, DefNs
    <3>3. nsSymbols'[q][n] = v
      BY <3>1, <3>2
    <3> QED
      BY <2>2, <3>1, <3>3 DEF Read, Lookup, Or
  <2> QED
    BY <2>1, <2>2
<1>2. IInv /\ [Next]_vars =>
        [\A e \in Created, n \in Name, q \in Qualifier, v \in Literal :
           /\ e = Top
           /\ Assign(n, q, v)
           /\ q = Bare => ~MarkShadowed(e, n)
           => Read(e, n, q)' = v]_vars
  BY <1>1
<1> QED
  BY <1>2, InductiveInvariant, PTL DEF Spec, ReadYourWrites

-----------------------------------------------------------------------------
(* What a body starts with                                                 *)

(* A scope that does not exist yet has no pending local and no anchor.      *)
FreshScopes ==
  \A s \in Scope \ Created : unassignedLocals[s] = {} /\ homeNs[s] = Bare

(* Environment::child starts from such a scope: only the running scope, the *)
(* scope an assignment binds in and the scope just created are written.    *)
LEMMA FreshKept ==
  ASSUME IInv, FreshScopes, [Next]_vars
  PROVE  FreshScopes'
<1> SUFFICES ASSUME NEW s \in Scope \ Created'
             PROVE  /\ unassignedLocals'[s] = unassignedLocals[s]
                    /\ homeNs'[s] = homeNs[s]
                    /\ s \notin Created
  BY DEF FreshScopes
<1> DEFINE same == /\ unassignedLocals'[s] = unassignedLocals[s]
                   /\ homeNs'[s] = homeNs[s]
                   /\ s \notin Created
<1>1. /\ scopes \in Nat \ {0} /\ Top \in Created /\ s \in Nat \ {0}
      /\ unassignedLocals \in [Scope -> SUBSET Name]
      /\ homeNs \in [Scope -> Namespace \cup {Bare}]
  BY TopProperties, RegistryAssumption DEF IInv, TypeOK, Scope
<1>2. scopes' = scopes => s \notin Created /\ s # Top
  BY <1>1 DEF Created
<1>3. \A n \in Name : BindScope(Top, n) \in Created \cup {0}
  <2>1. chain[Top] \subseteq Created
    BY <1>1 DEF IInv, ScopeTree, Created
  <2> QED
    BY <2>1, BindScopeProperties
<1>4. ASSUME NEW parent, NEW kind, NEW bindings, OpenScope(parent, kind, bindings)
      PROVE  s # scopes + 1 /\ unassignedLocals'[s] = unassignedLocals[s] /\ s \notin Created
  BY <1>1, <1>4 DEF OpenScope, Created
<1>5. CASE \E n \in Name, q \in Qualifier, v \in Literal : Assign(n, q, v)
  <2>1. PICK n \in Name, q \in Qualifier, v \in Literal : Assign(n, q, v)
    BY <1>5
  <2>2. scopes' = scopes /\ homeNs' = homeNs
    BY <2>1 DEF Assign
  <2>3. s # BindScope(Top, n)
    BY <1>1, <1>2, <1>3, <2>2
  <2>4. unassignedLocals'[s] = unassignedLocals[s]
    BY <1>1, <2>1, <2>3 DEF Assign, BindIn
  <2> QED
    BY <1>2, <2>2, <2>4
<1>6. CASE Binding /\ ~ \E n \in Name, q \in Qualifier, v \in Literal : Assign(n, q, v)
  <2>1. CASE \E n \in Name, q \in Qualifier, p \in Params,
                written \in SUBSET Name : DefineFn(n, q, p, written \ {p})
    BY <1>2, <2>1 DEF DefineFn
  <2>2. CASE \E n \in Name, q \in Qualifier, p \in Params : DefineTradFn(n, q, p)
    BY <1>2, <2>2 DEF DefineTradFn
  <2>3. CASE \E n \in Name, q \in Qualifier : AssignConstant(n, q)
    BY <1>2, <2>3 DEF AssignConstant, lexVars
  <2>4. CASE \E n \in Name : DeclareLocal(n)
    BY <1>1, <1>2, <2>4 DEF DeclareLocal
  <2> QED
    BY <1>6, <2>1, <2>2, <2>3, <2>4 DEF Binding
<1>7. CASE Calls
  <2>1. CASE \E n \in Name, q \in Qualifier, v \in Data :
               CallFn(n, q, v) \/ ApplyDynamicRef(n, q, v)
    BY <1>4, <2>1 DEF CallFn, ApplyDynamicRef, ApplyUserFn
  <2>2. CASE \E p \in Params, v \in Data : ApplyLambda(p, v)
    BY <1>4, <2>2 DEF ApplyLambda, ApplyUserFn
  <2>3. CASE ApplyBlock \/ \E n \in Name, v \in Data : MacroExpand(n, v)
    BY <1>4, <2>3 DEF ApplyBlock, MacroExpand
  <2>4. CASE Leave
    BY <1>2, <2>4 DEF Leave, LeaveUnchanged
  <2> QED
    BY <1>7, <2>1, <2>2, <2>3, <2>4 DEF Calls
<1>8. CASE Directives
  <2>1. CASE UseFile
    BY <1>1, <1>4, <2>1 DEF UseFile
  <2>2. CASE NextFileStatement
    BY <1>1, <1>2, <2>2 DEF NextFileStatement
  <2>3. CASE Directives /\ ~UseFile /\ ~NextFileStatement
    BY <1>2, <2>3 DEF Directives, DeclareConst, DeclareExport, Import, SetNamespace, lexVars
  <2> QED
    BY <1>8, <2>1, <2>2, <2>3
<1>9. CASE Errors
  BY <1>2, <1>9 DEF Errors, Fail, Handle, lexVars
<1>10. CASE UNCHANGED vars
  BY <1>2, <1>10 DEF vars, lexVars
<1> QED
  BY <1>5, <1>6, <1>7, <1>8, <1>9, <1>10 DEF Next

(* The scope of a call adds nothing to what its parent reads.               *)
LEMMA CallReads ==
  ASSUME IInv, FreshScopes, NEW f \in LiveClosure(scopes), NEW self \in SUBSET Name,
         NEW v \in Data, ApplyUserFn(f, self, v),
         NEW m \in Name, m \notin self, m # f.param
  PROVE  /\ Read(Top, m, Bare)' = Read(f.env, m, Bare)
         /\ chain'[Top'] = chain[f.env] \cup {scopes'}
<1> DEFINE new == scopes + 1
           bindings == [n \in Name |-> IF n \in self THEN f
                                       ELSE IF n = f.param THEN v
                                       ELSE Unbound]
           C == chain[f.env]
<1>1. /\ scopes \in Nat /\ new \in Scope /\ new \notin Created /\ f.env \in Created
      /\ scopes' = new /\ f.env \in Scope
  <2>1. scopes \in Nat /\ scopes < MaxScopes /\ scopes' = new /\ f.env \in Created
    BY TopProperties DEF ApplyUserFn, OpenScope, LiveClosure, Created
  <2> QED
    BY <2>1, TopProperties, RegistryAssumption DEF Scope, Created
<1>2. C \subseteq Created /\ new \notin C /\ C \subseteq Scope
  BY <1>1, TopProperties DEF IInv, ScopeTree, Created
<1>3. /\ symbols \in [Scope -> [Name -> Value \cup {Unbound}]]
      /\ chain \in [Scope -> SUBSET Scope]
  BY DEF IInv, TypeOK
<1>4. OpenScope(f.env, "fn", bindings)
  BY DEF ApplyUserFn
<1>5. Top' = new
  <2>1. Len(stack) \in Nat /\ stack \in Seq(Frame)
    BY TopProperties DEF IInv, TypeOK
  <2>2. PICK frame : stack' = Append(stack, frame) /\ frame.env = new
    BY <1>4 DEF OpenScope
  <2>3. Len(stack') = Len(stack) + 1 /\ stack'[Len(stack) + 1] = frame
    BY <2>1, <2>2
  <2> QED
    BY <2>2, <2>3 DEF Top, TopFrame
<1>6. chain'[new] = C \cup {new}
  BY <1>1, <1>3, <1>4 DEF OpenScope
<1>7. /\ \A s \in C : symbols'[s] = symbols[s]
      /\ symbols'[new][m] = Unbound
  <2>1. symbols' = [symbols EXCEPT ![new] = bindings]
    BY <1>4 DEF OpenScope
  <2>2. bindings[m] = Unbound
    OBVIOUS
  <2> HIDE DEF bindings
  <2> QED
    BY <1>1, <1>2, <1>3, <2>1, <2>2
<1> HIDE DEF bindings
<1>8. /\ UNCHANGED <<unassignedLocals, homeNs, engineFns, current, nsSymbols, exports, imports>>
      /\ unassignedLocals[new] = {} /\ homeNs[new] = Bare
  BY <1>1, <1>4 DEF OpenScope, ApplyUserFn, FreshScopes, regVars
<1> DEFINE B == BoundOn(f.env, m)
           M == MarkedOn(f.env, m)
<1>9. BoundOn(Top, m)' = B /\ MarkedOn(Top, m)' = M
  BY <1>2, <1>5, <1>6, <1>7, <1>8 DEF BoundOn, MarkedOn
<1>10. B \in SUBSET Scope /\ M \in SUBSET Scope /\ B \subseteq C /\ M \subseteq C
  BY <1>2 DEF BoundOn, MarkedOn
<1>11. \A S \in SUBSET C : S # {} => Innermost(S) \in C
  BY <1>2, InnermostProperties
<1>12. Lexical(Top, m)' = Lexical(f.env, m)
  <2> HIDE DEF B
  <2>1. B # {} => symbols'[Innermost(B)] = symbols[Innermost(B)]
    BY <1>7, <1>10, <1>11
  <2> QED
    BY <1>9, <2>1 DEF Lexical, B
<1>13. UnassignedLocal(Top, m)' = UnassignedLocal(f.env, m)
  <2> DEFINE K == B \cup M
  <2>1. K # {} => symbols'[Innermost(K)] = symbols[Innermost(K)]
    BY <1>7, <1>10, <1>11
  <2> QED
    BY <1>9, <2>1 DEF UnassignedLocal
<1>14. HomeAnchor(Top, m)' = HomeAnchor(f.env, m)
  <2> DEFINE homes == {s \in C : /\ homeNs[s] # Bare
                                 /\ nsSymbols[homeNs[s]][m] # Unbound}
             after == {s \in C \cup {new} : /\ homeNs[s] # Bare
                                            /\ nsSymbols[homeNs[s]][m] # Unbound}
  <2>1. after = homes
    BY <1>8
  <2>2. HomeAnchor(Top, m)' =
          IF after = {} THEN Unbound ELSE nsSymbols[homeNs[Innermost(after)]][m]
    BY <1>5, <1>6, <1>8 DEF HomeAnchor
  <2>3. HomeAnchor(f.env, m) =
          IF homes = {} THEN Unbound ELSE nsSymbols[homeNs[Innermost(homes)]][m]
    BY DEF HomeAnchor
  <2> QED
    BY <2>1, <2>2, <2>3
<1>15. ResolveBare(m)' = ResolveBare(m)
  BY <1>8 DEF ResolveBare, FromImports, ImportsShowing
<1> QED
  BY <1>1, <1>5, <1>6, <1>8, <1>12, <1>13, <1>14, <1>15 DEF Read, Lookup

(* Assignments of the running scope stay on its chain or go to a module.    *)
LEMMA BindScopeOnChain ==
  IInv => \A m \in Name : BindScope(Top, m) \in chain[Top] \cup {0}
BY BindScopeProperties

(* Functions are lexically scoped: a called body reads and assigns the free *)
(* names of the scope its function was written in, not of its caller.       *)
THEOREM BodiesAreLexical == Spec => LexicalScoping
<1> DEFINE lexical == \A n \in Name, q \in Qualifier, v \in Data :
             CallFn(n, q, v) \/ ApplyDynamicRef(n, q, v) =>
               LET f == Lookup(Top, n, q) IN
               \A m \in Name \ {n, f.param} :
                 /\ Read(Top, m, Bare)' = Read(f.env, m, Bare)
                 /\ BindScope(Top, m)' \in chain[f.env] \cup {0, scopes'}
<1>1. IInv' => \A m \in Name : BindScope(Top, m)' \in chain'[Top'] \cup {0}
  <2>1. (IInv => \A m \in Name : BindScope(Top, m) \in chain[Top] \cup {0})'
    BY BindScopeOnChain, PTL
  <2> QED
    BY <2>1
<1>2. ASSUME IInv, IInv', FreshScopes
      PROVE  lexical
  <2> SUFFICES ASSUME NEW n \in Name, NEW q \in Qualifier, NEW v \in Data,
                      CallFn(n, q, v) \/ ApplyDynamicRef(n, q, v),
                      NEW m \in Name \ {n, Lookup(Top, n, q).param}
               PROVE  /\ Read(Top, m, Bare)' = Read(Lookup(Top, n, q).env, m, Bare)
                      /\ BindScope(Top, m)' \in
                           chain[Lookup(Top, n, q).env] \cup {0, scopes'}
    OBVIOUS
  <2> DEFINE f == Lookup(Top, n, q)
             self == IF q = Bare THEN {n} ELSE {}
  <2>1. f \in LiveClosure(scopes)
    BY <1>2, TopProperties, LookupLive, ValueAssumption
       DEF CallFn, ApplyDynamicRef, Live
  <2>2. ApplyUserFn(f, self, v) \/ ApplyUserFn(f, {}, v)
    BY DEF CallFn, ApplyDynamicRef
  <2>3. /\ self \in SUBSET Name /\ {} \in SUBSET Name
        /\ m \in Name /\ m \notin self /\ m \notin {} /\ m # f.param
    OBVIOUS
  <2> HIDE DEF f, self
  <2>4. /\ Read(Top, m, Bare)' = Read(f.env, m, Bare)
        /\ chain'[Top'] = chain[f.env] \cup {scopes'}
    BY <1>2, <2>1, <2>2, <2>3, CallReads
  <2>5. BindScope(Top, m)' \in chain[f.env] \cup {0, scopes'}
    BY <1>1, <1>2, <2>3, <2>4
  <2> QED
    BY <2>4, <2>5 DEF f
<1>3. Init => FreshScopes
  BY DEF Init, FreshScopes
<1>4. IInv /\ FreshScopes /\ [Next]_vars => FreshScopes'
  BY FreshKept
<1>5. IInv /\ IInv' /\ FreshScopes => [lexical]_vars
  BY <1>2
<1> QED
  BY <1>3, <1>4, <1>5, InductiveInvariant, PTL DEF Spec, LexicalScoping

-----------------------------------------------------------------------------
(* What a read does not see                                                *)

(* resolve_bare shows a name of another namespace through an export only.  *)
LEMMA UnexportedUnresolved ==
  ASSUME TypeOK, NEW m \in Namespace \ {current, Default, Kap}, NEW n \in Name,
         n \notin exports[m],
         \A k \in Namespace \ {m} : nsSymbols[k][n] = Unbound
  PROVE  ResolveBare(n) = Unbound
<1>1. current \in Namespace /\ Default \in Namespace /\ Kap \in Namespace
  BY RegistryAssumption DEF TypeOK, RegistryTypeOK
<1>2. imports[current] \in Seq(Namespace)
  BY <1>1 DEF TypeOK, RegistryTypeOK
<1>3. \A i \in DOMAIN imports[current] : imports[current][i] \in Namespace
  BY <1>2, ElementOfSeq, LenProperties
<1>4. ImportsShowing(n) = {}
  BY <1>3 DEF ImportsShowing
<1>5. FromImports(n) = Unbound
  BY <1>4 DEF FromImports
<1> QED
  BY <1>1, <1>5 DEF ResolveBare, Or

(* Modules hide what they do not export: code whose namespace, scopes and   *)
(* anchors are elsewhere cannot read such a name bare.                     *)
THEOREM UnexportedStayHidden == Spec => []UnexportedNamesInvisible
<1>1. ASSUME IInv
      PROVE  UnexportedNamesInvisible
  <2> SUFFICES ASSUME NEW m \in Namespace \ {current, Default, Kap}, NEW n \in Name,
                      n \notin exports[m],
                      \A k \in Namespace \ {m} : nsSymbols[k][n] = Unbound,
                      \A s \in chain[Top] : symbols[s][n] = Unbound /\ homeNs[s] # m,
                      engineFns[n] = Unbound,
                      Top \in Scope
               PROVE  Read(Top, n, Bare) = Unbound
    BY <1>1, TopProperties DEF UnexportedNamesInvisible
  <2>1. Lexical(Top, n) = Unbound
    BY DEF Lexical, BoundOn
  <2>2. ResolveBare(n) = Unbound
    BY <1>1, UnexportedUnresolved DEF IInv
  <2>3. HomeAnchor(Top, n) = Unbound
    <3>1. \A s \in chain[Top] : homeNs[s] \in Namespace \cup {Bare}
      BY <1>1 DEF IInv, TypeOK
    <3>2. {s \in chain[Top] : homeNs[s] # Bare /\ nsSymbols[homeNs[s]][n] # Unbound} = {}
      BY <3>1
    <3> QED
      BY <3>2 DEF HomeAnchor
  <2> QED
    BY <2>1, <2>2, <2>3 DEF Read, Lookup, Or
<1> QED
  BY <1>1, InductiveInvariant, PTL

=============================================================================
