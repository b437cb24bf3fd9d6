------------------------------ MODULE Registry ------------------------------
(***************************************************************************)
(* The shared namespace registry (kap-core/src/lib.rs, NamespaceRegistry): *)
(* the module-level symbol table every Environment of an engine points to, *)
(* with the current namespace, exports, imports, constants and the marks   *)
(* that say which bindings are function definitions.  The evaluator (module *)
(* Scopes) runs on top of it; the registry itself never takes a step alone. *)
(***************************************************************************)
EXTENDS Naturals, Sequences, FiniteSets

CONSTANTS
  Name,        \* symbol names
  Data,        \* values that are not functions
  Namespace,   \* namespace names
  Default,     \* the implicit namespace, "default"
  Kap,         \* the standard-library namespace, "kap"
  Bare,        \* the namespace part of an unqualified name (Rust's None)
  Unbound,     \* no binding (Rust's None)
  NoParam,     \* a function with no named parameter (only the omega glyph)
  MaxScopes    \* bound: scopes an evaluation may create, the root included

ASSUME RegistryAssumption ==
  /\ {Default, Kap} \subseteq Namespace
  /\ Bare \notin Namespace
  /\ NoParam \notin Name
  /\ MaxScopes \in Nat \ {0}

Scope == 1..MaxScopes

(* APLValue::UserFn, as far as names can tell: its defining scope, whether  *)
(* its body is wrapped in ClosedScope, and its parameter.                   *)
Closure == [env : Scope, sealed : BOOLEAN, param : Name \cup {NoParam}]

ASSUME ValueAssumption ==
  /\ Unbound \notin Data \cup Closure
  /\ Data \cap Closure = {}

Value == Data \cup Closure

VARIABLES
  current,        \* the current namespace
  nsSymbols,      \* module-scope bindings
  exports,        \* names declared :export, per namespace
  imports,        \* imported namespaces, in import order
  constants,      \* <<namespace, name>> pairs declared :const
  fnDefinitions   \* <<namespace, name>> pairs marked as function definitions

regVars == <<current, nsSymbols, exports, imports, constants, fnDefinitions>>

RegistryTypeOK ==
  /\ current \in Namespace
  /\ nsSymbols \in [Namespace -> [Name -> Value \cup {Unbound}]]
  /\ exports \in [Namespace -> SUBSET Name]
  /\ imports \in [Namespace -> Seq(Namespace)]
  /\ constants \subseteq Namespace \X Name
  /\ fnDefinitions \subseteq Namespace \X Name

RegistryInit ==
  /\ current = Default
  /\ nsSymbols = [m \in Namespace |-> [n \in Name |-> Unbound]]
  /\ exports = [m \in Namespace |-> {}]
  /\ imports = [m \in Namespace |-> <<>>]
  /\ constants = {}
  /\ fnDefinitions = {}

-----------------------------------------------------------------------------

Least(S) == CHOOSE i \in S : \A j \in S : i <= j

Or(v, w) == IF v # Unbound THEN v ELSE w

(* Mutant: an import shows every name of its namespace.                    *)
ImportsShowingAll(n) ==
  {i \in DOMAIN imports[current] : nsSymbols[imports[current][i]][n] # Unbound}

(* The imports of the current namespace that show n: it must be exported.  *)
ImportsShowing(n) ==
  {i \in DOMAIN imports[current] :
     /\ n \in exports[imports[current][i]]
     /\ nsSymbols[imports[current][i]][n] # Unbound}

FromImports(n) ==
  IF ImportsShowing(n) = {} THEN Unbound
  ELSE nsSymbols[imports[current][Least(ImportsShowing(n))]][n]

(* NamespaceRegistry::resolve_bare: the current namespace, its imports in   *)
(* import order, then "default", then "kap".                               *)
ResolveBare(n) ==
  Or(nsSymbols[current][n],
     Or(FromImports(n), Or(nsSymbols[Default][n], nsSymbols[Kap][n])))

NsDefine(m, n, v) == nsSymbols' = [nsSymbols EXCEPT ![m][n] = v]

(* The namespace a definition of q:n is accounted to (def_ns).             *)
DefNs(q) == IF q = Bare THEN current ELSE q

MarkFnDef(q, n)   == fnDefinitions' = fnDefinitions \cup {<<DefNs(q), n>>}
UnmarkFnDef(q, n) == fnDefinitions' = fnDefinitions \ {<<DefNs(q), n>>}

(* Bare names the registry reports to the parser as applicable functions.  *)
RegistryFunctionNames ==
  {n \in Name : \E m \in Namespace :
     /\ <<m, n>> \in fnDefinitions
     /\ nsSymbols[m][n] \in Closure
     /\ m = Default \/ n \in exports[m]}

=============================================================================
