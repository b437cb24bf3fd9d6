----------------------------- MODULE Assignments -----------------------------
(***************************************************************************)
(* The assignments of evaluator.rs beyond the plain one: reactive bindings *)
(* and destructuring.  b dynamicequal expr binds the name to a thunk whose *)
(* body is evaluated again each time an operand is forced; dyn_active      *)
(* holds the thunks under evaluation, and a thunk met again while it is    *)
(* there is a circular assignment.  An assignment from a name copies the   *)
(* thunk, and a body that is only a name hands the thunk of that name on   *)
(* without forcing it.  (a (b c)) <- value binds the leaves of the target  *)
(* from left to right; one that fails leaves the bindings before it.       *)
(***************************************************************************)
EXTENDS Integers, FiniteSets, Sequences, SequencesExt

CONSTANTS Name,
          Constant,     \* the names registered as constants
          MaxThunks,
          Targets,      \* the targets and the values of the destructuring
          Values        \* assignments, groups at most two deep

VARIABLES bound,        \* name -> its value
          bodies,       \* thunk id -> expression; NEXT_DYNAMIC_ID is its length + 1
          dynActive,    \* Engine::dyn_active
          answer        \* what a read just gave, Amount(0) after an assignment
asVars == <<bound, bodies, dynActive, answer>>

Amount(n) == [tag |-> "long", n |-> n]
Thunk(i) == [tag |-> "thunk", n |-> i]
Vector(s)    == [tag |-> "vector", s |-> s]       \* a rank-1 array
ListValue(s) == [tag |-> "list", s |-> s]
(* The errors a statement can end in.                                      *)
Circular  == [tag |-> "circular"]
BadValue  == [tag |-> "error"]
ReadOnly  == [tag |-> "constant"]
Misfit    == [tag |-> "misfit"]
Failure(v) == v.tag \in {"circular", "error", "constant", "misfit"}

(* A body: the name alone, the sum of two names, or a name forced inside a *)
(* catch.                                                                  *)
Body == [form : {"name", "caught"}, x : Name \ Constant, y : {"none"}]
        \cup [form : {"sum"}, x : Name \ Constant, y : Name \ Constant]

(* A target is a name, an array or a list of targets.                      *)
Leaf(n)   == [form |-> "symbol", name |-> n]
GroupOf(ts) == [form |-> "array", ts |-> ts]
ListOf(ts) == [form |-> "list", ts |-> ts]
LeafTarget  == [form : {"symbol"}, name : Name]
InnerTarget == LeafTarget \cup [form : {"array", "list"}, ts : Seq(LeafTarget)]
Target      == [form : {"array", "list"}, ts : Seq(InnerTarget)]
Scalar == [tag : {"long"}, n : Nat]
Shallow == Scalar \cup [tag : {"vector", "list"}, s : Seq(Scalar)]
Storable == Scalar \cup [tag : {"vector", "list"}, s : Seq(Shallow)]
AssignmentsAssumption ==
  /\ MaxThunks \in Nat /\ Constant \subseteq Name
  /\ Targets \subseteq Target /\ Values \subseteq Storable
ASSUME AssignmentsAssumption

-----------------------------------------------------------------------------
(* The evaluation of a body with the set of active thunks before it: its   *)
(* value and the set after it.  force gives both for a thunk and a set; a  *)
(* sum forces its right operand first.                                     *)

Outcome(v, active) == [v |-> v, active |-> active]
Enter(force, v, active) ==
  IF v.tag = "thunk" THEN force[<<v.n, active>>] ELSE Outcome(v, active)
Total(x, y) == IF x.tag = "long" /\ y.tag = "long" THEN Amount((x.n + y.n) % 3) ELSE BadValue
EvalBody(force, e, active) ==
  LET r1 == Enter(force, bound[e.x], active)
      ry == Enter(force, bound[e.y], active)
      rx == Enter(force, bound[e.x], ry.active)
  IN  CASE e.form = "name" -> Outcome(bound[e.x], active)
        [] e.form = "caught" -> IF Failure(r1.v) THEN Outcome(Amount(0), r1.active) ELSE r1
        [] e.form = "sum" -> IF Failure(ry.v) THEN ry
                             ELSE IF Failure(rx.v) THEN rx
                             ELSE Outcome(Total(rx.v, ry.v), rx.active)
(* The guard of a thunk goes however its evaluation ended.                 *)
ReleaseLeaky(i, r) == IF Failure(r.v) THEN r ELSE Outcome(r.v, r.active \ {i})
Release(i, r) == Outcome(r.v, r.active \ {i})
Guarded(force, p) ==
  IF p[1] \in p[2] THEN Outcome(Circular, p[2])
  ELSE Release(p[1], EvalBody(force, bodies[p[1]], p[2] \cup {p[1]}))
Forcing ==
  LET force[p \in (DOMAIN bodies) \X SUBSET DOMAIN bodies] == Guarded(force, p)
  IN  force
ForceThunk(v, active) == Enter(Forcing, v, active)

-----------------------------------------------------------------------------
(* A destructuring assignment: the bindings after it, and Amount(0) or the *)
(* error that ended it.                                                    *)

Bindings(b, r) == [b |-> b, r |-> r]
Kind(t) == IF t.form = "array" THEN "vector" ELSE "list"
FitsUnchecked(t, v) == v.tag = Kind(t)        \* the lengths are not compared
Fits(t, v) == v.tag = Kind(t) /\ Len(v.s) = Len(t.ts)
BindLeaf(t, v, b) ==
  IF t.name \in Constant THEN Bindings(b, ReadOnly)
  ELSE Bindings([b EXCEPT ![t.name] = v], Amount(0))
BindEach(Bind(_, _, _), t, v, b) ==
  LET pairs == IF Len(t.ts) < Len(v.s) THEN Len(t.ts) ELSE Len(v.s)
      upTo[i \in 0 .. pairs] ==
        IF i = 0 THEN Bindings(b, Amount(0))
        ELSE IF Failure(upTo[i - 1].r) THEN upTo[i - 1]
        ELSE Bind(t.ts[i], v.s[i], upTo[i - 1].b)
  IN  IF Fits(t, v) THEN upTo[pairs] ELSE Bindings(b, Misfit)
BindInner(t, v, b) ==
  IF t.form = "symbol" THEN BindLeaf(t, v, b) ELSE BindEach(BindLeaf, t, v, b)
BindTarget(t, v, b) == BindEach(BindInner, t, v, b)

-----------------------------------------------------------------------------
(* The statements.                                                         *)

Assign(n) == /\ n \notin Constant
             /\ bound' = [bound EXCEPT ![n] = Amount(1)]
             /\ answer' = Amount(0)
             /\ UNCHANGED <<bodies, dynActive>>
Copy(n, m) == /\ n \notin Constant
              /\ bound' = [bound EXCEPT ![n] = bound[m]]
              /\ answer' = Amount(0)
              /\ UNCHANGED <<bodies, dynActive>>
DynAssign(n, e) == /\ n \notin Constant
                   /\ Len(bodies) < MaxThunks
                   /\ bodies' = Append(bodies, e)
                   /\ bound' = [bound EXCEPT ![n] = Thunk(Len(bodies) + 1)]
                   /\ answer' = Amount(0)
                   /\ UNCHANGED dynActive
(* An operand read: the value of the name, forced.                         *)
Read(n) == LET r == ForceThunk(bound[n], dynActive)
           IN  /\ answer' = r.v
               /\ dynActive' = r.active
               /\ UNCHANGED <<bound, bodies>>
Destruct(t, v) == LET r == BindTarget(t, v, bound)
                  IN  /\ bound' = r.b
                      /\ answer' = Amount(0)
                      /\ UNCHANGED <<bodies, dynActive>>

AsInit == /\ bound = [n \in Name |-> Amount(2)]
          /\ bodies = <<>>
          /\ dynActive = {}
          /\ answer = Amount(0)
AsNext == \/ \E n \in Name : Assign(n) \/ Read(n)
          \/ \E n, m \in Name : Copy(n, m)
          \/ \E n \in Name, e \in Body : DynAssign(n, e)
          \/ \E t \in Targets, v \in Values : Destruct(t, v)
AsSpec == AsInit /\ [][AsNext]_asVars

-----------------------------------------------------------------------------
(* Thunks a forced thunk forces in turn, where its body is of a form given: *)
(* Reached is the least set of thunks with those and closed under forcing. *)

ReadsOf(e) == IF e.form = "sum" THEN {e.x, e.y} ELSE {e.x}
Forced(i, forms) ==
  {j \in DOMAIN bodies : /\ bodies[i].form \in forms
                         /\ \E m \in ReadsOf(bodies[i]) : bound[m] = Thunk(j)}
ForcingStaysIn(S, forms) == \A i \in S : Forced(i, forms) \subseteq S
Reached(i, forms) ==
  {j \in DOMAIN bodies : \A S \in SUBSET DOMAIN bodies :
     Forced(i, forms) \subseteq S /\ ForcingStaysIn(S, forms) => j \in S}
(* A thunk reached from thunk i, or i, is reached from itself.             *)
Circle(i, forms) == \E j \in {i} \cup Reached(i, forms) : j \in Reached(j, forms)

(* A read reports a circular assignment only where the bindings are        *)
(* circular, does so whenever a thunk is reached through sums from itself  *)
(* with no catch on the way, and leaves no thunk marked as active: after a *)
(* failed read the same names can be bound anew and read.                  *)
CircularExact ==
  /\ dynActive = {}
  /\ \A n \in Name : bound[n].tag = "thunk" =>
       LET r == ForceThunk(bound[n], dynActive).v
       IN  /\ r = Circular => Circle(bound[n].n, {"sum", "caught"})
           /\ Circle(bound[n].n, {"sum"}) => Failure(r)

(* The leaves of a target with their elements, in the order they are       *)
(* bound; a group that does not fit is one leaf that ends the binding.     *)
Ends(v) == [name |-> "none", v |-> v, ends |-> TRUE]
LeafAt(t, v) == [name |-> t.name, v |-> v, ends |-> t.name \in Constant]
Matches(t, v) == /\ t.form = "array" => v.tag = "vector"
                 /\ t.form = "list" => v.tag = "list"
                 /\ Len(v.s) = Len(t.ts)
LeavesIn(t, v) ==
  IF t.form = "symbol" THEN <<LeafAt(t, v)>>
  ELSE IF ~Matches(t, v) THEN <<Ends(v)>>
  ELSE [i \in DOMAIN t.ts |-> LeafAt(t.ts[i], v.s[i])]
Leaves(t, v) ==
  IF ~Matches(t, v) THEN <<Ends(v)>>
  ELSE FlattenSeq([i \in DOMAIN t.ts |-> LeavesIn(t.ts[i], v.s[i])])
(* The last leaf of a name before the first that ends the binding.         *)
BoundBy(ls, n) ==
  {i \in DOMAIN ls : /\ ls[i].name = n /\ \A j \in 1 .. i : ~ls[j].ends
                     /\ \A j \in DOMAIN ls : j > i /\ ls[j].name = n
                           => \E k \in 1 .. j : ls[k].ends}
(* A destructuring assignment binds the leaves before the first one that   *)
(* is a constant or a group that does not fit, the later of two equal      *)
(* names last, and no other name; it succeeds when there is none.          *)
DestructExact ==
  /\ \A n \in Constant : bound[n] = Amount(2)
  /\ \A t \in Targets, v \in Values :
       LET r == BindTarget(t, v, bound)
           ls == Leaves(t, v)
       IN  /\ Failure(r.r) <=> \E i \in DOMAIN ls : ls[i].ends
           /\ \A n \in Name : /\ \A i \in BoundBy(ls, n) : r.b[n] = ls[i].v
                              /\ BoundBy(ls, n) = {} => r.b[n] = bound[n]
=============================================================================
