---------------------------- MODULE ValuesProofs ----------------------------
(***************************************************************************)
(* Proofs about the assignments (module Assignments), for every set of     *)
(* names, every number of thunks and every target and value at most two    *)
(* deep: types, what forcing a thunk gives, and what a destructuring       *)
(* assignment binds; about a map in use (module MapStore), for every set   *)
(* of keys and values, written and nested as deep as a program likes; and  *)
(* about the primitives that rearrange an array (module Rearrange), for    *)
(* every rank and size, whatever the cells are.                            *)
(***************************************************************************)
EXTENDS Assignments, MapStore, ArrayLaws, Recursion, FiniteSetTheorems

Ids    == DOMAIN bodies
Stored == Storable \cup {Thunk(i) : i \in Ids}
Result == Stored \cup {Circular, BadValue}

(* The state is made of what its declarations say, and between two         *)
(* statements no thunk is under evaluation.                                *)
AsTypeOK ==
  /\ bodies \in Seq(Body) /\ Len(bodies) <= MaxThunks
  /\ bound \in [Name -> Stored]
  /\ dynActive = {}
  /\ answer \in Result

-----------------------------------------------------------------------------
(* Forcing by itself: what it is defined from                              *)

Point == Ids \X SUBSET Ids
(* A thunk evaluated with others active leaves exactly those active.       *)
Tidy(f, a) == \A k \in Ids : f[<<k, a>>] \in [v : Result, active : {a}]

(* What an operand gives to a body, and the body to its thunk.             *)
Seen(f, n, a) == IF bound[n].tag = "thunk" THEN f[<<bound[n].n, a>>].v ELSE bound[n]
Given(f, e, a) ==
  CASE e.form = "name" -> bound[e.x]
    [] e.form = "caught" -> IF Failure(Seen(f, e.x, a)) THEN Amount(0) ELSE Seen(f, e.x, a)
    [] e.form = "sum" -> IF Failure(Seen(f, e.y, a)) THEN Seen(f, e.y, a)
                         ELSE IF Failure(Seen(f, e.x, a)) THEN Seen(f, e.x, a)
                         ELSE Total(Seen(f, e.x, a), Seen(f, e.y, a))

LEMMA IdsFinite ==
  ASSUME AsTypeOK
  PROVE  /\ Ids = 1..Len(bodies) /\ Len(bodies) \in Nat
         /\ IsFiniteSet(Ids) /\ Cardinality(Ids) = Len(bodies)
         /\ \A i \in Ids : bodies[i] \in Body
<1>1. Ids = 1..Len(bodies) /\ Len(bodies) \in Nat
  BY LenProperties DEF AsTypeOK, Ids
<1>2. \A i \in 1..Len(bodies) : bodies[i] \in Body
  BY ElementOfSeq DEF AsTypeOK
<1>3. /\ IsFiniteSet(1..Len(bodies))
      /\ Cardinality(1..Len(bodies)) = IF 1 > Len(bodies) THEN 0 ELSE Len(bodies) - 1 + 1
  BY <1>1, FS_Interval
<1> QED
  BY <1>1, <1>2, <1>3

(* Values tell themselves apart by their tags.                             *)
LEMMA StoredKinds ==
  /\ \A v \in Stored : /\ ~Failure(v)
                       /\ v.tag = "thunk" => v.n \in Ids /\ v = Thunk(v.n)
                       /\ v # Circular /\ v # BadValue
  /\ \A i \in Ids : Thunk(i).tag = "thunk" /\ Thunk(i).n = i
  /\ Failure(Circular) /\ Failure(BadValue)
  /\ \A n : Amount(n).tag = "long" /\ Amount(n).n = n
<1>1. \A v \in Storable : v.tag \in {"long", "vector", "list"}
  BY DEF Storable, Scalar, Shallow
<1>2. \A v \in Storable : v # Circular /\ v # BadValue
  BY <1>1 DEF Circular, BadValue
<1> QED
  BY <1>1, <1>2 DEF Stored, Failure, Thunk, Circular, BadValue, Amount

LEMMA AmountStored == \A n \in Nat : Amount(n) \in Stored
BY DEF Stored, Storable, Scalar, Amount

LEMMA BodyKinds ==
  ASSUME NEW e \in Body
  PROVE  /\ e.form \in {"name", "caught", "sum"} /\ e.x \in Name
         /\ e.form = "sum" => e.y \in Name
BY DEF Body

LEMMA TotalTyped ==
  ASSUME NEW x \in Result, NEW y \in Result
  PROVE  /\ Total(x, y) \in Result
         /\ Total(x, y) # Circular
<1>1. CASE x.tag = "long" /\ y.tag = "long"
  <2>1. \A v \in Result : v.tag = "long" => v.n \in Nat
    BY DEF Result, Stored, Storable, Scalar, Shallow, Thunk, Circular, BadValue
  <2>2. (x.n + y.n) % 3 \in Nat
    BY <1>1, <2>1
  <2>3. Total(x, y) = Amount((x.n + y.n) % 3)
    BY <1>1 DEF Total
  <2>4. Total(x, y) \in Stored
    BY <2>2, <2>3, AmountStored
  <2> QED
    BY <2>4, StoredKinds DEF Result
<1>2. CASE ~(x.tag = "long" /\ y.tag = "long")
  BY <1>2 DEF Total, Result, BadValue, Circular
<1> QED
  BY <1>1, <1>2

LEMMA SeenTyped ==
  ASSUME AsTypeOK, NEW f, NEW a \in SUBSET Ids, Tidy(f, a), NEW n \in Name
  PROVE  /\ Seen(f, n, a) \in Result
         /\ Enter(f, bound[n], a) = Outcome(Seen(f, n, a), a)
<1>1. bound[n] \in Stored
  BY DEF AsTypeOK
<1>2. CASE bound[n].tag = "thunk"
  <2>1. bound[n].n \in Ids
    BY <1>1, <1>2, StoredKinds
  <2>2. f[<<bound[n].n, a>>] \in [v : Result, active : {a}]
    BY <2>1 DEF Tidy
  <2> QED
    BY <1>2, <2>2 DEF Seen, Enter, Outcome
<1>3. CASE bound[n].tag # "thunk"
  BY <1>1, <1>3 DEF Seen, Enter, Outcome, Result
<1> QED
  BY <1>2, <1>3

LEMMA GivenTyped ==
  ASSUME AsTypeOK, NEW f, NEW a \in SUBSET Ids, Tidy(f, a), NEW e \in Body
  PROVE  /\ Given(f, e, a) \in Result
         /\ EvalBody(f, e, a) = Outcome(Given(f, e, a), a)
<1>1. /\ Seen(f, e.x, a) \in Result
      /\ Enter(f, bound[e.x], a) = Outcome(Seen(f, e.x, a), a)
  BY BodyKinds, SeenTyped
<1>2. bound[e.x] \in Stored /\ Amount(0) \in Stored /\ Stored \subseteq Result
  BY BodyKinds, AmountStored DEF AsTypeOK, Result
<1>3. \A u, b : Outcome(u, b).v = u /\ Outcome(u, b).active = b
  BY DEF Outcome
<1>4. CASE e.form = "name"
  BY <1>2, <1>4 DEF Given, EvalBody
<1>5. CASE e.form = "caught"
  BY <1>1, <1>2, <1>3, <1>5 DEF Given, EvalBody
<1>6. CASE e.form = "sum"
  <2>1. /\ Seen(f, e.y, a) \in Result
        /\ Enter(f, bound[e.y], a) = Outcome(Seen(f, e.y, a), a)
    BY <1>6, BodyKinds, SeenTyped
  <2>2. Total(Seen(f, e.x, a), Seen(f, e.y, a)) \in Result
    BY <1>1, <2>1, TotalTyped
  <2> QED
    BY <1>1, <1>3, <1>6, <2>1, <2>2 DEF Given, EvalBody
<1> QED
  BY <1>4, <1>5, <1>6, BodyKinds

LEMMA GuardedTyped ==
  ASSUME AsTypeOK, NEW f, NEW p \in Point,
         p[1] \notin p[2] => Tidy(f, p[2] \cup {p[1]})
  PROVE  /\ Guarded(f, p) = Outcome(IF p[1] \in p[2] THEN Circular
                                   ELSE Given(f, bodies[p[1]], p[2] \cup {p[1]}), p[2])
         /\ Guarded(f, p) \in [v : Result, active : {p[2]}]
<1>1. p[1] \in Ids /\ p[2] \in SUBSET Ids
  BY DEF Point
<1>2. \A u, b : Outcome(u, b).v = u /\ Outcome(u, b).active = b
  BY DEF Outcome
<1>3. CASE p[1] \in p[2]
  BY <1>3 DEF Guarded, Outcome, Result
<1>4. CASE p[1] \notin p[2]
  <2> DEFINE a == p[2] \cup {p[1]}
             g == Given(f, bodies[p[1]], a)
  <2>1. bodies[p[1]] \in Body /\ a \in SUBSET Ids
    BY <1>1, IdsFinite
  <2>2. g \in Result /\ EvalBody(f, bodies[p[1]], a) = Outcome(g, a)
    BY <1>4, <2>1, GivenTyped
  <2>3. a \ {p[1]} = p[2]
    BY <1>4
  <2> HIDE DEF g, a
  <2>4. Release(p[1], EvalBody(f, bodies[p[1]], a)) = Outcome(g, p[2])
    BY <1>2, <2>2, <2>3 DEF Release
  <2>5. Guarded(f, p) = Outcome(g, p[2])
    BY <1>4, <2>4 DEF Guarded, a
  <2> QED
    BY <1>4, <2>2, <2>5 DEF g, a, Outcome
<1> QED
  BY <1>3, <1>4

-----------------------------------------------------------------------------
(* Forcing: induction over the thunks not yet active                       *)

LEMMA OneMoreActive ==
  ASSUME AsTypeOK, NEW p \in Point, p[1] \notin p[2], NEW k \in Ids
  PROVE  /\ <<k, p[2] \cup {p[1]}>> \in Point
         /\ Cardinality(Ids \ p[2]) \in Nat \ {0}
         /\ Cardinality(Ids \ (p[2] \cup {p[1]})) = Cardinality(Ids \ p[2]) - 1
<1>1. p[1] \in Ids /\ p[2] \in SUBSET Ids
  BY DEF Point
<1>2. IsFiniteSet(Ids \ p[2]) /\ p[1] \in Ids \ p[2]
  BY <1>1, IdsFinite, FS_Subset
<1>3. /\ IsFiniteSet((Ids \ p[2]) \ {p[1]})
      /\ Cardinality((Ids \ p[2]) \ {p[1]}) = Cardinality(Ids \ p[2]) - 1
  BY <1>2, FS_RemoveElement
<1>4. (Ids \ p[2]) \ {p[1]} = Ids \ (p[2] \cup {p[1]})
  OBVIOUS
<1>5. Cardinality(Ids \ p[2]) \in Nat /\ Cardinality(Ids \ p[2]) # 0
  BY <1>2, FS_CardinalityType, FS_EmptySet
<1> QED
  BY <1>1, <1>3, <1>4, <1>5 DEF Point

LEMMA ForcingInduction ==
  ASSUME AsTypeOK, NEW Good,
         \A p \in Point :
           (p[1] \notin p[2] => \A k \in Ids : <<k, p[2] \cup {p[1]}>> \in Good) => p \in Good
  PROVE  \A p \in Point : p \in Good
<1> DEFINE n == Cardinality(Ids)
           Left(p) == Cardinality(Ids \ p[2])
           S == {m \in 0..n : \A p \in Point : Left(p) <= m => p \in Good}
<1>1. n \in Nat
  BY IdsFinite
<1>2. ASSUME NEW p \in Point PROVE Left(p) \in Nat /\ Left(p) <= n
  <2>1. IsFiniteSet(Ids) /\ Ids \ p[2] \in SUBSET Ids
    BY IdsFinite
  <2> QED
    BY <2>1, FS_Subset, FS_CardinalityType
<1>3. 0 \in S
  <2>1. ASSUME NEW p \in Point, Left(p) <= 0 PROVE p \in Good
    <3>1. CASE p[1] \in p[2]
      BY <3>1
    <3>2. CASE p[1] \notin p[2]
      <4>1. p[1] \in Ids
        BY DEF Point
      <4>2. Left(p) \in Nat \ {0}
        BY <3>2, <4>1, OneMoreActive
      <4> QED
        BY <2>1, <4>2
    <3> QED
      BY <3>1, <3>2
  <2> QED
    BY <1>1, <2>1
<1>4. ASSUME NEW m \in 0..n, m \in S, m + 1 <= n PROVE m + 1 \in S
  <2>1. ASSUME NEW p \in Point, Left(p) <= m + 1 PROVE p \in Good
    <3>1. ASSUME p[1] \notin p[2], NEW k \in Ids
          PROVE  <<k, p[2] \cup {p[1]}>> \in Good
      <4> DEFINE q == <<k, p[2] \cup {p[1]}>>
      <4>1. q \in Point /\ Left(q) = Left(p) - 1 /\ Left(p) \in Nat
        BY <3>1, OneMoreActive
      <4>2. Left(q) <= m
        <5> HIDE DEF q, Left
        <5> QED
          BY <2>1, <4>1
      <4> QED
        BY <1>4, <4>1, <4>2
    <3> QED
      BY <3>1
  <2>2. m + 1 \in 0..n
    BY <1>1, <1>4
  <2> QED
    BY <2>1, <2>2
<1>5. n \in S
  <2>1. \A i \in 0..n : i \in S
    <3> HIDE DEF S, n
    <3> QED
      BY <1>1, <1>3, <1>4, InductionUpTo
  <2> QED
    BY <1>1, <2>1
<1> QED
  BY <1>2, <1>5

LEMMA GuardedAgrees ==
  ASSUME AsTypeOK, NEW f, NEW g, NEW p \in Point,
         p[1] \notin p[2] =>
           /\ Tidy(f, p[2] \cup {p[1]})
           /\ \A k \in Ids : f[<<k, p[2] \cup {p[1]}>>] = g[<<k, p[2] \cup {p[1]}>>]
  PROVE  Guarded(f, p) = Guarded(g, p)
<1>1. CASE p[1] \in p[2]
  BY <1>1 DEF Guarded
<1>2. CASE p[1] \notin p[2]
  <2> DEFINE a == p[2] \cup {p[1]}
             e == bodies[p[1]]
  <2>1. Tidy(f, a) /\ Tidy(g, a) /\ \A k \in Ids : f[<<k, a>>] = g[<<k, a>>]
    BY <1>2 DEF Tidy
  <2>2. e \in Body
    BY IdsFinite DEF Point
  <2>3. \A n \in Name : Seen(f, n, a) = Seen(g, n, a)
    <3>1. \A n \in Name : bound[n].tag = "thunk" => bound[n].n \in Ids
      BY StoredKinds DEF AsTypeOK
    <3> HIDE DEF a
    <3> QED
      BY <2>1, <3>1 DEF Seen
  <2>4. Given(f, e, a) = Given(g, e, a)
    <3> HIDE DEF a, e
    <3>1. Seen(f, e.x, a) = Seen(g, e.x, a)
      BY <2>2, <2>3, BodyKinds
    <3>2. e.form = "sum" => Seen(f, e.y, a) = Seen(g, e.y, a)
      BY <2>2, <2>3, BodyKinds
    <3> QED
      BY <2>2, <3>1, <3>2, BodyKinds DEF Given
  <2> QED
    BY <1>2, <2>1, <2>4, GuardedTyped
<1> QED
  BY <1>1, <1>2

-----------------------------------------------------------------------------
(* Forcing exists: guarding again and again settles, a thunk with m others *)
(* not active after m + 1 times.                                           *)

LEMMA ForcingExists ==
  ASSUME AsTypeOK
  PROVE  \E f : f = [p \in Point |-> Guarded(f, p)]
<1> DEFINE W == [v : Result, active : SUBSET Ids]
           V == {f \in [Point -> W] : \A p \in Point : f[p].active = p[2]}
           c == [p \in Point |-> Outcome(Circular, p[2])]
           G == [f \in V |-> [p \in Point |-> Guarded(f, p)]]
           Left(p) == Cardinality(Ids \ p[2])
<1>1. c \in V
  BY DEF Point, Outcome, Result
<1>2. ASSUME NEW f \in V, NEW a \in SUBSET Ids PROVE Tidy(f, a)
  <2>1. ASSUME NEW k \in Ids PROVE f[<<k, a>>] \in [v : Result, active : {a}]
    <3> DEFINE q == <<k, a>>
    <3>1. q \in Point /\ q[2] = a
      BY DEF Point
    <3> HIDE DEF q
    <3>2. f[q] \in W /\ f[q].active = a
      BY <3>1
    <3>3. f[q] \in [v : Result, active : {a}]
      BY <3>2
    <3> QED
      BY <3>3 DEF q
  <2> QED
    BY <2>1 DEF Tidy
<1>3. ASSUME NEW f \in V, NEW p \in Point
      PROVE  Guarded(f, p) \in W /\ Guarded(f, p).active = p[2]
  <2>1. p[1] \in Ids /\ p[2] \in SUBSET Ids /\ p[2] \cup {p[1]} \in SUBSET Ids
    BY DEF Point
  <2>2. Tidy(f, p[2] \cup {p[1]})
    BY <1>2, <2>1
  <2>3. Guarded(f, p) \in [v : Result, active : {p[2]}]
    BY <2>2, GuardedTyped
  <2> QED
    BY <2>1, <2>3
<1>4. G \in [V -> V]
  <2>1. ASSUME NEW f \in V PROVE [p \in Point |-> Guarded(f, p)] \in V
    <3> HIDE DEF W
    <3>1. \A p \in Point : Guarded(f, p) \in W /\ Guarded(f, p).active = p[2]
      BY <1>3
    <3> DEFINE g == [p \in Point |-> Guarded(f, p)]
    <3>2. g \in [Point -> W] /\ \A p \in Point : g[p].active = p[2]
      BY <3>1
    <3> QED
      BY <3>2
  <2> HIDE DEF V
  <2> QED
    BY <2>1
<1>5. PICK h : Endless(V, c, G, h)
  <2> HIDE DEF V, c, G
  <2> QED
    BY <1>1, <1>4, EndlessExists
<1>6. \A n \in Nat : /\ h[n] \in V /\ h[n] \in [Point -> W]
                     /\ h[n + 1] = [p \in Point |-> Guarded(h[n], p)]
  <2>1. \A n \in Nat : h[n] \in V /\ h[n + 1] = G[h[n]]
    <3> HIDE DEF V, c, G
    <3> QED
      BY <1>5 DEF Endless
  <2>2. \A f \in V : f \in [Point -> W] /\ G[f] = [p \in Point |-> Guarded(f, p)]
    OBVIOUS
  <2> HIDE DEF V, c, G, W
  <2> QED
    BY <2>1, <2>2
<1> HIDE DEF V, c, G, W
<1> DEFINE Good == {p \in Point : \A k \in Nat : k > Left(p) => h[k + 1][p] = h[k][p]}
<1>7. ASSUME NEW p \in Point,
             p[1] \notin p[2] => \A k \in Ids : <<k, p[2] \cup {p[1]}>> \in Good
      PROVE  p \in Good
  <2>0. p[1] \in Ids /\ p[2] \in SUBSET Ids /\ p[2] \cup {p[1]} \in SUBSET Ids
    BY DEF Point
  <2>1. Left(p) \in Nat
    <3>1. IsFiniteSet(Ids) /\ Ids \ p[2] \in SUBSET Ids
      BY IdsFinite
    <3> QED
      BY <3>1, FS_Subset, FS_CardinalityType
  <2>2. ASSUME NEW k \in Nat, k > Left(p) PROVE h[k + 1][p] = h[k][p]
    <3>1. k - 1 \in Nat /\ (k - 1) + 1 = k
      BY <2>1, <2>2
    <3>2. h[k + 1][p] = Guarded(h[k], p) /\ h[k][p] = Guarded(h[k - 1], p)
      <4>1. h[(k - 1) + 1] = [q \in Point |-> Guarded(h[k - 1], q)]
        BY <1>6, <3>1
      <4>2. h[k] = [q \in Point |-> Guarded(h[k - 1], q)]
        BY <3>1, <4>1
      <4> QED
        BY <1>6, <4>2
    <3>3. p[1] \notin p[2] =>
            /\ Tidy(h[k], p[2] \cup {p[1]})
            /\ \A i \in Ids : h[k][<<i, p[2] \cup {p[1]}>>] = h[k - 1][<<i, p[2] \cup {p[1]}>>]
      <4>1. Tidy(h[k], p[2] \cup {p[1]})
        BY <1>2, <1>6, <2>0
      <4>2. ASSUME p[1] \notin p[2], NEW i \in Ids
            PROVE  h[k][<<i, p[2] \cup {p[1]}>>] = h[k - 1][<<i, p[2] \cup {p[1]}>>]
        <5> DEFINE q == <<i, p[2] \cup {p[1]}>>
        <5>1. q \in Good
          BY <1>7, <4>2
        <5>2. Left(q) = Left(p) - 1
          BY <4>2, OneMoreActive
        <5>3. k - 1 > Left(q)
          <6> HIDE DEF q, Left
          <6> QED
            BY <2>1, <2>2, <5>2
        <5>4. h[(k - 1) + 1][q] = h[k - 1][q]
          <6> HIDE DEF q, Left
          <6> QED
            BY <3>1, <5>1, <5>3
        <5> HIDE DEF q
        <5>5. h[k][q] = h[k - 1][q]
          BY <3>1, <5>4
        <5> QED
          BY <5>5 DEF q
      <4> QED
        BY <4>1, <4>2
    <3>4. Guarded(h[k], p) = Guarded(h[k - 1], p)
      BY <3>3, GuardedAgrees
    <3> QED
      BY <3>2, <3>4
  <2> HIDE DEF Left
  <2> QED
    BY <2>2
<1>8. \A p \in Point : p \in Good
  <2> HIDE DEF Good
  <2> QED
    BY <1>7, ForcingInduction
<1> DEFINE n == Cardinality(Ids) + 1
<1>9. n \in Nat /\ \A p \in Point : Left(p) < n
  <2>1. IsFiniteSet(Ids) /\ \A p \in Point : Ids \ p[2] \in SUBSET Ids
    BY IdsFinite
  <2>2. /\ Cardinality(Ids) \in Nat
        /\ \A T \in SUBSET Ids : Cardinality(T) \in Nat /\ Cardinality(T) <= Cardinality(Ids)
    BY <2>1, FS_Subset, FS_CardinalityType
  <2> QED
    BY <2>1, <2>2
<1> HIDE DEF n, Left
<1>10. \A p \in Point : h[n + 1][p] = h[n][p]
  BY <1>8, <1>9
<1>11. h[n] = [p \in Point |-> Guarded(h[n], p)]
  BY <1>6, <1>9, <1>10
<1> QED
  BY <1>11

LEMMA ForcingSolves ==
  ASSUME AsTypeOK
  PROVE  \A p \in Point : Forcing[p] = Guarded(Forcing, p)
<1>1. Forcing = CHOOSE f : f = [p \in Point |-> Guarded(f, p)]
  BY Zenon DEF Forcing, Point, Ids
<1>2. Forcing = [p \in Point |-> Guarded(Forcing, p)]
  BY <1>1, ForcingExists
<1> QED
  BY <1>2

LEMMA ForcingTidy ==
  ASSUME AsTypeOK
  PROVE  /\ \A a \in SUBSET Ids : Tidy(Forcing, a)
         /\ \A i \in Ids, a \in SUBSET Ids :
              Forcing[<<i, a>>].v = IF i \in a THEN Circular
                                    ELSE Given(Forcing, bodies[i], a \cup {i})
<1> DEFINE Good == {p \in Point : Forcing[p] \in [v : Result, active : {p[2]}]}
<1>1. ASSUME NEW p \in Point,
             p[1] \notin p[2] => \A k \in Ids : <<k, p[2] \cup {p[1]}>> \in Good
      PROVE  p \in Good
  <2>1. p[1] \notin p[2] => Tidy(Forcing, p[2] \cup {p[1]})
    BY <1>1 DEF Tidy
  <2>2. Guarded(Forcing, p) \in [v : Result, active : {p[2]}]
    BY <2>1, GuardedTyped
  <2> QED
    BY <2>2, ForcingSolves
<1>2. \A p \in Point : p \in Good
  <2> HIDE DEF Good
  <2> QED
    BY <1>1, ForcingInduction
<1>3. ASSUME NEW a \in SUBSET Ids PROVE Tidy(Forcing, a)
  BY <1>2 DEF Tidy, Point
<1>4. ASSUME NEW i \in Ids, NEW a \in SUBSET Ids
      PROVE  Forcing[<<i, a>>].v = IF i \in a THEN Circular
                                   ELSE Given(Forcing, bodies[i], a \cup {i})
  <2> DEFINE p == <<i, a>>
  <2>1. p \in Point /\ p[1] = i /\ p[2] = a
    BY DEF Point
  <2>2. Tidy(Forcing, a \cup {i})
    BY <1>3
  <2> HIDE DEF p
  <2>3. Forcing[p] = Outcome(IF i \in a THEN Circular
                             ELSE Given(Forcing, bodies[i], a \cup {i}), a)
    BY <2>1, <2>2, GuardedTyped, ForcingSolves
  <2>4. \A u, b : Outcome(u, b).v = u
    BY DEF Outcome
  <2> QED
    BY <2>3, <2>4 DEF p
<1> QED
  BY <1>3, <1>4

-----------------------------------------------------------------------------
(* What a thunk reaches                                                    *)

LEMMA ReachedLeast ==
  ASSUME NEW i, NEW F, NEW S \in SUBSET Ids, Forced(i, F) \subseteq S, ForcingStaysIn(S, F)
  PROVE  Reached(i, F) \subseteq S
BY DEF Reached, Ids

LEMMA ReachedClosed ==
  ASSUME NEW i, NEW F
  PROVE  /\ Reached(i, F) \in SUBSET Ids
         /\ Forced(i, F) \subseteq Reached(i, F)
         /\ ForcingStaysIn(Reached(i, F), F)
<1>1. \A j : Forced(j, F) \in SUBSET Ids
  BY DEF Forced, Ids
<1> QED
  BY <1>1 DEF Reached, ForcingStaysIn, Ids

LEMMA ReachedThrough ==
  ASSUME NEW i, NEW F, NEW k \in Forced(i, F)
  PROVE  /\ k \in Ids /\ k \in Reached(i, F)
         /\ Reached(k, F) \subseteq Reached(i, F)
<1>1. k \in Reached(i, F) /\ Reached(i, F) \in SUBSET Ids
  BY ReachedClosed
<1>2. Forced(k, F) \subseteq Reached(i, F) /\ ForcingStaysIn(Reached(i, F), F)
  BY <1>1, ReachedClosed DEF ForcingStaysIn
<1> QED
  BY <1>1, <1>2, ReachedLeast

LEMMA OperandsForced ==
  ASSUME AsTypeOK, NEW i \in Ids, NEW F, bodies[i].form \in F
  PROVE  /\ Forced(i, F) = {bound[m].n : m \in {n \in ReadsOf(bodies[i]) : bound[n].tag = "thunk"}}
         /\ \A m \in ReadsOf(bodies[i]) :
              m \in Name /\ (bound[m].tag = "thunk" => bound[m].n \in Forced(i, F))
<1>1. ReadsOf(bodies[i]) \subseteq Name
  BY IdsFinite, BodyKinds DEF ReadsOf
<1>2. \A m \in Name : bound[m].tag = "thunk" => bound[m].n \in Ids /\ bound[m] = Thunk(bound[m].n)
  BY StoredKinds DEF AsTypeOK
<1>3. \A j \in Ids : Thunk(j).tag = "thunk" /\ Thunk(j).n = j
  BY StoredKinds
<1> QED
  BY <1>1, <1>2, <1>3 DEF Forced, Ids

(* No circle and no active thunk is met.                                   *)
Clear(i, F, a) == \A j \in {i} \cup Reached(i, F) : j \notin a /\ j \notin Reached(j, F)

(* Where the thunks reached are clear, no circle is reported.              *)
LEMMA ClearForces ==
  ASSUME AsTypeOK
  PROVE  \A i \in Ids, a \in SUBSET Ids :
           Clear(i, {"sum", "caught"}, a) => Forcing[<<i, a>>].v # Circular
<1> DEFINE F == {"sum", "caught"}
           Good == {p \in Point : Clear(p[1], F, p[2]) => Forcing[p].v # Circular}
<1>1. ASSUME NEW p \in Point,
             p[1] \notin p[2] => \A k \in Ids : <<k, p[2] \cup {p[1]}>> \in Good
      PROVE  p \in Good
  <2> SUFFICES ASSUME Clear(p[1], F, p[2]) PROVE Forcing[p].v # Circular
    OBVIOUS
  <2> DEFINE i == p[1]
             a == p[2] \cup {i}
             e == bodies[i]
  <2>1. i \in Ids /\ p[2] \in SUBSET Ids /\ a \in SUBSET Ids /\ p = <<i, p[2]>>
    BY DEF Point
  <2>2. i \notin p[2] /\ i \notin Reached(i, F)
    BY DEF Clear
  <2>3. Forcing[p].v = Given(Forcing, e, a)
    BY <2>1, <2>2, ForcingTidy
  <2>4. ASSUME NEW k \in Forced(i, F) PROVE Forcing[<<k, a>>].v # Circular
    <3>1. k \in Ids /\ k \in Reached(i, F) /\ Reached(k, F) \subseteq Reached(i, F)
      BY ReachedThrough
    <3>2. Clear(k, F, a)
      BY <2>2, <3>1 DEF Clear
    <3>3. <<k, a>> \in Good
      BY <1>1, <2>2, <3>1
    <3> QED
      BY <3>2, <3>3
  <2>5. e \in Body
    BY <2>1, IdsFinite
  <2>6. ASSUME e.form \in F, NEW m \in ReadsOf(e)
        PROVE  /\ Seen(Forcing, m, a) # Circular
               /\ Seen(Forcing, m, a) \in Result
    <3>1. m \in Name /\ (bound[m].tag = "thunk" => bound[m].n \in Forced(i, F))
      BY <2>1, <2>6, OperandsForced
    <3>2. Seen(Forcing, m, a) \in Result
      BY <2>1, <3>1, ForcingTidy, SeenTyped
    <3>3. bound[m] # Circular
      BY <3>1, StoredKinds DEF AsTypeOK
    <3> QED
      BY <2>4, <3>1, <3>2, <3>3 DEF Seen
  <2> HIDE DEF i, a, e
  <2>7. CASE e.form = "name"
    <3>1. bound[e.x] # Circular
      BY <2>5, BodyKinds, StoredKinds DEF AsTypeOK
    <3> QED
      BY <2>3, <2>7, <3>1 DEF Given
  <2>8. CASE e.form = "caught"
    <3>1. Seen(Forcing, e.x, a) # Circular
      BY <2>6, <2>8 DEF ReadsOf
    <3>2. Amount(0) # Circular
      BY AmountStored, StoredKinds
    <3> QED
      BY <2>3, <2>8, <3>1, <3>2 DEF Given
  <2>9. CASE e.form = "sum"
    <3>1. /\ Seen(Forcing, e.x, a) # Circular /\ Seen(Forcing, e.x, a) \in Result
          /\ Seen(Forcing, e.y, a) # Circular /\ Seen(Forcing, e.y, a) \in Result
      BY <2>6, <2>9 DEF ReadsOf
    <3>2. Total(Seen(Forcing, e.x, a), Seen(Forcing, e.y, a)) # Circular
      BY <3>1, TotalTyped
    <3> QED
      BY <2>3, <2>9, <3>1, <3>2 DEF Given
  <2> QED
    BY <2>5, <2>7, <2>8, <2>9, BodyKinds
<1>2. \A p \in Point : p \in Good
  <2> HIDE DEF Good
  <2> QED
    BY <1>1, ForcingInduction
<1>3. \A i \in Ids, a \in SUBSET Ids : <<i, a>> \in Good
  <2> HIDE DEF Good
  <2> QED
    BY <1>2 DEF Point
<1> QED
  BY <1>3

(* A thunk that gives a value reaches, through sums, no active thunk and   *)
(* none that reaches itself.                                               *)
LEMMA ForcedIsClear ==
  ASSUME AsTypeOK
  PROVE  \A i \in Ids, a \in SUBSET Ids :
           ~Failure(Forcing[<<i, a>>].v) => Clear(i, {"sum"}, a)
<1> DEFINE F == {"sum"}
           Good == {p \in Point : ~Failure(Forcing[p].v) => Clear(p[1], F, p[2])}
<1>1. ASSUME NEW p \in Point,
             p[1] \notin p[2] => \A k \in Ids : <<k, p[2] \cup {p[1]}>> \in Good
      PROVE  p \in Good
  <2> SUFFICES ASSUME ~Failure(Forcing[p].v) PROVE Clear(p[1], F, p[2])
    OBVIOUS
  <2> DEFINE i == p[1]
             a == p[2] \cup {i}
             e == bodies[i]
  <2>1. i \in Ids /\ p[2] \in SUBSET Ids /\ a \in SUBSET Ids /\ p = <<i, p[2]>>
    BY DEF Point
  <2>2. Forcing[p].v = IF i \in p[2] THEN Circular ELSE Given(Forcing, e, a)
    <3> HIDE DEF i
    <3> QED
      BY <2>1, ForcingTidy
  <2>3. i \notin p[2] /\ Forcing[p].v = Given(Forcing, e, a)
    BY <2>2, StoredKinds
  <2>4. CASE e.form # "sum"
    <3>1. Forced(i, F) = {}
      BY <2>4 DEF Forced
    <3>2. Reached(i, F) = {}
      BY <3>1, ReachedLeast DEF ForcingStaysIn
    <3> QED
      BY <2>3, <3>2 DEF Clear
  <2>5. CASE e.form = "sum"
    <3>1. ~Failure(Seen(Forcing, e.y, a)) /\ ~Failure(Seen(Forcing, e.x, a))
      <4> HIDE DEF e, a
      <4> QED
        BY <2>3, <2>5 DEF Given
    <3>2. \A k \in Forced(i, F) : k \in Ids /\ Clear(k, F, a)
      <4>1. ASSUME NEW k \in Forced(i, F) PROVE k \in Ids /\ Clear(k, F, a)
        <5>1. PICK m \in ReadsOf(e) : bound[m].tag = "thunk" /\ k = bound[m].n
          BY <2>1, <2>5, OperandsForced
        <5>2. ~Failure(Seen(Forcing, m, a))
          BY <2>5, <3>1, <5>1 DEF ReadsOf
        <5>3. ~Failure(Forcing[<<k, a>>].v)
          BY <5>1, <5>2 DEF Seen
        <5>4. k \in Ids
          BY ReachedThrough
        <5>5. <<k, a>> \in Good
          BY <1>1, <2>3, <5>4
        <5> QED
          BY <5>3, <5>4, <5>5
      <4> QED
        BY <4>1
    <3> DEFINE S == {j \in Ids : \E k \in Forced(i, F) : j = k \/ j \in Reached(k, F)}
    <3>3. Reached(i, F) \subseteq S
      <4>1. Forced(i, F) \subseteq S
        BY <3>2
      <4>2. ForcingStaysIn(S, F)
        <5>1. ASSUME NEW j \in S, NEW t \in Forced(j, F) PROVE t \in S
          <6>1. PICK k \in Forced(i, F) : j = k \/ j \in Reached(k, F)
            OBVIOUS
          <6>2. t \in Reached(k, F)
            BY <6>1, ReachedClosed DEF ForcingStaysIn
          <6>3. t \in Ids
            BY ReachedThrough
          <6> QED
            BY <6>1, <6>2, <6>3
        <5> QED
          BY <5>1 DEF ForcingStaysIn
      <4> HIDE DEF S
      <4>3. S \in SUBSET Ids
        BY DEF S
      <4> QED
        BY <4>1, <4>2, <4>3, ReachedLeast
    <3>4. \A j \in S : j \notin a /\ j \notin Reached(j, F)
      BY <3>2 DEF Clear
    <3>5. \A j \in Reached(i, F) : j \notin p[2] /\ j # i /\ j \notin Reached(j, F)
      BY <3>3, <3>4
    <3> QED
      BY <2>3, <3>5 DEF Clear
  <2> QED
    BY <2>4, <2>5
<1>2. \A p \in Point : p \in Good
  <2> HIDE DEF Good
  <2> QED
    BY <1>1, ForcingInduction
<1>3. \A i \in Ids, a \in SUBSET Ids : <<i, a>> \in Good
  <2> HIDE DEF Good
  <2> QED
    BY <1>2 DEF Point
<1> QED
  BY <1>3

-----------------------------------------------------------------------------
(* Destructuring: what the leaves bind                                     *)

Store   == [Name -> Stored]
Ended   == [b : Store, r : {Amount(0), ReadOnly, Misfit}]
LeafSet == {l \in [name : Name \cup {"none"}, v : Storable, ends : BOOLEAN] :
              l.ends \/ l.name \notin Constant}

(* r is what binding the leaves ls over b gives.                           *)
Binds(ls, b, r) ==
  /\ r \in Ended
  /\ Failure(r.r) <=> \E i \in DOMAIN ls : ls[i].ends
  /\ \A n \in Name : /\ \A i \in BoundBy(ls, n) : r.b[n] = ls[i].v
                     /\ BoundBy(ls, n) = {} => r.b[n] = b[n]

LEMMA BindsMade ==
  ASSUME NEW ls, NEW b, NEW r \in Ended,
         Failure(r.r) <=> \E i \in DOMAIN ls : ls[i].ends,
         \A n \in Name : /\ \A i \in BoundBy(ls, n) : r.b[n] = ls[i].v
                         /\ BoundBy(ls, n) = {} => r.b[n] = b[n]
  PROVE  Binds(ls, b, r)
BY DEF Binds

LEMMA BoundByNone ==
  ASSUME NEW ls \in Seq(LeafSet), NEW n, BoundBy(ls, n) = {}
  PROVE  \A j \in DOMAIN ls : ls[j].name = n => \E k \in 1..j : ls[k].ends
<1> SUFFICES ASSUME NEW j \in DOMAIN ls, ls[j].name = n, \A k \in 1..j : ~ls[k].ends
             PROVE  FALSE
  OBVIOUS
<1> DEFINE Free == {i \in DOMAIN ls : ls[i].name = n /\ \A k \in 1..i : ~ls[k].ends}
           Gap == {Len(ls) - i : i \in Free}
<1>1. DOMAIN ls = 1..Len(ls) /\ Len(ls) \in Nat
  BY LenProperties
<1>2. Gap \in SUBSET Nat /\ Gap # {}
  BY <1>1
<1>3. PICK m \in Gap : \A t \in Gap : m <= t
  BY <1>2, LeastNumber
<1>4. PICK i \in Free : m = Len(ls) - i
  BY <1>3
<1>5. ASSUME NEW t \in Free PROVE t <= i
  <2>1. t \in 1..Len(ls) /\ i \in 1..Len(ls)
    BY <1>1
  <2>2. Len(ls) - i <= Len(ls) - t
    BY <1>3, <1>4
  <2> HIDE DEF Free, Gap
  <2> QED
    BY <1>1, <2>1, <2>2
<1>6. i \in BoundBy(ls, n)
  <2>1. ASSUME NEW t \in DOMAIN ls, t > i, ls[t].name = n PROVE \E k \in 1..t : ls[k].ends
    <3>1. t \notin Free
      <4> HIDE DEF Free
      <4>1. t \in Int /\ i \in Int
        BY <1>1 DEF Free
      <4> QED
        BY <1>5, <2>1, <4>1
    <3> QED
      BY <2>1, <3>1
  <2> QED
    BY <2>1 DEF BoundBy
<1> QED
  BY <1>6

LEMMA BindsNothing ==
  ASSUME NEW b \in Store
  PROVE  Binds(<<>>, b, Bindings(b, Amount(0)))
<1>1. ~Failure(Amount(0))
  BY AmountStored, StoredKinds
<1> QED
  BY <1>1 DEF Binds, Bindings, BoundBy, Ended

(* A leaf that ends the binding ends it for all that follow.               *)
LEMMA BindsEnded ==
  ASSUME NEW s \in Seq(LeafSet), NEW t \in Seq(LeafSet), NEW b, NEW q,
         Binds(s, b, q), Failure(q.r)
  PROVE  Binds(s \o t, b, q)
<1> DEFINE u == s \o t
<1>1. /\ u \in Seq(LeafSet) /\ Len(u) = Len(s) + Len(t)
      /\ DOMAIN u = 1..Len(u) /\ DOMAIN s = 1..Len(s)
      /\ Len(s) \in Nat /\ Len(t) \in Nat
      /\ \A i \in 1..Len(s) : u[i] = s[i]
  BY ConcatProperties, LenProperties
<1> HIDE DEF u
<1>2. PICK e \in DOMAIN s : s[e].ends
  BY DEF Binds
<1>3. \A n \in Name : BoundBy(u, n) = BoundBy(s, n)
  <2> SUFFICES ASSUME NEW n \in Name PROVE BoundBy(u, n) = BoundBy(s, n)
    OBVIOUS
  <2>1. ASSUME NEW i \in BoundBy(u, n) PROVE i \in BoundBy(s, n)
    <3>1. i \in 1..Len(u) /\ ~(e \in 1..i)
      BY <1>1, <1>2, <2>1 DEF BoundBy
    <3>2. i < e /\ i \in 1..Len(s)
      BY <1>1, <1>2, <3>1
    <3>3. \A j \in 1..i : ~s[j].ends
      BY <1>1, <2>1, <3>2 DEF BoundBy
    <3>4. ASSUME NEW j \in DOMAIN s, j > i, s[j].name = n PROVE \E k \in 1..j : s[k].ends
      <4>1. j \in DOMAIN u /\ u[j].name = n
        BY <1>1, <3>4
      <4>2. PICK k \in 1..j : u[k].ends
        BY <2>1, <3>4, <4>1 DEF BoundBy
      <4> QED
        BY <1>1, <4>2
    <3> QED
      BY <1>1, <2>1, <3>2, <3>3, <3>4 DEF BoundBy
  <2>2. ASSUME NEW i \in BoundBy(s, n) PROVE i \in BoundBy(u, n)
    <3>1. i \in 1..Len(s) /\ s[i].name = n /\ \A j \in 1..i : ~s[j].ends
      BY <1>1, <2>2 DEF BoundBy
    <3>2. i \in 1..Len(u) /\ u[i].name = n /\ \A j \in 1..i : ~u[j].ends
      BY <1>1, <3>1
    <3>3. ASSUME NEW j \in DOMAIN u, j > i, u[j].name = n PROVE \E k \in 1..j : u[k].ends
      <4>1. CASE j \in 1..Len(s)
        <5>1. PICK k \in 1..j : s[k].ends
          BY <1>1, <2>2, <3>3, <4>1 DEF BoundBy
        <5> QED
          BY <1>1, <4>1, <5>1
      <4>2. CASE j \notin 1..Len(s)
        <5>1. e \in 1..j /\ u[e].ends
          BY <1>1, <1>2, <4>2
        <5> QED
          BY <5>1
      <4> QED
        BY <4>1, <4>2
    <3> QED
      BY <1>1, <3>2, <3>3 DEF BoundBy
  <2> QED
    BY <2>1, <2>2
<1>4. \A n \in Name : \A i \in BoundBy(u, n) : u[i].v = s[i].v
  <2>1. \A n \in Name : \A i \in BoundBy(s, n) : i \in 1..Len(s)
    BY <1>1 DEF BoundBy
  <2> QED
    BY <1>1, <1>3, <2>1
<1>5. \E i \in DOMAIN u : u[i].ends
  BY <1>1, <1>2
<1>6. Binds(u, b, q)
  BY <1>3, <1>4, <1>5 DEF Binds
<1> QED
  BY <1>6 DEF u

LEMMA BindsMore ==
  ASSUME NEW s \in Seq(LeafSet), NEW t \in Seq(LeafSet), NEW b, NEW q, NEW r,
         Binds(s, b, q), ~Failure(q.r), Binds(t, q.b, r)
  PROVE  Binds(s \o t, b, r)
<1> DEFINE u == s \o t
           L == Len(s)
<1>1. /\ u \in Seq(LeafSet) /\ Len(u) = L + Len(t)
      /\ DOMAIN u = 1..Len(u) /\ DOMAIN s = 1..L /\ DOMAIN t = 1..Len(t)
      /\ L \in Nat /\ Len(t) \in Nat
      /\ \A i \in 1..L : u[i] = s[i]
      /\ \A i \in 1..Len(t) : u[L + i] = t[i]
  BY ConcatProperties, LenProperties
<1>2. \A i \in DOMAIN u : i \in 1..L \/ (i - L \in 1..Len(t) /\ L + (i - L) = i /\ i > L)
  BY <1>1
<1>3. \A i \in 1..L : ~s[i].ends /\ ~u[i].ends
  BY <1>1 DEF Binds
<1> HIDE DEF u, L
<1>4. ASSUME NEW j \in 1..Len(t)
      PROVE  (\E k \in 1..(L + j) : u[k].ends) <=> (\E k \in 1..j : t[k].ends)
  <2>1. ASSUME NEW k \in 1..(L + j), u[k].ends PROVE \E i \in 1..j : t[i].ends
    <3>1. k \in DOMAIN u /\ ~(k \in 1..L)
      BY <1>1, <1>3, <2>1
    <3>2. k - L \in 1..Len(t) /\ L + (k - L) = k /\ k - L \in 1..j
      BY <1>1, <1>2, <3>1
    <3>3. u[L + (k - L)] = t[k - L]
      BY <1>1, <3>2
    <3> QED
      BY <2>1, <3>2, <3>3
  <2>2. ASSUME NEW k \in 1..j, t[k].ends PROVE \E i \in 1..(L + j) : u[i].ends
    <3>1. k \in 1..Len(t) /\ L + k \in 1..(L + j)
      BY <1>1
    <3> QED
      BY <1>1, <2>2, <3>1
  <2> QED
    BY <2>1, <2>2
<1>5. Failure(r.r) <=> \E i \in DOMAIN u : u[i].ends
  <2>1. (\E i \in DOMAIN t : t[i].ends) => \E i \in DOMAIN u : u[i].ends
    <3> SUFFICES ASSUME NEW i \in DOMAIN t, t[i].ends PROVE \E k \in DOMAIN u : u[k].ends
      OBVIOUS
    <3>1. L + i \in DOMAIN u /\ u[L + i] = t[i]
      BY <1>1
    <3> QED
      BY <3>1
  <2>2. (\E i \in DOMAIN u : u[i].ends) => \E i \in DOMAIN t : t[i].ends
    <3> SUFFICES ASSUME NEW i \in DOMAIN u, u[i].ends PROVE \E k \in DOMAIN t : t[k].ends
      OBVIOUS
    <3>1. i - L \in 1..Len(t) /\ L + (i - L) = i
      BY <1>2, <1>3
    <3>2. u[L + (i - L)] = t[i - L]
      BY <1>1, <3>1
    <3> QED
      BY <1>1, <3>1, <3>2
  <2> QED
    BY <2>1, <2>2 DEF Binds
<1>6. ASSUME NEW n \in Name
      PROVE  /\ \A i \in BoundBy(u, n) : r.b[n] = u[i].v
             /\ BoundBy(u, n) = {} => r.b[n] = b[n]
  <2>1. ASSUME NEW i \in BoundBy(u, n) PROVE r.b[n] = u[i].v
    <3>1. /\ i \in DOMAIN u /\ u[i].name = n /\ \A k \in 1..i : ~u[k].ends
          /\ \A j \in DOMAIN u : j > i /\ u[j].name = n => \E k \in 1..j : u[k].ends
      BY <2>1 DEF BoundBy
    <3>2. CASE i \in 1..L
      <4>1. i \in BoundBy(s, n)
        <5>1. ASSUME NEW j \in DOMAIN s, j > i, s[j].name = n PROVE FALSE
          <6>1. j \in DOMAIN u /\ u[j] = s[j] /\ \A k \in 1..j : k \in 1..L
            BY <1>1
          <6> QED
            BY <1>3, <3>1, <5>1, <6>1
        <5>2. \A k \in 1..i : k \in 1..L
          BY <1>1, <3>2
        <5> QED
          BY <1>1, <1>3, <3>1, <3>2, <5>1, <5>2 DEF BoundBy
      <4>2. BoundBy(t, n) = {}
        <5> SUFFICES ASSUME NEW j \in BoundBy(t, n) PROVE FALSE
          OBVIOUS
        <5>1. j \in 1..Len(t) /\ t[j].name = n /\ \A k \in 1..j : ~t[k].ends
          BY <1>1 DEF BoundBy
        <5>2. L + j \in DOMAIN u /\ L + j > i /\ u[L + j].name = n
          BY <1>1, <3>2, <5>1
        <5> QED
          BY <1>4, <3>1, <5>1, <5>2
      <4>3. q.b[n] = s[i].v /\ r.b[n] = q.b[n]
        BY <4>1, <4>2 DEF Binds
      <4> QED
        BY <1>1, <3>2, <4>3
    <3>3. CASE i \notin 1..L
      <4> DEFINE m == i - L
      <4>1. m \in 1..Len(t) /\ L + m = i /\ u[i] = t[m]
        <5>1. m \in 1..Len(t) /\ L + m = i
          BY <1>2, <3>1, <3>3
        <5> QED
          BY <1>1, <5>1
      <4> HIDE DEF m
      <4>2. \A k \in 1..m : ~t[k].ends
        BY <1>4, <3>1, <4>1
      <4>3. ASSUME NEW j \in DOMAIN t, j > m, t[j].name = n PROVE \E k \in 1..j : t[k].ends
        <5>1. j \in 1..Len(t) /\ L + j \in DOMAIN u /\ L + j > i /\ u[L + j].name = n
          BY <1>1, <4>1, <4>3
        <5>2. \E k \in 1..(L + j) : u[k].ends
          BY <3>1, <5>1
        <5> QED
          BY <1>4, <5>1, <5>2
      <4>4. m \in BoundBy(t, n)
        BY <1>1, <3>1, <4>1, <4>2, <4>3 DEF BoundBy
      <4> QED
        BY <4>1, <4>4 DEF Binds
    <3> QED
      BY <3>2, <3>3
  <2>2. ASSUME BoundBy(u, n) = {} PROVE r.b[n] = b[n]
    <3>1. \A j \in DOMAIN u : u[j].name = n => \E k \in 1..j : u[k].ends
      BY <1>1, <2>2, BoundByNone
    <3>2. BoundBy(s, n) = {}
      <4> SUFFICES ASSUME NEW i \in BoundBy(s, n) PROVE FALSE
        OBVIOUS
      <4>1. i \in 1..L /\ s[i].name = n
        BY <1>1 DEF BoundBy
      <4>2. i \in DOMAIN u /\ u[i].name = n /\ \A k \in 1..i : k \in 1..L
        BY <1>1, <4>1
      <4> QED
        BY <1>3, <3>1, <4>2
    <3>3. BoundBy(t, n) = {}
      <4> SUFFICES ASSUME NEW i \in BoundBy(t, n) PROVE FALSE
        OBVIOUS
      <4>1. i \in 1..Len(t) /\ t[i].name = n /\ \A k \in 1..i : ~t[k].ends
        BY <1>1 DEF BoundBy
      <4>2. L + i \in DOMAIN u /\ u[L + i].name = n
        BY <1>1, <4>1
      <4> QED
        BY <1>4, <3>1, <4>1, <4>2
    <3> QED
      BY <3>2, <3>3 DEF Binds
  <2> QED
    BY <2>1, <2>2
<1>7. Binds(u, b, r)
  BY <1>5, <1>6 DEF Binds
<1> QED
  BY <1>7 DEF u

LEMMA BindsFails ==
  ASSUME NEW v, NEW b \in Store, NEW n
  PROVE  /\ Binds(<<Ends(v)>>, b, Bindings(b, Misfit))
         /\ Failure(Misfit)
<1>1. Failure(Misfit) /\ Bindings(b, Misfit) \in Ended
  BY DEF Failure, Misfit, Bindings, Ended
<1>2. DOMAIN <<Ends(v)>> = {1} /\ <<Ends(v)>>[1].ends
  BY DEF Ends
<1>3. \A m : BoundBy(<<Ends(v)>>, m) = {}
  BY <1>2 DEF BoundBy
<1> QED
  BY <1>1, <1>2, <1>3 DEF Binds, Bindings

LEMMA LeafBinds ==
  ASSUME NEW t \in LeafTarget, NEW v \in Storable, NEW b \in Store
  PROVE  /\ LeafAt(t, v) \in LeafSet
         /\ Binds(<<LeafAt(t, v)>>, b, BindLeaf(t, v, b))
<1> DEFINE l == LeafAt(t, v)
           ls == <<l>>
<1>1. t.name \in Name /\ v \in Stored
  BY DEF LeafTarget, Stored
<1>2. l \in LeafSet /\ l.name = t.name /\ l.v = v /\ (l.ends <=> t.name \in Constant)
  <2>1. l.name = t.name /\ l.v = v
    BY DEF LeafAt
  <2>2. CASE t.name \in Constant
    <3>1. l = [name |-> t.name, v |-> v, ends |-> TRUE]
      BY <2>2 DEF LeafAt
    <3> QED
      BY <1>1, <2>2, <3>1 DEF LeafSet
  <2>3. CASE t.name \notin Constant
    <3>1. (t.name \in Constant) = FALSE
      BY <2>3
    <3>2. l = [name |-> t.name, v |-> v, ends |-> FALSE]
      BY <3>1, Zenon DEF LeafAt
    <3> QED
      BY <1>1, <2>3, <3>2 DEF LeafSet
  <2> QED
    BY <2>2, <2>3
<1>3. DOMAIN ls = {1} /\ ls[1] = l
  OBVIOUS
<1> HIDE DEF l, ls
<1>4. CASE t.name \in Constant
  <2>1. BindLeaf(t, v, b) = Bindings(b, ReadOnly)
    BY <1>4 DEF BindLeaf
  <2>2. Failure(ReadOnly) /\ Bindings(b, ReadOnly) \in Ended
    BY DEF Failure, ReadOnly, Bindings, Ended
  <2>3. \A m : BoundBy(ls, m) = {}
    BY <1>2, <1>3, <1>4 DEF BoundBy
  <2>4. Binds(ls, b, BindLeaf(t, v, b))
    BY <1>2, <1>3, <1>4, <2>1, <2>2, <2>3 DEF Binds, Bindings
  <2> QED
    BY <1>2, <2>4 DEF l, ls
<1>5. CASE t.name \notin Constant
  <2> DEFINE c == [b EXCEPT ![t.name] = v]
  <2>1. BindLeaf(t, v, b) = Bindings(c, Amount(0))
    BY <1>5 DEF BindLeaf
  <2>2. c \in Store /\ c[t.name] = v /\ \A n \in Name : n # t.name => c[n] = b[n]
    BY <1>1 DEF Store
  <2> HIDE DEF c
  <2>3. ~Failure(Amount(0)) /\ Bindings(c, Amount(0)) \in Ended
    BY <2>2, AmountStored, StoredKinds DEF Bindings, Ended
  <2>4. \A m : BoundBy(ls, m) = IF m = t.name THEN {1} ELSE {}
    BY <1>2, <1>3, <1>5 DEF BoundBy
  <2>5. Bindings(c, Amount(0)).b = c /\ Bindings(c, Amount(0)).r = Amount(0)
    BY DEF Bindings
  <2>6. Binds(ls, b, BindLeaf(t, v, b))
    <3>1. Failure(Amount(0)) <=> \E i \in DOMAIN ls : ls[i].ends
      BY <1>2, <1>3, <1>5, <2>3
    <3>2. \A n \in Name : /\ \A i \in BoundBy(ls, n) : c[n] = ls[i].v
                          /\ BoundBy(ls, n) = {} => c[n] = b[n]
      BY <1>2, <1>3, <2>2, <2>4
    <3> DEFINE r == Bindings(c, Amount(0))
    <3>3. r \in Ended /\ r.b = c /\ r.r = Amount(0)
      BY <2>3, <2>5
    <3> HIDE DEF r
    <3>4. Failure(r.r) <=> \E i \in DOMAIN ls : ls[i].ends
      BY <3>1, <3>3, Zenon
    <3>5. \A n \in Name : /\ \A i \in BoundBy(ls, n) : r.b[n] = ls[i].v
                          /\ BoundBy(ls, n) = {} => r.b[n] = b[n]
      BY <3>2, <3>3, Zenon
    <3>6. Binds(ls, b, r)
      BY <3>3, <3>4, <3>5, BindsMade
    <3> QED
      BY <2>1, <3>6 DEF r
  <2> QED
    BY <1>2, <2>6 DEF l, ls
<1> QED
  BY <1>4, <1>5

-----------------------------------------------------------------------------
(* A walk over the members of a group                                      *)

(* u holds the bindings after each member, w the leaves seen.              *)
LEMMA WalkBinds ==
  ASSUME NEW n \in Nat, NEW u, NEW w, NEW parts, NEW b \in Store,
         u[0] = Bindings(b, Amount(0)), w[0] = <<>>,
         \A i \in 1..n :
           /\ parts[i] \in Seq(LeafSet) /\ w[i] = w[i - 1] \o parts[i]
           /\ u[i - 1] \in Ended =>
                IF Failure(u[i - 1].r) THEN u[i] = u[i - 1]
                ELSE Binds(parts[i], u[i - 1].b, u[i])
  PROVE  w[n] \in Seq(LeafSet) /\ Binds(w[n], b, u[n])
<1> DEFINE S == {i \in 0..n : w[i] \in Seq(LeafSet) /\ Binds(w[i], b, u[i])}
<1>1. 0 \in S
  <2>1. <<>> \in Seq(LeafSet)
    BY EmptySeq
  <2>2. Binds(w[0], b, u[0])
    BY BindsNothing
  <2>3. 0 \in 0..n /\ w[0] \in Seq(LeafSet)
    BY <2>1
  <2> QED
    BY <2>2, <2>3, Zenon
<1>2. ASSUME NEW i \in 0..n, i \in S, i + 1 <= n PROVE i + 1 \in S
  <2>1. i + 1 \in 1..n /\ i + 1 \in 0..n /\ (i + 1) - 1 = i
    BY <1>2
  <2>2. /\ parts[i + 1] \in Seq(LeafSet) /\ w[i + 1] = w[i] \o parts[i + 1]
        /\ u[i] \in Ended =>
             IF Failure(u[i].r) THEN u[i + 1] = u[i]
             ELSE Binds(parts[i + 1], u[i].b, u[i + 1])
    <3> HIDE DEF S
    <3> QED
      BY <2>1
  <2>3. u[i] \in Ended /\ w[i] \in Seq(LeafSet) /\ Binds(w[i], b, u[i])
    BY <1>2 DEF Binds
  <2>4. w[i + 1] \in Seq(LeafSet)
    BY <2>2, <2>3, ConcatProperties
  <2>5. Binds(w[i] \o parts[i + 1], b, u[i + 1])
    BY <2>2, <2>3, BindsEnded, BindsMore
  <2> QED
    BY <2>1, <2>2, <2>4, <2>5
<1>3. \A i \in 0..n : i \in S
  <2> HIDE DEF S
  <2> QED
    BY <1>1, <1>2, InductionUpTo
<1>4. n \in S
  BY <1>3
<1> QED
  BY <1>4

Walks(n, Y, c, K, f) ==
  f \in [0..n -> Y] /\ f[0] = c /\ \A i \in 1..n : f[i] = K[<<f[i - 1], i>>]

LEMMA WalkExists ==
  ASSUME NEW n \in Nat, NEW Y, NEW c \in Y, NEW K \in [Y \X (1..n) -> Y]
  PROVE  \E f : Walks(n, Y, c, K, f)
<1> DEFINE s == [i \in 1..n |-> i]
<1>1. s \in [1..n -> 1..n]
  OBVIOUS
<1>2. s \in Seq(1..n) /\ Len(s) = n
  <2> HIDE DEF s
  <2> QED
    BY <1>1, MadeASeq
<1>3. PICK f : Follows(s, Y, c, K, f)
  <2> HIDE DEF s
  <2> QED
    BY <1>2, RecursionExists
<1> QED
  BY <1>2, <1>3 DEF Follows, Walks

LEMMA FitsMatches ==
  ASSUME NEW t, t.form \in {"array", "list"}, NEW v
  PROVE  Fits(t, v) <=> Matches(t, v)
BY DEF Fits, Matches, Kind

LEMMA EachLeafBinds ==
  ASSUME NEW t, t.form \in {"array", "list"}, t.ts \in Seq(LeafTarget),
         NEW v, Matches(t, v) => v.s \in Seq(Storable), NEW b \in Store
  PROVE  /\ LeavesIn(t, v) \in Seq(LeafSet) \/ ~Matches(t, v)
         /\ Binds(LeavesIn(t, v), b, BindEach(BindLeaf, t, v, b))
<1> DEFINE n == Len(t.ts)
<1>0. n \in Nat /\ DOMAIN t.ts = 1..n /\ \A i \in 1..n : t.ts[i] \in LeafTarget
  BY LenProperties, ElementOfSeq
<1>1. CASE ~Matches(t, v)
  <2>1. LeavesIn(t, v) = <<Ends(v)>>
    BY <1>1 DEF LeavesIn
  <2>2. BindEach(BindLeaf, t, v, b) = Bindings(b, Misfit)
    BY <1>1, FitsMatches DEF BindEach
  <2> QED
    BY <1>1, <2>1, <2>2, BindsFails
<1>2. CASE Matches(t, v)
  <2>1. Fits(t, v) /\ Len(v.s) = n /\ \A i \in 1..n : v.s[i] \in Storable
    <3>1. Fits(t, v) /\ Len(v.s) = n
      BY <1>2, FitsMatches DEF Matches
    <3> QED
      BY <1>2, <3>1, ElementOfSeq
  <2> DEFINE c == Bindings(b, Amount(0))
             K == [p \in Ended \X (1..n) |->
                     IF Failure(p[1].r) THEN p[1]
                     ELSE BindLeaf(t.ts[p[2]], v.s[p[2]], p[1].b)]
             Step(f) == [i \in 0..n |-> IF i = 0 THEN c
                                        ELSE IF Failure(f[i - 1].r) THEN f[i - 1]
                                        ELSE BindLeaf(t.ts[i], v.s[i], f[i - 1].b)]
             ls == [i \in 1..n |-> LeafAt(t.ts[i], v.s[i])]
             w == [i \in 0..n |-> FirstOf(ls, i)]
             parts == [i \in 1..n |-> <<ls[i]>>]
  <2>2. c \in Ended
    BY BindsNothing DEF Binds
  <2>3. K \in [Ended \X (1..n) -> Ended]
    <3>1. ASSUME NEW y \in Ended, NEW i \in 1..n
          PROVE  BindLeaf(t.ts[i], v.s[i], y.b) \in Ended
      <4>1. y.b \in Store
        BY DEF Ended
      <4> QED
        BY <1>0, <2>1, <4>1, LeafBinds DEF Binds
    <3> HIDE DEF n
    <3> QED
      BY <3>1
  <2>4. PICK f : Walks(n, Ended, c, K, f)
    <3> HIDE DEF K, c, n
    <3> QED
      BY <1>0, <2>2, <2>3, WalkExists
  <2>5. f = Step(f)
    <3>1. ASSUME NEW i \in 1..n
          PROVE  f[i] = IF Failure(f[i - 1].r) THEN f[i - 1]
                        ELSE BindLeaf(t.ts[i], v.s[i], f[i - 1].b)
      <4>1. i - 1 \in 0..n
        BY <1>0
      <4>2. f[i - 1] \in Ended /\ f[i] = K[<<f[i - 1], i>>]
        BY <2>4, <4>1 DEF Walks
      <4> QED
        BY <4>2
    <3>2. \A i \in 0..n : i = 0 \/ i \in 1..n
      BY <1>0
    <3> HIDE DEF K, c, n
    <3> QED
      BY <2>4, <3>1, <3>2 DEF Walks
  <2> DEFINE u == CHOOSE g : g = Step(g)
  <2>6. u = Step(u)
    <3> HIDE DEF Step
    <3> QED
      BY <2>5
  <2>7. BindEach(BindLeaf, t, v, b) = u[n]
    BY <2>1 DEF BindEach
  <2>8. ls \in Seq(LeafSet) /\ Len(ls) = n /\ \A i \in 1..n : ls[i] \in LeafSet
    <3>1. \A i \in 1..n : LeafAt(t.ts[i], v.s[i]) \in LeafSet
      BY <1>0, <2>1, LeafBinds
    <3>2. ls \in [1..n -> LeafSet]
      BY <3>1
    <3> HIDE DEF ls, n
    <3> QED
      BY <1>0, <3>2, MadeASeq
  <2>9. u[0] = c /\ \A i \in 1..n : u[i] = IF Failure(u[i - 1].r) THEN u[i - 1]
                                           ELSE BindLeaf(t.ts[i], v.s[i], u[i - 1].b)
    <3>1. \A i \in 1..n : i \in 0..n /\ i # 0 /\ 0 \in 0..n
      BY <1>0
    <3>2. 0 \in 0..n
      BY <1>0
    <3> HIDE DEF u, c, n
    <3> QED
      BY <2>6, <3>1, <3>2
  <2>10. w[0] = <<>> /\ w[n] = ls
    <3>1. 0 \in 0..n /\ n \in 0..n
      BY <1>0
    <3> HIDE DEF ls, n
    <3> QED
      BY <2>8, <3>1, FirstOfEnds
  <2>11. ASSUME NEW i \in 1..n
         PROVE  /\ parts[i] \in Seq(LeafSet) /\ w[i] = w[i - 1] \o parts[i]
                /\ u[i - 1] \in Ended =>
                     IF Failure(u[i - 1].r) THEN u[i] = u[i - 1]
                     ELSE Binds(parts[i], u[i - 1].b, u[i])
    <3>1. i - 1 \in 0..(n - 1) /\ i - 1 \in 0..n /\ i \in 0..n /\ (i - 1) + 1 = i
      BY <1>0
    <3>2. parts[i] = <<ls[i]>> /\ parts[i] \in Seq(LeafSet) /\ ls[i] \in LeafSet
      <4> HIDE DEF ls, n
      <4> QED
        BY <2>8
    <3>3. w[i] = w[i - 1] \o parts[i]
      <4>1. FirstOf(ls, i) = Append(FirstOf(ls, i - 1), ls[i])
        <5> HIDE DEF ls, n
        <5> QED
          BY <2>8, <3>1, FirstOfNext
      <4>2. FirstOf(ls, i - 1) \in Seq(LeafSet)
        <5> HIDE DEF ls, n
        <5> QED
          BY <2>8, <3>1, FirstOfTyped
      <4>3. \A r \in Seq(LeafSet), l \in LeafSet : Append(r, l) = r \o <<l>>
        BY AppendIsConcat
      <4> HIDE DEF ls, n
      <4> QED
        BY <3>1, <3>2, <4>1, <4>2, <4>3
    <3>4. ASSUME u[i - 1] \in Ended, ~Failure(u[i - 1].r)
          PROVE  Binds(parts[i], u[i - 1].b, u[i])
      <4>1. u[i - 1].b \in Store
        BY <3>4 DEF Ended
      <4>2. u[i] = BindLeaf(t.ts[i], v.s[i], u[i - 1].b)
        <5> HIDE DEF u, n
        <5> QED
          BY <2>9, <3>4
      <4>3. ls[i] = LeafAt(t.ts[i], v.s[i])
        OBVIOUS
      <4> HIDE DEF u, ls, parts
      <4> QED
        BY <1>0, <2>1, <3>2, <4>1, <4>2, <4>3, LeafBinds
    <3> HIDE DEF u, w, parts, n
    <3> QED
      BY <2>9, <3>2, <3>3, <3>4
  <2>12. w[n] \in Seq(LeafSet) /\ Binds(w[n], b, u[n])
    <3> HIDE DEF u, w, parts, n
    <3> QED
      BY <1>0, <2>9, <2>10, <2>11, WalkBinds
  <2>13. LeavesIn(t, v) = ls
    BY <1>0, <1>2 DEF LeavesIn
  <2> HIDE DEF u, w, ls, n
  <2> QED
    BY <2>7, <2>10, <2>12, <2>13
<1> QED
  BY <1>1, <1>2

LEMMA PartsStorable ==
  /\ Shallow \subseteq Storable
  /\ \A v \in Shallow : v.tag \in {"vector", "list"} => v.s \in Seq(Storable)
  /\ \A v \in Storable : v.tag \in {"vector", "list"} => v.s \in Seq(Shallow)
<1>1. Scalar \subseteq Shallow /\ Scalar \subseteq Storable
  BY DEF Shallow, Storable
<1>2. \A s \in Seq(Scalar) : s \in Seq(Shallow) /\ s \in Seq(Storable)
  BY <1>1
<1>3. \A v \in Scalar : v.tag = "long"
  BY DEF Scalar
<1>4. \A v \in [tag : {"vector", "list"}, s : Seq(Scalar)] :
        v \in [tag : {"vector", "list"}, s : Seq(Shallow)] /\ v.s \in Seq(Storable)
  BY <1>2
<1>5. Shallow \subseteq Storable
  BY <1>1, <1>4 DEF Shallow, Storable
<1>6. \A v \in Shallow : v.tag \in {"vector", "list"} => v.s \in Seq(Storable)
  BY <1>3, <1>4 DEF Shallow
<1>7. \A v \in Storable : v.tag \in {"vector", "list"} => v.s \in Seq(Shallow)
  BY <1>3 DEF Storable
<1> QED
  BY <1>5, <1>6, <1>7

LEMMA MatchesKinds ==
  ASSUME NEW t, t.form \in {"array", "list"}, NEW v, Matches(t, v)
  PROVE  v.tag \in {"vector", "list"} /\ Len(v.s) = Len(t.ts)
BY DEF Matches

LEMMA InnerBinds ==
  ASSUME NEW t \in InnerTarget, NEW v \in Shallow, NEW b \in Store
  PROVE  /\ LeavesIn(t, v) \in Seq(LeafSet)
         /\ Binds(LeavesIn(t, v), b, BindInner(t, v, b))
<1>1. v \in Storable
  BY PartsStorable
<1>2. CASE t \in LeafTarget
  <2>1. t.form = "symbol"
    BY <1>2 DEF LeafTarget
  <2>2. LeavesIn(t, v) = <<LeafAt(t, v)>> /\ BindInner(t, v, b) = BindLeaf(t, v, b)
    BY <2>1 DEF LeavesIn, BindInner
  <2>3. /\ LeafAt(t, v) \in LeafSet
        /\ Binds(<<LeafAt(t, v)>>, b, BindLeaf(t, v, b))
    BY <1>1, <1>2, LeafBinds
  <2> QED
    BY <2>2, <2>3
<1>3. CASE t \notin LeafTarget
  <2>1. t.form \in {"array", "list"} /\ t.ts \in Seq(LeafTarget)
    BY <1>3 DEF InnerTarget
  <2>2. BindInner(t, v, b) = BindEach(BindLeaf, t, v, b)
    BY <2>1 DEF BindInner
  <2>3. Matches(t, v) => v.s \in Seq(Storable)
    BY <2>1, MatchesKinds, PartsStorable
  <2>4. /\ LeavesIn(t, v) \in Seq(LeafSet) \/ ~Matches(t, v)
        /\ Binds(LeavesIn(t, v), b, BindEach(BindLeaf, t, v, b))
    BY <2>1, <2>3, EachLeafBinds
  <2>5. ~Matches(t, v) => LeavesIn(t, v) \in Seq(LeafSet)
    <3>1. Ends(v) \in LeafSet
      BY <1>1 DEF Ends, LeafSet
    <3>2. ~Matches(t, v) => LeavesIn(t, v) = <<Ends(v)>>
      BY <2>1 DEF LeavesIn
    <3>3. <<Ends(v)>> \in Seq(LeafSet)
      BY <3>1
    <3> QED
      BY <3>2, <3>3, Zenon
  <2> QED
    BY <2>2, <2>4, <2>5
<1> QED
  BY <1>2, <1>3

LEMMA LeavesTyped ==
  ASSUME NEW t \in Target, NEW v \in Storable
  PROVE  Leaves(t, v) \in Seq(LeafSet)
<1>1. t.form \in {"array", "list"} /\ t.ts \in Seq(InnerTarget)
  BY DEF Target
<1>2. CASE ~Matches(t, v)
  <2>1. <<Ends(v)>> \in Seq(LeafSet)
    BY DEF Ends, LeafSet
  <2>2. Leaves(t, v) = <<Ends(v)>>
    BY <1>2 DEF Leaves
  <2> QED
    BY <2>1, <2>2
<1>3. CASE Matches(t, v)
  <2> DEFINE n == Len(t.ts)
             parts == [i \in 1..n |-> LeavesIn(t.ts[i], v.s[i])]
  <2>1. /\ n \in Nat /\ DOMAIN t.ts = 1..n /\ Len(v.s) = n
        /\ \A i \in 1..n : t.ts[i] \in InnerTarget /\ v.s[i] \in Shallow
    BY <1>1, <1>3, MatchesKinds, PartsStorable, LenProperties, ElementOfSeq
  <2>2. \A i \in 1..n : LeavesIn(t.ts[i], v.s[i]) \in Seq(LeafSet)
    <3>1. PICK b \in Store : TRUE
      <4>1. [m \in Name |-> Amount(0)] \in Store
        BY AmountStored DEF Store
      <4> QED
        BY <4>1
    <3> QED
      BY <2>1, <3>1, InnerBinds
  <2>3. parts \in [1..n -> Seq(LeafSet)]
    BY <2>2
  <2>4. Leaves(t, v) = FlattenSeq(parts)
    BY <1>3, <2>1 DEF Leaves
  <2> HIDE DEF parts, n
  <2> QED
    BY <2>1, <2>3, <2>4, MadeASeq, FlattenSeqTyped
<1> QED
  BY <1>2, <1>3

LEMMA TargetBinds ==
  ASSUME NEW t \in Target, NEW v \in Storable, NEW b \in Store
  PROVE  Binds(Leaves(t, v), b, BindTarget(t, v, b))
<1> DEFINE n == Len(t.ts)
<1>0. n \in Nat /\ DOMAIN t.ts = 1..n /\ \A i \in 1..n : t.ts[i] \in InnerTarget
  <2>1. t.ts \in Seq(InnerTarget)
    BY DEF Target
  <2> QED
    BY <2>1, LenProperties, ElementOfSeq
<1>9. t.form \in {"array", "list"}
  BY DEF Target
<1>1. CASE ~Matches(t, v)
  <2>1. Leaves(t, v) = <<Ends(v)>>
    BY <1>1 DEF Leaves
  <2>2. BindTarget(t, v, b) = Bindings(b, Misfit)
    BY <1>1, <1>9, FitsMatches DEF BindEach, BindTarget
  <2> QED
    BY <1>1, <2>1, <2>2, BindsFails
<1>2. CASE Matches(t, v)
  <2>1. Fits(t, v) /\ Len(v.s) = n /\ \A i \in 1..n : v.s[i] \in Shallow
    <3>1. Fits(t, v) /\ Len(v.s) = n
      BY <1>2, <1>9, FitsMatches DEF Matches
    <3>2. v.s \in Seq(Shallow)
      BY <1>2, <1>9, MatchesKinds, PartsStorable
    <3> QED
      BY <3>1, <3>2, ElementOfSeq
  <2> DEFINE c == Bindings(b, Amount(0))
             K == [p \in Ended \X (1..n) |->
                     IF Failure(p[1].r) THEN p[1]
                     ELSE BindInner(t.ts[p[2]], v.s[p[2]], p[1].b)]
             Step(f) == [i \in 0..n |-> IF i = 0 THEN c
                                        ELSE IF Failure(f[i - 1].r) THEN f[i - 1]
                                        ELSE BindInner(t.ts[i], v.s[i], f[i - 1].b)]
             parts == [i \in 1..n |-> LeavesIn(t.ts[i], v.s[i])]
             w == [i \in 0..n |-> FlattenSeq(FirstOf(parts, i))]
  <2>2. c \in Ended
    BY BindsNothing DEF Binds
  <2>3. K \in [Ended \X (1..n) -> Ended]
    <3>1. ASSUME NEW y \in Ended, NEW i \in 1..n
          PROVE  BindInner(t.ts[i], v.s[i], y.b) \in Ended
      <4>1. y.b \in Store
        BY DEF Ended
      <4> QED
        BY <1>0, <2>1, <4>1, InnerBinds DEF Binds
    <3> HIDE DEF n
    <3> QED
      BY <3>1
  <2>4. PICK f : Walks(n, Ended, c, K, f)
    <3> HIDE DEF K, c, n
    <3> QED
      BY <1>0, <2>2, <2>3, WalkExists
  <2>5. f = Step(f)
    <3>1. ASSUME NEW i \in 1..n
          PROVE  f[i] = IF Failure(f[i - 1].r) THEN f[i - 1]
                        ELSE BindInner(t.ts[i], v.s[i], f[i - 1].b)
      <4>1. i - 1 \in 0..n
        BY <1>0
      <4>2. f[i - 1] \in Ended /\ f[i] = K[<<f[i - 1], i>>]
        BY <2>4, <4>1 DEF Walks
      <4> QED
        BY <4>2
    <3>2. \A i \in 0..n : i = 0 \/ i \in 1..n
      BY <1>0
    <3> HIDE DEF K, c, n
    <3> QED
      BY <2>4, <3>1, <3>2 DEF Walks
  <2> DEFINE u == CHOOSE g : g = Step(g)
  <2>6. u = Step(u)
    <3> HIDE DEF Step
    <3> QED
      BY <2>5
  <2>7. BindTarget(t, v, b) = u[n]
    BY <2>1 DEF BindEach, BindTarget
  <2>8. /\ parts \in Seq(Seq(LeafSet)) /\ Len(parts) = n
        /\ \A i \in 1..n : parts[i] \in Seq(LeafSet)
    <3>1. \A i \in 1..n : LeavesIn(t.ts[i], v.s[i]) \in Seq(LeafSet)
      BY <1>0, <2>1, InnerBinds
    <3>2. parts \in [1..n -> Seq(LeafSet)]
      BY <3>1
    <3> HIDE DEF parts, n
    <3> QED
      BY <1>0, <3>2, MadeASeq
  <2>9. u[0] = c /\ \A i \in 1..n : u[i] = IF Failure(u[i - 1].r) THEN u[i - 1]
                                           ELSE BindInner(t.ts[i], v.s[i], u[i - 1].b)
    <3>1. \A i \in 1..n : i \in 0..n /\ i # 0 /\ 0 \in 0..n
      BY <1>0
    <3>2. 0 \in 0..n
      BY <1>0
    <3> HIDE DEF u, c, n
    <3> QED
      BY <2>6, <3>1, <3>2
  <2>10. w[0] = <<>> /\ w[n] = FlattenSeq(parts)
    <3>1. 0 \in 0..n /\ n \in 0..n
      BY <1>0
    <3>2. FirstOf(parts, 0) = <<>> /\ FirstOf(parts, n) = parts
      <4> HIDE DEF parts, n
      <4> QED
        BY <2>8, FirstOfEnds
    <3> HIDE DEF parts, n
    <3> QED
      BY <3>1, <3>2, FlattenSeqEmpty
  <2>11. ASSUME NEW i \in 1..n
         PROVE  /\ parts[i] \in Seq(LeafSet) /\ w[i] = w[i - 1] \o parts[i]
                /\ u[i - 1] \in Ended =>
                     IF Failure(u[i - 1].r) THEN u[i] = u[i - 1]
                     ELSE Binds(parts[i], u[i - 1].b, u[i])
    <3>1. i - 1 \in 0..(n - 1) /\ i - 1 \in 0..n /\ i \in 0..n /\ (i - 1) + 1 = i
      BY <1>0
    <3>2. parts[i] \in Seq(LeafSet)
      <4> HIDE DEF parts, n
      <4> QED
        BY <2>8
    <3>3. w[i] = w[i - 1] \o parts[i]
      <4>1. FirstOf(parts, i) = Append(FirstOf(parts, i - 1), parts[i])
        <5> HIDE DEF parts, n
        <5> QED
          BY <2>8, <3>1, FirstOfNext
      <4>2. FirstOf(parts, i - 1) \in Seq(Seq(LeafSet))
        <5> HIDE DEF parts, n
        <5> QED
          BY <2>8, <3>1, FirstOfTyped
      <4> HIDE DEF parts, n
      <4> QED
        BY <3>1, <3>2, <4>1, <4>2, FlattenSeqAppend
    <3>4. ASSUME u[i - 1] \in Ended, ~Failure(u[i - 1].r)
          PROVE  Binds(parts[i], u[i - 1].b, u[i])
      <4>1. u[i - 1].b \in Store
        BY <3>4 DEF Ended
      <4>2. u[i] = BindInner(t.ts[i], v.s[i], u[i - 1].b)
        <5> HIDE DEF u, n
        <5> QED
          BY <2>9, <3>4
      <4>3. parts[i] = LeavesIn(t.ts[i], v.s[i])
        OBVIOUS
      <4> HIDE DEF u, parts
      <4> QED
        BY <1>0, <2>1, <3>2, <4>1, <4>2, <4>3, InnerBinds
    <3> HIDE DEF u, w, parts, n
    <3> QED
      BY <2>9, <3>2, <3>3, <3>4
  <2>12. w[n] \in Seq(LeafSet) /\ Binds(w[n], b, u[n])
    <3> HIDE DEF u, w, parts, n
    <3> QED
      BY <1>0, <2>9, <2>10, <2>11, WalkBinds
  <2>13. Leaves(t, v) = FlattenSeq(parts)
    BY <1>0, <1>2 DEF Leaves
  <2> HIDE DEF u, w, parts, n
  <2> QED
    BY <2>7, <2>10, <2>12, <2>13
<1> QED
  BY <1>1, <1>2

-----------------------------------------------------------------------------
(* The theorems                                                            *)

ConstantsKept == \A n \in Constant : bound[n] = Amount(2)
AsInv == AsTypeOK /\ ConstantsKept

LEMMA InitAsInv ==
  ASSUME AsInit
  PROVE  AsInv
<1>1. Ids = {} /\ bodies \in Seq(Body) /\ Len(bodies) = 0
  BY DEF AsInit, Ids
<1>2. Amount(2) \in Stored /\ Amount(0) \in Result
  BY AmountStored DEF Result
<1>3. MaxThunks \in Nat /\ Constant \subseteq Name
  BY AssignmentsAssumption DEF AssignmentsAssumption
<1> QED
  BY <1>1, <1>2, <1>3 DEF AsInit, AsInv, AsTypeOK, ConstantsKept

(* What is kept while no thunk is added.                                   *)
LEMMA BoundAnew ==
  ASSUME AsInv, UNCHANGED <<bodies, dynActive>>, answer' \in Result,
         bound' \in Store, \A n \in Constant : bound'[n] = bound[n]
  PROVE  AsInv'
<1>1. Ids' = Ids
  BY DEF Ids
<1>2. Stored' = Stored /\ Result' = Result
  BY <1>1 DEF Stored, Result
<1>3. AsTypeOK'
  BY <1>1, <1>2 DEF AsInv, AsTypeOK, Store
<1>4. ConstantsKept'
  BY DEF AsInv, ConstantsKept
<1> QED
  BY <1>3, <1>4 DEF AsInv

LEMMA ReadGives ==
  ASSUME AsTypeOK, NEW n \in Name
  PROVE  /\ ForceThunk(bound[n], dynActive) = Outcome(Seen(Forcing, n, {}), {})
         /\ Seen(Forcing, n, {}) \in Result
<1>1. Tidy(Forcing, {}) /\ {} \in SUBSET Ids /\ dynActive = {}
  BY ForcingTidy DEF AsTypeOK
<1> QED
  BY <1>1, SeenTyped DEF ForceThunk

(* Constants keep their value whatever the leaves bind.                    *)
LEMMA LeavesSpareConstants ==
  ASSUME NEW t \in Target, NEW v \in Storable, NEW b \in Store, NEW n \in Constant
  PROVE  BindTarget(t, v, b).b \in Store /\ BindTarget(t, v, b).b[n] = b[n]
<1> DEFINE ls == Leaves(t, v)
           r == BindTarget(t, v, b)
<1>1. Binds(ls, b, r) /\ n \in Name
  BY TargetBinds, AssignmentsAssumption DEF AssignmentsAssumption
<1>2. ls \in Seq(LeafSet)
  BY LeavesTyped
<1> HIDE DEF ls, r
<1>3. BoundBy(ls, n) = {}
  <2> SUFFICES ASSUME NEW i \in BoundBy(ls, n) PROVE FALSE
    OBVIOUS
  <2>1. i \in DOMAIN ls /\ ls[i].name = n /\ \A j \in 1..i : ~ls[j].ends
    BY DEF BoundBy
  <2>2. i \in 1..i /\ ls[i] \in LeafSet
    BY <1>2, <2>1, LenProperties, ElementOfSeq
  <2>3. ls[i].ends
    BY <2>1, <2>2 DEF LeafSet
  <2> QED
    BY <2>1, <2>2, <2>3
<1>4. r.b \in Store /\ r.b[n] = b[n]
  BY <1>1, <1>3 DEF Binds, Ended
<1> QED
  BY <1>4 DEF r

LEMMA DynAssignInv ==
  ASSUME AsInv, NEW n \in Name, NEW e \in Body, DynAssign(n, e)
  PROVE  AsInv'
<1>1. /\ bodies' \in Seq(Body) /\ Len(bodies') = Len(bodies) + 1
      /\ Len(bodies) \in Nat /\ Len(bodies) < MaxThunks /\ MaxThunks \in Nat
  BY AppendProperties, LenProperties, AssignmentsAssumption
     DEF DynAssign, AsInv, AsTypeOK, AssignmentsAssumption
<1>2. Ids = 1..Len(bodies) /\ Ids' = 1..(Len(bodies) + 1)
  BY <1>1, LenProperties DEF Ids, AsInv, AsTypeOK
<1>3. Ids \subseteq Ids' /\ Len(bodies) + 1 \in Ids'
  BY <1>1, <1>2
<1>4. /\ Stored \subseteq Stored' /\ Amount(0) \in Stored
      /\ Thunk(Len(bodies) + 1) \in Stored'
  BY <1>3, AmountStored DEF Stored
<1>5. bound' \in [Name -> Stored']
  BY <1>4 DEF DynAssign, AsInv, AsTypeOK
<1>6. AsTypeOK'
  BY <1>1, <1>4, <1>5 DEF DynAssign, AsInv, AsTypeOK, Result
<1>7. ConstantsKept'
  BY AssignmentsAssumption DEF DynAssign, AsInv, AsTypeOK, ConstantsKept, AssignmentsAssumption
<1> QED
  BY <1>6, <1>7 DEF AsInv

LEMMA StepAsInv ==
  ASSUME AsInv, [AsNext]_asVars
  PROVE  AsInv'
<1>0. /\ bound \in Store /\ Constant \subseteq Name /\ Targets \subseteq Target
      /\ Values \subseteq Storable /\ AsTypeOK /\ answer \in Result
  BY AssignmentsAssumption DEF AsInv, AsTypeOK, Store, AssignmentsAssumption
<1>1. Amount(0) \in Result /\ Amount(1) \in Stored
  BY AmountStored DEF Result
<1>2. ASSUME NEW n \in Name, Assign(n) PROVE AsInv'
  <2>1. bound' \in Store /\ \A m \in Constant : bound'[m] = bound[m]
    BY <1>0, <1>1, <1>2 DEF Assign, Store
  <2> QED
    BY <1>1, <1>2, <2>1, BoundAnew DEF Assign
<1>3. ASSUME NEW n \in Name, Read(n) PROVE AsInv'
  <2>1. answer' \in Result /\ dynActive' = {} /\ dynActive = {}
    BY <1>0, <1>3, ReadGives DEF Read, Outcome, AsTypeOK
  <2> QED
    BY <1>0, <1>3, <2>1, BoundAnew DEF Read
<1>4. ASSUME NEW n \in Name, NEW m \in Name, Copy(n, m) PROVE AsInv'
  <2>1. bound' \in Store /\ \A k \in Constant : bound'[k] = bound[k]
    BY <1>0, <1>4 DEF Copy, Store
  <2> QED
    BY <1>1, <1>4, <2>1, BoundAnew DEF Copy
<1>5. ASSUME NEW n \in Name, NEW e \in Body, DynAssign(n, e) PROVE AsInv'
  BY <1>5, DynAssignInv
<1>6. ASSUME NEW t \in Targets, NEW v \in Values, Destruct(t, v) PROVE AsInv'
  <2>1. t \in Target /\ v \in Storable
    BY <1>0
  <2>2. Binds(Leaves(t, v), bound, BindTarget(t, v, bound))
    BY <1>0, <2>1, TargetBinds
  <2>3. BindTarget(t, v, bound).b \in Store
    BY <2>2 DEF Binds, Ended
  <2>4. \A n \in Constant : BindTarget(t, v, bound).b[n] = bound[n]
    BY <1>0, <2>1, LeavesSpareConstants
  <2> QED
    BY <1>1, <1>6, <2>3, <2>4, BoundAnew DEF Destruct
<1>7. CASE UNCHANGED asVars
  <2>1. bound' = bound /\ bodies' = bodies /\ dynActive' = dynActive /\ answer' = answer
    BY <1>7 DEF asVars
  <2> QED
    BY <1>0, <2>1, BoundAnew
<1> QED
  BY <1>2, <1>3, <1>4, <1>5, <1>6, <1>7 DEF AsNext

(* Every state is made of what its declarations say, no thunk stays marked *)
(* as active, and a name registered as a constant keeps its value.         *)
THEOREM AssignmentsTyped == AsSpec => []AsInv
<1>1. AsInit => AsInv
  BY InitAsInv
<1>2. AsInv /\ [AsNext]_asVars => AsInv'
  BY StepAsInv
<1> QED
  BY <1>1, <1>2, PTL DEF AsSpec

(* A read reports a circular assignment only where the bindings are        *)
(* circular, and fails wherever a thunk is reached through sums from       *)
(* itself; no thunk stays marked.  For any number of thunks and of names.  *)
THEOREM CirclesReported == AsSpec => []CircularExact
<1>1. AsInv => CircularExact
  <2> SUFFICES ASSUME AsInv PROVE CircularExact
    OBVIOUS
  <2>1. AsTypeOK /\ dynActive = {}
    BY DEF AsInv, AsTypeOK
  <2>2. ASSUME NEW n \in Name, bound[n].tag = "thunk"
        PROVE  LET r == ForceThunk(bound[n], dynActive).v
               IN  /\ r = Circular => Circle(bound[n].n, {"sum", "caught"})
                   /\ Circle(bound[n].n, {"sum"}) => Failure(r)
    <3> DEFINE i == bound[n].n
               r == ForceThunk(bound[n], dynActive).v
    <3>1. i \in Ids /\ {} \in SUBSET Ids
      BY <2>1, <2>2, StoredKinds DEF AsTypeOK
    <3>2. r = Forcing[<<i, {}>>].v
      <4>1. \A w, a : Outcome(w, a).v = w
        BY DEF Outcome
      <4>2. ForceThunk(bound[n], dynActive) = Outcome(Seen(Forcing, n, {}), {})
        BY <2>1, ReadGives
      <4>3. r = Seen(Forcing, n, {})
        BY <4>1, <4>2
      <4>4. Seen(Forcing, n, {}) = Forcing[<<i, {}>>].v
        BY <2>2 DEF Seen
      <4> QED
        BY <4>3, <4>4
    <3> HIDE DEF i, r
    <3>3. r = Circular => Circle(i, {"sum", "caught"})
      <4>1. Clear(i, {"sum", "caught"}, {}) => r # Circular
        BY <2>1, <3>1, <3>2, ClearForces
      <4> QED
        BY <4>1 DEF Clear, Circle
    <3>4. Circle(i, {"sum"}) => Failure(r)
      <4>1. ~Failure(r) => Clear(i, {"sum"}, {})
        BY <2>1, <3>1, <3>2, ForcedIsClear
      <4> QED
        BY <4>1 DEF Clear, Circle
    <3> QED
      BY <3>3, <3>4 DEF i, r
  <2> QED
    BY <2>1, <2>2 DEF CircularExact
<1> QED
  BY <1>1, AssignmentsTyped, PTL

(* A destructuring assignment binds the leaves before the first that is a  *)
(* constant or does not fit, the later of two equal names last, and no     *)
(* other name.  For any targets and values at most two deep.               *)
THEOREM LeavesBound == AsSpec => []DestructExact
<1>1. AsInv => DestructExact
  <2> SUFFICES ASSUME AsInv PROVE DestructExact
    OBVIOUS
  <2>1. \A n \in Constant : bound[n] = Amount(2)
    BY DEF AsInv, ConstantsKept
  <2>2. ASSUME NEW t \in Targets, NEW v \in Values
        PROVE  Binds(Leaves(t, v), bound, BindTarget(t, v, bound))
    BY TargetBinds, AssignmentsAssumption
       DEF AssignmentsAssumption, AsInv, AsTypeOK, Store
  <2> QED
    BY <2>1, <2>2 DEF DestructExact, Binds
<1> QED
  BY <1>1, AssignmentsTyped, PTL

-----------------------------------------------------------------------------
(* Equality of keys                                                        *)

(* A set of values with the elements of its arrays and lists.              *)
Closed(U) == \A x \in U : Holder(x) => x.data \in Seq(U)

(* What KeyEqual compares at each depth.                                   *)
Levels(a, b, f) ==
  f = [depth \in 0 .. MaxDepth |->
         IF depth = 0 THEN {<<a, b>>} ELSE UNION {Below(p) : p \in f[depth - 1]}]
Steps(a, b, f) ==
  /\ f[0] = {<<a, b>>}
  /\ \A d \in 1 .. MaxDepth : f[d] = UNION {Below(p) : p \in f[d - 1]}
AllAlike(f) == \A depth \in 0 .. MaxDepth : \A p \in f[depth] : Alike(p[1], p[2])

LEMMA BelowTyped ==
  ASSUME NEW U, Closed(U), NEW p \in U \X U
  PROVE  Below(p) \subseteq U \X U
<1>1. CASE Holder(p[1]) /\ Alike(p[1], p[2])
  <2>1. Holder(p[2]) /\ Len(p[1].data) = Len(p[2].data)
    BY <1>1 DEF Holder, Alike
  <2>2. p[1].data \in Seq(U) /\ p[2].data \in Seq(U)
    BY <1>1, <2>1 DEF Closed
  <2>3. \A i \in DOMAIN p[1].data : p[1].data[i] \in U /\ p[2].data[i] \in U
    BY <2>1, <2>2, ElementOfSeq, LenProperties
  <2> QED
    BY <2>3 DEF Below
<1>2. CASE ~(Holder(p[1]) /\ Alike(p[1], p[2]))
  BY <1>2 DEF Below
<1> QED
  BY <1>1, <1>2

LEMMA LevelsExist ==
  ASSUME NEW U, Closed(U), NEW a \in U, NEW b \in U
  PROVE  \E f \in [0 .. MaxDepth -> SUBSET (U \X U)] : Levels(a, b, f)
<1> DEFINE V == SUBSET (U \X U)
           next(S) == UNION {Below(p) : p \in S}
           G == [q \in V \X Nat |-> next(q[1])]
           s == [i \in 1 .. MaxDepth |-> i]
<1>0. MaxDepth \in Nat
  BY KapMapAssumption
<1>1. \A S \in V : next(S) \in V
  <2>1. ASSUME NEW S \in V PROVE next(S) \subseteq U \X U
    BY BelowTyped
  <2> QED
    BY <2>1
<1>2. s \in Seq(Nat) /\ Len(s) = MaxDepth /\ \A i \in 1 .. MaxDepth : s[i] = i
  <2>1. s \in [1 .. MaxDepth -> Nat]
    OBVIOUS
  <2> HIDE DEF s
  <2>2. s \in Seq(Nat) /\ Len(s) = MaxDepth
    BY <1>0, <2>1, MadeASeq
  <2> QED
    BY <2>2 DEF s
<1>3. {<<a, b>>} \in V
  OBVIOUS
<1> HIDE DEF next
<1>4. G \in [V \X Nat -> V] /\ \A S \in V, i \in Nat : G[<<S, i>>] = next(S)
  BY <1>1
<1> HIDE DEF G, V, s
<1>5. PICK f : Follows(s, V, {<<a, b>>}, G, f)
  BY <1>2, <1>3, <1>4, RecursionExists
<1>6. /\ f \in [0 .. MaxDepth -> V] /\ f[0] = {<<a, b>>}
      /\ \A i \in 1 .. MaxDepth : f[i] = G[<<f[i - 1], s[i]>>]
  BY <1>2, <1>5 DEF Follows
<1>7. \A i \in 1 .. MaxDepth : f[i] = next(f[i - 1])
  <2>1. ASSUME NEW i \in 1 .. MaxDepth PROVE f[i] = next(f[i - 1])
    <3>1. i \in Nat /\ i - 1 \in 0 .. MaxDepth /\ f[i - 1] \in V /\ s[i] = i
      BY <1>0, <1>2, <1>6
    <3> QED
      BY <1>4, <1>6, <3>1
  <2> QED
    BY <2>1
<1>8. f = [depth \in 0 .. MaxDepth |->
             IF depth = 0 THEN {<<a, b>>} ELSE next(f[depth - 1])]
  BY <1>0, <1>6, <1>7
<1>9. Levels(a, b, f)
  BY <1>8 DEF Levels, next
<1> QED
  BY <1>6, <1>9 DEF V

(* KeyEqual is about such levels.                                          *)
LEMMA KeyEqualLevels ==
  ASSUME NEW U, Closed(U), NEW a \in U, NEW b \in U
  PROVE  \E f \in [0 .. MaxDepth -> SUBSET (U \X U)] :
           Levels(a, b, f) /\ (KeyEqual(a, b) <=> AllAlike(f))
<1> DEFINE compared == CHOOSE f : Levels(a, b, f)
<1>1. PICK f \in [0 .. MaxDepth -> SUBSET (U \X U)] : Levels(a, b, f)
  BY LevelsExist
<1>2. Levels(a, b, compared)
  BY <1>1
<1>3. KeyEqual(a, b) <=> AllAlike(compared)
  BY DEF KeyEqual, AllAlike, Levels
<1> HIDE DEF compared
<1>4. compared \in [0 .. MaxDepth -> SUBSET (U \X U)]
  <2> DEFINE Typed == {d \in 0 .. MaxDepth : compared[d] \subseteq U \X U}
  <2>0. MaxDepth \in Nat
    BY KapMapAssumption
  <2>1. compared[0] = {<<a, b>>}
        /\ \A d \in 0 .. MaxDepth : d # 0 =>
             compared[d] = UNION {Below(p) : p \in compared[d - 1]}
    BY <1>2, <2>0 DEF Levels
  <2>2. 0 \in Typed
    BY <2>0, <2>1
  <2>3. ASSUME NEW d \in 0 .. MaxDepth, d \in Typed /\ d + 1 <= MaxDepth
        PROVE  d + 1 \in Typed
    <3>1. d + 1 \in 0 .. MaxDepth /\ d + 1 # 0 /\ (d + 1) - 1 = d
      BY <2>0, <2>3
    <3>2. compared[d + 1] = UNION {Below(p) : p \in compared[d]}
      BY <2>1, <3>1
    <3>3. \A p \in compared[d] : Below(p) \subseteq U \X U
      BY <2>3, BelowTyped
    <3> QED
      BY <3>1, <3>2, <3>3
  <2>4. \A d \in 0 .. MaxDepth : d \in Typed
    <3> HIDE DEF Typed
    <3> QED
      BY <2>0, <2>2, <2>3, InductionUpTo
  <2>5. \A d \in 0 .. MaxDepth : compared[d] \in SUBSET (U \X U)
    BY <2>4
  <2>6. compared = [d \in 0 .. MaxDepth |-> compared[d]]
    BY <1>2 DEF Levels
  <2> QED
    BY <2>5, <2>6
<1> QED
  BY <1>2, <1>3, <1>4

LEMMA LevelsStep ==
  ASSUME NEW a, NEW b, NEW f, Levels(a, b, f)
  PROVE  Steps(a, b, f)
<1>1. MaxDepth \in Nat
  BY KapMapAssumption
<1>2. f[0] = {<<a, b>>}
      /\ \A d \in 0 .. MaxDepth : d # 0 => f[d] = UNION {Below(p) : p \in f[d - 1]}
  BY <1>1 DEF Levels
<1>3. \A d \in 1 .. MaxDepth : d \in 0 .. MaxDepth /\ d # 0
  BY <1>1
<1>4. \A d \in 1 .. MaxDepth : f[d] = UNION {Below(p) : p \in f[d - 1]}
  BY <1>2, <1>3
<1> QED
  BY <1>2, <1>4 DEF Steps

(* What is below two values is below them in the other order too.          *)
LEMMA BelowSwapped ==
  ASSUME NEW U, Closed(U), NEW x \in U, NEW y \in U, Alike(x, y)
  PROVE  /\ Alike(y, x)
         /\ Below(<<y, x>>) = {<<q[2], q[1]>> : q \in Below(<<x, y>>)}
<1>1. Holder(x) <=> Holder(y)
  BY DEF Alike, Holder
<1>2. Alike(y, x)
  BY <1>1 DEF Alike, IsArr
<1>3. CASE Holder(x)
  <2>1. DOMAIN x.data = DOMAIN y.data
    <3>1. Len(x.data) = Len(y.data)
      BY <1>3 DEF Alike
    <3>2. x.data \in Seq(U) /\ y.data \in Seq(U)
      BY <1>1, <1>3 DEF Closed
    <3> QED
      BY <3>1, <3>2
  <2>2. Below(<<x, y>>) = {<<x.data[i], y.data[i]>> : i \in DOMAIN x.data}
    BY <1>3 DEF Below
  <2>3. Below(<<y, x>>) = {<<y.data[i], x.data[i]>> : i \in DOMAIN y.data}
    BY <1>1, <1>2, <1>3 DEF Below
  <2>4. ASSUME NEW q \in Below(<<y, x>>)
        PROVE  q \in {<<r[2], r[1]>> : r \in Below(<<x, y>>)}
    <3>1. PICK i \in DOMAIN x.data : q = <<y.data[i], x.data[i]>>
      BY <2>1, <2>3
    <3>2. <<x.data[i], y.data[i]>> \in Below(<<x, y>>)
      BY <2>2
    <3> QED
      BY <3>1, <3>2
  <2>5. ASSUME NEW r \in Below(<<x, y>>)
        PROVE  <<r[2], r[1]>> \in Below(<<y, x>>)
    <3>1. PICK i \in DOMAIN x.data : r = <<x.data[i], y.data[i]>>
      BY <2>2
    <3> QED
      BY <2>1, <2>3, <3>1
  <2> QED
    BY <2>4, <2>5, <1>2
<1>4. CASE ~Holder(x)
  BY <1>1, <1>2, <1>4 DEF Below
<1> QED
  BY <1>3, <1>4

LEMMA KeyEqualSymmetric ==
  ASSUME NEW U, Closed(U), NEW a \in U, NEW b \in U, KeyEqual(a, b)
  PROVE  KeyEqual(b, a)
<1> DEFINE Swapped(S) == {<<q[2], q[1]>> : q \in S}
<1>0. MaxDepth \in Nat
  BY KapMapAssumption
<1>1. PICK f \in [0 .. MaxDepth -> SUBSET (U \X U)] : Levels(a, b, f) /\ AllAlike(f)
  BY KeyEqualLevels
<1>2. PICK g \in [0 .. MaxDepth -> SUBSET (U \X U)] :
        Levels(b, a, g) /\ (KeyEqual(b, a) <=> AllAlike(g))
  BY KeyEqualLevels
<1>3. Steps(a, b, f)
  BY <1>1, LevelsStep
<1>4. Steps(b, a, g)
  BY <1>2, LevelsStep
<1> DEFINE Same == {d \in 0 .. MaxDepth : g[d] = Swapped(f[d])}
<1>5. 0 \in Same
  <2>1. f[0] = {<<a, b>>} /\ g[0] = {<<b, a>>}
    BY <1>3, <1>4 DEF Steps
  <2>2. Swapped({<<a, b>>}) = {<<b, a>>}
    OBVIOUS
  <2> QED
    BY <1>0, <2>1, <2>2
<1>6. ASSUME NEW d \in 0 .. MaxDepth, d \in Same /\ d + 1 <= MaxDepth
      PROVE  d + 1 \in Same
  <2>1. d + 1 \in 1 .. MaxDepth /\ (d + 1) - 1 = d
    BY <1>0, <1>6
  <2>2. /\ f[d + 1] = UNION {Below(p) : p \in f[d]}
        /\ g[d + 1] = UNION {Below(p) : p \in g[d]}
        /\ g[d] = Swapped(f[d])
    BY <1>3, <1>4, <1>6, <2>1 DEF Steps
  <2>3. \A p \in f[d] : Below(<<p[2], p[1]>>) = Swapped(Below(p))
    <3>1. ASSUME NEW p \in f[d] PROVE Below(<<p[2], p[1]>>) = Swapped(Below(p))
      <4>1. p \in U \X U /\ Alike(p[1], p[2])
        BY <1>1 DEF AllAlike
      <4>2. p = <<p[1], p[2]>> /\ p[1] \in U /\ p[2] \in U
        BY <4>1
      <4>3. Below(<<p[2], p[1]>>) = Swapped(Below(<<p[1], p[2]>>))
        BY <4>1, <4>2, BelowSwapped
      <4> QED
        BY <4>2, <4>3
    <3> QED
      BY <3>1
  <2>4. g[d + 1] = Swapped(f[d + 1])
    <3>1. ASSUME NEW q \in g[d + 1] PROVE q \in Swapped(f[d + 1])
      <4>1. PICK p \in f[d] : q \in Below(<<p[2], p[1]>>)
        BY <2>2
      <4>2. PICK r \in Below(p) : q = <<r[2], r[1]>>
        BY <2>3, <4>1
      <4> QED
        BY <2>2, <4>2
    <3>2. ASSUME NEW r \in f[d + 1] PROVE <<r[2], r[1]>> \in g[d + 1]
      <4>1. PICK p \in f[d] : r \in Below(p)
        BY <2>2
      <4>2. <<r[2], r[1]>> \in Below(<<p[2], p[1]>>)
        BY <2>3, <4>1
      <4>3. <<p[2], p[1]>> \in g[d]
        BY <2>2
      <4> QED
        BY <2>2, <4>2, <4>3
    <3> QED
      BY <3>1, <3>2
  <2> QED
    BY <2>1, <2>4
<1>7. \A d \in 0 .. MaxDepth : d \in Same
  <2> HIDE DEF Same
  <2> QED
    BY <1>0, <1>5, <1>6, InductionUpTo
<1>8. AllAlike(g)
  <2>1. ASSUME NEW d \in 0 .. MaxDepth, NEW p \in g[d] PROVE Alike(p[1], p[2])
    <3>1. PICK q \in f[d] : p = <<q[2], q[1]>>
      BY <1>7
    <3>2. q \in U \X U /\ Alike(q[1], q[2])
      BY <1>1 DEF AllAlike
    <3> QED
      BY <3>1, <3>2, BelowSwapped
  <2> QED
    BY <2>1 DEF AllAlike
<1> QED
  BY <1>2, <1>8

(* What is below the first and the third of three like values is below     *)
(* the second as well.                                                     *)
LEMMA BelowThrough ==
  ASSUME NEW U, Closed(U), NEW x \in U, NEW y \in U, NEW z \in U, Alike(x, y), Alike(y, z)
  PROVE  /\ Alike(x, z)
         /\ \A q \in Below(<<x, z>>) : \E m \in U :
              <<q[1], m>> \in Below(<<x, y>>) /\ <<m, q[2]>> \in Below(<<y, z>>)
<1>1. (Holder(x) <=> Holder(y)) /\ (Holder(x) <=> Holder(z))
  BY DEF Alike, Holder
<1>2. Alike(x, z)
  BY <1>1 DEF Alike, IsArr
<1>3. CASE Holder(x)
  <2>1. /\ x.data \in Seq(U) /\ y.data \in Seq(U) /\ z.data \in Seq(U)
        /\ Len(x.data) = Len(y.data) /\ Len(x.data) = Len(z.data)
    BY <1>1, <1>3 DEF Closed, Alike
  <2>2. DOMAIN x.data = DOMAIN y.data /\ DOMAIN x.data = DOMAIN z.data
        /\ \A i \in DOMAIN y.data : y.data[i] \in U
    BY <2>1, LenProperties, ElementOfSeq
  <2>3. /\ Below(<<x, y>>) = {<<x.data[i], y.data[i]>> : i \in DOMAIN x.data}
        /\ Below(<<y, z>>) = {<<y.data[i], z.data[i]>> : i \in DOMAIN y.data}
        /\ Below(<<x, z>>) = {<<x.data[i], z.data[i]>> : i \in DOMAIN x.data}
    BY <1>1, <1>2, <1>3 DEF Below
  <2>4. ASSUME NEW q \in Below(<<x, z>>)
        PROVE  \E m \in U : <<q[1], m>> \in Below(<<x, y>>) /\ <<m, q[2]>> \in Below(<<y, z>>)
    <3>1. PICK i \in DOMAIN x.data : q = <<x.data[i], z.data[i]>>
      BY <2>3
    <3>2. y.data[i] \in U /\ i \in DOMAIN y.data
      BY <2>2
    <3>3. <<x.data[i], y.data[i]>> \in Below(<<x, y>>) /\ <<y.data[i], z.data[i]>> \in Below(<<y, z>>)
      BY <2>3, <3>2
    <3> QED
      BY <3>1, <3>2, <3>3
  <2> QED
    BY <1>2, <2>4
<1>4. CASE ~Holder(x)
  BY <1>2, <1>4 DEF Below
<1> QED
  BY <1>3, <1>4

LEMMA KeyEqualTransitive ==
  ASSUME NEW U, Closed(U), NEW a \in U, NEW b \in U, NEW c \in U,
         KeyEqual(a, b), KeyEqual(b, c)
  PROVE  KeyEqual(a, c)
<1>0. MaxDepth \in Nat
  BY KapMapAssumption
<1>1. PICK f \in [0 .. MaxDepth -> SUBSET (U \X U)] : Levels(a, b, f) /\ AllAlike(f)
  BY KeyEqualLevels
<1>2. PICK g \in [0 .. MaxDepth -> SUBSET (U \X U)] : Levels(b, c, g) /\ AllAlike(g)
  BY KeyEqualLevels
<1>3. PICK h \in [0 .. MaxDepth -> SUBSET (U \X U)] :
        Levels(a, c, h) /\ (KeyEqual(a, c) <=> AllAlike(h))
  BY KeyEqualLevels
<1>4. Steps(a, b, f)
  BY <1>1, LevelsStep
<1>5. Steps(b, c, g)
  BY <1>2, LevelsStep
<1>6. Steps(a, c, h)
  BY <1>3, LevelsStep
<1> DEFINE Through(d) == \A p \in h[d] : \E m \in U : <<p[1], m>> \in f[d] /\ <<m, p[2]>> \in g[d]
           Linked == {d \in 0 .. MaxDepth : Through(d)}
<1>7. 0 \in Linked
  <2>1. f[0] = {<<a, b>>} /\ g[0] = {<<b, c>>} /\ h[0] = {<<a, c>>}
    BY <1>4, <1>5, <1>6 DEF Steps
  <2> QED
    BY <1>0, <2>1
<1>8. ASSUME NEW d \in 0 .. MaxDepth, NEW p \in h[d], Through(d)
      PROVE  /\ Alike(p[1], p[2])
             /\ \A q \in Below(p) : \E m \in U :
                  /\ <<q[1], m>> \in UNION {Below(r) : r \in f[d]}
                  /\ <<m, q[2]>> \in UNION {Below(r) : r \in g[d]}
  <2>1. p \in U \X U
    OBVIOUS
  <2>2. PICK y \in U : <<p[1], y>> \in f[d] /\ <<y, p[2]>> \in g[d]
    BY <1>8
  <2>3. p = <<p[1], p[2]>> /\ p[1] \in U /\ p[2] \in U
    BY <2>1
  <2>4. Alike(p[1], y)
    <3>1. \A r \in f[d] : Alike(r[1], r[2])
      BY <1>1 DEF AllAlike
    <3> QED
      BY <2>2, <3>1
  <2>5. Alike(y, p[2])
    <3>1. \A r \in g[d] : Alike(r[1], r[2])
      BY <1>2 DEF AllAlike
    <3> QED
      BY <2>2, <3>1
  <2>6. /\ Alike(p[1], p[2])
        /\ \A q \in Below(<<p[1], p[2]>>) : \E m \in U :
             <<q[1], m>> \in Below(<<p[1], y>>) /\ <<m, q[2]>> \in Below(<<y, p[2]>>)
    BY <2>3, <2>4, <2>5, BelowThrough
  <2> QED
    BY <2>2, <2>3, <2>6
<1>9. ASSUME NEW d \in 0 .. MaxDepth, d \in Linked /\ d + 1 <= MaxDepth
      PROVE  d + 1 \in Linked
  <2>1. d + 1 \in 0 .. MaxDepth /\ d + 1 \in 1 .. MaxDepth /\ (d + 1) - 1 = d
    BY <1>0, <1>9
  <2>2. /\ f[d + 1] = UNION {Below(r) : r \in f[d]}
        /\ g[d + 1] = UNION {Below(r) : r \in g[d]}
        /\ h[d + 1] = UNION {Below(r) : r \in h[d]}
    BY <1>4, <1>5, <1>6, <2>1 DEF Steps
  <2>3. Through(d)
    BY <1>9
  <2>4. ASSUME NEW q \in h[d + 1]
        PROVE  \E m \in U : <<q[1], m>> \in f[d + 1] /\ <<m, q[2]>> \in g[d + 1]
    <3>1. PICK p \in h[d] : q \in Below(p)
      BY <2>2
    <3> HIDE DEF Through
    <3> QED
      BY <1>8, <2>2, <2>3, <3>1
  <2> QED
    BY <2>1, <2>4
<1>10. \A d \in 0 .. MaxDepth : d \in Linked
  <2> HIDE DEF Linked
  <2> QED
    BY <1>0, <1>7, <1>9, InductionUpTo
<1>11. AllAlike(h)
  <2>1. ASSUME NEW d \in 0 .. MaxDepth, NEW p \in h[d] PROVE Alike(p[1], p[2])
    BY <1>8, <1>10
  <2> QED
    BY <2>1 DEF AllAlike
<1> QED
  BY <1>3, <1>11

-----------------------------------------------------------------------------
(* What is found under a key                                               *)

Items == Keys \cup Contents
Held == Items \cup {VecOf(s) : s \in Seq(Items)}
Pairs == Items \X Held
Tables == {MapOf(s) : s \in Seq(Pairs)}

LEMMA ItemsClosed == Closed(Items) /\ Closed(Held)
<1>1. \A x \in Items : Holder(x) => x.data \in Seq(Items)
  BY MapStoreAssumption DEF Items
<1>2. Seq(Items) \subseteq Seq(Held)
  BY DEF Held
<1>3. \A s : VecOf(s).data = s
  BY DEF VecOf, Arr, Labelled
<1>4. ASSUME NEW x \in Held, Holder(x) PROVE x.data \in Seq(Held)
  <2>1. CASE x \in Items
    BY <1>1, <1>2, <1>4, <2>1
  <2>2. CASE x \in {VecOf(s) : s \in Seq(Items)}
    BY <1>2, <1>3, <2>2
  <2> QED
    BY <1>4, <2>1, <2>2 DEF Held
<1> QED
  BY <1>1, <1>4 DEF Closed

LEMMA Symmetric ==
  ASSUME NEW a \in Held, NEW b \in Held, KeyEqual(a, b)
  PROVE  KeyEqual(b, a)
BY ItemsClosed, KeyEqualSymmetric

LEMMA Transitive ==
  ASSUME NEW a \in Held, NEW b \in Held, NEW c \in Held, KeyEqual(a, b), KeyEqual(b, c)
  PROVE  KeyEqual(a, c)
BY ItemsClosed, KeyEqualTransitive

LEMMA TableTyped ==
  ASSUME NEW m \in Tables
  PROVE  /\ m = MapOf(m.pairs) /\ m.pairs \in Seq(Pairs) /\ IsMap(m)
         /\ Len(m.pairs) \in Nat /\ DOMAIN m.pairs = 1 .. Len(m.pairs)
         /\ \A i \in DOMAIN m.pairs : m.pairs[i] \in Pairs /\ m.pairs[i][1] \in Items /\ m.pairs[i][2] \in Held
<1>1. PICK s \in Seq(Pairs) : m = MapOf(s)
  BY DEF Tables
<1>2. m.pairs = s /\ IsMap(m)
  BY <1>1 DEF MapOf, IsMap
<1>3. Len(s) \in Nat /\ DOMAIN s = 1 .. Len(s) /\ \A i \in DOMAIN s : s[i] \in Pairs
  BY LenProperties, ElementOfSeq
<1>4. \A p \in Pairs : p[1] \in Items /\ p[2] \in Held
  BY DEF Pairs
<1> QED
  BY <1>1, <1>2, <1>3, <1>4

(* The first place of a key is the one before all others.                  *)
LEMMA FirstPlace ==
  ASSUME NEW m \in Tables, NEW key, NEW i \in At(m, key), \A j \in At(m, key) : i <= j
  PROVE  Has(m, key) /\ FirstAt(m, key) = i
<1>1. At(m, key) \subseteq Nat
  BY TableTyped DEF At
<1>2. FirstAt(m, key) \in At(m, key) /\ \A j \in At(m, key) : FirstAt(m, key) <= j
  BY DEF FirstAt
<1> QED
  BY <1>1, <1>2 DEF Has

LEMMA FirstExists ==
  ASSUME NEW m \in Tables, NEW key, Has(m, key)
  PROVE  /\ FirstAt(m, key) \in DOMAIN m.pairs /\ FirstAt(m, key) \in At(m, key)
         /\ KeyEqual(m.pairs[FirstAt(m, key)][1], key)
         /\ \A j \in At(m, key) : FirstAt(m, key) <= j
<1>1. At(m, key) \in SUBSET Nat /\ At(m, key) # {}
  BY TableTyped DEF At, Has
<1>2. PICK i \in At(m, key) : \A j \in At(m, key) : i <= j
  BY <1>1, LeastNumber
<1>3. FirstAt(m, key) \in At(m, key) /\ \A j \in At(m, key) : FirstAt(m, key) <= j
  BY <1>2 DEF FirstAt
<1> QED
  BY <1>3 DEF At

(* A pair at the end of a map is found under its key unless another is.    *)
LEMMA AtTheEnd ==
  ASSUME NEW s \in Seq(Pairs), NEW p \in Pairs, NEW m, NEW t,
         m = MapOf(s), t = MapOf(Append(s, p))
  PROVE  /\ t \in Tables /\ Len(t.pairs) = Len(s) + 1
         /\ \A j : Has(t, j) <=> Has(m, j) \/ KeyEqual(p[1], j)
         /\ \A j, missing : Lookup(t, j, missing) =
              IF Has(m, j) THEN Lookup(m, j, missing)
              ELSE IF KeyEqual(p[1], j) THEN p[2] ELSE missing
         /\ Distinct(t) <=> Distinct(m) /\ ~Has(m, p[1])
<1> DEFINE n == Len(s)
<1>1. /\ Append(s, p) \in Seq(Pairs) /\ Len(Append(s, p)) = n + 1 /\ n \in Nat
      /\ \A i \in 1 .. n : Append(s, p)[i] = s[i]
      /\ Append(s, p)[n + 1] = p
  BY AppendProperties, LenProperties
<1>2. m \in Tables /\ t \in Tables
  BY <1>1 DEF Tables
<1>3. /\ m.pairs = s /\ t.pairs = Append(s, p)
      /\ DOMAIN m.pairs = 1 .. n /\ DOMAIN t.pairs = 1 .. (n + 1)
  BY <1>1, <1>2, TableTyped DEF MapOf
<1>4. ASSUME NEW j
      PROVE  At(t, j) = At(m, j) \cup (IF KeyEqual(p[1], j) THEN {n + 1} ELSE {})
  BY <1>1, <1>3 DEF At
<1>5. \A j : Has(t, j) <=> Has(m, j) \/ KeyEqual(p[1], j)
  BY <1>4 DEF Has
<1>6. ASSUME NEW j, NEW missing
      PROVE  Lookup(t, j, missing) =
              IF Has(m, j) THEN Lookup(m, j, missing)
              ELSE IF KeyEqual(p[1], j) THEN p[2] ELSE missing
  <2>1. CASE Has(m, j)
    <3>1. FirstAt(m, j) \in 1 .. n /\ FirstAt(m, j) \in At(m, j) /\ \A k \in At(m, j) : FirstAt(m, j) <= k
      BY <1>2, <1>3, <2>1, FirstExists
    <3>2. Has(t, j) /\ FirstAt(t, j) = FirstAt(m, j)
      BY <1>1, <1>2, <1>4, <3>1, FirstPlace
    <3> QED
      BY <1>1, <1>3, <2>1, <3>1, <3>2 DEF Lookup
  <2>2. CASE ~Has(m, j) /\ KeyEqual(p[1], j)
    <3>1. At(t, j) = {n + 1}
      BY <1>4, <2>2 DEF Has
    <3>2. n + 1 \in At(t, j) /\ \A i \in At(t, j) : n + 1 <= i
      BY <1>1, <3>1
    <3>3. Has(t, j) /\ FirstAt(t, j) = n + 1
      BY <1>2, <3>2, FirstPlace
    <3> QED
      BY <1>1, <1>3, <2>2, <3>3 DEF Lookup
  <2>3. CASE ~Has(m, j) /\ ~KeyEqual(p[1], j)
    BY <1>5, <2>3 DEF Lookup
  <2> QED
    BY <2>1, <2>2, <2>3
<1>7. Distinct(t) <=> Distinct(m) /\ ~Has(m, p[1])
  <2>1. Has(m, p[1]) <=> \E i \in 1 .. n : KeyEqual(s[i][1], p[1])
    BY <1>3 DEF Has, At
  <2>2. Distinct(m) <=> \A i, j \in 1 .. n : i < j => ~KeyEqual(s[i][1], s[j][1])
    BY <1>3 DEF Distinct
  <2>3. Distinct(t) <=> \A i, j \in 1 .. (n + 1) : i < j => ~KeyEqual(t.pairs[i][1], t.pairs[j][1])
    BY <1>3 DEF Distinct
  <2>4. \A i \in 1 .. (n + 1) : i # n + 1 => i \in 1 .. n /\ t.pairs[i] = s[i]
    BY <1>1, <1>3
  <2>5. t.pairs[n + 1] = p /\ n + 1 \in 1 .. (n + 1) /\ \A i \in 1 .. n : i \in 1 .. (n + 1) /\ i < n + 1 /\ t.pairs[i] = s[i]
    BY <1>1, <1>3
  <2>6. ASSUME Distinct(t) PROVE Distinct(m) /\ ~Has(m, p[1])
    BY <2>1, <2>2, <2>3, <2>5, <2>6
  <2>7. ASSUME Distinct(m), ~Has(m, p[1]) PROVE Distinct(t)
    <3>1. ASSUME NEW i \in 1 .. (n + 1), NEW j \in 1 .. (n + 1), i < j
          PROVE  ~KeyEqual(t.pairs[i][1], t.pairs[j][1])
      <4>1. i # n + 1
        BY <1>1, <3>1
      <4>2. CASE j = n + 1
        BY <2>1, <2>4, <2>5, <2>7, <4>1, <4>2
      <4>3. CASE j # n + 1
        BY <2>2, <2>4, <2>7, <3>1, <4>1, <4>3
      <4> QED
        BY <4>2, <4>3
    <3> QED
      BY <2>3, <3>1
  <2> QED
    BY <2>6, <2>7
<1> QED
  BY <1>1, <1>2, <1>3, <1>5, <1>6, <1>7

(* t is m with v under k.                                                  *)
Puts(m, k, v, t) ==
  /\ t \in Tables
  /\ Len(t.pairs) = IF Has(m, k) THEN Len(m.pairs) ELSE Len(m.pairs) + 1
  /\ Distinct(m) => Distinct(t)
  /\ \A j \in Items : \A missing :
       Lookup(t, j, missing) = IF KeyEqual(k, j) THEN v ELSE Lookup(m, j, missing)

LEMMA WithPairPuts ==
  ASSUME NEW m \in Tables, NEW k \in Items, NEW v \in Held
  PROVE  Puts(m, k, v, WithPair(m, k, v))
<1> DEFINE s == m.pairs
           t == WithPair(m, k, v)
<1>1. /\ m = MapOf(s) /\ s \in Seq(Pairs) /\ Len(s) \in Nat /\ DOMAIN s = 1 .. Len(s)
      /\ \A i \in 1 .. Len(s) : s[i] \in Pairs /\ s[i][1] \in Items
  BY TableTyped
<1>2. Items \subseteq Held
  BY DEF Held
<1>3. CASE Has(m, k)
  <2> DEFINE n == FirstAt(m, k)
             u == [s EXCEPT ![n] = <<s[n][1], v>>]
  <2>1. n \in 1 .. Len(s) /\ n \in At(m, k) /\ KeyEqual(s[n][1], k) /\ \A j \in At(m, k) : n <= j
    BY <1>1, <1>3, FirstExists
  <2>2. t = MapOf(u)
    BY <1>3 DEF WithPair
  <2>3. /\ u \in Seq(Pairs) /\ Len(u) = Len(s) /\ u[n] = <<s[n][1], v>>
        /\ \A i \in 1 .. Len(s) : i # n => u[i] = s[i]
    <3>1. <<s[n][1], v>> \in Pairs
      BY <1>1, <2>1 DEF Pairs
    <3>2. u \in [1 .. Len(s) -> Pairs] /\ u[n] = <<s[n][1], v>>
          /\ \A i \in 1 .. Len(s) : i # n => u[i] = s[i]
      BY <1>1, <2>1, <3>1
    <3> HIDE DEF u
    <3> QED
      BY <1>1, <3>2, MadeASeq
  <2> HIDE DEF u, n
  <2>4. t \in Tables /\ t.pairs = u /\ DOMAIN u = 1 .. Len(s)
    BY <2>2, <2>3, LenProperties DEF Tables, MapOf
  <2>5. \A i \in 1 .. Len(s) : u[i][1] = s[i][1]
    BY <2>1, <2>3
  <2>6. \A j : At(t, j) = At(m, j)
    BY <1>1, <2>4, <2>5 DEF At
  <2>7. Distinct(m) => Distinct(t)
    BY <1>1, <2>4, <2>5 DEF Distinct
  <2>8. ASSUME NEW j \in Items, NEW missing
        PROVE  Lookup(t, j, missing) = IF KeyEqual(k, j) THEN v ELSE Lookup(m, j, missing)
    <3>1. CASE KeyEqual(k, j)
      <4>1. ASSUME NEW i \in 1 .. Len(s) PROVE KeyEqual(s[i][1], k) <=> KeyEqual(s[i][1], j)
        BY <1>1, <1>2, <3>1, Symmetric, Transitive
      <4>2. At(m, j) = At(m, k)
        BY <1>1, <4>1 DEF At
      <4>3. Has(t, j) /\ FirstAt(t, j) = n
        BY <2>1, <2>4, <2>6, <4>2, FirstPlace
      <4> QED
        BY <2>3, <2>4, <3>1, <4>3 DEF Lookup
    <3>2. CASE ~KeyEqual(k, j) /\ Has(m, j)
      <4>1. FirstAt(m, j) \in 1 .. Len(s) /\ FirstAt(m, j) \in At(m, j)
            /\ KeyEqual(s[FirstAt(m, j)][1], j) /\ \A i \in At(m, j) : FirstAt(m, j) <= i
        BY <1>1, <3>2, FirstExists
      <4>2. FirstAt(m, j) # n
        <5>1. ASSUME FirstAt(m, j) = n PROVE FALSE
          <6>1. KeyEqual(s[n][1], j) /\ KeyEqual(k, s[n][1])
            BY <1>1, <1>2, <2>1, <4>1, <5>1, Symmetric
          <6> QED
            BY <1>1, <1>2, <2>1, <3>2, <6>1, Transitive
        <5> QED
          BY <5>1
      <4>3. Has(t, j) /\ FirstAt(t, j) = FirstAt(m, j)
        BY <2>4, <2>6, <4>1, FirstPlace
      <4> QED
        BY <2>3, <2>4, <3>2, <4>1, <4>2, <4>3 DEF Lookup
    <3>3. CASE ~KeyEqual(k, j) /\ ~Has(m, j)
      BY <2>6, <3>3 DEF Lookup, Has
    <3> QED
      BY <3>1, <3>2, <3>3
  <2> QED
    BY <1>3, <2>3, <2>4, <2>7, <2>8 DEF Puts
<1>4. CASE ~Has(m, k)
  <2>1. t = MapOf(Append(s, <<k, v>>))
    BY <1>4 DEF WithPair
  <2>2. <<k, v>> \in Pairs /\ <<k, v>>[1] = k /\ <<k, v>>[2] = v
    BY DEF Pairs
  <2> HIDE DEF t
  <2>3. /\ t \in Tables /\ Len(t.pairs) = Len(s) + 1
        /\ \A j, missing : Lookup(t, j, missing) =
              IF Has(m, j) THEN Lookup(m, j, missing)
              ELSE IF KeyEqual(k, j) THEN v ELSE missing
        /\ Distinct(t) <=> Distinct(m) /\ ~Has(m, k)
    <3> DEFINE p == <<k, v>>
    <3> HIDE DEF p
    <3>1. p \in Pairs /\ p[1] = k /\ p[2] = v /\ t = MapOf(Append(s, p))
      BY <2>1, <2>2 DEF p
    <3> QED
      BY <1>1, <3>1, AtTheEnd
  <2>4. ASSUME NEW j \in Items, KeyEqual(k, j) PROVE ~Has(m, j)
    <3>1. ASSUME NEW i \in 1 .. Len(s), KeyEqual(s[i][1], j) PROVE FALSE
      <4>1. KeyEqual(j, k)
        BY <1>2, <2>4, Symmetric
      <4>2. KeyEqual(s[i][1], k)
        BY <1>1, <1>2, <3>1, <4>1, Transitive
      <4> QED
        BY <1>1, <1>4, <4>2 DEF Has, At
    <3> QED
      BY <1>1, <3>1 DEF Has, At
  <2>6. ASSUME NEW j \in Items, NEW missing
        PROVE  Lookup(t, j, missing) = IF KeyEqual(k, j) THEN v ELSE Lookup(m, j, missing)
    <3>1. CASE Has(m, j)
      BY <2>3, <2>4, <3>1
    <3>2. CASE ~Has(m, j)
      BY <2>3, <3>2 DEF Lookup
    <3> QED
      BY <3>1, <3>2
  <2> QED
    BY <1>4, <2>3, <2>6 DEF Puts, t
<1> QED
  BY <1>3, <1>4

-----------------------------------------------------------------------------
(* Several pairs, and the keys that are taken out                          *)

(* One pair after the other.                                               *)
PutAll(m, pairs, f) ==
  f = [i \in 0 .. Len(pairs) |->
         IF i = 0 THEN m ELSE WithPair(f[i - 1], pairs[i][1], pairs[i][2])]
CollectAll(m, pairs, f) ==
  f = [i \in 0 .. Len(pairs) |-> IF i = 0 THEN m ELSE AppendPair(f[i - 1], pairs[i])]

(* What is collected under a key stays a value that is held.               *)
LEMMA CollectedTyped ==
  ASSUME NEW m \in Tables, NEW key \in Items
  PROVE  Collected(m, key) \in Seq(Items)
<1> DEFINE cur == Lookup(m, key, Null)
<1>0. Null.tag # "array" /\ IsArr(Null) = FALSE
  BY DEF Null, IsArr
<1>1. cur \in Held \cup {Null}
  <2>1. CASE Has(m, key)
    BY <2>1, FirstExists, TableTyped DEF Lookup
  <2>2. CASE ~Has(m, key)
    BY <2>2 DEF Lookup
  <2> QED
    BY <2>1, <2>2
<1>2. Collected(m, key) = IF cur = Null THEN <<>> ELSE IF IsArr(cur) THEN cur.data ELSE <<cur>>
  BY DEF Collected
<1> HIDE DEF cur
<1>3. CASE cur = Null
  BY <1>2, <1>3, EmptySeq
<1>4. CASE cur # Null /\ IsArr(cur)
  <2>1. CASE cur \in Items
    <3>1. Holder(cur)
      BY <1>4 DEF Holder, IsArr
    <3>2. cur.data \in Seq(Items)
      BY <2>1, <3>1, ItemsClosed DEF Closed
    <3> QED
      BY <1>2, <1>4, <3>2
  <2>2. CASE cur \in {VecOf(s) : s \in Seq(Items)}
    <3>1. PICK s \in Seq(Items) : cur = VecOf(s)
      BY <2>2
    <3>2. cur.data = s
      BY <3>1 DEF VecOf, Arr, Labelled
    <3> QED
      BY <1>2, <1>4, <3>2
  <2> QED
    BY <1>1, <1>4, <2>1, <2>2 DEF Held
<1>5. CASE cur # Null /\ ~IsArr(cur)
  <2>1. \A s : IsArr(VecOf(s))
    BY DEF IsArr, VecOf, Arr, Labelled
  <2>2. cur \in Items
    BY <1>1, <1>5, <2>1 DEF Held
  <2>3. <<cur>> \in Seq(Items)
    BY <2>2
  <2> QED
    BY <1>2, <1>5, <2>3
<1> QED
  BY <1>3, <1>4, <1>5

LEMMA AppendPairPuts ==
  ASSUME NEW m \in Tables, NEW p \in Items \X Items
  PROVE  Puts(m, p[1], VecOf(Append(Collected(m, p[1]), p[2])), AppendPair(m, p))
<1>1. p[1] \in Items /\ p[2] \in Items
  OBVIOUS
<1>2. Append(Collected(m, p[1]), p[2]) \in Seq(Items)
  BY <1>1, CollectedTyped, AppendProperties
<1>3. VecOf(Append(Collected(m, p[1]), p[2])) \in Held
  BY <1>2 DEF Held
<1> QED
  BY <1>1, <1>3, WithPairPuts DEF AppendPair

(* What the statements with several pairs leave: a map, with equal keys    *)
(* in it only if there were some.                                          *)
Kept(m, t) == t \in Tables /\ (Distinct(m) => Distinct(t))

LEMMA ChainKept ==
  ASSUME NEW m \in Tables, NEW pairs \in Seq(Items \X Items), NEW f,
         f[0] = m,
         \A i \in 1 .. Len(pairs) : f[i - 1] \in Tables => Kept(f[i - 1], f[i])
  PROVE  Kept(m, f[Len(pairs)])
<1> DEFINE Fine == {i \in 0 .. Len(pairs) : Kept(m, f[i])}
<1>0. Len(pairs) \in Nat
  BY LenProperties
<1>1. 0 \in Fine
  BY <1>0 DEF Kept
<1>2. ASSUME NEW i \in 0 .. Len(pairs), i \in Fine /\ i + 1 <= Len(pairs)
      PROVE  i + 1 \in Fine
  <2>1. i + 1 \in 1 .. Len(pairs) /\ i + 1 \in 0 .. Len(pairs) /\ (i + 1) - 1 = i
    BY <1>0, <1>2
  <2>2. Kept(f[i], f[i + 1])
    <3>1. f[(i + 1) - 1] \in Tables
      BY <1>2, <2>1 DEF Kept
    <3>2. Kept(f[(i + 1) - 1], f[i + 1])
      BY <2>1, <3>1
    <3> QED
      BY <2>1, <3>2
  <2> QED
    BY <1>2, <2>1, <2>2 DEF Kept
<1>3. Len(pairs) \in Fine
  <2> HIDE DEF Fine
  <2>1. \A i \in 0 .. Len(pairs) : i \in Fine
    BY <1>0, <1>1, <1>2, InductionUpTo
  <2> QED
    BY <1>0, <2>1
<1> QED
  BY <1>3

(* The steps of a chain of either kind.                                    *)
LEMMA PutAllExists ==
  ASSUME NEW m \in Tables, NEW pairs \in Seq(Items \X Items)
  PROVE  \E f : PutAll(m, pairs, f)
<1> DEFINE A == Items \X Items
           G == [q \in Tables \X A |-> WithPair(q[1], q[2][1], q[2][2])]
<1>1. ASSUME NEW t \in Tables, NEW p \in A PROVE WithPair(t, p[1], p[2]) \in Tables
  <2>1. p[1] \in Items /\ p[2] \in Held
    BY DEF Held
  <2> QED
    BY <2>1, WithPairPuts DEF Puts
<1>2. G \in [Tables \X A -> Tables] /\ \A t \in Tables, p \in A : G[<<t, p>>] = WithPair(t, p[1], p[2])
  BY <1>1
<1> HIDE DEF G
<1>3. pairs \in Seq(A) /\ Len(pairs) \in Nat /\ \A i \in 1 .. Len(pairs) : pairs[i] \in A
  BY LenProperties, ElementOfSeq
<1> HIDE DEF A
<1>4. PICK f : Follows(pairs, Tables, m, G, f)
  BY <1>2, <1>3, RecursionExists
<1>5. /\ f \in [0 .. Len(pairs) -> Tables] /\ f[0] = m
      /\ \A i \in 1 .. Len(pairs) : f[i] = G[<<f[i - 1], pairs[i]>>]
  BY <1>4 DEF Follows
<1>6. ASSUME NEW i \in 1 .. Len(pairs) PROVE f[i] = WithPair(f[i - 1], pairs[i][1], pairs[i][2])
  <2>1. i - 1 \in 0 .. Len(pairs)
    BY <1>3
  <2>2. f[i - 1] \in Tables /\ pairs[i] \in A
    BY <1>3, <1>5, <2>1
  <2> QED
    BY <1>2, <1>5, <2>2
<1>7. f = [i \in 0 .. Len(pairs) |->
             IF i = 0 THEN m ELSE WithPair(f[i - 1], pairs[i][1], pairs[i][2])]
  BY <1>3, <1>5, <1>6
<1> QED
  BY <1>7 DEF PutAll

LEMMA CollectAllExists ==
  ASSUME NEW m \in Tables, NEW pairs \in Seq(Items \X Items)
  PROVE  \E f : CollectAll(m, pairs, f)
<1> DEFINE A == Items \X Items
           G == [q \in Tables \X A |-> AppendPair(q[1], q[2])]
<1>1. ASSUME NEW t \in Tables, NEW p \in A PROVE AppendPair(t, p) \in Tables
  BY AppendPairPuts DEF Puts
<1>2. G \in [Tables \X A -> Tables] /\ \A t \in Tables, p \in A : G[<<t, p>>] = AppendPair(t, p)
  BY <1>1
<1> HIDE DEF G
<1>3. pairs \in Seq(A) /\ Len(pairs) \in Nat /\ \A i \in 1 .. Len(pairs) : pairs[i] \in A
  BY LenProperties, ElementOfSeq
<1> HIDE DEF A
<1>4. PICK f : Follows(pairs, Tables, m, G, f)
  BY <1>2, <1>3, RecursionExists
<1>5. /\ f \in [0 .. Len(pairs) -> Tables] /\ f[0] = m
      /\ \A i \in 1 .. Len(pairs) : f[i] = G[<<f[i - 1], pairs[i]>>]
  BY <1>4 DEF Follows
<1>6. ASSUME NEW i \in 1 .. Len(pairs) PROVE f[i] = AppendPair(f[i - 1], pairs[i])
  <2>1. i - 1 \in 0 .. Len(pairs)
    BY <1>3
  <2>2. f[i - 1] \in Tables /\ pairs[i] \in A
    BY <1>3, <1>5, <2>1
  <2> QED
    BY <1>2, <1>5, <2>2
<1>7. f = [i \in 0 .. Len(pairs) |-> IF i = 0 THEN m ELSE AppendPair(f[i - 1], pairs[i])]
  BY <1>3, <1>5, <1>6
<1> QED
  BY <1>7 DEF CollectAll

(* All pairs are put in, the first before the second.                      *)
LEMMA WithPairsSteps ==
  ASSUME NEW m \in Tables, NEW pairs \in Seq(Items \X Items)
  PROVE  /\ Kept(m, WithPairs(m, pairs))
         /\ Len(pairs) = 1 => WithPairs(m, pairs) = WithPair(m, pairs[1][1], pairs[1][2])
         /\ Len(pairs) = 2 => WithPairs(m, pairs) =
              WithPair(WithPair(m, pairs[1][1], pairs[1][2]), pairs[2][1], pairs[2][2])
<1> DEFINE after == CHOOSE f : PutAll(m, pairs, f)
<1>1. PutAll(m, pairs, after)
  BY PutAllExists
<1>2. WithPairs(m, pairs) = after[Len(pairs)]
  BY DEF WithPairs, PutAll
<1> HIDE DEF after
<1>3. Len(pairs) \in Nat /\ \A i \in 1 .. Len(pairs) : pairs[i][1] \in Items /\ pairs[i][2] \in Held
  BY LenProperties, ElementOfSeq DEF Held
<1>4. after[0] = m /\ \A i \in 0 .. Len(pairs) : i # 0 => after[i] = WithPair(after[i - 1], pairs[i][1], pairs[i][2])
  <2>1. after = [i \in 0 .. Len(pairs) |->
                  IF i = 0 THEN m ELSE WithPair(after[i - 1], pairs[i][1], pairs[i][2])]
    BY <1>1 DEF PutAll
  <2>2. 0 \in 0 .. Len(pairs)
    BY <1>3
  <2>3. after[0] = m
    BY <2>1, <2>2, Zenon
  <2>4. ASSUME NEW i \in 0 .. Len(pairs), i # 0
        PROVE  after[i] = WithPair(after[i - 1], pairs[i][1], pairs[i][2])
    BY <2>1, <2>4, Zenon
  <2> QED
    BY <2>3, <2>4
<1>5. \A i \in 1 .. Len(pairs) : after[i] = WithPair(after[i - 1], pairs[i][1], pairs[i][2])
  BY <1>3, <1>4
<1>6. \A i \in 1 .. Len(pairs) : after[i - 1] \in Tables => Kept(after[i - 1], after[i])
  <2>1. ASSUME NEW i \in 1 .. Len(pairs), after[i - 1] \in Tables
        PROVE  Kept(after[i - 1], after[i])
    BY <1>3, <1>5, <2>1, WithPairPuts DEF Puts, Kept
  <2> QED
    BY <2>1
<1>7. Kept(m, after[Len(pairs)])
  BY <1>4, <1>6, ChainKept
<1>8. ASSUME Len(pairs) = 1 PROVE after[1] = WithPair(m, pairs[1][1], pairs[1][2])
  <2>1. 1 \in 1 .. Len(pairs) /\ 1 - 1 = 0
    BY <1>8
  <2> QED
    BY <1>4, <1>5, <2>1
<1>9. ASSUME Len(pairs) = 2
      PROVE  after[2] = WithPair(WithPair(m, pairs[1][1], pairs[1][2]), pairs[2][1], pairs[2][2])
  <2>1. 1 \in 1 .. Len(pairs) /\ 2 \in 1 .. Len(pairs) /\ 1 - 1 = 0 /\ 2 - 1 = 1
    BY <1>9
  <2> QED
    BY <1>4, <1>5, <2>1
<1> QED
  BY <1>2, <1>7, <1>8, <1>9

(* The same for what append does.                                          *)
AllCollected(m, pairs) ==
  LET after[i \in 0 .. Len(pairs)] == IF i = 0 THEN m ELSE AppendPair(after[i - 1], pairs[i])
  IN  after[Len(pairs)]

LEMMA AllCollectedSteps ==
  ASSUME NEW m \in Tables, NEW pairs \in Seq(Items \X Items)
  PROVE  /\ Kept(m, AllCollected(m, pairs))
         /\ Len(pairs) = 1 => AllCollected(m, pairs) = AppendPair(m, pairs[1])
<1> DEFINE after == CHOOSE f : CollectAll(m, pairs, f)
<1>1. CollectAll(m, pairs, after)
  BY CollectAllExists
<1>2. AllCollected(m, pairs) = after[Len(pairs)]
  BY DEF AllCollected, CollectAll
<1> HIDE DEF after
<1>3. Len(pairs) \in Nat /\ \A i \in 1 .. Len(pairs) : pairs[i] \in Items \X Items
  BY LenProperties, ElementOfSeq
<1>4. after[0] = m /\ \A i \in 0 .. Len(pairs) : i # 0 => after[i] = AppendPair(after[i - 1], pairs[i])
  BY <1>1, <1>3 DEF CollectAll
<1>5. \A i \in 1 .. Len(pairs) : after[i] = AppendPair(after[i - 1], pairs[i])
  BY <1>3, <1>4
<1>6. \A i \in 1 .. Len(pairs) : after[i - 1] \in Tables => Kept(after[i - 1], after[i])
  <2>1. ASSUME NEW i \in 1 .. Len(pairs), after[i - 1] \in Tables
        PROVE  Kept(after[i - 1], after[i])
    BY <1>3, <1>5, <2>1, AppendPairPuts DEF Puts, Kept
  <2> QED
    BY <2>1
<1>7. Kept(m, after[Len(pairs)])
  BY <1>4, <1>6, ChainKept
<1>8. ASSUME Len(pairs) = 1 PROVE after[1] = AppendPair(m, pairs[1])
  <2>1. 1 \in 1 .. Len(pairs) /\ 1 - 1 = 0
    BY <1>8
  <2> QED
    BY <1>4, <1>5, <2>1
<1> QED
  BY <1>2, <1>7, <1>8

(* The key is among those that are taken out.                              *)
Gone(keys, j) == \E i \in DOMAIN keys : KeyEqual(j, keys[i])
Going(m, keys) == {i \in DOMAIN m.pairs : Gone(keys, m.pairs[i][1])}
(* t is what is left of m without them.                                    *)
Missed(m, keys, t) ==
  /\ \A j \in Items : Gone(keys, j) => ~Has(t, j)
  /\ \A j \in Items : ~Gone(keys, j) =>
       /\ Has(t, j) <=> Has(m, j)
       /\ \A missing : Lookup(t, j, missing) = Lookup(m, j, missing)
Fewer(m, keys, t) ==
  /\ Going(m, keys) = {} => Len(t.pairs) = Len(m.pairs)
  /\ \A g : Going(m, keys) = {g} => Len(t.pairs) + 1 = Len(m.pairs)
TakenOut(m, keys, t) == Kept(m, t) /\ Missed(m, keys, t) /\ Fewer(m, keys, t)

LEMMA GoneAlike ==
  ASSUME NEW keys \in Seq(Items), NEW j \in Items, NEW k \in Items, KeyEqual(j, k)
  PROVE  Gone(keys, j) <=> Gone(keys, k)
<1>1. Items \subseteq Held /\ \A i \in DOMAIN keys : keys[i] \in Items
  BY LenProperties, ElementOfSeq DEF Held
<1>2. \A i \in DOMAIN keys : KeyEqual(j, keys[i]) <=> KeyEqual(k, keys[i])
  BY <1>1, Symmetric, Transitive
<1> QED
  BY <1>2 DEF Gone

(* One pair more.                                                          *)
LEMMA TakenOutMore ==
  ASSUME NEW keys \in Seq(Items), NEW m \in Tables, NEW t \in Tables, NEW p \in Pairs,
         TakenOut(m, keys, t)
  PROVE  /\ Gone(keys, p[1]) => TakenOut(MapOf(Append(m.pairs, p)), keys, t)
         /\ ~Gone(keys, p[1]) =>
              TakenOut(MapOf(Append(m.pairs, p)), keys, MapOf(Append(t.pairs, p)))
<1> DEFINE M == MapOf(Append(m.pairs, p))
           T == MapOf(Append(t.pairs, p))
           n == Len(m.pairs)
<1>0. p[1] \in Items /\ p[2] \in Held
  BY DEF Pairs
<1>1. /\ m = MapOf(m.pairs) /\ m.pairs \in Seq(Pairs) /\ n \in Nat /\ DOMAIN m.pairs = 1 .. n
      /\ t = MapOf(t.pairs) /\ t.pairs \in Seq(Pairs) /\ Len(t.pairs) \in Nat
  BY TableTyped
<1>2. /\ M \in Tables /\ Len(M.pairs) = n + 1
      /\ \A j : Has(M, j) <=> Has(m, j) \/ KeyEqual(p[1], j)
      /\ \A j, missing : Lookup(M, j, missing) =
           IF Has(m, j) THEN Lookup(m, j, missing)
           ELSE IF KeyEqual(p[1], j) THEN p[2] ELSE missing
      /\ Distinct(M) <=> Distinct(m) /\ ~Has(m, p[1])
  BY <1>1, AtTheEnd
<1>3. /\ T \in Tables /\ Len(T.pairs) = Len(t.pairs) + 1
      /\ \A j : Has(T, j) <=> Has(t, j) \/ KeyEqual(p[1], j)
      /\ \A j, missing : Lookup(T, j, missing) =
           IF Has(t, j) THEN Lookup(t, j, missing)
           ELSE IF KeyEqual(p[1], j) THEN p[2] ELSE missing
      /\ Distinct(T) <=> Distinct(t) /\ ~Has(t, p[1])
  BY <1>1, AtTheEnd
<1>4. /\ DOMAIN M.pairs = 1 .. (n + 1) /\ M.pairs[n + 1] = p
      /\ \A i \in 1 .. n : M.pairs[i] = m.pairs[i]
  BY <1>1, AppendProperties, LenProperties DEF MapOf
<1>5. Going(M, keys) = Going(m, keys) \cup (IF Gone(keys, p[1]) THEN {n + 1} ELSE {})
  BY <1>1, <1>4 DEF Going
<1>6. n + 1 \notin Going(m, keys)
  BY <1>1 DEF Going
<1> HIDE DEF M, T, n
<1>7. CASE Gone(keys, p[1])
  <2>1. Kept(M, t)
    BY <1>2 DEF TakenOut, Kept
  <2>2. \A j \in Items : ~Gone(keys, j) => ~KeyEqual(p[1], j)
    BY <1>0, <1>7, GoneAlike
  <2>3. \A j \in Items : Gone(keys, j) => ~Has(t, j)
    BY DEF TakenOut, Missed
  <2>4. ASSUME NEW j \in Items, ~Gone(keys, j)
        PROVE  /\ Has(t, j) <=> Has(M, j)
               /\ \A missing : Lookup(t, j, missing) = Lookup(M, j, missing)
    <3>1. /\ Has(t, j) <=> Has(m, j)
          /\ \A missing : Lookup(t, j, missing) = Lookup(m, j, missing)
      BY <2>4 DEF TakenOut, Missed
    <3>2. ~KeyEqual(p[1], j)
      BY <2>2, <2>4
    <3>3. \A missing : Lookup(M, j, missing) = Lookup(m, j, missing)
      BY <1>2, <3>2 DEF Lookup
    <3> QED
      BY <1>2, <3>1, <3>2, <3>3
  <2>5. Missed(M, keys, t)
    BY <2>3, <2>4 DEF Missed
  <2>6. Fewer(M, keys, t)
    <3>1. Going(M, keys) = Going(m, keys) \cup {n + 1}
      BY <1>5, <1>7
    <3>2. ASSUME NEW g, Going(M, keys) = {g} PROVE Len(t.pairs) + 1 = Len(M.pairs)
      <4>1. Going(m, keys) = {}
        BY <1>6, <3>1, <3>2
      <4>2. Len(t.pairs) = Len(m.pairs)
        BY <4>1 DEF TakenOut, Fewer
      <4> QED
        BY <1>1, <1>2, <4>2 DEF n
    <3> QED
      BY <3>1, <3>2 DEF Fewer
  <2> QED
    BY <1>7, <2>1, <2>5, <2>6 DEF TakenOut, M
<1>8. CASE ~Gone(keys, p[1])
  <2>0. Has(t, p[1]) <=> Has(m, p[1])
    BY <1>0, <1>8 DEF TakenOut, Missed
  <2>1. Kept(M, T)
    BY <1>2, <1>3, <2>0 DEF TakenOut, Kept
  <2>2. \A j \in Items : Gone(keys, j) => ~KeyEqual(p[1], j)
    BY <1>0, <1>8, GoneAlike
  <2>3. \A j \in Items : Gone(keys, j) => ~Has(T, j)
    BY <1>3, <2>2 DEF TakenOut, Missed
  <2>4. ASSUME NEW j \in Items, ~Gone(keys, j)
        PROVE  /\ Has(T, j) <=> Has(M, j)
               /\ \A missing : Lookup(T, j, missing) = Lookup(M, j, missing)
    <3>1. /\ Has(t, j) <=> Has(m, j)
          /\ \A missing : Lookup(t, j, missing) = Lookup(m, j, missing)
      BY <2>4 DEF TakenOut, Missed
    <3>2. \A missing : Lookup(T, j, missing) = Lookup(M, j, missing)
      BY <1>2, <1>3, <3>1
    <3> QED
      BY <1>2, <1>3, <3>1, <3>2
  <2>5. Missed(M, keys, T)
    BY <2>3, <2>4 DEF Missed
  <2>6. Fewer(M, keys, T)
    <3>1. Going(M, keys) = Going(m, keys)
      BY <1>5, <1>8
    <3>2. Fewer(m, keys, t)
      BY DEF TakenOut
    <3> QED
      BY <1>1, <1>2, <1>3, <3>1, <3>2 DEF Fewer, n
  <2> QED
    BY <1>8, <2>1, <2>5, <2>6 DEF TakenOut, M, T
<1> QED
  BY <1>7, <1>8

(* WithoutKeys runs along the pairs.                                       *)
Sifts(s, keys, f) ==
  f = [i \in 0 .. Len(s) |->
         IF i = 0 THEN <<>>
         ELSE IF Gone(keys, s[i][1]) THEN f[i - 1] ELSE Append(f[i - 1], s[i])]

LEMMA SiftsExist ==
  ASSUME NEW s \in Seq(Pairs), NEW keys
  PROVE  \E f : Sifts(s, keys, f)
<1> DEFINE V == Seq(Pairs)
           G == [q \in V \X Pairs |-> IF Gone(keys, q[2][1]) THEN q[1] ELSE Append(q[1], q[2])]
<1>1. \A r \in V, p \in Pairs : Append(r, p) \in V
  BY AppendProperties
<1>2. <<>> \in V
  BY EmptySeq
<1> HIDE DEF V
<1>3. /\ G \in [V \X Pairs -> V]
      /\ \A r \in V, p \in Pairs : G[<<r, p>>] = IF Gone(keys, p[1]) THEN r ELSE Append(r, p)
  BY <1>1
<1> HIDE DEF G
<1>4. Len(s) \in Nat /\ \A i \in 1 .. Len(s) : s[i] \in Pairs
  BY LenProperties, ElementOfSeq
<1>5. PICK f : Follows(s, V, <<>>, G, f)
  BY <1>2, <1>3, RecursionExists
<1>6. /\ f \in [0 .. Len(s) -> V] /\ f[0] = <<>>
      /\ \A i \in 1 .. Len(s) : f[i] = G[<<f[i - 1], s[i]>>]
  BY <1>5 DEF Follows
<1>7. ASSUME NEW i \in 1 .. Len(s)
      PROVE  f[i] = IF Gone(keys, s[i][1]) THEN f[i - 1] ELSE Append(f[i - 1], s[i])
  <2>1. i - 1 \in 0 .. Len(s)
    BY <1>4
  <2>2. f[i - 1] \in V /\ s[i] \in Pairs
    BY <1>4, <1>6, <2>1
  <2> QED
    BY <1>3, <1>6, <2>2
<1> DEFINE at(i) == IF i = 0 THEN <<>>
                    ELSE IF Gone(keys, s[i][1]) THEN f[i - 1] ELSE Append(f[i - 1], s[i])
<1>8. f = [i \in 0 .. Len(s) |-> at(i)]
  <2>1. at(0) = f[0]
    BY <1>6
  <2>2. \A i \in 1 .. Len(s) : at(i) = f[i]
    BY <1>4, <1>7
  <2> HIDE DEF at
  <2>3. \A i \in 0 .. Len(s) : at(i) = f[i]
    BY <1>4, <2>1, <2>2
  <2> QED
    BY <1>6, <2>3
<1> QED
  BY <1>8 DEF Sifts

LEMMA WithoutKeysTakesOut ==
  ASSUME NEW m \in Tables, NEW keys \in Seq(Items)
  PROVE  TakenOut(m, keys, WithoutKeys(m, keys))
<1> DEFINE s == m.pairs
           kept == CHOOSE f : Sifts(s, keys, f)
<1>1. Sifts(s, keys, kept)
  BY SiftsExist, TableTyped
<1>2. WithoutKeys(m, keys) = MapOf(kept[Len(s)])
  BY DEF WithoutKeys, Sifts, Gone
<1> HIDE DEF kept
<1>3. m = MapOf(s) /\ s \in Seq(Pairs) /\ Len(s) \in Nat /\ \A i \in 1 .. Len(s) : s[i] \in Pairs
  BY TableTyped
<1> HIDE DEF s
<1>4. /\ kept[0] = <<>>
      /\ \A i \in 0 .. Len(s) : i # 0 =>
           kept[i] = IF Gone(keys, s[i][1]) THEN kept[i - 1] ELSE Append(kept[i - 1], s[i])
  <2>1. kept = [i \in 0 .. Len(s) |->
                 IF i = 0 THEN <<>>
                 ELSE IF Gone(keys, s[i][1]) THEN kept[i - 1] ELSE Append(kept[i - 1], s[i])]
    BY <1>1 DEF Sifts
  <2>2. 0 \in 0 .. Len(s)
    BY <1>3
  <2>3. kept[0] = <<>>
    BY <2>1, <2>2, Zenon
  <2>4. ASSUME NEW i \in 0 .. Len(s), i # 0
        PROVE  kept[i] = IF Gone(keys, s[i][1]) THEN kept[i - 1] ELSE Append(kept[i - 1], s[i])
    BY <2>1, <2>4, Zenon
  <2> QED
    BY <2>3, <2>4
<1> DEFINE Done == {i \in 0 .. Len(s) :
                      /\ kept[i] \in Seq(Pairs)
                      /\ TakenOut(MapOf(FirstOf(s, i)), keys, MapOf(kept[i]))}
<1>5. 0 \in Done
  <2>1. FirstOf(s, 0) = <<>> /\ <<>> \in Seq(Pairs)
    BY <1>3, FirstOfEnds, EmptySeq
  <2> DEFINE e == MapOf(<<>>)
  <2>2. e \in Tables /\ e.pairs = <<>> /\ DOMAIN e.pairs = {}
    <3>1. e \in Tables
      BY <2>1 DEF Tables
    <3>2. e.pairs = <<>>
      BY DEF MapOf
    <3>3. Len(<<>>) = 0
      OBVIOUS
    <3>4. DOMAIN e.pairs = 1 .. 0
      BY <3>1, <3>2, <3>3, TableTyped
    <3> QED
      BY <3>1, <3>2, <3>4
  <2> HIDE DEF e
  <2>3. Kept(e, e)
    BY <2>2 DEF Kept
  <2>4. \A j : ~Has(e, j)
    BY <2>2 DEF Has, At
  <2>5. Missed(e, keys, e)
    BY <2>4 DEF Missed
  <2>6. Going(e, keys) = {}
    BY <2>2 DEF Going
  <2>7. Fewer(e, keys, e)
    BY <2>6 DEF Fewer
  <2>8. TakenOut(MapOf(FirstOf(s, 0)), keys, MapOf(kept[0]))
    BY <1>4, <2>1, <2>3, <2>5, <2>7 DEF TakenOut, e
  <2>9. kept[0] \in Seq(Pairs)
    BY <1>4, <2>1, Zenon
  <2>10. 0 \in 0 .. Len(s)
    BY <1>3
  <2> QED
    BY <2>8, <2>9, <2>10, Zenon
<1>6. ASSUME NEW i \in 0 .. Len(s), i \in Done /\ i + 1 <= Len(s)
      PROVE  i + 1 \in Done
  <2>1. i + 1 \in 0 .. Len(s) /\ i + 1 \in 1 .. Len(s) /\ i + 1 # 0 /\ (i + 1) - 1 = i
        /\ i \in 0 .. (Len(s) - 1)
    BY <1>3, <1>6
  <2>2. FirstOf(s, i) \in Seq(Pairs) /\ FirstOf(s, i + 1) = Append(FirstOf(s, i), s[i + 1])
        /\ s[i + 1] \in Pairs
    BY <1>3, <2>1, FirstOfTyped, FirstOfNext
  <2>3. kept[i] \in Seq(Pairs) /\ TakenOut(MapOf(FirstOf(s, i)), keys, MapOf(kept[i]))
    BY <1>6
  <2> DEFINE a == MapOf(FirstOf(s, i))
             b == MapOf(kept[i])
             p == s[i + 1]
  <2>4. a \in Tables /\ b \in Tables /\ a.pairs = FirstOf(s, i) /\ b.pairs = kept[i]
    BY <2>2, <2>3 DEF Tables, MapOf
  <2>5. kept[i + 1] = IF Gone(keys, p[1]) THEN kept[i] ELSE Append(kept[i], p)
    BY <1>4, <2>1
  <2>6. TakenOut(a, keys, b) /\ p \in Pairs
    BY <2>2, <2>3
  <2>7. MapOf(FirstOf(s, i + 1)) = MapOf(Append(a.pairs, p))
    BY <2>2, <2>4
  <2> HIDE DEF a, b, p
  <2>8. /\ Gone(keys, p[1]) => TakenOut(MapOf(Append(a.pairs, p)), keys, b)
        /\ ~Gone(keys, p[1]) => TakenOut(MapOf(Append(a.pairs, p)), keys, MapOf(Append(b.pairs, p)))
    BY <2>4, <2>6, TakenOutMore
  <2>9. TakenOut(MapOf(FirstOf(s, i + 1)), keys, MapOf(kept[i + 1]))
    BY <2>4, <2>5, <2>7, <2>8 DEF b
  <2>10. kept[i + 1] \in Seq(Pairs)
    BY <2>3, <2>5, <2>6, AppendProperties
  <2> QED
    BY <2>1, <2>9, <2>10
<1>7. Len(s) \in Done
  <2> HIDE DEF Done
  <2>1. \A i \in 0 .. Len(s) : i \in Done
    BY <1>3, <1>5, <1>6, InductionUpTo
  <2> QED
    BY <1>3, <2>1
<1>8. FirstOf(s, Len(s)) = s
  BY <1>3, FirstOfEnds
<1> QED
  BY <1>2, <1>3, <1>7, <1>8 DEF s

-----------------------------------------------------------------------------
(* Pairs written as an array                                               *)

LEMMA OpenedTyped ==
  ASSUME NEW e \in Items
  PROVE  Opened(e) \in Items
<1>1. CASE IsBox(e) /\ e.data # <<>>
  <2>1. e.data \in Seq(Items)
    BY <1>1, ItemsClosed DEF Closed, Holder, IsBox, IsArr
  <2>2. 1 \in 1 .. Len(e.data)
    BY <1>1, <2>1, EmptySeq, LenProperties
  <2>3. e.data[1] \in Items
    BY <2>1, <2>2, ElementOfSeq
  <2> QED
    BY <1>1, <2>3 DEF Opened
<1>2. CASE ~(IsBox(e) /\ e.data # <<>>)
  BY <1>2 DEF Opened
<1> QED
  BY <1>1, <1>2

(* The elements of ToArray: keys at the odd places, values at the even.    *)
InRows(S, s, a) ==
  /\ IsArr(a) /\ a.dims = <<Len(s), 2>> /\ a.data \in Seq(S) /\ Len(a.data) = 2 * Len(s)
  /\ \A i \in 1 .. Len(s) : a.data[2 * i - 1] = s[i][1] /\ a.data[2 * i] = s[i][2]

LEMMA ToArrayElements ==
  ASSUME NEW S, NEW s \in Seq(S \X S)
  PROVE  InRows(S, s, ToArray(MapOf(s)))
<1> DEFINE n == Len(s)
           a == ToArray(MapOf(s))
           f == [i \in 1 .. (2 * n) |-> s[(i + 1) \div 2][IF i % 2 = 1 THEN 1 ELSE 2]]
<1>1. n \in Nat /\ \A i \in 1 .. n : s[i] \in S \X S /\ s[i][1] \in S /\ s[i][2] \in S
  BY LenProperties, ElementOfSeq
<1>2. IsArr(a) /\ a.dims = <<n, 2>> /\ a.data = f
  BY DEF ToArray, MapOf, Arr, Labelled, IsArr
<1>3. ASSUME NEW i \in 1 .. n
      PROVE  /\ 2 * i - 1 \in 1 .. (2 * n) /\ (2 * i - 1) % 2 = 1 /\ ((2 * i - 1) + 1) \div 2 = i
             /\ 2 * i \in 1 .. (2 * n) /\ (2 * i) % 2 = 0 /\ (2 * i + 1) \div 2 = i
  BY <1>1
<1>4. ASSUME NEW i \in 1 .. n
      PROVE  f[2 * i - 1] = s[i][1] /\ f[2 * i] = s[i][2]
  BY <1>3
<1>5. ASSUME NEW i \in 1 .. (2 * n) PROVE f[i] \in S
  <2>1. (i + 1) \div 2 \in 1 .. n
    BY <1>1
  <2>2. CASE i % 2 = 1
    BY <1>1, <2>1, <2>2
  <2>3. CASE i % 2 # 1
    BY <1>1, <2>1, <2>3
  <2> QED
    BY <2>2, <2>3
<1>6. f \in [1 .. (2 * n) -> S] /\ 2 * n \in Nat
  BY <1>1, <1>5
<1> HIDE DEF f, n, a
<1>7. f \in Seq(S) /\ Len(f) = 2 * n
  BY <1>6, MadeASeq
<1>8. InRows(S, s, a)
  BY <1>2, <1>4, <1>7 DEF n, InRows
<1> QED
  BY <1>8 DEF a

OpenedPair(p) == <<Opened(p[1]), Opened(p[2])>>

LEMMA ArgumentPairs ==
  ASSUME NEW S, NEW s \in Seq(S \X S), NEW rows \in BOOLEAN
  PROVE  PairsFrom(Argument(s, rows)) =
           [ok |-> TRUE, pairs |-> [i \in 1 .. Len(s) |-> OpenedPair(s[i])]]
<1> DEFINE n == Len(s)
           a == ToArray(MapOf(s))
           g == Argument(s, rows)
<1>1. n \in Nat
  BY LenProperties
<1>2. /\ IsArr(a) /\ a.dims = <<n, 2>> /\ a.data \in Seq(S) /\ Len(a.data) = 2 * n
      /\ \A i \in 1 .. n : a.data[2 * i - 1] = s[i][1] /\ a.data[2 * i] = s[i][2]
  <2>1. InRows(S, s, a)
    BY ToArrayElements
  <2> HIDE DEF a
  <2> QED
    BY <2>1 DEF InRows
<1>3. /\ IsArr(g) /\ g.data = a.data
      /\ g.dims = IF rows THEN <<n, 2>> ELSE <<2 * n>>
  BY <1>2 DEF Argument, VecOf, Arr, Labelled, IsArr
<1> HIDE DEF g, a, n
<1>4. Len(g.data) \div 2 = n /\ (2 * n) % 2 = 0
  <2>1. (2 * n) \div 2 = n /\ (2 * n) % 2 = 0
    BY <1>1
  <2> QED
    BY <1>2, <1>3, <2>1
<1>5. \/ Len(g.dims) = 1 /\ g.dims[1] % 2 = 0
      \/ Len(g.dims) = 2 /\ g.dims[2] = 2
  BY <1>1, <1>3, <1>4
<1>6. PairsFrom(g) = [ok |-> TRUE, pairs |-> [i \in 1 .. n |-> <<Opened(g.data[2 * i - 1]), Opened(g.data[2 * i])>>]]
  BY <1>3, <1>4, <1>5 DEF PairsFrom
<1>7. \A i \in 1 .. n : <<Opened(g.data[2 * i - 1]), Opened(g.data[2 * i])>> = OpenedPair(s[i])
  BY <1>2, <1>3 DEF OpenedPair
<1>8. [i \in 1 .. n |-> <<Opened(g.data[2 * i - 1]), Opened(g.data[2 * i])>>] = [i \in 1 .. n |-> OpenedPair(s[i])]
  BY <1>7
<1> QED
  BY <1>6, <1>8 DEF g, n

(* The pairs a program writes.                                             *)
LEMMA WrittenPairs ==
  ASSUME NEW s \in Seq(Items \X Items), NEW rows \in BOOLEAN
  PROVE  /\ PairsFrom(Argument(s, rows)).ok
         /\ PairsFrom(Argument(s, rows)).pairs \in Seq(Items \X Items)
         /\ Len(PairsFrom(Argument(s, rows)).pairs) = Len(s)
         /\ \A i \in 1 .. Len(s) : PairsFrom(Argument(s, rows)).pairs[i] = OpenedPair(s[i])
<1> DEFINE f == [i \in 1 .. Len(s) |-> OpenedPair(s[i])]
<1>1. PairsFrom(Argument(s, rows)) = [ok |-> TRUE, pairs |-> f]
  BY ArgumentPairs
<1>2. Len(s) \in Nat /\ \A i \in 1 .. Len(s) : s[i][1] \in Items /\ s[i][2] \in Items
  BY LenProperties, ElementOfSeq
<1>3. f \in [1 .. Len(s) -> Items \X Items] /\ \A i \in 1 .. Len(s) : f[i] = OpenedPair(s[i])
  BY <1>2, OpenedTyped DEF OpenedPair
<1> HIDE DEF f
<1>4. f \in Seq(Items \X Items) /\ Len(f) = Len(s)
  BY <1>2, <1>3, MadeASeq
<1> QED
  BY <1>1, <1>3, <1>4

LEMMA TwoInAVector ==
  ASSUME NEW k \in Items, NEW v \in Items
  PROVE  /\ VecOf(<<k, v>>) = Argument(<<<<k, v>>>>, FALSE)
         /\ <<<<k, v>>>> \in Seq(Items \X Items) /\ Len(<<<<k, v>>>>) = 1
<1> DEFINE s == <<<<k, v>>>>
           a == ToArray(MapOf(s))
<1>1. s \in Seq(Items \X Items) /\ Len(s) = 1 /\ s[1] = <<k, v>>
  OBVIOUS
<1> HIDE DEF s
<1>2. /\ a.data \in Seq(Items) /\ Len(a.data) = 2 * Len(s)
      /\ \A i \in 1 .. Len(s) : a.data[2 * i - 1] = s[i][1] /\ a.data[2 * i] = s[i][2]
  <2>1. InRows(Items, s, a)
    BY <1>1, ToArrayElements
  <2> HIDE DEF a
  <2> QED
    BY <2>1 DEF InRows
<1> HIDE DEF a
<1>3. Len(a.data) = 2 /\ a.data[1] = k /\ a.data[2] = v
  <2>1. 1 \in 1 .. Len(s)
    BY <1>1
  <2>2. a.data[2 * 1 - 1] = s[1][1] /\ a.data[2 * 1] = s[1][2]
    BY <1>2, <2>1
  <2> QED
    BY <1>1, <1>2, <2>2
<1>4. <<k, v>> \in Seq(Items) /\ Len(<<k, v>>) = 2
  OBVIOUS
<1>5. a.data = <<k, v>>
  <2>1. \A i \in 1 .. 2 : a.data[i] = <<k, v>>[i]
    <3>1. \A i \in 1 .. 2 : i = 1 \/ i = 2
      OBVIOUS
    <3> QED
      BY <1>3, <3>1
  <2> QED
    BY <1>2, <1>3, <1>4, <2>1, SeqEqual
<1> QED
  BY <1>1, <1>5 DEF Argument, a, s

LEMMA FourInAVector ==
  ASSUME NEW s \in Seq(Items \X Items), Len(s) = 2
  PROVE  Argument(s, FALSE) = VecOf(<<s[1][1], s[1][2], s[2][1], s[2][2]>>)
<1> DEFINE a == ToArray(MapOf(s))
           t == <<s[1][1], s[1][2], s[2][1], s[2][2]>>
<1>1. /\ a.data \in Seq(Items) /\ Len(a.data) = 2 * Len(s)
      /\ \A i \in 1 .. Len(s) : a.data[2 * i - 1] = s[i][1] /\ a.data[2 * i] = s[i][2]
  <2>1. InRows(Items, s, a)
    BY ToArrayElements
  <2> HIDE DEF a
  <2> QED
    BY <2>1 DEF InRows
<1> HIDE DEF a
<1>2. Len(a.data) = 4
      /\ a.data[1] = s[1][1] /\ a.data[2] = s[1][2] /\ a.data[3] = s[2][1] /\ a.data[4] = s[2][2]
  <2>1. 1 \in 1 .. Len(s) /\ 2 \in 1 .. Len(s)
    OBVIOUS
  <2>2. a.data[2 * 1 - 1] = s[1][1] /\ a.data[2 * 1] = s[1][2]
    BY <1>1, <2>1
  <2>3. a.data[2 * 2 - 1] = s[2][1] /\ a.data[2 * 2] = s[2][2]
    BY <1>1, <2>1
  <2> QED
    BY <1>1, <2>2, <2>3
<1>3. /\ t \in Seq(Items) /\ Len(t) = 4
      /\ t[1] = s[1][1] /\ t[2] = s[1][2] /\ t[3] = s[2][1] /\ t[4] = s[2][2]
  <2>1. s[1] \in Items \X Items /\ s[2] \in Items \X Items
    BY ElementOfSeq
  <2> QED
    BY <2>1
<1> HIDE DEF t
<1>4. a.data = t
  <2>1. \A i \in 1 .. 4 : a.data[i] = t[i]
    <3>1. \A i \in 1 .. 4 : i = 1 \/ i = 2 \/ i = 3 \/ i = 4
      OBVIOUS
    <3> QED
      BY <1>2, <1>3, <3>1
  <2> QED
    BY <1>1, <1>2, <1>3, <2>1, SeqEqual
<1> QED
  BY <1>4 DEF Argument, a, t

-----------------------------------------------------------------------------
(* The statements, and what they keep                                      *)

(* The map is a sequence of pairs, whose values are what the program wrote *)
(* or what was collected; no two keys of it are equal, unless it was made  *)
(* with some that were.                                                    *)
MapsInv == table \in Tables /\ (clean => Distinct(table))

LEMMA ItemsHeld == Items \subseteq Held /\ Seq(Items \X Items) \subseteq Seq(Pairs)
BY DEF Held, Pairs

LEMMA MadeOf ==
  ASSUME NEW s \in Seq(Items \X Items), NEW rows \in BOOLEAN
  PROVE  MapNew(Argument(s, rows)) \in Tables
<1>1. MapNew(Argument(s, rows)) = MapOf(PairsFrom(Argument(s, rows)).pairs)
  BY WrittenPairs DEF MapNew
<1>2. PairsFrom(Argument(s, rows)).pairs \in Seq(Pairs)
  BY WrittenPairs, ItemsHeld
<1> QED
  BY <1>1, <1>2 DEF Tables

LEMMA PutOf ==
  ASSUME NEW m \in Tables, NEW s \in Seq(Items \X Items), NEW rows \in BOOLEAN
  PROVE  MapWith(m, Argument(s, rows)) = WithPairs(m, PairsFrom(Argument(s, rows)).pairs)
BY WrittenPairs, TableTyped DEF MapWith

LEMMA CollectedOf ==
  ASSUME NEW m \in Tables, NEW s \in Seq(Items \X Items), NEW rows \in BOOLEAN
  PROVE  MapAppendTo(m, Argument(s, rows)) = AllCollected(m, PairsFrom(Argument(s, rows)).pairs)
BY WrittenPairs, TableTyped DEF MapAppendTo, AllCollected

LEMMA RemovedOf ==
  ASSUME NEW m \in Tables, NEW s
  PROVE  MapRemove(m, VecOf(s)) = WithoutKeys(m, s)
<1>1. VecOf(s).tag = "array" /\ VecOf(s).data = s
  BY DEF VecOf, Arr, Labelled
<1>2. FlatElements(VecOf(s)) = s
  BY <1>1 DEF FlatElements, Elements, IsStr
<1> QED
  BY <1>2, TableTyped DEF MapRemove

LEMMA WrittenTyped ==
  ASSUME NEW s \in PairLists
  PROVE  s \in Seq(Items \X Items)
<1>1. PICK n \in 0 .. MaxWritten : s \in [1 .. n -> Keys \X Contents]
  BY DEF PairLists
<1>2. n \in Nat /\ s \in [1 .. n -> Items \X Items]
  BY <1>1, MapStoreAssumption DEF Items
<1> QED
  BY <1>2, MadeASeq

LEMMA MapsStep ==
  ASSUME MapsInv, [MsNext]_msVars
  PROVE  MapsInv'
<1>1. CASE Make
  <2>1. PICK s \in PairLists, rows \in BOOLEAN : table' = MapNew(Argument(s, rows))
    BY <1>1 DEF Make
  <2>2. table' \in Tables
    BY <2>1, WrittenTyped, MadeOf
  <2>3. clean' = Distinct(table')
    BY <1>1 DEF Make
  <2>4. MapsInv' = (table' \in Tables /\ (clean' => Distinct(table')))
    BY DEF MapsInv, Distinct, Tables, Pairs, Held, Items
  <2> QED
    BY <2>2, <2>3, <2>4
<1>2. CASE PutIn
  <2>1. PICK s \in PairLists, rows \in BOOLEAN : table' = MapWith(table, Argument(s, rows))
    BY <1>2 DEF PutIn
  <2>2. s \in Seq(Items \X Items)
    BY WrittenTyped
  <2>3. Kept(table, table')
    BY <2>1, <2>2, PutOf, WrittenPairs, WithPairsSteps DEF MapsInv
  <2>4. clean' = clean
    BY <1>2 DEF PutIn
  <2> QED
    BY <2>3, <2>4 DEF MapsInv, Kept, Distinct, Tables, Pairs, Held, Items
<1>3. CASE TakeOut
  <2>1. PICK n \in 0 .. 2 : \E s \in [1 .. n -> Keys] : table' = MapRemove(table, VecOf(s))
    BY <1>3 DEF TakeOut
  <2>2. PICK s \in [1 .. n -> Keys] : table' = MapRemove(table, VecOf(s))
    BY <2>1
  <2>3. s \in Seq(Items)
    <3>1. n \in Nat /\ s \in [1 .. n -> Items]
      BY DEF Items
    <3> QED
      BY <3>1, MadeASeq
  <2>4. Kept(table, table')
    BY <2>2, <2>3, RemovedOf, WithoutKeysTakesOut DEF MapsInv, TakenOut
  <2>5. clean' = clean
    BY <1>3 DEF TakeOut
  <2> QED
    BY <2>4, <2>5 DEF MapsInv, Kept, Distinct, Tables, Pairs, Held, Items
<1>4. CASE CollectIn
  <2>1. PICK s \in PairLists, rows \in BOOLEAN : table' = MapAppendTo(table, Argument(s, rows))
    BY <1>4 DEF CollectIn
  <2>2. s \in Seq(Items \X Items)
    BY WrittenTyped
  <2>3. Kept(table, table')
    BY <2>1, <2>2, CollectedOf, WrittenPairs, AllCollectedSteps DEF MapsInv
  <2>4. clean' = clean
    BY <1>4 DEF CollectIn
  <2> QED
    BY <2>3, <2>4 DEF MapsInv, Kept, Distinct, Tables, Pairs, Held, Items
<1>5. CASE UNCHANGED msVars
  BY <1>5 DEF MapsInv, msVars, Distinct, Tables, Pairs, Held, Items
<1> QED
  BY <1>1, <1>2, <1>3, <1>4, <1>5 DEF MsNext

LEMMA MapsStart == ASSUME MsInit PROVE MapsInv
<1>1. <<>> \in Seq(Pairs)
  BY EmptySeq
<1>2. table \in Tables
  BY <1>1 DEF MsInit, Tables
<1>3. table.pairs = <<>>
  BY DEF MsInit, MapOf
<1>4. DOMAIN table.pairs = 1 .. 0
  BY <1>2, <1>3, TableTyped
<1>5. Distinct(table)
  BY <1>4 DEF Distinct
<1> QED
  BY <1>2, <1>5 DEF MapsInv

(* A map is always a sequence of pairs of a key and a value, without equal *)
(* keys unless the constructor was given some (map.rs 78-137 and the map   *)
(* functions of evaluator.rs).                                             *)
THEOREM MapsTyped == MsSpec => []MapsInv
<1>1. MsInit => MapsInv
  BY MapsStart
<1>2. MapsInv /\ [MsNext]_msVars => MapsInv'
  BY MapsStep
<1> QED
  BY <1>1, <1>2, PTL DEF MsSpec

-----------------------------------------------------------------------------
(* The laws                                                                *)

(* The statement with one pair, with two, with a key, in terms of a map.   *)
LEMMA OnePutIn ==
  ASSUME NEW m \in Tables, NEW k \in Items, NEW v \in Items
  PROVE  MapWith(m, VecOf(<<k, v>>)) = WithPair(m, Opened(k), Opened(v))
<1> DEFINE s == <<<<k, v>>>>
           pairs == PairsFrom(Argument(s, FALSE)).pairs
<1>1. VecOf(<<k, v>>) = Argument(s, FALSE) /\ s \in Seq(Items \X Items) /\ Len(s) = 1
  BY TwoInAVector
<1>2. s[1] = <<k, v>>
  OBVIOUS
<1> HIDE DEF s
<1>3. /\ pairs \in Seq(Items \X Items) /\ Len(pairs) = 1
      /\ \A i \in 1 .. 1 : pairs[i] = OpenedPair(s[i])
  BY <1>1, WrittenPairs
<1>4. MapWith(m, Argument(s, FALSE)) = WithPairs(m, pairs)
  BY <1>1, PutOf
<1> HIDE DEF pairs
<1>5. WithPairs(m, pairs) = WithPair(m, pairs[1][1], pairs[1][2])
  BY <1>3, WithPairsSteps
<1>6. pairs[1][1] = Opened(k) /\ pairs[1][2] = Opened(v)
  BY <1>2, <1>3 DEF OpenedPair
<1> QED
  BY <1>1, <1>4, <1>5, <1>6

LEMMA TwoPutIn ==
  ASSUME NEW m \in Tables, NEW k \in Items, NEW v \in Items, NEW j \in Items, NEW w \in Items
  PROVE  MapWith(m, VecOf(<<k, v, j, w>>)) =
           WithPair(WithPair(m, Opened(k), Opened(v)), Opened(j), Opened(w))
<1> DEFINE s == <<<<k, v>>, <<j, w>>>>
           pairs == PairsFrom(Argument(s, FALSE)).pairs
<1>2. s[1] = <<k, v>> /\ s[2] = <<j, w>> /\ s \in Seq(Items \X Items) /\ Len(s) = 2
  OBVIOUS
<1>1. VecOf(<<k, v, j, w>>) = Argument(s, FALSE) /\ s \in Seq(Items \X Items) /\ Len(s) = 2
  <2> HIDE DEF s
  <2>1. Argument(s, FALSE) = VecOf(<<s[1][1], s[1][2], s[2][1], s[2][2]>>)
    BY <1>2, FourInAVector
  <2>2. s[1][1] = k /\ s[1][2] = v /\ s[2][1] = j /\ s[2][2] = w
    BY <1>2
  <2> QED
    BY <1>2, <2>1, <2>2
<1> HIDE DEF s
<1>3. /\ pairs \in Seq(Items \X Items) /\ Len(pairs) = 2
      /\ \A i \in 1 .. 2 : pairs[i] = OpenedPair(s[i])
  BY <1>1, WrittenPairs
<1>4. MapWith(m, Argument(s, FALSE)) = WithPairs(m, pairs)
  BY <1>1, PutOf
<1> HIDE DEF pairs
<1>5. WithPairs(m, pairs) = WithPair(WithPair(m, pairs[1][1], pairs[1][2]), pairs[2][1], pairs[2][2])
  BY <1>3, WithPairsSteps
<1>6. /\ pairs[1][1] = Opened(k) /\ pairs[1][2] = Opened(v)
      /\ pairs[2][1] = Opened(j) /\ pairs[2][2] = Opened(w)
  BY <1>2, <1>3 DEF OpenedPair
<1> QED
  BY <1>1, <1>4, <1>5, <1>6

LEMMA OneCollected ==
  ASSUME NEW m \in Tables, NEW k \in Items, NEW v \in Items
  PROVE  Puts(m, Opened(k), VecOf(Append(Collected(m, Opened(k)), Opened(v))),
              MapAppendTo(m, VecOf(<<k, v>>)))
<1> DEFINE s == <<<<k, v>>>>
           pairs == PairsFrom(Argument(s, FALSE)).pairs
<1>1. VecOf(<<k, v>>) = Argument(s, FALSE) /\ s \in Seq(Items \X Items) /\ Len(s) = 1
  BY TwoInAVector
<1>2. s[1] = <<k, v>>
  OBVIOUS
<1> HIDE DEF s
<1>3. /\ pairs \in Seq(Items \X Items) /\ Len(pairs) = 1
      /\ \A i \in 1 .. 1 : pairs[i] = OpenedPair(s[i])
  BY <1>1, WrittenPairs
<1>4. MapAppendTo(m, Argument(s, FALSE)) = AllCollected(m, pairs)
  BY <1>1, CollectedOf
<1> HIDE DEF pairs
<1>5. AllCollected(m, pairs) = AppendPair(m, pairs[1])
  BY <1>3, AllCollectedSteps
<1>6. pairs[1][1] = Opened(k) /\ pairs[1][2] = Opened(v) /\ pairs[1] \in Items \X Items
  BY <1>2, <1>3, ElementOfSeq DEF OpenedPair
<1>7. Puts(m, pairs[1][1], VecOf(Append(Collected(m, pairs[1][1]), pairs[1][2])), AppendPair(m, pairs[1]))
  BY <1>6, AppendPairPuts
<1> QED
  BY <1>1, <1>4, <1>5, <1>6, <1>7

LEMMA OneTakenOut ==
  ASSUME NEW m \in Tables, NEW k \in Items
  PROVE  /\ TakenOut(m, <<k>>, MapRemove(m, VecOf(<<k>>)))
         /\ \A j : Gone(<<k>>, j) <=> KeyEqual(j, k)
<1>1. <<k>> \in Seq(Items) /\ DOMAIN <<k>> = {1} /\ <<k>>[1] = k
  OBVIOUS
<1>2. TakenOut(m, <<k>>, MapRemove(m, VecOf(<<k>>)))
  BY <1>1, RemovedOf, WithoutKeysTakesOut
<1>3. \A j : Gone(<<k>>, j) <=> KeyEqual(j, k)
  BY <1>1 DEF Gone
<1> QED
  BY <1>2, <1>3

(* The places of one key, when no two keys are equal.                      *)
LEMMA OnePlace ==
  ASSUME NEW m \in Tables, Distinct(m), NEW k \in Items, Has(m, k)
  PROVE  At(m, k) = {FirstAt(m, k)}
<1> DEFINE n == FirstAt(m, k)
<1>1. n \in DOMAIN m.pairs /\ n \in At(m, k) /\ KeyEqual(m.pairs[n][1], k)
      /\ \A j \in At(m, k) : n <= j
  BY FirstExists
<1>2. DOMAIN m.pairs = 1 .. Len(m.pairs) /\ Len(m.pairs) \in Nat
      /\ \A i \in DOMAIN m.pairs : m.pairs[i][1] \in Items
  BY TableTyped
<1> HIDE DEF n
<1>3. ASSUME NEW i \in At(m, k), i # n PROVE FALSE
  <2>1. i \in DOMAIN m.pairs /\ KeyEqual(m.pairs[i][1], k)
    BY DEF At
  <2>2. n < i
    BY <1>1, <1>2, <1>3, <2>1
  <2>3. KeyEqual(k, m.pairs[i][1])
    BY <1>2, <2>1, Symmetric, ItemsHeld
  <2>4. KeyEqual(m.pairs[n][1], m.pairs[i][1])
    BY <1>1, <1>2, <2>1, <2>3, Transitive, ItemsHeld
  <2> QED
    BY <1>1, <2>1, <2>2, <2>4 DEF Distinct
<1> QED
  BY <1>1, <1>3 DEF n

(* An index of several keys reads what each of them, opened, finds.        *)
LEMMA OpenedByIndex ==
  ASSUME NEW e \in Items
  PROVE  (IF IsBox(e) THEN ValueAt(e, 0) ELSE e) = Opened(e)
<1>1. CASE IsBox(e)
  <2>1. IsArr(e) /\ e.tag = "array" /\ e.data # <<>>
    BY <1>1, MapStoreAssumption DEF IsBox, IsArr, Items
  <2>2. e.data \in Seq(Items)
    BY <2>1, ItemsClosed DEF Closed, Holder
  <2>3. Len(e.data) \in Nat /\ 0 < Len(e.data)
    BY <2>1, <2>2, EmptySeq, LenProperties
  <2>4. Elements(e) = e.data
    BY <2>1 DEF Elements, IsStr
  <2>5. ValueAt(e, 0) = e.data[1]
    BY <2>1, <2>3, <2>4 DEF ValueAt, Nth
  <2> QED
    BY <1>1, <2>1, <2>5 DEF Opened
<1>2. CASE ~IsBox(e)
  BY <1>2 DEF Opened
<1> QED
  BY <1>1, <1>2

LEMMA IndexReads ==
  ASSUME NEW m, NEW s \in Seq(Items), Len(s) # 1
  PROVE  MapIndex(m, VecOf(s)) = VecOf([i \in 1 .. Len(s) |-> Lookup(m, Opened(s[i]), Nil)])
<1> DEFINE sel == VecOf(s)
           one(k) == Lookup(m, IF IsBox(k) THEN ValueAt(k, 0) ELSE k, Nil)
           read == [i \in 1 .. Len(s) |-> Lookup(m, Opened(s[i]), Nil)]
<1>1. Len(s) \in Nat /\ DOMAIN s = 1 .. Len(s) /\ \A i \in 1 .. Len(s) : s[i] \in Items
  BY LenProperties, ElementOfSeq
<1>2. IsArr(sel) /\ sel.data = s /\ sel.dims = <<Len(s)>>
  BY DEF VecOf, Arr, Labelled, IsArr
<1>3. sel.dims # <<1>>
  BY <1>1, <1>2
<1> HIDE DEF sel
<1>4. MapIndex(m, sel) = Arr(sel.dims, [i \in DOMAIN sel.data |-> one(sel.data[i])])
  BY <1>2, <1>3, Zenon DEF MapIndex
<1>5. \A i \in 1 .. Len(s) : one(s[i]) = Lookup(m, Opened(s[i]), Nil)
  BY <1>1, OpenedByIndex
<1> HIDE DEF one
<1>6. [i \in DOMAIN sel.data |-> one(sel.data[i])] = read
  BY <1>1, <1>2, <1>5
<1>7. read \in Seq({read[i] : i \in 1 .. Len(s)}) /\ Len(read) = Len(s)
  <2>1. read \in [1 .. Len(s) -> {read[i] : i \in 1 .. Len(s)}]
    OBVIOUS
  <2> HIDE DEF read
  <2> QED
    BY <1>1, <2>1, MadeASeq
<1> HIDE DEF read
<1>8. MapIndex(m, sel) = VecOf(read)
  BY <1>2, <1>4, <1>6, <1>7 DEF VecOf
<1> QED
  BY <1>8 DEF sel, read

LEMMA SameKeyTwice ==
  ASSUME NEW m, NEW k \in Items
  PROVE  MapIndex(m, VecOf(<<k, k>>)) =
           VecOf(<<Lookup(m, Opened(k), Nil), Lookup(m, Opened(k), Nil)>>)
<1> DEFINE s == <<k, k>>
           x == Lookup(m, Opened(k), Nil)
<1>1. s \in Seq(Items) /\ Len(s) = 2 /\ s[1] = k /\ s[2] = k
  OBVIOUS
<1> HIDE DEF s
<1>2. \A i \in 1 .. 2 : s[i] = k
  <2>1. \A i \in 1 .. 2 : i = 1 \/ i = 2
    OBVIOUS
  <2> QED
    BY <1>1, <2>1
<1>3. MapIndex(m, VecOf(s)) = VecOf([i \in 1 .. Len(s) |-> Lookup(m, Opened(s[i]), Nil)])
  BY <1>1, IndexReads
<1>4. [i \in 1 .. Len(s) |-> Lookup(m, Opened(s[i]), Nil)] = [i \in 1 .. 2 |-> x]
  BY <1>1, <1>2
<1> HIDE DEF x
<1>5. [i \in 1 .. 2 |-> x] = <<x, x>>
  OBVIOUS
<1> QED
  BY <1>3, <1>4, <1>5 DEF s, x

LEMMA KeysReadValues ==
  ASSUME MapsInv, clean, AllSingle, AllEqual(1), Len(table.pairs) # 1
  PROVE  MapIndex(table, KeysArray(table)) = VecOf([i \in DOMAIN table.pairs |-> table.pairs[i][2]])
<1> DEFINE s == table.pairs
           keys == [i \in 1 .. Len(s) |-> s[i][1]]
<1>1. /\ table \in Tables /\ Distinct(table) /\ Len(s) \in Nat /\ DOMAIN s = 1 .. Len(s)
      /\ \A i \in 1 .. Len(s) : s[i][1] \in Items
  BY TableTyped DEF MapsInv
<1>2. \A i \in 1 .. Len(s) : KeyEqual(s[i][1], s[i][1]) /\ Opened(s[i][1]) = s[i][1]
  BY <1>1 DEF AllSingle, AllEqual, Single
<1>3. KeysArray(table) = VecOf(keys)
  BY <1>1 DEF KeysArray
<1>4. keys \in [1 .. Len(s) -> Items] /\ \A i \in 1 .. Len(s) : keys[i] = s[i][1]
  BY <1>1
<1> HIDE DEF keys, s
<1>5. keys \in Seq(Items) /\ Len(keys) = Len(s)
  BY <1>1, <1>4, MadeASeq
<1>6. MapIndex(table, VecOf(keys)) = VecOf([i \in 1 .. Len(keys) |-> Lookup(table, Opened(keys[i]), Nil)])
  BY <1>5, IndexReads DEF s
<1>7. ASSUME NEW i \in 1 .. Len(s) PROVE Lookup(table, Opened(keys[i]), Nil) = s[i][2]
  <2>1. Opened(keys[i]) = s[i][1] /\ s[i][1] \in Items
    BY <1>1, <1>2, <1>4
  <2>2. i \in At(table, s[i][1])
    BY <1>1, <1>2 DEF At, s
  <2>3. Has(table, s[i][1])
    BY <2>2 DEF Has
  <2>4. FirstAt(table, s[i][1]) = i
    BY <1>1, <2>1, <2>2, <2>3, OnePlace
  <2> QED
    BY <2>1, <2>3, <2>4 DEF Lookup, s
<1>8. [i \in 1 .. Len(keys) |-> Lookup(table, Opened(keys[i]), Nil)] = [i \in 1 .. Len(s) |-> s[i][2]]
  BY <1>5, <1>7
<1> QED
  BY <1>1, <1>3, <1>6, <1>8 DEF s

LEMMA KeyLawsHold ==
  ASSUME MapsInv, NEW k \in Keys, NEW v \in Contents
  PROVE  KeyLaws(k, v)
<1> DEFINE put == MapWith(table, VecOf(<<k, v>>))
           cut == MapRemove(table, VecOf(<<k>>))
           more == MapAppendTo(table, VecOf(<<k, v>>))
           key == Opened(k)
           new == VecOf(Append(Collected(table, key), Opened(v)))
<1>1. /\ k \in Items /\ v \in Items /\ key \in Items /\ Opened(v) \in Held /\ table \in Tables
      /\ Keys \subseteq Items /\ Contents \subseteq Items /\ Items \subseteq Held
  BY OpenedTyped, ItemsHeld DEF MapsInv, Items
<1>2. Puts(table, key, Opened(v), put)
  BY <1>1, OnePutIn, WithPairPuts
<1>3. TakenOut(table, <<k>>, cut) /\ \A j : Gone(<<k>>, j) <=> KeyEqual(j, k)
  BY <1>1, OneTakenOut
<1>4. Puts(table, key, new, more)
  BY <1>1, OneCollected
<1>5. \A j \in Keys, w \in Contents :
        MapWith(table, VecOf(<<k, v, j, w>>)) = MapWith(put, VecOf(<<j, w>>))
  <2>1. ASSUME NEW j \in Keys, NEW w \in Contents
        PROVE  MapWith(table, VecOf(<<k, v, j, w>>)) = MapWith(put, VecOf(<<j, w>>))
    <3>1. j \in Items /\ w \in Items /\ put \in Tables
      BY <1>1, <1>2 DEF Puts
    <3>2. put = WithPair(table, Opened(k), Opened(v))
      BY <1>1, OnePutIn
    <3>3. MapWith(put, VecOf(<<j, w>>)) = WithPair(put, Opened(j), Opened(w))
      <4> HIDE DEF put
      <4> QED
        BY <3>1, OnePutIn
    <3>4. MapWith(table, VecOf(<<k, v, j, w>>)) =
            WithPair(WithPair(table, Opened(k), Opened(v)), Opened(j), Opened(w))
      BY <1>1, <3>1, TwoPutIn
    <3> QED
      BY <3>2, <3>3, <3>4
  <2> QED
    BY <2>1
<1>9. ASSUME KeyEqual(key, key)
      PROVE  MapIndex(put, VecOf(<<k, k>>)) = VecOf(<<Opened(v), Opened(v)>>)
  <2>1. MapIndex(put, VecOf(<<k, k>>)) = VecOf(<<Lookup(put, key, Nil), Lookup(put, key, Nil)>>)
    BY <1>1, SameKeyTwice
  <2> HIDE DEF put
  <2>2. Lookup(put, key, Nil) = Opened(v)
    BY <1>1, <1>2, <1>9 DEF Puts
  <2> QED
    BY <2>1, <2>2
<1> HIDE DEF put, cut, more, key, new
<1>6. ASSUME NEW j \in Keys
      PROVE  /\ Found(put, j) = IF KeyEqual(key, j) THEN Opened(v) ELSE Found(table, j)
             /\ Found(cut, j) = IF KeyEqual(k, j) THEN Err ELSE Found(table, j)
             /\ Found(more, j) = IF KeyEqual(key, j) THEN new ELSE Found(table, j)
  <2>1. j \in Items
    BY <1>1
  <2>2. Found(put, j) = IF KeyEqual(key, j) THEN Opened(v) ELSE Found(table, j)
    BY <1>2, <2>1 DEF Found, Puts
  <2>3. Found(more, j) = IF KeyEqual(key, j) THEN new ELSE Found(table, j)
    BY <1>4, <2>1 DEF Found, Puts
  <2>4. Gone(<<k>>, j) <=> KeyEqual(k, j)
    BY <1>1, <1>3, <2>1, Symmetric
  <2>5. Missed(table, <<k>>, cut)
    BY <1>3 DEF TakenOut
  <2>6. Found(cut, j) = IF KeyEqual(k, j) THEN Err ELSE Found(table, j)
    <3>1. CASE KeyEqual(k, j)
      BY <2>1, <2>4, <2>5, <3>1 DEF Missed, Found, Lookup
    <3>2. CASE ~KeyEqual(k, j)
      BY <2>1, <2>4, <2>5, <3>2 DEF Missed, Found
    <3> QED
      BY <3>1, <3>2
  <2> QED
    BY <2>2, <2>3, <2>6
<1>7. ASSUME clean, Single(k), KeyEqual(k, k)
      PROVE  /\ Len(put.pairs) = Len(cut.pairs) + 1
             /\ Len(table.pairs) \in {Len(put.pairs), Len(cut.pairs)}
  <2>1. Distinct(table) /\ key = k
    BY <1>7 DEF MapsInv, Single, key
  <2>2. Going(table, <<k>>) = At(table, k)
    BY <1>3 DEF Going, At
  <2>3. Fewer(table, <<k>>, cut)
    BY <1>3 DEF TakenOut
  <2>4. Len(table.pairs) \in Nat /\ Len(cut.pairs) \in Nat
    BY <1>1, <1>3, TableTyped DEF TakenOut, Kept
  <2>5. Len(put.pairs) = IF Has(table, k) THEN Len(table.pairs) ELSE Len(table.pairs) + 1
    BY <1>2, <2>1 DEF Puts
  <2>6. CASE Has(table, k)
    <3>1. Going(table, <<k>>) = {FirstAt(table, k)}
      BY <1>1, <2>1, <2>2, <2>6, OnePlace
    <3>2. Len(cut.pairs) + 1 = Len(table.pairs)
      BY <2>3, <3>1 DEF Fewer
    <3> QED
      BY <2>4, <2>5, <2>6, <3>2
  <2>7. CASE ~Has(table, k)
    <3>1. Len(cut.pairs) = Len(table.pairs)
      BY <2>2, <2>3, <2>7 DEF Fewer, Has
    <3> QED
      BY <2>4, <2>5, <2>7, <3>1
  <2> QED
    BY <2>6, <2>7
<1>8. KeyLaws(k, v) <=>
        /\ \A j \in Keys :
             /\ Found(put, j) = IF KeyEqual(key, j) THEN Opened(v) ELSE Found(table, j)
             /\ Found(cut, j) = IF KeyEqual(k, j) THEN Err ELSE Found(table, j)
             /\ Found(more, j) = IF KeyEqual(key, j) THEN new ELSE Found(table, j)
             /\ \A w \in Contents : MapWith(table, VecOf(<<k, v, j, w>>)) = MapWith(put, VecOf(<<j, w>>))
        /\ KeyEqual(key, key) => MapIndex(put, VecOf(<<k, k>>)) = VecOf(<<Opened(v), Opened(v)>>)
        /\ clean /\ Single(k) /\ KeyEqual(k, k) =>
             /\ Len(put.pairs) = Len(cut.pairs) + 1
             /\ Len(table.pairs) \in {Len(put.pairs), Len(cut.pairs)}
  BY Zenon DEF KeyLaws, put, cut, more, key, new
<1> QED
  BY <1>5, <1>6, <1>7, <1>8, <1>9

(* The array of a map's pairs makes the map again.                         *)
LEMMA PairsMakeAgain ==
  ASSUME MapsInv, NEW rows \in BOOLEAN, AllSingle
  PROVE  MapNew(Argument(table.pairs, rows)) = table
<1> DEFINE s == table.pairs
           S == Held
<1>1. /\ table = MapOf(s) /\ s \in Seq(Pairs) /\ Len(s) \in Nat /\ DOMAIN s = 1 .. Len(s)
      /\ \A i \in DOMAIN s : s[i] \in Pairs
  BY TableTyped DEF MapsInv
<1>2. Pairs \subseteq S \X S
  BY ItemsHeld DEF Pairs
<1>3. s \in Seq(S \X S)
  BY <1>1, <1>2
<1>4. \A i \in 1 .. Len(s) : OpenedPair(s[i]) = s[i]
  <2>1. ASSUME NEW i \in 1 .. Len(s) PROVE OpenedPair(s[i]) = s[i]
    <3>1. Opened(s[i][1]) = s[i][1] /\ Opened(s[i][2]) = s[i][2]
      BY <1>1 DEF AllSingle, Single
    <3>2. s[i] = <<s[i][1], s[i][2]>>
      BY <1>1, <1>2
    <3> QED
      BY <3>1, <3>2 DEF OpenedPair
  <2> QED
    BY <2>1
<1> HIDE DEF s, S
<1>5. [i \in 1 .. Len(s) |-> OpenedPair(s[i])] = s
  BY <1>1, <1>4
<1>6. PairsFrom(Argument(s, rows)) = [ok |-> TRUE, pairs |-> s]
  BY <1>3, <1>5, ArgumentPairs
<1>7. MapNew(Argument(s, rows)) = MapOf(s)
  BY <1>6 DEF MapNew
<1> QED
  BY <1>1, <1>7 DEF s

(* Another order of the pairs equals the map, both ways.                   *)
LEMMA OrderDoesNotCount ==
  ASSUME MapsInv, clean, AllEqual(1), AllEqual(2), NEW m \in Reordered
  PROVE  MapDeepEqual(table, m) /\ MapDeepEqual(m, table)
<1> DEFINE s == table.pairs
           n == Len(s)
<1>1. /\ table \in Tables /\ s \in Seq(Pairs) /\ n \in Nat /\ DOMAIN s = 1 .. n
      /\ \A i \in 1 .. n : s[i] \in Pairs /\ s[i][1] \in Items
      /\ Distinct(table)
  BY TableTyped DEF MapsInv
<1>2. PICK f \in [1 .. n -> 1 .. n] : IsInjective(f) /\ m = MapOf([i \in 1 .. n |-> s[f[i]]])
  BY <1>1 DEF Reordered
<1>3. \A i \in 1 .. n : KeyEqual(s[i][1], s[i][1]) /\ KeyEqual(s[i][2], s[i][2])
  BY <1>1 DEF AllEqual
<1> DEFINE t == [i \in 1 .. n |-> s[f[i]]]
<1>4. t \in [1 .. n -> Pairs] /\ \A i \in 1 .. n : t[i] = s[f[i]]
  BY <1>1
<1>5. m = MapOf(t)
  BY <1>2
<1> HIDE DEF t
<1>6. t \in Seq(Pairs) /\ Len(t) = n
  BY <1>1, <1>4, MadeASeq
<1>7. m \in Tables /\ m.pairs = t /\ DOMAIN t = 1 .. n
  BY <1>5, <1>6, LenProperties DEF Tables, MapOf
<1>8. \A i \in 1 .. n : \E j \in 1 .. n : f[j] = i
  <2>1. IsFiniteSet(1 .. n)
    BY <1>1, FS_Interval
  <2>2. f \in Injection(1 .. n, 1 .. n)
    BY <1>2 DEF Injection, IsInjective, IsInjective
  <2>3. f \in Surjection(1 .. n, 1 .. n)
    BY <2>1, <2>2, FS_Injection
  <2> QED
    BY <2>3 DEF Surjection
<1>9. ASSUME NEW i \in 1 .. n, NEW j \in 1 .. n, KeyEqual(s[i][1], s[j][1])
      PROVE  i = j
  <2>1. KeyEqual(s[j][1], s[i][1])
    BY <1>1, <1>9, Symmetric, ItemsHeld
  <2>2. ~(i < j) /\ ~(j < i)
    BY <1>1, <1>9, <2>1 DEF Distinct
  <2> QED
    BY <1>1, <2>2
<1> HIDE DEF s, n
<1>10. ASSUME NEW i \in 1 .. n
       PROVE  Has(m, s[i][1]) /\ KeyEqual(s[i][2], m.pairs[FirstAt(m, s[i][1])][2])
  <2>1. PICK j \in 1 .. n : f[j] = i
    BY <1>8
  <2>2. KeyEqual(t[j][1], s[i][1])
    BY <1>3, <1>4, <2>1
  <2>3. Has(m, s[i][1])
    BY <1>7, <2>2 DEF Has, At
  <2> DEFINE h == FirstAt(m, s[i][1])
  <2>4. h \in 1 .. n /\ KeyEqual(t[h][1], s[i][1])
    BY <1>7, <2>3, FirstExists
  <2> HIDE DEF h
  <2>5. f[h] \in 1 .. n /\ t[h] = s[f[h]]
    BY <1>4, <2>4
  <2>6. f[h] = i
    BY <1>9, <2>4, <2>5
  <2>7. KeyEqual(s[i][2], m.pairs[h][2])
    BY <1>3, <1>7, <2>5, <2>6
  <2> QED
    BY <2>3, <2>7 DEF h
<1>11. ASSUME NEW i \in 1 .. n
       PROVE  Has(table, t[i][1]) /\ KeyEqual(t[i][2], s[FirstAt(table, t[i][1])][2])
  <2>1. f[i] \in 1 .. n /\ t[i] = s[f[i]]
    BY <1>4
  <2>2. KeyEqual(s[f[i]][1], t[i][1])
    BY <1>3, <2>1
  <2>3. Has(table, t[i][1])
    BY <1>1, <2>1, <2>2 DEF Has, At, s
  <2> DEFINE h == FirstAt(table, t[i][1])
  <2>4. h \in 1 .. n /\ KeyEqual(s[h][1], t[i][1])
    BY <1>1, <2>3, FirstExists DEF s
  <2> HIDE DEF h
  <2>5. h = f[i]
    BY <1>9, <2>1, <2>4
  <2>6. KeyEqual(t[i][2], s[h][2])
    BY <1>3, <2>1, <2>5
  <2> QED
    BY <2>3, <2>6 DEF h
<1>12. MapDeepEqual(table, m)
  <2>1. Len(table.pairs) = Len(m.pairs) /\ DOMAIN table.pairs = 1 .. n
    BY <1>1, <1>6, <1>7 DEF n, s
  <2>2. \A i \in DOMAIN table.pairs :
          /\ Has(m, table.pairs[i][1])
          /\ KeyEqual(table.pairs[i][2], m.pairs[FirstAt(m, table.pairs[i][1])][2])
    BY <2>1, <1>10 DEF s
  <2> QED
    BY <2>1, <2>2, Zenon DEF MapDeepEqual
<1>13. MapDeepEqual(m, table)
  <2>1. Len(table.pairs) = Len(m.pairs) /\ DOMAIN m.pairs = 1 .. n
    BY <1>1, <1>6, <1>7 DEF n, s
  <2>2. \A i \in DOMAIN m.pairs :
          /\ Has(table, m.pairs[i][1])
          /\ KeyEqual(m.pairs[i][2], table.pairs[FirstAt(table, m.pairs[i][1])][2])
    BY <2>1, <1>7, <1>11 DEF s
  <2> QED
    BY <2>1, <2>2, Zenon DEF MapDeepEqual
<1> QED
  BY <1>12, <1>13

LEMMA LawsHold == ASSUME MapsInv PROVE MapLaws
<1>1. clean => Distinct(table)
  BY DEF MapsInv
<1>2. \A k \in Keys, v \in Contents : KeyLaws(k, v)
  BY KeyLawsHold
<1>3. AllSingle => \A rows \in BOOLEAN : MapNew(Argument(table.pairs, rows)) = table
  BY PairsMakeAgain
<1>4. clean /\ AllEqual(1) /\ AllEqual(2) =>
        \A m \in Reordered : MapDeepEqual(table, m) /\ MapDeepEqual(m, table)
  BY OrderDoesNotCount
<1>5. clean /\ AllSingle /\ AllEqual(1) /\ Len(table.pairs) # 1 =>
        MapIndex(table, KeysArray(table)) = VecOf([i \in DOMAIN table.pairs |-> table.pairs[i][2]])
  BY KeysReadValues
<1> QED
  BY <1>1, <1>2, <1>3, <1>4, <1>5, Zenon DEF MapLaws

(* A map is its keys, whatever statements made it: of equal keys one is    *)
(* kept, the later of two pairs counts, what is put in is found and what   *)
(* is taken out is not, append collects, an index of keys reads, the array *)
(* of the pairs makes the map again, and equality does not look at their   *)
(* order.                                                                  *)
THEOREM MapsKeepTheirLaws == MsSpec => []MapLaws
<1>1. MapsInv => MapLaws
  BY LawsHold
<1> QED
  BY <1>1, MapsTyped, PTL

-----------------------------------------------------------------------------
(* Quotients                                                               *)

LEMMA DividedBy ==
  ASSUME NEW n \in Int, NEW m \in Nat \ {0}
  PROVE  /\ n \div m \in Int /\ n % m \in 0 .. (m - 1)
         /\ n = (n \div m) * m + (n % m)
OBVIOUS

LEMMA QuotientIs ==
  ASSUME NEW q \in Int, NEW m \in Nat \ {0}, NEW r \in 0 .. (m - 1), NEW n \in Int, n = q * m + r
  PROVE  n \div m = q /\ n % m = r
<1>1. PICK u \in Int, w \in 0 .. (m - 1) : u = n \div m /\ w = n % m /\ n = u * m + w
  BY DividedBy
<1>2. (u - q) * m = r - w
  BY <1>1
<1>3. u - q < 1 /\ u - q > -1
  <2>1. CASE u - q >= 1
    <3>1. PICK x \in Nat : x = (u - q) - 1
      BY <2>1
    <3>2. (u - q) * m = x * m + m /\ x * m \in Nat
      BY <3>1
    <3> QED
      BY <1>2, <3>2
  <2>2. CASE u - q <= -1
    <3>1. PICK x \in Nat : x = (q - u) - 1
      BY <2>2
    <3>2. (u - q) * m = -(x * m + m) /\ x * m \in Nat
      BY <3>1
    <3> QED
      BY <1>2, <3>2
  <2> QED
    BY <2>1, <2>2
<1>4. u = q
  BY <1>3
<1> QED
  BY <1>1, <1>4

LEMMA ProductsOrdered ==
  ASSUME NEW a \in Nat, NEW b \in Nat, NEW c \in Nat, NEW e \in Nat, a < b, c < e
  PROVE  a * e + c < b * e
<1>1. PICK t \in Nat : b = a + 1 + t
  <2>1. b - a - 1 \in Nat /\ b = a + 1 + (b - a - 1)
    OBVIOUS
  <2> QED
    BY <2>1
<1>2. b * e = a * e + e + t * e /\ t * e \in Nat /\ a * e \in Nat
  BY <1>1
<1> QED
  BY <1>2

LEMMA QuotientTwice ==
  ASSUME NEW p \in Nat, NEW s \in Nat \ {0}, NEW e \in Nat \ {0}
  PROVE  /\ e * s \in Nat \ {0}
         /\ p \div (e * s) = (p \div s) \div e
         /\ (p \div (e * s)) * e + ((p \div s) % e) = p \div s
<1>1. PICK q \in Nat, r \in 0 .. (s - 1) : q = p \div s /\ p = q * s + r
  BY DividedBy
<1>2. PICK u \in Nat, w \in 0 .. (e - 1) : u = q \div e /\ w = q % e /\ q = u * e + w
  BY DividedBy
<1>3. w * s + r < e * s
  BY <1>1, <1>2, ProductsOrdered
<1>4. PICK m \in Nat \ {0} : m = e * s
  BY <1>1
<1>5. p = u * m + (w * s + r)
  <2>1. p = (u * e + w) * s + r
    BY <1>1, <1>2
  <2>2. (u * e + w) * s = u * (e * s) + w * s
    OBVIOUS
  <2> QED
    BY <1>4, <2>1, <2>2
<1>6. w * s + r \in 0 .. (m - 1)
  <2>1. w * s \in Nat
    BY <1>2
  <2> QED
    BY <1>1, <1>3, <1>4, <2>1
<1>7. p \div m = u
  BY <1>5, <1>6, QuotientIs
<1> QED
  BY <1>1, <1>2, <1>4, <1>7

-----------------------------------------------------------------------------
(* Row-major addresses                                                     *)

LEMMA CountSteps ==
  ASSUME NEW d \in Seq(Nat)
  PROVE  \E f : Multiplied(d, f) /\ Count(d) = f[Len(d)]
<1> DEFINE upTo == CHOOSE f : Products(d, f)
<1>1. Count(d) = upTo[Len(d)]
  BY DEF Count, Products
<1> QED
  BY <1>1, ProductsMultiplied, Zenon

LEMMA CountTyped ==
  ASSUME NEW d \in Seq(Nat)
  PROVE  /\ Count(d) \in Nat
         /\ Len(d) = 0 => Count(d) = 1
<1>1. PICK f : Multiplied(d, f) /\ Count(d) = f[Len(d)]
  BY CountSteps
<1>2. Len(d) \in 0 .. Len(d) /\ Len(d) \in Nat
  BY LenProperties
<1> QED
  BY <1>1, <1>2 DEF Multiplied

LEMMA CountHeaded ==
  ASSUME NEW s \in Seq(Nat), NEW t \in Seq(Nat), NEW e \in Nat, Headed(t, e, s)
  PROVE  Count(t) = e * Count(s)
<1>1. PICK f : Multiplied(s, f) /\ Count(s) = f[Len(s)]
  BY CountSteps
<1>2. PICK h : Multiplied(t, h) /\ Count(t) = h[Len(t)]
  BY CountSteps
<1> QED
  BY <1>1, <1>2, HeadedMultiplied

(* The dimensions after axis k.                                            *)
LEMMA After ==
  ASSUME NEW d \in Seq(Nat), NEW k \in 0 .. Len(d)
  PROVE  /\ SubSeq(d, k + 1, Len(d)) \in Seq(Nat)
         /\ Len(SubSeq(d, k + 1, Len(d))) = Len(d) - k
         /\ \A i \in 1 .. (Len(d) - k) : SubSeq(d, k + 1, Len(d))[i] = d[k + i]
<1>1. Len(d) \in Nat /\ k + 1 \in 1 .. (Len(d) + 1) /\ Len(d) \in ((k + 1) - 1) .. Len(d)
  BY LenProperties
<1>2. /\ SubSeq(d, k + 1, Len(d)) \in Seq(Nat)
      /\ Len(SubSeq(d, k + 1, Len(d))) = Len(d) - (k + 1) + 1
      /\ \A i \in 1 .. (Len(d) - (k + 1) + 1) : SubSeq(d, k + 1, Len(d))[i] = d[(k + 1) + i - 1]
  BY <1>1, SubSeqProperties
<1> QED
  BY <1>1, <1>2

LEMMA Strides ==
  ASSUME NEW d \in Seq(Nat)
  PROVE  /\ Len(d) \in Nat /\ DOMAIN d = 1 .. Len(d)
         /\ \A k \in 1 .. Len(d) : d[k] \in Nat
         /\ Stride(d, 0) = Count(d) /\ Stride(d, Len(d)) = 1
         /\ \A k \in 0 .. Len(d) : Stride(d, k) \in Nat
         /\ \A k \in 1 .. Len(d) : Stride(d, k - 1) = d[k] * Stride(d, k)
<1>1. Len(d) \in Nat /\ DOMAIN d = 1 .. Len(d) /\ \A k \in 1 .. Len(d) : d[k] \in Nat
  BY LenProperties, ElementOfSeq
<1>2. Stride(d, 0) = Count(d)
  <2>1. SubSeq(d, 0 + 1, Len(d)) = d
    <3>1. 0 \in 0 .. Len(d)
      BY <1>1
    <3>2. /\ SubSeq(d, 0 + 1, Len(d)) \in Seq(Nat)
          /\ Len(SubSeq(d, 0 + 1, Len(d))) = Len(d) - 0
          /\ \A i \in 1 .. (Len(d) - 0) : SubSeq(d, 0 + 1, Len(d))[i] = d[0 + i]
      BY <3>1, After
    <3> QED
      BY <1>1, <3>2, SeqEqual
  <2> QED
    BY <2>1 DEF Stride
<1>3. Stride(d, Len(d)) = 1
  <2>1. Len(d) \in 0 .. Len(d) /\ Len(d) - Len(d) = 0
    BY <1>1
  <2> QED
    BY <2>1, After, CountTyped DEF Stride
<1>4. \A k \in 0 .. Len(d) : Stride(d, k) \in Nat
  BY After, CountTyped DEF Stride
<1>5. ASSUME NEW k \in 1 .. Len(d) PROVE Stride(d, k - 1) = d[k] * Stride(d, k)
  <2>1. k \in 0 .. Len(d) /\ k - 1 \in 0 .. Len(d) /\ (k - 1) + 1 = k
    BY <1>1
  <2>2. PICK s \in Seq(Nat) : /\ s = SubSeq(d, k + 1, Len(d)) /\ Len(s) = Len(d) - k
                              /\ \A i \in 1 .. (Len(d) - k) : s[i] = d[k + i]
    BY <2>1, After
  <2>3. PICK t \in Seq(Nat) : /\ t = SubSeq(d, (k - 1) + 1, Len(d)) /\ Len(t) = Len(d) - (k - 1)
                              /\ \A i \in 1 .. (Len(d) - (k - 1)) : t[i] = d[(k - 1) + i]
    BY <2>1, After
  <2>4. Headed(t, d[k], s)
    <3>1. t[1] = d[k]
      BY <1>1, <2>3
    <3>2. ASSUME NEW i \in 1 .. Len(s) PROVE t[i + 1] = s[i]
      <4>1. PICK n \in Nat : n = Len(d)
        BY <1>1
      <4>2. i \in 1 .. (n - k) /\ k \in 1 .. n
        BY <2>2, <4>1
      <4>3. i + 1 \in 1 .. (n - (k - 1)) /\ (k - 1) + (i + 1) = k + i
        BY <4>2
      <4> QED
        BY <2>2, <2>3, <4>1, <4>2, <4>3
    <3>3. Len(t) = Len(s) + 1
      <4>1. PICK n \in Nat : n = Len(d)
        BY <1>1
      <4>2. Len(t) = n - (k - 1) /\ Len(s) = n - k /\ k \in Int
        BY <2>2, <2>3, <4>1
      <4> QED
        BY <4>2
    <3> QED
      BY <3>1, <3>2, <3>3 DEF Headed
  <2>5. Count(t) = d[k] * Count(s)
    BY <1>1, <2>4, CountHeaded
  <2> QED
    BY <2>2, <2>3, <2>5 DEF Stride
<1> QED
  BY <1>1, <1>2, <1>3, <1>4, <1>5

(* An array with cells has no empty axis, and one without has one.         *)
LEMMA NoEmptyAxis ==
  ASSUME NEW d \in Seq(Nat), Count(d) # 0
  PROVE  /\ \A k \in 1 .. Len(d) : d[k] \in Nat \ {0}
         /\ \A k \in 0 .. Len(d) : Stride(d, k) \in Nat \ {0}
<1> DEFINE S == {k \in 0 .. Len(d) : Stride(d, k) # 0}
<1>1. 0 \in S
  BY Strides
<1>2. ASSUME NEW k \in 0 .. Len(d), k \in S /\ k + 1 <= Len(d)
      PROVE  k + 1 \in S /\ d[k + 1] # 0
  <2>1. k + 1 \in 1 .. Len(d) /\ (k + 1) - 1 = k /\ k + 1 \in 0 .. Len(d)
    BY <1>2, Strides
  <2>2. PICK a \in Nat, b \in Nat : a = d[k + 1] /\ b = Stride(d, k + 1) /\ Stride(d, k) = a * b
    BY <2>1, Strides
  <2>3. a # 0 /\ b # 0
    BY <1>2, <2>2
  <2> QED
    BY <2>1, <2>2, <2>3
<1>3. \A k \in 0 .. Len(d) : k \in S
  <2> HIDE DEF S
  <2> QED
    BY <1>1, <1>2, Strides, InductionUpTo
<1>4. ASSUME NEW k \in 1 .. Len(d) PROVE d[k] # 0
  <2>1. k - 1 \in 0 .. Len(d) /\ (k - 1) + 1 = k /\ (k - 1) + 1 <= Len(d)
    BY Strides
  <2> QED
    BY <1>2, <1>3, <2>1
<1> QED
  BY <1>3, <1>4, Strides

LEMMA EmptyAxis ==
  ASSUME NEW d \in Seq(Nat), Count(d) = 0
  PROVE  \E k \in 1 .. Len(d) : d[k] = 0
<1> SUFFICES ASSUME \A k \in 1 .. Len(d) : d[k] # 0 PROVE FALSE
  OBVIOUS
<1>1. PICK f : Multiplied(d, f) /\ Count(d) = f[Len(d)]
  BY CountSteps
<1> DEFINE S == {k \in 0 .. Len(d) : f[k] # 0}
<1>2. 0 \in S
  BY <1>1, Strides DEF Multiplied
<1>3. ASSUME NEW k \in 0 .. Len(d), k \in S /\ k + 1 <= Len(d) PROVE k + 1 \in S
  <2>1. k + 1 \in 1 .. Len(d) /\ (k + 1) - 1 = k /\ k + 1 \in 0 .. Len(d)
    BY <1>3, Strides
  <2>2. PICK a \in Nat \ {0}, b \in Nat \ {0} : a = f[k] /\ b = d[k + 1]
    BY <1>1, <1>3, <2>1, Strides DEF Multiplied
  <2>3. f[k + 1] = a * b
    BY <1>1, <2>1, <2>2 DEF Multiplied
  <2> QED
    BY <2>1, <2>2, <2>3
<1>4. \A k \in 0 .. Len(d) : k \in S
  <2> HIDE DEF S
  <2> QED
    BY <1>2, <1>3, Strides, InductionUpTo
<1>5. Len(d) \in 0 .. Len(d)
  BY Strides
<1> QED
  BY <1>1, <1>4, <1>5

(* The coordinates in an array of dimensions d.                            *)
Box(d) == {c \in [DOMAIN d -> Nat] : \A k \in DOMAIN d : c[k] < d[k]}

(* f[k] is the address of the first k coordinates among the first k axes.  *)
Addressed(d, c, f) ==
  /\ f \in [0 .. Len(d) -> Nat] /\ f[0] = 0
  /\ \A k \in 1 .. Len(d) : f[k] = f[k - 1] * d[k] + c[k]
Addressing(d, c, f) == f = [k \in 0 .. Len(d) |-> IF k = 0 THEN 0 ELSE f[k - 1] * d[k] + c[k]]

LEMMA AddressedExists ==
  ASSUME NEW d \in Seq(Nat), NEW c \in [DOMAIN d -> Nat]
  PROVE  \E f : Addressed(d, c, f)
<1> DEFINE Two == Nat \X Nat
           z == [k \in 1 .. Len(d) |-> <<d[k], c[k]>>]
           G == [p \in Nat \X Two |-> p[1] * p[2][1] + p[2][2]]
<1>1. G \in [Nat \X Two -> Nat] /\ \A a, b, e \in Nat : G[<<a, <<b, e>>>>] = a * b + e
  <2>1. ASSUME NEW p \in Nat \X Two PROVE p[1] * p[2][1] + p[2][2] \in Nat
    <3>1. p[1] \in Nat /\ p[2] \in Nat \X Nat
      OBVIOUS
    <3>2. p[2][1] \in Nat /\ p[2][2] \in Nat
      BY <3>1
    <3>3. PICK a \in Nat, b \in Nat, e \in Nat : a = p[1] /\ b = p[2][1] /\ e = p[2][2]
      BY <3>1, <3>2
    <3>4. a * b + e \in Nat
      OBVIOUS
    <3> QED
      BY <3>3, <3>4, Zenon
  <2>2. ASSUME NEW a \in Nat, NEW b \in Nat, NEW e \in Nat PROVE G[<<a, <<b, e>>>>] = a * b + e
    <3>1. <<b, e>> \in Two
      OBVIOUS
    <3>2. PICK q \in Two : q = <<b, e>> /\ q[1] = b /\ q[2] = e
      BY <3>1
    <3> HIDE DEF Two
    <3>3. <<a, q>> \in Nat \X Two
      BY <3>2
    <3>4. G[<<a, q>>] = a * q[1] + q[2]
      BY <3>3
    <3> QED
      BY <3>2, <3>4
  <2> QED
    BY <2>1, <2>2
<1>2. z \in [1 .. Len(d) -> Two] /\ \A k \in 1 .. Len(d) : z[k] = <<d[k], c[k]>>
  BY Strides
<1> HIDE DEF G, z
<1>3. z \in Seq(Two) /\ Len(z) = Len(d)
  <2> HIDE DEF Two
  <2> QED
    BY <1>2, MadeASeq, Strides
<1>4. PICK f : Follows(z, Nat, 0, G, f)
  <2>1. 0 \in Nat
    OBVIOUS
  <2> HIDE DEF Two
  <2> QED
    BY <1>1, <1>3, <2>1, RecursionExists
<1>5. /\ f \in [0 .. Len(d) -> Nat] /\ f[0] = 0
      /\ \A k \in 1 .. Len(d) : f[k] = G[<<f[k - 1], z[k]>>]
  BY <1>3, <1>4 DEF Follows
<1>6. ASSUME NEW k \in 1 .. Len(d) PROVE f[k] = f[k - 1] * d[k] + c[k]
  <2>1. k - 1 \in 0 .. Len(d)
    BY Strides
  <2>2. f[k - 1] \in Nat /\ d[k] \in Nat /\ c[k] \in Nat
    BY <1>5, <2>1, Strides
  <2>3. f[k] = G[<<f[k - 1], <<d[k], c[k]>>>>]
    BY <1>2, <1>5
  <2> QED
    BY <1>1, <2>2, <2>3
<1> QED
  BY <1>5, <1>6 DEF Addressed

LEMMA AddressingExists ==
  ASSUME NEW d \in Seq(Nat), NEW c \in [DOMAIN d -> Nat]
  PROVE  \E f : Addressing(d, c, f)
<1>1. PICK f : Addressed(d, c, f)
  BY AddressedExists
<1>2. f = [k \in 0 .. Len(d) |-> IF k = 0 THEN 0 ELSE f[k - 1] * d[k] + c[k]]
  BY <1>1, Strides DEF Addressed
<1> QED
  BY <1>2 DEF Addressing

LEMMA FlatSteps ==
  ASSUME NEW d \in Seq(Nat), NEW c \in [DOMAIN d -> Nat]
  PROVE  \E f : Addressed(d, c, f) /\ Flat(d, c) = f[Len(d)]
<1> DEFINE f == CHOOSE g : Addressing(d, c, g)
<1>1. Addressing(d, c, f)
  BY AddressingExists
<1>2. Flat(d, c) = f[Len(d)]
  BY DEF Flat, Addressing
<1>3. PICK h : Addressed(d, c, h)
  BY AddressedExists
<1> HIDE DEF f
<1>4. f[0] = 0 /\ DOMAIN f = 0 .. Len(d) /\ f = [k \in DOMAIN f |-> f[k]]
  <2>1. 0 \in 0 .. Len(d)
    BY Strides
  <2>2. f = [k \in 0 .. Len(d) |-> IF k = 0 THEN 0 ELSE f[k - 1] * d[k] + c[k]]
    BY <1>1 DEF Addressing
  <2> QED
    BY <2>1, <2>2, Zenon
<1>5. ASSUME NEW k \in 1 .. Len(d) PROVE f[k] = f[k - 1] * d[k] + c[k]
  <2>1. k \in 0 .. Len(d) /\ k # 0
    OBVIOUS
  <2>2. f = [j \in 0 .. Len(d) |-> IF j = 0 THEN 0 ELSE f[j - 1] * d[j] + c[j]]
    BY <1>1 DEF Addressing
  <2> QED
    BY <2>1, <2>2, Zenon
<1> DEFINE S == {k \in 0 .. Len(d) : f[k] = h[k]}
<1>6. 0 \in S
  BY <1>3, <1>4, Strides DEF Addressed
<1>7. ASSUME NEW k \in 0 .. Len(d), k \in S /\ k + 1 <= Len(d) PROVE k + 1 \in S
  <2>1. k + 1 \in 1 .. Len(d) /\ (k + 1) - 1 = k /\ k + 1 \in 0 .. Len(d)
    BY <1>7, Strides
  <2>2. h[k + 1] = h[k] * d[k + 1] + c[k + 1]
    BY <1>3, <2>1 DEF Addressed
  <2>3. f[k + 1] = f[k] * d[k + 1] + c[k + 1]
    BY <1>5, <2>1
  <2> QED
    BY <1>7, <2>1, <2>2, <2>3
<1>8. \A k \in 0 .. Len(d) : k \in S
  <2> HIDE DEF S
  <2> QED
    BY <1>6, <1>7, Strides, InductionUpTo
<1>9. f = h
  <2>1. h = [k \in 0 .. Len(d) |-> h[k]]
    BY <1>3 DEF Addressed
  <2> QED
    BY <1>4, <1>8, <2>1
<1> QED
  BY <1>2, <1>3, <1>9

(* Coordinates have an address inside the array.                           *)
LEMMA FlatBelow ==
  ASSUME NEW d \in Seq(Nat), NEW c \in Box(d)
  PROVE  Flat(d, c) \in Nat /\ Flat(d, c) < Count(d)
<1>1. c \in [DOMAIN d -> Nat] /\ \A k \in 1 .. Len(d) : c[k] \in Nat /\ c[k] < d[k]
  BY Strides DEF Box
<1>2. PICK f : Addressed(d, c, f) /\ Flat(d, c) = f[Len(d)]
  BY <1>1, FlatSteps
<1>3. PICK m : Multiplied(d, m) /\ Count(d) = m[Len(d)]
  BY CountSteps
<1> DEFINE S == {k \in 0 .. Len(d) : f[k] < m[k]}
<1>4. 0 \in S
  BY <1>2, <1>3, Strides DEF Addressed, Multiplied
<1>5. ASSUME NEW k \in 0 .. Len(d), k \in S /\ k + 1 <= Len(d) PROVE k + 1 \in S
  <2>1. k + 1 \in 1 .. Len(d) /\ (k + 1) - 1 = k /\ k + 1 \in 0 .. Len(d)
    BY <1>5, Strides
  <2>2. PICK a \in Nat, b \in Nat, e \in Nat, x \in Nat :
          a = f[k] /\ b = m[k] /\ e = d[k + 1] /\ x = c[k + 1]
    BY <1>1, <1>2, <1>3, <2>1, Strides DEF Addressed, Multiplied
  <2>3. f[k + 1] = a * e + x /\ m[k + 1] = b * e
    BY <1>2, <1>3, <2>1, <2>2 DEF Addressed, Multiplied
  <2>4. a < b /\ x < e
    BY <1>1, <1>5, <2>1, <2>2
  <2> QED
    BY <2>1, <2>3, <2>4, ProductsOrdered
<1>6. \A k \in 0 .. Len(d) : k \in S
  <2> HIDE DEF S
  <2> QED
    BY <1>4, <1>5, Strides, InductionUpTo
<1>7. Len(d) \in 0 .. Len(d)
  BY Strides
<1> QED
  BY <1>2, <1>3, <1>6, <1>7 DEF Addressed

(* The coordinates of an address, and its address again.                   *)
LEMMA FlatOfCoords ==
  ASSUME NEW d \in Seq(Nat), NEW p \in Nat, p < Count(d)
  PROVE  Coords(d, p) \in Box(d) /\ Flat(d, Coords(d, p)) = p
<1>1. /\ \A k \in 1 .. Len(d) : d[k] \in Nat \ {0}
      /\ \A k \in 0 .. Len(d) : Stride(d, k) \in Nat \ {0}
  BY NoEmptyAxis, CountTyped
<1> DEFINE c == Coords(d, p)
<1>2. c = [k \in 1 .. Len(d) |-> (p \div Stride(d, k)) % d[k]]
  BY Strides DEF Coords
<1>3. ASSUME NEW k \in 1 .. Len(d) PROVE (p \div Stride(d, k)) % d[k] \in 0 .. (d[k] - 1)
  <2>1. PICK s \in Nat \ {0}, e \in Nat \ {0} : s = Stride(d, k) /\ e = d[k]
    BY <1>1
  <2>2. p \div s \in Int
    BY DividedBy
  <2> QED
    BY <2>1, <2>2, DividedBy
<1>4. c \in Box(d)
  <2>1. \A k \in 1 .. Len(d) : c[k] \in Nat /\ c[k] < d[k]
    BY <1>1, <1>2, <1>3
  <2>2. c \in [1 .. Len(d) -> Nat]
    BY <1>2, <2>1
  <2> HIDE DEF c
  <2> QED
    BY <2>1, <2>2, Strides DEF Box
<1>5. PICK f : Addressed(d, c, f) /\ Flat(d, c) = f[Len(d)]
  <2>1. c \in [DOMAIN d -> Nat]
    BY <1>4 DEF Box
  <2> HIDE DEF c
  <2> QED
    BY <2>1, FlatSteps
<1> DEFINE S == {k \in 0 .. Len(d) : f[k] = p \div Stride(d, k)}
<1>6. 0 \in S
  <2>1. PICK n \in Nat \ {0} : n = Count(d) /\ n = Stride(d, 0)
    BY CountTyped, Strides
  <2>2. p = 0 * n + p /\ p \in 0 .. (n - 1)
    BY <2>1
  <2>3. p \div n = 0
    BY <2>2, QuotientIs
  <2> QED
    BY <1>5, <2>1, <2>3, Strides DEF Addressed
<1>7. ASSUME NEW k \in 0 .. Len(d), k \in S /\ k + 1 <= Len(d) PROVE k + 1 \in S
  <2>1. k + 1 \in 1 .. Len(d) /\ (k + 1) - 1 = k /\ k + 1 \in 0 .. Len(d)
    BY <1>7, Strides
  <2>2. PICK s \in Nat \ {0}, e \in Nat \ {0} : s = Stride(d, k + 1) /\ e = d[k + 1]
    BY <1>1, <2>1
  <2>3. Stride(d, k) = e * s
    BY <2>1, <2>2, Strides
  <2>4. f[k] = p \div (e * s)
    BY <1>7, <2>3
  <2>5. c[k + 1] = (p \div s) % e
    BY <1>2, <2>1, <2>2
  <2>6. f[k + 1] = (p \div (e * s)) * e + ((p \div s) % e)
    BY <1>5, <2>1, <2>2, <2>4, <2>5 DEF Addressed
  <2> QED
    BY <2>1, <2>2, <2>6, QuotientTwice
<1>8. \A k \in 0 .. Len(d) : k \in S
  <2> HIDE DEF S
  <2> QED
    BY <1>6, <1>7, Strides, InductionUpTo
<1>9. Len(d) \in 0 .. Len(d) /\ p \div 1 = p
  BY Strides
<1> QED
  BY <1>4, <1>5, <1>8, <1>9, Strides

(* And the coordinates at an address are those it is the address of.       *)
LEMMA CoordsOfFlat ==
  ASSUME NEW d \in Seq(Nat), NEW c \in Box(d)
  PROVE  Coords(d, Flat(d, c)) = c
<1>1. c \in [1 .. Len(d) -> Nat] /\ \A k \in 1 .. Len(d) : c[k] \in Nat /\ c[k] < d[k]
  BY Strides DEF Box
<1>2. PICK f : Addressed(d, c, f) /\ Flat(d, c) = f[Len(d)]
  BY <1>1, FlatSteps, Strides
<1>3. PICK p \in Nat : p = Flat(d, c) /\ p < Count(d)
  BY FlatBelow
<1>4. /\ \A k \in 1 .. Len(d) : d[k] \in Nat \ {0}
      /\ \A k \in 0 .. Len(d) : Stride(d, k) \in Nat \ {0}
  BY <1>3, NoEmptyAxis, CountTyped
<1>5. PICK n \in Nat : n = Len(d)
  BY Strides
<1> DEFINE S == {j \in 0 .. n : f[n - j] = p \div Stride(d, n - j)}
<1>6. ASSUME NEW k \in 1 .. n, f[k] = p \div Stride(d, k)
      PROVE  f[k - 1] = p \div Stride(d, k - 1) /\ (p \div Stride(d, k)) % d[k] = c[k]
  <2>1. PICK s \in Nat \ {0}, e \in Nat \ {0}, a \in Nat, x \in Nat :
          s = Stride(d, k) /\ e = d[k] /\ a = f[k - 1] /\ x = c[k] /\ x < e
    <3>1. k \in 1 .. Len(d) /\ k \in 0 .. Len(d) /\ k - 1 \in 0 .. Len(d)
      BY <1>5
    <3> QED
      BY <1>1, <1>2, <1>4, <3>1 DEF Addressed
  <2>2. f[k] = a * e + x
    BY <1>2, <1>5, <2>1 DEF Addressed
  <2>3. p \div s = a * e + x
    BY <1>6, <2>1, <2>2
  <2>4. (p \div s) \div e = a /\ (p \div s) % e = x
    <3>1. x < e
      BY <2>1
    <3>2. x \in 0 .. (e - 1)
      BY <3>1
    <3>3. PICK t \in Int : t = p \div s
      BY DividedBy
    <3>4. t = a * e + x
      BY <2>3, <3>3
    <3>5. t \div e = a /\ t % e = x
      BY <3>2, <3>4, QuotientIs
    <3> QED
      BY <3>3, <3>5
  <2>5. Stride(d, k - 1) = e * s
    BY <1>5, <2>1, Strides
  <2>6. p \div (e * s) = a
    BY <2>4, QuotientTwice
  <2> QED
    BY <2>1, <2>4, <2>5, <2>6
<1>7. 0 \in S
  BY <1>2, <1>3, <1>5, Strides
<1>8. ASSUME NEW j \in 0 .. n, j \in S /\ j + 1 <= n PROVE j + 1 \in S
  <2>1. n - j \in 1 .. n /\ (n - j) - 1 = n - (j + 1) /\ j + 1 \in 0 .. n
    BY <1>8
  <2>2. f[n - j] = p \div Stride(d, n - j)
    BY <1>8
  <2>3. f[(n - j) - 1] = p \div Stride(d, (n - j) - 1)
    BY <1>6, <2>1, <2>2
  <2> QED
    BY <2>1, <2>3
<1>9. \A j \in 0 .. n : j \in S
  <2> HIDE DEF S
  <2> QED
    BY <1>7, <1>8, InductionUpTo
<1>10. ASSUME NEW k \in 1 .. n PROVE (p \div Stride(d, k)) % d[k] = c[k]
  <2>1. n - k \in 0 .. n /\ n - (n - k) = k
    OBVIOUS
  <2>2. n - k \in S
    BY <1>9, <2>1
  <2>3. f[k] = p \div Stride(d, k)
    BY <2>1, <2>2
  <2> QED
    BY <1>6, <2>3
<1>11. Coords(d, p) = [k \in 1 .. n |-> (p \div Stride(d, k)) % d[k]]
  BY <1>5, Strides DEF Coords
<1> HIDE DEF S
<1> QED
  BY <1>1, <1>3, <1>5, <1>10, <1>11

-----------------------------------------------------------------------------
(* Arrays rebuilt cell by cell                                             *)

CellOf(v, c) == v.data[Flat(v.dims, c) + 1]
(* The array of d whose cell at c is the cell of v at f[c].                *)
Rebuilt(v, d, f, ls) == Labelled(d, [i \in 1 .. Count(d) |-> CellOf(v, f[Coords(d, i - 1)])], ls)

LEMMA Parts ==
  ASSUME NEW C, NEW v \in ArraysOf(C)
  PROVE  /\ v.dims \in Seq(Nat) /\ v.data \in Seq(C) /\ v.labels \in Seq(Seq(Nat))
         /\ v = Labelled(v.dims, v.data, v.labels)
         /\ v.tag = "array" /\ IsArr(v) /\ ~IsStr(v) /\ RankOf(v) = Len(v.dims)
         /\ Len(v.dims) \in Nat /\ DOMAIN v.dims = 1 .. Len(v.dims)
<1>1. PICK d \in Seq(Nat), s \in Seq(C), ls \in Seq(Seq(Nat)) : v = Labelled(d, s, ls)
  BY DEF ArraysOf
<1>2. v.tag = "array" /\ v.dims = d /\ v.data = s /\ v.labels = ls
  BY <1>1 DEF Labelled
<1>3. IsArr(v) /\ ~IsStr(v)
  BY <1>2 DEF IsArr, IsStr
<1>4. RankOf(v) = Len(v.dims)
  BY <1>3 DEF RankOf, Dims
<1> QED
  BY <1>1, <1>2, <1>3, <1>4, LenProperties

LEMMA Made ==
  ASSUME NEW C, NEW d \in Seq(Nat), NEW s \in Seq(C), NEW ls \in Seq(Seq(Nat))
  PROVE  /\ Labelled(d, s, ls) \in ArraysOf(C)
         /\ Labelled(d, s, ls).dims = d /\ Labelled(d, s, ls).data = s
         /\ Labelled(d, s, ls).labels = ls
BY DEF Labelled, ArraysOf

LEMMA CellTyped ==
  ASSUME NEW C, NEW v \in ArraysOf(C), Len(v.data) = Count(v.dims), NEW c \in Box(v.dims)
  PROVE  /\ Flat(v.dims, c) \in Nat /\ Flat(v.dims, c) < Len(v.data)
         /\ CellOf(v, c) \in C
<1>1. v.dims \in Seq(Nat) /\ v.data \in Seq(C)
  BY Parts
<1>2. PICK p \in Nat : p = Flat(v.dims, c) /\ p < Count(v.dims)
  BY <1>1, FlatBelow
<1>3. p + 1 \in 1 .. Len(v.data)
  BY <1>1, <1>2, CountTyped
<1>4. v.data[p + 1] \in C
  BY <1>1, <1>3, ElementOfSeq
<1> QED
  BY <1>2, <1>4 DEF CellOf

Built(C, v, d, f, ls, r) ==
  /\ r \in ArraysOf(C) /\ r.dims = d /\ r.labels = ls
  /\ Len(r.data) = Count(d) /\ \A c \in Box(d) : CellOf(r, c) = CellOf(v, f[c])

LEMMA RebuiltParts ==
  ASSUME NEW C, NEW v \in ArraysOf(C), Len(v.data) = Count(v.dims),
         NEW d \in Seq(Nat), NEW f \in [Box(d) -> Box(v.dims)], NEW ls \in Seq(Seq(Nat))
  PROVE  Built(C, v, d, f, ls, Rebuilt(v, d, f, ls))
<1> DEFINE s == [i \in 1 .. Count(d) |-> CellOf(v, f[Coords(d, i - 1)])]
           r == Rebuilt(v, d, f, ls)
<1>1. Count(d) \in Nat
  BY CountTyped
<1>2. ASSUME NEW i \in 1 .. Count(d) PROVE CellOf(v, f[Coords(d, i - 1)]) \in C
  <2>1. i - 1 \in Nat /\ i - 1 < Count(d)
    BY <1>1
  <2>2. Coords(d, i - 1) \in Box(d)
    BY <2>1, FlatOfCoords
  <2>3. f[Coords(d, i - 1)] \in Box(v.dims)
    BY <2>2
  <2> QED
    BY <2>3, CellTyped
<1>3. s \in [1 .. Count(d) -> C]
  BY <1>2
<1>4. s \in Seq(C) /\ Len(s) = Count(d)
  <2> HIDE DEF s
  <2> QED
    BY <1>1, <1>3, MadeASeq
<1>5. r = Labelled(d, s, ls)
  BY DEF Rebuilt
<1>6. r \in ArraysOf(C) /\ r.dims = d /\ r.data = s /\ r.labels = ls
  <2> HIDE DEF s, r
  <2> QED
    BY <1>4, <1>5, Made
<1>7. ASSUME NEW c \in Box(d) PROVE CellOf(r, c) = CellOf(v, f[c])
  <2>1. PICK p \in Nat : p = Flat(d, c) /\ p < Count(d)
    BY FlatBelow
  <2>2. p + 1 \in 1 .. Count(d) /\ (p + 1) - 1 = p
    BY <1>1, <2>1
  <2>3. s[p + 1] = CellOf(v, f[Coords(d, p)])
    BY <2>2
  <2>4. Coords(d, p) = c
    BY <2>1, CoordsOfFlat
  <2>5. CellOf(r, c) = s[p + 1]
    <3> HIDE DEF s, r
    <3> QED
      BY <1>6, <2>1 DEF CellOf
  <2> QED
    BY <2>3, <2>4, <2>5
<1> HIDE DEF s, r
<1>8. Built(C, v, d, f, ls, r)
  BY <1>4, <1>6, <1>7 DEF Built
<1> QED
  BY <1>8 DEF r

LEMMA RebuiltAlike ==
  ASSUME NEW C, NEW v \in ArraysOf(C), NEW w \in ArraysOf(C),
         NEW d \in Seq(Nat), NEW f, NEW g, NEW ls,
         \A c \in Box(d) : CellOf(v, f[c]) = CellOf(w, g[c])
  PROVE  Rebuilt(v, d, f, ls) = Rebuilt(w, d, g, ls)
<1>1. ASSUME NEW i \in 1 .. Count(d)
      PROVE  CellOf(v, f[Coords(d, i - 1)]) = CellOf(w, g[Coords(d, i - 1)])
  <2>1. i - 1 \in Nat /\ i - 1 < Count(d)
    BY CountTyped
  <2>2. Coords(d, i - 1) \in Box(d)
    BY <2>1, FlatOfCoords
  <2> QED
    BY <2>2
<1> QED
  BY <1>1, Zenon DEF Rebuilt

(* On S, f is h and then g.                                                *)
Through(S, f, g, h) == \A x \in S : f[x] = g[h[x]]

LEMMA RebuiltTwice ==
  ASSUME NEW C, NEW v, NEW d, NEW f, NEW l, NEW r, NEW e, NEW g, NEW h, NEW ls,
         v \in ArraysOf(C), Built(C, v, d, f, l, r),
         e \in Seq(Nat), g \in [Box(e) -> Box(d)], Through(Box(e), h, f, g)
  PROVE  Rebuilt(r, e, g, ls) = Rebuilt(v, e, h, ls)
<1>1. r \in ArraysOf(C)
  BY DEF Built
<1>2. ASSUME NEW c \in Box(e) PROVE CellOf(r, g[c]) = CellOf(v, h[c])
  <2>1. g[c] \in Box(d) /\ h[c] = f[g[c]]
    BY DEF Through
  <2> QED
    BY <2>1 DEF Built
<1> QED
  BY <1>1, <1>2, RebuiltAlike

LEMMA RebuiltSame ==
  ASSUME NEW C, NEW v \in ArraysOf(C), Len(v.data) = Count(v.dims),
         NEW f, \A c \in Box(v.dims) : f[c] = c
  PROVE  Rebuilt(v, v.dims, f, v.labels) = v
<1>1. /\ v.dims \in Seq(Nat) /\ v.data \in Seq(C)
      /\ v = Labelled(v.dims, v.data, v.labels)
  BY Parts
<1>2. ASSUME NEW i \in 1 .. Count(v.dims) PROVE CellOf(v, f[Coords(v.dims, i - 1)]) = v.data[i]
  <2>1. i - 1 \in Nat /\ i - 1 < Count(v.dims) /\ (i - 1) + 1 = i
    BY <1>1, CountTyped
  <2>2. Coords(v.dims, i - 1) \in Box(v.dims) /\ Flat(v.dims, Coords(v.dims, i - 1)) = i - 1
    BY <1>1, <2>1, FlatOfCoords
  <2>3. f[Coords(v.dims, i - 1)] = Coords(v.dims, i - 1)
    BY <2>2
  <2> QED
    BY <2>1, <2>2, <2>3 DEF CellOf
<1> DEFINE s == [i \in 1 .. Count(v.dims) |-> CellOf(v, f[Coords(v.dims, i - 1)])]
<1>3. v.data = [i \in 1 .. Len(v.data) |-> v.data[i]]
  BY <1>1
<1>4. s = v.data
  BY <1>2, <1>3
<1>5. Rebuilt(v, v.dims, f, v.labels) = Labelled(v.dims, s, v.labels)
  BY DEF Rebuilt
<1> HIDE DEF s
<1> QED
  BY <1>1, <1>4, <1>5

(* What the primitives build: they read no address outside the storage.    *)
LEMMA GatheredIs ==
  ASSUME NEW C, NEW v \in ArraysOf(C), Len(v.data) = Count(v.dims),
         NEW d \in Seq(Nat), NEW f \in [Box(d) -> Box(v.dims)], NEW ls
  PROVE  Gathered(d, v.data, [i \in 1 .. Count(d) |-> Flat(v.dims, f[Coords(d, i - 1)])], ls)
           = Rebuilt(v, d, f, ls)
<1> DEFINE src == [i \in 1 .. Count(d) |-> Flat(v.dims, f[Coords(d, i - 1)])]
<1>1. ASSUME NEW i \in 1 .. Count(d)
      PROVE  src[i] \in Nat /\ src[i] < Len(v.data) /\ v.data[src[i] + 1] = CellOf(v, f[Coords(d, i - 1)])
  <2>1. i - 1 \in Nat /\ i - 1 < Count(d)
    BY CountTyped
  <2>2. Coords(d, i - 1) \in Box(d)
    BY <2>1, FlatOfCoords
  <2>3. f[Coords(d, i - 1)] \in Box(v.dims)
    BY <2>2
  <2>4. src[i] = Flat(v.dims, f[Coords(d, i - 1)])
    OBVIOUS
  <2> HIDE DEF src
  <2>5. src[i] \in Nat /\ src[i] < Len(v.data)
    BY <2>3, <2>4, CellTyped
  <2> QED
    BY <2>4, <2>5 DEF CellOf
<1>2. DOMAIN src = 1 .. Count(d)
  OBVIOUS
<1> HIDE DEF src
<1>3. ~\E i \in DOMAIN src : src[i] >= Len(v.data)
  <2>1. Len(v.data) \in Nat
    BY Parts, LenProperties
  <2> QED
    BY <1>1, <1>2, <2>1
<1>4. Gathered(d, v.data, src, ls) = Labelled(d, [i \in DOMAIN src |-> v.data[src[i] + 1]], ls)
  BY <1>3, Zenon DEF Gathered
<1>5. [i \in DOMAIN src |-> v.data[src[i] + 1]]
        = [i \in 1 .. Count(d) |-> CellOf(v, f[Coords(d, i - 1)])]
  BY <1>1, <1>2, Zenon
<1>6. Gathered(d, v.data, src, ls) = Rebuilt(v, d, f, ls)
  BY <1>4, <1>5, Zenon DEF Rebuilt
<1> QED
  BY <1>6 DEF src

-----------------------------------------------------------------------------
(* An axis turned: the cell at x comes from g[x], the title at x from h[x] *)

Typed(C, v) == v \in ArraysOf(C) /\ FlatArray(v)

LEMMA LabelsTyped ==
  ASSUME NEW C, NEW v, Typed(C, v), v.labels # <<>>
  PROVE  /\ Len(v.labels) = Len(v.dims) /\ DOMAIN v.labels = 1 .. Len(v.dims)
         /\ \A k \in 1 .. Len(v.dims) : /\ v.labels[k] \in Seq(Nat)
                                        /\ Len(v.labels[k]) \in {0, v.dims[k]}
                                        /\ Len(v.labels[k]) \in Nat /\ v.dims[k] \in Nat
                                        /\ DOMAIN v.labels[k] = 1 .. Len(v.labels[k])
<1>1. v \in ArraysOf(C) /\ FlatArray(v)
  BY DEF Typed
<1>2. v.labels \in Seq(Seq(Nat)) /\ v.dims \in Seq(Nat) /\ Len(v.dims) \in Nat
  BY <1>1, Parts
<1>3. Len(v.labels) = Len(v.dims) /\ \A k \in DOMAIN v.labels : Len(v.labels[k]) \in {0, v.dims[k]}
  BY <1>1 DEF FlatArray, LabelsFit
<1>4. DOMAIN v.labels = 1 .. Len(v.dims)
  BY <1>2, <1>3, LenProperties
<1>5. ASSUME NEW k \in 1 .. Len(v.dims)
      PROVE  v.labels[k] \in Seq(Nat) /\ v.dims[k] \in Nat
  BY <1>2, <1>3, ElementOfSeq
<1>6. ASSUME NEW k \in 1 .. Len(v.dims)
      PROVE  Len(v.labels[k]) \in Nat /\ DOMAIN v.labels[k] = 1 .. Len(v.labels[k])
  BY <1>5, LenProperties
<1> QED
  BY <1>3, <1>4, <1>5, <1>6

LabelsOk(ls, d) == \/ ls = <<>>
                   \/ Len(ls) = Len(d) /\ \A k \in DOMAIN ls : Len(ls[k]) \in {0, d[k]}

LEMMA FlatRebuilt ==
  ASSUME NEW C, NEW v, NEW d, NEW f, NEW ls, NEW r, Built(C, v, d, f, ls, r), d # <<>>, LabelsOk(ls, d)
  PROVE  Typed(C, r)
<1>1. r \in ArraysOf(C) /\ r.dims = d /\ r.labels = ls /\ Len(r.data) = Count(d)
  BY DEF Built
<1>2. IsArr(r)
  BY <1>1, Parts
<1> QED
  BY <1>1, <1>2 DEF Typed, FlatArray, LabelsFit, LabelsOk

LEMMA TypedParts ==
  ASSUME NEW C, NEW v, Typed(C, v)
  PROVE  /\ v \in ArraysOf(C) /\ v.dims \in Seq(Nat) /\ v.labels \in Seq(Seq(Nat)) /\ v.data \in Seq(C)
         /\ v.dims # <<>> /\ Len(v.data) = Count(v.dims) /\ LabelsOk(v.labels, v.dims)
         /\ Len(v.dims) \in Nat \ {0} /\ RankOf(v) = Len(v.dims)
         /\ v.tag = "array" /\ IsArr(v) /\ ~IsStr(v)
<1>1. v \in ArraysOf(C) /\ FlatArray(v)
  BY DEF Typed
<1>2. Len(v.dims) # 0
  BY <1>1, Parts, EmptySeq DEF FlatArray
<1> QED
  BY <1>1, <1>2, Parts DEF FlatArray, LabelsFit, LabelsOk

(* Labels with those of one axis replaced by as many others.               *)
Relabelled(v, k, s, ls) ==
  /\ ls \in Seq(Seq(Nat)) /\ LabelsOk(ls, v.dims) /\ ls # <<>>
  /\ ls[k] = s /\ Len(ls) = Len(v.dims)
  /\ \A t : [ls EXCEPT ![k] = t] = [v.labels EXCEPT ![k] = t]

LEMMA LabelsChanged ==
  ASSUME NEW C, NEW v, Typed(C, v), NEW k \in 1 .. Len(v.dims), v.labels # <<>>,
         NEW s \in Seq(Nat), Len(s) = Len(v.labels[k])
  PROVE  Relabelled(v, k, s, [v.labels EXCEPT ![k] = s])
<1> DEFINE L == [v.labels EXCEPT ![k] = s]
<1>1. PICK n \in Nat : n = Len(v.dims) /\ k \in 1 .. n
  BY TypedParts
<1>2. /\ v.labels \in Seq(Seq(Nat)) /\ Len(v.labels) = n /\ DOMAIN v.labels = 1 .. n
      /\ \A j \in 1 .. n : v.labels[j] \in Seq(Nat) /\ Len(v.labels[j]) \in {0, v.dims[j]}
  BY <1>1, LabelsTyped, TypedParts
<1>3. v.labels \in [1 .. n -> Seq(Nat)]
  BY <1>2
<1>4. L \in [1 .. n -> Seq(Nat)] /\ L[k] = s /\ \A j \in 1 .. n : j # k => L[j] = v.labels[j]
  BY <1>1, <1>3
<1>11. \A t : [L EXCEPT ![k] = t] = [v.labels EXCEPT ![k] = t]
  BY <1>1, <1>3
<1> HIDE DEF L
<1>5. L \in Seq(Seq(Nat)) /\ Len(L) = n
  BY <1>4, MadeASeq
<1>6. \A j \in 1 .. n : Len(L[j]) \in {0, v.dims[j]}
  BY <1>1, <1>2, <1>4
<1>7. DOMAIN L = 1 .. n
  BY <1>4
<1>8. LabelsOk(L, v.dims)
  BY <1>1, <1>5, <1>6, <1>7 DEF LabelsOk
<1>9. L # <<>>
  <2>1. <<>> \in Seq(Nat) /\ Len(<<>>) = 0
    OBVIOUS
  <2> QED
    BY <1>1, <1>5, <2>1
<1>10. Relabelled(v, k, s, L)
  BY <1>1, <1>4, <1>5, <1>8, <1>9, <1>11 DEF Relabelled
<1> QED
  BY <1>10 DEF L

LEMMA LabelsSame ==
  ASSUME NEW C, NEW v, Typed(C, v), NEW k \in 1 .. Len(v.dims), v.labels # <<>>,
         NEW s, s = v.labels[k]
  PROVE  [v.labels EXCEPT ![k] = s] = v.labels
<1>1. PICK n \in Nat : n = Len(v.dims) /\ k \in 1 .. n
  BY TypedParts
<1>2. v.labels \in Seq(Seq(Nat)) /\ DOMAIN v.labels = 1 .. n
  BY <1>1, LabelsTyped, TypedParts
<1>3. v.labels = [j \in 1 .. n |-> v.labels[j]]
  BY <1>2
<1> QED
  BY <1>1, <1>2, <1>3

LEMMA MovedIs ==
  ASSUME NEW C, NEW v, Typed(C, v), NEW f \in [Box(v.dims) -> Box(v.dims)], NEW ls, NEW from,
         from = [i \in 1 .. Count(v.dims) |-> f[Coords(v.dims, i - 1)]]
  PROVE  Moved(v, from, ls) = Rebuilt(v, v.dims, f, ls)
<1>1. [i \in DOMAIN from |-> Flat(v.dims, from[i])]
        = [i \in 1 .. Count(v.dims) |-> Flat(v.dims, f[Coords(v.dims, i - 1)])]
  OBVIOUS
<1>2. v \in ArraysOf(C) /\ Len(v.data) = Count(v.dims) /\ v.dims \in Seq(Nat)
  BY TypedParts
<1>3. Gathered(v.dims, v.data, [i \in 1 .. Count(v.dims) |-> Flat(v.dims, f[Coords(v.dims, i - 1)])], ls)
        = Rebuilt(v, v.dims, f, ls)
  BY <1>2, GatheredIs
<1> QED
  BY <1>1, <1>3, Zenon DEF Moved

LEMMA AxisIs ==
  ASSUME NEW C, NEW v, Typed(C, v), NEW k \in 0 .. (Len(v.dims) - 1)
  PROVE  AxisOf(v, k) = k + 1 /\ k + 1 \in 1 .. Len(v.dims)
BY TypedParts DEF AxisOf, Least

Put(c, k, x) == [c EXCEPT ![k] = x]
Along(d, k, g) == [c \in Box(d) |-> Put(c, k, g[c[k]])]
Placed(s, h) == [i \in DOMAIN s |-> s[h[i - 1] + 1]]
Titles(ls, k, h) == IF ls = <<>> THEN ls ELSE [ls EXCEPT ![k] = Placed(@, h)]
Turned(v, k, g, h) == IF Count(v.dims) = 0 THEN v
                      ELSE Rebuilt(v, v.dims, Along(v.dims, k, g), Titles(v.labels, k, h))
Within(e) == [0 .. (e - 1) -> 0 .. (e - 1)]

LEMMA AlongIs ==
  ASSUME NEW d \in Seq(Nat), NEW k \in 1 .. Len(d), NEW g \in Within(d[k])
  PROVE  /\ Along(d, k, g) \in [Box(d) -> Box(d)]
         /\ \A c \in Box(d) : c[k] \in 0 .. (d[k] - 1) /\ Along(d, k, g)[c] = Put(c, k, g[c[k]])
<1>1. ASSUME NEW c \in Box(d)
      PROVE  c[k] \in 0 .. (d[k] - 1) /\ Put(c, k, g[c[k]]) \in Box(d)
  <2>1. /\ c \in [1 .. Len(d) -> Nat] /\ DOMAIN d = 1 .. Len(d)
        /\ \A j \in 1 .. Len(d) : c[j] < d[j] /\ d[j] \in Nat
    BY Strides DEF Box
  <2>2. PICK e \in Nat : e = d[k] /\ c[k] \in 0 .. (e - 1)
    BY <2>1
  <2>3. PICK y \in Nat : y = g[c[k]] /\ y < e
    BY <2>2 DEF Within
  <2> DEFINE b == [c EXCEPT ![k] = y]
  <2>4. b \in [1 .. Len(d) -> Nat] /\ b[k] = y /\ \A j \in 1 .. Len(d) : j # k => b[j] = c[j]
    BY <2>1
  <2> HIDE DEF b
  <2>5. \A j \in 1 .. Len(d) : b[j] < d[j]
    BY <2>1, <2>2, <2>3, <2>4
  <2>6. b \in Box(d)
    BY <2>1, <2>4, <2>5 DEF Box
  <2> QED
    BY <2>2, <2>3, <2>6 DEF b, Put
<1> QED
  BY <1>1 DEF Along

LEMMA AlongTwice ==
  ASSUME NEW d \in Seq(Nat), NEW k \in 1 .. Len(d), NEW g \in Within(d[k]), NEW h \in Within(d[k]),
         NEW f, Through(0 .. (d[k] - 1), f, g, h)
  PROVE  Through(Box(d), Along(d, k, f), Along(d, k, g), Along(d, k, h))
<1> SUFFICES ASSUME NEW c \in Box(d) PROVE Along(d, k, f)[c] = Along(d, k, g)[Along(d, k, h)[c]]
  BY DEF Through
<1>1. c[k] \in 0 .. (d[k] - 1) /\ c \in [1 .. Len(d) -> Nat]
  BY AlongIs, Strides DEF Box
<1>2. PICK b \in Box(d) : b = Along(d, k, h)[c] /\ b = Put(c, k, h[c[k]])
  <2>1. Along(d, k, h) \in [Box(d) -> Box(d)] /\ Along(d, k, h)[c] = Put(c, k, h[c[k]])
    BY AlongIs
  <2>2. Along(d, k, h)[c] \in Box(d)
    BY <2>1
  <2> QED
    BY <2>1, <2>2
<1>3. Along(d, k, g)[b] = Put(b, k, g[b[k]])
  BY AlongIs
<1>4. b[k] = h[c[k]]
  BY <1>1, <1>2 DEF Put
<1>5. Put(b, k, g[b[k]]) = Put(c, k, f[c[k]])
  <2>1. f[c[k]] = g[h[c[k]]]
    BY <1>1 DEF Through
  <2> QED
    BY <1>1, <1>2, <1>4, <2>1 DEF Put
<1>6. Along(d, k, f)[c] = Put(c, k, f[c[k]])
  BY DEF Along
<1> QED
  BY <1>2, <1>3, <1>5, <1>6

LEMMA PlacedIs ==
  ASSUME NEW s \in Seq(Nat), NEW e \in Nat, Len(s) \in {0, e}, NEW h \in Within(e)
  PROVE  Placed(s, h) \in Seq(Nat) /\ Len(Placed(s, h)) = Len(s)
<1>1. PICK n \in Nat : n = Len(s) /\ DOMAIN s = 1 .. n /\ \A i \in 1 .. n : s[i] \in Nat
  BY LenProperties, ElementOfSeq
<1>2. ASSUME NEW i \in 1 .. n PROVE s[h[i - 1] + 1] \in Nat
  <2>1. n = e /\ i - 1 \in 0 .. (e - 1)
    BY <1>1
  <2>2. h[i - 1] \in 0 .. (e - 1)
    BY <2>1 DEF Within
  <2>3. h[i - 1] + 1 \in 1 .. n
    BY <2>1, <2>2
  <2> QED
    BY <1>1, <2>3
<1>3. Placed(s, h) \in [1 .. n -> Nat]
  BY <1>1, <1>2 DEF Placed
<1> QED
  BY <1>1, <1>3, MadeASeq

LEMMA PlacedTwice ==
  ASSUME NEW s \in Seq(Nat), NEW e \in Nat, Len(s) \in {0, e}, NEW g \in Within(e), NEW h \in Within(e),
         NEW f, Through(0 .. (e - 1), f, g, h)
  PROVE  Placed(Placed(s, g), h) = Placed(s, f)
<1>1. PICK n \in Nat : n = Len(s) /\ DOMAIN s = 1 .. n
  BY LenProperties
<1>2. PICK t : t = Placed(s, g) /\ DOMAIN t = 1 .. n /\ \A i \in 1 .. n : t[i] = s[g[i - 1] + 1]
  <2>1. Placed(s, g) = [i \in 1 .. n |-> s[g[i - 1] + 1]]
    BY <1>1 DEF Placed
  <2> QED
    BY <2>1
<1>3. ASSUME NEW i \in 1 .. n PROVE t[h[i - 1] + 1] = s[f[i - 1] + 1]
  <2>1. n = e /\ i - 1 \in 0 .. (e - 1)
    BY <1>1
  <2>2. PICK y \in 0 .. (e - 1) : y = h[i - 1]
    BY <2>1 DEF Within
  <2>3. y + 1 \in 1 .. n /\ (y + 1) - 1 = y
    BY <2>1
  <2>4. t[y + 1] = s[g[y] + 1]
    BY <1>2, <2>3
  <2>5. f[i - 1] = g[y]
    BY <2>1, <2>2 DEF Through
  <2> QED
    BY <2>2, <2>4, <2>5
<1> QED
  BY <1>1, <1>2, <1>3, Zenon DEF Placed

LEMMA PlacedSame ==
  ASSUME NEW s \in Seq(Nat), NEW e \in Nat, Len(s) \in {0, e},
         NEW f, \A x \in 0 .. (e - 1) : f[x] = x
  PROVE  Placed(s, f) = s
<1>1. PICK n \in Nat : n = Len(s) /\ DOMAIN s = 1 .. n /\ s = [i \in 1 .. n |-> s[i]]
  BY LenProperties
<1>2. ASSUME NEW i \in 1 .. n PROVE s[f[i - 1] + 1] = s[i]
  <2>1. i - 1 \in 0 .. (e - 1) /\ (i - 1) + 1 = i
    BY <1>1
  <2> QED
    BY <2>1
<1> QED
  BY <1>1, <1>2, Zenon DEF Placed

LEMMA TitlesIs ==
  ASSUME NEW C, NEW v, Typed(C, v), NEW k \in 1 .. Len(v.dims), NEW h \in Within(v.dims[k])
  PROVE  Titles(v.labels, k, h) \in Seq(Seq(Nat)) /\ LabelsOk(Titles(v.labels, k, h), v.dims)
<1>1. CASE v.labels = <<>>
  <2>1. Titles(v.labels, k, h) = v.labels
    BY <1>1 DEF Titles
  <2> QED
    BY <2>1, TypedParts
<1>2. CASE v.labels # <<>>
  <2>1. PICK s \in Seq(Nat), e \in Nat : s = v.labels[k] /\ e = v.dims[k] /\ Len(s) \in {0, e}
    BY <1>2, LabelsTyped
  <2>2. PICK t \in Seq(Nat) : t = Placed(s, h) /\ Len(t) = Len(s)
    BY <2>1, PlacedIs
  <2>3. Relabelled(v, k, t, [v.labels EXCEPT ![k] = t])
    BY <1>2, <2>1, <2>2, LabelsChanged
  <2>4. Titles(v.labels, k, h) = [v.labels EXCEPT ![k] = t]
    BY <1>2, <2>1, <2>2 DEF Titles
  <2> QED
    BY <2>3, <2>4 DEF Relabelled
<1> QED
  BY <1>1, <1>2

LEMMA TitlesTwice ==
  ASSUME NEW C, NEW v, Typed(C, v), NEW k \in 1 .. Len(v.dims),
         NEW g \in Within(v.dims[k]), NEW h \in Within(v.dims[k]),
         NEW f, Through(0 .. (v.dims[k] - 1), f, g, h)
  PROVE  Titles(Titles(v.labels, k, g), k, h) = Titles(v.labels, k, f)
<1>1. CASE v.labels = <<>>
  BY <1>1 DEF Titles
<1>2. CASE v.labels # <<>>
  <2>1. PICK s \in Seq(Nat), e \in Nat : s = v.labels[k] /\ e = v.dims[k] /\ Len(s) \in {0, e}
    BY <1>2, LabelsTyped
  <2>2. PICK t \in Seq(Nat) : t = Placed(s, g) /\ Len(t) = Len(s)
    BY <2>1, PlacedIs
  <2>3. PICK u : u = Placed(t, h)
    OBVIOUS
  <2>4. Placed(s, f) = u
    BY <2>1, <2>2, <2>3, PlacedTwice
  <2>5. PICK ls : ls = [v.labels EXCEPT ![k] = t]
    OBVIOUS
  <2>6. Relabelled(v, k, t, ls)
    BY <1>2, <2>1, <2>2, <2>5, LabelsChanged
  <2>7. Titles(v.labels, k, g) = ls
    BY <1>2, <2>1, <2>2, <2>5 DEF Titles
  <2>8. Titles(ls, k, h) = [ls EXCEPT ![k] = u]
    BY <2>3, <2>6 DEF Titles, Relabelled
  <2>9. Titles(v.labels, k, f) = [v.labels EXCEPT ![k] = u]
    BY <1>2, <2>1, <2>4 DEF Titles
  <2> QED
    BY <2>6, <2>7, <2>8, <2>9 DEF Relabelled
<1> QED
  BY <1>1, <1>2

LEMMA TitlesSame ==
  ASSUME NEW C, NEW v, Typed(C, v), NEW k \in 1 .. Len(v.dims),
         NEW f, \A x \in 0 .. (v.dims[k] - 1) : f[x] = x
  PROVE  Titles(v.labels, k, f) = v.labels
<1>1. CASE v.labels = <<>>
  BY <1>1 DEF Titles
<1>2. CASE v.labels # <<>>
  <2>1. PICK s \in Seq(Nat), e \in Nat : s = v.labels[k] /\ e = v.dims[k] /\ Len(s) \in {0, e}
    BY <1>2, LabelsTyped
  <2>2. Placed(s, f) = s
    BY <2>1, PlacedSame
  <2>3. Titles(v.labels, k, f) = [v.labels EXCEPT ![k] = s]
    BY <1>2, <2>1, <2>2 DEF Titles
  <2> QED
    BY <1>2, <2>1, <2>3, LabelsSame
<1> QED
  BY <1>1, <1>2

-----------------------------------------------------------------------------

LEMMA TurnedIs ==
  ASSUME NEW C, NEW v, Typed(C, v), NEW k \in 1 .. Len(v.dims),
         NEW g \in Within(v.dims[k]), NEW h \in Within(v.dims[k])
  PROVE  Typed(C, Turned(v, k, g, h)) /\ Turned(v, k, g, h).dims = v.dims
<1>1. CASE Count(v.dims) = 0
  BY <1>1 DEF Turned
<1>2. CASE Count(v.dims) # 0
  <2>1. PICK f \in [Box(v.dims) -> Box(v.dims)] : f = Along(v.dims, k, g)
    BY AlongIs, TypedParts
  <2>2. PICK ls \in Seq(Seq(Nat)) : ls = Titles(v.labels, k, h) /\ LabelsOk(ls, v.dims)
    BY TitlesIs
  <2>3. PICK r : r = Rebuilt(v, v.dims, f, ls) /\ Built(C, v, v.dims, f, ls, r)
    BY RebuiltParts, TypedParts
  <2>4. Typed(C, r)
    <3>1. v.dims # <<>>
      BY TypedParts
    <3> QED
      BY <2>2, <2>3, <3>1, FlatRebuilt
  <2>6. r.dims = v.dims
    BY <2>3 DEF Built
  <2>5. Turned(v, k, g, h) = r
    BY <1>2, <2>1, <2>2, <2>3 DEF Turned
  <2> QED
    BY <2>4, <2>5, <2>6
<1> QED
  BY <1>1, <1>2

LEMMA TurnedTwice ==
  ASSUME NEW C, NEW v, Typed(C, v), NEW k \in 1 .. Len(v.dims),
         NEW g1 \in Within(v.dims[k]), NEW h1 \in Within(v.dims[k]),
         NEW g2 \in Within(v.dims[k]), NEW h2 \in Within(v.dims[k]),
         NEW g, Through(0 .. (v.dims[k] - 1), g, g1, g2),
         NEW h, Through(0 .. (v.dims[k] - 1), h, h1, h2)
  PROVE  Turned(Turned(v, k, g1, h1), k, g2, h2) = Turned(v, k, g, h)
<1>1. CASE Count(v.dims) = 0
  BY <1>1 DEF Turned
<1>2. CASE Count(v.dims) # 0
  <2>1. PICK f1 \in [Box(v.dims) -> Box(v.dims)] : f1 = Along(v.dims, k, g1)
    BY AlongIs, TypedParts
  <2>2. PICK f2 \in [Box(v.dims) -> Box(v.dims)] : f2 = Along(v.dims, k, g2)
    BY AlongIs, TypedParts
  <2>12. v \in ArraysOf(C) /\ Len(v.data) = Count(v.dims) /\ v.dims \in Seq(Nat)
    BY TypedParts
  <2>3. PICK f : f = Along(v.dims, k, g) /\ Through(Box(v.dims), f, f1, f2)
    BY <2>1, <2>2, <2>12, AlongTwice
  <2>4. PICK l1 \in Seq(Seq(Nat)) : l1 = Titles(v.labels, k, h1)
    BY TitlesIs
  <2>5. PICK ls : ls = Titles(l1, k, h2) /\ ls = Titles(v.labels, k, h)
    <3>1. Titles(Titles(v.labels, k, h1), k, h2) = Titles(v.labels, k, h)
      BY TitlesTwice
    <3> QED
      BY <2>4, <3>1
  <2>6. PICK r : r = Rebuilt(v, v.dims, f1, l1) /\ Built(C, v, v.dims, f1, l1, r)
    <3>1. Built(C, v, v.dims, f1, l1, Rebuilt(v, v.dims, f1, l1))
      BY <2>12, RebuiltParts
    <3> QED
      BY <3>1
  <2>7. r.dims = v.dims /\ r.labels = l1
    BY <2>6 DEF Built
  <2>8. Turned(v, k, g1, h1) = r
    BY <1>2, <2>1, <2>4, <2>6 DEF Turned
  <2>9. Turned(r, k, g2, h2) = Rebuilt(r, v.dims, f2, ls)
    BY <1>2, <2>2, <2>5, <2>7 DEF Turned
  <2>10. Rebuilt(r, v.dims, f2, ls) = Rebuilt(v, v.dims, f, ls)
    BY <2>2, <2>3, <2>6, <2>12, RebuiltTwice
  <2>11. Turned(v, k, g, h) = Rebuilt(v, v.dims, f, ls)
    BY <1>2, <2>3, <2>5 DEF Turned
  <2> QED
    BY <2>8, <2>9, <2>10, <2>11
<1> QED
  BY <1>1, <1>2

LEMMA TurnedSame ==
  ASSUME NEW C, NEW v, Typed(C, v), NEW k \in 1 .. Len(v.dims),
         NEW g, \A x \in 0 .. (v.dims[k] - 1) : g[x] = x,
         NEW h, \A x \in 0 .. (v.dims[k] - 1) : h[x] = x
  PROVE  Turned(v, k, g, h) = v
<1>1. CASE Count(v.dims) = 0
  BY <1>1 DEF Turned
<1>2. CASE Count(v.dims) # 0
  <2>1. \A c \in Box(v.dims) : Along(v.dims, k, g)[c] = c
    <3>1. PICK e \in Nat : e = v.dims[k] /\ k \in 1 .. Len(v.dims) /\ v.dims \in Seq(Nat)
      BY TypedParts, ElementOfSeq
    <3>2. ASSUME NEW c \in Box(v.dims) PROVE Put(c, k, g[c[k]]) = c
      <4>3. c \in [1 .. Len(v.dims) -> Nat] /\ c[k] < e
        <5>1. DOMAIN v.dims = 1 .. Len(v.dims)
          BY <3>1
        <5> QED
          BY <3>1, <5>1 DEF Box
      <4>1. c \in [1 .. Len(v.dims) -> Nat] /\ c[k] \in 0 .. (e - 1)
        BY <4>3
      <4>2. g[c[k]] = c[k]
        BY <3>1, <4>1
      <4> QED
        BY <4>1, <4>2 DEF Put
    <3> QED
      BY <3>2 DEF Along
  <2>2. Titles(v.labels, k, h) = v.labels
    BY TitlesSame
  <2>3. Rebuilt(v, v.dims, Along(v.dims, k, g), v.labels) = v
    BY <2>1, RebuiltSame, TypedParts
  <2> QED
    BY <1>2, <2>2, <2>3 DEF Turned
<1> QED
  BY <1>1, <1>2

-----------------------------------------------------------------------------
(* Reversal and rotation                                                   *)

Back(e) == [x \in 0 .. (e - 1) |-> e - 1 - x]
Turn(e, n) == [x \in 0 .. (e - 1) |-> (x + n) % e]

LEMMA BackIs ==
  ASSUME NEW e \in Nat
  PROVE  /\ Back(e) \in Within(e)
         /\ \A x \in 0 .. (e - 1) : Back(e)[x] = e - 1 - x
BY DEF Back, Within

LEMMA TurnIs ==
  ASSUME NEW e \in Nat, NEW n \in Int
  PROVE  /\ Turn(e, n) \in Within(e)
         /\ \A x \in 0 .. (e - 1) : Turn(e, n)[x] = (x + n) % e
<1>1. ASSUME NEW x \in 0 .. (e - 1) PROVE (x + n) % e \in 0 .. (e - 1)
  <2>1. e \in Nat \ {0} /\ x + n \in Int
    OBVIOUS
  <2> QED
    BY <2>1, DividedBy
<1> QED
  BY <1>1 DEF Turn, Within

LEMMA RemainderOf ==
  ASSUME NEW m \in Nat \ {0}, NEW n \in Int, NEW q \in Int, NEW r \in 0 .. (m - 1), n = q * m + r
  PROVE  n % m = r
BY QuotientIs

LEMMA RemainderOfSum ==
  ASSUME NEW e \in Nat \ {0}, NEW a \in Int, NEW b \in Int
  PROVE  ((a % e) + b) % e = (a + b) % e
<1>1. PICK q \in Int, r \in 0 .. (e - 1) : r = a % e /\ a = q * e + r
  BY DividedBy
<1>2. PICK w \in Int : w = r + b
  OBVIOUS
<1>3. PICK t \in Int, u \in 0 .. (e - 1) : u = w % e /\ w = t * e + u
  BY DividedBy
<1>4. PICK z \in Int : z = a + b
  OBVIOUS
<1>5. PICK p \in Int : p = q + t
  OBVIOUS
<1>6. z = p * e + u
  <2>1. PICK x \in Int, y \in Int : x = q * e /\ y = t * e
    OBVIOUS
  <2>2. p * e = x + y
    BY <1>5, <2>1
  <2>3. a = x + r /\ w = y + u
    BY <1>1, <1>3, <2>1
  <2> QED
    BY <1>2, <1>4, <2>2, <2>3
<1>7. z % e = u
  BY <1>3, <1>6, RemainderOf
<1> QED
  BY <1>1, <1>2, <1>3, <1>4, <1>7

LEMMA RemainderMirrored ==
  ASSUME NEW e \in Nat \ {0}, NEW a \in Int
  PROVE  (e - 1 - a) % e = e - 1 - (a % e)
<1>1. PICK q \in Int, r \in 0 .. (e - 1) : r = a % e /\ a = q * e + r
  BY DividedBy
<1>2. e - 1 - a = (-q) * e + (e - 1 - r)
  BY <1>1
<1>3. e - 1 - r \in 0 .. (e - 1)
  BY <1>1
<1>4. PICK z \in Int, p \in Int, u \in 0 .. (e - 1) : z = e - 1 - a /\ p = -q /\ u = e - 1 - r
  BY <1>3
<1>5. z = p * e + u
  BY <1>2, <1>4
<1>6. z % e = u
  BY <1>5, RemainderOf
<1> QED
  BY <1>1, <1>4, <1>6

LEMMA BackTwice ==
  ASSUME NEW e \in Nat, NEW x \in 0 .. (e - 1)
  PROVE  Back(e)[Back(e)[x]] = x
<1>1. PICK y \in 0 .. (e - 1) : y = Back(e)[x] /\ y = e - 1 - x
  BY BackIs
<1>2. Back(e)[y] = e - 1 - y
  BY BackIs
<1> QED
  BY <1>1, <1>2

LEMMA TurnTwice ==
  ASSUME NEW e \in Nat, NEW n \in Int, NEW m \in Int
  PROVE  Through(0 .. (e - 1), Turn(e, n + m), Turn(e, n), Turn(e, m))
<1> SUFFICES ASSUME NEW x \in 0 .. (e - 1) PROVE Turn(e, n + m)[x] = Turn(e, n)[Turn(e, m)[x]]
  BY DEF Through
<1>1. e \in Nat \ {0}
  OBVIOUS
<1>2. PICK y \in 0 .. (e - 1) : y = Turn(e, m)[x] /\ y = (x + m) % e
  <2>1. (x + m) % e \in 0 .. (e - 1)
    BY <1>1, DividedBy
  <2>2. Turn(e, m)[x] = (x + m) % e
    BY TurnIs
  <2> QED
    BY <2>1, <2>2
<1>3. Turn(e, n)[y] = (y + n) % e
  BY TurnIs
<1>4. (((x + m) % e) + n) % e = ((x + m) + n) % e
  <2>1. PICK a \in Int : a = x + m
    OBVIOUS
  <2>2. ((a % e) + n) % e = (a + n) % e
    BY <1>1, RemainderOfSum
  <2> QED
    BY <2>1, <2>2
<1>5. Turn(e, n + m)[x] = (x + (n + m)) % e
  <2>1. n + m \in Int
    OBVIOUS
  <2> QED
    BY <2>1, TurnIs
<1>6. x + (n + m) = (x + m) + n
  OBVIOUS
<1> QED
  BY <1>2, <1>3, <1>4, <1>5, <1>6

LEMMA TurnFull ==
  ASSUME NEW e \in Nat, NEW x \in 0 .. (e - 1)
  PROVE  Turn(e, e)[x] = x /\ Turn(e, -e)[x] = x
<1>1. e \in Nat \ {0} /\ e \in Int /\ -e \in Int
  OBVIOUS
<1>2. (x + e) % e = x /\ (x + -e) % e = x
  <2>1. x + e = 1 * e + x /\ x + -e = (-1) * e + x
    OBVIOUS
  <2>2. x + e \in Int /\ x + -e \in Int /\ 1 \in Int /\ -1 \in Int
    OBVIOUS
  <2>3. (x + e) % e = x
    BY <1>1, <2>1, <2>2, RemainderOf
  <2>4. (x + -e) % e = x
    BY <1>1, <2>1, <2>2, RemainderOf
  <2> QED
    BY <2>3, <2>4
<1> QED
  BY <1>1, <1>2, TurnIs

(* A turn and then a reversal is a reversal and then the opposite turn.    *)
LEMMA TurnBack ==
  ASSUME NEW e \in Nat, NEW n \in Int, NEW x \in 0 .. (e - 1)
  PROVE  Turn(e, n)[Back(e)[x]] = Back(e)[Turn(e, -n)[x]]
<1>1. e \in Nat \ {0} /\ -n \in Int
  OBVIOUS
<1>2. PICK y \in 0 .. (e - 1) : y = Back(e)[x] /\ y = e - 1 - x
  BY BackIs
<1>3. Turn(e, n)[y] = (y + n) % e
  BY TurnIs
<1>4. PICK z \in 0 .. (e - 1) : z = Turn(e, -n)[x] /\ z = (x + -n) % e
  <2>1. (x + -n) % e \in 0 .. (e - 1)
    BY <1>1, DividedBy
  <2>2. Turn(e, -n)[x] = (x + -n) % e
    BY <1>1, TurnIs
  <2> QED
    BY <2>1, <2>2
<1>5. Back(e)[z] = e - 1 - z
  BY BackIs
<1>6. (e - 1 - (x + -n)) % e = e - 1 - ((x + -n) % e)
  <2>1. x + -n \in Int
    OBVIOUS
  <2> QED
    BY <1>1, <2>1, RemainderMirrored
<1>7. e - 1 - (x + -n) = y + n
  BY <1>2
<1> QED
  BY <1>2, <1>3, <1>4, <1>5, <1>6, <1>7

LEMMA ReverseIs ==
  ASSUME NEW C, NEW v, Typed(C, v), NEW k \in 0 .. (Len(v.dims) - 1),
         NEW e, e = v.dims[k + 1]
  PROVE  ReverseAxis(v, k) = Turned(v, k + 1, Back(e), Back(e))
<1>1. AxisOf(v, k) = k + 1 /\ k + 1 \in 1 .. Len(v.dims)
  BY AxisIs
<1> DEFINE from == [i \in 1 .. Count(v.dims) |->
                      [Coords(v.dims, i - 1) EXCEPT ![k + 1] = v.dims[k + 1] - 1 - @]]
           f == Along(v.dims, k + 1, Back(e))
           ls == Titles(v.labels, k + 1, Back(e))
<1>2. RankOf(v) # 0 /\ v.tag = "array" /\ IsArr(v) /\ ~IsStr(v)
  BY TypedParts
<1>3. v.tag \notin {"num", "null"}
  BY <1>2
<1>4. ReverseAxis(v, k) = IF Count(v.dims) = 0 THEN v
                          ELSE Moved(v, from, ReversedLabels(v.labels, k + 1))
  <2>1. ReverseAxis(v, k) = IF RankOf(v) = 0 \/ Count(v.dims) = 0 THEN v
                            ELSE Moved(v, from, ReversedLabels(v.labels, k + 1))
    <3> HIDE DEF from
    <3> QED
      BY <1>1, <1>2, <1>3 DEF ReverseAxis, from
  <2> HIDE DEF from
  <2> QED
    BY <1>2, <2>1
<1>5. /\ v.dims \in Seq(Nat) /\ v.labels \in Seq(Seq(Nat)) /\ Len(v.dims) \in Nat
      /\ e \in Nat /\ Back(e) \in Within(e)
  <2>1. v.dims \in Seq(Nat) /\ v.labels \in Seq(Seq(Nat)) /\ Len(v.dims) \in Nat
    BY TypedParts
  <2>2. e \in Nat
    BY <1>1, <2>1, ElementOfSeq
  <2> QED
    BY <2>1, <2>2, BackIs
<1>6. from = [i \in 1 .. Count(v.dims) |-> f[Coords(v.dims, i - 1)]]
  <2>1. ASSUME NEW i \in 1 .. Count(v.dims)
        PROVE  [Coords(v.dims, i - 1) EXCEPT ![k + 1] = v.dims[k + 1] - 1 - @] = f[Coords(v.dims, i - 1)]
    <3>1. i - 1 \in Nat /\ i - 1 < Count(v.dims)
      BY <1>5, CountTyped
    <3>2. PICK c \in Box(v.dims) : c = Coords(v.dims, i - 1)
      BY <1>5, <3>1, FlatOfCoords
    <3>3. c[k + 1] \in 0 .. (e - 1) /\ f[c] = Put(c, k + 1, Back(e)[c[k + 1]])
      <4> HIDE DEF f, from, ls
      <4>4. PICK d \in Seq(Nat) : d = v.dims
        BY <1>5
      <4>1. PICK j \in 1 .. Len(d) : j = k + 1
        BY <1>1, <4>4
      <4>2. PICK g \in Within(d[j]) : g = Back(e)
        BY <1>5, <4>1, <4>4
      <4>3. c[j] \in 0 .. (d[j] - 1) /\ Along(d, j, g)[c] = Put(c, j, g[c[j]])
        BY <3>2, <4>4, AlongIs
      <4> QED
        BY <4>1, <4>2, <4>3, <4>4 DEF f
    <3>4. Back(e)[c[k + 1]] = e - 1 - c[k + 1]
      BY <1>5, <3>3, BackIs
    <3> HIDE DEF f
    <3>5. [c EXCEPT ![k + 1] = v.dims[k + 1] - 1 - @] = f[c]
      BY <3>3, <3>4 DEF Put
    <3> QED
      BY <3>2, <3>5
  <2> HIDE DEF f
  <2> QED
    BY <2>1
<1>7. f \in [Box(v.dims) -> Box(v.dims)]
  BY <1>1, <1>5, AlongIs
<1>8. ReversedLabels(v.labels, k + 1) = ls
  <2>1. CASE v.labels = <<>>
    <3>1. Len(v.labels) = 0
      BY <2>1
    <3>2. k + 1 > Len(v.labels)
      BY <3>1
    <3> QED
      BY <2>1, <3>2 DEF ReversedLabels, Titles
  <2>2. CASE v.labels # <<>>
    <3>1. PICK s \in Seq(Nat) : s = v.labels[k + 1] /\ Len(s) \in {0, e}
      BY <1>1, <2>2, LabelsTyped
    <3>2. Reverse(s) = Placed(s, Back(e))
      <4>1. PICK n \in Nat : n = Len(s) /\ DOMAIN s = 1 .. n
        BY LenProperties
      <4>2. ASSUME NEW i \in 1 .. n PROVE s[n - i + 1] = s[Back(e)[i - 1] + 1]
        <5>1. n = e /\ i - 1 \in 0 .. (e - 1)
          BY <3>1, <4>1
        <5>2. Back(e)[i - 1] = e - 1 - (i - 1)
          BY <1>5, <5>1, BackIs
        <5>3. e - 1 - (i - 1) + 1 = n - i + 1
          BY <1>5, <5>1
        <5> QED
          BY <5>2, <5>3
      <4> QED
        BY <4>1, <4>2, Zenon DEF Reverse, Placed
    <3>3. Len(v.labels) = Len(v.dims)
      BY <2>2, LabelsTyped
    <3>4. ~(k + 1 > Len(v.labels))
      BY <1>1, <1>5, <3>3
    <3> QED
      BY <2>2, <3>1, <3>2, <3>4 DEF ReversedLabels, Titles
  <2> QED
    BY <2>1, <2>2
<1>9. Moved(v, from, ls) = Rebuilt(v, v.dims, f, ls)
  <2> HIDE DEF from, f, ls
  <2> QED
    BY <1>6, <1>7, MovedIs
<1>10. Turned(v, k + 1, Back(e), Back(e)) = IF Count(v.dims) = 0 THEN v ELSE Rebuilt(v, v.dims, f, ls)
  BY Zenon DEF Turned
<1> HIDE DEF from, f, ls
<1> QED
  BY <1>4, <1>8, <1>9, <1>10

LEMMA RotateIs ==
  ASSUME NEW C, NEW v, NEW k, NEW n, NEW e,
         Typed(C, v), k \in 0 .. (Len(v.dims) - 1), n \in Int, e = v.dims[k + 1]
  PROVE  RotateAxis(Num(n), v, k) = Turned(v, k + 1, Turn(e, n), Turn(e, -n))
<1>1. AxisOf(v, k) = k + 1 /\ k + 1 \in 1 .. Len(v.dims)
  BY AxisIs
<1> DEFINE from == [i \in 1 .. Count(v.dims) |->
                      [Coords(v.dims, i - 1) EXCEPT ![k + 1] = (@ + n) % v.dims[k + 1]]]
           f == Along(v.dims, k + 1, Turn(e, n))
           ls == Titles(v.labels, k + 1, Turn(e, -n))
           kept == IF v.labels = <<>> THEN <<>> ELSE RotatedLabels(v.labels, k + 1, n)
<1>2. RankOf(v) # 0 /\ v.tag = "array" /\ IsArr(v) /\ ~IsStr(v)
  BY TypedParts
<1>3. v.tag \notin {"num", "null"}
  BY <1>2
<1>11. IsNum(Num(n)) /\ Num(n).n = n
  BY DEF IsNum, Num
<1>4. RotateAxis(Num(n), v, k) = IF Count(v.dims) = 0 THEN v ELSE Moved(v, from, kept)
  <2>1. RotateAxis(Num(n), v, k) = IF RankOf(v) = 0 \/ Count(v.dims) = 0 THEN v
                                   ELSE Moved(v, from, kept)
    <3> HIDE DEF from, kept
    <3> QED
      BY <1>1, <1>2, <1>3, <1>11 DEF RotateAxis, from, kept
  <2> HIDE DEF from, kept
  <2> QED
    BY <1>2, <2>1
<1>5. /\ v.dims \in Seq(Nat) /\ v.labels \in Seq(Seq(Nat)) /\ Len(v.dims) \in Nat
      /\ e \in Nat /\ Turn(e, n) \in Within(e)
  <2>1. v.dims \in Seq(Nat) /\ v.labels \in Seq(Seq(Nat)) /\ Len(v.dims) \in Nat
    BY TypedParts
  <2>2. e \in Nat
    BY <1>1, <2>1, ElementOfSeq
  <2> QED
    BY <2>1, <2>2, TurnIs
<1>6. from = [i \in 1 .. Count(v.dims) |-> f[Coords(v.dims, i - 1)]]
  <2>1. ASSUME NEW i \in 1 .. Count(v.dims)
        PROVE  [Coords(v.dims, i - 1) EXCEPT ![k + 1] = (@ + n) % v.dims[k + 1]] = f[Coords(v.dims, i - 1)]
    <3>1. i - 1 \in Nat /\ i - 1 < Count(v.dims)
      BY <1>5, CountTyped
    <3>2. PICK c \in Box(v.dims) : c = Coords(v.dims, i - 1)
      BY <1>5, <3>1, FlatOfCoords
    <3>3. c[k + 1] \in 0 .. (e - 1) /\ f[c] = Put(c, k + 1, Turn(e, n)[c[k + 1]])
      <4> HIDE DEF f, from, ls, kept
      <4>4. PICK d \in Seq(Nat) : d = v.dims
        BY <1>5
      <4>1. PICK j \in 1 .. Len(d) : j = k + 1
        BY <1>1, <4>4
      <4>2. PICK g \in Within(d[j]) : g = Turn(e, n)
        BY <1>5, <4>1, <4>4
      <4>3. c[j] \in 0 .. (d[j] - 1) /\ Along(d, j, g)[c] = Put(c, j, g[c[j]])
        BY <3>2, <4>4, AlongIs
      <4> QED
        BY <4>1, <4>2, <4>3, <4>4 DEF f
    <3>4. Turn(e, n)[c[k + 1]] = (c[k + 1] + n) % e
      BY <1>5, <3>3, TurnIs
    <3> HIDE DEF f
    <3>5. [c EXCEPT ![k + 1] = (@ + n) % v.dims[k + 1]] = f[c]
      BY <3>3, <3>4 DEF Put
    <3> QED
      BY <3>2, <3>5
  <2> HIDE DEF f
  <2> QED
    BY <2>1
<1>7. f \in [Box(v.dims) -> Box(v.dims)]
  BY <1>1, <1>5, AlongIs
<1>8. kept = ls
  <2>1. CASE v.labels = <<>>
    BY <2>1 DEF Titles
  <2>2. CASE v.labels # <<>>
    <3>1. PICK s \in Seq(Nat) : s = v.labels[k + 1] /\ Len(s) \in {0, e}
      BY <1>1, <2>2, LabelsTyped
    <3>2. [i \in DOMAIN s |-> s[((i - 1 - n) % Len(s)) + 1]] = Placed(s, Turn(e, -n))
      <4>1. PICK l \in Nat : l = Len(s) /\ DOMAIN s = 1 .. l
        BY LenProperties
      <4>2. ASSUME NEW i \in 1 .. l PROVE s[((i - 1 - n) % l) + 1] = s[Turn(e, -n)[i - 1] + 1]
        <5>4. l = e
          BY <3>1, <4>1
        <5>1. l = e /\ i - 1 \in 0 .. (e - 1) /\ -n \in Int
          BY <5>4
        <5>2. Turn(e, -n)[i - 1] = ((i - 1) + -n) % e
          BY <1>5, <5>1, TurnIs
        <5>3. (i - 1) + -n = i - 1 - n
          BY <5>1
        <5> QED
          BY <5>1, <5>2, <5>3
      <4> QED
        BY <4>1, <4>2, Zenon DEF Placed
    <3>3. Len(v.labels) = Len(v.dims)
      BY <2>2, LabelsTyped
    <3>4. ~(k + 1 > Len(v.labels))
      BY <1>1, <1>5, <3>3
    <3>5. RotatedLabels(v.labels, k + 1, n) = ls
      BY <2>2, <3>1, <3>2, <3>4 DEF RotatedLabels, Titles
    <3> QED
      BY <2>2, <3>5
  <2> QED
    BY <2>1, <2>2
<1>9. Moved(v, from, ls) = Rebuilt(v, v.dims, f, ls)
  <2> HIDE DEF from, f, ls
  <2> QED
    BY <1>6, <1>7, MovedIs
<1>10. Turned(v, k + 1, Turn(e, n), Turn(e, -n))
         = IF Count(v.dims) = 0 THEN v ELSE Rebuilt(v, v.dims, f, ls)
  BY Zenon DEF Turned
<1> HIDE DEF from, f, ls, kept
<1> QED
  BY <1>4, <1>8, <1>9, <1>10

LEMMA ReverseKeeps ==
  ASSUME NEW C, NEW v, Typed(C, v), NEW k \in 0 .. (Len(v.dims) - 1)
  PROVE  Typed(C, ReverseAxis(v, k)) /\ ReverseAxis(v, k).dims = v.dims
<1>1. PICK e : e = v.dims[k + 1]
  OBVIOUS
<1>2. k + 1 \in 1 .. Len(v.dims)
  BY AxisIs
<1>3. PICK j \in 1 .. Len(v.dims) : j = k + 1
  BY <1>2
<1>4. PICK g \in Within(v.dims[j]) : g = Back(e)
  <2>1. e \in Nat
    BY <1>1, <1>2, TypedParts, ElementOfSeq
  <2> QED
    BY <1>1, <1>3, <2>1, BackIs
<1>5. ReverseAxis(v, k) = Turned(v, j, g, g)
  BY <1>1, <1>3, <1>4, ReverseIs
<1> QED
  BY <1>5, TurnedIs

LEMMA RotateKeeps ==
  ASSUME NEW C, NEW v, Typed(C, v), NEW k \in 0 .. (Len(v.dims) - 1), NEW n \in Int
  PROVE  Typed(C, RotateAxis(Num(n), v, k)) /\ RotateAxis(Num(n), v, k).dims = v.dims
<1>1. PICK e : e = v.dims[k + 1]
  OBVIOUS
<1>2. k + 1 \in 1 .. Len(v.dims)
  BY AxisIs
<1>3. PICK j \in 1 .. Len(v.dims) : j = k + 1
  BY <1>2
<1>6. e \in Nat /\ -n \in Int
  BY <1>1, <1>2, TypedParts, ElementOfSeq
<1>4. PICK g \in Within(v.dims[j]), h \in Within(v.dims[j]) : g = Turn(e, n) /\ h = Turn(e, -n)
  BY <1>1, <1>3, <1>6, TurnIs
<1>5. RotateAxis(Num(n), v, k) = Turned(v, k + 1, Turn(e, n), Turn(e, -n))
  BY <1>1, RotateIs
<1>7. RotateAxis(Num(n), v, k) = Turned(v, j, g, h)
  BY <1>3, <1>4, <1>5
<1> QED
  BY <1>7, TurnedIs

(* Two turns of one axis are one.                                          *)
Both(C, v, j, e, g, h, g1, h1, g2, h2) ==
  /\ Typed(C, v) /\ j \in 1 .. Len(v.dims) /\ e = v.dims[j]
  /\ g1 \in Within(e) /\ h1 \in Within(e) /\ g2 \in Within(e) /\ h2 \in Within(e)
  /\ Through(0 .. (e - 1), g, g1, g2) /\ Through(0 .. (e - 1), h, h1, h2)

LEMMA TurnedBoth ==
  ASSUME NEW C, NEW v, NEW j, NEW e, NEW g, NEW h, NEW g1, NEW h1, NEW g2, NEW h2,
         Both(C, v, j, e, g, h, g1, h1, g2, h2)
  PROVE  Turned(Turned(v, j, g1, h1), j, g2, h2) = Turned(v, j, g, h)
<1>1. /\ Typed(C, v) /\ j \in 1 .. Len(v.dims) /\ e = v.dims[j]
      /\ g1 \in Within(v.dims[j]) /\ h1 \in Within(v.dims[j])
      /\ g2 \in Within(v.dims[j]) /\ h2 \in Within(v.dims[j])
      /\ Through(0 .. (v.dims[j] - 1), g, g1, g2) /\ Through(0 .. (v.dims[j] - 1), h, h1, h2)
  BY DEF Both
<1> QED
  BY <1>1, TurnedTwice

Neither(C, v, j, g, h) ==
  /\ Typed(C, v) /\ j \in 1 .. Len(v.dims)
  /\ \A x \in 0 .. (v.dims[j] - 1) : g[x] = x /\ h[x] = x

LEMMA TurnedNeither ==
  ASSUME NEW C, NEW v, NEW j, NEW g, NEW h, Neither(C, v, j, g, h)
  PROVE  Turned(v, j, g, h) = v
<1>1. /\ Typed(C, v) /\ j \in 1 .. Len(v.dims)
      /\ \A x \in 0 .. (v.dims[j] - 1) : g[x] = x
      /\ \A x \in 0 .. (v.dims[j] - 1) : h[x] = x
  BY DEF Neither
<1> QED
  BY <1>1, TurnedSame

LEMMA ReverseUndone ==
  ASSUME NEW C, NEW v, Typed(C, v), NEW k \in 0 .. (Len(v.dims) - 1)
  PROVE  ReverseAxis(ReverseAxis(v, k), k) = v
<1>1. PICK j \in 1 .. Len(v.dims) : j = k + 1
  BY AxisIs
<1>2. PICK e \in Nat : e = v.dims[j] /\ e = v.dims[k + 1]
  BY <1>1, TypedParts, ElementOfSeq
<1>3. PICK g \in Within(e) : g = Back(e)
  BY BackIs
<1>4. PICK r : r = ReverseAxis(v, k)
  OBVIOUS
<1>5. Typed(C, r) /\ r.dims = v.dims
  BY <1>4, ReverseKeeps
<1>6. r = Turned(v, j, g, g)
  BY <1>1, <1>2, <1>3, <1>4, ReverseIs
<1>7. ReverseAxis(r, k) = Turned(r, j, g, g)
  BY <1>1, <1>2, <1>3, <1>5, ReverseIs
<1>8. PICK f : f = [x \in 0 .. (e - 1) |-> x]
  OBVIOUS
<1>9. Through(0 .. (e - 1), f, g, g)
  BY <1>3, <1>8, BackTwice DEF Through
<1>10. Turned(Turned(v, j, g, g), j, g, g) = Turned(v, j, f, f)
  <2>1. Both(C, v, j, e, f, f, g, g, g, g)
    BY <1>2, <1>9 DEF Both
  <2> QED
    BY <2>1, TurnedBoth
<1>11. Turned(v, j, f, f) = v
  <2>1. Neither(C, v, j, f, f)
    BY <1>2, <1>8 DEF Neither
  <2> QED
    BY <2>1, TurnedNeither
<1> QED
  BY <1>4, <1>6, <1>7, <1>10, <1>11

LEMMA RotateFull ==
  ASSUME NEW C, NEW v, Typed(C, v), NEW k \in 0 .. (Len(v.dims) - 1)
  PROVE  RotateAxis(Num(v.dims[k + 1]), v, k) = v
<1>1. PICK j \in 1 .. Len(v.dims) : j = k + 1
  BY AxisIs
<1>2. PICK e \in Nat : e = v.dims[j] /\ e = v.dims[k + 1]
  BY <1>1, TypedParts, ElementOfSeq
<1>3. RotateAxis(Num(e), v, k) = Turned(v, j, Turn(e, e), Turn(e, -e))
  BY <1>1, <1>2, RotateIs
<1>4. Turned(v, j, Turn(e, e), Turn(e, -e)) = v
  <2>1. Neither(C, v, j, Turn(e, e), Turn(e, -e))
    BY <1>2, TurnFull DEF Neither
  <2> QED
    BY <2>1, TurnedNeither
<1> QED
  BY <1>2, <1>3, <1>4

LEMMA RotateReversed ==
  ASSUME NEW C, NEW v, Typed(C, v), NEW k \in 0 .. (Len(v.dims) - 1), NEW n \in Int
  PROVE  ReverseAxis(RotateAxis(Num(n), v, k), k) = RotateAxis(Num(-n), ReverseAxis(v, k), k)
<1>1. PICK j \in 1 .. Len(v.dims) : j = k + 1
  BY AxisIs
<1>2. PICK e \in Nat : e = v.dims[j] /\ e = v.dims[k + 1]
  BY <1>1, TypedParts, ElementOfSeq
<1>3. PICK m \in Int : m = -n /\ n = -m
  OBVIOUS
<1>4. PICK r : r = RotateAxis(Num(n), v, k)
  OBVIOUS
<1>5. Typed(C, r) /\ r.dims = v.dims
  BY <1>4, RotateKeeps
<1>6. PICK w : w = ReverseAxis(v, k)
  OBVIOUS
<1>7. Typed(C, w) /\ w.dims = v.dims
  BY <1>6, ReverseKeeps
<1>8. PICK t \in Within(e), u \in Within(e), b \in Within(e) : t = Turn(e, n) /\ u = Turn(e, m) /\ b = Back(e)
  BY TurnIs, BackIs
<1>9. r = Turned(v, j, t, u) /\ ReverseAxis(r, k) = Turned(r, j, b, b)
  <2>1. k \in 0 .. (Len(r.dims) - 1) /\ e = r.dims[k + 1]
    BY <1>2, <1>5
  <2>2. ReverseAxis(r, k) = Turned(r, k + 1, Back(e), Back(e))
    BY <1>5, <2>1, ReverseIs
  <2>3. RotateAxis(Num(n), v, k) = Turned(v, k + 1, Turn(e, n), Turn(e, -n))
    BY <1>2, RotateIs
  <2> QED
    BY <1>1, <1>3, <1>4, <1>8, <2>2, <2>3
<1>10. w = Turned(v, j, b, b) /\ RotateAxis(Num(m), w, k) = Turned(w, j, u, t)
  <2>1. k \in 0 .. (Len(w.dims) - 1) /\ e = w.dims[k + 1]
    BY <1>2, <1>7
  <2>2. ReverseAxis(v, k) = Turned(v, k + 1, Back(e), Back(e))
    BY <1>2, ReverseIs
  <2>4. Typed(C, w)
    BY <1>7
  <2>3. RotateAxis(Num(m), w, k) = Turned(w, k + 1, Turn(e, m), Turn(e, -m))
    BY <2>1, <2>4, RotateIs
  <2> QED
    BY <1>1, <1>3, <1>6, <1>8, <2>2, <2>3
<1>11. PICK g : g = [x \in 0 .. (e - 1) |-> t[b[x]]]
  OBVIOUS
<1>12. PICK h : h = [x \in 0 .. (e - 1) |-> u[b[x]]]
  OBVIOUS
<1>13. Through(0 .. (e - 1), g, t, b) /\ Through(0 .. (e - 1), h, u, b)
  BY <1>11, <1>12 DEF Through
<1>14. Through(0 .. (e - 1), g, b, u) /\ Through(0 .. (e - 1), h, b, t)
  BY <1>3, <1>8, <1>11, <1>12, TurnBack DEF Through
<1>15. Turned(r, j, b, b) = Turned(v, j, g, h)
  <2>1. Both(C, v, j, e, g, h, t, u, b, b)
    BY <1>2, <1>13 DEF Both
  <2> QED
    BY <1>9, <2>1, TurnedBoth
<1>16. Turned(w, j, u, t) = Turned(v, j, g, h)
  <2>1. Both(C, v, j, e, g, h, b, b, u, t)
    BY <1>2, <1>14 DEF Both
  <2> QED
    BY <1>10, <2>1, TurnedBoth
<1> QED
  BY <1>3, <1>4, <1>6, <1>9, <1>10, <1>15, <1>16

LEMMA ReverseLawful ==
  ASSUME NEW C, NEW v, Typed(C, v), NEW k \in 0 .. (Len(v.dims) - 1)
  PROVE  ReverseLaw(v, k)
BY ReverseKeeps, ReverseUndone DEF ReverseLaw, Typed

LEMMA RotateLawful ==
  ASSUME NEW C, NEW v, Typed(C, v), NEW k \in 0 .. (Len(v.dims) - 1), NEW n \in Int, NEW m \in Int
  PROVE  RotateLaw(v, k, n, m)
<1>1. FlatArray(RotateAxis(Num(n), v, k))
  BY RotateKeeps DEF Typed
<1>2. RotateAxis(Num(m), RotateAxis(Num(n), v, k), k) = RotateAxis(Num(n + m), v, k)
  <2>1. PICK j \in 1 .. Len(v.dims) : j = k + 1
    BY AxisIs
  <2>2. PICK e \in Nat : e = v.dims[j] /\ e = v.dims[k + 1]
    BY <2>1, TypedParts, ElementOfSeq
  <2>3. PICK r : r = RotateAxis(Num(n), v, k)
    OBVIOUS
  <2>4. Typed(C, r) /\ r.dims = v.dims
    BY <2>3, RotateKeeps
  <2>5. -n \in Int /\ -m \in Int /\ n + m \in Int /\ -(n + m) = -n + -m
    OBVIOUS
  <2>6. r = Turned(v, j, Turn(e, n), Turn(e, -n))
    BY <2>1, <2>2, <2>3, RotateIs
  <2>7. RotateAxis(Num(m), r, k) = Turned(r, j, Turn(e, m), Turn(e, -m))
    <3>1. k \in 0 .. (Len(r.dims) - 1) /\ e = r.dims[k + 1]
      BY <2>2, <2>4
    <3> QED
      <4>1. Typed(C, r)
        BY <2>4
      <4>2. RotateAxis(Num(m), r, k) = Turned(r, k + 1, Turn(e, m), Turn(e, -m))
        BY <3>1, <4>1, RotateIs
      <4> QED
        BY <2>1, <4>2
  <2>8. RotateAxis(Num(n + m), v, k) = Turned(v, j, Turn(e, n + m), Turn(e, -n + -m))
    BY <2>1, <2>2, <2>5, RotateIs
  <2>9. /\ Turn(e, n) \in Within(e) /\ Turn(e, -n) \in Within(e)
        /\ Turn(e, m) \in Within(e) /\ Turn(e, -m) \in Within(e)
    BY <2>5, TurnIs
  <2>10. /\ Through(0 .. (e - 1), Turn(e, n + m), Turn(e, n), Turn(e, m))
         /\ Through(0 .. (e - 1), Turn(e, -n + -m), Turn(e, -n), Turn(e, -m))
    BY <2>5, TurnTwice
  <2>11. Turned(Turned(v, j, Turn(e, n), Turn(e, -n)), j, Turn(e, m), Turn(e, -m))
           = Turned(v, j, Turn(e, n + m), Turn(e, -n + -m))
    <3>1. Both(C, v, j, e, Turn(e, n + m), Turn(e, -n + -m), Turn(e, n), Turn(e, -n), Turn(e, m), Turn(e, -m))
      BY <2>2, <2>9, <2>10 DEF Both
    <3> QED
      BY <3>1, TurnedBoth
  <2> QED
    BY <2>3, <2>6, <2>7, <2>8, <2>11
<1>3. RotateAxis(Num(v.dims[k + 1]), v, k) = v
  BY RotateFull
<1>4. ReverseAxis(RotateAxis(Num(n), v, k), k) = RotateAxis(Num(-n), ReverseAxis(v, k), k)
  BY RotateReversed
<1> QED
  BY <1>1, <1>2, <1>3, <1>4, Zenon DEF RotateLaw

-----------------------------------------------------------------------------
(* Transposition: axis k comes from axis S[k], and goes to axis P[k]       *)

Inverses(n, P, S) == /\ P \in [1 .. n -> 1 .. n] /\ S \in [1 .. n -> 1 .. n]
                     /\ \A k \in 1 .. n : P[S[k]] = k /\ S[P[k]] = k
Permuted(s, P) == [k \in DOMAIN P |-> s[P[k]]]
Swap(d, P) == [c \in Box(d) |-> Permuted(c, P)]
Names(ls, P) == IF ls = <<>> THEN ls ELSE Permuted(ls, P)
Transposed(v, P, S) ==
  LET d == Permuted(v.dims, S)
  IN  IF v.data = <<>> THEN Arr(d, <<>>) ELSE Rebuilt(v, d, Swap(d, P), Names(v.labels, P))

LEMMA InversesSwapped ==
  ASSUME NEW n, NEW P, NEW S, Inverses(n, P, S)
  PROVE  Inverses(n, S, P)
BY DEF Inverses

LEMMA PermutedTyped ==
  ASSUME NEW X, NEW n \in Nat, NEW P, NEW S, Inverses(n, P, S), NEW s, s \in Seq(X), Len(s) = n
  PROVE  /\ Permuted(s, P) \in Seq(X) /\ Len(Permuted(s, P)) = n
         /\ \A k \in 1 .. n : Permuted(s, P)[k] = s[P[k]] /\ Permuted(s, P)[k] \in X
<1>1. P \in [1 .. n -> 1 .. n]
  BY DEF Inverses
<1>2. Permuted(s, P) = [k \in 1 .. n |-> s[P[k]]]
  BY <1>1 DEF Permuted
<1>3. ASSUME NEW k \in 1 .. n PROVE s[P[k]] \in X
  <2>1. P[k] \in 1 .. n
    BY <1>1
  <2> QED
    BY <2>1, ElementOfSeq
<1>4. Permuted(s, P) \in [1 .. n -> X]
  BY <1>2, <1>3
<1>5. Permuted(s, P) \in Seq(X) /\ Len(Permuted(s, P)) = n
  BY <1>4, MadeASeq
<1> QED
  BY <1>2, <1>4, <1>5

LEMMA PermutedBack ==
  ASSUME NEW n, NEW P, NEW S, Inverses(n, P, S), NEW s, DOMAIN s = 1 .. n, s = [k \in 1 .. n |-> s[k]]
  PROVE  Permuted(Permuted(s, S), P) = s
<1>1. /\ P \in [1 .. n -> 1 .. n] /\ S \in [1 .. n -> 1 .. n]
      /\ \A k \in 1 .. n : S[P[k]] = k
  BY DEF Inverses
<1>2. Permuted(s, S) = [k \in 1 .. n |-> s[S[k]]]
  BY <1>1 DEF Permuted
<1>3. Permuted(Permuted(s, S), P) = [k \in 1 .. n |-> Permuted(s, S)[P[k]]]
  BY <1>1 DEF Permuted
<1>4. ASSUME NEW k \in 1 .. n PROVE Permuted(s, S)[P[k]] = s[k]
  <2>1. P[k] \in 1 .. n /\ S[P[k]] = k
    BY <1>1
  <2> QED
    BY <1>2, <2>1
<1> QED
  BY <1>3, <1>4, Zenon

LEMMA SwapIs ==
  ASSUME NEW d \in Seq(Nat), NEW n, n = Len(d), NEW P, NEW S, Inverses(n, P, S),
         NEW e, e = Permuted(d, S)
  PROVE  /\ e \in Seq(Nat) /\ Len(e) = n
         /\ Swap(e, P) \in [Box(e) -> Box(d)]
         /\ \A c \in Box(e) : Swap(e, P)[c] = Permuted(c, P)
<1>1. n \in Nat /\ DOMAIN d = 1 .. n
  BY LenProperties
<1>2. Inverses(n, S, P)
  BY InversesSwapped
<1>3. e \in Seq(Nat) /\ Len(e) = n /\ \A k \in 1 .. n : e[k] = d[S[k]]
  BY <1>1, <1>2, PermutedTyped
<1>4. DOMAIN e = 1 .. n
  BY <1>3, LenProperties
<1>5. ASSUME NEW c \in Box(e) PROVE Permuted(c, P) \in Box(d)
  <2>1. c \in [1 .. n -> Nat] /\ \A k \in 1 .. n : c[k] < e[k]
    BY <1>4 DEF Box
  <2>2. P \in [1 .. n -> 1 .. n] /\ \A k \in 1 .. n : S[P[k]] = k
    BY DEF Inverses
  <2>3. Permuted(c, P) = [k \in 1 .. n |-> c[P[k]]]
    BY <2>2 DEF Permuted
  <2>4. ASSUME NEW k \in 1 .. n PROVE c[P[k]] \in Nat /\ c[P[k]] < d[k]
    <3>1. P[k] \in 1 .. n /\ S[P[k]] = k
      BY <2>2
    <3>2. c[P[k]] < e[P[k]] /\ e[P[k]] = d[S[P[k]]]
      BY <1>3, <2>1, <3>1
    <3> QED
      BY <2>1, <3>1, <3>2
  <2> QED
    BY <1>1, <2>3, <2>4 DEF Box
<1> QED
  BY <1>3, <1>5 DEF Swap

(* An order of axes that undoes its inverse, cell by cell.                 *)
LEMMA SwapTwice ==
  ASSUME NEW d \in Seq(Nat), NEW n, n = Len(d), NEW P, NEW S, Inverses(n, P, S),
         NEW e, e = Permuted(d, S), NEW c \in Box(d)
  PROVE  Swap(e, P)[Swap(d, S)[c]] = c
<1>1. n \in Nat /\ DOMAIN d = 1 .. n /\ Inverses(n, S, P)
  BY InversesSwapped, LenProperties
<1>2. e \in Seq(Nat) /\ Len(e) = n
  BY SwapIs
<1>3. d = Permuted(e, P)
  <2>1. d = [k \in 1 .. n |-> d[k]]
    BY <1>1
  <2> QED
    BY <1>1, <2>1, PermutedBack
<1>4. Swap(d, S) \in [Box(d) -> Box(e)] /\ Swap(d, S)[c] = Permuted(c, S)
  BY <1>1, <1>2, <1>3, SwapIs
<1>5. PICK b \in Box(e) : b = Permuted(c, S) /\ b = Swap(d, S)[c]
  BY <1>4
<1>6. Swap(e, P)[b] = Permuted(b, P)
  BY SwapIs
<1>7. DOMAIN c = 1 .. n /\ c = [k \in 1 .. n |-> c[k]]
  BY <1>1 DEF Box
<1>8. Permuted(Permuted(c, S), P) = c
  BY <1>7, PermutedBack
<1> QED
  BY <1>5, <1>6, <1>8

LEMMA PermutedEmpty ==
  ASSUME NEW d, NEW n, NEW P, NEW S, NEW e,
         d \in Seq(Nat), n = Len(d), Inverses(n, P, S), e = Permuted(d, S), Count(d) = 0
  PROVE  Count(e) = 0
<1>1. PICK k \in 1 .. n : d[k] = 0
  BY EmptyAxis
<1>2. n \in Nat /\ P[k] \in 1 .. n /\ S[P[k]] = k
  BY LenProperties DEF Inverses
<1>3. Inverses(n, S, P)
  BY InversesSwapped
<1>4. e \in Seq(Nat) /\ Len(e) = n /\ \A j \in 1 .. n : e[j] = d[S[j]]
  BY <1>2, <1>3, PermutedTyped
<1>5. e[P[k]] = 0
  BY <1>1, <1>2, <1>4
<1>6. ASSUME Count(e) # 0 PROVE FALSE
  <2>1. \A j \in 1 .. Len(e) : e[j] \in Nat \ {0}
    BY <1>4, <1>6, NoEmptyAxis
  <2> QED
    BY <1>2, <1>4, <1>5, <2>1
<1> QED
  BY <1>6

(* An array, the order of its axes and the inverse: its titles can follow. *)
Ordered(C, v, n, P, S) == /\ Typed(C, v) /\ n = Len(v.dims) /\ Inverses(n, P, S)
                          /\ v.labels = <<>> \/ (v.data # <<>> /\ P = S)

LEMMA OrderedParts ==
  ASSUME NEW C, NEW v, NEW n, NEW P, NEW S, NEW d, NEW e,
         Ordered(C, v, n, P, S), d = v.dims, e = Permuted(d, S)
  PROVE  /\ Typed(C, v) /\ v \in ArraysOf(C) /\ Inverses(n, P, S) /\ Inverses(n, S, P)
         /\ n \in Nat \ {0} /\ n = Len(d)
         /\ d \in Seq(Nat) /\ e \in Seq(Nat) /\ Len(e) = n
         /\ DOMAIN d = 1 .. n /\ DOMAIN e = 1 .. n
         /\ d = [k \in 1 .. n |-> d[k]] /\ d = Permuted(e, P)
         /\ d # <<>> /\ e # <<>>
         /\ Len(v.data) = Count(d) /\ v.data \in Seq(C)
         /\ Count(d) = 0 <=> Count(e) = 0
         /\ Count(d) = 0 <=> v.data = <<>>
         /\ v.labels = <<>> \/ (v.data # <<>> /\ P = S)
<1>1. /\ Typed(C, v) /\ n = Len(v.dims) /\ Inverses(n, P, S)
      /\ v.labels = <<>> \/ (v.data # <<>> /\ P = S)
  BY DEF Ordered
<1>2. /\ v \in ArraysOf(C) /\ d \in Seq(Nat) /\ n \in Nat \ {0} /\ n = Len(d) /\ d # <<>>
      /\ Len(v.data) = Count(d) /\ v.data \in Seq(C)
  BY <1>1, TypedParts
<1>3. Inverses(n, S, P)
  BY <1>1, InversesSwapped
<1>4. e \in Seq(Nat) /\ Len(e) = n
  BY <1>1, <1>2, SwapIs
<1>5. DOMAIN d = 1 .. n /\ DOMAIN e = 1 .. n
  BY <1>2, <1>4, LenProperties
<1>6. d = [k \in 1 .. n |-> d[k]]
  BY <1>2, <1>5
<1>7. d = Permuted(e, P)
  BY <1>1, <1>5, <1>6, PermutedBack
<1>8. e # <<>>
  BY <1>2, <1>4, EmptySeq
<1>9. Count(d) = 0 => Count(e) = 0
  BY <1>1, <1>2, PermutedEmpty
<1>10. Count(e) = 0 => Count(d) = 0
  BY <1>3, <1>4, <1>7, PermutedEmpty
<1>11. Count(d) = 0 <=> v.data = <<>>
  BY <1>2, EmptySeq
<1> QED
  BY <1>1, <1>2, <1>3, <1>4, <1>5, <1>6, <1>7, <1>8, <1>9, <1>10, <1>11

LEMMA NamesOk ==
  ASSUME NEW C, NEW v, NEW n, NEW P, NEW S, Ordered(C, v, n, P, S)
  PROVE  /\ Names(v.labels, P) \in Seq(Seq(Nat)) /\ LabelsOk(Names(v.labels, P), Permuted(v.dims, S))
         /\ Names(Names(v.labels, P), S) = v.labels
<1>1. PICK d, e : d = v.dims /\ e = Permuted(d, S)
  OBVIOUS
<1>2. /\ Typed(C, v) /\ Inverses(n, P, S) /\ Inverses(n, S, P) /\ n \in Nat \ {0} /\ n = Len(d)
      /\ Len(e) = n
      /\ v.labels = <<>> \/ (v.data # <<>> /\ P = S)
  BY <1>1, OrderedParts
<1>3. CASE v.labels = <<>>
  <2>1. Names(v.labels, P) = v.labels /\ Names(v.labels, S) = v.labels
    BY <1>3 DEF Names
  <2> QED
    BY <1>2, <1>3, <2>1, TypedParts DEF LabelsOk
<1>4. CASE v.labels # <<>> /\ P = S
  <2>1. PICK ls : ls = Permuted(v.labels, P)
    OBVIOUS
  <2>2. /\ v.labels \in Seq(Seq(Nat)) /\ Len(v.labels) = n /\ DOMAIN v.labels = 1 .. n
        /\ \A k \in 1 .. n : Len(v.labels[k]) \in {0, d[k]}
    BY <1>1, <1>2, <1>4, LabelsTyped, TypedParts
  <2>3. /\ ls \in Seq(Seq(Nat)) /\ Len(ls) = n
        /\ \A k \in 1 .. n : ls[k] = v.labels[P[k]]
    BY <1>2, <2>1, <2>2, PermutedTyped
  <2>4. Names(v.labels, P) = ls
    BY <1>4, <2>1 DEF Names
  <2>5. ASSUME NEW k \in 1 .. n PROVE Len(ls[k]) \in {0, e[k]}
    <3>1. S[k] \in 1 .. n /\ DOMAIN S = 1 .. n
      BY <1>2 DEF Inverses
    <3>2. ls[k] = v.labels[S[k]] /\ e[k] = d[S[k]]
      BY <1>1, <1>4, <2>3, <3>1 DEF Permuted
    <3> QED
      BY <2>2, <3>1, <3>2
  <2>6. DOMAIN ls = 1 .. n
    BY <2>3, LenProperties
  <2>7. LabelsOk(ls, e)
    <3>1. Len(ls) = Len(e)
      BY <1>2, <2>3
    <3>2. \A k \in DOMAIN ls : Len(ls[k]) \in {0, e[k]}
      BY <2>5, <2>6
    <3> QED
      BY <3>1, <3>2, Zenon DEF LabelsOk
  <2>8. ls # <<>>
    BY <1>2, <2>3, EmptySeq
  <2>9. Permuted(ls, S) = v.labels
    <3>1. PICK l \in Seq(Seq(Nat)) : l = v.labels /\ DOMAIN l = 1 .. n
      BY <2>2
    <3>2. l = [k \in 1 .. n |-> l[k]]
      BY <1>2, <3>1
    <3> QED
      BY <1>2, <1>4, <2>1, <3>1, <3>2, PermutedBack
  <2> QED
    BY <1>1, <2>3, <2>4, <2>7, <2>8, <2>9 DEF Names
<1> QED
  BY <1>2, <1>3, <1>4

LEMMA TransposedTyped ==
  ASSUME NEW C, NEW v, NEW n, NEW P, NEW S, NEW e, NEW r,
         Ordered(C, v, n, P, S), e = Permuted(v.dims, S), r = Transposed(v, P, S)
  PROVE  /\ Typed(C, r) /\ r.dims = e
         /\ v.data = <<>> => r = Arr(e, <<>>)
         /\ v.data # <<>> => r = Rebuilt(v, e, Swap(e, P), Names(v.labels, P))
         /\ v.data # <<>> => Built(C, v, e, Swap(e, P), Names(v.labels, P), r)
<1>1. /\ Typed(C, v) /\ v \in ArraysOf(C) /\ Inverses(n, P, S) /\ n = Len(v.dims) /\ v.dims \in Seq(Nat)
      /\ e \in Seq(Nat) /\ e # <<>> /\ Len(v.data) = Count(v.dims)
      /\ Count(v.dims) = 0 <=> Count(e) = 0
      /\ Count(v.dims) = 0 <=> v.data = <<>>
  BY OrderedParts
<1>2. CASE v.data = <<>>
  <2>1. r = Labelled(e, <<>>, <<>>)
    BY <1>2 DEF Transposed, Arr
  <2>2. r \in ArraysOf(C) /\ r.dims = e /\ r.data = <<>> /\ r.labels = <<>>
    <3>1. PICK s \in Seq(C) : s = <<>>
      BY EmptySeq
    <3>2. PICK ls \in Seq(Seq(Nat)) : ls = <<>>
      BY EmptySeq
    <3>3. r = Labelled(e, s, ls)
      BY <2>1, <3>1, <3>2
    <3>4. r \in ArraysOf(C) /\ r.dims = e /\ r.data = s /\ r.labels = ls
      BY <1>1, <3>3, Made
    <3> QED
      BY <3>1, <3>2, <3>4
  <2>3. Len(r.data) = Count(e) /\ LabelsFit(r) /\ IsArr(r)
    <3>1. Len(r.data) = 0
      BY <2>2
    <3> QED
      BY <1>1, <1>2, <2>2, <3>1, Parts DEF LabelsFit
  <2>4. Typed(C, r)
    BY <1>1, <2>2, <2>3 DEF Typed, FlatArray
  <2> QED
    BY <1>2, <2>1, <2>2, <2>4 DEF Arr
<1>3. CASE v.data # <<>>
  <2>1. PICK f \in [Box(e) -> Box(v.dims)] : f = Swap(e, P)
    BY <1>1, SwapIs
  <2>2. PICK ls \in Seq(Seq(Nat)) : ls = Names(v.labels, P) /\ LabelsOk(ls, e)
    BY NamesOk
  <2>3. r = Rebuilt(v, e, f, ls)
    BY <1>3, <2>1, <2>2 DEF Transposed
  <2>4. Built(C, v, e, f, ls, r)
    BY <1>1, <2>3, RebuiltParts
  <2>5. Typed(C, r)
    BY <1>1, <2>2, <2>4, FlatRebuilt
  <2>6. r.dims = e
    BY <2>4 DEF Built
  <2> QED
    BY <1>3, <2>1, <2>2, <2>3, <2>4, <2>5, <2>6
<1> QED
  BY <1>2, <1>3

LEMMA TransposedBack ==
  ASSUME NEW C, NEW v, NEW n, NEW P, NEW S, Ordered(C, v, n, P, S)
  PROVE  Transposed(Transposed(v, P, S), S, P) = v
<1>1. PICK d : d = v.dims
  OBVIOUS
<1>2. PICK e : e = Permuted(d, S)
  OBVIOUS
<1>3. PICK r : r = Transposed(v, P, S)
  OBVIOUS
<1>4. /\ Typed(C, v) /\ v \in ArraysOf(C) /\ Inverses(n, P, S) /\ Inverses(n, S, P)
      /\ n = Len(d) /\ d \in Seq(Nat) /\ e \in Seq(Nat) /\ Len(e) = n
      /\ d = Permuted(e, P) /\ Len(v.data) = Count(d)
      /\ Count(d) = 0 <=> Count(e) = 0
      /\ Count(d) = 0 <=> v.data = <<>>
  BY <1>1, <1>2, OrderedParts
<1>5. /\ Typed(C, r) /\ r.dims = e
      /\ v.data = <<>> => r = Arr(e, <<>>)
      /\ v.data # <<>> => Built(C, v, e, Swap(e, P), Names(v.labels, P), r)
  BY <1>1, <1>2, <1>3, TransposedTyped
<1>6. CASE v.data = <<>>
  <2>1. r.data = <<>>
    BY <1>5, <1>6 DEF Arr, Labelled
  <2>2. Transposed(r, S, P) = Arr(d, <<>>)
    BY <1>4, <1>5, <2>1 DEF Transposed
  <2>3. v.labels = <<>>
    BY <1>6 DEF Ordered
  <2>4. v = Labelled(d, <<>>, <<>>)
    BY <1>1, <1>4, <1>6, <2>3, Parts
  <2> QED
    BY <1>3, <2>2, <2>4 DEF Arr
<1>7. CASE v.data # <<>>
  <2>1. Built(C, v, e, Swap(e, P), Names(v.labels, P), r)
    BY <1>5, <1>7
  <2>2. r.labels = Names(v.labels, P) /\ Len(r.data) = Count(e)
    BY <2>1 DEF Built
  <2>3. r.data # <<>>
    BY <1>4, <1>7, <2>2, EmptySeq
  <2>4. Names(Names(v.labels, P), S) = v.labels
    BY NamesOk
  <2>5. Transposed(r, S, P) = Rebuilt(r, d, Swap(d, S), v.labels)
    BY <1>4, <1>5, <2>2, <2>3, <2>4 DEF Transposed
  <2>6. PICK h : h = [c \in Box(d) |-> c]
    OBVIOUS
  <2>7. Through(Box(d), h, Swap(e, P), Swap(d, S))
    BY <1>2, <1>4, <2>6, SwapTwice DEF Through
  <2>8. PICK g \in [Box(d) -> Box(e)] : g = Swap(d, S)
    BY <1>4, SwapIs
  <2>9. Rebuilt(r, d, g, v.labels) = Rebuilt(v, d, h, v.labels)
    <3>1. Through(Box(d), h, Swap(e, P), g) /\ v \in ArraysOf(C) /\ d \in Seq(Nat)
      BY <1>4, <2>7, <2>8
    <3> QED
      BY <2>1, <3>1, RebuiltTwice
  <2>10. Rebuilt(v, d, h, v.labels) = v
    <3>1. v \in ArraysOf(C) /\ Len(v.data) = Count(v.dims)
      BY <1>1, <1>4
    <3>2. \A c \in Box(v.dims) : h[c] = c
      BY <1>1, <2>6
    <3>3. Rebuilt(v, v.dims, h, v.labels) = v
      BY <3>1, <3>2, RebuiltSame
    <3> QED
      BY <1>1, <3>3
  <2> QED
    BY <1>3, <2>5, <2>8, <2>9, <2>10
<1> QED
  BY <1>6, <1>7

LEMMA PutPermuted ==
  ASSUME NEW n, NEW P, NEW S, Inverses(n, P, S), NEW s, DOMAIN s = 1 .. n,
         NEW k \in 1 .. n, NEW x
  PROVE  Permuted(Put(s, P[k], x), P) = Put(Permuted(s, P), k, x)
<1>1. P \in [1 .. n -> 1 .. n] /\ \A j \in 1 .. n : S[P[j]] = j
  BY DEF Inverses
<1>2. P[k] \in 1 .. n
  BY <1>1
<1>3. PICK t : t = Put(s, P[k], x) /\ t[P[k]] = x /\ \A j \in 1 .. n : j # P[k] => t[j] = s[j]
  <2>1. PICK i : i = P[k]
    OBVIOUS
  <2>2. Put(s, i, x) = [j \in 1 .. n |-> IF j = i THEN x ELSE s[j]]
    BY DEF Put
  <2> QED
    BY <1>2, <2>1, <2>2
<1>4. Permuted(t, P) = [j \in 1 .. n |-> t[P[j]]]
  BY <1>1 DEF Permuted
<1>5. Permuted(s, P) = [j \in 1 .. n |-> s[P[j]]]
  BY <1>1 DEF Permuted
<1>6. Put(Permuted(s, P), k, x) = [j \in 1 .. n |-> IF j = k THEN x ELSE s[P[j]]]
  BY <1>5 DEF Put
<1>7. ASSUME NEW j \in 1 .. n PROVE t[P[j]] = IF j = k THEN x ELSE s[P[j]]
  <2>1. P[j] \in 1 .. n /\ (P[j] = P[k] => j = k)
    BY <1>1
  <2> QED
    BY <1>3, <2>1
<1> QED
  BY <1>3, <1>4, <1>6, <1>7, Zenon

NamesAlike(ls, P, k, g) == Names(Titles(ls, k, g), P) = Titles(Names(ls, P), P[k], g)

LEMMA NamesTurned ==
  ASSUME NEW C, NEW v, NEW n, NEW P, NEW S, NEW k, NEW g,
         Ordered(C, v, n, P, S), k \in 1 .. n, g \in Within(v.dims[k])
  PROVE  NamesAlike(v.labels, P, k, g)
<1>1. /\ Typed(C, v) /\ Inverses(n, P, S) /\ n = Len(v.dims) /\ n \in Nat \ {0}
      /\ v.labels = <<>> \/ (v.data # <<>> /\ P = S)
  BY OrderedParts
<1>2. CASE v.labels = <<>>
  BY <1>2 DEF Names, Titles, NamesAlike
<1>3. CASE v.labels # <<>> /\ P = S
  <2>1. PICK l : l = v.labels /\ l # <<>> /\ l \in Seq(Seq(Nat)) /\ Len(l) = n /\ DOMAIN l = 1 .. n
    BY <1>1, <1>3, LabelsTyped, TypedParts
  <2>2. PICK s \in Seq(Nat) : s = l[k] /\ Len(s) \in {0, v.dims[k]} /\ v.dims[k] \in Nat
    BY <1>1, <2>1, LabelsTyped
  <2>3. PICK t \in Seq(Nat) : t = Placed(s, g) /\ Len(t) = Len(s)
    BY <2>2, PlacedIs
  <2>4. PICK m : m = Put(l, k, t)
    OBVIOUS
  <2>5. Titles(l, k, g) = m
    BY <2>1, <2>2, <2>3, <2>4 DEF Titles, Put
  <2>6. m # <<>>
    <3>1. Relabelled(v, k, t, [v.labels EXCEPT ![k] = t])
      BY <1>1, <2>1, <2>2, <2>3, LabelsChanged
    <3> QED
      BY <2>1, <2>4, <3>1 DEF Relabelled, Put
  <2>7. Names(m, P) = Permuted(m, P)
    BY <2>6 DEF Names
  <2>8. PICK j \in 1 .. n : j = P[k] /\ P[j] = k
    BY <1>1, <1>3 DEF Inverses
  <2>9. Permuted(Put(l, P[j], t), P) = Put(Permuted(l, P), j, t)
    BY <1>1, <2>1, PutPermuted
  <2>10. PICK w : w = Permuted(l, P) /\ Len(w) = n /\ w[j] = s
    <3>1. n \in Nat /\ l \in Seq(Seq(Nat)) /\ Len(l) = n /\ Inverses(n, P, S)
      BY <1>1, <2>1
    <3>2. Len(Permuted(l, P)) = n /\ \A i \in 1 .. n : Permuted(l, P)[i] = l[P[i]]
      BY <3>1, PermutedTyped
    <3>3. Permuted(l, P)[j] = l[P[j]]
      BY <3>2
    <3> QED
      BY <2>2, <2>8, <3>2, <3>3
  <2>11. w # <<>>
    BY <1>1, <2>10, EmptySeq
  <2>12. Names(l, P) = w
    BY <2>1, <2>10 DEF Names
  <2>13. Titles(w, j, g) = Put(w, j, t)
    BY <2>3, <2>10, <2>11 DEF Titles, Put
  <2> QED
    BY <2>1, <2>4, <2>5, <2>7, <2>8, <2>9, <2>10, <2>12, <2>13 DEF NamesAlike
<1> QED
  BY <1>1, <1>2, <1>3

CellsAlike(d, e, P, k, g, c) ==
  /\ P[k] \in DOMAIN e /\ e[P[k]] = d[k]
  /\ Along(d, k, g)[Swap(e, P)[c]] = Swap(e, P)[Along(e, P[k], g)[c]]

LEMMA SwapAlong ==
  ASSUME NEW d, NEW n, NEW P, NEW S, NEW e, NEW k, NEW g, NEW c,
         d \in Seq(Nat), n = Len(d), Inverses(n, P, S), e = Permuted(d, S),
         k \in 1 .. n, g \in Within(d[k]), c \in Box(e)
  PROVE  CellsAlike(d, e, P, k, g, c)
<1>1. e \in Seq(Nat) /\ Len(e) = n /\ n \in Nat
  BY SwapIs, LenProperties
<1>2. PICK j \in 1 .. n : j = P[k] /\ S[j] = k
  BY DEF Inverses
<1>3. e[j] = d[k]
  <2>1. S \in [1 .. n -> 1 .. n]
    BY DEF Inverses
  <2>2. e = [i \in 1 .. n |-> d[S[i]]]
    BY <2>1 DEF Permuted
  <2> QED
    BY <1>2, <2>2
<1>4. PICK b \in Box(d) : b = Swap(e, P)[c] /\ b = Permuted(c, P)
  <2>1. Swap(e, P) \in [Box(e) -> Box(d)] /\ Swap(e, P)[c] = Permuted(c, P)
    BY SwapIs
  <2> QED
    BY <2>1
<1>5. Along(d, k, g)[b] = Put(b, k, g[b[k]])
  BY AlongIs
<1>6. DOMAIN c = 1 .. n
  BY <1>1, LenProperties DEF Box
<1>7. b[k] = c[j]
  <2>1. DOMAIN P = 1 .. n
    BY DEF Inverses
  <2> QED
    BY <1>2, <1>4, <2>1 DEF Permuted
<1>8. PICK f \in Within(e[j]) : f = g
  BY <1>3
<1>9. PICK a \in Box(e) : a = Along(e, j, f)[c] /\ a = Put(c, j, f[c[j]])
  <2>1. Along(e, j, f) \in [Box(e) -> Box(e)] /\ Along(e, j, f)[c] = Put(c, j, f[c[j]])
    BY <1>1, AlongIs
  <2> QED
    BY <2>1
<1>10. Swap(e, P)[a] = Permuted(a, P)
  BY SwapIs
<1>11. PICK x : x = g[c[j]]
  OBVIOUS
<1>12. Permuted(Put(c, P[k], x), P) = Put(Permuted(c, P), k, x)
  BY <1>6, PutPermuted
<1>13. Along(d, k, g)[Swap(e, P)[c]] = Put(Permuted(c, P), k, x)
  BY <1>4, <1>5, <1>7, <1>11
<1>14. Swap(e, P)[Along(e, j, g)[c]] = Permuted(Put(c, P[k], x), P)
  BY <1>2, <1>8, <1>9, <1>10, <1>11
<1> QED
  BY <1>1, <1>2, <1>3, <1>12, <1>13, <1>14, LenProperties DEF CellsAlike

LEMMA TransposedTurned ==
  ASSUME NEW C, NEW v, NEW n, NEW P, NEW S, NEW k, NEW g,
         Ordered(C, v, n, P, S), k \in 1 .. n, g \in Within(v.dims[k])
  PROVE  Transposed(Turned(v, k, g, g), P, S) = Turned(Transposed(v, P, S), P[k], g, g)
<1>1. PICK d : d = v.dims
  OBVIOUS
<1>2. PICK e : e = Permuted(d, S)
  OBVIOUS
<1>3. PICK r : r = Transposed(v, P, S)
  OBVIOUS
<1>4. PICK w : w = Turned(v, k, g, g)
  OBVIOUS
<1>5. /\ Typed(C, v) /\ v \in ArraysOf(C) /\ Inverses(n, P, S)
      /\ n = Len(d) /\ d \in Seq(Nat) /\ e \in Seq(Nat) /\ Len(e) = n
      /\ Len(v.data) = Count(d)
      /\ Count(d) = 0 <=> Count(e) = 0
      /\ Count(d) = 0 <=> v.data = <<>>
  BY <1>1, <1>2, OrderedParts
<1>6. /\ r.dims = e
      /\ v.data # <<>> => Built(C, v, e, Swap(e, P), Names(v.labels, P), r)
  BY <1>1, <1>2, <1>3, TransposedTyped
<1>9. v \in ArraysOf(C) /\ d \in Seq(Nat) /\ e \in Seq(Nat)
  BY <1>5
<1>7. CASE Count(d) = 0
  <2>1. w = v
    BY <1>1, <1>4, <1>7 DEF Turned
  <2>2. Turned(r, P[k], g, g) = r
    BY <1>5, <1>6, <1>7 DEF Turned
  <2> QED
    BY <1>3, <1>4, <2>1, <2>2
<1>8. CASE Count(d) # 0
  <2>1. PICK A \in [Box(d) -> Box(d)] : A = Along(d, k, g)
    BY <1>1, <1>5, AlongIs
  <2>2. PICK ls \in Seq(Seq(Nat)) : ls = Titles(v.labels, k, g)
    BY <1>1, <1>5, TitlesIs
  <2>3. w = Rebuilt(v, d, A, ls)
    BY <1>1, <1>4, <1>8, <2>1, <2>2 DEF Turned
  <2>4. Built(C, v, d, A, ls, w)
    BY <1>1, <1>5, <2>3, RebuiltParts
  <2>5. w.dims = d /\ w.labels = ls /\ Len(w.data) = Count(d)
    BY <2>4 DEF Built
  <2>6. w.data # <<>>
    BY <1>8, <2>5, EmptySeq
  <2>7. PICK f \in [Box(e) -> Box(d)] : f = Swap(e, P)
    BY <1>2, <1>5, SwapIs
  <2>8. PICK m : m = Names(ls, P)
    OBVIOUS
  <2>9. Transposed(w, P, S) = Rebuilt(w, e, f, m)
    BY <1>2, <2>5, <2>6, <2>7, <2>8 DEF Transposed
  <2>10. PICK h : h = [c \in Box(e) |-> A[f[c]]]
    OBVIOUS
  <2>11. Rebuilt(w, e, f, m) = Rebuilt(v, e, h, m)
    <3>1. Through(Box(e), h, A, f)
      BY <2>10 DEF Through
    <3> QED
      BY <1>9, <2>4, <3>1, RebuiltTwice
  <2>12. PICK j \in 1 .. n : j = P[k] /\ e[j] = d[k]
    <3>1. P[k] \in 1 .. n /\ S[P[k]] = k /\ S \in [1 .. n -> 1 .. n]
      BY <1>5 DEF Inverses
    <3>2. e[P[k]] = d[k]
      BY <1>2, <3>1 DEF Permuted
    <3> QED
      BY <3>1, <3>2
  <2>13. PICK B \in [Box(e) -> Box(e)] : B = Along(e, j, g)
    <3>1. g \in Within(e[j])
      BY <1>1, <2>12
    <3> QED
      BY <1>5, <2>12, <3>1, AlongIs
  <2>14. Through(Box(e), h, f, B)
    <3>1. ASSUME NEW c \in Box(e) PROVE A[f[c]] = f[B[c]]
      <4>1. d \in Seq(Nat) /\ n = Len(d) /\ Inverses(n, P, S) /\ g \in Within(d[k])
        BY <1>1, <1>5
      <4>2. CellsAlike(d, e, P, k, g, c)
        BY <1>2, <4>1, SwapAlong
      <4> QED
        BY <2>1, <2>7, <2>12, <2>13, <4>2 DEF CellsAlike
    <3> QED
      BY <2>10, <3>1 DEF Through
  <2>15. Built(C, v, e, f, Names(v.labels, P), r)
    BY <1>5, <1>6, <1>8, <2>7
  <2>16. Rebuilt(r, e, B, m) = Rebuilt(v, e, h, m)
    BY <1>9, <2>14, <2>15, RebuiltTwice
  <2>17. m = Titles(r.labels, j, g)
    <3>1. r.labels = Names(v.labels, P)
      BY <2>15 DEF Built
    <3>2. NamesAlike(v.labels, P, k, g)
      BY NamesTurned
    <3> QED
      BY <2>2, <2>8, <2>12, <3>1, <3>2 DEF NamesAlike
  <2>18. Turned(r, j, g, g) = Rebuilt(r, e, B, m)
    BY <1>5, <1>6, <1>8, <2>13, <2>17 DEF Turned
  <2> QED
    BY <1>3, <1>4, <2>9, <2>11, <2>12, <2>16, <2>18
<1> QED
  BY <1>7, <1>8

-----------------------------------------------------------------------------
(* The orders of axes a transposition is given                             *)

LEMMA NoneInOrder == InOrder({}) = <<>>
<1>1. Cardinality({}) = 0
  BY FS_EmptySet
<1> QED
  BY <1>1 DEF InOrder

Places(p) == [k \in DOMAIN p |-> p[k] + 1]
Sources(p) == [k \in DOMAIN p |-> CHOOSE j \in DOMAIN p : p[j] = k - 1]

LEMMA OrderCovers ==
  ASSUME NEW n \in Nat, NEW p \in Orders(n)
  PROVE  /\ p \in Seq(Nat) /\ Len(p) = n /\ DOMAIN p = 1 .. n
         /\ \A k \in 1 .. n : \E j \in 1 .. n : p[j] = k - 1
<1>1. p \in [1 .. n -> 0 .. (n - 1)] /\ \A j, k \in 1 .. n : p[j] = p[k] => j = k
  BY DEF Orders
<1>2. p \in Injection(1 .. n, 0 .. (n - 1))
  BY <1>1 DEF Injection, IsInjective
<1>3. IsFiniteSet(0 .. (n - 1)) /\ Cardinality(0 .. (n - 1)) = n /\ Cardinality(1 .. n) = n
  BY FS_Interval
<1>4. p \in Surjection(1 .. n, 0 .. (n - 1))
  BY <1>2, <1>3, FS_Injection
<1>5. \A t \in 0 .. (n - 1) : \E s \in 1 .. n : p[s] = t
  BY <1>4 DEF Surjection
<1>6. p \in [1 .. n -> Nat]
  BY <1>1
<1>7. p \in Seq(Nat) /\ Len(p) = n
  BY <1>6, MadeASeq
<1>8. ASSUME NEW k \in 1 .. n PROVE \E j \in 1 .. n : p[j] = k - 1
  <2>1. k - 1 \in 0 .. (n - 1)
    OBVIOUS
  <2> QED
    BY <1>5, <2>1
<1> QED
  BY <1>6, <1>7, <1>8

LEMMA OrderInverse ==
  ASSUME NEW n \in Nat, NEW p \in Orders(n)
  PROVE  Inverses(n, Places(p), Sources(p))
<1>1. p \in [1 .. n -> 0 .. (n - 1)] /\ \A j, k \in 1 .. n : p[j] = p[k] => j = k
  BY DEF Orders
<1>2. Places(p) \in [1 .. n -> 1 .. n] /\ \A k \in 1 .. n : Places(p)[k] = p[k] + 1
  BY <1>1 DEF Places
<1>3. ASSUME NEW k \in 1 .. n
      PROVE  /\ (CHOOSE j \in DOMAIN p : p[j] = k - 1) \in 1 .. n
             /\ p[CHOOSE j \in DOMAIN p : p[j] = k - 1] = k - 1
  <2>1. \E j \in 1 .. n : p[j] = k - 1
    BY OrderCovers
  <2>2. \E j \in DOMAIN p : p[j] = k - 1
    BY <1>1, <2>1
  <2>3. PICK i : i = CHOOSE j \in DOMAIN p : p[j] = k - 1
    OBVIOUS
  <2>4. i \in DOMAIN p /\ p[i] = k - 1
    BY <2>2, <2>3, Zenon
  <2> QED
    BY <1>1, <2>3, <2>4
<1>4. DOMAIN p = 1 .. n
  BY <1>1
<1>5. /\ Sources(p) \in [1 .. n -> 1 .. n]
      /\ \A k \in 1 .. n : p[Sources(p)[k]] = k - 1
  BY <1>3, <1>4 DEF Sources
<1>6. ASSUME NEW k \in 1 .. n PROVE Places(p)[Sources(p)[k]] = k /\ Sources(p)[Places(p)[k]] = k
  <2>1. Sources(p)[k] \in 1 .. n /\ p[Sources(p)[k]] = k - 1
    BY <1>5
  <2>2. Places(p)[Sources(p)[k]] = k
    BY <1>2, <2>1
  <2>3. Places(p)[k] \in 1 .. n /\ Places(p)[k] - 1 = p[k]
    BY <1>1, <1>2
  <2>4. Sources(p)[Places(p)[k]] \in 1 .. n /\ p[Sources(p)[Places(p)[k]]] = p[k]
    BY <1>5, <2>3
  <2> QED
    BY <1>1, <2>2, <2>4
<1> QED
  BY <1>2, <1>5, <1>6 DEF Inverses

(* The order that undoes another goes to where the other comes from.       *)
LEMMA UndoingIs ==
  ASSUME NEW n \in Nat, NEW p \in Orders(n)
  PROVE  /\ Undoing(p) \in Orders(n)
         /\ Places(Undoing(p)) = Sources(p) /\ Sources(Undoing(p)) = Places(p)
<1>1. PICK q : q = Undoing(p)
  OBVIOUS
<1>2. PICK P \in [1 .. n -> 1 .. n], S \in [1 .. n -> 1 .. n] :
        /\ P = Places(p) /\ S = Sources(p)
        /\ \A k \in 1 .. n : P[S[k]] = k /\ S[P[k]] = k
  <2>1. Inverses(n, Places(p), Sources(p))
    BY OrderInverse
  <2> QED
    BY <2>1 DEF Inverses
<1>3. DOMAIN p = 1 .. n
  BY OrderCovers
<1>4. q = [k \in 1 .. n |-> S[k] - 1]
  BY <1>1, <1>2, <1>3 DEF Undoing, Sources
<1>5. q \in [1 .. n -> 0 .. (n - 1)] /\ \A k \in 1 .. n : q[k] + 1 = S[k]
  <2>1. ASSUME NEW k \in 1 .. n PROVE S[k] - 1 \in 0 .. (n - 1) /\ (S[k] - 1) + 1 = S[k]
    <3>1. S[k] \in 1 .. n
      BY <1>2
    <3>2. PICK x \in 1 .. n : x = S[k]
      BY <3>1
    <3>3. x - 1 \in 0 .. (n - 1) /\ (x - 1) + 1 = x
      OBVIOUS
    <3> QED
      BY <3>2, <3>3
  <2> QED
    BY <1>4, <2>1
<1>6. ASSUME NEW j \in 1 .. n, NEW k \in 1 .. n, q[j] = q[k] PROVE j = k
  <2>1. S[j] = S[k]
    BY <1>5, <1>6
  <2> QED
    BY <1>2, <2>1
<1>7. q \in Orders(n)
  BY <1>5, <1>6 DEF Orders
<1>8. Places(q) = S
  <2>1. S = [k \in 1 .. n |-> S[k]]
    BY <1>2
  <2> QED
    BY <1>4, <1>5, <2>1 DEF Places
<1>9. Sources(q) = P
  <2>1. PICK T \in [1 .. n -> 1 .. n] : T = Sources(q) /\ \A k \in 1 .. n : S[T[k]] = k /\ T[S[k]] = k
    BY <1>7, <1>8, OrderInverse DEF Inverses
  <2>2. ASSUME NEW k \in 1 .. n PROVE T[k] = P[k]
    <3>1. T[k] \in 1 .. n /\ S[T[k]] = k
      BY <2>1
    <3> QED
      BY <1>2, <3>1
  <2> QED
    BY <1>2, <2>1, <2>2
<1> QED
  BY <1>1, <1>2, <1>7, <1>8, <1>9

LEMMA TransposeIs ==
  ASSUME NEW C, NEW v, NEW n, NEW p, Typed(C, v), n = Len(v.dims), p \in Orders(n)
  PROVE  Transpose(p, v) = Transposed(v, Places(p), Sources(p))
<1> DEFINE F(r, perm, inv, d) ==
             IF \E i \in DOMAIN p : p[i] \notin 0 .. (r - 1) THEN Err
             ELSE IF HasDup(p) THEN Diagonal(p, v)
             ELSE IF v.data = <<>> THEN Arr(d, <<>>)
             ELSE Gathered(d, v.data,
                           [i \in 1 .. Count(d) |->
                              Flat(v.dims, [k \in 1 .. r |-> Coords(d, i - 1)[perm[k] + 1]])],
                           IF v.labels = <<>> THEN <<>> ELSE [k \in 1 .. r |-> v.labels[perm[k] + 1]])
           M(r) == p \o InOrder((0 .. (r - 1)) \ ToSet(p))
           I(r, perm) == [k \in 1 .. r |-> CHOOSE j \in 1 .. r : perm[j] = k - 1]
           D(r, inv) == [k \in 1 .. r |-> v.dims[inv[k]]]
           R(r) == F(r, M(r), I(r, M(r)), D(r, I(r, M(r))))
<1>1. Transpose(p, v) = CASE v.tag \in {"num", "null", "str"} \/ IsBox(v) -> v
                          [] IsArr(v) /\ RankOf(v) > 0 -> R(RankOf(v))
                          [] OTHER -> Err
  BY Zenon DEF Transpose
<1>2. /\ v \in ArraysOf(C) /\ v.dims \in Seq(Nat) /\ n \in Nat \ {0} /\ Len(v.data) = Count(v.dims)
      /\ v.tag = "array" /\ v.dims # <<>> /\ IsArr(v) /\ RankOf(v) = n
  BY TypedParts
<1>3. Transpose(p, v) = R(n)
  <2>1. v.tag \notin {"num", "null", "str"} /\ ~IsBox(v) /\ n > 0
    BY <1>2 DEF IsBox
  <2> HIDE DEF R
  <2> QED
    BY <1>1, <1>2, <2>1
<1>4. /\ p \in Seq(Nat) /\ Len(p) = n /\ DOMAIN p = 1 .. n
      /\ \A k \in 1 .. n : \E j \in 1 .. n : p[j] = k - 1
      /\ p \in [1 .. n -> 0 .. (n - 1)] /\ \A j, k \in 1 .. n : p[j] = p[k] => j = k
  BY <1>2, OrderCovers DEF Orders
<1>5. M(n) = p
  <2>1. (0 .. (n - 1)) \ ToSet(p) = {}
    <3>1. ASSUME NEW x \in 0 .. (n - 1) PROVE x \in ToSet(p)
      <4>1. x + 1 \in 1 .. n /\ (x + 1) - 1 = x
        BY <1>2
      <4>2. \E j \in 1 .. n : p[j] = x
        BY <1>4, <4>1
      <4> QED
        BY <1>4, <4>2 DEF ToSet
    <3> QED
      BY <3>1
  <2>2. p \o <<>> = p
    BY <1>4
  <2> QED
    BY <2>1, <2>2, NoneInOrder
<1>6. PICK P, S : P = Places(p) /\ S = Sources(p) /\ Inverses(n, P, S)
  BY <1>2, OrderInverse
<1>7. I(n, p) = S
  <2> DEFINE J(d) == [k \in d |-> CHOOSE j \in d : p[j] = k - 1]
  <2>1. S = J(DOMAIN p)
    BY <1>6 DEF Sources
  <2>2. I(n, p) = J(1 .. n)
    OBVIOUS
  <2> HIDE DEF I, J
  <2> QED
    BY <1>4, <2>1, <2>2
<1>8. PICK d : d = Permuted(v.dims, S)
  OBVIOUS
<1>9. D(n, S) = d
  <2>1. DOMAIN S = 1 .. n
    BY <1>6 DEF Inverses
  <2> QED
    BY <1>8, <2>1 DEF Permuted
<1>10. Transpose(p, v) = F(n, p, S, d)
  <2> HIDE DEF F, M, I, D
  <2> QED
    BY <1>3, <1>5, <1>7, <1>9
<1>11. ~(\E i \in DOMAIN p : p[i] \notin 0 .. (n - 1)) /\ ~HasDup(p)
  BY <1>4 DEF HasDup
<1>12. PICK f \in [Box(d) -> Box(v.dims)] : f = Swap(d, P) /\ \A c \in Box(d) : f[c] = Permuted(c, P)
  BY <1>2, <1>6, <1>8, SwapIs
<1>13. d \in Seq(Nat)
  BY <1>2, <1>6, <1>8, SwapIs
<1>14. P = [k \in 1 .. n |-> p[k] + 1]
  BY <1>4, <1>6 DEF Places
<1>15. ASSUME NEW i \in 1 .. Count(d)
       PROVE  [k \in 1 .. n |-> Coords(d, i - 1)[p[k] + 1]] = f[Coords(d, i - 1)]
  <2>1. i - 1 \in Nat /\ i - 1 < Count(d)
    BY <1>13, CountTyped
  <2>2. PICK c \in Box(d) : c = Coords(d, i - 1)
    BY <1>13, <2>1, FlatOfCoords
  <2>3. Permuted(c, P) = [k \in 1 .. n |-> c[p[k] + 1]]
    BY <1>14 DEF Permuted
  <2> QED
    BY <1>12, <2>2, <2>3
<1>16. (IF v.labels = <<>> THEN <<>> ELSE [k \in 1 .. n |-> v.labels[p[k] + 1]]) = Names(v.labels, P)
  BY <1>14 DEF Names, Permuted
<1>17. [i \in 1 .. Count(d) |-> Flat(v.dims, [k \in 1 .. n |-> Coords(d, i - 1)[p[k] + 1]])]
         = [i \in 1 .. Count(d) |-> Flat(v.dims, f[Coords(d, i - 1)])]
  BY <1>15
<1>18. PICK ls : ls = Names(v.labels, P)
  OBVIOUS
<1>19. F(n, p, S, d) = IF v.data = <<>> THEN Arr(d, <<>>)
                       ELSE Gathered(d, v.data, [i \in 1 .. Count(d) |-> Flat(v.dims, f[Coords(d, i - 1)])], ls)
  BY <1>11, <1>16, <1>17, <1>18, Zenon
<1>20. Gathered(d, v.data, [i \in 1 .. Count(d) |-> Flat(v.dims, f[Coords(d, i - 1)])], ls)
         = Rebuilt(v, d, f, ls)
  BY <1>2, <1>13, GatheredIs
<1> HIDE DEF F
<1> QED
  BY <1>6, <1>8, <1>10, <1>12, <1>18, <1>19, <1>20, Zenon DEF Transposed

LEMMA ReverseTurns ==
  ASSUME NEW C, NEW v, NEW k, NEW j, NEW e, NEW g,
         Typed(C, v), k \in 0 .. (Len(v.dims) - 1), j = k + 1, e = v.dims[j], g = Back(e)
  PROVE  ReverseAxis(v, k) = Turned(v, j, g, g)
<1>1. e = v.dims[k + 1]
  OBVIOUS
<1>2. ReverseAxis(v, k) = Turned(v, k + 1, Back(e), Back(e))
  BY <1>1, ReverseIs
<1> QED
  BY <1>2

LEMMA TransposeLawful ==
  ASSUME NEW C, NEW v, Typed(C, v), NEW p \in Orders(Len(v.dims)), TitlesFollow(v, p)
  PROVE  TransposeLaw(v, p)
<1>1. PICK n \in Nat : n = Len(v.dims)
  BY TypedParts
<1>2. PICK P, S, q : /\ P = Places(p) /\ S = Sources(p) /\ Inverses(n, P, S)
                     /\ q = Undoing(p) /\ q \in Orders(n) /\ Places(q) = S /\ Sources(q) = P
  BY <1>1, OrderInverse, UndoingIs
<1>3. Ordered(C, v, n, P, S)
  <2>1. q = p => P = S
    BY <1>2
  <2> QED
    BY <1>1, <1>2, <2>1 DEF Ordered, TitlesFollow
<1>4. PICK r : r = Transposed(v, P, S) /\ r = Transpose(p, v)
  BY <1>1, <1>2, TransposeIs
<1>5. PICK e : e = Permuted(v.dims, S)
  OBVIOUS
<1>6. Typed(C, r) /\ r.dims = e
  <2>1. r = Transposed(v, P, S)
    BY <1>4
  <2> QED
    BY <1>3, <1>5, <2>1, TransposedTyped
<1>7. n = Len(e)
  BY <1>3, <1>5, OrderedParts
<1>8. Transpose(q, r) = Transposed(r, S, P)
  BY <1>2, <1>6, <1>7, TransposeIs
<1>9. Transpose(q, r) = v
  <2>1. Transposed(Transposed(v, P, S), S, P) = v
    BY <1>3, TransposedBack
  <2> QED
    BY <1>4, <1>8, <2>1
<1>10. ASSUME NEW k \in DOMAIN p
       PROVE  /\ r.dims[p[k] + 1] = v.dims[k]
              /\ Transpose(p, ReverseAxis(v, k - 1)) = ReverseAxis(r, p[k])
  <2>1. k \in 1 .. n /\ p[k] \in 0 .. (n - 1)
    BY <1>1, OrderCovers DEF Orders
  <2>2. PICK j \in 1 .. n : j = P[k] /\ j = p[k] + 1 /\ S[j] = k
    BY <1>2, <2>1 DEF Places, Inverses
  <2>3. DOMAIN S = 1 .. n
    BY <1>2 DEF Inverses
  <2>4. r.dims[j] = v.dims[k]
    BY <1>5, <1>6, <2>2, <2>3 DEF Permuted
  <2>5. PICK m \in Nat : m = v.dims[k]
    BY <1>1, <2>1, TypedParts, ElementOfSeq
  <2>6. PICK g \in Within(m) : g = Back(m)
    BY BackIs
  <2>7. PICK i \in 0 .. (Len(v.dims) - 1) : i = k - 1 /\ i + 1 = k
    BY <1>1, <2>1
  <2>8. PICK w : w = ReverseAxis(v, i) /\ w = Turned(v, k, g, g)
    BY <2>5, <2>6, <2>7, ReverseTurns
  <2>9. Typed(C, w) /\ w.dims = v.dims
    BY <2>7, <2>8, ReverseKeeps
  <2>10. Transpose(p, w) = Transposed(w, P, S)
    BY <1>1, <1>2, <2>9, TransposeIs
  <2>11. Transposed(w, P, S) = Turned(r, j, g, g)
    <3>1. g \in Within(v.dims[k])
      BY <2>5
    <3>2. Transposed(Turned(v, k, g, g), P, S) = Turned(Transposed(v, P, S), P[k], g, g)
      BY <1>3, <2>1, <3>1, TransposedTurned
    <3> QED
      BY <1>4, <2>2, <2>8, <3>2
  <2>12. PICK l \in 0 .. (Len(r.dims) - 1) : l = p[k] /\ l + 1 = j
    BY <1>6, <1>7, <2>1, <2>2
  <2>13. ReverseAxis(r, l) = Turned(r, j, g, g)
    BY <1>6, <2>4, <2>5, <2>6, <2>12, ReverseTurns
  <2> QED
    BY <2>2, <2>4, <2>7, <2>8, <2>10, <2>11, <2>12, <2>13
<1> QED
  BY <1>2, <1>4, <1>6, <1>9, <1>10 DEF TransposeLaw, Typed

-----------------------------------------------------------------------------
(* Reshape                                                                 *)

LEMMA CountOfTwo ==
  ASSUME NEW a \in Nat, NEW b \in Nat
  PROVE  Count(<<a, b>>) = a * b
<1>1. PICK d \in Seq(Nat) : d = <<a, b>> /\ Len(d) = 2 /\ d[1] = a /\ d[2] = b
  <2>1. <<a, b>> \in Seq(Nat)
    OBVIOUS
  <2>2. Len(<<a, b>>) = 2 /\ <<a, b>>[1] = a /\ <<a, b>>[2] = b
    OBVIOUS
  <2> QED
    BY <2>1, <2>2, Zenon
<1>2. PICK f : Multiplied(d, f) /\ Count(d) = f[Len(d)]
  BY CountSteps
<1>3. f[0] = 1 /\ f[1] = f[0] * d[1] /\ f[2] = f[1] * d[2]
  BY <1>1, <1>2 DEF Multiplied
<1>4. f[1] = a
  BY <1>1, <1>3
<1>5. f[2] = a * b
  BY <1>1, <1>3, <1>4
<1> QED
  BY <1>1, <1>2, <1>5

LEMMA QuotientNat ==
  ASSUME NEW n \in Nat, NEW m \in Nat \ {0}
  PROVE  n \div m \in Nat /\ (n \div m) * m = n - (n % m) /\ n % m \in 0 .. (m - 1) /\ n % m <= n
<1>1. PICK q \in Int, r \in 0 .. (m - 1) : q = n \div m /\ r = n % m /\ n = q * m + r
  BY DividedBy
<1>2. q >= 0
  <2>1. CASE q <= -1
    <3>1. PICK x \in Nat : x = -q - 1
      BY <2>1
    <3>2. q * m = -(x * m + m) /\ x * m \in Nat
      BY <3>1
    <3> QED
      BY <1>1, <3>2
  <2> QED
    BY <2>1
<1>3. q * m = n - r
  BY <1>1
<1>4. q * m \in Nat
  BY <1>2
<1> QED
  BY <1>1, <1>2, <1>3, <1>4

(* The cells of s, again and again or with fills after them.               *)
Repeats(s, n, k, extend, fill, r) ==
  /\ Len(r) = k /\ DOMAIN r = 1 .. k /\ r = [i \in 1 .. k |-> r[i]]
  /\ \A i \in 1 .. k : i <= n => r[i] = s[i]
  /\ \A i \in 1 .. k : n > 0 /\ extend /\ i > n => r[i] = fill
  /\ \A i \in 1 .. k : n > 0 /\ ~extend => r[i] = s[((i - 1) % n) + 1]

LEMMA RemainderBelow ==
  ASSUME NEW n \in Nat \ {0}, NEW x \in 0 .. (n - 1)
  PROVE  x % n = x
<1>1. x = 0 * n + x /\ x \in Int /\ 0 \in Int
  OBVIOUS
<1> QED
  BY <1>1, RemainderOf

LEMMA CycledIs ==
  ASSUME NEW C, NEW s, NEW n, NEW k, NEW extend, NEW fill,
         s \in Seq(C), n = Len(s), k \in Nat, extend \in BOOLEAN
  PROVE  Repeats(s, n, k, extend, fill, Cycled(s, k, extend, fill))
<1>1. n \in Nat /\ (s = <<>> <=> n = 0)
  BY LenProperties, EmptySeq
<1>2. PICK src : src = IF s = <<>> THEN <<fill>> ELSE s
  OBVIOUS
<1>3. PICK l \in Nat \ {0} : l = Len(src) /\ (n > 0 => l = n /\ src = s)
  BY <1>1, <1>2
<1>4. PICK r : /\ r = Cycled(s, k, extend, fill)
               /\ r = [i \in 1 .. k |-> IF extend /\ i > l THEN fill ELSE src[((i - 1) % l) + 1]]
  BY <1>2, <1>3, Zenon DEF Cycled
<1>5. Len(r) = k /\ DOMAIN r = 1 .. k /\ r = [i \in 1 .. k |-> r[i]]
  <2>1. DOMAIN r = 1 .. k /\ r = [i \in 1 .. k |-> r[i]]
    BY <1>4
  <2>2. PICK T : \A i \in 1 .. k : r[i] \in T
    <3>1. \A i \in 1 .. k : r[i] \in {r[j] : j \in 1 .. k}
      OBVIOUS
    <3> QED
      BY <3>1
  <2>3. r \in [1 .. k -> T]
    BY <2>1, <2>2
  <2> QED
    BY <2>1, <2>3, MadeASeq
<1>6. ASSUME NEW i \in 1 .. k, i <= n PROVE r[i] = s[i]
  <2>1. n > 0 /\ l = n /\ src = s
    BY <1>1, <1>3, <1>6
  <2>2. i - 1 \in 0 .. (n - 1) /\ n \in Nat \ {0}
    BY <1>1, <1>6
  <2>3. (i - 1) % n = i - 1
    BY <2>2, RemainderBelow
  <2>4. ~(i > l) /\ (i - 1) + 1 = i
    BY <1>1, <1>6, <2>1
  <2> QED
    BY <1>4, <2>1, <2>3, <2>4
<1>7. ASSUME NEW i \in 1 .. k, n > 0, extend, i > n PROVE r[i] = fill
  <2>1. i > l
    BY <1>3, <1>7
  <2> QED
    BY <1>4, <1>7, <2>1
<1>8. ASSUME NEW i \in 1 .. k, n > 0, ~extend PROVE r[i] = s[((i - 1) % n) + 1]
  BY <1>3, <1>4, <1>8
<1>9. Repeats(s, n, k, extend, fill, r)
  BY <1>5, <1>6, <1>7, <1>8 DEF Repeats
<1> QED
  BY <1>4, <1>9

SizeOf(n, m, kind) == n \div m + (IF kind \in {FillDim, CycleDim} /\ n % m # 0 THEN 1 ELSE 0)
(* j is the place of the computed dimension, and d the dimensions.         *)
Shaped(v, kind, m, j, spec, n) ==
  LET part == SizeOf(n, m, kind)
      d == IF j = 1 THEN <<part, m>> ELSE <<m, part>>
  IN  Reshape(spec, v) = IF kind = MatchDim /\ n % m # 0 THEN Err
                         ELSE Arr(d, Cycled(v.data, part * m, kind = FillDim, Num(0)))

LEMMA ReshapeIs ==
  ASSUME NEW C, NEW v, NEW j, NEW kind, NEW m, NEW spec, NEW n,
         Typed(C, v), n = Len(v.data), m \in Nat \ {0}, kind \in Computed, j \in {1, 2},
         spec = IF j = 1 THEN <<kind, m>> ELSE <<m, kind>>
  PROVE  Shaped(v, kind, m, j, spec, n)
<1> DEFINE Cd == {k \in DOMAIN spec : spec[k] \in Computed}
           Sz == IF v = Null THEN 0 ELSE IF IsArr(v) \/ IsStr(v) THEN ElementCount(v) ELSE 1
           Sc == IF v = Null THEN <<>> ELSE Elements(v)
           Fx(K) == Most(1, Count([k \in DOMAIN spec |-> IF k \in K THEN 1 ELSE Most(0, spec[k])]))
           Pt(size, c, fx) == size \div fx + (IF c \in {FillDim, CycleDim} /\ size % fx # 0 THEN 1 ELSE 0)
           Dm(K, part) == [k \in DOMAIN spec |-> IF k \in K THEN part ELSE Most(0, spec[k])]
           V(K, c, size, fx, d, src) ==
             CASE spec = <<>> -> DiscloseFirst(v)
               [] Cardinality(K) > 1 -> Err
               [] \E k \in DOMAIN spec : spec[k] < 0 /\ k \notin K -> Err
               [] K # {} /\ IsBox(v) -> Err
               [] K # {} /\ c = MatchDim /\ size % fx # 0 -> Err
               [] OTHER -> Arr(d, Cycled(src, Count(d), K # {} /\ c = FillDim, Num(0)))
           Ch(K) == spec[CHOOSE k \in K : TRUE]
<1>1. Reshape(spec, v) = V(Cd, Ch(Cd), Sz, Fx(Cd), Dm(Cd, Pt(Sz, Ch(Cd), Fx(Cd))), Sc)
  BY Zenon DEF Reshape, ReshapeFill
<1>2. /\ v \in ArraysOf(C) /\ v.dims \in Seq(Nat) /\ Len(v.data) = Count(v.dims)
      /\ v.tag = "array" /\ v.dims # <<>> /\ IsArr(v) /\ ~IsStr(v)
  BY TypedParts
<1>3. n \in Nat
  BY <1>2, Parts, LenProperties
<1>4. v # Null
  BY <1>2 DEF Null
<1>5. Sz = n
  BY <1>2, <1>4 DEF ElementCount, Dims
<1>6. Sc = v.data
  BY <1>2, <1>4 DEF Elements
<1>7. kind \in Int /\ kind < 0 /\ m \notin Computed
  BY DEF Computed, MatchDim, FillDim, TruncDim, CycleDim
<1>8. DOMAIN spec = {1, 2} /\ spec[j] = kind /\ (\A k \in {1, 2} : k # j => spec[k] = m) /\ spec # <<>>
  <2>1. CASE j = 1
    BY <2>1
  <2>2. CASE j = 2
    BY <2>2
  <2> QED
    BY <2>1, <2>2
<1>9. Cd = {j}
  BY <1>7, <1>8
<1>10. Ch({j}) = kind
  BY <1>8
<1>11. PICK s : s = [k \in DOMAIN spec |-> IF k \in {j} THEN 1 ELSE Most(0, spec[k])]
  OBVIOUS
<1>12. Most(0, m) = m /\ Most(1, m) = m
  BY DEF Most
<1>13. Count(s) = m
  <2>1. CASE j = 1
    <3>1. s = <<1, m>>
      BY <1>8, <1>11, <1>12, <2>1
    <3>2. Count(<<1, m>>) = 1 * m
      BY CountOfTwo
    <3> QED
      BY <3>1, <3>2
  <2>2. CASE j = 2
    <3>1. s = <<m, 1>>
      BY <1>8, <1>11, <1>12, <2>2
    <3>2. Count(<<m, 1>>) = m * 1
      BY CountOfTwo
    <3> QED
      BY <3>1, <3>2
  <2> QED
    BY <2>1, <2>2
<1>14. Fx({j}) = m
  BY <1>11, <1>12, <1>13
<1>15. PICK part \in Nat : part = SizeOf(n, m, kind)
  <2>1. PICK q \in Nat : q = n \div m
    BY <1>3, QuotientNat
  <2>2. CASE kind \in {FillDim, CycleDim} /\ n % m # 0
    <3>1. SizeOf(n, m, kind) = q + 1
      BY <2>1, <2>2 DEF SizeOf
    <3> QED
      BY <3>1
  <2>3. CASE ~(kind \in {FillDim, CycleDim} /\ n % m # 0)
    <3>1. SizeOf(n, m, kind) = q + 0
      BY <2>1, <2>3, Zenon DEF SizeOf
    <3> QED
      BY <3>1
  <2> QED
    BY <2>2, <2>3
<1>16. Pt(n, kind, m) = part
  BY <1>15 DEF SizeOf
<1>17. PICK d : d = IF j = 1 THEN <<part, m>> ELSE <<m, part>>
  OBVIOUS
<1>18. Dm({j}, part) = d
  <2>1. CASE j = 1
    BY <1>8, <1>12, <1>17, <2>1
  <2>2. CASE j = 2
    BY <1>8, <1>12, <1>17, <2>2
  <2> QED
    BY <2>1, <2>2
<1>19. Count(d) = part * m
  <2>1. CASE j = 1
    BY <1>17, <2>1, CountOfTwo
  <2>2. CASE j = 2
    <3>1. Count(<<m, part>>) = m * part
      BY CountOfTwo
    <3> QED
      BY <1>17, <2>2, <3>1
  <2> QED
    BY <2>1, <2>2
<1>20. Reshape(spec, v) = V({j}, kind, n, m, d, v.data)
  <2> HIDE DEF V, Dm, Pt, Fx, Ch, Cd, Sz, Sc
  <2> QED
    BY <1>1, <1>5, <1>6, <1>9, <1>10, <1>14, <1>16, <1>18
<1>21. /\ spec # <<>> /\ ~(Cardinality({j}) > 1) /\ ~IsBox(v) /\ {j} # {}
       /\ ~(\E k \in DOMAIN spec : spec[k] < 0 /\ k \notin {j})
  <2>1. Cardinality({j}) = 1
    BY FS_Singleton
  <2>2. \A k \in DOMAIN spec : k \notin {j} => ~(spec[k] < 0)
    BY <1>8
  <2> QED
    BY <1>2, <1>8, <2>1, <2>2 DEF IsBox
<1>22. PICK b : b = (kind = FillDim)
  OBVIOUS
<1>23. ({j} # {} /\ kind = FillDim) = b
  BY <1>22
<1>24. V({j}, kind, n, m, d, v.data)
         = IF kind = MatchDim /\ n % m # 0 THEN Err ELSE Arr(d, Cycled(v.data, Count(d), b, Num(0)))
  BY <1>21, <1>23, Zenon
<1> HIDE DEF V
<1> QED
  BY <1>15, <1>17, <1>19, <1>20, <1>22, <1>24, Zenon DEF Shaped

Prefix(s, t) == Len(s) <= Len(t) /\ s = SubSeq(t, 1, Len(s))

LEMMA PrefixIs ==
  ASSUME NEW C, NEW s \in Seq(C), NEW t, Len(s) <= Len(t), \A i \in 1 .. Len(s) : t[i] = s[i]
  PROVE  Prefix(s, t)
<1>1. PICK n \in Nat : n = Len(s)
  BY LenProperties
<1>2. \A i \in 1 .. n : t[i] \in C
  BY <1>1, ElementOfSeq, LenProperties
<1>3. PICK u : u = SubSeq(t, 1, n)
  OBVIOUS
<1>4. /\ u \in Seq(C) /\ Len(u) = IF 1 <= n THEN n - 1 + 1 ELSE 0
      /\ \A i \in 1 .. (n - 1 + 1) : u[i] = t[1 + i - 1]
  BY <1>2, <1>3, SubSeqProperties
<1>5. Len(u) = n /\ \A i \in 1 .. n : u[i] = t[i]
  BY <1>4
<1>6. s = u
  BY <1>1, <1>4, <1>5, SeqEqual
<1> QED
  BY <1>1, <1>3, <1>6 DEF Prefix

LEMMA RepeatsTyped ==
  ASSUME NEW s, NEW n, NEW k, NEW extend, NEW fill, NEW r, k \in Nat, Repeats(s, n, k, extend, fill, r)
  PROVE  \E T : r \in Seq(T)
<1>1. DOMAIN r = 1 .. k /\ r = [i \in 1 .. k |-> r[i]]
  BY DEF Repeats
<1>2. PICK T : \A i \in 1 .. k : r[i] \in T
  <2>1. \A i \in 1 .. k : r[i] \in {r[j] : j \in 1 .. k}
    OBVIOUS
  <2> QED
    BY <2>1
<1>3. r \in [1 .. k -> T]
  BY <1>1, <1>2
<1> QED
  BY <1>3, MadeASeq

LEMMA RepeatsSame ==
  ASSUME NEW C, NEW s, NEW n, NEW extend, NEW fill, NEW r,
         s \in Seq(C), n = Len(s), Repeats(s, n, n, extend, fill, r)
  PROVE  r = s
<1>1. n \in Nat /\ DOMAIN s = 1 .. n /\ s = [i \in 1 .. n |-> s[i]]
  BY LenProperties
<1>2. r = [i \in 1 .. n |-> r[i]] /\ \A i \in 1 .. n : r[i] = s[i]
  BY <1>1 DEF Repeats
<1> QED
  BY <1>1, <1>2

(* A reshape whose computed dimension is not "match": its cells r.         *)
LEMMA ReshapeCells ==
  ASSUME NEW C, NEW v, NEW kind, NEW m, NEW n, NEW k,
         Typed(C, v), n = Len(v.data), m \in Nat \ {0}, kind \in Computed \ {MatchDim},
         k = SizeOf(n, m, kind) * m, k \in Nat
  PROVE  Repeats(v.data, n, k, kind = FillDim, Num(0), Reshape(<<m, kind>>, v).data)
<1>1. Shaped(v, kind, m, 2, <<m, kind>>, n)
  BY ReshapeIs
<1>2. PICK d, r : r = Cycled(v.data, k, kind = FillDim, Num(0)) /\ Reshape(<<m, kind>>, v) = Arr(d, r)
  BY <1>1, Zenon DEF Shaped
<1>3. Reshape(<<m, kind>>, v).data = r
  BY <1>2 DEF Arr, Labelled
<1>4. v.data \in Seq(C) /\ (kind = FillDim) \in BOOLEAN
  BY TypedParts
<1>5. Repeats(v.data, n, k, kind = FillDim, Num(0), Cycled(v.data, k, kind = FillDim, Num(0)))
  BY <1>4, CycledIs
<1> QED
  BY <1>2, <1>3, <1>5, Zenon

(* The whole rows, and the rows with a last one completed.                 *)
CutTo(n, m, k) == k \in Nat /\ k <= n /\ n - k < m /\ (n % m = 0 => k = n) /\ 1 .. k \subseteq 1 .. n
Completed(n, m, k) == k \in Nat /\ k >= n /\ k - n < m /\ 1 .. n \subseteq 1 .. k /\ (n = 0 => k = 0)

LEMMA RowsCut ==
  ASSUME NEW n \in Nat, NEW m \in Nat \ {0}, NEW kind, kind \notin {FillDim, CycleDim}
  PROVE  SizeOf(n, m, kind) = n \div m /\ CutTo(n, m, SizeOf(n, m, kind) * m)
<1>1. PICK q \in Nat, w \in 0 .. (m - 1) : /\ q = n \div m /\ w = n % m
                                          /\ q * m = n - w /\ w <= n
  BY QuotientNat
<1>2. SizeOf(n, m, kind) = q + 0
  BY <1>1, Zenon DEF SizeOf
<1>3. SizeOf(n, m, kind) = q
  BY <1>2
<1>4. PICK k \in Nat : k = n - w
  BY <1>1
<1>5. CutTo(n, m, k)
  BY <1>1, <1>4 DEF CutTo
<1> QED
  BY <1>1, <1>3, <1>4, <1>5

LEMMA RowsCompleted ==
  ASSUME NEW n \in Nat, NEW m \in Nat \ {0}, NEW kind \in {FillDim, CycleDim}
  PROVE  Completed(n, m, SizeOf(n, m, kind) * m)
<1>1. PICK q \in Nat, w \in 0 .. (m - 1) : /\ q = n \div m /\ w = n % m
                                          /\ q * m = n - w /\ w <= n
  BY QuotientNat
<1>2. CASE w = 0
  <2>1. SizeOf(n, m, kind) = q + 0
    BY <1>1, <1>2, Zenon DEF SizeOf
  <2>2. SizeOf(n, m, kind) = q
    BY <2>1
  <2>3. q * m = n
    BY <1>1, <1>2
  <2>4. Completed(n, m, n)
    BY DEF Completed
  <2> QED
    BY <2>2, <2>3, <2>4
<1>3. CASE w # 0
  <2>1. SizeOf(n, m, kind) = q + 1
    BY <1>1, <1>3, Zenon DEF SizeOf
  <2>2. (q + 1) * m = n - w + m
    BY <1>1
  <2>3. PICK k \in Nat : k = n - w + m
    BY <1>1
  <2>4. Completed(n, m, k)
    BY <1>1, <1>3, <2>3 DEF Completed
  <2> QED
    BY <2>1, <2>2, <2>3, <2>4
<1> QED
  BY <1>2, <1>3

LEMMA ReshapeMatched ==
  ASSUME NEW C, NEW v, NEW m \in Nat \ {0}, NEW n \in Nat, Typed(C, v), n = Len(v.data)
  PROVE  Reshape(<<MatchDim, m>>, v) = IF n % m = 0 THEN Arr(<<n \div m, m>>, v.data) ELSE Err
<1>1. Shaped(v, MatchDim, m, 1, <<MatchDim, m>>, n)
  <2>1. MatchDim \in Computed
    BY DEF Computed
  <2> QED
    BY <2>1, ReshapeIs
<1>2. CASE n % m # 0
  BY <1>1, <1>2, Zenon DEF Shaped
<1>3. CASE n % m = 0
  <2>1. v.data \in Seq(C)
    BY TypedParts
  <2>2. MatchDim \notin {FillDim, CycleDim}
    BY DEF MatchDim, FillDim, CycleDim
  <2>3. PICK q, k : /\ SizeOf(n, m, MatchDim) = q /\ q = n \div m
                    /\ k = SizeOf(n, m, MatchDim) * m /\ CutTo(n, m, k)
    BY <2>2, RowsCut
  <2>4. q * m = n
    BY <1>3, <2>3, Zenon DEF CutTo
  <2>5. PICK b \in BOOLEAN : b = (MatchDim = FillDim)
    OBVIOUS
  <2>6. Repeats(v.data, n, n, b, Num(0), Cycled(v.data, n, b, Num(0)))
    BY <2>1, CycledIs
  <2>7. Cycled(v.data, n, b, Num(0)) = v.data
    BY <2>1, <2>6, RepeatsSame
  <2>8. Reshape(<<MatchDim, m>>, v) = Arr(<<q, m>>, Cycled(v.data, n, b, Num(0)))
    BY <1>1, <1>3, <2>3, <2>4, <2>5, Zenon DEF Shaped
  <2> QED
    BY <1>3, <2>3, <2>7, <2>8, Zenon
<1> QED
  BY <1>2, <1>3

LEMMA ReshapeCut ==
  ASSUME NEW C, NEW v, NEW m \in Nat \ {0}, NEW n \in Nat, NEW r,
         Typed(C, v), n = Len(v.data), r = Reshape(<<m, TruncDim>>, v).data
  PROVE  Prefix(r, v.data) /\ n - Len(r) < m
<1>1. TruncDim \in Computed \ {MatchDim} /\ TruncDim \notin {FillDim, CycleDim}
  BY DEF Computed, MatchDim, TruncDim, FillDim, CycleDim
<1>2. PICK k : k = SizeOf(n, m, TruncDim) * m /\ CutTo(n, m, k)
  BY <1>1, RowsCut
<1>3. k \in Nat /\ k <= n /\ n - k < m /\ 1 .. k \subseteq 1 .. n
  BY <1>2, Zenon DEF CutTo
<1>4. Repeats(v.data, n, k, TruncDim = FillDim, Num(0), r)
  BY <1>1, <1>2, <1>3, ReshapeCells
<1>5. Len(r) = k /\ \A i \in 1 .. k : i <= n => r[i] = v.data[i]
  BY <1>4, Zenon DEF Repeats
<1>6. \A i \in 1 .. k : i <= n
  BY <1>3
<1>7. PICK T : r \in Seq(T)
  BY <1>3, <1>4, RepeatsTyped
<1>8. Prefix(r, v.data)
  <2>1. \A i \in 1 .. Len(r) : v.data[i] = r[i]
    BY <1>5, <1>6
  <2>2. Len(r) <= Len(v.data)
    BY <1>3, <1>5
  <2> QED
    BY <1>7, <2>1, <2>2, PrefixIs
<1> QED
  BY <1>3, <1>5, <1>8

RowsFilled(v, m, n, r) ==
  /\ Prefix(v.data, r) /\ Len(r) - n < m
  /\ \A i \in (n + 1) .. Len(r) : r[i] = Num(0)
  /\ Len(r) = SizeOf(n, m, FillDim) * m

LEMMA ReshapeFilled ==
  ASSUME NEW C, NEW v, NEW m \in Nat \ {0}, NEW n \in Nat, NEW r,
         Typed(C, v), n = Len(v.data), r = Reshape(<<m, FillDim>>, v).data
  PROVE  RowsFilled(v, m, n, r)
<1>1. FillDim \in Computed \ {MatchDim}
  BY DEF Computed, MatchDim, FillDim
<1>2. v.data \in Seq(C) /\ n \in Nat
  BY TypedParts, LenProperties
<1>3. PICK k \in Nat : /\ k = SizeOf(n, m, FillDim) * m /\ k >= n /\ k - n < m
                       /\ 1 .. n \subseteq 1 .. k /\ (n = 0 => k = 0)
  BY <1>2, RowsCompleted DEF Completed
<1>4. PICK b \in BOOLEAN : b = (FillDim = FillDim)
  OBVIOUS
<1>5. Repeats(v.data, n, k, b, Num(0), r)
  BY <1>1, <1>3, <1>4, ReshapeCells
<1>6. Len(r) = k /\ \A i \in 1 .. n : r[i] = v.data[i]
  <2>1. Len(r) = k /\ \A i \in 1 .. k : i <= n => r[i] = v.data[i]
    BY <1>5, Zenon DEF Repeats
  <2>2. \A i \in 1 .. n : i \in 1 .. k /\ i <= n
    BY <1>3
  <2> QED
    BY <2>1, <2>2, Zenon
<1>7. Prefix(v.data, r)
  BY <1>2, <1>3, <1>6, PrefixIs
<1>8. ASSUME NEW i \in (n + 1) .. k PROVE r[i] = Num(0)
  <2>1. CASE n > 0
    <3>1. i \in 1 .. k /\ i > n
      BY <1>2, <1>3
    <3> QED
      BY <1>4, <1>5, <2>1, <3>1 DEF Repeats
  <2>2. CASE n = 0
    <3>1. k = 0
      BY <1>3, <2>2
    <3> QED
      BY <1>2, <3>1
  <2> QED
    BY <1>2, <2>1, <2>2
<1> QED
  BY <1>3, <1>6, <1>7, <1>8 DEF RowsFilled

LEMMA ReshapeCycled ==
  ASSUME NEW C, NEW v, NEW m \in Nat \ {0}, NEW n \in Nat, NEW r,
         Typed(C, v), n = Len(v.data), r = Reshape(<<m, CycleDim>>, v).data
  PROVE  /\ Len(r) = SizeOf(n, m, CycleDim) * m
         /\ n > 0 => \A i \in DOMAIN r : r[i] = v.data[((i - 1) % n) + 1]
<1>1. CycleDim \in Computed \ {MatchDim} /\ CycleDim # FillDim
  BY DEF Computed, MatchDim, FillDim, CycleDim
<1>2. v.data \in Seq(C) /\ n \in Nat
  BY TypedParts, LenProperties
<1>3. PICK k \in Nat : k = SizeOf(n, m, CycleDim) * m
  BY <1>2, RowsCompleted DEF Completed
<1>4. PICK b \in BOOLEAN : b = (CycleDim = FillDim)
  OBVIOUS
<1>5. Repeats(v.data, n, k, b, Num(0), r)
  BY <1>1, <1>3, <1>4, ReshapeCells
<1> QED
  BY <1>1, <1>3, <1>4, <1>5 DEF Repeats

(* The cells of an array, reshaped to its dimensions.                      *)
LEMMA ReshapeFlat ==
  ASSUME NEW C, NEW v, NEW e, Typed(C, v), e = VecOf(v.data)
  PROVE  Reshape(v.dims, e) = NoLabels(v)
<1> DEFINE Cd == {k \in DOMAIN v.dims : v.dims[k] \in Computed}
           Sz == IF e = Null THEN 0 ELSE IF IsArr(e) \/ IsStr(e) THEN ElementCount(e) ELSE 1
           Sc == IF e = Null THEN <<>> ELSE Elements(e)
           Fx(K) == Most(1, Count([k \in DOMAIN v.dims |-> IF k \in K THEN 1 ELSE Most(0, v.dims[k])]))
           Pt(size, c, fx) == size \div fx + (IF c \in {FillDim, CycleDim} /\ size % fx # 0 THEN 1 ELSE 0)
           Dm(K, part) == [k \in DOMAIN v.dims |-> IF k \in K THEN part ELSE Most(0, v.dims[k])]
           V(K, c, size, fx, d, src) ==
             CASE v.dims = <<>> -> DiscloseFirst(e)
               [] Cardinality(K) > 1 -> Err
               [] \E k \in DOMAIN v.dims : v.dims[k] < 0 /\ k \notin K -> Err
               [] K # {} /\ IsBox(e) -> Err
               [] K # {} /\ c = MatchDim /\ size % fx # 0 -> Err
               [] OTHER -> Arr(d, Cycled(src, Count(d), K # {} /\ c = FillDim, Num(0)))
           Ch(K) == v.dims[CHOOSE k \in K : TRUE]
<1>1. Reshape(v.dims, e) = V(Cd, Ch(Cd), Sz, Fx(Cd), Dm(Cd, Pt(Sz, Ch(Cd), Fx(Cd))), Sc)
  BY Zenon DEF Reshape, ReshapeFill
<1>2. /\ v \in ArraysOf(C) /\ v.dims \in Seq(Nat) /\ Len(v.data) = Count(v.dims) /\ v.dims # <<>>
      /\ v.data \in Seq(C)
  BY TypedParts
<1>3. DOMAIN v.dims = 1 .. Len(v.dims) /\ \A k \in DOMAIN v.dims : v.dims[k] \in Nat
  BY <1>2, LenProperties, ElementOfSeq
<1>4. e.tag = "array" /\ e.data = v.data /\ e # Null /\ ~IsStr(e) /\ e.tag # "null" /\ e.tag \in {"array", "list"}
  BY DEF VecOf, Arr, Labelled, Null, IsStr
<1>5. Sc = v.data
  BY <1>4 DEF Elements
<1>6. Cd = {}
  BY <1>3 DEF Computed, MatchDim, FillDim, TruncDim, CycleDim
<1>7. \A part : Dm({}, part) = v.dims
  <2>1. \A k \in DOMAIN v.dims : Most(0, v.dims[k]) = v.dims[k]
    BY <1>3 DEF Most
  <2>2. v.dims = [k \in DOMAIN v.dims |-> v.dims[k]]
    BY <1>2, <1>3
  <2> QED
    BY <2>1, <2>2
<1>8. PICK c, size, fx : Reshape(v.dims, e) = V({}, c, size, fx, v.dims, v.data)
  <2> HIDE DEF V, Dm, Pt, Fx, Ch, Cd, Sz, Sc
  <2> QED
    BY <1>1, <1>5, <1>6, <1>7
<1>9. ~(Cardinality({}) > 1)
  BY FS_EmptySet
<1>10. ~(\E k \in DOMAIN v.dims : v.dims[k] < 0 /\ k \notin {})
  BY <1>3
<1>11. PICK n, b : n = Count(v.dims) /\ b \in BOOLEAN /\ b = ({} # {} /\ c = FillDim)
  OBVIOUS
<1>12. V({}, c, size, fx, v.dims, v.data) = Arr(v.dims, Cycled(v.data, n, b, Num(0)))
  BY <1>2, <1>9, <1>10, <1>11, Zenon
<1>13. n \in Nat /\ n = Len(v.data)
  BY <1>2, <1>11, LenProperties
<1> HIDE DEF V
<1>14. Repeats(v.data, n, n, b, Num(0), Cycled(v.data, n, b, Num(0)))
  BY <1>2, <1>11, <1>13, CycledIs
<1>15. Cycled(v.data, n, b, Num(0)) = v.data
  BY <1>2, <1>13, <1>14, RepeatsSame
<1>16. NoLabels(v) = Arr(v.dims, v.data)
  <2>1. v = Labelled(v.dims, v.data, v.labels) /\ IsArr(v)
    BY <1>2, Parts
  <2> QED
    BY <2>1 DEF NoLabels, Arr, Labelled
<1> QED
  BY <1>8, <1>12, <1>15, <1>16

LEMMA ReshapeLawful ==
  ASSUME NEW C, NEW v, NEW m, Typed(C, v), m \in Nat \ {0}
  PROVE  ReshapeLaw(v, m)
<1>1. PICK n, matched, cut, filled, cycled :
        /\ n = Len(v.data) /\ n \in Nat
        /\ matched = Reshape(<<MatchDim, m>>, v)
        /\ cut = Reshape(<<m, TruncDim>>, v).data
        /\ filled = Reshape(<<m, FillDim>>, v).data
        /\ cycled = Reshape(<<m, CycleDim>>, v).data
  BY TypedParts, LenProperties
<1>2. matched = IF n % m = 0 THEN Arr(<<n \div m, m>>, v.data) ELSE Err
  BY <1>1, ReshapeMatched
<1>3. Prefix(cut, v.data) /\ n - Len(cut) < m
  BY <1>1, ReshapeCut
<1>4. RowsFilled(v, m, n, filled)
  BY <1>1, ReshapeFilled
<1>5. /\ Len(cycled) = SizeOf(n, m, CycleDim) * m
      /\ n > 0 => \A i \in DOMAIN cycled : cycled[i] = v.data[((i - 1) % n) + 1]
  BY <1>1, ReshapeCycled
<1>6. SizeOf(n, m, FillDim) = SizeOf(n, m, CycleDim)
  BY Zenon DEF SizeOf
<1>7. Reshape(v.dims, VecOf(v.data)) = NoLabels(v)
  BY ReshapeFlat
<1> QED
  BY <1>1, <1>2, <1>3, <1>4, <1>5, <1>6, <1>7, Zenon DEF ReshapeLaw, Prefix, RowsFilled

-----------------------------------------------------------------------------
(* A reversal of any axis of an array stored as its cells, whatever its    *)
(* rank and its size, gives such an array and undoes itself; rotations of  *)
(* an axis add up, a full turn is none, and a reversal changes their       *)
(* direction: no cell and no title is lost, and none moves off its axis.   *)
THEOREM AxesTurned ==
  ASSUME NEW Cell, NEW v \in ArraysOf(Cell), FlatArray(v), NEW k \in 0 .. (Len(v.dims) - 1)
  PROVE  ReverseLaw(v, k) /\ \A n, m \in Int : RotateLaw(v, k, n, m)
<1>1. Typed(Cell, v)
  BY DEF Typed
<1> QED
  BY <1>1, ReverseLawful, RotateLawful

(* A transposition, by any order of the axes in which its titles follow    *)
(* their axes, takes each axis where the order says, a reversed axis with  *)
(* it, and the inverse order undoes it.                                    *)
THEOREM AxesExchanged ==
  ASSUME NEW Cell, NEW v \in ArraysOf(Cell), FlatArray(v),
         NEW p \in Orders(Len(v.dims)), TitlesFollow(v, p)
  PROVE  TransposeLaw(v, p)
<1>1. Typed(Cell, v)
  BY DEF Typed
<1> QED
  BY <1>1, TransposeLawful

(* The property of the runs, for an array of any rank and size and a       *)
(* reshape to rows of any length: reshape, reverse, rotate and transpose   *)
(* lose no cell, no title and no place.                                    *)
THEOREM ArraysRearranged ==
  ASSUME NEW Cell, it \in ArraysOf(Cell)
  PROVE  /\ FlatArray(it) => \A m \in Nat \ {0} : ReshapeLaw(it, m)
         /\ RearrangeExact
<1>1. CASE FlatArray(it)
  <2>1. Typed(Cell, it)
    BY <1>1 DEF Typed
  <2>2. \A m \in Nat \ {0} : ReshapeLaw(it, m)
    BY <2>1, ReshapeLawful
  <2>3. \A k \in 0 .. (Len(it.dims) - 1) :
          ReverseLaw(it, k) /\ \A n \in {-1, 2} : RotateLaw(it, k, n, 1)
    <3>1. {-1, 2} \subseteq Int /\ 1 \in Int
      OBVIOUS
    <3> QED
      BY <1>1, <3>1, AxesTurned
  <2>4. \A p \in Orders(Len(it.dims)) : TitlesFollow(it, p) => TransposeLaw(it, p)
    BY <2>1, TransposeLawful
  <2>5. 1 .. 3 \subseteq Nat \ {0}
    OBVIOUS
  <2> QED
    BY <2>2, <2>3, <2>4, <2>5 DEF RearrangeExact
<1>2. CASE ~FlatArray(it)
  BY <1>2 DEF RearrangeExact
<1> QED
  BY <1>1, <1>2
=============================================================================
