------------------------------- MODULE KapMap -------------------------------
(***************************************************************************)
(* Maps of map.rs and the map: functions of evaluator.rs.  A map is its    *)
(* pairs in the order they were first inserted; lookups take the first     *)
(* pair with an equal key.  The monadic constructor keeps the pairs it is  *)
(* given, equal keys included.                                             *)
(***************************************************************************)
EXTENDS AplValues

CONSTANT MaxDepth         \* of the nesting of a value
ASSUME KapMapAssumption == MaxDepth \in Nat

MapOf(pairs) == [tag |-> "map", pairs |-> pairs]
IsMap(v) == v.tag = "map"

(* Equality of keys, and of the values of two compared maps: nil and maps  *)
(* equal nothing, a string is no array of characters.  Two arrays or lists *)
(* of one shape are equal when what is at the same place in them is: all   *)
(* that is compared at one depth is compared at once.                      *)
Holder(v) == v.tag \in {"array", "list"}
Alike(a, b) ==
  /\ a.tag = b.tag /\ a.tag \notin {"nil", "map"}
  /\ IF Holder(a) THEN (IsArr(a) => a.dims = b.dims) /\ Len(a.data) = Len(b.data) ELSE a = b
Below(p) ==
  IF Holder(p[1]) /\ Alike(p[1], p[2])
  THEN {<<p[1].data[i], p[2].data[i]>> : i \in DOMAIN p[1].data} ELSE {}
KeyEqual(a, b) ==
  LET compared[depth \in 0 .. MaxDepth] ==
        IF depth = 0 THEN {<<a, b>>} ELSE UNION {Below(p) : p \in compared[depth - 1]}
  IN  \A depth \in 0 .. MaxDepth : \A p \in compared[depth] : Alike(p[1], p[2])

At(m, key) == {i \in DOMAIN m.pairs : KeyEqual(m.pairs[i][1], key)}
Has(m, key) == At(m, key) # {}
FirstAt(m, key) == CHOOSE i \in At(m, key) : \A j \in At(m, key) : i <= j
Lookup(m, key, missing) == IF Has(m, key) THEN m.pairs[FirstAt(m, key)][2] ELSE missing
MapDeepEqual(a, b) ==
  /\ Len(a.pairs) = Len(b.pairs)
  /\ \A i \in DOMAIN a.pairs : LET key == a.pairs[i][1] IN
       Has(b, key) /\ KeyEqual(a.pairs[i][2], b.pairs[FirstAt(b, key)][2])
WithPairAppended(m, key, value) == MapOf(Append(m.pairs, <<key, value>>))
WithPair(m, key, value) ==
  IF Has(m, key) THEN MapOf([m.pairs EXCEPT ![FirstAt(m, key)] = <<@[1], value>>])
  ELSE MapOf(Append(m.pairs, <<key, value>>))
WithPairs(m, pairs) ==
  LET after[i \in 0 .. Len(pairs)] ==
        IF i = 0 THEN m ELSE WithPair(after[i - 1], pairs[i][1], pairs[i][2])
  IN  after[Len(pairs)]
(* The pairs whose key is none of the given ones, in their order.          *)
WithoutKeys(m, keys) ==
  LET goes(p) == \E i \in DOMAIN keys : KeyEqual(p[1], keys[i])
      kept[i \in 0 .. Len(m.pairs)] ==
        IF i = 0 THEN <<>> ELSE IF goes(m.pairs[i]) THEN kept[i - 1] ELSE Append(kept[i - 1], m.pairs[i])
  IN  MapOf(kept[Len(m.pairs)])
ToArray(m) ==
  Arr(<<Len(m.pairs), 2>>,
      [i \in 1 .. (2 * Len(m.pairs)) |-> m.pairs[(i + 1) \div 2][IF i % 2 = 1 THEN 1 ELSE 2]])
KeysArray(m) == VecOf([i \in DOMAIN m.pairs |-> m.pairs[i][1]])

(* The pairs of an even vector, or of a matrix of two columns, with boxes  *)
(* opened; <<>> and a flag when the array is neither.                      *)
Opened(e) == IF IsBox(e) /\ e.data # <<>> THEN e.data[1] ELSE e
PairsFrom(v) ==
  LET n == Len(v.data) \div 2
      fits == IsArr(v) /\ \/ Len(v.dims) = 1 /\ v.dims[1] % 2 = 0
                          \/ Len(v.dims) = 2 /\ v.dims[2] = 2
  IN  IF fits THEN [ok |-> TRUE, pairs |-> [i \in 1 .. n |-> <<Opened(v.data[2 * i - 1]), Opened(v.data[2 * i])>>]]
      ELSE [ok |-> FALSE, pairs |-> <<>>]
MapNew(v) == LET given == PairsFrom(v) IN IF given.ok THEN MapOf(given.pairs) ELSE Err
MapWith(m, v) == LET given == PairsFrom(v)
                 IN  IF ~given.ok \/ ~IsMap(m) THEN Err ELSE WithPairs(m, given.pairs)
MapGet(m, key) == IF IsMap(m) THEN Lookup(m, key, Null) ELSE Err
MapRemove(m, keys) == IF IsMap(m) THEN WithoutKeys(m, FlatElements(keys)) ELSE Err
(* Collects under each key: the old value's elements, then the new value.  *)
Collected(m, key) ==
  LET cur == Lookup(m, key, Null)
  IN  IF cur = Null THEN <<>> ELSE IF IsArr(cur) THEN cur.data ELSE <<cur>>
AppendPair(m, p) == WithPair(m, p[1], VecOf(Append(Collected(m, p[1]), p[2])))
MapAppendTo(m, v) ==
  LET given == PairsFrom(v)
      after[i \in 0 .. Len(given.pairs)] == IF i = 0 THEN m ELSE AppendPair(after[i - 1], given.pairs[i])
  IN  IF ~given.ok \/ ~IsMap(m) THEN Err ELSE after[Len(given.pairs)]
(* m[sel]: one value for a single selector, an array of values for an      *)
(* array; a missing key gives nil.                                         *)
MapIndex(m, sel) ==
  LET one(k) == Lookup(m, IF IsBox(k) THEN ValueAt(k, 0) ELSE k, Nil)
      key == IF IsArr(sel) /\ sel.dims = <<1>> THEN ValueAt(sel, 0) ELSE sel
  IN  IF IsArr(key) THEN Arr(key.dims, [i \in DOMAIN key.data |-> one(key.data[i])]) ELSE one(key)
=============================================================================
