------------------------------ MODULE MapStore ------------------------------
(***************************************************************************)
(* A map in use: the statements of a program that makes a map, puts pairs  *)
(* into it, takes keys out of it and collects values under its keys.       *)
(***************************************************************************)
EXTENDS KapMap

CONSTANTS Keys, Contents, \* what the program writes as keys and as values
          MaxWritten,     \* pairs in one statement
          MaxPairs,       \* of a map
          MaxCollected    \* values under one key
ASSUME MapStoreAssumption ==
  /\ {MaxWritten, MaxPairs, MaxCollected} \subseteq Nat
  /\ \A x \in Keys \cup Contents :
       /\ Holder(x) => x.data \in Seq(Keys \cup Contents)
       /\ IsBox(x) => x.data # <<>>

VARIABLES table,          \* the map
          clean           \* no key was given twice when it was made
msVars == <<table, clean>>

PairLists == UNION {[1 .. n -> Keys \X Contents] : n \in 0 .. MaxWritten}
(* Pairs are written as a vector or as a matrix with a row for each.       *)
Argument(s, rows) == IF rows THEN ToArray(MapOf(s)) ELSE VecOf(ToArray(MapOf(s)).data)
Distinct(m) == \A i, j \in DOMAIN m.pairs : i < j => ~KeyEqual(m.pairs[i][1], m.pairs[j][1])
InBounds(m) ==
  /\ Len(m.pairs) <= MaxPairs
  /\ \A i \in DOMAIN m.pairs : IsArr(m.pairs[i][2]) => Len(m.pairs[i][2].data) <= MaxCollected

Make == \E s \in PairLists, rows \in BOOLEAN :
          /\ table' = MapNew(Argument(s, rows))
          /\ clean' = Distinct(table')
PutIn == \E s \in PairLists, rows \in BOOLEAN :
           /\ table' = MapWith(table, Argument(s, rows))
           /\ UNCHANGED clean
TakeOut == \E n \in 0 .. 2 : \E s \in [1 .. n -> Keys] :
             /\ table' = MapRemove(table, VecOf(s))
             /\ UNCHANGED clean
CollectIn == \E s \in PairLists, rows \in BOOLEAN :
               /\ table' = MapAppendTo(table, Argument(s, rows))
               /\ UNCHANGED clean

MsInit == table = MapOf(<<>>) /\ clean = TRUE
MsNext == /\ Make \/ PutIn \/ TakeOut \/ CollectIn
          /\ InBounds(table')
MsSpec == MsInit /\ [][MsNext]_msVars

-----------------------------------------------------------------------------
(* What is found under a key, Err when it is missing.                      *)
Found(m, key) == Lookup(m, key, Err)
Single(e) == Opened(e) = e

(* A map is its keys.  Of two keys that are equal one only is kept, but    *)
(* for the monadic constructor; a pair put in is found under every key     *)
(* that equals its own, the later of two, and no other key finds anything  *)
(* else than before; what is taken out is not found, and nothing else      *)
(* is missed; append collects under the key; an index reads what its keys, *)
(* opened as they were when they were put in, find, so that the keys of a  *)
(* map read its values; the array of the pairs makes the same map; and the *)
(* order of the pairs does not count for equality.                         *)
KeyLaws(k, v) ==
  LET put == MapWith(table, VecOf(<<k, v>>))
      cut == MapRemove(table, VecOf(<<k>>))
      more == MapAppendTo(table, VecOf(<<k, v>>))
      key == Opened(k)
  IN  /\ \A j \in Keys :
           /\ Found(put, j) = IF KeyEqual(key, j) THEN Opened(v) ELSE Found(table, j)
           /\ Found(cut, j) = IF KeyEqual(k, j) THEN Err ELSE Found(table, j)
           /\ Found(more, j) = IF KeyEqual(key, j) THEN VecOf(Append(Collected(table, key), Opened(v)))
                               ELSE Found(table, j)
           /\ \A w \in Contents :
                MapWith(table, VecOf(<<k, v, j, w>>)) = MapWith(put, VecOf(<<j, w>>))
      /\ KeyEqual(key, key) => MapIndex(put, VecOf(<<k, k>>)) = VecOf(<<Opened(v), Opened(v)>>)
      /\ clean /\ Single(k) /\ KeyEqual(k, k) =>
           /\ Len(put.pairs) = Len(cut.pairs) + 1
           /\ Len(table.pairs) \in {Len(put.pairs), Len(cut.pairs)}
Reordered == {MapOf([i \in DOMAIN table.pairs |-> table.pairs[f[i]]]) :
                f \in {f \in [DOMAIN table.pairs -> DOMAIN table.pairs] : IsInjective(f)}}
AllSingle == \A i \in DOMAIN table.pairs : Single(table.pairs[i][1]) /\ Single(table.pairs[i][2])
AllEqual(column) == \A i \in DOMAIN table.pairs : KeyEqual(table.pairs[i][column], table.pairs[i][column])
MapLaws ==
  IsMap(table) =>
    /\ clean => Distinct(table)
    /\ \A k \in Keys, v \in Contents : KeyLaws(k, v)
    /\ clean /\ AllSingle /\ AllEqual(1) /\ Len(table.pairs) # 1 =>
         MapIndex(table, KeysArray(table)) = VecOf([i \in DOMAIN table.pairs |-> table.pairs[i][2]])
    /\ AllSingle => \A rows \in BOOLEAN : MapNew(Argument(table.pairs, rows)) = table
    /\ clean /\ AllEqual(1) /\ AllEqual(2) =>
         \A m \in Reordered : MapDeepEqual(table, m) /\ MapDeepEqual(m, table)
=============================================================================
