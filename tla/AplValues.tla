----------------------------- MODULE AplValues ------------------------------
(***************************************************************************)
(* Values of the interpreter (APLValue, KapArray) and the views the        *)
(* primitives take of them.  An array is its dimensions and its storage    *)
(* children.  Numbers are integers and characters code points; labels are  *)
(* one sequence of titles per axis, <<>> for an axis without, 0 for a gap. *)
(***************************************************************************)
EXTENDS Integers, Sequences, FiniteSets, SequencesExt

Num(n)  == [tag |-> "num", n |-> n]
Chr(c)  == [tag |-> "char", c |-> c]
Str(s)  == [tag |-> "str", chars |-> s]
List(s) == [tag |-> "list", data |-> s]
Null    == [tag |-> "null"]       \* the empty value
Nil     == [tag |-> "nil"]
Labelled(d, s, ls) == [tag |-> "array", dims |-> d, data |-> s, labels |-> ls]
Arr(d, s) == Labelled(d, s, <<>>)
VecOf(s)  == Arr(<<Len(s)>>, s)
BoxOf(v)  == Arr(<<>>, <<v>>)
NumVec(s) == VecOf([i \in DOMAIN s |-> Num(s[i])])

(* What a primitive returns instead of a value: the error it reports, or   *)
(* the panic of an index outside a Vec.                                    *)
Err  == [tag |-> "err"]
Trap == [tag |-> "trap"]
Failed(v) == v.tag \in {"err", "trap"}

IsNum(v) == v.tag = "num"
IsArr(v) == v.tag = "array"
IsStr(v) == v.tag = "str"
IsBox(v) == IsArr(v) /\ v.dims = <<>>

Least(a, b) == IF a <= b THEN a ELSE b
Most(a, b)  == IF a >= b THEN a ELSE b
AbsOf(n)    == IF n < 0 THEN -n ELSE n
Count(d)    == LET upTo[k \in 0 .. Len(d)] == IF k = 0 THEN 1 ELSE upTo[k - 1] * d[k] IN upTo[Len(d)]
Stride(d, k) == Count(SubSeq(d, k + 1, Len(d)))     \* axis k counts from 1
(* Row-major position of coordinates, and the coordinates of a position.   *)
Coords(d, p) == [k \in DOMAIN d |-> (p \div Stride(d, k)) % d[k]]
Flat(d, c)   == LET upTo[k \in 0 .. Len(d)] == IF k = 0 THEN 0 ELSE upTo[k - 1] * d[k] + c[k]
                IN  upTo[Len(d)]
(* Coordinates numbered with the first axis fastest, as some loops do.     *)
FirstFastest(d, p) == [j \in DOMAIN d |-> (p \div Count(SubSeq(d, 1, j - 1))) % d[j]]
Without(s, k) == SubSeq(s, 1, k - 1) \o SubSeq(s, k + 1, Len(s))
ConstSeq(n, e) == [i \in 1 .. n |-> e]
(* The integers of a finite set, in order.                                 *)
InOrder(S) == [k \in 1 .. Cardinality(S) |-> CHOOSE x \in S : Cardinality({y \in S : y < x}) = k - 1]
(* The first of a sequence of integers that is not zero, else the default. *)
FirstNonzero(s, default) ==
  LET nonzero == {i \in DOMAIN s : s[i] # 0} IN IF nonzero = {} THEN default ELSE s[Min(nonzero)]

-----------------------------------------------------------------------------
(* APLValue::dimensions, rank, element_count, elements, value_at.          *)

Dims(v) == CASE IsArr(v) -> v.dims
             [] IsStr(v) -> <<Len(v.chars)>>
             [] OTHER -> <<>>
RankOf(v) == IF IsStr(v) /\ v.chars = <<>> THEN 0 ELSE Len(Dims(v))
ElementCount(v) == IF v.tag = "list" THEN Len(v.data) ELSE Count(Dims(v))
Elements(v) == CASE v.tag \in {"array", "list"} -> v.data
                 [] IsStr(v) -> [i \in DOMAIN v.chars |-> Chr(v.chars[i])]
                 [] v.tag = "null" -> <<>>
                 [] OTHER -> <<v>>
(* The views of Engine that keep an empty value as one element.            *)
FlatElements(v) == IF v.tag \in {"null", "list"} THEN <<v>> ELSE Elements(v)
Splice(v) == FlatElements(v)                  \* collect_elements_splice_str
Collect(v) == IF IsArr(v) THEN v.data ELSE <<v>>
Nth(s, i) == IF i < Len(s) THEN s[i + 1] ELSE Null
ValueAt(v, i) == IF v.tag \in {"array", "list", "str"} THEN Nth(Elements(v), i) ELSE v
NoLabels(v) == IF IsArr(v) THEN [v EXCEPT !.labels = <<>>] ELSE v
DiscloseIfBox(v) == IF IsBox(v) /\ v.data # <<>> THEN v.data[1] ELSE v
=============================================================================
