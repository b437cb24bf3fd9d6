------------------------------ MODULE ArrayLaws ------------------------------
(***************************************************************************)
(* What the primitives of Rearrange promise of an array stored as its      *)
(* cells, whatever its rank, its size and its cells.                       *)
(***************************************************************************)
EXTENDS Rearrange

VARIABLE it               \* the last result of a session

(* Labels are none at all or, for each axis, none or one per position.     *)
LabelsFit(v) == IsArr(v) => \/ v.labels = <<>>
                            \/ /\ Len(v.labels) = Len(v.dims)
                               /\ \A k \in DOMAIN v.labels : Len(v.labels[k]) \in {0, v.dims[k]}
FlatArray(v) == /\ IsArr(v) /\ v.dims # <<>>
                /\ Len(v.data) = Count(v.dims)
                /\ LabelsFit(v)
ArraysOf(Cell) == {Labelled(d, s, ls) : d \in Seq(Nat), s \in Seq(Cell), ls \in Seq(Seq(Nat))}

(* A reversal of axis k undoes itself.                                     *)
ReverseLaw(v, k) ==
  LET back == ReverseAxis(v, k) IN FlatArray(back) /\ ReverseAxis(back, k) = v

(* Rotations of axis k add up, so that one is undone by its negative; a    *)
(* full turn is none; and a reversal changes their direction.              *)
RotateLaw(v, k, n, m) ==
  LET turned == RotateAxis(Num(n), v, k)
  IN  /\ FlatArray(turned)
      /\ RotateAxis(Num(m), turned, k) = RotateAxis(Num(n + m), v, k)
      /\ RotateAxis(Num(v.dims[k + 1]), v, k) = v
      /\ ReverseAxis(turned, k) = RotateAxis(Num(-n), ReverseAxis(v, k), k)

(* The orders of n axes, and the one that undoes an order.  Titles go to   *)
(* the axes of their cells in an exchange of axes only, and the transpose  *)
(* of an empty array has none.                                             *)
Orders(n) == {p \in [1 .. n -> 0 .. (n - 1)] : \A j, k \in 1 .. n : p[j] = p[k] => j = k}
Undoing(p) == [k \in DOMAIN p |-> (CHOOSE j \in DOMAIN p : p[j] = k - 1) - 1]
TitlesFollow(v, p) == v.labels = <<>> \/ (v.data # <<>> /\ Undoing(p) = p)
(* A transposition takes axis k to axis p[k], the reversed axis with it,   *)
(* and the inverse order undoes it.                                        *)
TransposeLaw(v, p) ==
  LET turned == Transpose(p, v)
  IN  /\ FlatArray(turned)
      /\ Transpose(Undoing(p), turned) = v
      /\ \A k \in DOMAIN p : /\ turned.dims[p[k] + 1] = v.dims[k]
                             /\ Transpose(p, ReverseAxis(v, k - 1)) = ReverseAxis(turned, p[k])

(* A reshape to rows of m with a computed dimension uses every cell once   *)
(* (match), all of them but for less than a row (trunc), or all of them    *)
(* and less than a row more, fills or the first cells again (fill, cycle); *)
(* and the cells of an array, reshaped to its dimensions, are the array.   *)
ReshapeLaw(v, m) ==
  LET n == Len(v.data)
      matched == Reshape(<<MatchDim, m>>, v)
      cut == Reshape(<<m, TruncDim>>, v).data
      filled == Reshape(<<m, FillDim>>, v).data
      cycled == Reshape(<<m, CycleDim>>, v).data
      prefix(s, t) == Len(s) <= Len(t) /\ s = SubSeq(t, 1, Len(s))
  IN  /\ matched = IF n % m = 0 THEN Arr(<<n \div m, m>>, v.data) ELSE Err
      /\ prefix(cut, v.data) /\ n - Len(cut) < m
      /\ prefix(v.data, filled) /\ Len(filled) - n < m
      /\ \A i \in (n + 1) .. Len(filled) : filled[i] = Num(0)
      /\ Len(cycled) = Len(filled)
      /\ n > 0 => \A i \in DOMAIN cycled : cycled[i] = v.data[((i - 1) % n) + 1]
      /\ Reshape(v.dims, VecOf(v.data)) = NoLabels(v)

(* Turning an array around and giving it another shape loses no cell, no   *)
(* title and no place: reshape, reverse, rotate and transpose as the laws  *)
(* above say.                                                              *)
RearrangeExact ==
  FlatArray(it) =>
    /\ \A k \in 0 .. (Len(it.dims) - 1) :
         ReverseLaw(it, k) /\ \A n \in {-1, 2} : RotateLaw(it, k, n, 1)
    /\ \A p \in Orders(Len(it.dims)) : TitlesFollow(it, p) => TransposeLaw(it, p)
    /\ \A m \in 1 .. 3 : ReshapeLaw(it, m)
=============================================================================
