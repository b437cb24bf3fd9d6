------------------------------ MODULE Rearrange ------------------------------
(***************************************************************************)
(* The primitives that move the storage children of an array and never     *)
(* look inside them: reshape, reverse and rotate, transpose.  Each, as the *)
(* other primitives, returns its value, Err, or Trap where the code indexes*)
(* a Vec out of range.                                                     *)
(*                                                                         *)
(* Left arguments are lists of integers (the conversions that reject other *)
(* kinds are left out); axes count from 0 as in the source.                *)
(***************************************************************************)
EXTENDS AplValues

(* The storage children at the given positions, as an array of d.          *)
Gathered(d, s, src, ls) ==
  IF \E i \in DOMAIN src : src[i] >= Len(s) THEN Trap
  ELSE Labelled(d, [i \in DOMAIN src |-> s[src[i] + 1]], ls)

-----------------------------------------------------------------------------
(* Reshape.  A dimension is an integer or one of the computed ones, of     *)
(* which -1 is the code for "match".                                       *)

MatchDim == -1
FillDim  == -101
TruncDim == -102
CycleDim == -103
Computed == {MatchDim, FillDim, TruncDim, CycleDim}

DiscloseFirst(v) ==
  LET first == IF v = Null \/ (IsArr(v) /\ Count(v.dims) = 0) THEN Num(0)
               ELSE IF IsArr(v) THEN v.data[1] ELSE v
  IN  IF IsArr(first) THEN BoxOf(first) ELSE first

CycledAlways(s, n, extend, fill) ==           \* the fill never used
  LET src == IF s = <<>> THEN <<fill>> ELSE s IN [i \in 1 .. n |-> src[((i - 1) % Len(src)) + 1]]
Cycled(s, n, extend, fill) ==
  LET src == IF s = <<>> THEN <<fill>> ELSE s
  IN  [i \in 1 .. n |-> IF extend /\ i > Len(src) THEN fill
                        ELSE src[((i - 1) % Len(src)) + 1]]

ReshapeFill(spec, v, fill) ==
  LET computed == {k \in DOMAIN spec : spec[k] \in Computed}
      m == spec[CHOOSE k \in computed : TRUE]
      size == IF v = Null THEN 0 ELSE IF IsArr(v) \/ IsStr(v) THEN ElementCount(v) ELSE 1
      fixed == Most(1, Count([k \in DOMAIN spec |->
                                IF k \in computed THEN 1 ELSE Most(0, spec[k])]))
      part == size \div fixed +
              (IF m \in {FillDim, CycleDim} /\ size % fixed # 0 THEN 1 ELSE 0)
      d == [k \in DOMAIN spec |-> IF k \in computed THEN part ELSE Most(0, spec[k])]
      src == IF v = Null THEN <<>> ELSE Elements(v)
  IN  CASE spec = <<>> -> DiscloseFirst(v)
        [] Cardinality(computed) > 1 -> Err
        [] \E k \in DOMAIN spec : spec[k] < 0 /\ k \notin computed -> Err
        [] computed # {} /\ IsBox(v) -> Err
        [] computed # {} /\ m = MatchDim /\ size % fixed # 0 -> Err
        [] OTHER -> Arr(d, Cycled(src, Count(d), computed # {} /\ m = FillDim, fill))
Reshape(spec, v) == ReshapeFill(spec, v, Num(0))

-----------------------------------------------------------------------------
(* Reverse and rotate.  A rotation is one shift for the whole array or an  *)
(* array of shifts, one for each position of the other axes.               *)

RotatedLabels(ls, k, n) ==
  IF k > Len(ls) THEN ls
  ELSE [ls EXCEPT ![k] = [i \in DOMAIN @ |-> @[((i - 1 - n) % Len(@)) + 1]]]
ReversedLabelsKept(ls, k) == ls                \* the elements alone are reversed
ReversedLabels(ls, k) == IF k > Len(ls) THEN ls ELSE [ls EXCEPT ![k] = Reverse(@)]

LastAxis == 99                           \* no axis given, or one too large
AxisOf(v, axis) == Least(axis, RankOf(v) - 1) + 1

(* The value whose cells are, in order, those at the coordinates from.     *)
Moved(v, from, ls) == Gathered(v.dims, v.data, [i \in DOMAIN from |-> Flat(v.dims, from[i])], ls)

ReverseAxis(v, axis) ==
  LET k == AxisOf(v, axis)
      from == [i \in 1 .. Count(v.dims) |-> [Coords(v.dims, i - 1) EXCEPT ![k] = v.dims[k] - 1 - @]]
  IN  CASE IsStr(v) -> IF v.chars = <<>> THEN v
                      ELSE IF axis \in {0, LastAxis} THEN Str(Reverse(v.chars)) ELSE Err
        [] v.tag \in {"num", "null"} -> v
        [] IsArr(v) -> IF RankOf(v) = 0 \/ Count(v.dims) = 0 THEN v
                       ELSE Moved(v, from, ReversedLabels(v.labels, k))
        [] OTHER -> Err

RotateAxis(shift, v, axis) ==            \* shift: an integer or an array of them
  LET k == AxisOf(v, axis)
      one == IsNum(shift) \/ Count(shift.dims) = 1
      n == IF IsNum(shift) THEN shift.n ELSE shift.data[1].n
      by(c) == IF one THEN n
               ELSE shift.data[Flat(shift.dims, Without(c, k)) + 1].n
      to(c) == [c EXCEPT ![k] = (@ + by(c)) % v.dims[k]]
      from == [i \in 1 .. Count(v.dims) |-> to(Coords(v.dims, i - 1))]
      uniform == one \/ \A i \in DOMAIN shift.data : shift.data[i] = shift.data[1]
      ls == IF v.labels = <<>> THEN <<>>
            ELSE IF uniform THEN RotatedLabels(v.labels, k, n)
            ELSE [v.labels EXCEPT ![k] = <<>>]
      l == Len(v.chars)
  IN  CASE IsStr(v) ->
             IF v.chars = <<>> THEN v
             ELSE IF axis \notin {0, LastAxis} \/ ~IsNum(shift) THEN Err
             ELSE Str([i \in 1 .. l |-> v.chars[((i - 1 + shift.n) % l) + 1]])
        [] v.tag \in {"num", "null"} -> v
        [] IsArr(v) -> IF RankOf(v) = 0 \/ Count(v.dims) = 0 THEN v
                       ELSE IF ~one /\ shift.dims # Without(v.dims, k) THEN Err
                       ELSE Moved(v, from, ls)
        [] OTHER -> Err

-----------------------------------------------------------------------------
(* Transpose.  The axes name, for each axis of the argument, the axis of   *)
(* the result it goes to; a shorter list is a prefix, and an axis named    *)
(* twice takes the diagonal.                                               *)

HasDup(s) == \E i, j \in DOMAIN s : i # j /\ s[i] = s[j]

Diagonal(axes, v) ==
  LET m == Max(ToSet(axes)) + 1
      group(g) == {k \in DOMAIN axes : axes[k] = g}
      d == [g \in 1 .. m |-> Min({v.dims[k] : k \in group(g - 1)})]
      from(c) == [k \in DOMAIN v.dims |-> IF k <= Len(axes) THEN c[axes[k] + 1] ELSE 0]
  IN  IF ToSet(axes) # 0 .. (m - 1) THEN Err
      ELSE IF Len(axes) > Len(v.dims) THEN Trap
      ELSE Gathered(d, v.data, [i \in 1 .. Count(d) |-> Flat(v.dims, from(Coords(d, i - 1)))], <<>>)

Transpose(axes, v) ==
  LET r == RankOf(v)
      unused == InOrder((0 .. (r - 1)) \ ToSet(axes))
      perm == axes \o unused
      inv == [k \in 1 .. r |-> CHOOSE j \in 1 .. r : perm[j] = k - 1]
      d == [k \in 1 .. r |-> v.dims[inv[k]]]
      from(c) == [k \in 1 .. r |-> c[perm[k] + 1]]
      ls == IF v.labels = <<>> THEN <<>> ELSE [k \in 1 .. r |-> v.labels[perm[k] + 1]]
  IN  CASE v.tag \in {"num", "null", "str"} \/ IsBox(v) -> v
        [] IsArr(v) /\ r > 0 ->
             IF \E i \in DOMAIN axes : axes[i] \notin 0 .. (r - 1) THEN Err
             ELSE IF HasDup(axes) THEN Diagonal(axes, v)
             ELSE IF v.data = <<>> THEN Arr(d, <<>>)
             ELSE Gathered(d, v.data,
                           [i \in 1 .. Count(d) |-> Flat(v.dims, from(Coords(d, i - 1)))], ls)
        [] OTHER -> Err
TransposeAll(v) == Transpose([k \in 1 .. RankOf(v) |-> RankOf(v) - k], v)
=============================================================================
