----------------------------- MODULE Structural -----------------------------
(***************************************************************************)
(* The structural primitives that go through the logical cells, or build   *)
(* rows: shape, tally, first, ravel and table, catenate and laminate, take *)
(* and drop, enclose, rank up and down, iota.                              *)
(***************************************************************************)
EXTENDS Arrays, Rearrange

Shape(v) == IF v = Null THEN VecOf(<<Num(0)>>) ELSE NumVec(Dims(v))
Tally(v) == CASE v = Null -> Num(0)
              [] IsArr(v) /\ v.dims # <<>> -> Num(v.dims[1])
              [] IsStr(v) -> Num(Len(v.chars))
              [] OTHER -> Num(1)
First(v) == IF ~(IsArr(v) \/ IsStr(v)) THEN v
            ELSE IF Elements(v) = <<>> THEN Err ELSE Elements(v)[1]
Enclose(v) == IF v.tag \in {"num", "char", "nil"} THEN v ELSE BoxOf(v)
RankUp(v) == CASE IsArr(v) -> [v EXCEPT !.dims = <<1>> \o @]
               [] IsStr(v) -> Arr(<<1, Len(v.chars)>>, Elements(v))
               [] OTHER -> VecOf(<<v>>)
RankDown(v) == IF Len(Dims(v)) <= 1 THEN v
               ELSE [v EXCEPT !.dims = <<@[1] * @[2]>> \o SubSeq(@, 3, Len(@))]

RECURSIVE Assemble(_, _)
Assemble(d, cells) ==
  LET stride == Count(Tail(d))
  IN  IF Len(d) = 1 THEN Arr(d, cells)
      ELSE Arr(d, [i \in 1 .. d[1] |->
                     Assemble(Tail(d), SubSeq(cells, (i - 1) * stride + 1, i * stride))])
(* A scalar or a vector of one: the flat integers; a longer vector: rows   *)
(* of coordinate vectors.                                                  *)
Iota(d) ==
  CASE \E i \in DOMAIN d : d[i] < 0 -> Err
    [] d = <<>> -> Null
    [] Len(d) = 1 /\ d[1] >= 0 -> NumVec([i \in 1 .. d[1] |-> i - 1])
    [] OTHER -> Assemble(d, [i \in 1 .. Count(d) |-> NumVec(Coords(d, i - 1))])

-----------------------------------------------------------------------------
(* Ravel, table, catenate.                                                 *)

Ravel(v) == VecOf(LogicalCells(v))
Table(v) == BuildNested(LogicalCells(v),
                        IF Dims(v) = <<>> THEN <<1, 1>>
                        ELSE <<Dims(v)[1], Most(1, Count(Tail(Dims(v))))>>)

AxisLabels(ls, k) == IF k <= Len(ls) THEN ls[k] ELSE <<>>
JoinLabelsUnpadded(la, lb, axis, rank, na, nb) ==       \* an operand without labels adds none
  IF la = <<>> /\ lb = <<>> THEN <<>>
  ELSE [k \in 1 .. rank |-> IF k = axis THEN AxisLabels(la, k) \o AxisLabels(lb, k)
                            ELSE IF AxisLabels(la, k) = AxisLabels(lb, k) THEN AxisLabels(la, k) ELSE <<>>]
JoinLabels(la, lb, axis, rank, na, nb) ==
  LET padded(l, n) == IF l = <<>> THEN ConstSeq(n, 0) ELSE l
      any(l) == IF \E i \in DOMAIN l : l[i] # 0 THEN l ELSE <<>>
      common(l, m) == IF l = m THEN l ELSE <<>>
      some(ls) == IF \A k \in 1 .. rank : ls[k] = <<>> THEN <<>> ELSE ls
  IN  some([k \in 1 .. rank |->
              IF k = axis THEN any(padded(AxisLabels(la, k), na) \o padded(AxisLabels(lb, k), nb))
              ELSE common(AxisLabels(la, k), AxisLabels(lb, k))])
LabelsOf(v) == IF IsArr(v) THEN v.labels ELSE <<>>

InsertAxis(v, k) == Arr(InsertAt(Dims(v), k, 1), Elements(v))   \* k counts from 1

JoinByAxis(a, b, axis) ==              \* axis counts from 1
  LET da == Dims(a)
      db == Dims(b)
      d == [da EXCEPT ![axis] = @ + db[axis]]
      part(cells, p) == IF p < Len(cells) THEN cells[p + 1] ELSE Err
      cell(ca, cb, c) == IF c[axis] < da[axis] THEN part(ca, Flat(da, c))
                         ELSE part(cb, Flat(db, [c EXCEPT ![axis] = @ - da[axis]]))
      cells(ca, cb) == [i \in 1 .. Count(d) |-> cell(ca, cb, Coords(d, i - 1))]
      whole(s) == IF Err \in ToSet(s) THEN Err
                  ELSE Labelled(d, s, JoinLabels(LabelsOf(a), LabelsOf(b), axis, Len(da), da[axis], db[axis]))
  IN  IF Len(da) # Len(db) \/ Without(da, axis) # Without(db, axis) THEN Err
      ELSE whole(cells(LogicalCells(a), LogicalCells(b)))

(* A scalar extended to the shape of the other operand, one thick.         *)
Extended(v, d, axis) ==
  LET thin == IF axis <= Len(d) THEN [d EXCEPT ![axis] = 1] ELSE d
  IN  Arr(thin, ConstSeq(Count(thin), DiscloseIfBox(v)))

Catenate(a, b, isTable) ==
  LET scalar(v) == Dims(v) = <<>>
      alone(v) == IF scalar(v) THEN VecOf(<<DiscloseIfBox(v)>>) ELSE v
      axis == IF isTable THEN 1 ELSE Most(Len(Dims(a)), Len(Dims(b)))
      spread(v, other) == IF scalar(v) THEN Extended(v, Dims(other), axis) ELSE v
      vector(s, ls) == Labelled(<<Len(s)>>, s, ls)
      raised(x, y) == IF Len(Dims(y)) = Len(Dims(x)) + 1 THEN InsertAxis(x, axis) ELSE x
      joined(x, y) ==
        IF Len(Dims(x)) <= 1 /\ Len(Dims(y)) <= 1
        THEN vector(Splice(x) \o Splice(y),
                    JoinLabels(LabelsOf(x), LabelsOf(y), 1, 1, Dims(x)[1], Dims(y)[1]))
        ELSE JoinByAxis(raised(x, y), raised(y, x), axis)
  IN  CASE a = Null \/ b = Null -> IF a = b THEN Null ELSE alone(IF a = Null THEN b ELSE a)
        [] Null \notin {a, b} /\ IsStr(a) /\ IsStr(b) -> Str(a.chars \o b.chars)
        [] OTHER -> IF scalar(a) /\ scalar(b) THEN VecOf(Collect(a) \o Collect(b))
                    ELSE joined(spread(a, b), spread(b, a))

(* An integer axis joins along it, a fractional one makes a new axis.      *)
CatenateAxis(a, b, axis) ==
  LET scalar(v) == RankOf(v) = 0
      k == axis + 1
      empty(v) == Dims(v) = <<0>>
      spread(v, other) == IF scalar(v) THEN Extended(v, Dims(other), k) ELSE v
      raised(x, y) == IF RankOf(y) - RankOf(x) = 1 THEN InsertAxis(x, Least(k, Len(Dims(x)) + 1)) ELSE x
      along(x, y) == IF k > Len(Dims(x)) THEN Err ELSE JoinByAxis(x, y, k)
      joined(x, y) == along(raised(x, y), raised(y, x))
  IN  CASE axis < 0 \/ (scalar(a) /\ scalar(b)) -> Err
        [] axis >= 0 /\ empty(a) /\ ~scalar(b) -> b
        [] axis >= 0 /\ empty(b) /\ ~scalar(a) /\ ~empty(a) -> a
        [] OTHER -> joined(spread(a, b), spread(b, a))
Laminate(a, b, axis) ==               \* axis: the ceiling of the fraction
  LET scalar(v) == Dims(v) = <<>>
      whole(v, d) == Arr(d, ConstSeq(Count(d), v))
      spread(v, other) == IF scalar(v) THEN whole(v, Dims(other)) ELSE v
      inserted(ls) == IF ls = <<>> THEN <<>> ELSE InsertAt(ls, axis + 1, <<0>>)
      thin(v) == [InsertAxis(v, axis + 1) EXCEPT !.labels = inserted(LabelsOf(v))]
      joined(x, y) == IF Dims(x) # Dims(y) \/ axis \notin 0 .. Len(Dims(x)) THEN Err
                      ELSE JoinByAxis(thin(x), thin(y), axis + 1)
  IN  IF scalar(a) /\ scalar(b) THEN Err ELSE joined(spread(a, b), spread(b, a))

-----------------------------------------------------------------------------
(* Take and drop.  A count is an integer or Keep (nil: the whole axis).    *)

Keep == 99
WindowFront(take, c, n) ==                     \* a negative drop taken from the front
  LET a == AbsOf(c)
      kept == Least(n, a)
  IN  IF c = Keep THEN [i \in 1 .. n |-> i - 1]
      ELSE IF ~take THEN [i \in 1 .. (n - kept) |-> i - 1 + kept]
      ELSE [i \in 1 .. a |-> IF c >= 0 THEN IF i <= n THEN i - 1 ELSE -1
                             ELSE IF i <= a - kept THEN -1 ELSE n - a + i - 1]
(* The positions axis k of length n is taken from, -1 for a fill.          *)
Window(take, c, n) ==
  LET a == AbsOf(c)
      kept == Least(n, a)
  IN  IF c = Keep THEN [i \in 1 .. n |-> i - 1]
      ELSE IF take
      THEN [i \in 1 .. a |-> IF c >= 0 THEN IF i <= n THEN i - 1 ELSE -1
                             ELSE IF i <= a - kept THEN -1 ELSE n - a + i - 1]
      ELSE [i \in 1 .. (n - kept) |-> IF c >= 0 THEN i - 1 + kept ELSE i - 1]
Slice(s, w, fill) == [i \in DOMAIN w |-> IF w[i] < 0 THEN fill ELSE s[w[i] + 1]]

(* The characters in a window; a fill makes it an array.                   *)
CharsIn(chars, w) ==
  IF w = <<>> THEN Arr(<<0>>, <<>>)
  ELSE IF \E i \in DOMAIN w : w[i] < 0
  THEN VecOf([i \in DOMAIN w |-> IF w[i] < 0 THEN Num(0) ELSE Chr(chars[w[i] + 1])])
  ELSE Str(Slice(chars, w, 0))
(* The cells of an array in the window of each axis.                       *)
CellsIn(v, cells, windows) ==
  LET d == [k \in DOMAIN windows |-> Len(windows[k])]
      at(p) == [k \in DOMAIN d |-> windows[k][Coords(d, p)[k] + 1]]
      cell(c) == IF \E k \in DOMAIN c : c[k] < 0 THEN Num(0) ELSE cells[Flat(v.dims, c) + 1]
      ls == [k \in DOMAIN v.labels |->
               IF v.labels[k] = <<>> THEN <<>> ELSE Slice(v.labels[k], windows[k], 0)]
  IN  IF Len(cells) < Count(v.dims) THEN Trap
      ELSE Labelled(d, [i \in 1 .. Count(d) |-> cell(at(i - 1))], ls)

TakeOrDrop(take, counts, v) ==
  LET plain == [i \in DOMAIN counts |-> IF counts[i] = Keep THEN 0 ELSE counts[i]]
      c1 == IF counts = <<>> THEN 0 ELSE plain[1]
      filled(size) == IF Count(size) = 0 THEN Null
                      ELSE Arr(size, <<v>> \o ConstSeq(Count(size) - 1, Num(0)))
      window(k) == Window(take, IF k <= Len(counts) THEN counts[k] ELSE Keep, v.dims[k])
      inChars(chars) == CharsIn(chars, Window(take, c1, Len(chars)))
  IN  CASE v = Null -> IF take THEN Num(0) ELSE Null
        [] IsNum(v) -> IF take THEN filled([i \in DOMAIN plain |-> AbsOf(plain[i])])
                       ELSE IF \A i \in DOMAIN plain : plain[i] = 0 THEN VecOf(<<v>>) ELSE Null
        [] IsArr(v) -> IF RankOf(v) > 0 /\ Len(counts) > RankOf(v) THEN Err
                       ELSE CellsIn(v, LogicalCells(v), [k \in 1 .. RankOf(v) |-> window(k)])
        [] v.tag \in {"str", "char"} -> inChars(IF IsStr(v) THEN v.chars ELSE <<v.c>>)
        [] OTHER -> Err
Take(counts, v) == TakeOrDrop(TRUE, counts, v)
Drop(counts, v) == TakeOrDrop(FALSE, counts, v)
FirstOr(s, default) == IF s = <<>> THEN default ELSE s[1]
TakeFirst(v) ==
  CASE v.tag \in {"num", "char"} -> v
    [] v = Null -> Num(0)
    [] IsArr(v) \/ IsStr(v) -> FirstOr(LogicalCells(v), Num(0))
    [] OTHER -> Err
DropFirst(v) == Drop(<<1>>, v)
=============================================================================
