------------------------------- MODULE Higher -------------------------------
(***************************************************************************)
(* The operators of evaluator.rs that take functions: reduce, scan, each,  *)
(* the products, rank, power, key, trains, the replacement under a take or *)
(* a drop.  A function is given by its name; a failure of one call ends    *)
(* the operator.                                                           *)
(***************************************************************************)
EXTENDS Scalars

NoAxis == 99

(* The functions of two arguments the operators are given.                 *)
Dyadic(f, a, v) == CASE f \in {"+", "-", "*"} -> Scalar2(f, a, v)
                     [] f = "match" -> Match(a, v)
                     [] f = "pair" -> Pair(a, v)

FoldedFromRight(f, s) == FoldRight(LAMBDA x, acc : Dyadic(f, x, acc), Front(s), Last(s))
(* A fold from the left that stops at the first failure.                   *)
Folded(f, s) ==
  FoldLeft(LAMBDA acc, x : IF Failed(acc) THEN acc ELSE Dyadic(f, acc, x), s[1], Tail(s))
FirstFailure(s) == s[Min({i \in DOMAIN s : Failed(s[i])})]
AnyFailed(s) == \E i \in DOMAIN s : Failed(s[i])

(* The cells of an array of rank 2 or more, descending into its rows, and  *)
(* into whatever is neither its cells nor its rows.                        *)
RECURSIVE Descend(_)
Descend(v) ==
  LET rows == Len(v.dims) > 1 /\ Len(v.data) = v.dims[1]
              /\ \A i \in DOMAIN v.data : IsRow(v.data[i], Tail(v.dims))
  IN  IF ~IsArr(v) THEN <<v>>
      ELSE IF Count(v.dims) = 0 THEN <<>>
      ELSE IF ~rows /\ Len(v.data) = Count(v.dims) THEN v.data
      ELSE FlattenSeq([i \in DOMAIN v.data |-> Descend(v.data[i])])
CellRavelStored(v) == FlatElements(v)
CellRavel(v) == IF RankOf(v) <= 1 THEN FlatElements(v) ELSE Descend(v)

-----------------------------------------------------------------------------
(* Reduce.  The lanes of the other axes are decoded with the first axis    *)
(* fastest and their results stored row-major.                             *)

Identity(f) == CASE f \in {"+", "-", "and", "or", "nand", "nor"} -> Num(0)
                 [] f \in {"*", "div", "log", "iota"} -> Num(1)
                 [] f \in {",", "laminate"} -> Null
                 [] OTHER -> Err
Reduce(f, v, axis0) ==
  LET d == IF v = Null THEN <<0>> ELSE Dims(v)
      k == (IF axis0 = NoAxis THEN Len(d) - 1 ELSE axis0) + 1
      rest == Without(d, k)
      cells == CellRavel(v)
      at(lane, i) == Flat(d, InsertAt(FirstFastest(rest, lane), k, i)) + 1
      short == Len(cells) < Count(d)
      fold(lane) == Folded(f, [i \in 1 .. d[k] |-> cells[at(lane, i - 1)]])
      shaped(out) == IF rest = <<>> THEN out[1] ELSE Lifted(rest, out)
  IN  IF d = <<>> THEN IF axis0 \in {NoAxis, 0} THEN v ELSE Err
      ELSE IF k > Len(d) THEN Err
      ELSE IF d[k] = 0 THEN IF rest = <<>> THEN Identity(f) ELSE Arr(rest, <<>>)
      ELSE IF short THEN Trap
      ELSE shaped([lane \in 1 .. Count(rest) |-> fold(lane - 1)])
(* Reduce of each window of |n| consecutive elements.                      *)
ReduceWindow(f, n, v) ==
  LET s == FlatElements(v)
      w == AbsOf(n)
  IN  IF RankOf(v) = 0
      THEN CASE n = 1 -> VecOf(<<v>>) [] n = 0 -> Null [] n = -1 -> NumVec(<<0>>) [] OTHER -> Err
      ELSE IF s = <<>> \/ w = 0 \/ w > Len(s) + 1 THEN Err
      ELSE IF w = Len(s) + 1 THEN Null
      ELSE Lifted(<<Len(s) - w + 1>>, [i \in 1 .. (Len(s) - w + 1) |-> Folded(f, SubSeq(s, i, i + w - 1))])
(* Scan: the prefixes of every lane, in place.                             *)
Scan(f, v, axis0) ==
  LET d == Dims(v)
      k == (IF axis0 = NoAxis THEN Len(d) - 1 ELSE axis0) + 1
      cells == CellRavel(v)
      at(c, i) == Flat(d, [c EXCEPT ![k] = i]) + 1
      prefix(c) == Folded(f, [i \in 1 .. (c[k] + 1) |-> cells[at(c, i - 1)]])
  IN  IF d = <<>> THEN v
      ELSE IF k > Len(d) THEN Trap
      ELSE IF d[k] = 0 THEN v
      ELSE IF Len(cells) < Count(d) THEN Trap
      ELSE Lifted(d, [p \in 1 .. Count(d) |-> prefix(Coords(d, p - 1))])

-----------------------------------------------------------------------------
(* Each.  On the left, an element for every element of the right, and past *)
(* the last one the whole left value again.                                *)

PlainScalar(v) == v.tag \in {"num", "char"}
EachDims(v, n) == IF RankOf(v) = 0 THEN <<n>> ELSE Dims(v)
(* The functions of one argument the operators are given.                  *)
Monadic(f, v) ==
  CASE f = "shape" -> Shape(v)
    [] f = "tally" -> Tally(v)
    [] f = "enclose" -> Enclose(v)
    [] f = "takeFirst" -> TakeFirst(v)
    [] f = "increment" -> Plus(v, Num(1))
    [] f = "twiceFirst" -> CatenateAxis(v, v, 0)
    [] f = "wrapCells" -> LET s == CellRavel(v) IN
                          Lifted(EachDims(v, Len(s)), [i \in DOMAIN s |-> VecOf(<<s[i]>>)])
(* A function applied to the result of another: a failure is handed on.   *)
Then1(f, r) == IF Failed(r) THEN r ELSE Monadic(f, r)
Then2(g, x, y) == IF Failed(x) THEN x ELSE IF Failed(y) THEN y ELSE Dyadic(g, x, y)
Each(f, v) ==
  LET mapped(out) == IF PlainScalar(v) THEN out[1] ELSE Lifted(EachDims(v, Len(out)), out)
      each(s) == mapped([i \in DOMAIN s |-> Monadic(f, s[i])])
  IN  each(IF v = Null THEN <<>> ELSE CellRavel(v))
Each2(f, a, v) ==
  LET mapped(out) == IF PlainScalar(v) /\ PlainScalar(a) THEN out[1] ELSE Lifted(EachDims(v, Len(out)), out)
      each(ls, s) == mapped([i \in DOMAIN s |-> Dyadic(f, IF i <= Len(ls) THEN ls[i] ELSE a, s[i])])
  IN  each(FlatElements(a), IF v = Null THEN <<>> ELSE CellRavel(v))

(* The two outer products: of the operator, and of the inner product       *)
(* without its left function, which takes a scalar for its first element.  *)
Crossed(f, xs, ys) ==
  [p \in 1 .. (Len(xs) * Len(ys)) |-> Dyadic(f, xs[((p - 1) \div Len(ys)) + 1], ys[((p - 1) % Len(ys)) + 1])]
(* An array of d stored by rows, or the first failure among its cells.     *)
Nested(d, s) == IF AnyFailed(s) THEN FirstFailure(s) ELSE BuildNested(s, d)
Outer(f, a, b) ==
  LET cells(v) == IF IsArr(v) THEN v.data ELSE <<v>>
      d(v) == IF IsArr(v) THEN v.dims ELSE <<>>
      shaped(axes, out) == IF axes = <<>> /\ Len(out) = 1 THEN out[1] ELSE Lifted(axes, out)
  IN  shaped(d(a) \o d(b), Crossed(f, cells(a), cells(b)))
OuterProduct(f, a, b) ==
  LET cells(v) == IF IsArr(v) THEN FlatElements(v) ELSE SubSeq(FlatElements(v), 1, 1)
      d(v) == IF IsArr(v) THEN v.dims ELSE <<>>
  IN  IF ~IsArr(a) /\ ~IsArr(b) /\ <<>> \in {cells(a), cells(b)} THEN Trap
      ELSE Nested(d(a) \o d(b), Crossed(f, cells(a), cells(b)))

(* Inner product.  Two vectors are combined cell by cell; above, the right *)
(* function is given the two whole vectors of a frame and its result is    *)
(* folded.                                                                 *)
Broadcast(v, n) == VecOf(ConstSeq(n, IF FlatElements(v) = <<>> THEN Null ELSE FlatElements(v)[1]))
LastDim(v) == IF Dims(v) = <<>> THEN 1 ELSE Dims(v)[Len(Dims(v))]
FirstDim(v) == IF Dims(v) = <<>> THEN 1 ELSE Dims(v)[1]
FoldedCells(f, s) == IF AnyFailed(s) THEN FirstFailure(s) ELSE IF s = <<>> THEN Null ELSE Folded(f, s)
InnerVectors(f, g, xs, ys) ==
  IF Len(xs) # Len(ys) THEN Err ELSE FoldedCells(f, [i \in DOMAIN xs |-> Dyadic(g, xs[i], ys[i])])
InnerFrames(f, g, a, b) ==
  LET da == Dims(a)
      db == Dims(b)
      r == Len(da) - 1
      k == LastDim(a)
      d == Front(da) \o Tail(db)
      row(cells, c) == VecOf([t \in 1 .. k |-> cells[Flat(da, SubSeq(c, 1, r) \o <<t - 1>>) + 1]])
      col(cells, c) == VecOf([t \in 1 .. k |-> cells[Flat(db, <<t - 1>> \o SubSeq(c, r + 1, Len(d))) + 1]])
      folded(x) == IF Failed(x) THEN x ELSE FoldedCells(f, FlatElements(x))
      over(la, lb) ==
        IF 0 \in ToSet(d) \/ Len(la) < Count(da) \/ Len(lb) < Count(db) THEN Trap
        ELSE Nested(d, [p \in 1 .. Count(d) |->
                          folded(Dyadic(g, row(la, Coords(d, p - 1)), col(lb, Coords(d, p - 1))))])
  IN  IF k # FirstDim(b) THEN Err ELSE over(LogicalCells(a), LogicalCells(b))
Inner(f, g, a0, b0) ==
  LET single(v) == Dims(v) \in {<<>>, <<1>>}
      product(a, b) == IF Len(Dims(a)) <= 1 /\ Len(Dims(b)) <= 1
                       THEN InnerVectors(f, g, FlatElements(a), FlatElements(b))
                       ELSE InnerFrames(f, g, a, b)
      matched(a, b) == product(IF single(a) /\ ~single(b) THEN Broadcast(a, FirstDim(b)) ELSE a,
                               IF single(b) /\ ~single(a) THEN Broadcast(b, LastDim(a)) ELSE b)
  IN  matched(IF ~IsArr(a0) /\ IsArr(b0) THEN Broadcast(a0, FirstDim(b0)) ELSE a0,
              IF IsArr(a0) /\ ~IsArr(b0) THEN Broadcast(b0, LastDim(a0)) ELSE b0)

-----------------------------------------------------------------------------
(* Rank.  A negative rank counts from the argument's own; a cell of rank 0 *)
(* is the element itself.                                                  *)

CellRank(k, rank) == IF k < 0 THEN Most(0, LET m == Most(rank, 1) IN
                            IF k + rank >= 0 THEN (k + rank) % m ELSE -((-(k + rank)) % m))
                     ELSE Least(k, rank)
FrameOf(v, k) == SubSeq(Dims(v), 1, Len(Dims(v)) - CellRank(k, Len(Dims(v))))
CellsOf(v, k) ==
  LET d == Dims(v)
      cd == SubSeq(d, Len(d) - CellRank(k, Len(d)) + 1, Len(d))
      s == IF IsArr(v) \/ IsStr(v) THEN Elements(v) ELSE <<v>>
      chunks == Chunks(s, Most(1, Count(cd)))
  IN  [i \in DOMAIN chunks |-> IF cd = <<>> THEN chunks[i][1] ELSE Arr(cd, chunks[i])]
Framed(frame, out) == IF AnyFailed(out) THEN FirstFailure(out)
                      ELSE IF frame # <<>> THEN Disclose(Arr(frame, out))
                      ELSE IF out = <<>> THEN Null ELSE Disclose(out[1])
RankApply(f, k, v) ==
  LET each(cells) == [i \in DOMAIN cells |-> Monadic(f, cells[i])]
  IN  Framed(FrameOf(v, k), each(CellsOf(v, k)))
RankApply2(f, kl, kr, a, b) ==
  LET lf == FrameOf(a, kl)
      rf == FrameOf(b, kr)
      whole(s) == Cardinality({i \in DOMAIN s : Len(Elements(s[i])) = Len(Elements(s[1]))})
      pick(s, m, i) == s[IF m = 1 THEN 1 ELSE i]
      over(ls, rs, ln, rn) ==
        IF ln # rn /\ ln # 1 /\ rn # 1 THEN Err
        ELSE Framed(IF ln = 1 THEN rf ELSE lf,
                    [i \in 1 .. Most(ln, rn) |-> Dyadic(f, pick(ls, ln, i), pick(rs, rn, i))])
      paired(ls, rs) ==
        IF <<>> \notin {ls, rs} THEN over(ls, rs, whole(ls), whole(rs))
        ELSE IF lf = <<>> /\ rf = <<>> THEN Null ELSE Arr(IF lf = <<>> THEN rf ELSE lf, <<>>)
  IN  paired(CellsOf(a, kl), CellsOf(b, kr))

(* Power: a number of times, or until a test of the new and the old value. *)
PowerTimes(f, n, v) ==
  IF n < 0 THEN Err
  ELSE LET upTo[k \in 0 .. n] == IF k = 0 THEN v ELSE Then1(f, upTo[k - 1]) IN upTo[n]
PowerUntil(f, stop, v, limit) ==      \* <<value, done>>; the code's limit is 1000000
  LET tested(next, last) == <<next, ~Failed(next) /\ Dyadic(stop, next, last) \notin {Num(0), Null}>>
      stepped(s) == IF s[2] THEN s ELSE tested(Then1(f, s[1]), s[1])
      upTo[k \in 0 .. limit + 1] == IF k = 0 THEN <<v, FALSE>> ELSE stepped(upTo[k - 1])
      value(out) == IF out[2] THEN out[1] ELSE Err
  IN  value(upTo[limit + 1])

(* Key: the values under each key, in the order the keys first appear.     *)
Key(f, a, b) ==
  LET keys == IF IsArr(a) \/ IsStr(a) THEN Elements(a) ELSE <<a>>
      vals == IF IsArr(b) \/ IsStr(b) THEN Elements(b) ELSE <<b>>
      firsts == InOrder({i \in DOMAIN keys : \A j \in 1 .. (i - 1) : ~SameValue(keys[j], keys[i])})
      under(i) == InOrder({j \in DOMAIN keys : SameValue(keys[j], keys[i])})
      picked(js) == VecOf([j \in DOMAIN js |-> vals[js[j]]])
      table(out) == IF AnyFailed(out) THEN FirstFailure(out)
                    ELSE Arr(<<Len(firsts), 2>>, [g \in DOMAIN firsts |-> VecOf(<<keys[firsts[g]], out[g]>>)])
  IN  IF Len(keys) # Len(vals) THEN Err
      ELSE table([g \in DOMAIN firsts |-> Monadic(f, picked(under(firsts[g])))])

-----------------------------------------------------------------------------
(* Trains: g of two arguments over f and h, or one function after another; *)
(* a value at the head of a pair is bound as the left argument.            *)

Applied(f, args) == IF Len(args) = 1 THEN Monadic(f, args[1]) ELSE Dyadic(f, args[1], args[2])
Fork(f, g, h, args) == Then2(g, Applied(f, args), Applied(h, args))
Atop(f, g, args) == Then1(f, Applied(g, args))
Hook(f, g, a, v) == Then2(f, a, Monadic(g, v))        \* a F (G v)
BackHook(f, g, a, v) == Then2(g, Monadic(f, a), v)    \* (F a) G v
BoundTrain(g, value, v) == Dyadic(g, value, v)

-----------------------------------------------------------------------------
(* Take with a fill of its own.  A scalar comes first, then the fill.      *)

TakeFill(counts, v, fill) ==
  LET d == Dims(v)
      r == Len(d)
      scalarDims == [i \in DOMAIN counts |-> AbsOf(counts[i])]
      fd == [i \in 1 .. r |-> IF i <= Len(counts) THEN AbsOf(counts[i]) ELSE d[i]]
      start(i) == IF i > Len(counts) \/ counts[i] >= 0 THEN 0 ELSE Most(0, d[i] + counts[i])
      src(c) == [i \in 1 .. r |-> start(i) + c[i]]
      inside(c) == \A i \in 1 .. r : src(c)[i] < d[i]
      cell(c) == IF inside(c) THEN v.data[Flat(d, src(c)) + 1] ELSE fill
  IN  IF v.tag \in {"num", "char", "str"}
      THEN IF Count(scalarDims) = 0 THEN Null
           ELSE Arr(scalarDims, [i \in 1 .. Count(scalarDims) |-> IF i = 1 THEN v ELSE fill])
      ELSE IF ~IsArr(v) \/ (Len(counts) > r /\ r > 0) THEN Err
      ELSE IF \E p \in 1 .. Count(fd) : inside(Coords(fd, p - 1))
                /\ Flat(d, src(Coords(fd, p - 1))) >= Len(v.data) THEN Trap
      ELSE Arr(fd, [p \in 1 .. Count(fd) |-> cell(Coords(fd, p - 1))])

(* A region of v, region cells at offset, replaced by a value that may be  *)
(* of another size along one axis: the array grows or shrinks by the       *)
(* difference.                                                             *)
Overlay(v, region, repl, offset) ==
  LET d == Dims(v)
      r == Len(d)
      rd0 == IF repl = Null /\ d # <<>> THEN ConstSeq(r, 0) ELSE Dims(repl)
      rd == IF d # <<>> /\ rd0 = <<>> THEN region ELSE rd0
      od == [i \in 1 .. r |-> d[i] - region[i] + rd[i]]
      other == {i \in 1 .. r : rd[i] # d[i]}
      resizable == IF Cardinality(other) = 1 THEN other ELSE {}
      s == FlatElements(v)
      rs == FlatElements(repl)
      inside(c) == \A i \in 1 .. r : c[i] >= offset[i] /\ c[i] < offset[i] + rd[i]
      local(c) == Flat(rd, [i \in 1 .. r |-> c[i] - offset[i]])
      origin(c) == Flat(d, [i \in 1 .. r |-> IF c[i] < offset[i] THEN c[i] ELSE c[i] + region[i] - rd[i]])
      from(q, p) == IF p >= 0 /\ p < Len(q) THEN q[p + 1] ELSE Num(0)
      cell(c) == IF inside(c) THEN IF Len(rs) = 1 THEN rs[1] ELSE from(rs, local(c))
                 ELSE from(s, origin(c))
  IN  IF Len(rd) # r \/ \E i \in 1 .. r : od[i] < 0 THEN Err
      ELSE IF other # {} /\ \E i \in (1 .. r) \ resizable : region[i] # rd[i] THEN Err
      ELSE IF \E i \in 1 .. r : od[i] < offset[i] + rd[i] THEN Err
      ELSE BuildNested([p \in 1 .. Count(od) |-> cell(Coords(od, p - 1))], od)
(* Where the window of a take or a drop of m of n begins.                  *)
WindowStartFront(isTake, count, n, m) == IF isTake THEN IF count >= 0 THEN 0 ELSE n - m ELSE m
WindowStart(isTake, count, n, m) == IF isTake THEN IF count >= 0 THEN 0 ELSE n - m
                                    ELSE IF count >= 0 THEN m ELSE 0
(* F under a take or a drop along one axis (from 0).                       *)
UnderWindow(f, isTake, count, v, axis) ==
  LET d == Dims(v)
      n == d[axis + 1]
      m == Least(AbsOf(count), n)
      keep == IF isTake THEN m ELSE n - m
      off == WindowStart(isTake, count, n, m)
      along(x, e) == [e EXCEPT ![axis + 1] = x]
      part == TakeOrDrop(isTake, along(count, ConstSeq(Len(d), Keep)), v)
      replaced(y) == IF Failed(y) THEN y ELSE Overlay(v, along(keep, d), y, along(off, ConstSeq(Len(d), 0)))
  IN  IF d = <<>> \/ axis >= Len(d) THEN Err ELSE replaced(Then1(f, part))

(* The inverse of where: how often each place occurs in an ordered list.   *)
WhereInverse(v) ==
  LET loc(e) == IF IsNum(e) THEN <<e.n>> ELSE [i \in DOMAIN e.data |-> e.data[i].n]
      place(e) == \/ IsNum(e)
                  \/ IsArr(e) /\ Len(e.dims) = 1 /\ \A i \in DOMAIN e.data : IsNum(e.data[i])
      s == Elements(v)
      locs == [i \in DOMAIN s |-> loc(s[i])]
      width == Len(locs[1])
      d == [j \in 1 .. width |-> 1 + Max({locs[i][j] : i \in DOMAIN locs})]
      runs == {i \in DOMAIN locs : i = 1 \/ locs[i] # locs[i - 1]}
      times(i) == Cardinality({j \in DOMAIN locs : locs[j] = locs[i]})
      at(p) == {i \in runs : Flat(d, locs[i]) = p}
  IN  IF v = Null THEN Null
      ELSE IF Len(Dims(v)) # 1 THEN Err
      ELSE IF Dims(v)[1] = 0 THEN Null
      ELSE IF \E i \in DOMAIN s : ~place(s[i]) THEN Err
      ELSE IF \E i \in DOMAIN locs : \E j \in DOMAIN locs[i] : locs[i][j] < 0 THEN Err
      ELSE IF \E i \in DOMAIN locs : Len(locs[i]) # width THEN Err
      ELSE IF \E i \in 2 .. Len(locs) : LexSign(locs[i], locs[i - 1]) < 0 THEN Err
      ELSE Arr(d, [p \in 1 .. Count(d) |-> Num(IF at(p - 1) = {} THEN 0 ELSE times(Min(at(p - 1))))])
=============================================================================
