------------------------------ MODULE Indexing ------------------------------
(***************************************************************************)
(* The primitives that enclose parts of an array, open them again, and     *)
(* select or replace cells by index: enclose with axes, the partitions,    *)
(* group, enlist, collapse, lists, disclose (with and without axes), pick, *)
(* squad, the bracket selection a[i;j] and the indexed assignment.         *)
(*                                                                         *)
(* An index specification is a value: the empty value for the whole axis,  *)
(* a number, or an array of numbers.                                       *)
(***************************************************************************)
EXTENDS Searching

(* check_and_adjust_selected_index, with -1 for its error; a value that is *)
(* not a number has no index (index_to_i64).                               *)
Adjusted(i, n) == IF i >= 0 THEN IF i < n THEN i ELSE -1
                  ELSE IF i < -n THEN -1 ELSE n + i
AdjustedOf(v, n) == IF IsNum(v) THEN Adjusted(v.n, n) ELSE -1
IndexCells(v) == IF IsArr(v) THEN v.data ELSE <<v>>
CellAt(s, p) == IF p < Len(s) THEN s[p + 1] ELSE Trap
(* An array of d, or the panic of one of its cells.                        *)
Built(d, s) == IF \E i \in DOMAIN s : s[i].tag = "trap" THEN Trap ELSE Arr(d, s)

-----------------------------------------------------------------------------
(* Enclosing the cells along named axes, and along one axis.               *)

EncloseAxes(axes, v) ==
  LET others == SelectSeq([k \in DOMAIN v.dims |-> k - 1], LAMBDA k : k \notin ToSet(axes))
      sub(ks, c) == [k \in DOMAIN ks |-> c[ks[k] + 1]]
      outer == sub(others, v.dims)
      inner == sub(axes, v.dims)
      from(o, c) == [k \in DOMAIN v.dims |->
        IF k - 1 \in ToSet(axes) THEN c[CHOOSE j \in DOMAIN axes : axes[j] = k - 1]
        ELSE o[CHOOSE j \in DOMAIN others : others[j] = k - 1]]
      cell(o) == Arr(inner, [i \in 1 .. Count(inner) |->
                   v.data[Flat(v.dims, from(Coords(outer, o), Coords(inner, i - 1))) + 1]])
  IN  IF ~IsArr(v) \/ axes = <<>> \/ \E i \in DOMAIN axes : axes[i] \notin 0 .. (RankOf(v) - 1)
      THEN Err
      ELSE IF HasDup(axes) THEN Err
      ELSE IF Len(v.data) < Count(v.dims) THEN Trap
      ELSE Arr(outer, [i \in 1 .. Count(outer) |-> cell(i - 1)])

(* The cells are numbered with the first axis fastest.                     *)
EncloseAxis(axis, v) ==                                     \* axis from 0
  LET k == axis + 1
      outer == Without(v.dims, k)
      slice(o) == VecOf([i \in 1 .. v.dims[k] |->
                    v.data[Flat(v.dims, InsertAt(FirstFastest(outer, o), k, i - 1)) + 1]])
  IN  IF ~IsArr(v) \/ axis >= RankOf(v) THEN Err
      ELSE IF Len(v.data) < Count(v.dims) /\ Count(v.dims) > 0 THEN Trap
      ELSE Arr(outer, [o \in 1 .. Count(outer) |-> slice(o - 1)])

SelectAxis(a, v, axis) ==                                   \* axis from 0
  LET k == axis + 1
      n == v.dims[k]
      counts == IF IsNum(a) THEN ConstSeq(n, a.n) ELSE [i \in DOMAIN a.data |-> a.data[i].n]
      source == FlattenSeq([i \in 1 .. n |-> Times(counts[i], i - 1)])
      d == [v.dims EXCEPT ![k] = Len(source)]
      at(p) == LET c == Coords(d, p) IN Flat(v.dims, [c EXCEPT ![k] = source[@ + 1]])
  IN  IF ~IsArr(v) \/ axis >= RankOf(v) \/ ~(IsNum(a) \/ (IsArr(a) /\ Len(a.dims) = 1)) THEN Err
      ELSE IF \E i \in DOMAIN Elements(a) : ~IsNum(Elements(a)[i]) THEN Err
      ELSE IF \E i \in DOMAIN Elements(a) : Elements(a)[i].n < 0 THEN Err
      ELSE IF Len(counts) # n THEN Err
      ELSE Gathered(d, v.data, [i \in 1 .. Count(d) |-> at(i - 1)], <<>>)

-----------------------------------------------------------------------------
(* Partitions: spans <<start, end>> of the positions of an axis.           *)

PartitionArg(v) == IF IsArr(v) \/ (IsStr(v) /\ Len(v.chars) # 1) THEN v ELSE VecOf(<<v>>)
Inds(a) == IF IsNum(a) THEN <<a.n>>
           ELSE IF IsArr(a) THEN [i \in DOMAIN a.data |-> IF IsNum(a.data[i]) THEN a.data[i].n ELSE 0]
           ELSE <<0>>
(* A positive number begins a span; n > 1 adds n - 1 empty ones before it. *)
Starts(inds) == {i \in 2 .. Len(inds) : inds[i] > 0}
Spans(inds) ==
  LET from(i) == Max({1} \cup {j \in Starts(inds) : j < i})
      at(i) == (IF i \in Starts(inds) THEN <<<<from(i), i>>>> ELSE <<>>)
               \o Times(Most(0, inds[i] - 1), <<i, i>>)
  IN  FlattenSeq([i \in DOMAIN inds |-> at(i)])
      \o <<<<Max({1} \cup Starts(inds)), Len(inds) + 1>>>>
(* A span begins where the numbers rise to a non-zero one, and ends there  *)
(* or at a zero.                                                           *)
Runs(inds) ==
  LET starts == {i \in DOMAIN inds : inds[i] # 0 /\ (i = 1 \/ inds[i - 1] < inds[i])}
      end(i) == Min({Len(inds) + 1} \cup
                    {j \in (i + 1) .. Len(inds) : inds[j] = 0 \/ j \in starts})
      order == InOrder(starts)
  IN  [k \in DOMAIN order |-> <<order[k], end(order[k])>>]

PartitionedEnclose(a, right) ==
  LET b == PartitionArg(right)
      d == Dims(b)
      n == d[Len(d)]
      frame == Most(1, Count(Front(d)))
      spans == Spans(Inds(a))
      s == Elements(b)
      cell(f, p) == VecOf([j \in 1 .. (p[2] - p[1]) |-> CellAt(s, f * n + p[1] + j - 2)])
      cells == [i \in 1 .. (frame * Len(spans)) |->
                  cell((i - 1) \div Len(spans), spans[((i - 1) % Len(spans)) + 1])]
  IN  CASE d = <<>> \/ ~(IsNum(a) \/ IsArr(a) \/ Dims(a) = <<>>) -> Err
        [] OTHER ->
             IF Len(Inds(a)) # n THEN Err
             ELSE IF \E i \in DOMAIN cells : Trap \in ToSet(cells[i].data) THEN Trap
             ELSE Arr((IF frame = 1 THEN <<>> ELSE Front(d)) \o <<Len(spans)>>, cells)

(* A span of one cell is a box.  Along an axis that is not the last, the   *)
(* result names the axes after it though it has no cells for them.         *)
PartitionedSubset(a, right, given) ==       \* given: the axis from 0, or LastAxis
  LET b == PartitionArg(right)
      d == Dims(b)
      axis == IF given = LastAxis THEN Len(d) - 1 ELSE given
      n == d[axis + 1]
      after == Most(1, Stride(d, axis + 1))
      before == Most(1, Count(SubSeq(d, 1, axis)))
      spans == Runs(Inds(a))
      s == Elements(b)
      cell(f, p) ==
        LET cells == [j \in 1 .. ((p[2] - p[1]) * after) |->
                        CellAt(s, f * n * after + (p[1] - 1) * after + j - 1)]
        IN  IF p[2] = p[1] + 1 /\ after = 1 THEN BoxOf(cells[1])
            ELSE Arr(<<Len(cells) \div after>> \o (IF after > 1 THEN <<after>> ELSE <<>>), cells)
      out == [i \in 1 .. (before * Len(spans)) |->
                cell((i - 1) \div Len(spans), spans[((i - 1) % Len(spans)) + 1])]
  IN  CASE d = <<>> \/ axis >= Len(d) -> Err
        [] OTHER ->
             IF Len(Inds(a)) # n THEN Err
             ELSE IF \E i \in DOMAIN out : Trap \in ToSet(out[i].data) THEN Trap
             ELSE Arr(IF before = 1 /\ axis = Len(d) - 1 THEN <<Len(spans)>>
                      ELSE [d EXCEPT ![axis + 1] = Len(spans)], out)

(* Group: the cells of b by the numbers of a; a negative number drops its  *)
(* cell, a number nobody has is an empty value.                            *)
Arrayified(v) == IF IsArr(v) THEN v ELSE VecOf(<<v>>)
Group(left, right) ==
  LET a == Arrayified(left)
      b == Arrayified(right)
      cd == Tail(b.dims)
      size == Count(cd)
      cell(i) == [k \in 1 .. size |-> ValueAt(b, (i - 1) * Most(1, size) + k - 1)]
      of(g) == SelectSeq([i \in 1 .. a.dims[1] |-> i], LAMBDA i : ValueAt(a, i - 1).n = g)
      last == Max({0} \cup {ValueAt(a, i - 1).n : i \in 1 .. a.dims[1]})
      group(g) == IF of(g) = <<>> THEN Null
                  ELSE Arr(<<Len(of(g))>> \o cd,
                           FlattenSeq([j \in DOMAIN of(g) |-> cell(of(g)[j])]))
  IN  CASE Len(a.dims) # 1 -> Err
        [] Len(a.dims) = 1 /\ b.dims = <<>> -> Trap
        [] OTHER ->
             IF a.dims[1] # b.dims[1] THEN Err
             ELSE IF \E i \in 1 .. a.dims[1] : ~IsNum(ValueAt(a, i - 1)) THEN Err
             ELSE VecOf([g \in 1 .. (last + 1) |-> group(g - 1)])

-----------------------------------------------------------------------------
(* Enlist, collapse, lists, pair.                                          *)

RECURSIVE Enlisted(_, _, _)
Enlisted(v, level, limit) ==
  IF ~IsArr(v) \/ (limit # Keep /\ level > limit) THEN <<v>>
  ELSE FlattenSeq([i \in DOMAIN v.data |-> Enlisted(v.data[i], level + 1, limit)])
Enlist(v, limit) ==                                \* limit Keep: none given
  CASE v.tag \in {"num", "char", "null", "list", "str"} -> v
    [] IsArr(v) -> IF limit < 0 THEN Err ELSE IF limit = 0 THEN v
                   ELSE VecOf(Enlisted(v, 0, limit))
    [] OTHER -> Err

ToList(v) == CASE v.tag = "list" -> v
               [] v = Null -> List(<<>>)
               [] IsStr(v) -> List(Elements(v))
               [] IsArr(v) -> IF Len(v.dims) > 1 THEN Err ELSE List(v.data)
               [] OTHER -> List(<<v>>)
FromList(v) == IF v.tag = "list" THEN VecOf(v.data)
               ELSE IF IsBox(v) THEN v.data[1] ELSE Err
RECURSIVE CollapseValue(_)
CollapseValue(v) ==
  IF ~IsArr(v) THEN v
  ELSE IF v.dims = <<>> THEN Enclose(CollapseValue(v.data[1]))
  ELSE Arr(v.dims, [i \in DOMAIN v.data |-> CollapseValue(v.data[i])])
Pair(a, b) == VecOf(<<a, b>>)

-----------------------------------------------------------------------------
(* Disclose.  Cells of one shape become the trailing axes; cells of        *)
(* different shapes are concatenated.  With axes, short cells are filled.  *)

Disclose(v) ==
  LET s == v.data
      arrays == {i \in DOMAIN s : IsArr(s[i])}
      shape == s[Min(arrays)].dims
      uniform == /\ \A i \in arrays : s[i].dims = shape
                 /\ \A i \in DOMAIN s \ arrays : i < Min(arrays)
  IN  CASE ~IsArr(v) -> v
        [] IsBox(v) -> IF s = <<>> THEN Null ELSE s[1]
        [] OTHER ->
             IF s = <<>> THEN VecOf(<<>>)
             ELSE IF arrays = {} THEN Arr(v.dims, s)
             ELSE IF uniform
             THEN Arr(v.dims \o shape, FlattenSeq([i \in DOMAIN s |->
                                         IF i \in arrays THEN s[i].data ELSE <<>>]))
             ELSE VecOf(FlattenSeq([i \in DOMAIN s |-> FlatElements(s[i])]))

DiscloseAxis(axes, fill, v) ==
  LET outer == IF IsArr(v) THEN v.dims ELSE <<Len(v.data)>>
      r == Len(outer)
      s == Elements(v)
      grown(m, d) == LET padded == ConstSeq(Most(0, Len(d) - Len(m)), 1) \o m
                     IN  [k \in DOMAIN padded |-> IF k <= Len(d) THEN Most(padded[k], d[k]) ELSE padded[k]]
      innerDims(x) == IF IsArr(x) THEN x.dims ELSE <<>>
      inner == FoldLeft(LAMBDA m, x : grown(m, innerDims(x)), <<>>, s)
      c == Len(inner)
      wide == outer \o inner
      extra == [k \in 1 .. (c - Len(axes)) |-> axes[Len(axes)] + k]
      ax == axes \o extra
      order == SelectSeq([k \in DOMAIN wide |-> k - 1], LAMBDA k : k \notin ToSet(ax)) \o ax
      inv == [a \in DOMAIN wide |-> CHOOSE k \in DOMAIN wide : order[k] = a - 1]
      d == [a \in DOMAIN wide |-> wide[inv[a]]]
      cellAt(x, i) ==
        IF innerDims(x) = <<>> THEN x
        ELSE IF \E k \in 1 .. c : k > Len(x.dims) \/ i[k] >= x.dims[k] THEN fill
        ELSE ValueAt(x, Flat(x.dims, [k \in DOMAIN x.dims |-> i[k]]))
      at(p) == LET src == [k \in DOMAIN wide |-> Coords(d, p)[order[k] + 1]]
               IN  cellAt(s[Flat(outer, SubSeq(src, 1, r)) + 1], SubSeq(src, r + 1, r + c))
  IN  IF v.tag \notin {"array", "list"} THEN IF Len(axes) > 1 \/ (axes # <<>> /\ axes[1] # 0) THEN Err ELSE v
      ELSE IF Len(axes) > c \/ (axes = <<>> /\ c > 0) THEN Err
      ELSE IF \E k \in DOMAIN ax : ax[k] \notin 0 .. (r + c - 1) THEN Err
      ELSE IF HasDup(ax) THEN Err
      ELSE IF Count(d) > 0 /\ Len(s) < Count(outer) THEN Trap
      ELSE Arr(d, [i \in 1 .. Count(d) |-> at(i - 1)])

(* Pick follows a path: a number into a vector, coordinates into an array. *)
RECURSIVE PickPath(_, _)
PickPath(path, v) ==
  LET ix == path[1]
      coord == IF IsArr(ix) THEN ix.data ELSE <<ix>>
      d == Dims(v)
      at == [k \in DOMAIN d |-> AdjustedOf(coord[k], d[k])]
  IN  IF path = <<>> THEN v
      ELSE IF (IsArr(ix) /\ Len(ix.dims) # 1) \/ Len(coord) # Len(d) THEN Err
      ELSE IF -1 \in ToSet(at) THEN Err
      ELSE IF Flat(d, at) >= ElementCount(v) THEN Err
      ELSE PickPath(Tail(path), ValueAt(v, Flat(d, at)))
PickInto(a, v) == IF Len(Dims(a)) > 1 THEN Err ELSE PickPath(Elements(a), v)

-----------------------------------------------------------------------------
(* Selection by one specification per axis.  Positions(spec, n) are the    *)
(* places it names, and a number drops its axis.                           *)

Whole(spec, nilToo) == spec = Null \/ (nilToo /\ spec = Nil)
Picked(spec, n) == [i \in DOMAIN IndexCells(spec) |-> AdjustedOf(IndexCells(spec)[i], n)]
Outside(spec, n) == -1 \in ToSet(Picked(spec, n))
(* The cells of s, of dimensions d, at the places of each axis.            *)
CellsAt(d, s, places) ==
  LET wide == [k \in DOMAIN places |-> Len(places[k])]
      at(c) == Flat(d, [k \in DOMAIN places |-> places[k][c[k] + 1]])
  IN  [i \in 1 .. Count(wide) |-> CellAt(s, at(Coords(wide, i - 1)))]

Squad(sel, v) ==
  LET d == Dims(v)
      specs == IndexCells(sel)
      spec(k) == IF k <= Len(specs) THEN specs[k] ELSE Null
      places == [k \in DOMAIN d |-> IF Whole(spec(k), TRUE) THEN [i \in 1 .. d[k] |-> i - 1]
                                    ELSE Picked(spec(k), d[k])]
      kept == SelectSeq([k \in DOMAIN d |-> k], LAMBDA k : Whole(spec(k), TRUE) \/ IsArr(spec(k)))
      out == CellsAt(d, FlatElements(v), places)
  IN  IF Len(specs) > Len(d) THEN Err
      ELSE IF \E k \in DOMAIN specs : ~Whole(spec(k), TRUE) /\ Outside(spec(k), d[k]) THEN Err
      ELSE IF kept = <<>> THEN out[1]
      ELSE Built([j \in DOMAIN kept |-> Len(places[kept[j]])], out)
SquadAxis(specs, axes, v) ==
  LET at(k) == {j \in DOMAIN axes : axes[j] = k - 1}
  IN  IF (\E j \in DOMAIN axes : axes[j] \notin 0 .. (RankOf(v) - 1)) \/ HasDup(axes)
         \/ Len(specs) # Len(axes) THEN Err
      ELSE Squad(VecOf([k \in 1 .. RankOf(v) |-> IF at(k) = {} THEN Null ELSE specs[Min(at(k))]]), v)
FromIndex(sel, v) == IF sel = Null THEN v ELSE Squad(sel, v)

(* Each cell of a is one place of b, a number or a vector of coordinates.  *)
PickApl(a, b) ==
  LET d == Dims(b)
      coord(x) == IndexCells(x)
      fits(x) == Len(coord(x)) = Len(d) /\ \A k \in DOMAIN d : AdjustedOf(coord(x)[k], d[k]) # -1
      s == Elements(a)
      at(x) == CellAt(Elements(b), Flat(d, [k \in DOMAIN d |-> AdjustedOf(coord(x)[k], d[k])]))
      out == [i \in DOMAIN s |-> at(s[i])]
  IN  IF \E i \in DOMAIN s : ~fits(s[i]) THEN Err
      ELSE IF Dims(a) = <<>> /\ Len(out) = 1 THEN out[1]
      ELSE Built(Dims(a), out)

(* Bracket selection: an axis with one place is dropped, and a result of   *)
(* one cell is itself when it is simple, a box otherwise.                  *)
Section(specs, k, n, nilToo) ==
  LET spec == IF k <= Len(specs) THEN specs[k] ELSE Null
  IN  IF Whole(spec, nilToo) \/ (IsArr(spec) /\ Count(spec.dims) = 0)
      THEN [i \in 1 .. n |-> i - 1] ELSE Picked(spec, n)
SelectAt(v, places) ==
  LET d == Dims(v)
      kept == SelectSeq([k \in DOMAIN d |-> k], LAMBDA k : Len(places[k]) > 1)
      rd == [j \in DOMAIN kept |-> Len(places[kept[j]])]
      coord(c, k) == IF Len(places[k]) = 1 THEN 0 ELSE c[CHOOSE j \in DOMAIN kept : kept[j] = k]
      cell(c) == Nth(Elements(v), Flat(d, [k \in DOMAIN d |-> places[k][coord(c, k) + 1]]))
      simple(x) == IF x.tag \in {"num", "char", "list", "nil"} THEN x ELSE BoxOf(x)
      titles(l, ps) == [i \in DOMAIN ps |-> IF ps[i] < Len(l) THEN l[ps[i] + 1] ELSE 0]
      any(l) == IF ToSet(l) \subseteq {0} THEN <<>> ELSE l
      some(ls) == IF \A j \in DOMAIN ls : ls[j] = <<>> THEN <<>> ELSE ls
  IN  IF \E k \in DOMAIN d : -1 \in ToSet(places[k]) THEN Err
      ELSE IF <<>> \in ToSet(places) THEN Trap
      ELSE IF kept = <<>> THEN simple(cell(<<>>))
      ELSE Labelled(rd, [i \in 1 .. Count(rd) |-> cell(Coords(rd, i - 1))],
                    some([j \in DOMAIN kept |-> any(titles(AxisLabels(LabelsOf(v), kept[j]), places[kept[j]]))]))
IndexSelect(v, sel) ==
  LET d == Dims(v)
  IN  IF Len(IndexCells(sel)) > Len(d) THEN Err
      ELSE SelectAt(v, [k \in DOMAIN d |-> Section(IndexCells(sel), k, d[k], TRUE)])

(* The flat positions of the places of each axis, the last axis fastest.   *)
PlacesFirstFastest(d, places) ==
  LET wide == [k \in DOMAIN d |-> Len(places[k])]
  IN  [i \in 1 .. Count(wide) |->
         Flat(d, [k \in DOMAIN d |-> places[k][FirstFastest(wide, i - 1)[k] + 1]])]
PlacesOf(d, places) ==
  LET wide == [k \in DOMAIN d |-> Len(places[k])]
  IN  [i \in 1 .. Count(wide) |->
         Flat(d, [k \in DOMAIN d |-> places[k][Coords(wide, i - 1)[k] + 1]])]
(* The places named are replaced, by the value when there is one place, by *)
(* its cells or its only cell otherwise.  The labels are gone.             *)
IndexAssign(v, sel, val) ==
  LET d == Dims(v)
      old(i) == Nth(Elements(v), i - 1)
      new(j, n) == IF n = 1 \/ ~IsArr(val) THEN val
                   ELSE IF Len(val.data) = n THEN val.data[j] ELSE val.data[1]
      cell(i, n, js) == IF js = {} THEN old(i) ELSE new(Max(js), n)
      at(flat) == IF Len(flat) # 1 /\ IsArr(val) /\ Len(val.data) # Len(flat) /\ Count(val.dims) # 1 THEN Err
                  ELSE Arr(d, [i \in 1 .. Count(d) |->
                                 cell(i, Len(flat), {j \in DOMAIN flat : flat[j] = i - 1})])
      placed(places) == IF \E k \in DOMAIN d : -1 \in ToSet(places[k]) THEN Err ELSE at(PlacesOf(d, places))
  IN  IF Len(IndexCells(sel)) > Len(d) THEN Err
      ELSE placed([k \in DOMAIN d |-> Section(IndexCells(sel), k, d[k], FALSE)])

(* Pick with one specification per axis, whose dimensions replace the axis.*)
Pick(v, sel) ==
  LET specs == IndexCells(sel)
      d == IF IsArr(v) THEN v.dims ELSE <<1>>
      one == specs[1]
      s == IF IsArr(v) \/ IsStr(v) THEN Elements(v) ELSE <<v>>
      rank == IF IsArr(v) THEN Len(v.dims) ELSE IF IsStr(v) THEN 1 ELSE 0
      found == [i \in DOMAIN IndexCells(one) |-> AdjustedOf(IndexCells(one)[i], Len(s))]
      spec(k) == IF k <= Len(specs) THEN specs[k] ELSE Null
      places == [k \in DOMAIN d |-> IF spec(k) = Null THEN [i \in 1 .. d[k] |-> i - 1]
                                    ELSE Picked(spec(k), d[k])]
      axes(k) == IF spec(k) = Null THEN <<d[k]>> ELSE IF IsArr(spec(k)) THEN spec(k).dims ELSE <<>>
      od == FlattenSeq([k \in DOMAIN d |-> axes(k)])
      out == CellsAt(d, IF IsArr(v) THEN v.data ELSE <<v>>, places)
  IN  IF Len(specs) = 1
      THEN IF one = Null THEN Null
           ELSE IF rank # 1 \/ -1 \in ToSet(found) THEN Err
           ELSE IF ~IsArr(one) \/ one.dims = <<>> THEN s[found[1] + 1]
           ELSE Arr(one.dims, [i \in DOMAIN found |-> s[found[i] + 1]])
      ELSE IF Len(specs) > Len(d) THEN Err
      ELSE IF \E k \in DOMAIN specs : specs[k] # Null /\ Outside(specs[k], d[k]) THEN Err
      ELSE IF od = <<>> THEN out[1]
      ELSE IF Count(od) = 0 THEN Err
      ELSE Built(od, out)
=============================================================================
