------------------------------ MODULE Searching ------------------------------
(***************************************************************************)
(* The primitives that compare cells: index-of, find, membership, the set  *)
(* operations, where, interval, grade and sort, range, deal, the logical   *)
(* functions, and selection by counts (replicate, expand).  They compare   *)
(* the storage children of their arguments.                                *)
(***************************************************************************)
EXTENDS Structural

Bit(b) == Num(IF b THEN 1 ELSE 0)
MembersOf(v) == IF v = Null THEN <<>> ELSE IF v.tag = "list" THEN <<v>> ELSE Elements(v)

(* type_qualified_key: the key of an array lists the keys of its children, *)
(* without its dimensions; a string and a vector of characters differ.     *)
RECURSIVE KeyOf(_)
KeyOf(v) == IF IsArr(v) THEN [tag |-> "key", data |-> [i \in DOMAIN v.data |-> KeyOf(v.data[i])]]
            ELSE v
RECURSIVE SetopKey(_)
SetopKey(v) == IF IsBox(v) THEN IF v.data = <<>> THEN Null ELSE SetopKey(v.data[1])
               ELSE KeyOf(v)
(* Members are compared by their keys, rows by the keys of their contents. *)
SameKind(rows, x, y) == IF rows THEN SetopKey(x) = SetopKey(y) ELSE KeyOf(x) = KeyOf(y)
FirstOfRun(s, rows) ==      \* compared with the member before only
  LET at == InOrder({i \in DOMAIN s : i = 1 \/ ~SameKind(rows, s[i - 1], s[i])})
  IN  [k \in DOMAIN at |-> s[at[k]]]
FirstOfKind(s, rows) ==     \* the members whose key did not occur before
  LET new == {i \in DOMAIN s : \A j \in 1 .. (i - 1) : ~SameKind(rows, s[j], s[i])}
      at == InOrder(new)
  IN  [k \in DOMAIN at |-> s[at[k]]]

IndexOf(a, b) ==
  LET ea == Elements(a)
      hits(x) == {i \in DOMAIN ea : SameValue(ea[i], x)}
      at(x) == Num(IF hits(x) = {} THEN Len(ea) ELSE Min(hits(x)) - 1)
  IN  IF Dims(b) = <<>> THEN IF Elements(b) = <<>> THEN Num(Len(ea)) ELSE at(Elements(b)[1])
      ELSE Arr(Dims(b), [i \in DOMAIN Elements(b) |-> at(Elements(b)[i])])

Membership(a, b) ==
  LET eb == FlatElements(b)
      in(x) == Bit(\E i \in DOMAIN eb : SameValue(x, eb[i]))
  IN  IF IsBox(a) THEN IF a.data = <<>> THEN Num(0) ELSE in(a.data[1])
      ELSE IF IsArr(a) \/ IsStr(a)
      THEN Arr(Dims(a), [i \in DOMAIN Elements(a) |-> in(Elements(a)[i])])
      ELSE in(a)

Find(a, b) ==
  LET da == ConstSeq(Len(Dims(b)) - Len(Dims(a)), 1) \o Dims(a)
      db == Dims(b)
      ea == FlatElements(a)
      eb == FlatElements(b)
      sum(c, e) == [k \in DOMAIN c |-> c[k] + e[k]]
      fits(p) == \A k \in DOMAIN db : Coords(db, p)[k] + da[k] <= db[k]
      from(p, i) == Flat(db, sum(Coords(db, p), Coords(da, i - 1)))
      found(p) == fits(p) /\ \A i \in DOMAIN ea : SameValue(ea[i], eb[from(p, i) + 1])
  IN  CASE RankOf(b) = 0 -> Bit(SameValue(a, b))
        [] RankOf(b) > 0 /\ (Len(Dims(a)) > Len(db) \/ ea = <<>>) ->
             Arr(db, ConstSeq(Count(db), Num(0)))
        [] OTHER ->
             IF Len(eb) < Count(db) \/ Len(ea) > Count(da) THEN Trap
             ELSE Arr(db, [i \in 1 .. Count(db) |-> Bit(found(i - 1))])

-----------------------------------------------------------------------------
(* Sets: vectors by their members, matrices by their rows.                 *)

SetopRows(v, d) ==
  LET s == FlatElements(v)
      stride == Most(1, Count(Tail(d)))
  IN  IF Len(s) = d[1] THEN s
      ELSE [i \in 1 .. d[1] |-> Arr(Tail(d), SubSeq(s, (i - 1) * stride + 1, Least(i * stride, Len(s))))]
RowsJoined(cells, inner) ==
  Arr(<<Len(cells)>> \o inner, FlattenSeq([i \in DOMAIN cells |-> Collect(cells[i])]))
InnerDims(d) == IF d = <<>> THEN <<>> ELSE Tail(d)
(* The rows of a right argument: an enclosed value is one row.             *)
RightRows(r, inner) ==
  LET content == IF r.data = <<>> THEN Null ELSE r.data[1]
  IN  IF IsBox(r) THEN IF Dims(content) # inner THEN <<Err>> ELSE <<content>>
      ELSE IF InnerDims(Dims(r)) # inner \/ Dims(r) = <<>> THEN <<Err>>
      ELSE SetopRows(r, Dims(r))

Unique(v) ==
  LET s == FirstOfKind(MembersOf(v), FALSE)
  IN  CASE v = Null -> Null
        [] IsStr(v) -> Str([i \in DOMAIN s |-> s[i].c])
        [] OTHER -> IF s = <<>> THEN Null ELSE VecOf(s)

(* The left members as they are, then those of the right that are new.     *)
UnionOf(s, t, rows) ==
  s \o FirstOfKind(SelectSeq(t, LAMBDA x : \A i \in DOMAIN s : ~SameKind(rows, s[i], x)), rows)
Union(l, r) ==
  LET inner == InnerDims(Dims(l))
      rows == RightRows(r, inner)
      strs == UnionOf(Elements(l), Elements(r), FALSE)
      joined == UnionOf(SetopRows(l, Dims(l)), rows, TRUE)
  IN  CASE l = Null -> r
        [] l # Null /\ r = Null -> l
        [] OTHER ->
             IF IsStr(l) /\ IsStr(r) THEN Str([i \in DOMAIN strs |-> strs[i].c])
             ELSE IF Len(Dims(l)) > 1
             THEN IF Dims(r) = <<0>> THEN l
                  ELSE IF Err \in ToSet(rows) THEN Err
                  ELSE Arr(<<Len(joined)>> \o inner, joined)
             ELSE IF Len(Dims(r)) > 1 THEN Err
             ELSE VecOf(UnionOf(MembersOf(l), MembersOf(r), FALSE))

Among(s, t, rows, present) ==
  SelectSeq(s, LAMBDA x : present <=> \E i \in DOMAIN t : SameKind(rows, t[i], x))
Intersection(l, r) ==
  LET inner == InnerDims(Dims(l))
      rows == RightRows(r, inner)
      strs == Among(Elements(l), Elements(r), FALSE, TRUE)
  IN  CASE l = Null \/ r = Null -> Null
        [] l # Null /\ r # Null /\ IsStr(l) /\ IsStr(r) -> Str([i \in DOMAIN strs |-> strs[i].c])
        [] OTHER ->
             IF Len(Dims(l)) <= 1 /\ Len(Dims(r)) <= 1
             THEN VecOf(Among(MembersOf(l), MembersOf(r), FALSE, TRUE))
             ELSE IF Len(Dims(l)) <= 1 THEN Err
             ELSE IF Dims(r) = <<0>> THEN RowsJoined(<<>>, inner)
             ELSE IF Err \in ToSet(rows) THEN Err
             ELSE RowsJoined(Among(SetopRows(l, Dims(l)), rows, TRUE, TRUE), inner)
Less(l, r) ==                                               \* without
  LET inner == InnerDims(Dims(l))
      rows == RightRows(r, inner)
      empty == r = Null \/ (IsArr(r) /\ Len(r.dims) <= 1 /\ Count(r.dims) = 0)
  IN  CASE empty -> IF IsArr(l) THEN l ELSE VecOf(<<l>>)
        [] ~empty /\ Len(Dims(l)) > 1 ->
             IF Err \in ToSet(rows) THEN Err
             ELSE RowsJoined(Among(SetopRows(l, Dims(l)), rows, TRUE, FALSE), inner)
        [] OTHER -> VecOf(Among(MembersOf(l), MembersOf(r), FALSE, FALSE))

-----------------------------------------------------------------------------
(* Where and interval.                                                     *)

Times(n, x) == ConstSeq(n, x)
Where(v) ==
  LET cells == [i \in 1 .. ElementCount(v) |-> ValueAt(v, i - 1)]
      index(i) == IF RankOf(v) = 1 THEN Num(i - 1) ELSE NumVec(Coords(Dims(v), i - 1))
      out == FlattenSeq([i \in DOMAIN cells |-> Times(cells[i].n, index(i))])
  IN  CASE v = Null -> Null
        [] IsNum(v) -> IF v.n < 0 THEN Err ELSE IF v.n = 0 THEN Null
                       ELSE VecOf(ConstSeq(v.n, Null))
        [] OTHER -> IF RankOf(v) = 0 \/ \E i \in DOMAIN cells : ~IsNum(cells[i]) THEN Err
                    ELSE IF \E i \in DOMAIN cells : cells[i].n < 0 THEN Err
                    ELSE IF out = <<>> THEN Null ELSE VecOf(out)

RECURSIVE Bisect(_, _, _, _)
Bisect(bounds, x, low, high) ==
  LET mid == (low + high) \div 2
  IN  IF low > high THEN low
      ELSE IF TotalCmp(bounds[mid + 1], x) = 1 THEN Bisect(bounds, x, low, mid - 1)
      ELSE Bisect(bounds, x, mid + 1, high)
Interval(a, b) ==
  LET s == FlatElements(a)
      count(x) == Num(Bisect(s, x, 0, Len(s) - 1))
  IN  CASE Len(Dims(a)) > 1 -> Err
        [] Len(Dims(a)) <= 1 /\ \E i \in 1 .. (Len(s) - 1) : TotalCmp(s[i], s[i + 1]) >= 0 -> Err
        [] OTHER -> IF b = Null \/ FlatElements(b) = <<>> THEN Null
                    ELSE IF Dims(b) = <<>> THEN count(FlatElements(b)[1])
                    ELSE Arr(Dims(b), [i \in DOMAIN Elements(b) |-> count(Elements(b)[i])])

-----------------------------------------------------------------------------
(* Grade and sort order the major cells, compared cell by cell; both use a *)
(* stable sort.  A position past the storage reads as the empty value;     *)
(* values without an order count as equal.                                 *)

CellCmp(v, size, i, j) ==
  LET cell(p, k) == ValueAt(v, p * size + k - 1)
      cmp(a, b) == IF TotalCmp(a, b) = Unordered THEN 0 ELSE TotalCmp(a, b)
  IN  FirstNonzero([k \in 1 .. size |-> cmp(cell(i, k), cell(j, k))], 0)
(* The positions from 0 in the order of a comparison of them.              *)
StableSort(n, cmp) ==
  LET before(j, i) == cmp[j, i] < 0 \/ (cmp[j, i] = 0 /\ j < i)
      place(i) == Cardinality({j \in 0 .. (n - 1) : before(j, i)}) + 1
  IN  [k \in 1 .. n |-> CHOOSE i \in 0 .. (n - 1) : place(i) = k]
OrderReversed(v, n, size, up) ==          \* downwards is upwards, reversed
  LET places == StableSort(n, [i, j \in 0 .. (n - 1) |-> CellCmp(v, size, i, j)])
  IN  IF up THEN places ELSE Reverse(places)
Order(v, n, size, up) ==
  StableSort(n, [i, j \in 0 .. (n - 1) |-> (IF up THEN 1 ELSE -1) * CellCmp(v, size, i, j)])
Grade(v, up) ==
  LET n == Dims(v)[1]
  IN  CASE v = Null -> Null
        [] v # Null /\ RankOf(v) = 0 -> Err
        [] OTHER -> IF n = 0 THEN Null
                    ELSE NumVec(Order(v, n, Count(Tail(Dims(v))), up))
SortArray(v, axis, up) ==                                   \* axis from 1
  LET d == Dims(v)
      n == d[axis]
      size == Stride(d, axis)
      block(p) == VecOf([i \in 1 .. (n * size) |-> ValueAt(v, p * n * size + i - 1)])
      sorted(p) == LET o == Order(block(p), n, size, up)
                   IN  [i \in 1 .. (n * size) |->
                          block(p).data[o[((i - 1) \div size) + 1] * size + ((i - 1) % size) + 1]]
  IN  CASE d = <<>> -> Err
        [] d # <<>> /\ axis > Len(d) -> Err
        [] OTHER -> IF n = 0 THEN Null
                    ELSE Arr(d, FlattenSeq([p \in 1 .. Count(SubSeq(d, 1, axis - 1)) |-> sorted(p - 1)]))

RangeOf(a, b) ==
  LET na == ElementCount(a)
      nb == ElementCount(b)
      x == ValueAt(a, na - 1)
      y == ValueAt(b, 0)
      steps(m, n) == [i \in 1 .. (AbsOf(n - m) + 1) |-> IF m <= n THEN m + i - 1 ELSE m - i + 1]
      before == [i \in 1 .. (na - 1) |-> ValueAt(a, i - 1)]
      after == [i \in 1 .. (nb - 1) |-> ValueAt(b, i)]
      between == IF IsNum(x) THEN [i \in DOMAIN steps(x.n, y.n) |-> Num(steps(x.n, y.n)[i])]
                 ELSE [i \in DOMAIN steps(x.c, y.c) |-> Chr(steps(x.c, y.c)[i])]
  IN  IF RankOf(a) > 1 \/ RankOf(b) > 1 \/ na = 0 \/ nb = 0 THEN Err
      ELSE IF x.tag # y.tag \/ x.tag \notin {"num", "char"} THEN Err
      ELSE VecOf(before \o between \o after)

(* Deal: every outcome the random draws can lead to.  rp holds the first   *)
(* drawn numbers, moved the displaced ones.                                *)
RECURSIVE DealFrom(_, _, _, _)
DealFrom(i, rp, moved, b) ==
  LET a == Len(rp)
      after(j) ==
        IF j < a
        THEN DealFrom(i + 1, [rp EXCEPT ![j + 1] = rp[i + 1], ![i + 1] = rp[j + 1]], moved, b)
        ELSE DealFrom(i + 1, [rp EXCEPT ![i + 1] = moved[j]], [moved EXCEPT ![j] = rp[i + 1]], b)
  IN  IF i = a THEN {rp} ELSE UNION {after(j) : j \in (b - (a - i)) .. (b - 1)}
Deal(a, b) == IF a < 0 \/ b < 0 \/ a > b THEN {Err}
              ELSE {NumVec(s) : s \in DealFrom(0, [i \in 1 .. a |-> i - 1],
                                               [j \in 0 .. (b - 1) |-> j], b)}

-----------------------------------------------------------------------------
(* And, or of strict booleans; the shape is that of the longer argument.   *)

LogicFn(sym, x, y) == CASE sym = "and" -> x = 1 /\ y = 1
                       [] sym = "or" -> x = 1 \/ y = 1
                       [] sym = "nand" -> ~(x = 1 /\ y = 1)
                       [] sym = "nor" -> ~(x = 1 \/ y = 1)
Boolean(s) == \A i \in DOMAIN s : s[i] \in {Num(0), Num(1)}
Cycle1(s, i) == s[IF Len(s) = 1 THEN 1 ELSE i]
Bool2(sym, a, b) ==
  LET none(v) == v = Null \/ ((IsArr(v) \/ IsStr(v)) /\ ElementCount(v) = 0)
      la == FlatElements(a)
      lb == FlatElements(b)
      n == Most(Len(la), Len(lb))
      d == IF Len(la) = n THEN Dims(a) ELSE Dims(b)
      bits == [i \in 1 .. n |-> Bit(LogicFn(sym, Cycle1(la, i).n, Cycle1(lb, i).n))]
  IN  IF none(a) \/ none(b) THEN Null
      ELSE IF ~Boolean(la) \/ ~Boolean(lb) THEN Err
      ELSE IF n = 1 THEN bits[1]
      ELSE IF {Len(la), Len(lb)} \ {1, n} # {} THEN Err
      ELSE Arr(IF d # <<>> /\ Count(d) = n THEN d ELSE <<n>>, bits)

(* Selection: one copy count for the axis, or one per position.            *)
SumOf(s) == FoldLeft(LAMBDA a, b : a + b, 0, s)
SelectElements(counts, v, last) ==
  LET d == Dims(v)
      k == IF last THEN Len(d) ELSE 1
      count(x) == IF counts = <<>> THEN 1 ELSE IF Len(counts) = 1 THEN counts[1] ELSE counts[x + 1]
      n == IF d = <<>> THEN 0 ELSE d[k]
      total == IF d = <<>> THEN SumOf(counts) ELSE SumOf([i \in 1 .. n |-> count(i - 1)])
      s == Elements(v)
      copies(p) == Times(count(Coords(d, p)[k]), s[p + 1])
      labels(l) == FlattenSeq([i \in 1 .. n |->
                     Times(count(i - 1), IF count(i - 1) = 1 /\ i <= Len(l) THEN l[i] ELSE 0)])
      ls == [j \in DOMAIN v.labels |->
               IF j # k THEN v.labels[j]
               ELSE IF ToSet(labels(v.labels[j])) \subseteq {0} THEN <<>> ELSE labels(v.labels[j])]
  IN  IF Len(counts) > 1 /\ Len(counts) # n THEN Err
      ELSE IF \E i \in DOMAIN counts : counts[i] < 0 THEN Err
      ELSE IF d = <<>> THEN Arr(IF total = 0 THEN <<>> ELSE <<total>>, Times(total, v))
      ELSE IF Len(s) < Count(d) THEN Trap
      ELSE Labelled([d EXCEPT ![k] = total], FlattenSeq([i \in 1 .. Count(d) |-> copies(i - 1)]),
                    IF IsArr(v) THEN ls ELSE <<>>)

(* Expand: a positive count takes the next position that many times, zero  *)
(* one fill, a negative count that many fills.  The dimension written is   *)
(* the number of counts.                                                   *)
ExpandAxis(counts, v, axis) ==                              \* axis from 1
  LET d == Dims(v)
      s == Elements(v)
      taken(i) == Cardinality({j \in 1 .. (i - 1) : counts[j] > 0})
      source == FlattenSeq([i \in DOMAIN counts |->
                  IF counts[i] > 0 THEN Times(counts[i], IF d[axis] > 1 THEN taken(i) ELSE 0)
                  ELSE Times(Most(1, -counts[i]), -1)])
      wide == [d EXCEPT ![axis] = Len(source)]
      at(p) == LET c == Coords(wide, p) IN [c EXCEPT ![axis] = source[@ + 1]]
      cell(p) == IF at(p)[axis] < 0 THEN Num(0) ELSE s[Flat(d, at(p)) + 1]
      pick(l, i) == IF counts[i] > 0 /\ i <= Len(l) THEN l[i] ELSE 0
      labels(l) == FlattenSeq([i \in DOMAIN counts |-> Times(Most(1, AbsOf(counts[i])), pick(l, i))])
      ls == [j \in DOMAIN v.labels |->
               IF j # axis THEN v.labels[j]
               ELSE IF ToSet(labels(v.labels[j])) \subseteq {0} THEN <<>> ELSE labels(v.labels[j])]
      selected == Cardinality({i \in DOMAIN counts : counts[i] > 0})
  IN  IF d = <<>> THEN VecOf([i \in DOMAIN counts |-> IF counts[i] > 0 THEN v ELSE Num(0)])
      ELSE IF axis > Len(d) THEN Err
      ELSE IF d[axis] \notin {selected, 1} THEN Err
      ELSE IF Len(s) < Count(d) THEN Trap
      ELSE Labelled([d EXCEPT ![axis] = Len(counts)], [i \in 1 .. Count(wide) |-> cell(i - 1)],
                    IF IsArr(v) THEN ls ELSE <<>>)
=============================================================================
