------------------------------- MODULE Scalars -------------------------------
(***************************************************************************)
(* The pervasive functions: arithmetic of one and of two arguments, with   *)
(* an axis, of characters; comparison; selection by case; the bitwise      *)
(* forms; labels.  Numbers are integers here, so division, roots and       *)
(* logarithms are left to Numbers.                                         *)
(***************************************************************************)
EXTENDS Indexing, Bitwise

(* An array of d, or the first failure among its cells.                    *)
Lifted(d, s) ==
  LET failed == {i \in DOMAIN s : Failed(s[i])}
  IN  IF failed = {} THEN Arr(d, s) ELSE s[Min(failed)]
Content(v) == IF v.data = <<>> THEN Null ELSE v.data[1]

Arith(sym, x, y) == CASE sym = "+" -> x + y
                      [] sym = "-" -> x - y
                      [] sym = "*" -> x * y
                      [] sym = "min" -> Least(x, y)
                      [] sym = "max" -> Most(x, y)
Mapped(sym, x) == CASE sym = "-" -> -x
                    [] sym = "*" -> Sign(x, 0)
                    [] sym = "abs" -> AbsOf(x)

(* Nil is the neutral element of some functions.                           *)
NilMerge(sym, a, b) ==
  LET other == IF a = Nil THEN b ELSE a
  IN  IF sym \in {"min", "max"}
      THEN IF a # b /\ other.tag \in {"num", "char"} THEN other ELSE Err
      ELSE IF a = b THEN CASE sym = "+" -> Num(0) [] sym = "*" -> Num(1) [] OTHER -> Err
      ELSE IF sym = "-" /\ (a = Nil \/ other.tag \notin {"num", "array", "list"}) THEN Err
      ELSE IF other.tag \in {"num", "char", "str", "array", "list"} THEN other ELSE Err

CharSum(m, n) == IF m + n < 0 THEN Err ELSE Chr(m + n)
AllChars(v) == v.data # <<>> /\ \A i \in DOMAIN v.data : v.data[i].tag = "char"

(* num2_impl.  A box stays a box; two arrays need as many cells, not the   *)
(* same shape; against characters only the numbers of an array are kept.   *)
RECURSIVE Num2(_, _, _)
Num2(sym, a, b) ==
  LET box(v) == IsBox(v)
      boxed(v) == IF Failed(v) THEN v ELSE BoxOf(v)
      shifted(v, codes) == LET at == InOrder({i \in DOMAIN v.data : IsNum(v.data[i])})
                           IN  Lifted(v.dims, [j \in DOMAIN at |-> CharSum(codes[at[j]], v.data[at[j]].n)])
      allOf(v, c) == shifted(v, ConstSeq(Len(v.data), c))
      cellwise(xs, ys) == [i \in 1 .. Least(Len(xs), Len(ys)) |-> Num2(sym, xs[i], ys[i])]
  IN  CASE a = Null \/ b = Null -> Null
        [] a # Null /\ b # Null /\ (a = Nil \/ b = Nil) -> NilMerge(sym, a, b)
        [] IsNum(a) /\ IsNum(b) -> Num(Arith(sym, a.n, b.n))
        [] box(a) /\ ~IsArr(b) /\ b \notin {Null, Nil} -> boxed(Num2(sym, Content(a), b))
        [] box(b) /\ ~IsArr(a) /\ a \notin {Null, Nil} -> boxed(Num2(sym, a, Content(b)))
        [] IsArr(a) /\ IsArr(b) /\ box(a) ->
             Lifted(b.dims, [i \in DOMAIN b.data |-> boxed(Num2(sym, Content(a), b.data[i]))])
        [] IsArr(a) /\ ~box(a) /\ box(b) ->
             Lifted(a.dims, [i \in DOMAIN a.data |-> boxed(Num2(sym, a.data[i], Content(b)))])
        [] a.tag \in {"num", "char"} /\ b.tag \in {"num", "char"} /\ {a.tag, b.tag} # {"num"} ->
             CharSum(IF IsNum(a) THEN a.n ELSE a.c, IF IsNum(b) THEN b.n ELSE b.c)
        [] IsArr(a) /\ ~box(a) /\ b.tag = "char" -> allOf(a, b.c)
        [] IsArr(b) /\ ~box(b) /\ a.tag = "char" -> allOf(b, a.c)
        [] IsArr(a) /\ ~box(a) /\ IsNum(b) ->
             Lifted(a.dims, [i \in DOMAIN a.data |-> Num2(sym, a.data[i], b)])
        [] IsArr(b) /\ ~box(b) /\ IsNum(a) ->
             Lifted(b.dims, [i \in DOMAIN b.data |-> Num2(sym, a, b.data[i])])
        [] IsArr(a) /\ IsArr(b) /\ ~box(a) /\ ~box(b) ->
             IF AllChars(b) THEN shifted([a EXCEPT !.data = SubSeq(@, 1, Least(Len(@), Len(b.data)))],
                                         [i \in DOMAIN b.data |-> b.data[i].c])
             ELSE IF Count(a.dims) # Count(b.dims) THEN Err
             ELSE Lifted(a.dims, cellwise(LogicalCells(a), LogicalCells(b)))
        [] OTHER -> Err

(* scalar1_impl.                                                           *)
RECURSIVE Num1(_, _)
Num1(sym, v) ==
  LET inner(x) == IF x.tag \in {"num", "array"} THEN Num1(sym, x) ELSE Err
      r == Num1(sym, Content(v))
  IN  CASE v = Null -> Null
        [] IsNum(v) -> Num(Mapped(sym, v.n))
        [] IsBox(v) -> IF Failed(r) THEN r ELSE BoxOf(r)
        [] IsArr(v) /\ ~IsBox(v) -> Lifted(v.dims, [i \in DOMAIN v.data |-> inner(v.data[i])])
        [] OTHER -> Err

(* Minimum and maximum: characters only with characters.                   *)
MinMax(sym, a, b) ==
  LET nilled == a = Nil \/ b = Nil
      other == IF a = Nil THEN b ELSE a
  IN  CASE a = Null /\ b = Null -> Err
        [] nilled -> IF a # b /\ other.tag \in {"num", "char", "array", "list"} THEN other ELSE Err
        [] ~nilled /\ (a.tag = "char" \/ b.tag = "char") ->
             IF a.tag = b.tag THEN Chr(Arith(sym, a.c, b.c)) ELSE Err
        [] OTHER -> Num2(sym, a, b)

(* Characters under + and -, before the numbers are tried.                 *)
Deltas(v) == IF IsNum(v) THEN <<v.n>>
             ELSE IF IsArr(v) /\ \A i \in DOMAIN v.data : IsNum(v.data[i])
             THEN [i \in DOMAIN v.data |-> v.data[i].n] ELSE <<>>
CharShift(chars, ds, add) ==
  LET d(i) == IF Len(ds) = 1 THEN ds[1] ELSE ds[i]
      out == [i \in DOMAIN chars |-> IF add THEN chars[i] + d(i) ELSE chars[i] - d(i)]
  IN  IF Len(ds) \notin {1, Len(chars)} \/ \E i \in DOMAIN out : out[i] < 0 THEN <<-1>> ELSE out
CharsOf(v) == IF IsStr(v) THEN v.chars ELSE <<v.c>>
Texty(v) == IsStr(v) \/ v.tag = "char"
CharOp(a, b, add) ==
  LET text == IF Texty(a) THEN a ELSE b
      shift == IF Texty(a) THEN b ELSE a
      shifted(out) == IF out = <<-1>> THEN Err ELSE IF text.tag = "char" THEN Chr(out[1]) ELSE Str(out)
      difference(s, t) ==
        IF a.tag = b.tag /\ Len(s) # Len(t) THEN Err
        ELSE NumVec([i \in 1 .. (IF IsStr(a) THEN Len(s) ELSE Len(t)) |->
                       s[IF IsStr(a) THEN i ELSE 1] - t[IF IsStr(b) THEN i ELSE 1]])
  IN  IF Texty(a) /\ Texty(b)
      THEN IF add THEN Err
           ELSE IF a.tag = "char" /\ b.tag = "char" THEN Num(a.c - b.c)
           ELSE difference(CharsOf(a), CharsOf(b))
      ELSE IF ~add /\ Texty(b) THEN Err
      ELSE shifted(CharShift(CharsOf(text), Deltas(shift), add))
(* The cases CharOp takes; the others are left to Num2.                    *)
CharOpTakes(a, b) ==
  \/ Texty(a) /\ Texty(b)
  \/ a.tag = "char" /\ IsNum(b)
  \/ IsNum(a) /\ b.tag = "char"
  \/ "str" \in {a.tag, b.tag} /\ Deltas(IF IsStr(a) THEN b ELSE a) # <<>>
Scalar2(sym, a, b) == IF sym \in {"+", "-"} /\ CharOpTakes(a, b) THEN CharOp(a, b, sym = "+")
                      ELSE Num2(sym, a, b)
Plus(a, b)  == Scalar2("+", a, b)
Minus(a, b) == Scalar2("-", a, b)

(* A vector against an array along one axis (from 0).                      *)
Num2Axis(sym, a, b, axis) ==
  LET rank(v) == IF IsArr(v) THEN Len(v.dims) ELSE 0
      left == rank(a) = 1
      vec == IF left THEN a ELSE b
      base == IF left THEN b ELSE a
      coord(i) == Coords(base.dims, i - 1)[axis + 1] + 1
      cell(i) == IF left THEN Arith(sym, vec.data[coord(i)].n, base.data[i].n)
                 ELSE Arith(sym, base.data[i].n, vec.data[coord(i)].n)
      numeric(s) == \A i \in DOMAIN s : IsNum(s[i])
  IN  CASE IsNum(a) /\ IsNum(b) -> Num(Arith(sym, a.n, b.n))
        [] rank(a) = 1 /\ rank(b) = 1 -> IF axis # 0 THEN Err ELSE Num2(sym, a, b)
        [] ~(IsNum(a) /\ IsNum(b)) /\ (rank(a) = 1) = (rank(b) = 1) /\ rank(a) # 1 -> Err
        [] OTHER ->
             IF ~IsArr(base) \/ axis >= Len(base.dims) THEN Err
             ELSE IF Count(vec.dims) # base.dims[axis + 1] \/ ~numeric(vec.data) THEN Err
             ELSE IF Len(base.data) < Count(base.dims) \/ ~numeric(base.data) THEN Err
             ELSE Arr(base.dims, [i \in 1 .. Count(base.dims) |-> Num(cell(i))])

-----------------------------------------------------------------------------
(* Comparison.  A cell compares equal, different, or (for the order        *)
(* relations, when it is no number or character) not at all.  The result   *)
(* of a comparison with an array is a vector, whatever the array's shape.  *)

Holds(sym, o) == CASE sym = "=" -> o = 0 [] sym = "ne" -> o # 0 [] sym = "<" -> o < 0
                   [] sym = ">" -> o > 0 [] sym = "le" -> o <= 0 [] sym = "ge" -> o >= 0
EqualitySyms == {"=", "ne"}
RECURSIVE DeepEqual(_, _)                                  \* values_equal_deep
DeepEqual(a, b) ==
  IF a.tag = b.tag /\ a.tag \in {"array", "list"}
  THEN /\ IF IsArr(a) THEN a.dims = b.dims ELSE Len(a.data) = Len(b.data)
       /\ \A i \in 1 .. Least(Len(a.data), Len(b.data)) : DeepEqual(a.data[i], b.data[i])
  ELSE a = b
CmpCells(sym, x, y) ==
  CASE IsNum(x) /\ IsNum(y) -> Bit(Holds(sym, Sign(x.n, y.n)))
    [] x.tag = "char" /\ y.tag = "char" -> Bit(Holds(sym, Sign(x.c, y.c)))
    [] x = Nil /\ y = Nil -> Bit(sym = "=")
    [] OTHER -> IF sym \notin EqualitySyms THEN Err
                ELSE IF {x.tag, y.tag} \cap {"array", "list"} # {} /\ Nil \notin {x, y}
                THEN Bit(DeepEqual(x, y) = (sym = "="))
                ELSE Bit(sym = "ne")
CmpScalars(sym, a, b) ==
  CASE a = Null \/ b = Null -> Null
    [] Null \notin {a, b} /\ Nil \in {a, b} ->
         IF sym \in EqualitySyms THEN Bit((a = b) = (sym = "=")) ELSE Err
    [] IsNum(a) /\ IsNum(b) -> Bit(Holds(sym, Sign(a.n, b.n)))
    [] OTHER -> IF sym \notin EqualitySyms THEN Err
                ELSE IF a.tag = b.tag /\ a.tag = "char" THEN Bit((a = b) = (sym = "="))
                ELSE IF {a.tag, b.tag} \cap {"num", "char"} # {} THEN Bit(sym = "ne")
                ELSE Err
CmpLists(sym, a, b) ==
  LET other == IF a.tag = "list" THEN b ELSE a
      n == Len((IF a.tag = "list" THEN a ELSE b).data)
      m == ElementCount(other)
  IN  IF Null \in {a, b} THEN Null
      ELSE IF sym \notin EqualitySyms THEN Err
      ELSE IF a.tag = b.tag THEN Bit(DeepEqual(a, b) = (sym = "="))
      ELSE IF ~(IsArr(other) \/ IsStr(other)) THEN Bit(sym = "ne")
      ELSE IF n # 1 /\ m # 1 /\ n # m THEN Err
      ELSE VecOf(ConstSeq(Most(n, m), Bit(sym = "ne")))
Compare(sym, a, b) ==
  LET many(v) == IsArr(v) \/ IsStr(v)
      count(v) == IF many(v) THEN ElementCount(v) ELSE 1
      cells(v) == IF many(v) THEN Elements(v) ELSE <<v>>
      n == Most(count(a), count(b))
      at(v, i) == cells(v)[IF count(v) = 1 THEN 1 ELSE i]
      short(v) == Len(cells(v)) < count(v)
      out == [i \in 1 .. n |-> CmpCells(sym, at(a, i), at(b, i))]
  IN  IF "list" \in {a.tag, b.tag} THEN CmpLists(sym, a, b)
      ELSE IF ~many(a) /\ ~many(b) THEN CmpScalars(sym, a, b)
      ELSE IF 0 \in {count(a), count(b)} THEN VecOf(<<>>)
      ELSE IF count(a) # 1 /\ count(b) # 1 /\ count(a) # count(b) THEN Err
      ELSE IF short(a) \/ short(b) THEN Trap
      ELSE Lifted(<<n>>, out)
CmpValues(a, b) == IF TotalCmp(a, b) = Unordered THEN Err ELSE Num(TotalCmp(a, b))
Match(a, b) == Bit(SameValue(a, b))

(* Monadic = numbers the classes of the major cells, monadic # marks the   *)
(* first of each; the mask of a matrix gets one dimension too many.        *)
MajorCells(v) ==
  LET rest == Count(Tail(Dims(v)))
  IN  IF RankOf(v) <= 1 THEN FlatElements(v)
      ELSE [i \in 1 .. Dims(v)[1] |-> VecOf([j \in 1 .. rest |-> ValueAt(v, (i - 1) * rest + j - 1)])]
Classify(v) ==
  LET s == MajorCells(v)
      firstOf(i) == Min({j \in DOMAIN s : SameValue(s[j], s[i])})
      new == {firstOf(i) : i \in DOMAIN s}
  IN  NumVec([i \in DOMAIN s |-> Cardinality({j \in new : j < firstOf(i)})])
UniqueMask(v) ==
  LET chunks == Chunks(Elements(v), Most(1, Count(Tail(Dims(v)))))
      keys == [i \in DOMAIN chunks |-> [j \in DOMAIN chunks[i] |-> KeyOf(chunks[i][j])]]
      s == FlatElements(v)
  IN  IF Len(Dims(v)) > 1
      THEN Arr(<<Dims(v)[1], Len(keys)>>,
               [i \in DOMAIN keys |-> Bit(\A j \in 1 .. (i - 1) : keys[j] # keys[i])])
      ELSE VecOf([i \in DOMAIN s |-> Bit(\A j \in 1 .. (i - 1) : ~SameValue(s[j], s[i]))])

(* Selection by case: each cell of a names the option its place takes.     *)
CaseSelect(a, b) ==
  LET sel == FlatElements(a)
      opts == b.data
      scalar(o) == Dims(o) = <<>>
      cell(i) == LET o == opts[sel[i].n + 1]
                 IN  IF scalar(o) THEN IF IsBox(o) /\ IsBox(Content(o)) THEN Content(Content(o))
                                       ELSE IF IsBox(o) THEN Content(o) ELSE o
                     ELSE IF i <= Len(Elements(o)) THEN Elements(o)[i] ELSE Err
  IN  IF ~IsArr(b) \/ Len(Dims(b)) # 1 THEN Err
      ELSE IF \E i \in DOMAIN opts : ~scalar(opts[i]) /\ Dims(opts[i]) # Dims(a) THEN Err
      ELSE IF \E i \in DOMAIN sel : ~IsNum(sel[i]) THEN Err
      ELSE IF \E i \in DOMAIN sel : sel[i].n \notin 0 .. (Len(opts) - 1) THEN Err
      ELSE Lifted(Dims(a), [i \in DOMAIN sel |-> cell(i)])

-----------------------------------------------------------------------------
(* The bitwise forms.  Negative integers are in two's complement: x is     *)
(* -(1 + not x).                                                           *)

NotBits(x) == -1 - x
RECURSIVE Power2(_)
Power2(n) == IF n = 0 THEN 1 ELSE 2 * Power2(n - 1)
AndBits(x, y) ==
  CASE x >= 0 /\ y >= 0 -> x & y
    [] x >= 0 /\ y < 0 -> x - (x & NotBits(y))
    [] x < 0 /\ y >= 0 -> y - (y & NotBits(x))
    [] OTHER -> NotBits(NotBits(x) | NotBits(y))
OrBits(x, y) == NotBits(AndBits(NotBits(x), NotBits(y)))
XorBits(x, y) == AndBits(OrBits(x, y), NotBits(AndBits(x, y)))
Shifted(x, n) == IF n >= 0 THEN x * Power2(n) ELSE x \div Power2(-n)
BitFn(sym, x, y) ==
  CASE sym \in {"*", "and"} -> AndBits(x, y)
    [] sym = "or" -> OrBits(x, y)
    [] sym \in {"+", "ne", "-"} -> XorBits(x, y)
    [] sym = "=" -> NotBits(XorBits(x, y))
    [] sym = "nand" -> NotBits(AndBits(x, y))
    [] sym = "nor" -> NotBits(OrBits(x, y))
    [] sym = "<" -> AndBits(NotBits(x), y)
    [] sym = ">" -> AndBits(x, NotBits(y))
    [] sym = "le" -> OrBits(NotBits(x), y)
    [] sym = "ge" -> OrBits(x, NotBits(y))
    [] sym = "rotate" -> Shifted(y, x)
Bitwise2(sym, a, b) ==
  LET bit(x, y) == IF IsNum(x) /\ IsNum(y) THEN Num(BitFn(sym, x.n, y.n)) ELSE Err
  IN  CASE IsArr(a) /\ IsArr(b) ->
             IF a.dims # b.dims THEN Err
             ELSE Lifted(a.dims, [i \in 1 .. Least(Len(a.data), Len(b.data)) |-> bit(a.data[i], b.data[i])])
        [] IsArr(a) /\ ~IsArr(b) -> bit(a, b)
        [] ~IsArr(a) /\ IsArr(b) -> Lifted(b.dims, [i \in DOMAIN b.data |-> bit(a, b.data[i])])
        [] OTHER -> bit(a, b)
RECURSIVE BitLength(_)
BitLength(n) == IF n = 0 THEN 0 ELSE 1 + BitLength(n \div 2)
RECURSIVE BitCount(_)
BitCount(n) == IF n = 0 THEN 0 ELSE (n % 2) + BitCount(n \div 2)
RECURSIVE Bitwise1(_, _)
Bitwise1(sym, v) ==
  LET u == IF v.n < 0 THEN NotBits(v.n) ELSE v.n
  IN  IF IsArr(v) THEN Lifted(v.dims, [i \in DOMAIN v.data |-> Bitwise1(sym, v.data[i])])
      ELSE IF ~IsNum(v) THEN Err
      ELSE CASE sym = "not" -> Num(NotBits(v.n))
             [] sym = "length" -> Num(BitLength(u))
             [] sym = "count" -> Num(BitCount(u))

-----------------------------------------------------------------------------
(* Labels of an axis (from 0): read, set, present.                         *)

SetLabels(titles, v, axis) ==
  LET d == Dims(v)
      r == Len(d)
      n == IF r = 0 THEN 1 ELSE d[axis + 1]
      before == IF v.labels = <<>> THEN ConstSeq(r, <<>>) ELSE v.labels
  IN  IF ~IsArr(v) \/ (r > 0 /\ axis >= r) THEN Err
      ELSE IF Len(titles) # n THEN Err
      ELSE [v EXCEPT !.labels = [k \in 1 .. Most(Len(before), axis + 1) |->
                                   IF k = axis + 1 THEN titles ELSE before[k]]]
GetLabels(v, axis) ==
  LET l == AxisLabels(LabelsOf(v), axis + 1)
      n == IF Dims(v) = <<>> THEN 1 ELSE Dims(v)[axis + 1]
  IN  IF l = <<>> THEN ConstSeq(n, 0) ELSE l
HasLabels(v, axis) == Bit(AxisLabels(LabelsOf(v), axis + 1) # <<>>)
=============================================================================
