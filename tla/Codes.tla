-------------------------------- MODULE Codes --------------------------------
(***************************************************************************)
(* Encode and decode: the digits of numbers in one radix, in a vector of   *)
(* radices (each element its own digits), in the columns of a matrix of    *)
(* radices, and back.  Radix 0 counts as 1.                                *)
(***************************************************************************)
EXTENDS Arrays

Hang == [tag |-> "hang"]                \* a loop without an end
NonZero(r) == IF r = 0 THEN 1 ELSE r
(* Division towards zero and its remainder, and the Euclidean pair.        *)
TruncDiv(v, r) == LET q == AbsOf(v) \div AbsOf(r) IN IF (v < 0) = (r < 0) THEN q ELSE -q
TruncRem(v, r) == v - r * TruncDiv(v, r)
EuclidRem(v, r) == v % AbsOf(r)
EuclidDiv(v, r) == (v - EuclidRem(v, r)) \div r
(* divmod of encode_bigint: the remainder takes the sign of the radix.     *)
BigRem(v, r) == LET m == TruncRem(v, r) IN
                IF (r > 0 /\ m < 0) \/ (r < 0 /\ m > 0) THEN m + r ELSE m
BigDiv(v, r) == LET m == TruncRem(v, r) IN
                IF (r > 0 /\ m < 0) \/ (r < 0 /\ m > 0) THEN TruncDiv(v, r) - 1 ELSE TruncDiv(v, r)
QuotientBy(how, v, r) == CASE how = "truncated" -> TruncDiv(v, r)
                            [] how = "euclidean" -> EuclidDiv(v, r)
                            [] how = "signed" -> BigDiv(v, r)
RemainderBy(how, v, r) == CASE how = "truncated" -> TruncRem(v, r)
                             [] how = "euclidean" -> EuclidRem(v, r)
                             [] how = "signed" -> BigRem(v, r)

(* The digits of v in radices, least significant radix last.               *)
Digits(v, radices, how) ==
  LET n == Len(radices)
      rest == FoldLeft(LAMBDA acc, i : Append(acc, QuotientBy(how, Last(acc), NonZero(radices[n - i + 1]))),
                       <<v>>, [i \in 1 .. n |-> i])
  IN  [i \in 1 .. n |-> RemainderBy(how, rest[n - i + 1], NonZero(radices[i]))]
RECURSIVE DigitCount(_, _)
DigitCount(v, r) == IF v <= 0 THEN 0 ELSE 1 + DigitCount(TruncDiv(v, r), r)

NumbersOf(s) == [i \in DOMAIN s |-> s[i].n]
AllNumeric(s) == \A i \in DOMAIN s : IsNum(s[i])
(* One row per digit, the columns are the numbers of b.                    *)
DigitRows(n, cols, d) ==
  Arr(<<n>> \o d, [p \in 1 .. (n * Len(cols)) |->
                     Num(cols[((p - 1) % Len(cols)) + 1][((p - 1) \div Len(cols)) + 1])])
EncodeWith(a, b, how) ==
  LET s == NumbersOf(Elements(b))
      radix == NonZero(a.n)
      largest == IF s = <<>> THEN 0 ELSE Max({AbsOf(s[i]) : i \in DOMAIN s})
      n == Most(1, DigitCount(largest, radix))
      radices == NumbersOf(SelectSeq(Elements(a), IsNum))
      digits(rs) == [i \in DOMAIN s |-> Digits(s[i], rs, how)]
  IN  IF ~AllNumeric(Elements(b)) THEN Err
      ELSE IF RankOf(a) = 0
      THEN IF ~IsNum(a) \/ \E i \in DOMAIN s : s[i] < 0 THEN Err
           ELSE IF radix = 1 /\ largest > 0 THEN Hang
           ELSE DigitRows(n, digits(ConstSeq(n, radix)), Dims(b))
      ELSE DigitRows(Len(radices), digits(radices), Dims(b))
(* A matrix of radices: column j for number j, with remainders of the sign *)
(* of the number, the first radix taken first.                             *)
EncodeMatrix(a, b) ==
  LET rows == a.dims[1]
      cols == a.dims[2]
      s == NumbersOf(Elements(b))
      n == Least(cols, Len(s))
      radices(j) == NumbersOf(SelectSeq([r \in 1 .. rows |-> a.data[(r - 1) * cols + j]], IsNum))
      column(j) == Digits(s[j], Reverse(radices(j)), "truncated")
      height == IF n = 0 THEN 0 ELSE Len(radices(1))
  IN  IF ~AllNumeric(Elements(b)) THEN Err
      ELSE IF Len(a.data) < rows * cols THEN Trap
      ELSE Arr(<<height, cols>>, [p \in 1 .. (height * n) |->
             Num(column(((p - 1) % n) + 1)[((p - 1) \div n) + 1])])
Encode(a, b) == IF RankOf(a) > 2 THEN Err
                ELSE IF RankOf(a) = 2 THEN EncodeMatrix(a, b)
                ELSE EncodeWith(a, b, "euclidean")
EncodeBigint(a, b) == EncodeWith(a, b, "signed")

(* Decode along the first axis of b.  A scalar b stands for as many digits *)
(* as there are radices.                                                   *)
Weights(a, n) ==
  LET base(j) == NonZero(IF IsNum(a) THEN a.n ELSE Elements(a)[((j - 1) % Len(Elements(a))) + 1].n)
  IN  [j \in 1 .. n |-> FoldLeft(LAMBDA acc, k : acc * base(k), 1, [k \in 1 .. (n - j) |-> j + k])]
Decode(a, b0) ==
  LET b == IF b0 = Null THEN VecOf(<<>>) ELSE b0
      d == Dims(b)
      radices == NumbersOf(SelectSeq(Elements(a), IsNum))
      w == Weights(a, d[1])
      inner == Count(Tail(d))
      cell(p, j) == ValueAt(b, (j - 1) * inner + p)
      total(p) == FoldLeft(LAMBDA acc, j : acc + cell(p, j).n * w[j], 0, [j \in 1 .. d[1] |-> j])
      bad == \E p \in 0 .. (inner - 1), j \in 1 .. d[1] : ~IsNum(cell(p, j))
  IN  IF RankOf(a) > 1 THEN Err
      ELSE IF d = <<>>
      THEN IF ~IsNum(b) THEN Err
           ELSE LET ones == Weights(NumVec(radices), Len(radices)) IN
                Num(b.n * FoldLeft(LAMBDA acc, x : acc + x, 0, ones))
      ELSE IF RankOf(a) = 1 /\ Len(Elements(a)) # d[1] THEN Err
      ELSE IF d[1] > 0 /\ ~(IsNum(a) \/ (IsArr(a) /\ AllNumeric(a.data))) THEN Err
      ELSE IF bad THEN Err
      ELSE IF Len(d) = 1 THEN Num(total(0))
      ELSE Arr(Tail(d), [p \in 1 .. inner |-> Num(total(p - 1))])
=============================================================================
