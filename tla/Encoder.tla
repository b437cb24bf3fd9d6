------------------------------- MODULE Encoder -------------------------------
(***************************************************************************)
(* The binary encoder of encoder.rs: a value as a sequence of bytes and    *)
(* back.  Integers are written in one byte from -4 to 3, as a signed byte  *)
(* from -128 to 127, and else in groups of 7 bits; arrays as their         *)
(* dimensions and their storage children.  The header and the doubles are  *)
(* left out; a rational is [tag |-> "rat"], a symbol has byte sequences    *)
(* for its namespace and name, <<>> for none.                              *)
(***************************************************************************)
EXTENDS Arrays

Rational(n, d) == [tag |-> "rat", n |-> n, d |-> d]
Symbol(ns, name) == [tag |-> "symbol", ns |-> ns, name |-> name]
DefaultNs == <<1>>                      \* the bytes of "default"

TInt8 == 0
TDynInt == 16
TRational == 48
TChar8 == 56
TChar32 == 64
TNil == 72
TEnclosed == 80
TCompressed == 88
TList == 104
TSymbol == 112
ArrayMask == 128
LabelsFlag == 64
LengthRange == 63
Bit6(n) == (n % 128) >= 64

RECURSIVE Groups(_)                     \* base 128, most significant first
Groups(n) == IF n < 128 THEN <<n>> ELSE Append(Groups(n \div 128), n % 128)
(* The first byte has room for 6 bits and the complement flag: a number    *)
(* whose top group needs a seventh gets an empty byte before it.           *)
DynIntTight(v) ==        \* without the empty byte
  LET g == Groups(IF v < 0 THEN -1 - v ELSE v)
  IN  [i \in DOMAIN g |-> g[i] + (IF i < Len(g) THEN 128 ELSE 0) + (IF i = 1 /\ v < 0 THEN 64 ELSE 0)]
DynInt(v) ==
  LET u == IF v < 0 THEN -1 - v ELSE v
      g == Groups(u)
      lead == v # 0 /\ Bit6(g[1])
      byte(i) == g[i] + (IF i < Len(g) THEN 128 ELSE 0) + (IF i = 1 /\ ~lead /\ v < 0 THEN 64 ELSE 0)
  IN  (IF lead THEN <<IF v < 0 THEN 192 ELSE 128>> ELSE <<>>) \o [i \in DOMAIN g |-> byte(i)]
LongBytes(v) == IF v \in -4 .. 3 THEN <<TCompressed + (v % 8)>>
                ELSE IF v \in -128 .. 127 THEN <<TInt8, v % 256>>
                ELSE <<TDynInt>> \o DynInt(v)
CharBytes(c) == IF c <= 255 THEN <<TChar8, c>>
                ELSE <<TChar32>> \o [i \in 1 .. 4 |-> (c \div (CASE i = 1 -> 16777216 [] i = 2 -> 65536
                                                             [] i = 3 -> 256 [] i = 4 -> 1)) % 256]
RationalBytes(n, d) == IF d = 1 THEN LongBytes(n) ELSE <<TRational>> \o LongBytes(n) \o LongBytes(d)
StringBytes(s) == DynInt(Len(s)) \o s

Encodable(v) == v.tag \notin {"nil", "list", "map"}
RECURSIVE Bytes(_)
Bytes(v) ==
  LET rank == Len(v.dims)
      header == IF rank >= LengthRange THEN <<ArrayMask + LengthRange>> \o DynInt(rank) ELSE <<ArrayMask + rank>>
      dims == FlattenSeq([i \in DOMAIN v.dims |-> DynInt(v.dims[i])])
      ns == IF v.ns = <<>> THEN DefaultNs ELSE v.ns
  IN  CASE IsNum(v) -> LongBytes(v.n)
        [] v.tag = "rat" -> RationalBytes(v.n, v.d)
        [] v.tag = "char" -> CharBytes(v.c)
        [] IsStr(v) -> <<ArrayMask + 1>> \o DynInt(Len(v.chars))
                         \o FlattenSeq([i \in DOMAIN v.chars |-> CharBytes(v.chars[i])])
        [] v = Null -> <<TNil>>
        [] v.tag = "symbol" -> <<TSymbol>> \o StringBytes(ns) \o StringBytes(v.name)
        [] IsArr(v) -> header \o dims \o FlattenSeq([i \in DOMAIN v.data |-> Bytes(v.data[i])])
RECURSIVE AllEncodable(_)
AllEncodable(v) == Encodable(v) /\ (IsArr(v) => \A i \in DOMAIN v.data : AllEncodable(v.data[i]))
EncodeValue(v) == IF AllEncodable(v) THEN Bytes(v) ELSE <<-1>>       \* -1: refused

-----------------------------------------------------------------------------
(* Reading.  A result is the value read and the position after it; reading *)
(* past the end, or an unknown type, is an error.                          *)

Got(v, pos) == [v |-> v, pos |-> pos]
NotRead == [v |-> Err, pos |-> 0]
HasByte(b, pos) == pos <= Len(b)
RECURSIVE MoreGroups(_, _, _)
MoreGroups(b, pos, acc) ==
  IF ~HasByte(b, pos) THEN NotRead
  ELSE LET n == acc * 128 + (b[pos] % 128)
       IN  IF b[pos] >= 128 THEN MoreGroups(b, pos + 1, n) ELSE Got(Num(n), pos + 1)
ReadDynInt(b, pos) ==
  LET first == b[pos]
      r == IF first >= 128 THEN MoreGroups(b, pos + 1, first % 64) ELSE Got(Num(first % 64), pos + 1)
  IN  IF ~HasByte(b, pos) THEN NotRead
      ELSE IF Failed(r.v) THEN r
      ELSE IF Bit6(first) THEN Got(Num(-1 - r.v.n), r.pos) ELSE r
ReadTake(b, pos, n) == IF pos + n - 1 > Len(b) THEN <<-1>> ELSE SubSeq(b, pos, pos + n - 1)

ReadNumber(b, pos) ==                    \* the integers, after their type byte
  LET t == b[pos - 1]
      low == t % 8
  IN  IF t - low = TCompressed THEN Got(Num(IF low >= 4 THEN low - 8 ELSE low), pos)
      ELSE IF t - low = TInt8 THEN IF HasByte(b, pos) THEN Got(Num(b[pos]), pos + 1) ELSE NotRead
      ELSE ReadDynInt(b, pos)
ReadSymbol(b, pos) ==
  LET n == ReadDynInt(b, pos)
      ns == ReadTake(b, n.pos, n.v.n)
      m == ReadDynInt(b, n.pos + n.v.n)
      name == ReadTake(b, m.pos, m.v.n)
  IN  IF Failed(n.v) THEN n
      ELSE IF ns = <<-1>> THEN NotRead
      ELSE IF Failed(m.v) \/ name = <<-1>> THEN NotRead
      ELSE Got(Symbol(IF ns = DefaultNs THEN <<>> ELSE ns, name), m.pos + m.v.n)
RECURSIVE ReadDims(_, _, _, _)
ReadDims(b, pos, n, acc) ==
  LET r == ReadDynInt(b, pos)
  IN  IF n = 0 THEN [dims |-> acc, pos |-> pos]
      ELSE IF Failed(r.v) \/ r.v.n < 0 THEN [dims |-> <<-1>>, pos |-> 0]
      ELSE ReadDims(b, r.pos, n - 1, Append(acc, r.v.n))
RECURSIVE ReadValue(_, _), ReadMany(_, _, _, _)
ReadMany(b, pos, n, acc) ==
  LET r == ReadValue(b, pos)
  IN  IF n = 0 THEN [s |-> acc, pos |-> pos]
      ELSE IF Failed(r.v) THEN [s |-> <<Err>>, pos |-> 0]
      ELSE ReadMany(b, r.pos, n - 1, Append(acc, r.v))
Gather(d, m) == IF <<Err>> = m.s THEN NotRead ELSE Got(Arr(d, m.s), m.pos)
ReadArray(b, pos) ==
  LET t == b[pos - 1]
      long == t % 64 = LengthRange
      r == ReadDynInt(b, pos)
      d == ReadDims(b, IF long THEN r.pos ELSE pos, IF long THEN r.v.n ELSE t % 64, <<>>)
  IN  IF long /\ Failed(r.v) THEN NotRead
      ELSE IF d.dims = <<-1>> \/ Bit6(t) THEN NotRead
      ELSE Gather(d.dims, ReadMany(b, d.pos, Count(d.dims), <<>>))
ReadValue(b, pos) ==
  LET t == b[pos]
      kind == t - (t % 8)
      n == ReadDynInt(b, pos + 1)
      num == ReadValue(b, pos + 1)
      den == ReadValue(b, num.pos)
      inner == ReadValue(b, pos + 1)
      four == ReadTake(b, pos + 1, 4)
  IN  CASE ~HasByte(b, pos) -> NotRead
        [] HasByte(b, pos) /\ t >= ArrayMask -> ReadArray(b, pos + 1)
        [] HasByte(b, pos) /\ kind \in {TCompressed, TInt8, TDynInt} -> ReadNumber(b, pos + 1)
        [] HasByte(b, pos) /\ kind = TRational ->
             IF Failed(num.v) \/ ~IsNum(num.v) \/ ~IsNum(den.v) THEN NotRead
             ELSE Got(Rational(num.v.n, den.v.n), den.pos)
        [] HasByte(b, pos) /\ kind = TChar8 ->
             IF HasByte(b, pos + 1) THEN Got(Chr(b[pos + 1]), pos + 2) ELSE NotRead
        [] HasByte(b, pos) /\ kind = TChar32 ->
             IF four = <<-1>> THEN NotRead
             ELSE Got(Chr(four[1] * 16777216 + four[2] * 65536 + four[3] * 256 + four[4]), pos + 5)
        [] HasByte(b, pos) /\ kind = TNil -> Got(Null, pos + 1)
        [] HasByte(b, pos) /\ kind = TEnclosed ->
             IF Failed(inner.v) THEN inner ELSE Got(BoxOf(inner.v), inner.pos)
        [] HasByte(b, pos) /\ kind = TList ->
             IF Failed(n.v) \/ n.v.n < 0 THEN NotRead
             ELSE Gather(<<n.v.n>>, ReadMany(b, n.pos, n.v.n, <<>>))
        [] HasByte(b, pos) /\ kind = TSymbol -> ReadSymbol(b, pos + 1)
        [] OTHER -> NotRead
DecodeValue(b) == ReadValue(b, 1).v
=============================================================================
