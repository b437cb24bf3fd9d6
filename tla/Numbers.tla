------------------------------- MODULE Numbers -------------------------------
(***************************************************************************)
(* KapNumber of number.rs: machine integers, big integers, rationals,      *)
(* doubles and complex numbers, their promotion and their order.           *)
(*                                                                         *)
(* A number of kind k has the value (n + im i)/d in lowest terms.  Doubles *)
(* carry exact values: rounding is left out, except where the code         *)
(* compares with i64::MAX as f64, which is i64::MAX + 1.  A double with    *)
(* d = 0 is infinite (n = 1, -1) or not a number (n = 0).  Machine         *)
(* integers run from MinLong to MaxLong.                                   *)
(***************************************************************************)
EXTENDS Integers, Sequences, FiniteSets

CONSTANT MaxLong          \* i64::MAX
ASSUME MaxLongAssumption == MaxLong \in Nat \ {0, 1}
MinLong == -MaxLong - 1
MaxAsDouble == MaxLong + 1                      \* i64::MAX as f64
InLong(n) == n \in MinLong .. MaxLong

Magnitude(n) == IF n < 0 THEN -n ELSE n
gcd[p \in Nat \X Nat] == IF p[2] = 0 THEN p[1] ELSE gcd[<<p[2], p[1] % p[2]>>]
GcdOf(a, b) == gcd[<<Magnitude(a), Magnitude(b)>>]
Quot(a, b) ==                                   \* Rust's / : towards zero
  (IF (a < 0) = (b < 0) THEN 1 ELSE -1) * (Magnitude(a) \div Magnitude(b))
Rem(a, b) == a - b * Quot(a, b)
SignOf(n) == IF n > 0 THEN 1 ELSE IF n < 0 THEN -1 ELSE 0

(* The number of kind k and value (n + im i)/d.                            *)
Reduced(k, n, im, d) ==
  LET over(g) == [k |-> k, n |-> Quot(n, g), im |-> Quot(im, g), d |-> Quot(d, g)]
  IN  over((IF d < 0 THEN -1 ELSE 1) * gcd[<<GcdOf(n, im), Magnitude(d)>>])
Long(n)   == [k |-> "long", n |-> n, im |-> 0, d |-> 1]
Big(n)    == [k |-> "big", n |-> n, im |-> 0, d |-> 1]
Rat(n, d) == Reduced("rat", n, 0, d)
Dbl(n, d) == Reduced("dbl", n, 0, d)
Infinity  == [k |-> "dbl", n |-> 1, im |-> 0, d |-> 0]
NegInf    == [k |-> "dbl", n |-> -1, im |-> 0, d |-> 0]
NaN       == [k |-> "dbl", n |-> 0, im |-> 0, d |-> 0]
NotANumberJ == [k |-> "cplx", n |-> 0, im |-> 0, d |-> 0]
Trapped   == [k |-> "trap", n |-> 0, im |-> 0, d |-> 1]      \* a panic
NoNumber  == [k |-> "err", n |-> 0, im |-> 0, d |-> 1]       \* a reported error

IsIntegral(x) == x.k \in {"long", "big"}
IsReal(x)   == x.im = 0
IsComplex(x) == x.k = "cplx" /\ x.im # 0
Finite(x)   == x.d # 0
IsZero(x)   == x.n = 0 /\ x.im = 0 /\ x.d # 0
AsBoolean(x) == ~IsZero(x)
NotNum(x) == Long(IF IsZero(x) THEN 1 ELSE 0)
ComplexToKap(n, im, d) == Reduced(IF im = 0 THEN "dbl" ELSE "cplx", n, im, d)
(* An integer is a long when it fits, a rational with denominator 1 an     *)
(* integer.  Only some of the operations end with it.                      *)
BigintWrapped(n) == Long(((n - MinLong) % (2 * (MaxLong + 1))) + MinLong)
BigintToKap(n) == IF InLong(n) THEN Long(n) ELSE Big(n)
RationalToKap(n, d) ==
  LET whole(r) == IF r.d = 1 THEN BigintToKap(r.n) ELSE r IN whole(Rat(n, d))
Clamped(q) == IF q > MaxLong THEN MaxLong ELSE IF q < MinLong THEN MinLong ELSE q
AsDouble(x) == [k |-> "dbl", n |-> x.n, im |-> 0, d |-> x.d]
AsLong(x) == CASE x.k = "long" -> x
               [] x.k = "big" -> IF InLong(x.n) THEN Long(x.n) ELSE NoNumber
               [] x.k = "rat" -> IF ~InLong(x.n) \/ ~InLong(x.d) \/ x.d # 1 THEN NoNumber ELSE Long(x.n)
               [] x.k = "dbl" /\ ~Finite(x) -> Long(IF x.n = 0 THEN 0 ELSE IF x.n > 0 THEN MaxLong ELSE MinLong)
               [] x.k = "dbl" /\ Finite(x) -> Long(Clamped(Quot(x.n, x.d)))
               [] OTHER -> NoNumber

-----------------------------------------------------------------------------
(* Sum, difference and product.  Two longs that overflow become big; big   *)
(* integers are not brought back; a big integer with a rational, like      *)
(* every pair without a rule of its own, is added as two doubles.          *)

DblAdd(x, y) ==
  CASE Finite(x) /\ Finite(y) -> Dbl(x.n * y.d + y.n * x.d, x.d * y.d)
    [] Finite(x) /\ ~Finite(y) -> y
    [] ~Finite(x) /\ Finite(y) -> x
    [] OTHER -> IF x.n = y.n THEN x ELSE NaN
DblMul(x, y) ==
  IF Finite(x) /\ Finite(y) THEN Dbl(x.n * y.n, x.d * y.d)
  ELSE [NaN EXCEPT !.n = SignOf(x.n) * SignOf(y.n)]
DblNeg(x) == [x EXCEPT !.n = -@]
DblDiv(x, y) ==
  CASE ~Finite(y) -> IF Finite(x) /\ y.n # 0 THEN Dbl(0, 1) ELSE NaN
    [] Finite(y) /\ y.n # 0 -> IF Finite(x) THEN Dbl(x.n * y.d, x.d * y.n)
                               ELSE [x EXCEPT !.n = @ * SignOf(y.n)]
    [] OTHER -> [NaN EXCEPT !.n = SignOf(x.n)]

Ruled(x, y) ==          \* pairs of kinds with an arm of their own
  \/ {x.k, y.k} \subseteq {"long", "big"}
  \/ {x.k, y.k} \subseteq {"long", "rat"}
  \/ {x.k, y.k} \subseteq {"long", "dbl", "cplx"}
Combined(x, y, n, im, d, dbl) ==
  CASE x.k = "long" /\ y.k = "long" -> BigintToKap(n)
    [] "big" \in {x.k, y.k} /\ Ruled(x, y) -> Big(n)
    [] "rat" \in {x.k, y.k} /\ Ruled(x, y) -> RationalToKap(n, d)
    [] "cplx" \in {x.k, y.k} /\ Ruled(x, y) ->
         IF Finite(x) /\ Finite(y) THEN ComplexToKap(n, im, d) ELSE NotANumberJ
    [] OTHER -> dbl
Add(x, y) == Combined(x, y, x.n * y.d + y.n * x.d, x.im * y.d + y.im * x.d, x.d * y.d,
                      DblAdd(AsDouble(x), AsDouble(y)))
Sub(x, y) == Combined(x, y, x.n * y.d - y.n * x.d, x.im * y.d - y.im * x.d, x.d * y.d,
                      DblAdd(AsDouble(x), DblNeg(AsDouble(y))))
Mul(x, y) == Combined(x, y, x.n * y.n - x.im * y.im, x.im * y.n + x.n * y.im, x.d * y.d,
                      DblMul(AsDouble(x), AsDouble(y)))

(* Division by an exact zero is 0.                                         *)
Div(x, y) ==
  LET den == y.n * y.n + y.im * y.im
  IN  CASE x.k = "long" /\ y.k = "long" ->
             IF y.n = 0 THEN Long(0) ELSE IF x.n = MinLong /\ y.n = -1 THEN Big(MaxLong + 1)
             ELSE IF Rem(x.n, y.n) = 0 THEN Long(Quot(x.n, y.n)) ELSE Rat(x.n, y.n)
        [] "cplx" \in {x.k, y.k} ->
             IF IsZero(x) /\ IsZero(y) THEN Dbl(0, 1)
             ELSE IF den = 0 \/ ~Finite(x) \/ ~Finite(y) THEN NotANumberJ
             ELSE ComplexToKap((x.n * y.n + x.im * y.im) * y.d, (x.im * y.n - x.n * y.im) * y.d, x.d * den)
        [] "dbl" \in {x.k, y.k} /\ "cplx" \notin {x.k, y.k} ->
             IF IsZero(x) /\ IsZero(y) THEN Dbl(0, 1) ELSE DblDiv(AsDouble(x), AsDouble(y))
        [] "rat" \in {x.k, y.k} /\ {x.k, y.k} \subseteq {"long", "big", "rat"} ->
             IF y.n = 0 THEN Long(0) ELSE RationalToKap(x.n * y.d, x.d * y.n)
        [] OTHER -> IF y.n = 0 THEN Long(0)
                    ELSE IF Rem(x.n, y.n) = 0 THEN Big(Quot(x.n, y.n)) ELSE Rat(x.n, y.n)
Recip(x) == Div(Long(1), x)

Neg(x) == CASE x.k = "long" -> BigintToKap(-x.n)
            [] x.k = "rat" -> RationalToKap(-x.n, x.d)
            [] x.k = "cplx" -> IF Finite(x) THEN ComplexToKap(-x.n, -x.im, x.d) ELSE x
            [] OTHER -> [x EXCEPT !.n = -@]
AbsVal(x) ==                                      \* of a real number
  CASE x.n < 0 -> Neg(x)
    [] x.n >= 0 -> IF x.k = "rat" THEN RationalToKap(x.n, x.d) ELSE x
Signum(x) == Long(SignOf(x.n))                  \* of a real number

(* Remainder: only long by long and long by big are exact; the least long  *)
(* modulo -1 overflows.                                                    *)
Modulo(x, y) ==
  LET adjust(r, opposite) == IF opposite /\ r # 0 THEN x.n + r ELSE r
      exact(a, b, r) == IF (a.n < 0) # (b.n < 0) /\ r # 0 THEN Dbl(a.n * b.d + r, a.d * b.d)
                        ELSE Dbl(r, a.d * b.d)
      inDoubles(a, b) == IF IsZero(a) THEN y
                         ELSE IF a = NaN \/ ~Finite(b) THEN NaN
                         ELSE IF ~Finite(a) THEN IF (a.n < 0) # (b.n < 0) /\ b.n # 0 THEN a ELSE b
                         ELSE exact(a, b, Rem(b.n * a.d, a.n * b.d))
  IN  CASE x.k = "long" /\ y.k = "long" ->
             IF x.n = 0 THEN y
             ELSE IF x.n = -1 /\ y.n = MinLong THEN Trapped
             ELSE Long(adjust(Rem(y.n, x.n), (x.n < 0) # (y.n < 0)))
        [] x.k = "long" /\ y.k = "big" ->
             IF x.n = 0 THEN y
             ELSE Big(adjust(Rem(y.n, x.n), (x.n < 0) # (Rem(y.n, x.n) < 0)))
        [] OTHER -> inDoubles(AsDouble(x), AsDouble(y))

(* Powers with an integer exponent.  A negative power of an integer is a   *)
(* rational whatever its denominator.                                      *)
power[p \in Int \X Nat] == IF p[2] = 0 THEN 1 ELSE p[1] * power[<<p[1], p[2] - 1>>]
Pow(x, e) ==
  LET m == Magnitude(e.n)
  IN  CASE e.k = "long" /\ x.k \in {"long", "big"} /\ e.n >= 0 -> BigintToKap(power[<<x.n, m>>])
        [] e.k = "long" /\ x.k \in {"long", "big"} /\ e.n < 0 ->
             IF power[<<x.n, m>>] = 0 THEN Trapped
             ELSE IF x.k = "long" THEN Rat(1, power[<<x.n, m>>])
             ELSE RationalToKap(1, power[<<x.n, m>>])
        [] e.k = "long" /\ x.k = "rat" /\ e.n >= 0 ->
             RationalToKap(power[<<x.n, m>>], power[<<x.d, m>>])
        [] OTHER -> NoNumber                    \* f64::powf

FloorDiv(n, d) == n \div d
(* A double becomes a long up to i64::MAX as f64, which saturates.         *)
WholeDouble(q) == IF Magnitude(q) <= MaxAsDouble
                  THEN Long(IF q > MaxLong THEN MaxLong ELSE q) ELSE Dbl(q, 1)
Floor(x) == CASE IsIntegral(x) -> x
              [] x.k = "rat" -> BigintToKap(FloorDiv(x.n, x.d))
              [] x.k = "dbl" -> IF Finite(x) THEN WholeDouble(FloorDiv(x.n, x.d))
                                ELSE IF x.n = 0 THEN Long(0) ELSE NoNumber
              [] OTHER -> NoNumber
Ceil(x) == CASE IsIntegral(x) -> x
             [] x.k = "rat" -> BigintToKap(-FloorDiv(-x.n, x.d))
             [] x.k = "dbl" -> IF Finite(x) THEN WholeDouble(-FloorDiv(-x.n, x.d))
                               ELSE IF x.n = 0 THEN Long(0) ELSE NoNumber
             [] OTHER -> NoNumber
(* math:round, ties to even.                                               *)
Round(x) ==
  LET up(q, r) == r > x.d \/ (r = x.d /\ q % 2 # 0)
      nearest(q) == IF up(q, 2 * (x.n - q * x.d)) THEN q + 1 ELSE q
      of(near) == IF x.k = "rat" THEN BigintToKap(near)
                  ELSE IF near >= MinLong /\ near <= MaxAsDouble
                  THEN Long(IF near > MaxLong THEN MaxLong ELSE near) ELSE Dbl(near, 1)
  IN  IF x.k = "long" THEN x
      ELSE IF ~Finite(x) THEN IF x.n = 0 THEN NaN ELSE x
      ELSE of(nearest(FloorDiv(x.n, x.d)))
Gcd(x, y) ==
  LET long(v, z) == IF v # NoNumber THEN v.n ELSE Clamped(Quot(z.n, z.d))
      of(a, b, g) == IF g = MaxLong + 1 THEN IF 0 \in {a, b} THEN Trapped ELSE Long(MinLong) ELSE Long(g)
      from(a, b) == of(a, b, GcdOf(a, b))
  IN  from(long(AsLong(x), x), long(AsLong(y), y))
Lcm(x, y) ==
  LET positive(q) == IF q.k # "long" THEN q ELSE IF q.n = MinLong THEN Trapped ELSE Long(Magnitude(q.n))
      by(g) == IF g = Trapped THEN g ELSE positive(Div(Mul(x, y), g))
  IN  IF x = Long(0) /\ y = Long(0) THEN Long(0) ELSE by(Gcd(x, y))
(* Conversions of representation: int:asBigint, int:asRational, numerator. *)
AsBigint(x) == IF IsIntegral(x) THEN Big(x.n) ELSE NoNumber
AsRational(x) == IF IsIntegral(x) \/ x.k = "rat" THEN Rat(x.n, x.d) ELSE NoNumber
Numerator(x) ==
  CASE x.k = "rat" -> Big(x.n)
    [] x.k = "dbl" -> IF Finite(x) /\ x.d = 1 /\ x.n >= MinLong /\ x.n <= MaxAsDouble
                      THEN Long(IF x.n > MaxLong THEN MaxLong ELSE x.n) ELSE NoNumber
    [] OTHER -> AsLong(x)
Denominator(x) == IF x.k = "rat" THEN Big(x.d) ELSE Long(1)

-----------------------------------------------------------------------------
(* Order.  numeric_cmp compares values; with type discrimination, the one  *)
(* of number_ordering, a double comes before what it equals.  A double     *)
(* that is whole and not above i64::MAX as f64 is compared as a long.      *)

ValueSign(x, y) == IF Finite(x) /\ Finite(y) THEN SignOf(x.n * y.d - y.n * x.d)
                   ELSE IF Finite(x) THEN -SignOf(y.n) ELSE IF Finite(y) THEN SignOf(x.n)
                   ELSE SignOf(x.n - y.n)
CmpDoubleExact(x, y, td) ==                     \* x a double, y exact
  LET a == IF x.d = 1 /\ y.d = 1 /\ y.k # "rat" /\ x.n = MaxAsDouble THEN [x EXCEPT !.n = MaxLong] ELSE x
      r == ValueSign(a, y)
  IN  IF ~Finite(x) THEN IF x.n > 0 THEN 1 ELSE -1
      ELSE IF td /\ r = 0 THEN -1 ELSE r
NumericCmpUnflipped(x, y, td) ==                \* a double on the right compared as on the left
  IF x.k = "dbl" /\ y.k = "dbl" THEN ValueSign(x, y)
  ELSE IF x.k = "dbl" THEN CmpDoubleExact(x, y, td)
  ELSE IF y.k = "dbl" THEN CmpDoubleExact(y, x, td) ELSE ValueSign(x, y)
NumericCmp(x0, y0, td) ==                       \* of numbers that are not complex
  LET real(x) == IF x.k = "cplx" THEN [x EXCEPT !.k = "dbl"] ELSE x
      cmp(x, y) == CASE x.k = "dbl" /\ y.k # "dbl" -> CmpDoubleExact(x, y, td)
                     [] x.k # "dbl" /\ y.k = "dbl" -> -CmpDoubleExact(y, x, td)
                     [] (x.k = "dbl") = (y.k = "dbl") ->
                          IF NaN \in {x, y} /\ ~td THEN 0 ELSE ValueSign(x, y)
  IN  cmp(real(x0), real(y0))
TypePosition(x) == CASE x.k = "long" -> 0 [] x.k = "big" -> 1 [] x.k = "rat" -> 2
                     [] x.k = "dbl" -> 3 [] x.k = "cplx" -> 4
CompareValid(x) == x.im = 0 /\ x # NaN
CmpDoublesNan(n, d, m, e) == IF d = 0 /\ n = 0 THEN IF e = 0 /\ m = 0 THEN 0 ELSE 1
                             ELSE IF e = 0 /\ m = 0 THEN -1
                             ELSE ValueSign(Dbl(n, d), Dbl(m, e))
NumberOrdering(x, y) ==
  LET realPart == CmpDoublesNan(x.n, x.d, y.n, y.d)
      first(im) == IF im # 0 THEN im ELSE realPart
  IN  CASE CompareValid(x) /\ CompareValid(y) -> NumericCmp(x, y, TRUE)
        [] ~(CompareValid(x) /\ CompareValid(y)) /\ {x.k, y.k} = {"cplx"} ->
             first(CmpDoublesNan(x.im, x.d, y.im, y.d))
        [] ~(CompareValid(x) /\ CompareValid(y)) /\ {x.k, y.k} = {"dbl"} -> realPart
        [] OTHER -> SignOf(TypePosition(x) - TypePosition(y))
(* Equality of representation: what a map key and match compare.           *)
TypeEqual(x, y) == x = y

-----------------------------------------------------------------------------
(* Number theory: prime factors by trial division, divisors by pairs up to *)
(* the square root, the sieve, factorials and binomials.                   *)

Divides(d, n) == n % d = 0
(* Small divisors first, then the Miller-Rabin test with the given bases.  *)
SmallPrimes == {2, 3, 5, 7, 11, 13, 17, 19, 23, 29, 31, 37}
powmod[p \in Nat \X Nat \X Nat] ==               \* <<base, exponent, modulus>>
  IF p[2] = 0 THEN 1 % p[3]
  ELSE LET h == powmod[<<p[1], p[2] \div 2, p[3]>>]
           sq == (h * h) % p[3]
       IN  IF p[2] % 2 = 0 THEN sq ELSE (sq * (p[1] % p[3])) % p[3]
twos[n \in Nat] == IF n % 2 = 1 THEN 0 ELSE 1 + twos[n \div 2]
PassesFirst(n, a) ==                             \* without the square roots of 1
  powmod[<<a, (n - 1) \div power[<<2, twos[n - 1]>>], n>>] = 1
PassesBase(n, a) ==
  LET r == twos[n - 1]
      d == (n - 1) \div power[<<2, r>>]
  IN  \/ powmod[<<a, d, n>>] = 1
      \/ \E j \in 0 .. (r - 1) : powmod[<<a, d * power[<<2, j>>], n>>] = n - 1
IsPrime(n, bases) ==
  /\ n >= 2
  /\ \/ n \in SmallPrimes
     \/ /\ \A p \in SmallPrimes : ~Divides(p, n)
        /\ \A a \in bases : a % n = 0 \/ PassesBase(n, a)
LongBases == {2, 325, 9375, 28178, 450775, 9780504, 1795265022}       \* is_prime_u64
LeastOf(S) == CHOOSE x \in S : \A y \in S : x <= y
factors[p \in Nat \X (Nat \ {0, 1})] ==           \* <<remaining, next trial divisor>>
  LET rem == p[1]
      trial == {d \in p[2] .. rem : d * d <= rem /\ Divides(d, rem)}
      d == LeastOf(trial)
  IN  IF trial # {} THEN <<d>> \o factors[<<rem \div d, d>>]
      ELSE IF rem > 1 THEN <<rem>> ELSE <<>>
Factor(x) == IF ~(IsIntegral(x) \/ (x.k = "rat" /\ x.d = 1)) \/ x.n < 0 THEN <<-1>>
             ELSE IF x.n = 0 THEN <<>> ELSE IF x.n <= 3 THEN <<x.n>> ELSE factors[<<x.n, 2>>]
DivisorsBelowRoot(n) ==                          \* the root itself is not tried
  LET small == {d \in 2 .. n : d * d < n /\ Divides(d, n)}
  IN  (small \cup {n \div d : d \in small}) \ {1, n}
Divisors(n) ==          \* the proper ones; an odd number is tried with odd divisors only
  LET step == IF n % 2 = 0 THEN 1 ELSE 2
      start == IF n % 2 = 0 THEN 2 ELSE 3
      small == {d \in start .. n : d * d <= n /\ Divides(d, n) /\ (d - start) % step = 0}
  IN  (small \cup {n \div d : d \in small}) \ {1, n}
Primes(n) == {p \in 2 .. n : \A d \in 2 .. n : (d * d <= n /\ d < p) => ~Divides(d, p)}
factorial[n \in Nat] == IF n = 0 THEN 1 ELSE n * factorial[n - 1]
GammaOf(x) == CASE x.d = 1 /\ x.n >= 0 -> BigintToKap(factorial[x.n])
                [] x.d = 1 /\ x.n = -1 -> Infinity
                [] x.d = 1 /\ x.n < -1 -> NaN
                [] OTHER -> NoNumber            \* lgamma
BinomialUpTo(limit, n, k) ==    \* long_binomial: limit is i32::MAX, and saturates
  LET m == IF k > n \div 2 THEN n - k ELSE k
      row[i \in 0 .. m] == IF i = 0 THEN 1
                           ELSE LET r == row[i - 1] IN
                                IF r >= limit THEN limit
                                ELSE LET v == (r * (n - i + 1)) \div i IN IF v > limit THEN limit ELSE v
  IN  IF k < 0 \/ k > n THEN 0 ELSE row[m]
=============================================================================
