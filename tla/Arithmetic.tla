----------------------------- MODULE Arithmetic -----------------------------
(***************************************************************************)
(* A calculation: one operation of number.rs after the other on the last   *)
(* result, from literals around the limits of the machine integer.  What   *)
(* an operation leaves, a big integer that would fit a machine integer or  *)
(* a rational beside one, is what the next one meets.                      *)
(***************************************************************************)
EXTENDS Numbers

CONSTANTS MaxDen, MaxSteps    \* largest denominator; operations after a literal
ASSUME ArithmeticAssumption == {MaxDen, MaxSteps} \subseteq Nat

VARIABLES acc,                \* the last result
          steps
arVars == <<acc, steps>>

Cplx(n, im) == Reduced("cplx", n, im, 1)
Sample == {Long(0), Long(-1), Long(2), Long(MaxLong), Long(MinLong), Big(MaxLong + 1), Big(3),
           Rat(1, 2), Rat(2 * MaxLong + 1, 2), Dbl(1, 2), Dbl(MaxLong, 1), Dbl(MaxLong - 1, 1), Cplx(1, 2)}
(* Products of two small primes, the larger with no small prime factor,    *)
(* and primes past the square of the largest small one: they are tested,   *)
(* not computed with.                                                      *)
Integers1 == {Long(n) : n \in {m \in (0 .. 36) \cup {1373, 1681, 1763, 8321, 8999} : InLong(m)}}

Becomes(S) == /\ steps < MaxSteps
              /\ \E r \in S : /\ r.k \notin {"trap", "err"}
                              /\ Magnitude(r.n) <= 2 * (MaxLong + 1) /\ r.d <= MaxDen
                              /\ acc' = r
              /\ steps' = steps + 1
Literal1 == steps > 0 /\ acc' \in Sample /\ steps' = 0
Combination == \E y \in Sample :
                 \/ Becomes({Add(acc, y), Sub(y, acc), Mul(acc, y)})
                 \/ Becomes({Div(acc, y), Div(y, acc)})
                 \/ IsReal(acc) /\ IsReal(y) /\ Becomes({Modulo(acc, y), Modulo(y, acc)})
                 \/ IsIntegral(acc) /\ IsIntegral(y) /\ Becomes({Gcd(acc, y), Lcm(acc, y)})
Alone == \/ Becomes({Neg(acc), Recip(acc), NotNum(acc), Floor(acc), Ceil(acc)})
         \/ IsReal(acc) /\ Becomes({AbsVal(acc), Signum(acc), Round(acc)})
         \/ \E e \in {-1, 0, 2} : Becomes({Pow(acc, Long(e))})
         \/ Becomes({AsBigint(acc), AsRational(acc), Numerator(acc), Denominator(acc), AsLong(acc)})

ArInit == \/ acc \in Sample /\ steps = 0
          \/ acc \in Integers1 /\ steps = MaxSteps
ArNext == Literal1 \/ Combination \/ Alone
ArSpec == ArInit /\ [][ArNext]_arVars

-----------------------------------------------------------------------------
Exact(x) == x.k \in {"long", "big", "rat"}
SameNumber(x, y) == <<x.n, x.d>> = <<y.n, y.d>>       \* both in lowest terms
Tidy(x) == /\ x.k = "long" => InLong(x.n)
           /\ x.d > 0
           /\ GcdOf(x.n, x.d) = 1

ExactLaws(x, y) ==
  LET sum == Add(x, y)
      both == x.k = "long" /\ y.k = "long"
      q == Div(y, x)
      r == Modulo(x, y)
      g == Gcd(x, y)
  IN  /\ \A z \in {sum, Sub(x, y), Mul(x, y), Neg(x), q} : Exact(z) /\ Tidy(z)
      /\ sum = Add(y, x) /\ Mul(x, y) = Mul(y, x)
      /\ SameNumber(Sub(sum, y), x) /\ SameNumber(Neg(Sub(x, y)), Sub(y, x))
      /\ both => /\ sum.k = IF InLong(x.n + y.n) THEN "long" ELSE "big"
                 /\ Mul(x, y).k = IF InLong(x.n * y.n) THEN "long" ELSE "big"
      /\ x.n # 0 => SameNumber(Mul(q, x), y)
      /\ x.k = "long" /\ IsIntegral(y) /\ x.n # 0 /\ r # Trapped =>
           /\ y.n = x.n * Floor(q).n + r.n
           /\ Magnitude(r.n) < Magnitude(x.n) /\ r.n * x.n >= 0
      /\ Floor(x).n * x.d <= x.n /\ x.n < (Floor(x).n + 1) * x.d
      /\ SameNumber(Ceil(x), Neg(Floor(Neg(x))))
      /\ SameNumber(Pow(x, Long(2)), Mul(x, x))
      /\ IsIntegral(x) /\ IsIntegral(y) /\ InLong(x.n) /\ InLong(y.n) /\ x.n # 0 /\ g # Trapped =>
           x.n % Magnitude(g.n) = 0 /\ y.n % Magnitude(g.n) = 0
      /\ both /\ InLong(x.n * y.n) /\ x.n # 0 /\ y.n # 0 /\ Lcm(x, y) # Trapped =>
           Magnitude(x.n * y.n) = Magnitude(g.n * Lcm(x, y).n)

(* Exact numbers stay exact through machine integers, big integers and     *)
(* rationals: no result is rounded or wrapped, a machine integer is in     *)
(* range and two of them leave it only when their result does, what is     *)
(* added or multiplied can be taken away again, and quotient, remainder,   *)
(* rounding and greatest common divisor fit together.  A big integer with  *)
(* a rational is computed in doubles and left out.                         *)
NumbersExact ==
  Exact(acc) => \A y \in {z \in Sample : Exact(z) /\ {acc.k, z.k} # {"big", "rat"}} : ExactLaws(acc, y)

(* The order of sorting and of matching numbers is total on the real ones: *)
(* antisymmetric, transitive and, without the tie break between kinds, the *)
(* order of the values.  Doubles equal to i64::MAX as f64 are left out:    *)
(* they are compared as the largest machine integer.                       *)
Comparable(x) == IsReal(x) /\ Finite(x) /\ ~(x.k \in {"dbl", "cplx"} /\ x.n = MaxAsDouble /\ x.d = 1)
Ordered == {p \in Sample \X Sample : /\ Comparable(p[1]) /\ Comparable(p[2])
                                   /\ NumberOrdering(p[1], p[2]) <= 0}
NumbersOrdered ==
  Comparable(acc) =>
    LET others == {s \in Sample : Comparable(s)}
        upTo == [y \in others |-> NumberOrdering(acc, y)]
    IN  /\ \A y \in others :
             /\ NumberOrdering(y, acc) = -upTo[y]
             /\ NumericCmp(acc, y, FALSE) = SignOf(acc.n * y.d - y.n * acc.d)
        /\ \A y, z \in others :
             /\ upTo[y] <= 0 /\ <<y, z>> \in Ordered => upTo[z] <= 0
             /\ upTo[y] >= 0 /\ upTo[z] <= 0 => <<y, z>> \in Ordered

(* A prime of its definition, which the code never asks.                   *)
Prime(n) == n >= 2 /\ \A d \in 2 .. (n - 1) : ~Divides(d, n)
Product(s) == LET upTo[i \in 0 .. Len(s)] == IF i = 0 THEN 1 ELSE upTo[i - 1] * s[i]
              IN  upTo[Len(s)]

(* The test of primality, which divides out small primes and then trusts   *)
(* its bases, finds the primes, past the square of the last small one.     *)
Primality ==
  acc.k = "long" /\ acc.n \in 2 .. 9000 =>
    (IsPrime(acc.n, LongBases) <=> Prime(acc.n))

(* Trial division up to the square root loses nothing: the factors of a    *)
(* whole number are primes, in order, and multiply to it, and the divisors *)
(* of a machine integer are all its proper ones.                           *)
FactorLaw(x) ==
  LET f == Factor(x)
  IN  /\ \A i \in DOMAIN f : Prime(f[i]) /\ (i > 1 => f[i - 1] <= f[i])
      /\ Product(f) = x.n
DivisorLaw(n) == Divisors(n) = {d \in 2 .. (n - 1) : Divides(d, n)}
TrialDivision ==
  /\ Exact(acc) /\ acc.d = 1 /\ acc.n >= 2 => FactorLaw(acc)
  /\ acc.k = "long" /\ acc.n >= 2 => DivisorLaw(acc.n)
=============================================================================
