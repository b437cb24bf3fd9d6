-------------------------- MODULE ArithmeticProofs --------------------------
(***************************************************************************)
(* The arithmetic of number.rs, for every width of the machine integer:    *)
(* every result is well formed, exact numbers obey the laws of arithmetic, *)
(* the order of numbers is one and trial division finds what it should.    *)
(*                                                                         *)
(* First what Euclid's algorithm and the power function compute, which are *)
(* recursive functions; then what each operation returns, as a number and  *)
(* as a value; then the invariant and the theorems.                        *)
(***************************************************************************)
EXTENDS Arithmetic, Recursion

-----------------------------------------------------------------------------
(* Products                                                                *)

LEMMA NonZero ==
  /\ \A a, b \in Int : a * b \in Int /\ (a # 0 /\ b # 0 => a * b # 0)
  /\ \A a, b, c, d \in Int : a * b + c * d \in Int /\ a * b - c * d \in Int
OBVIOUS

LEMMA Multiply ==
  /\ \A a, b, c \in Int : /\ (a * b) * c = a * (b * c)
                          /\ (a + b) * c = a * c + b * c /\ (a - b) * c = a * c - b * c
                          /\ a * b = b * a
                          /\ a * b \in Int /\ a + b \in Int /\ a - b \in Int
  /\ \A a \in Int : 1 * a = a /\ a * 1 = a /\ 0 * a = 0 /\ a * 0 = 0
  /\ \A a, b, c \in Int : c # 0 /\ a * c = b * c => a = b
OBVIOUS

LEMMA Scaling ==
  /\ \A a, b \in Int, c \in Nat \ {0} : /\ a <= b <=> a * c <= b * c
                                        /\ a < b <=> a * c < b * c
  /\ \A a, b, c \in Int : (a * b) * c = (a * c) * b
OBVIOUS

LEMMA MagnitudeTyped ==
  ASSUME NEW n \in Int
  PROVE  Magnitude(n) \in Nat /\ (Magnitude(n) = 0 <=> n = 0)
BY DEF Magnitude

-----------------------------------------------------------------------------
(* Euclid's algorithm                                                      *)

Pairs == Nat \X Nat
GcdStep(h) == [p \in Pairs |-> IF p[2] = 0 THEN p[1] ELSE h[<<p[2], p[1] % p[2]>>]]

LEMMA Remains ==
  ASSUME NEW a \in Nat, NEW b \in Nat, b # 0
  PROVE  a % b \in Nat /\ a % b < b /\ <<b, a % b>> \in Pairs
BY DEF Pairs

LEMMA GcdExists == \E g : g = GcdStep(g)
<1> DEFINE V == [Pairs -> Nat]
           start == [p \in Pairs |-> 0]
           G == [h \in V |-> GcdStep(h)]
<1>1. ASSUME NEW h \in V PROVE GcdStep(h) \in V
  <2>1. \A p \in Pairs : p[1] \in Nat /\ p[2] \in Nat
    BY DEF Pairs
  <2> QED
    BY <2>1, Remains DEF GcdStep
<1>2. start \in V /\ G \in [V -> V] /\ \A h \in V : G[h] = GcdStep(h)
  BY <1>1
<1> HIDE DEF G, start
<1>3. PICK f : Endless(V, start, G, f)
  <2> HIDE DEF V
  <2> QED
    BY <1>2, EndlessExists
<1>4. /\ \A n \in Nat : f[n] \in V
      /\ \A n \in Nat : f[n + 1] = GcdStep(f[n])
  BY <1>2, <1>3 DEF Endless
<1> DEFINE Settled(n) == \A a \in Nat, b \in 0..(n - 1) : f[n + 1][<<a, b>>] = f[n][<<a, b>>]
<1>5. \A n \in Nat, a \in Nat, b \in Nat :
        f[n + 1][<<a, b>>] = IF b = 0 THEN a ELSE f[n][<<b, a % b>>]
  <2>1. \A a \in Nat, b \in Nat : <<a, b>> \in Pairs
    BY DEF Pairs
  <2> QED
    BY <1>4, <2>1 DEF GcdStep
<1>6. ASSUME NEW n \in Nat, Settled(n) PROVE Settled(n + 1)
  <2>1. ASSUME NEW a \in Nat, NEW b \in 0..n
        PROVE  f[(n + 1) + 1][<<a, b>>] = f[n + 1][<<a, b>>]
    <3>0. PICK m \in Nat : m = n + 1
      OBVIOUS
    <3>1. b \in Nat
      OBVIOUS
    <3>2. /\ f[m + 1][<<a, b>>] = IF b = 0 THEN a ELSE f[m][<<b, a % b>>]
          /\ f[n + 1][<<a, b>>] = IF b = 0 THEN a ELSE f[n][<<b, a % b>>]
      BY <1>5, <3>1
    <3>3. ASSUME b # 0 PROVE f[n + 1][<<b, a % b>>] = f[n][<<b, a % b>>]
      <4>1. a % b \in Nat /\ a % b < b
        BY <3>1, <3>3, Remains
      <4>2. PICK c \in Nat : c = a % b /\ c < b
        BY <4>1
      <4>3. c \in 0..(n - 1)
        BY <4>2
      <4> QED
        BY <1>6, <3>1, <4>2, <4>3
    <3> QED
      BY <3>0, <3>2, <3>3
  <2>2. 0..((n + 1) - 1) = 0..n
    OBVIOUS
  <2> QED
    BY <2>1, <2>2
<1>7. ASSUME NEW n \in Nat PROVE Settled(n)
  <2> DEFINE S == {i \in 0..n : Settled(i)}
  <2>1. 0 \in S
    OBVIOUS
  <2>2. \A i \in 0..n : i \in S /\ i + 1 <= n => i + 1 \in S
    <3> HIDE DEF Settled
    <3> QED
      BY <1>6
  <2>3. \A i \in 0..n : i \in S
    <3> HIDE DEF S
    <3> QED
      BY <2>1, <2>2, InductionUpTo
  <2>4. n \in S
    BY <2>3
  <2> HIDE DEF Settled
  <2> QED
    BY <2>4
<1>8. ASSUME NEW a \in Nat, NEW b \in Nat, NEW m \in Nat
      PROVE  \A i \in 0..m : f[(b + 1) + i][<<a, b>>] = f[b + 1][<<a, b>>]
  <2> DEFINE S == {i \in 0..m : f[(b + 1) + i][<<a, b>>] = f[b + 1][<<a, b>>]}
  <2>1. 0 \in S
    OBVIOUS
  <2>2. ASSUME NEW i \in 0..m, i \in S /\ i + 1 <= m
        PROVE  i + 1 \in S
    <3>1. (b + 1) + i \in Nat /\ b \in 0..(((b + 1) + i) - 1) /\ (b + 1) + (i + 1) = ((b + 1) + i) + 1
      OBVIOUS
    <3>2. f[((b + 1) + i) + 1][<<a, b>>] = f[(b + 1) + i][<<a, b>>]
      BY <1>7, <3>1
    <3> QED
      BY <2>2, <3>1, <3>2
  <2>3. \A i \in 0..m : i \in S
    <3> HIDE DEF S
    <3> QED
      BY <2>1, <2>2, InductionUpTo
  <2> QED
    BY <2>3
<1> DEFINE g == [p \in Pairs |-> f[p[2] + 1][p]]
<1>9. ASSUME NEW p \in Pairs PROVE g[p] = GcdStep(g)[p]
  <2>1. PICK a \in Nat, b \in Nat : p = <<a, b>>
    BY DEF Pairs
  <2>2. g[p] = IF b = 0 THEN a ELSE f[b][<<b, a % b>>]
    BY <1>5, <2>1
  <2>3. ASSUME b # 0 PROVE f[b][<<b, a % b>>] = g[<<b, a % b>>]
    <3>1. PICK c \in Nat : c = a % b /\ c < b /\ <<b, c>> \in Pairs
      BY <2>3, Remains
    <3>2. (b - c) - 1 \in 0..b /\ (c + 1) + ((b - c) - 1) = b
      BY <3>1
    <3>3. f[b][<<b, c>>] = f[c + 1][<<b, c>>]
      BY <1>8, <3>2
    <3> QED
      BY <3>1, <3>3
  <2> QED
    BY <2>1, <2>2, <2>3 DEF GcdStep
<1>10. g = GcdStep(g)
  BY <1>9 DEF GcdStep
<1> QED
  BY <1>10

LEMMA GcdSteps ==
  ASSUME NEW a \in Nat, NEW b \in Nat
  PROVE  gcd[<<a, b>>] = IF b = 0 THEN a ELSE gcd[<<b, a % b>>]
<1>1. gcd = CHOOSE g : g = GcdStep(g)
  BY DEF gcd, GcdStep, Pairs
<1>2. gcd = GcdStep(gcd)
  BY <1>1, GcdExists
<1>3. <<a, b>> \in Pairs
  BY DEF Pairs
<1> QED
  BY <1>2, <1>3 DEF GcdStep

(* It is a divisor no greater than what it divides.                        *)
LEMMA GcdTyped ==
  ASSUME NEW a \in Nat, NEW b \in Nat
  PROVE  /\ gcd[<<a, b>>] \in Nat
         /\ a # 0 \/ b # 0 => gcd[<<a, b>>] # 0
         /\ b # 0 => gcd[<<a, b>>] <= b
<1> DEFINE Fine(x, y) == /\ gcd[<<x, y>>] \in Nat
                         /\ x # 0 \/ y # 0 => gcd[<<x, y>>] # 0
                         /\ y # 0 => gcd[<<x, y>>] <= y
           Bad == {y \in Nat : \E x \in Nat : ~Fine(x, y)}
<1>1. CASE Bad = {}
  BY <1>1
<1>2. CASE Bad # {}
  <2>1. PICK y \in Bad : \A t \in Bad : y <= t
    <3>1. Bad \in SUBSET Nat
      OBVIOUS
    <3> HIDE DEF Bad
    <3> QED
      BY <1>2, <3>1, LeastNumber
  <2>2. y \in Nat
    OBVIOUS
  <2>3. PICK x \in Nat : ~Fine(x, y)
    OBVIOUS
  <2>4. CASE y = 0
    <3>1. gcd[<<x, y>>] = x
      BY <2>2, <2>4, GcdSteps
    <3> QED
      BY <2>3, <2>4, <3>1
  <2>5. CASE y # 0
    <3>1. PICK r \in Nat : r = x % y /\ r < y
      BY <2>2, <2>5, Remains
    <3>2. gcd[<<x, y>>] = gcd[<<y, r>>]
      BY <2>2, <2>5, <3>1, GcdSteps
    <3>3. r \notin Bad
      <4> HIDE DEF Bad
      <4>1. r \in Bad => y <= r
        BY <2>1
      <4> QED
        BY <2>2, <3>1, <4>1
    <3>4. Fine(y, r)
      <4> HIDE DEF Fine
      <4> QED
        BY <2>2, <3>3
    <3>5. r = 0 => gcd[<<y, r>>] = y
      BY <2>2, GcdSteps
    <3> QED
      BY <2>2, <2>3, <2>5, <3>1, <3>2, <3>4, <3>5
  <2> QED
    BY <2>4, <2>5
<1> QED
  BY <1>1, <1>2

(* A common divisor, and a combination of the two numbers.                  *)
GcdFacts(a, b, g) ==
  /\ g \in Nat
  /\ \E u, v \in Int : g = u * a + v * b
  /\ \E i, j \in Nat : a = i * g /\ b = j * g

LEMMA GcdIs ==
  ASSUME NEW a \in Nat, NEW b \in Nat
  PROVE  GcdFacts(a, b, gcd[<<a, b>>])
<1> DEFINE Fine(x, y) == GcdFacts(x, y, gcd[<<x, y>>])
           Bad == {y \in Nat : \E x \in Nat : ~Fine(x, y)}
<1>1. CASE Bad = {}
  <2> HIDE DEF Fine
  <2>1. Fine(a, b)
    BY <1>1
  <2> QED
    BY <2>1 DEF Fine
<1>2. CASE Bad # {}
  <2>1. PICK y \in Bad : \A t \in Bad : y <= t
    <3>1. Bad \in SUBSET Nat
      OBVIOUS
    <3> HIDE DEF Bad
    <3> QED
      BY <1>2, <3>1, LeastNumber
  <2>2. y \in Nat
    OBVIOUS
  <2>3. PICK x \in Nat : ~Fine(x, y)
    OBVIOUS
  <2>4. CASE y = 0
    <3>1. gcd[<<x, y>>] = x
      BY <2>2, <2>4, GcdSteps
    <3>2. x = 1 * x + 0 * y /\ x = 1 * x /\ y = 0 * x
      BY <2>4
    <3>3. GcdFacts(x, y, x)
      BY <3>2 DEF GcdFacts
    <3> QED
      BY <2>3, <3>1, <3>3
  <2>5. CASE y # 0
    <3>1. PICK r \in Nat : r = x % y /\ r < y
      BY <2>2, <2>5, Remains
    <3>2. gcd[<<x, y>>] = gcd[<<y, r>>]
      BY <2>2, <2>5, <3>1, GcdSteps
    <3>3. r \notin Bad
      <4> HIDE DEF Bad
      <4>1. r \in Bad => y <= r
        BY <2>1
      <4> QED
        BY <2>2, <3>1, <4>1
    <3>4. Fine(y, r)
      <4> HIDE DEF Fine
      <4> QED
        BY <2>2, <3>3
    <3>5. PICK g \in Nat : g = gcd[<<y, r>>] /\ GcdFacts(y, r, g)
      BY <3>4 DEF GcdFacts
    <3>6. PICK u \in Int, v \in Int : g = u * y + v * r
      BY <3>5 DEF GcdFacts
    <3>7. PICK i \in Nat, j \in Nat : y = i * g /\ r = j * g
      BY <3>5 DEF GcdFacts
    <3>8. PICK q \in Nat : x = q * y + r
      <4>1. x \div y \in Nat /\ x = (x \div y) * y + (x % y)
        BY <2>2, <2>5
      <4> QED
        BY <3>1, <4>1
    <3>9. x = (q * i + j) * g /\ q * i + j \in Nat
      <4>1. q * y = (q * i) * g /\ (q * i + j) * g = (q * i) * g + j * g
        BY <3>7, Multiply
      <4> QED
        BY <3>7, <3>8, <4>1
    <3>10. g = v * x + (u - v * q) * y /\ u - v * q \in Int
      <4>1. v * r = v * x - (v * q) * y
        <5>1. r = x - q * y /\ q * y \in Int
          BY <2>2, <3>8
        <5>2. v * (x - q * y) = v * x - v * (q * y)
          BY <2>2, <5>1
        <5> QED
          BY <2>2, <5>1, <5>2, Multiply
      <4>2. (u - v * q) * y = u * y - (v * q) * y
        BY <2>2, Multiply
      <4>3. v * x \in Int /\ u * y \in Int /\ (v * q) * y \in Int
        BY <2>2
      <4> QED
        BY <3>6, <4>1, <4>2, <4>3
    <3>11. GcdFacts(x, y, g)
      BY <3>7, <3>9, <3>10 DEF GcdFacts
    <3> QED
      BY <2>3, <3>2, <3>5, <3>11
  <2> QED
    BY <2>4, <2>5
<1> QED
  BY <1>1, <1>2

(* What is 1 has no divisor but itself.                                     *)
LEMMA Units ==
  ASSUME NEW k \in Int, NEW h \in Nat, k * h = 1
  PROVE  h = 1 /\ k = 1
<1>1. k > 0 /\ h > 0
  OBVIOUS
<1>2. h <= k * h /\ k <= k * h
  BY <1>1
<1> QED
  BY <1>1, <1>2

Coprime(a, b) == \E u, v \in Int : u * a + v * b = 1

LEMMA CoprimeGcd ==
  ASSUME NEW a \in Nat, NEW b \in Nat
  PROVE  Coprime(a, b) <=> gcd[<<a, b>>] = 1
<1>1. PICK g \in Nat : g = gcd[<<a, b>>] /\ GcdFacts(a, b, g)
  <2>1. GcdFacts(a, b, gcd[<<a, b>>])
    BY GcdIs
  <2>2. gcd[<<a, b>>] \in Nat
    BY <2>1 DEF GcdFacts
  <2> QED
    BY <2>1, <2>2
<1>2. ASSUME Coprime(a, b) PROVE g = 1
  <2>1. PICK u \in Int, v \in Int : u * a + v * b = 1
    BY <1>2 DEF Coprime
  <2>2. PICK i \in Nat, j \in Nat : a = i * g /\ b = j * g
    BY <1>1 DEF GcdFacts
  <2>3. (u * i + v * j) * g = 1 /\ u * i + v * j \in Int
    <3>1. u * a = (u * i) * g /\ v * b = (v * j) * g
      BY <2>2, Multiply
    <3>2. (u * i + v * j) * g = (u * i) * g + (v * j) * g
      BY Multiply
    <3> QED
      BY <2>1, <3>1, <3>2
  <2> QED
    BY <2>3, Units
<1>3. ASSUME g = 1 PROVE Coprime(a, b)
  BY <1>1, <1>3 DEF GcdFacts, Coprime
<1> QED
  BY <1>1, <1>2, <1>3

(* Lowest terms are unique.                                                 *)
Equal(n, d, m, e) == n * e = m * d
DividesEvenly(d, e) == \E k \in Nat : e = k * d

LEMMA LowestDivides ==
  ASSUME NEW n \in Nat, NEW d \in Nat \ {0}, NEW m \in Nat, NEW e \in Nat \ {0},
         Coprime(n, d), Equal(n, d, m, e)
  PROVE  DividesEvenly(d, e)
<1>0. n * e = m * d
  BY DEF Equal
<1>1. PICK u \in Int, v \in Int : u * n + v * d = 1
  BY DEF Coprime
<1>2. e = (u * m + v * e) * d /\ u * m + v * e \in Int
  <2>1. (u * n + v * d) * e = (u * n) * e + (v * d) * e
    BY Multiply
  <2>2. (u * n) * e = u * (m * d) /\ u * (m * d) = (u * m) * d
    BY <1>0, Multiply
  <2>3. (v * d) * e = (v * e) * d
    BY Multiply, Scaling
  <2>4. (u * m + v * e) * d = (u * m) * d + (v * e) * d
    BY Multiply
  <2>5. 1 * e = e
    OBVIOUS
  <2> QED
    BY <1>1, <2>1, <2>2, <2>3, <2>4, <2>5
<1>3. u * m + v * e >= 0
  <2> DEFINE k == u * m + v * e
  <2>1. k \in Int /\ e = k * d
    BY <1>2
  <2> HIDE DEF k
  <2>2. k >= 0
    BY <2>1
  <2> QED
    BY <2>2 DEF k
<1> QED
  BY <1>2, <1>3 DEF DividesEvenly

LEMMA LowestUnique ==
  ASSUME NEW n \in Int, NEW d \in Nat \ {0}, NEW m \in Int, NEW e \in Nat \ {0},
         Coprime(Magnitude(n), d), Coprime(Magnitude(m), e), n * e = m * d
  PROVE  n = m /\ d = e
<1>1. PICK p \in Nat : p = Magnitude(n)
  BY MagnitudeTyped
<1>2. PICK q \in Nat : q = Magnitude(m)
  BY MagnitudeTyped
<1>3. p * e = q * d
  <2>1. \A a \in Int, b \in Nat : Magnitude(a * b) = Magnitude(a) * b
    BY DEF Magnitude
  <2> QED
    BY <1>1, <1>2, <2>1
<1>4. PICK k \in Nat : e = k * d
  <2>1. Coprime(p, d) /\ Equal(p, d, q, e)
    BY <1>1, <1>3 DEF Equal
  <2>2. DividesEvenly(d, e)
    BY <2>1, LowestDivides
  <2> QED
    BY <2>2 DEF DividesEvenly
<1>5. PICK l \in Nat : d = l * e
  <2>1. Coprime(q, e) /\ Equal(q, e, p, d)
    BY <1>2, <1>3 DEF Equal
  <2>2. DividesEvenly(e, d)
    BY <2>1, LowestDivides
  <2> QED
    BY <2>2 DEF DividesEvenly
<1>6. d = e
  <2>1. d = (l * k) * d /\ l * k \in Nat
    BY <1>4, <1>5, Multiply
  <2>2. l * k = 1
    BY <2>1, Multiply
  <2>3. k = 1
    BY <2>2, Units
  <2> QED
    BY <1>4, <2>3
<1> QED
  BY <1>6, Multiply

-----------------------------------------------------------------------------
(* Types                                                                   *)

Kind == {"long", "big", "rat", "dbl", "cplx", "trap", "err"}
Number == [k : Kind, n : Int, im : Int, d : Nat]

(* Only doubles and complex numbers can be infinite or not a number.        *)
Good(x) == x \in Number /\ (x.k \in {"dbl", "cplx"} \/ x.d # 0)

LEMMA QuotTyped ==
  ASSUME NEW a \in Int, NEW b \in Int, b # 0
  PROVE  Quot(a, b) \in Int /\ Rem(a, b) \in Int
<1>1. PICK p \in Nat, q \in Nat \ {0} : p = Magnitude(a) /\ q = Magnitude(b)
  BY MagnitudeTyped
<1>2. p \div q \in Int
  BY <1>1
<1> QED
  BY <1>1, <1>2 DEF Quot, Rem

LEMMA GcdOfTyped ==
  ASSUME NEW a \in Int, NEW b \in Int
  PROVE  GcdOf(a, b) \in Nat
BY MagnitudeTyped, GcdTyped DEF GcdOf

LEMMA ReducedGood ==
  ASSUME NEW k \in Kind, NEW n \in Int, NEW im \in Int, NEW d \in Int, d # 0
  PROVE  Good(Reduced(k, n, im, d))
<1> DEFINE h == gcd[<<GcdOf(n, im), Magnitude(d)>>]
           g == (IF d < 0 THEN -1 ELSE 1) * h
<1>1. h \in Nat /\ h # 0 /\ h <= Magnitude(d) /\ Magnitude(d) \in Nat
  BY GcdOfTyped, MagnitudeTyped, GcdTyped
<1> HIDE DEF h
<1>2. g \in Int /\ g # 0 /\ Magnitude(g) = h /\ ((d < 0) = (g < 0))
  BY <1>1 DEF Magnitude
<1> HIDE DEF g
<1>3. Quot(d, g) = Magnitude(d) \div h
  BY <1>1, <1>2 DEF Quot
<1>4. Magnitude(d) \div h \in Nat /\ Magnitude(d) \div h # 0
  <2>1. \A p, q \in Nat : q # 0 /\ q <= p => p \div q \in Nat /\ p \div q # 0
    OBVIOUS
  <2> QED
    BY <1>1, <2>1
<1>5. Quot(n, g) \in Int /\ Quot(im, g) \in Int
  BY <1>2, QuotTyped
<1>6. Reduced(k, n, im, d) = [k |-> k, n |-> Quot(n, g), im |-> Quot(im, g), d |-> Quot(d, g)]
  BY DEF Reduced, g, h
<1> QED
  BY <1>3, <1>4, <1>5, <1>6 DEF Good, Number

LEMMA MadeGood ==
  /\ \A n \in Int : /\ Good(Long(n)) /\ Good(Big(n))
                    /\ Good(BigintToKap(n))
  /\ \A n \in Int, d \in Int : d # 0 => Good(Rat(n, d)) /\ Good(Dbl(n, d))
                                        /\ Good(RationalToKap(n, d))
  /\ \A n \in Int, im \in Int, d \in Int : d # 0 => Good(ComplexToKap(n, im, d)) /\ Good(Cplx(n, im))
  /\ Good(Infinity) /\ Good(NegInf) /\ Good(NaN) /\ Good(NotANumberJ) /\ Good(Trapped) /\ Good(NoNumber)
<1>1. \A n \in Int : Good(Long(n)) /\ Good(Big(n))
  BY DEF Good, Number, Kind, Long, Big
<1>2. \A n \in Int : Good(BigintToKap(n))
  BY <1>1 DEF BigintToKap
<1>3. \A n \in Int, d \in Int : d # 0 => Good(Rat(n, d)) /\ Good(Dbl(n, d))
  BY ReducedGood DEF Rat, Dbl, Kind
<1>4. ASSUME NEW n \in Int, NEW d \in Int, d # 0 PROVE Good(RationalToKap(n, d))
  <2>1. Good(Rat(n, d)) /\ Rat(n, d).n \in Int
    BY <1>3, <1>4 DEF Good, Number
  <2> QED
    BY <1>2, <2>1 DEF RationalToKap
<1>5. ASSUME NEW n \in Int, NEW im \in Int, NEW d \in Int, d # 0
      PROVE  Good(ComplexToKap(n, im, d)) /\ Good(Cplx(n, im))
  BY <1>5, ReducedGood DEF ComplexToKap, Cplx, Kind
<1>6. /\ Good(Infinity) /\ Good(NegInf) /\ Good(NaN) /\ Good(NotANumberJ)
      /\ Good(Trapped) /\ Good(NoNumber)
  BY DEF Good, Number, Kind, Infinity, NegInf, NaN, NotANumberJ, Trapped, NoNumber
<1> QED
  BY <1>1, <1>2, <1>3, <1>4, <1>5, <1>6

LEMMA Fields ==
  ASSUME NEW x, Good(x)
  PROVE  /\ x.k \in Kind /\ x.n \in Int /\ x.im \in Int /\ x.d \in Nat
         /\ x.k \in {"long", "big", "rat", "trap", "err"} => x.d # 0
BY DEF Good, Number, Kind

LEMMA AsDoubleGood ==
  ASSUME NEW x, Good(x)
  PROVE  /\ Good(AsDouble(x)) /\ AsDouble(x).n = x.n /\ AsDouble(x).d = x.d
         /\ AsDouble(x).k = "dbl" /\ AsDouble(x).im = 0
BY Fields DEF Good, Number, Kind, AsDouble

LEMMA WithN ==
  ASSUME NEW x, Good(x), NEW n \in Int
  PROVE  Good([x EXCEPT !.n = n])
BY DEF Good, Number

LEMMA SignTyped == \A n \in Int : SignOf(n) \in {-1, 0, 1}
BY DEF SignOf

-----------------------------------------------------------------------------
(* What the operations return                                              *)

LEMMA CombinedGood ==
  ASSUME NEW x, Good(x), NEW y, Good(y), NEW n \in Int, NEW im \in Int, NEW d \in Int,
         x.d # 0 /\ y.d # 0 => d # 0, NEW dbl, Good(dbl)
  PROVE  Good(Combined(x, y, n, im, d, dbl))
<1>2. Good(BigintToKap(n)) /\ Good(Big(n)) /\ Good(NotANumberJ)
  BY MadeGood
<1>3. "rat" \in {x.k, y.k} /\ Ruled(x, y) => Good(RationalToKap(n, d))
  <2>1. "rat" \in {x.k, y.k} /\ Ruled(x, y) => x.d # 0 /\ y.d # 0
    BY Fields DEF Ruled
  <2> QED
    BY <2>1, MadeGood
<1>4. Finite(x) /\ Finite(y) => Good(ComplexToKap(n, im, d))
  BY MadeGood DEF Finite
<1> QED
  BY <1>2, <1>3, <1>4 DEF Combined

LEMMA DoublesGood ==
  ASSUME NEW x, Good(x), NEW y, Good(y)
  PROVE  /\ Good(DblAdd(x, y)) /\ Good(DblMul(x, y)) /\ Good(DblNeg(x)) /\ Good(DblDiv(x, y))
<1>1. x.n \in Int /\ x.d \in Int /\ y.n \in Int /\ y.d \in Int
  BY Fields
<1>2. Good(DblAdd(x, y))
  BY <1>1, NonZero, MadeGood DEF DblAdd, Finite
<1>3. NaN.k = "dbl" /\ \A n \in Int : Good([NaN EXCEPT !.n = n])
  BY MadeGood, WithN DEF NaN
<1>4. Good(DblMul(x, y))
  <2>1. SignOf(x.n) * SignOf(y.n) \in Int
    BY <1>1, SignTyped
  <2> QED
    BY <1>1, <1>3, <2>1, NonZero, MadeGood DEF DblMul, Finite
<1>5. Good(DblNeg(x))
  BY <1>1, WithN DEF DblNeg
<1>6. Good(DblDiv(x, y))
  <2>1. x.n * SignOf(y.n) \in Int /\ SignOf(x.n) \in Int
    BY <1>1, SignTyped
  <2>2. Good([x EXCEPT !.n = @ * SignOf(y.n)])
    BY <2>1, WithN
  <2>3. Good(Dbl(0, 1))
    BY MadeGood
  <2> QED
    BY <1>1, <1>3, <2>1, <2>2, <2>3, NonZero, MadeGood DEF DblDiv, Finite
<1> QED
  BY <1>2, <1>4, <1>5, <1>6

LEMMA SumsGood ==
  ASSUME NEW x, Good(x), NEW y, Good(y)
  PROVE  Good(Add(x, y)) /\ Good(Sub(x, y)) /\ Good(Mul(x, y))
<1>1. /\ x.n \in Int /\ x.im \in Int /\ x.d \in Int
      /\ y.n \in Int /\ y.im \in Int /\ y.d \in Int
  BY Fields
<1>2. x.d * y.d \in Int /\ (x.d # 0 /\ y.d # 0 => x.d * y.d # 0)
  BY <1>1, NonZero
<1>3. /\ Good(DblAdd(AsDouble(x), AsDouble(y)))
      /\ Good(DblAdd(AsDouble(x), DblNeg(AsDouble(y))))
      /\ Good(DblMul(AsDouble(x), AsDouble(y)))
  <2>1. Good(AsDouble(x)) /\ Good(AsDouble(y))
    BY AsDoubleGood
  <2>2. Good(DblNeg(AsDouble(y)))
    BY <2>1, DoublesGood
  <2> QED
    BY <2>1, <2>2, DoublesGood
<1>4. Good(Add(x, y))
  <2>1. x.n * y.d + y.n * x.d \in Int /\ x.im * y.d + y.im * x.d \in Int
    BY <1>1, NonZero
  <2> QED
    BY <1>2, <1>3, <2>1, CombinedGood DEF Add
<1>5. Good(Sub(x, y))
  <2>1. x.n * y.d - y.n * x.d \in Int /\ x.im * y.d - y.im * x.d \in Int
    BY <1>1, NonZero
  <2> QED
    BY <1>2, <1>3, <2>1, CombinedGood DEF Sub
<1>6. Good(Mul(x, y))
  <2>1. x.n * y.n - x.im * y.im \in Int /\ x.im * y.n + x.n * y.im \in Int
    BY <1>1, NonZero
  <2> QED
    BY <1>2, <1>3, <2>1, CombinedGood DEF Mul
<1> QED
  BY <1>4, <1>5, <1>6

LEMMA DivGood ==
  ASSUME NEW x, Good(x), NEW y, Good(y), x.k \notin {"trap", "err"}, y.k \notin {"trap", "err"}
  PROVE  Good(Div(x, y))
<1>1. /\ x.n \in Int /\ x.im \in Int /\ x.d \in Int
      /\ y.n \in Int /\ y.im \in Int /\ y.d \in Int
  BY Fields
<1> DEFINE den == y.n * y.n + y.im * y.im
           re == (x.n * y.n + x.im * y.im) * y.d
           im == (x.im * y.n - x.n * y.im) * y.d
<1>2. den \in Int /\ re \in Int /\ im \in Int /\ x.d * den \in Int
  BY <1>1, NonZero
<1>3. y.n # 0 => /\ Good(Long(Quot(x.n, y.n))) /\ Good(Big(Quot(x.n, y.n)))
                 /\ Good(Rat(x.n, y.n))
  BY <1>1, QuotTyped, MadeGood
<1>4. Good(Long(0)) /\ Good(Big(MaxLong + 1)) /\ Good(Dbl(0, 1)) /\ Good(NotANumberJ)
  BY MadeGood, MaxLongAssumption
<1>5. Finite(x) /\ den # 0 => Good(ComplexToKap(re, im, x.d * den))
  <2> HIDE DEF den, re, im
  <2> QED
    BY <1>1, <1>2, NonZero, MadeGood DEF Finite
<1>6. Good(DblDiv(AsDouble(x), AsDouble(y)))
  BY AsDoubleGood, DoublesGood
<1>7. x.k \in {"long", "big", "rat"} /\ y.n # 0 => Good(RationalToKap(x.n * y.d, x.d * y.n))
  <2>1. x.k \in {"long", "big", "rat"} => x.d # 0
    BY Fields
  <2> QED
    BY <1>1, <2>1, NonZero, MadeGood
<1>8. {x.k, y.k} \subseteq {"long", "big", "rat"} => x.k \in {"long", "big", "rat"}
  OBVIOUS
<1> QED
  BY <1>3, <1>4, <1>5, <1>6, <1>7, <1>8 DEF Div

LEMMA NegGood ==
  ASSUME NEW x, Good(x)
  PROVE  Good(Neg(x)) /\ Good(AbsVal(x))
<1>1. x.n \in Int /\ x.im \in Int /\ x.d \in Int /\ -x.n \in Int /\ -x.im \in Int
      /\ (x.k = "rat" => x.d # 0)
  BY Fields
<1>2. Good(BigintToKap(-x.n)) /\ Good([x EXCEPT !.n = -@])
  BY <1>1, MadeGood, WithN
<1>3. x.k = "rat" => Good(RationalToKap(-x.n, x.d))
  BY <1>1, MadeGood
<1>4. Finite(x) => Good(ComplexToKap(-x.n, -x.im, x.d))
  BY <1>1, MadeGood DEF Finite
<1>5. Good(Neg(x))
  BY <1>2, <1>3, <1>4 DEF Neg
<1>6. x.k = "rat" => Good(RationalToKap(x.n, x.d))
  BY <1>1, MadeGood
<1>7. x.n < 0 \/ x.n >= 0
  BY <1>1
<1> QED
  BY <1>5, <1>6, <1>7 DEF AbsVal

LEMMA LongTyped ==
  ASSUME NEW x, Good(x), x.k \notin {"trap", "err"}
  PROVE  Good(AsLong(x))
<1>1. x.n \in Int /\ x.d \in Int
  BY Fields
<1>2. Good(Long(x.n)) /\ Good(Long(0)) /\ Good(Long(MaxLong)) /\ Good(Long(MinLong)) /\ Good(NoNumber)
  BY <1>1, MadeGood, MaxLongAssumption DEF MinLong
<1>3. x.d # 0 => Good(Long(Clamped(Quot(x.n, x.d))))
  <2>1. \A q \in Int : Clamped(q) \in Int
    BY MaxLongAssumption DEF Clamped, MinLong
  <2> QED
    BY <1>1, <2>1, QuotTyped, MadeGood
<1>4. CASE x.k = "dbl" /\ ~Finite(x)
  BY <1>2, <1>4 DEF AsLong
<1> QED
  BY <1>2, <1>3, <1>4 DEF AsLong, Finite

LEMMA ModuloGood ==
  ASSUME NEW x, Good(x), NEW y, Good(y)
  PROVE  Good(Modulo(x, y))
<1>1. x.n \in Int /\ x.d \in Int /\ y.n \in Int /\ y.d \in Int
  BY Fields
<1>2. x.n # 0 => /\ Rem(y.n, x.n) \in Int
                 /\ Good(Long(x.n + Rem(y.n, x.n))) /\ Good(Long(Rem(y.n, x.n)))
                 /\ Good(Big(x.n + Rem(y.n, x.n))) /\ Good(Big(Rem(y.n, x.n)))
  <2>1. x.n # 0 => Rem(y.n, x.n) \in Int
    BY <1>1, QuotTyped
  <2>2. ASSUME NEW r \in Int PROVE x.n + r \in Int
    BY <1>1
  <2> QED
    BY <2>1, <2>2, MadeGood
<1>3. PICK a : a = AsDouble(x) /\ Good(a) /\ a.n = x.n /\ a.d = x.d /\ a.im = 0
  BY AsDoubleGood
<1>4. PICK b : b = AsDouble(y) /\ Good(b) /\ b.n = y.n /\ b.d = y.d /\ b.im = 0
  BY AsDoubleGood
<1> DEFINE r == Rem(b.n * a.d, a.n * b.d)
           D == a.d * b.d
<1>5. a.n # 0 /\ a.d # 0 /\ b.d # 0 => Good(Dbl(a.n * b.d + r, D)) /\ Good(Dbl(r, D))
  <2>1. D \in Int /\ b.n * a.d \in Int /\ a.n * b.d \in Int
        /\ (a.d # 0 /\ b.d # 0 => D # 0) /\ (a.n # 0 /\ b.d # 0 => a.n * b.d # 0)
    BY <1>1, <1>3, <1>4, NonZero
  <2>2. a.n # 0 /\ b.d # 0 => r \in Int
    BY <2>1, QuotTyped
  <2>3. a.n # 0 /\ b.d # 0 => a.n * b.d + r \in Int
    <3> HIDE DEF r
    <3> QED
      BY <2>1, <2>2
  <2> HIDE DEF D, r
  <2> QED
    BY <2>1, <2>2, <2>3, MadeGood
<1>6. Good(NaN) /\ Good(Trapped)
  BY MadeGood
<1>7. CASE x.k = "long" /\ y.k = "long"
  BY <1>2, <1>6, <1>7 DEF Modulo
<1>8. CASE x.k = "long" /\ y.k = "big"
  BY <1>2, <1>6, <1>8 DEF Modulo
<1>9. CASE ~(x.k = "long" /\ y.k = "long") /\ ~(x.k = "long" /\ y.k = "big")
  <2>1. IsZero(a) <=> a.n = 0 /\ a.d # 0
    BY <1>3 DEF IsZero
  <2>2. Modulo(x, y) =
          IF IsZero(a) THEN y
          ELSE IF a = NaN \/ ~Finite(b) THEN NaN
          ELSE IF ~Finite(a) THEN IF (a.n < 0) # (b.n < 0) /\ b.n # 0 THEN a ELSE b
          ELSE IF (a.n < 0) # (b.n < 0) /\ r # 0 THEN Dbl(a.n * b.d + r, D) ELSE Dbl(r, D)
    BY <1>3, <1>4, <1>9 DEF Modulo
  <2> HIDE DEF r, D
  <2> QED
    BY <1>3, <1>4, <1>5, <1>6, <2>1, <2>2 DEF Finite
<1> QED
  BY <1>7, <1>8, <1>9

LEMMA IntegralGood ==
  ASSUME NEW x, Good(x), NEW y, Good(y), IsIntegral(x), IsIntegral(y)
  PROVE  Good(Gcd(x, y)) /\ Good(Lcm(x, y))
<1>1. /\ x.n \in Int /\ x.d \in Int /\ x.d # 0 /\ y.n \in Int /\ y.d \in Int /\ y.d # 0
      /\ x.k \notin {"trap", "err"} /\ y.k \notin {"trap", "err"}
  BY Fields DEF IsIntegral
<1> DEFINE long(v, z) == IF v # NoNumber THEN v.n ELSE Clamped(Quot(z.n, z.d))
           of(a, b, g) == IF g = MaxLong + 1 THEN IF 0 \in {a, b} THEN Trapped ELSE Long(MinLong)
                          ELSE Long(g)
<1>2. \A q \in Int : Clamped(q) \in Int
  BY MaxLongAssumption DEF Clamped, MinLong
<1>3. long(AsLong(x), x) \in Int /\ long(AsLong(y), y) \in Int
  BY <1>1, <1>2, QuotTyped, LongTyped, Fields
<1>4. Gcd(x, y) = of(long(AsLong(x), x), long(AsLong(y), y),
                     GcdOf(long(AsLong(x), x), long(AsLong(y), y)))
  BY DEF Gcd
<1> HIDE DEF long
<1>5. \A a, b \in Int : Good(of(a, b, GcdOf(a, b)))
  <2>1. ASSUME NEW a \in Int, NEW b \in Int PROVE Good(Long(GcdOf(a, b)))
    BY GcdOfTyped, MadeGood
  <2>2. Good(Long(MinLong)) /\ Good(Trapped)
    BY MadeGood, MaxLongAssumption DEF MinLong
  <2> QED
    BY <2>1, <2>2
<1>6. Good(Gcd(x, y)) /\ Gcd(x, y).k \in {"long", "trap"}
  <2>1. \A a, b \in Int : of(a, b, GcdOf(a, b)).k \in {"long", "trap"}
    BY DEF Trapped, Long
  <2> HIDE DEF of
  <2> QED
    BY <1>3, <1>4, <1>5, <2>1
<1>7. Good(Lcm(x, y))
  <2>1. ASSUME NEW q, Good(q), q.k = "long"
        PROVE  Good(Long(Magnitude(q.n)))
    BY <2>1, Fields, MagnitudeTyped, MadeGood
  <2>2. Gcd(x, y) # Trapped => Gcd(x, y).k = "long"
    <3>1. \A a, b \in Int : of(a, b, GcdOf(a, b)) # Trapped => of(a, b, GcdOf(a, b)).k = "long"
      BY DEF Long
    <3> HIDE DEF of
    <3> QED
      BY <1>3, <1>4, <3>1
  <2>3. Good(Mul(x, y)) /\ Mul(x, y).k \notin {"trap", "err"}
    <3>1. Mul(x, y).k \notin {"trap", "err"}
      <4>1. \A n \in Int : BigintToKap(n).k \in {"long", "big"} /\ Big(n).k = "big"
        BY DEF BigintToKap, Long, Big
      <4>2. x.n * y.n - x.im * y.im \in Int
        BY Fields, NonZero
      <4> QED
        BY <4>1, <4>2 DEF Mul, Combined, Ruled, IsIntegral
    <3> QED
      BY <3>1, SumsGood
  <2>4. Gcd(x, y) # Trapped => Good(Div(Mul(x, y), Gcd(x, y)))
    BY <1>6, <2>2, <2>3, DivGood
  <2>5. Good(Long(0)) /\ Good(Trapped)
    BY MadeGood
  <2> QED
    BY <1>6, <2>1, <2>4, <2>5 DEF Lcm
<1> QED
  BY <1>6, <1>7

LEMMA WholeGood ==
  ASSUME NEW x, Good(x)
  PROVE  Good(Floor(x)) /\ Good(Ceil(x)) /\ Good(Round(x))
<1>1. x.n \in Int /\ x.d \in Nat /\ -x.n \in Int /\ (x.k = "rat" => x.d # 0)
  BY Fields
<1>2. ASSUME NEW q \in Int PROVE Good(WholeDouble(q)) /\ Good(BigintToKap(q))
  <2>1. Good(Long(q)) /\ Good(Long(MaxLong)) /\ Good(Dbl(q, 1)) /\ Good(BigintToKap(q))
    BY MadeGood, MaxLongAssumption
  <2> QED
    BY <2>1 DEF WholeDouble
<1>3. x.d # 0 => /\ FloorDiv(x.n, x.d) \in Int /\ -FloorDiv(-x.n, x.d) \in Int
  BY <1>1 DEF FloorDiv
<1>4. Good(Long(0)) /\ Good(NoNumber) /\ Good(NaN)
  BY MadeGood
<1>5. Good(Floor(x))
  <2>1. x.d # 0 => Good(BigintToKap(FloorDiv(x.n, x.d))) /\ Good(WholeDouble(FloorDiv(x.n, x.d)))
    BY <1>2, <1>3
  <2> QED
    BY <1>1, <1>4, <2>1 DEF Floor, Finite
<1>6. Good(Ceil(x))
  <2>1. x.d # 0 => Good(BigintToKap(-FloorDiv(-x.n, x.d))) /\ Good(WholeDouble(-FloorDiv(-x.n, x.d)))
    BY <1>2, <1>3
  <2> QED
    BY <1>1, <1>4, <2>1 DEF Ceil, Finite
<1>7. Good(Round(x))
  <2> DEFINE up(q, r) == r > x.d \/ (r = x.d /\ q % 2 # 0)
             nearest(q) == IF up(q, 2 * (x.n - q * x.d)) THEN q + 1 ELSE q
             of(near) == IF x.k = "rat" THEN BigintToKap(near)
                         ELSE IF near >= MinLong /\ near <= MaxAsDouble
                         THEN Long(IF near > MaxLong THEN MaxLong ELSE near) ELSE Dbl(near, 1)
  <2>1. Round(x) = IF x.k = "long" THEN x
                   ELSE IF ~Finite(x) THEN IF x.n = 0 THEN NaN ELSE x
                   ELSE of(nearest(FloorDiv(x.n, x.d)))
    BY DEF Round
  <2>2. \A q \in Int : nearest(q) \in Int
    OBVIOUS
  <2>3. ASSUME NEW q \in Int PROVE Good(of(q))
    <3>1. Good(Long(q)) /\ Good(Long(MaxLong)) /\ Good(Dbl(q, 1)) /\ Good(BigintToKap(q))
      BY MadeGood, MaxLongAssumption
    <3> QED
      BY <3>1
  <2> HIDE DEF of, nearest
  <2> QED
    BY <1>3, <1>4, <2>1, <2>2, <2>3 DEF Finite
<1> QED
  BY <1>5, <1>6, <1>7

-----------------------------------------------------------------------------
(* Powers                                                                  *)

Bases == Int \X Nat
PowerStep(h) == [p \in Bases |-> IF p[2] = 0 THEN 1 ELSE p[1] * h[<<p[1], p[2] - 1>>]]

LEMMA PowerExists == \E g : g = PowerStep(g)
<1> DEFINE V == [Int -> Int]
           start == [x \in Int |-> 1]
           G == [h \in V |-> [x \in Int |-> x * h[x]]]
<1>1. start \in V /\ G \in [V -> V] /\ \A h \in V : G[h] = [x \in Int |-> x * h[x]]
  OBVIOUS
<1> HIDE DEF G
<1>2. PICK f : Endless(V, start, G, f)
  <2> HIDE DEF V, start
  <2> QED
    BY <1>1, EndlessExists
<1>3. /\ \A n \in Nat : f[n] \in V
      /\ f[0] = start
      /\ \A n \in Nat : f[n + 1] = [x \in Int |-> x * f[n][x]]
  BY <1>1, <1>2 DEF Endless
<1> DEFINE g == [p \in Bases |-> f[p[2]][p[1]]]
<1>4. ASSUME NEW p \in Bases PROVE g[p] = PowerStep(g)[p]
  <2>1. PICK x \in Int, n \in Nat : p = <<x, n>>
    BY DEF Bases
  <2>2. g[p] = f[n][x]
    BY <2>1
  <2>3. CASE n = 0
    BY <1>3, <2>1, <2>2, <2>3 DEF PowerStep
  <2>4. CASE n # 0
    <3>1. PICK m \in Nat : m = n - 1 /\ n = m + 1 /\ <<x, m>> \in Bases
      BY <2>4 DEF Bases
    <3>2. f[m + 1] = [y \in Int |-> y * f[m][y]]
      BY <1>3
    <3>3. f[n][x] = x * f[m][x]
      BY <3>1, <3>2
    <3>4. g[<<x, m>>] = f[m][x]
      BY <3>1
    <3> QED
      BY <2>1, <2>2, <2>4, <3>1, <3>3, <3>4 DEF PowerStep
  <2> QED
    BY <2>3, <2>4
<1>5. g = PowerStep(g)
  BY <1>4 DEF PowerStep
<1> QED
  BY <1>5

LEMMA PowerSteps ==
  ASSUME NEW x \in Int
  PROVE  /\ power[<<x, 0>>] = 1
         /\ \A n \in Nat : power[<<x, n + 1>>] = x * power[<<x, n>>]
<1>1. power = CHOOSE g : g = PowerStep(g)
  BY DEF power, PowerStep, Bases
<1>2. power = PowerStep(power)
  BY <1>1, PowerExists
<1>3. \A n \in Nat : <<x, n>> \in Bases
  BY DEF Bases
<1>4. \A n \in Nat : n + 1 \in Nat /\ n + 1 # 0 /\ (n + 1) - 1 = n
  OBVIOUS
<1>5. ASSUME NEW p \in Bases
      PROVE  power[p] = IF p[2] = 0 THEN 1 ELSE p[1] * power[<<p[1], p[2] - 1>>]
  BY <1>2 DEF PowerStep
<1>6. power[<<x, 0>>] = 1
  BY <1>3, <1>5
<1>7. ASSUME NEW n \in Nat PROVE power[<<x, n + 1>>] = x * power[<<x, n>>]
  <2>1. PICK m \in Nat : m = n + 1 /\ m # 0 /\ m - 1 = n /\ <<x, m>> \in Bases
    BY <1>3, <1>4
  <2> QED
    BY <1>5, <2>1
<1> QED
  BY <1>6, <1>7

LEMMA Powers ==
  ASSUME NEW y \in Int
  PROVE  /\ power[<<y, 2>>] = y * y
         /\ \A e \in {-1, 0, 2} : /\ power[<<y, Magnitude(e)>>] \in Int
                                  /\ y # 0 => power[<<y, Magnitude(e)>>] # 0
<1>1. 0 \in Nat /\ 1 \in Nat /\ 0 + 1 = 1 /\ 1 + 1 = 2 /\ y * 1 = y
  OBVIOUS
<1>2. power[<<y, 0>>] = 1 /\ power[<<y, 0 + 1>>] = y * power[<<y, 0>>]
      /\ power[<<y, 1 + 1>>] = y * power[<<y, 1>>]
  BY ONLY <1>1, PowerSteps
<1>3. power[<<y, 0>>] = 1 /\ power[<<y, 1>>] = y /\ power[<<y, 2>>] = y * y
  BY ONLY <1>1, <1>2
<1>4. y * y \in Int /\ (y # 0 => y * y # 0)
  BY NonZero
<1>5. ASSUME NEW e \in {-1, 0, 2}
      PROVE  power[<<y, Magnitude(e)>>] \in Int /\ (y # 0 => power[<<y, Magnitude(e)>>] # 0)
  <2>1. e = -1 \/ e = 0 \/ e = 2
    OBVIOUS
  <2>2. Magnitude(e) = IF e = -1 THEN 1 ELSE e
    BY <2>1 DEF Magnitude
  <2> QED
    BY <1>3, <1>4, <2>1, <2>2
<1> QED
  BY <1>3, <1>5

LEMMA PowGood ==
  ASSUME NEW x, Good(x), NEW e \in {-1, 0, 2}
  PROVE  Good(Pow(x, Long(e)))
<1>1. x.n \in Int /\ x.d \in Int /\ (x.k = "rat" => x.d # 0)
  BY Fields
<1>4. /\ power[<<x.n, Magnitude(e)>>] \in Int
      /\ x.k = "rat" => power[<<x.d, Magnitude(e)>>] \in Int /\ power[<<x.d, Magnitude(e)>>] # 0
  BY <1>1, Powers
<1>5. Good(BigintToKap(power[<<x.n, Magnitude(e)>>])) /\ Good(Trapped) /\ Good(NoNumber)
  BY <1>4, MadeGood
<1>6. power[<<x.n, Magnitude(e)>>] # 0 => /\ Good(Rat(1, power[<<x.n, Magnitude(e)>>]))
                                         /\ Good(RationalToKap(1, power[<<x.n, Magnitude(e)>>]))
  BY <1>4, MadeGood
<1>7. x.k = "rat" => Good(RationalToKap(power[<<x.n, Magnitude(e)>>], power[<<x.d, Magnitude(e)>>]))
  BY <1>4, MadeGood
<1>8. Long(e).k = "long" /\ Long(e).n = e
  BY DEF Long
<1> QED
  BY <1>5, <1>6, <1>7, <1>8 DEF Pow

LEMMA OthersGood ==
  ASSUME NEW x, Good(x), x.k \notin {"trap", "err"}
  PROVE  /\ Good(NotNum(x)) /\ Good(Signum(x)) /\ Good(AsBigint(x)) /\ Good(AsRational(x))
         /\ Good(Numerator(x)) /\ Good(Denominator(x)) /\ Good(Recip(x))
<1>1. x.n \in Int /\ x.d \in Int /\ (IsIntegral(x) \/ x.k = "rat" => x.d # 0)
  BY Fields DEF IsIntegral
<1>2. Good(NotNum(x)) /\ Good(Signum(x))
  BY <1>1, SignTyped, MadeGood DEF NotNum, Signum
<1>3. Good(AsBigint(x)) /\ Good(AsRational(x)) /\ Good(Denominator(x))
  BY <1>1, MadeGood DEF AsBigint, AsRational, Denominator
<1>4. Good(Numerator(x))
  <2>1. Good(AsLong(x)) /\ Good(Big(x.n)) /\ Good(Long(MaxLong)) /\ Good(Long(x.n)) /\ Good(NoNumber)
    BY <1>1, LongTyped, MadeGood, MaxLongAssumption
  <2> QED
    BY <2>1 DEF Numerator
<1>5. Good(Recip(x))
  <2>1. Good(Long(1)) /\ Long(1).k = "long"
    BY MadeGood DEF Long
  <2> QED
    BY <2>1, DivGood DEF Recip
<1> QED
  BY <1>2, <1>3, <1>4, <1>5

-----------------------------------------------------------------------------
(* Values                                                                  *)

(* x is real, finite and in lowest terms; its value is n/d.                 *)
Lowest(x) == /\ x.n \in Int /\ x.d \in Nat \ {0} /\ x.im = 0
             /\ Coprime(Magnitude(x.n), x.d)
Is(x, n, d) == Lowest(x) /\ x.n * d = n * x.d

LEMMA Quotients ==
  ASSUME NEW n \in Int, NEW g \in Int, g # 0, NEW i \in Nat, Magnitude(n) = i * Magnitude(g)
  PROVE  Quot(n, g) = IF (n < 0) = (g < 0) THEN i ELSE -i
<1>1. PICK m \in Nat, h \in Nat \ {0} : m = Magnitude(n) /\ h = Magnitude(g)
  BY MagnitudeTyped
<1>2. m \div h = i
  BY <1>1
<1> QED
  BY <1>1, <1>2 DEF Quot

LEMMA Identity1 ==
  ASSUME NEW s \in {-1, 1}, NEW t \in {-1, 1}, NEW i \in Nat, NEW j \in Nat, NEW h \in Nat
  PROVE  ((s * t) * i) * (t * (j * h)) = (s * (i * h)) * j
OBVIOUS

LEMMA ReducedIs ==
  ASSUME NEW k, NEW n \in Int, NEW d \in Int, d # 0
  PROVE  /\ Is(Reduced(k, n, 0, d), n, d)
         /\ Reduced(k, n, 0, d).k = k
<1>1. PICK a \in Nat, b \in Nat \ {0} : a = Magnitude(n) /\ b = Magnitude(d)
  BY MagnitudeTyped
<1>2. GcdOf(n, 0) = a
  <2>1. Magnitude(0) = 0
    BY DEF Magnitude
  <2>2. a \in Nat /\ 0 \in Nat
    OBVIOUS
  <2>3. gcd[<<a, 0>>] = IF 0 = 0 THEN a ELSE gcd[<<0, a % 0>>]
    BY ONLY <2>2, GcdSteps
  <2> QED
    BY <1>1, <2>1, <2>3 DEF GcdOf
<1>3. PICK h \in Nat : h = gcd[<<a, b>>] /\ GcdFacts(a, b, h)
  <2>1. GcdFacts(a, b, gcd[<<a, b>>])
    BY GcdIs
  <2>2. gcd[<<a, b>>] \in Nat
    BY <2>1 DEF GcdFacts
  <2> QED
    BY <2>1, <2>2
<1>4. PICK u \in Int, v \in Int : h = u * a + v * b
  BY <1>3 DEF GcdFacts
<1>5. PICK i \in Nat, j \in Nat : a = i * h /\ b = j * h
  BY <1>3 DEF GcdFacts
<1>6. h # 0 /\ j # 0
  BY <1>5
<1>7. Coprime(i, j)
  <2>1. u * i + v * j \in Int /\ (u * i + v * j) * h = 1 * h
    BY <1>4, <1>5, Multiply
  <2>2. u * i + v * j = 1
    BY <1>6, <2>1, Multiply
  <2> QED
    BY <2>2 DEF Coprime
<1> DEFINE g == (IF d < 0 THEN -1 ELSE 1) * h
<1>8. g \in Int /\ g # 0 /\ Magnitude(g) = h /\ ((d < 0) = (g < 0))
  BY <1>6 DEF Magnitude
<1>9. Reduced(k, n, 0, d) = [k |-> k, n |-> Quot(n, g), im |-> Quot(0, g), d |-> Quot(d, g)]
  BY <1>1, <1>2, <1>3 DEF Reduced
<1> HIDE DEF g
<1>10. Quot(d, g) = j /\ Quot(0, g) = 0
  <2>1. Magnitude(0) = 0 * Magnitude(g)
    BY <1>6, <1>8 DEF Magnitude
  <2>2. Magnitude(d) = j * Magnitude(g)
    BY <1>1, <1>5, <1>8
  <2> QED
    BY <1>8, <2>1, <2>2, Quotients
<1>11. PICK m \in Int : m = Quot(n, g) /\ m = IF (n < 0) = (d < 0) THEN i ELSE -i
  <2>1. Magnitude(n) = i * Magnitude(g)
    BY <1>1, <1>5, <1>8
  <2>2. Quot(n, g) = IF (n < 0) = (g < 0) THEN i ELSE -i
    BY <1>8, <2>1, Quotients
  <2>3. d < 0 <=> g < 0
    BY <1>8
  <2>4. Quot(n, g) = IF (n < 0) = (d < 0) THEN i ELSE -i
    BY <2>2, <2>3
  <2>5. i \in Int /\ -i \in Int
    OBVIOUS
  <2> QED
    BY <2>4, <2>5
<1>12. Magnitude(m) = i
  BY <1>11 DEF Magnitude
<1>13. m * d = n * j
  <2>1. d = IF d < 0 THEN -(j * h) ELSE j * h
    BY <1>1, <1>5 DEF Magnitude
  <2>2. n = IF n < 0 THEN -(i * h) ELSE i * h
    BY <1>1, <1>5 DEF Magnitude
  <2>3. i * (j * h) = (i * h) * j /\ i * (j * h) \in Int
    BY Multiply
  <2> QED
    BY <1>11, <2>1, <2>2, <2>3
<1> QED
  BY <1>6, <1>7, <1>9, <1>10, <1>11, <1>12, <1>13 DEF Is, Lowest

LEMMA IntegersAre ==
  ASSUME NEW n \in Int
  PROVE  Is(Long(n), n, 1) /\ Is(Big(n), n, 1) /\ Is(BigintToKap(n), n, 1)
<1>1. Coprime(Magnitude(n), 1)
  <2>1. 0 * Magnitude(n) + 1 * 1 = 1
    BY MagnitudeTyped
  <2> QED
    BY <2>1 DEF Coprime
<1> QED
  BY <1>1 DEF Is, Lowest, Long, Big, BigintToKap

(* Machine integers are in range, and integers have no denominator.         *)
Fits(x) == /\ Exact(x) /\ Lowest(x)
           /\ IsIntegral(x) => x.d = 1
           /\ x.k = "long" => InLong(x.n)

LEMMA KapIs ==
  ASSUME NEW n \in Int
  PROVE  Is(BigintToKap(n), n, 1) /\ Fits(BigintToKap(n)) /\ Fits(Big(n))
         /\ (InLong(n) => Fits(Long(n)))
BY IntegersAre DEF Is, Fits, Exact, IsIntegral, BigintToKap, Long, Big

LEMMA RationalsAre ==
  ASSUME NEW n \in Int, NEW d \in Int, d # 0
  PROVE  /\ Is(Rat(n, d), n, d) /\ Fits(Rat(n, d)) /\ Rat(n, d).k = "rat"
         /\ Is(Dbl(n, d), n, d) /\ Dbl(n, d).k = "dbl"
         /\ Is(RationalToKap(n, d), n, d) /\ Fits(RationalToKap(n, d))
<1>1. Is(Rat(n, d), n, d) /\ Rat(n, d).k = "rat" /\ Is(Dbl(n, d), n, d) /\ Dbl(n, d).k = "dbl"
  BY ReducedIs DEF Rat, Dbl
<1>2. Fits(Rat(n, d))
  BY <1>1 DEF Fits, Exact, IsIntegral, Is
<1>3. CASE Rat(n, d).d = 1
  <2>1. RationalToKap(n, d) = BigintToKap(Rat(n, d).n) /\ Rat(n, d).n \in Int /\ Rat(n, d).n * d = n
    BY <1>1, <1>3 DEF RationalToKap, Is, Lowest
  <2>2. Is(BigintToKap(Rat(n, d).n), Rat(n, d).n, 1) /\ Fits(BigintToKap(Rat(n, d).n))
    BY <2>1, KapIs
  <2>3. BigintToKap(Rat(n, d).n).n = Rat(n, d).n /\ BigintToKap(Rat(n, d).n).d = 1
    BY DEF BigintToKap, Long, Big
  <2>4. Is(BigintToKap(Rat(n, d).n), n, d)
    BY <2>1, <2>2, <2>3 DEF Is
  <2> QED
    BY <1>1, <1>2, <2>1, <2>2, <2>4
<1>4. CASE Rat(n, d).d # 1
  BY <1>1, <1>2, <1>4 DEF RationalToKap
<1> QED
  BY <1>3, <1>4

LEMMA IsUnique ==
  ASSUME NEW x, NEW y, NEW n \in Int, NEW d \in Int, NEW m \in Int, NEW e \in Int,
         d # 0, e # 0, Is(x, n, d), Is(y, m, e), Equal(n, d, m, e)
  PROVE  SameNumber(x, y)
<1>1. PICK a \in Int, p \in Nat \ {0} : a = x.n /\ p = x.d /\ Coprime(Magnitude(a), p) /\ a * d = n * p
  BY DEF Is, Lowest
<1>2. PICK b \in Int, q \in Nat \ {0} : b = y.n /\ q = y.d /\ Coprime(Magnitude(b), q) /\ b * e = m * q
  BY DEF Is, Lowest
<1>3. n * e = m * d
  BY DEF Equal
<1>4. (a * q) * (d * e) = (b * p) * (d * e)
  <2>1. (a * q) * (d * e) = ((a * d) * e) * q
    OBVIOUS
  <2>2. ((n * p) * e) * q = ((n * e) * p) * q
    OBVIOUS
  <2>3. ((m * d) * p) * q = ((m * q) * d) * p
    OBVIOUS
  <2>4. ((b * e) * d) * p = (b * p) * (d * e)
    OBVIOUS
  <2> QED
    BY <1>1, <1>2, <1>3, <2>1, <2>2, <2>3, <2>4
<1>5. d * e \in Int /\ d * e # 0 /\ a * q \in Int /\ b * p \in Int
  BY NonZero
<1>6. a * q = b * p
  BY <1>4, <1>5, Multiply
<1>7. a = b /\ p = q
  BY <1>1, <1>2, <1>6, LowestUnique
<1> QED
  BY <1>1, <1>2, <1>7 DEF SameNumber

-----------------------------------------------------------------------------
(* What the exact operations compute                                       *)

LEMMA FitsFields ==
  ASSUME NEW x, Fits(x)
  PROVE  /\ x.n \in Int /\ x.d \in Nat \ {0} /\ x.im = 0 /\ Finite(x)
         /\ x.k \in {"long", "big", "rat"}
         /\ x.k \in {"long", "big"} => x.d = 1
         /\ x.k = "long" => InLong(x.n)
         /\ Is(x, x.n, x.d)
BY DEF Fits, Lowest, Exact, IsIntegral, Finite, Is

Allowed(x, y) == {x.k, y.k} # {"big", "rat"}

LEMMA CombinedIs ==
  ASSUME NEW x, Fits(x), NEW y, Fits(y), NEW n \in Int, NEW im, NEW d \in Nat \ {0},
         x.d = 1 /\ y.d = 1 => d = 1,
         NEW dbl, Is(dbl, n, d)
  PROVE  /\ Is(Combined(x, y, n, im, d, dbl), n, d)
         /\ Allowed(x, y) => Fits(Combined(x, y, n, im, d, dbl))
         /\ x.k = "long" /\ y.k = "long" => Combined(x, y, n, im, d, dbl) = BigintToKap(n)
<1> DEFINE c == Combined(x, y, n, im, d, dbl)
<1>1. /\ x.k \in {"long", "big", "rat"} /\ y.k \in {"long", "big", "rat"}
      /\ x.k \in {"long", "big"} => x.d = 1
      /\ y.k \in {"long", "big"} => y.d = 1
  BY FitsFields
<1>2. CASE x.k = "long" /\ y.k = "long"
  <2>1. c = BigintToKap(n) /\ d = 1
    BY <1>1, <1>2 DEF Combined
  <2> QED
    BY <2>1, KapIs
<1>3. CASE ~(x.k = "long" /\ y.k = "long") /\ {x.k, y.k} \subseteq {"long", "big"}
  <2>1. c = Big(n) /\ d = 1
    <3>1. "big" \in {x.k, y.k} /\ Ruled(x, y)
      BY <1>1, <1>3 DEF Ruled
    <3>2. c = Big(n)
      BY <1>3, <3>1 DEF Combined
    <3> QED
      BY <1>1, <1>3, <3>2
  <2> QED
    BY <1>3, <2>1, KapIs, IntegersAre
<1>4. CASE "rat" \in {x.k, y.k} /\ "big" \notin {x.k, y.k}
  <2>1. Ruled(x, y)
    BY <1>1, <1>4 DEF Ruled
  <2>2. c = RationalToKap(n, d)
    <3>1. ~(x.k = "long" /\ y.k = "long") /\ "rat" \in {x.k, y.k} /\ "big" \notin {x.k, y.k}
      BY <1>4
    <3> QED
      BY <1>1, <2>1, <3>1 DEF Combined
  <2> QED
    BY <1>4, <2>2, RationalsAre
<1>5. CASE "rat" \in {x.k, y.k} /\ "big" \in {x.k, y.k}
  <2>1. ~Ruled(x, y) /\ ~(x.k = "long" /\ y.k = "long")
    BY <1>1, <1>5 DEF Ruled
  <2>2. c = dbl
    BY <1>1, <1>5, <2>1 DEF Combined
  <2>3. ~Allowed(x, y)
    BY <1>1, <1>5 DEF Allowed
  <2> QED
    BY <1>5, <2>1, <2>2, <2>3
<1> QED
  BY <1>1, <1>2, <1>3, <1>4, <1>5

LEMMA DoublesAre ==
  ASSUME NEW x, Fits(x), NEW y, Fits(y)
  PROVE  /\ Is(DblAdd(AsDouble(x), AsDouble(y)), x.n * y.d + y.n * x.d, x.d * y.d)
         /\ Is(DblAdd(AsDouble(x), DblNeg(AsDouble(y))), x.n * y.d - y.n * x.d, x.d * y.d)
         /\ Is(DblMul(AsDouble(x), AsDouble(y)), x.n * y.n, x.d * y.d)
<1>1. /\ x.n \in Int /\ x.d \in Nat \ {0} /\ y.n \in Int /\ y.d \in Nat \ {0}
  BY FitsFields
<1>2. /\ AsDouble(x).n = x.n /\ AsDouble(x).d = x.d
      /\ AsDouble(y).n = y.n /\ AsDouble(y).d = y.d
      /\ DblNeg(AsDouble(y)).n = -y.n /\ DblNeg(AsDouble(y)).d = y.d
  BY DEF AsDouble, DblNeg
<1>3. x.d * y.d \in Int /\ x.d * y.d # 0
  BY <1>1, NonZero
<1>4. Is(DblAdd(AsDouble(x), AsDouble(y)), x.n * y.d + y.n * x.d, x.d * y.d)
  <2>1. DblAdd(AsDouble(x), AsDouble(y)) = Dbl(x.n * y.d + y.n * x.d, x.d * y.d)
    BY <1>1, <1>2 DEF DblAdd, Finite
  <2>2. x.n * y.d + y.n * x.d \in Int
    BY <1>1, NonZero
  <2> QED
    BY <1>3, <2>1, <2>2, RationalsAre
<1>5. Is(DblAdd(AsDouble(x), DblNeg(AsDouble(y))), x.n * y.d - y.n * x.d, x.d * y.d)
  <2>1. DblAdd(AsDouble(x), DblNeg(AsDouble(y))) = Dbl(x.n * y.d + (-y.n) * x.d, x.d * y.d)
    BY <1>1, <1>2 DEF DblAdd, Finite
  <2>2. x.n * y.d - y.n * x.d \in Int /\ x.n * y.d + (-y.n) * x.d = x.n * y.d - y.n * x.d
    <3>1. \A a, b, c \in Int : c + (-a) * b = c - a * b
      OBVIOUS
    <3> QED
      BY <1>1, <3>1, NonZero
  <2> QED
    BY <1>3, <2>1, <2>2, RationalsAre
<1>6. Is(DblMul(AsDouble(x), AsDouble(y)), x.n * y.n, x.d * y.d)
  <2>1. DblMul(AsDouble(x), AsDouble(y)) = Dbl(x.n * y.n, x.d * y.d)
    BY <1>1, <1>2 DEF DblMul, Finite
  <2> QED
    BY <1>1, <1>3, <2>1, NonZero, RationalsAre
<1> QED
  BY <1>4, <1>5, <1>6

LEMMA SumsAre ==
  ASSUME NEW x, Fits(x), NEW y, Fits(y)
  PROVE  /\ Is(Add(x, y), x.n * y.d + y.n * x.d, x.d * y.d)
         /\ Is(Sub(x, y), x.n * y.d - y.n * x.d, x.d * y.d)
         /\ Is(Mul(x, y), x.n * y.n, x.d * y.d)
         /\ Allowed(x, y) => Fits(Add(x, y)) /\ Fits(Sub(x, y)) /\ Fits(Mul(x, y))
         /\ x.k = "long" /\ y.k = "long" =>
              Add(x, y) = BigintToKap(x.n + y.n) /\ Mul(x, y) = BigintToKap(x.n * y.n)
<1>1. /\ x.n \in Int /\ x.d \in Nat \ {0} /\ y.n \in Int /\ y.d \in Nat \ {0}
      /\ x.im = 0 /\ y.im = 0
  BY FitsFields
<1>2. PICK d \in Nat \ {0} : d = x.d * y.d
  BY <1>1
<1>3. x.d = 1 /\ y.d = 1 => d = 1
  BY <1>2
<1>4. /\ Is(Add(x, y), x.n * y.d + y.n * x.d, d)
      /\ Allowed(x, y) => Fits(Add(x, y))
      /\ x.k = "long" /\ y.k = "long" => Add(x, y) = BigintToKap(x.n * y.d + y.n * x.d)
  <2>1. PICK n \in Int : n = x.n * y.d + y.n * x.d
    BY <1>1, NonZero
  <2>2. Is(DblAdd(AsDouble(x), AsDouble(y)), n, d)
    BY <1>2, <2>1, DoublesAre
  <2> QED
    BY <1>2, <1>3, <2>1, <2>2, CombinedIs DEF Add
<1>5. /\ Is(Sub(x, y), x.n * y.d - y.n * x.d, d)
      /\ Allowed(x, y) => Fits(Sub(x, y))
  <2>1. PICK n \in Int : n = x.n * y.d - y.n * x.d
    BY <1>1, NonZero
  <2>2. Is(DblAdd(AsDouble(x), DblNeg(AsDouble(y))), n, d)
    BY <1>2, <2>1, DoublesAre
  <2> QED
    BY <1>2, <1>3, <2>1, <2>2, CombinedIs DEF Sub
<1>6. /\ Is(Mul(x, y), x.n * y.n, d)
      /\ Allowed(x, y) => Fits(Mul(x, y))
      /\ x.k = "long" /\ y.k = "long" => Mul(x, y) = BigintToKap(x.n * y.n)
  <2>1. PICK n \in Int : n = x.n * y.n /\ n = x.n * y.n - x.im * y.im
    BY <1>1, NonZero
  <2>2. Is(DblMul(AsDouble(x), AsDouble(y)), n, d)
    BY <1>2, <2>1, DoublesAre
  <2> QED
    BY <1>2, <1>3, <2>1, <2>2, CombinedIs DEF Mul
<1>7. x.k = "long" /\ y.k = "long" => x.n * y.d + y.n * x.d = x.n + y.n
  BY <1>1, FitsFields
<1> QED
  BY <1>2, <1>4, <1>5, <1>6, <1>7

(* Division towards zero.                                                   *)
LEMMA QuotRem ==
  ASSUME NEW a \in Int, NEW b \in Int, b # 0
  PROVE  /\ Quot(a, b) \in Int /\ Rem(a, b) \in Int
         /\ a = b * Quot(a, b) + Rem(a, b)
         /\ Magnitude(Rem(a, b)) < Magnitude(b)
         /\ Rem(a, b) > 0 => a > 0
         /\ Rem(a, b) < 0 => a < 0
<1>1. PICK p \in Nat, h \in Nat \ {0} : p = Magnitude(a) /\ h = Magnitude(b)
  BY MagnitudeTyped
<1>2. PICK q \in Nat : q = p \div h
  BY <1>1
<1>3. PICK r \in Nat : r = p % h /\ r < h
  BY <1>1
<1>4. p = h * q + r
  <2>1. p = h * (p \div h) + (p % h)
    OBVIOUS
  <2> QED
    BY <1>2, <1>3, <2>1
<1>5. PICK k \in Int : k = Quot(a, b) /\ k = (IF (a < 0) = (b < 0) THEN 1 ELSE -1) * q
  BY <1>1, <1>2 DEF Quot
<1>6. b * k = IF a < 0 THEN -(h * q) ELSE h * q
  <2>1. b = IF b < 0 THEN -h ELSE h
    BY <1>1 DEF Magnitude
  <2>2. k = IF (a < 0) = (b < 0) THEN q ELSE -q
    BY <1>5
  <2>3. (-h) * q = -(h * q) /\ h * (-q) = -(h * q) /\ (-h) * (-q) = h * q
    OBVIOUS
  <2>4. CASE a < 0
    BY <2>1, <2>2, <2>3, <2>4
  <2>5. CASE ~(a < 0)
    BY <2>1, <2>2, <2>3, <2>5
  <2> QED
    BY <2>4, <2>5
<1>7. a = IF a < 0 THEN -p ELSE p
  BY <1>1 DEF Magnitude
<1>8. b * k \in Int /\ h * q \in Int
  BY Multiply
<1>9. PICK m \in Int : m = Rem(a, b) /\ m = a - b * k
  BY <1>5, <1>8 DEF Rem
<1>10. m = IF a < 0 THEN -r ELSE r
  BY <1>4, <1>6, <1>7, <1>8, <1>9
<1>11. Magnitude(m) = r
  BY <1>10 DEF Magnitude
<1>12. a = b * k + m
  BY <1>8, <1>9
<1> QED
  BY <1>1, <1>3, <1>5, <1>7, <1>9, <1>10, <1>11, <1>12

LEMMA DivIs ==
  ASSUME NEW y, Fits(y), NEW x, Fits(x)
  PROVE  /\ Fits(Div(y, x))
         /\ x.n # 0 => Is(Div(y, x), y.n * x.d, y.d * x.n)
<1>1. /\ x.n \in Int /\ x.d \in Nat \ {0} /\ y.n \in Int /\ y.d \in Nat \ {0}
      /\ x.k \in {"long", "big", "rat"} /\ y.k \in {"long", "big", "rat"}
      /\ x.k \in {"long", "big"} => x.d = 1
      /\ y.k \in {"long", "big"} => y.d = 1
  BY FitsFields
<1>2. CASE x.n = 0
  <2>1. Div(y, x) = Long(0)
    BY <1>1, <1>2 DEF Div
  <2> QED
    BY <1>2, <2>1, KapIs, MaxLongAssumption DEF InLong, MinLong
<1>3. CASE x.n # 0 /\ "rat" \in {x.k, y.k}
  <2>1. Div(y, x) = RationalToKap(y.n * x.d, y.d * x.n)
    BY <1>1, <1>3 DEF Div
  <2>2. y.n * x.d \in Int /\ y.d * x.n \in Int /\ y.d * x.n # 0
    BY <1>1, <1>3, NonZero
  <2> QED
    BY <2>1, <2>2, RationalsAre
<1>4. CASE x.n # 0 /\ "rat" \notin {x.k, y.k}
  <2>1. PICK a \in Int, b \in Int : a = y.n /\ b = x.n /\ b # 0
    BY <1>1, <1>4
  <2>2. x.d = 1 /\ y.d = 1 /\ y.n * x.d = a /\ y.d * x.n = b
    BY <1>1, <1>4, <2>1
  <2>3. PICK q \in Int : q = Quot(a, b) /\ (Rem(a, b) = 0 => a = q * b)
    <3>1. Quot(a, b) \in Int /\ a = b * Quot(a, b) + Rem(a, b)
      BY <2>1, QuotRem
    <3> QED
      BY <3>1, Multiply
  <2>4. /\ Is(Rat(a, b), a, b) /\ Fits(Rat(a, b))
        /\ Is(Big(q), q, 1) /\ Is(Long(q), q, 1)
        /\ Fits(Big(q)) /\ (InLong(q) => Fits(Long(q)))
    BY <2>1, RationalsAre, IntegersAre, KapIs
  <2>5. Rem(a, b) = 0 => Is(Big(q), a, b) /\ Is(Long(q), a, b)
    BY <2>3, <2>4 DEF Is, Big, Long
  <2>6. CASE y.k = "long" /\ x.k = "long"
    <3>1. Div(y, x) = IF a = MinLong /\ b = -1 THEN Big(MaxLong + 1)
                      ELSE IF Rem(a, b) = 0 THEN Long(q) ELSE Rat(a, b)
      BY <2>1, <2>3, <2>6 DEF Div
    <3>2. CASE a = MinLong /\ b = -1
      <4>1. Is(Big(MaxLong + 1), MaxLong + 1, 1) /\ Fits(Big(MaxLong + 1))
        BY MaxLongAssumption, IntegersAre, KapIs
      <4>2. Is(Big(MaxLong + 1), a, b)
        BY <3>2, <4>1, MaxLongAssumption DEF Is, Big, MinLong
      <4> QED
        BY <2>2, <3>1, <3>2, <4>1, <4>2
    <3>3. CASE ~(a = MinLong /\ b = -1) /\ Rem(a, b) = 0
      <4>1. InLong(a) /\ a = q * b
        BY <2>1, <2>3, <2>6, <3>3, FitsFields
      <4>2. InLong(q)
        <5>1. MaxLong \in Nat
          BY MaxLongAssumption
        <5>2. CASE b > 0
          <6>1. (q >= 0 => q <= q * b) /\ (q <= 0 => q * b <= q)
            BY <5>2
          <6> QED
            BY <4>1, <5>1, <6>1 DEF InLong, MinLong
        <5>3. CASE b = -1
          BY <3>3, <4>1, <5>1, <5>3 DEF InLong, MinLong
        <5>4. CASE b < -1
          <6>1. PICK c \in Nat : c = -b /\ c >= 2
            BY <5>4
          <6>2. a = -(q * c) /\ q * c \in Int
            BY <4>1, <6>1
          <6>3. (q >= 0 => 2 * q <= q * c) /\ (q <= 0 => q * c <= 2 * q)
            BY <6>1
          <6> QED
            BY <4>1, <5>1, <6>2, <6>3 DEF InLong, MinLong
        <5> QED
          BY <2>1, <5>2, <5>3, <5>4
      <4> QED
        BY <2>2, <2>4, <2>5, <3>1, <3>3, <4>2
    <3>4. CASE ~(a = MinLong /\ b = -1) /\ Rem(a, b) # 0
      BY <2>2, <2>4, <3>1, <3>4
    <3> QED
      BY <3>2, <3>3, <3>4
  <2>7. CASE ~(y.k = "long" /\ x.k = "long")
    <3>1. Div(y, x) = IF Rem(a, b) = 0 THEN Big(q) ELSE Rat(a, b)
      BY <1>1, <1>4, <2>1, <2>3, <2>7 DEF Div
    <3> QED
      BY <2>2, <2>4, <2>5, <3>1
  <2> QED
    BY <2>6, <2>7
<1> QED
  BY <1>2, <1>3, <1>4

LEMMA NegIs ==
  ASSUME NEW x, Fits(x)
  PROVE  /\ Fits(Neg(x)) /\ Is(Neg(x), -x.n, x.d)
         /\ Neg(x).n = -x.n /\ Neg(x).d = x.d
<1>1. /\ x.n \in Int /\ x.d \in Nat \ {0} /\ -x.n \in Int /\ x.im = 0
      /\ x.k \in {"long", "big", "rat"} /\ (x.k \in {"long", "big"} => x.d = 1)
  BY FitsFields
<1>2. CASE x.k = "long"
  <2>1. Neg(x) = BigintToKap(-x.n) /\ x.d = 1
    BY <1>1, <1>2 DEF Neg
  <2>2. BigintToKap(-x.n).n = -x.n /\ BigintToKap(-x.n).d = 1
    BY DEF BigintToKap, Long, Big
  <2> QED
    BY <1>1, <2>1, <2>2, KapIs
<1>3. CASE x.k = "big"
  <2>1. x.d = 1
    BY <1>1, <1>3
  <2>2. Neg(x) = [x EXCEPT !.n = -@]
    BY <1>3 DEF Neg
  <2>3. Neg(x).n = -x.n /\ Neg(x).d = 1 /\ Neg(x).im = 0 /\ Neg(x).k = "big"
    BY <1>1, <1>3, <2>1, <2>2
  <2>4. Is(Big(-x.n), -x.n, 1) /\ Big(-x.n).n = -x.n /\ Big(-x.n).d = 1 /\ Big(-x.n).im = 0
    BY <1>1, IntegersAre DEF Big
  <2>5. Is(Neg(x), -x.n, 1)
    BY <2>3, <2>4 DEF Is, Lowest
  <2> QED
    BY <2>1, <2>3, <2>5 DEF Fits, Exact, IsIntegral, Is
<1>4. CASE x.k = "rat"
  <2>1. Neg(x) = RationalToKap(-x.n, x.d)
    BY <1>4 DEF Neg
  <2>2. Is(Neg(x), -x.n, x.d) /\ Fits(Neg(x))
    BY <1>1, <2>1, RationalsAre
  <2> DEFINE r == [k |-> "rat", n |-> -x.n, im |-> 0, d |-> x.d]
  <2>3. Is(r, -x.n, x.d)
    <3>1. Magnitude(-x.n) = Magnitude(x.n)
      BY <1>1 DEF Magnitude
    <3>2. Coprime(Magnitude(x.n), x.d)
      BY DEF Fits, Lowest
    <3> QED
      BY <1>1, <3>1, <3>2 DEF Is, Lowest
  <2>4. Equal(-x.n, x.d, -x.n, x.d) /\ x.d \in Int /\ x.d # 0
    BY <1>1 DEF Equal
  <2>5. SameNumber(Neg(x), r)
    <3> HIDE DEF r
    <3> QED
      BY <1>1, <2>2, <2>3, <2>4, IsUnique
  <2> QED
    BY <2>2, <2>5 DEF SameNumber
<1> QED
  BY <1>1, <1>2, <1>3, <1>4

-----------------------------------------------------------------------------
(* Rounding                                                                *)

LEMMA FloorIs ==
  ASSUME NEW x, Fits(x)
  PROVE  /\ Fits(Floor(x)) /\ Fits(Ceil(x))
         /\ Floor(x).d = 1 /\ Ceil(x).d = 1
         /\ Floor(x).n = FloorDiv(x.n, x.d) /\ Ceil(x).n = -FloorDiv(-x.n, x.d)
<1>1. /\ x.n \in Int /\ x.d \in Nat \ {0} /\ -x.n \in Int
      /\ x.k \in {"long", "big", "rat"} /\ (x.k \in {"long", "big"} => x.d = 1)
  BY FitsFields
<1>2. FloorDiv(x.n, x.d) \in Int /\ -FloorDiv(-x.n, x.d) \in Int
  BY <1>1 DEF FloorDiv
<1>3. CASE x.k \in {"long", "big"}
  <2>1. Floor(x) = x /\ Ceil(x) = x
    BY <1>3 DEF Floor, Ceil, IsIntegral
  <2>2. \A n \in Int : n \div 1 = n /\ -((-n) \div 1) = n
    OBVIOUS
  <2> QED
    BY <1>1, <1>3, <2>1, <2>2 DEF FloorDiv
<1>4. CASE x.k = "rat"
  <2>1. /\ Floor(x) = BigintToKap(FloorDiv(x.n, x.d))
        /\ Ceil(x) = BigintToKap(-FloorDiv(-x.n, x.d))
    BY <1>4 DEF Floor, Ceil, IsIntegral
  <2>2. \A n \in Int : BigintToKap(n).n = n /\ BigintToKap(n).d = 1
    BY DEF BigintToKap, Long, Big
  <2> QED
    BY <1>2, <2>1, <2>2, KapIs
<1> QED
  BY <1>1, <1>3, <1>4

LEMMA FloorDivIs ==
  ASSUME NEW n \in Int, NEW d \in Nat \ {0}
  PROVE  FloorDiv(n, d) \in Int /\ FloorDiv(n, d) * d <= n /\ n < (FloorDiv(n, d) + 1) * d
<1>1. PICK q \in Int : q = n \div d
  OBVIOUS
<1>2. PICK r \in Nat : r = n % d /\ r < d
  OBVIOUS
<1>3. n = d * q + r
  <2>1. n = d * (n \div d) + (n % d)
    OBVIOUS
  <2> QED
    BY <1>1, <1>2, <2>1
<1>4. d * q = q * d /\ (q + 1) * d = q * d + d /\ q * d \in Int
  OBVIOUS
<1> QED
  BY <1>1, <1>2, <1>3, <1>4 DEF FloorDiv

-----------------------------------------------------------------------------
(* Remainders                                                              *)

(* r is the remainder of y by x, with the sign of x.                        *)
Remainder(y, x, r) ==
  /\ r \in Int /\ \E k \in Int : y = x * k + r
  /\ IF x > 0 THEN 0 <= r /\ r < x ELSE x < r /\ r <= 0

LEMMA RemainderUnique ==
  ASSUME NEW y \in Int, NEW x \in Int, x # 0, NEW r, NEW s, Remainder(y, x, r), Remainder(y, x, s)
  PROVE  r = s
<1>1. PICK k \in Int : y = x * k + r
  BY DEF Remainder
<1>2. PICK l \in Int : y = x * l + s
  BY DEF Remainder
<1>3. /\ r \in Int /\ s \in Int
      /\ IF x > 0 THEN 0 <= r /\ r < x ELSE x < r /\ r <= 0
      /\ IF x > 0 THEN 0 <= s /\ s < x ELSE x < s /\ s <= 0
  BY DEF Remainder
<1>4. PICK j \in Int : j = k - l /\ x * j = s - r
  <2>1. x * (k - l) = x * k - x * l /\ x * k \in Int /\ x * l \in Int
    OBVIOUS
  <2> QED
    BY <1>1, <1>2, <1>3, <2>1
<1>5. j = 0
  <2>1. CASE x > 0
    <3>1. -x < x * j /\ x * j < x
      BY <1>3, <1>4, <2>1
    <3>2. (j >= 1 => x * j >= x) /\ (j <= -1 => x * j <= -x)
      BY <2>1
    <3> QED
      BY <3>1, <3>2
  <2>2. CASE x < 0
    <3>1. PICK m \in Nat \ {0} : m = -x
      BY <2>2
    <3>2. x * j = -(m * j) /\ m * j \in Int
      BY <3>1
    <3>3. -m < m * j /\ m * j < m
      BY <1>3, <1>4, <2>2, <3>1, <3>2
    <3>4. (j >= 1 => m * j >= m) /\ (j <= -1 => m * j <= -m)
      BY <3>1
    <3> QED
      BY <3>3, <3>4
  <2> QED
    BY <2>1, <2>2
<1> QED
  BY <1>3, <1>4, <1>5

LEMMA AdjustedIs ==
  ASSUME NEW y \in Int, NEW x \in Int, x # 0, NEW b \in BOOLEAN,
         Rem(y, x) # 0 => (b <=> (x < 0) # (Rem(y, x) < 0))
  PROVE  Remainder(y, x, IF b /\ Rem(y, x) # 0 THEN x + Rem(y, x) ELSE Rem(y, x))
<1>1. PICK r \in Int : r = Rem(y, x) /\ Magnitude(r) < Magnitude(x)
  BY QuotRem
<1>2. PICK q \in Int : y = x * q + r
  BY <1>1, QuotRem
<1>3. y = x * (q - 1) + (x + r) /\ q - 1 \in Int
  BY <1>2
<1>4. /\ x > 0 => -x < r /\ r < x
      /\ x < 0 => x < r /\ r < -x
  BY <1>1 DEF Magnitude
<1>5. CASE b /\ r # 0
  <2>1. (x < 0) # (r < 0)
    BY <1>1, <1>5
  <2>2. IF x > 0 THEN 0 <= x + r /\ x + r < x ELSE x < x + r /\ x + r <= 0
    BY <1>4, <1>5, <2>1
  <2>3. Remainder(y, x, x + r)
    BY <1>3, <2>2 DEF Remainder
  <2> QED
    BY <1>1, <1>5, <2>3
<1>6. CASE ~(b /\ r # 0)
  <2>1. r = 0 \/ ((x < 0) = (r < 0))
    BY <1>1, <1>6
  <2>2. IF x > 0 THEN 0 <= r /\ r < x ELSE x < r /\ r <= 0
    BY <1>4, <2>1
  <2>3. Remainder(y, x, r)
    BY <1>2, <2>2 DEF Remainder
  <2> QED
    BY <1>1, <1>6, <2>3
<1> QED
  BY <1>5, <1>6

LEMMA ModuloIs ==
  ASSUME NEW x, Fits(x), x.k = "long", NEW y, Fits(y), IsIntegral(y), x.n # 0, Modulo(x, y) # Trapped
  PROVE  Remainder(y.n, x.n, Modulo(x, y).n)
<1>1. x.n \in Int /\ y.n \in Int
  BY FitsFields
<1>2. PICK a \in Int, c \in Int, r \in Int : a = x.n /\ c = y.n /\ r = Rem(c, a) /\ a # 0
  BY <1>1, QuotRem
<1>3. (r > 0 => c > 0) /\ (r < 0 => c < 0)
  BY <1>2, QuotRem
<1>4. CASE y.k = "long"
  <2>1. PICK b \in BOOLEAN : b <=> (a < 0) # (c < 0)
    OBVIOUS
  <2>2. Modulo(x, y) = Long(IF b /\ r # 0 THEN a + r ELSE r)
    BY <1>2, <1>4, <2>1 DEF Modulo
  <2>3. r # 0 => (b <=> (a < 0) # (r < 0))
    BY <1>3, <2>1
  <2>4. Remainder(c, a, IF b /\ r # 0 THEN a + r ELSE r)
    BY <1>2, <2>3, AdjustedIs
  <2> QED
    BY <1>2, <2>2, <2>4 DEF Long
<1>5. CASE y.k = "big"
  <2>1. PICK b \in BOOLEAN : b <=> (a < 0) # (r < 0)
    OBVIOUS
  <2>2. Modulo(x, y) = Big(IF b /\ r # 0 THEN a + r ELSE r)
    BY <1>2, <1>5, <2>1 DEF Modulo
  <2>3. Remainder(c, a, IF b /\ r # 0 THEN a + r ELSE r)
    BY <1>2, <2>1, AdjustedIs
  <2> QED
    BY <1>2, <2>2, <2>3 DEF Big
<1> QED
  BY <1>4, <1>5 DEF IsIntegral

(* The floor of the quotient leaves that remainder.                         *)
LEMMA FloorRemains ==
  ASSUME NEW x, Fits(x), x.d = 1, NEW y, Fits(y), y.d = 1, x.n # 0
  PROVE  Remainder(y.n, x.n, y.n - x.n * Floor(Div(y, x)).n)
<1>1. PICK a \in Int, c \in Int : a = x.n /\ c = y.n /\ a # 0
  BY FitsFields
<1>2. /\ Fits(Div(y, x)) /\ Is(Div(y, x), c * 1, 1 * a)
  BY <1>1, DivIs
<1>3. PICK n \in Int, d \in Nat \ {0} : n = Div(y, x).n /\ d = Div(y, x).d /\ n * a = c * d
  BY <1>1, <1>2 DEF Is, Lowest
<1>4. PICK f \in Int : f = Floor(Div(y, x)).n /\ f * d <= n /\ n < (f + 1) * d
  <2>1. Floor(Div(y, x)).n = FloorDiv(n, d)
    BY <1>2, <1>3, FloorIs
  <2> QED
    BY <2>1, FloorDivIs
<1>5. /\ f * d \in Int /\ (f + 1) * d \in Int /\ n * a \in Int
      /\ a * f \in Int /\ a * (f + 1) = a * f + a
  OBVIOUS
<1>6. CASE a > 0
  <2>1. (f * d) * a <= n * a /\ n * a < ((f + 1) * d) * a
    BY <1>4, <1>5, <1>6, Scaling
  <2>2. (f * d) * a = (a * f) * d /\ ((f + 1) * d) * a = (a * (f + 1)) * d
    OBVIOUS
  <2>3. a * f <= c /\ c < a * (f + 1)
    BY <1>3, <1>5, <2>1, <2>2, Scaling
  <2>4. 0 <= c - a * f /\ c - a * f < a
    BY <1>5, <2>3
  <2> QED
    BY <1>1, <1>4, <1>5, <1>6, <2>4 DEF Remainder
<1>7. CASE a < 0
  <2>1. PICK m \in Nat \ {0} : m = -a
    BY <1>7
  <2>2. (f * d) * m <= n * m /\ n * m < ((f + 1) * d) * m
    BY <1>4, <1>5, Scaling
  <2>3. /\ (f * d) * m = (m * f) * d /\ ((f + 1) * d) * m = (m * (f + 1)) * d
        /\ n * m = (-c) * d
    <3>1. n * m = -(n * a) /\ (-c) * d = -(c * d)
      BY <2>1
    <3> QED
      BY <1>3, <3>1
  <2>4. m * f <= -c /\ -c < m * (f + 1)
    <3>1. m * f \in Int /\ m * (f + 1) \in Int /\ -c \in Int
      OBVIOUS
    <3> QED
      BY <2>2, <2>3, <3>1, Scaling
  <2>5. a * f = -(m * f) /\ m * (f + 1) = m * f + m /\ m * f \in Int
    BY <2>1
  <2>6. a < c - a * f /\ c - a * f <= 0
    BY <2>1, <2>4, <2>5
  <2> QED
    BY <1>1, <1>4, <1>5, <1>7, <2>6 DEF Remainder
<1> QED
  BY <1>1, <1>6, <1>7

LEMMA KindOfReduced ==
  \A k, n, im, d : Reduced(k, n, im, d).k = k
BY DEF Reduced

-----------------------------------------------------------------------------
(* Exact results are in lowest terms and in range                          *)

Kept(x) == Exact(x) => Fits(x)

LEMMA MadeKept ==
  /\ \A n \in Int : /\ InLong(n) => Kept(Long(n))
                    /\ Kept(Big(n)) /\ Kept(BigintToKap(n))
  /\ \A n, d \in Int : d # 0 => Kept(Rat(n, d)) /\ Kept(RationalToKap(n, d))
  /\ \A n, im, d : ~Exact(Dbl(n, d)) /\ ~Exact(ComplexToKap(n, im, d)) /\ ~Exact(Cplx(n, im))
  /\ ~Exact(NaN) /\ ~Exact(NotANumberJ) /\ ~Exact(Trapped) /\ ~Exact(NoNumber)
  /\ \A n : ~Exact([NaN EXCEPT !.n = n])
<1>1. \A n \in Int : /\ InLong(n) => Kept(Long(n))
                     /\ Kept(Big(n)) /\ Kept(BigintToKap(n))
  BY KapIs DEF Kept
<1>2. \A n, d \in Int : d # 0 => Kept(Rat(n, d)) /\ Kept(RationalToKap(n, d))
  BY RationalsAre DEF Kept
<1>3. \A n, im, d : ~Exact(Dbl(n, d)) /\ ~Exact(ComplexToKap(n, im, d)) /\ ~Exact(Cplx(n, im))
  BY KindOfReduced DEF Exact, Dbl, ComplexToKap, Cplx
<1>4. /\ ~Exact(NaN) /\ ~Exact(NotANumberJ) /\ ~Exact(Trapped) /\ ~Exact(NoNumber)
      /\ \A n : ~Exact([NaN EXCEPT !.n = n])
  BY DEF Exact, NaN, NotANumberJ, Trapped, NoNumber
<1> QED
  BY <1>1, <1>2, <1>3, <1>4

LEMMA Ranges ==
  /\ \A q \in Int : Clamped(q) \in Int /\ InLong(Clamped(q))
  /\ InLong(0) /\ InLong(1) /\ InLong(-1) /\ InLong(2) /\ InLong(MaxLong) /\ InLong(MinLong)
  /\ \A q \in Int : q >= MinLong /\ q <= MaxAsDouble =>
       LET r == IF q > MaxLong THEN MaxLong ELSE q IN r \in Int /\ InLong(r)
  /\ \A q \in Int : Magnitude(q) <= MaxAsDouble => q >= MinLong /\ q <= MaxAsDouble
BY MaxLongAssumption DEF Clamped, InLong, MinLong, MaxAsDouble, Magnitude

LEMMA DoublesInexact ==
  ASSUME NEW x, Good(x), x.k = "dbl", NEW y, Good(y), y.k = "dbl"
  PROVE  /\ ~Exact(DblAdd(x, y)) /\ ~Exact(DblMul(x, y)) /\ ~Exact(DblNeg(x)) /\ ~Exact(DblDiv(x, y))
         /\ DblNeg(x).k = "dbl"
<1>1. \A n : ~Exact([x EXCEPT !.n = n]) /\ [x EXCEPT !.n = n].k = "dbl"
  BY DEF Good, Number, Exact
<1>2. ~Exact(x) /\ ~Exact(y)
  BY DEF Exact
<1>3. ~Exact(DblDiv(x, y))
  <2>1. ~Exact([x EXCEPT !.n = @ * SignOf(y.n)])
    BY <1>1
  <2> QED
    BY <2>1, MadeKept DEF DblDiv
<1>4. ~Exact(DblAdd(x, y))
  BY <1>2, MadeKept DEF DblAdd
<1>5. ~Exact(DblMul(x, y))
  BY MadeKept DEF DblMul
<1>6. ~Exact(DblNeg(x)) /\ DblNeg(x).k = "dbl"
  BY <1>1 DEF DblNeg
<1> QED
  BY <1>3, <1>4, <1>5, <1>6

LEMMA CombinedKept ==
  ASSUME NEW x, Good(x), NEW y, Good(y), NEW n \in Int, NEW im, NEW d \in Int,
         x.d # 0 /\ y.d # 0 => d # 0, NEW dbl, ~Exact(dbl)
  PROVE  Kept(Combined(x, y, n, im, d, dbl))
<1>1. Kept(BigintToKap(n)) /\ Kept(Big(n)) /\ Kept(NotANumberJ) /\ Kept(ComplexToKap(n, im, d)) /\ Kept(dbl)
  BY MadeKept DEF Kept
<1>2. "rat" \in {x.k, y.k} /\ Ruled(x, y) => Kept(RationalToKap(n, d))
  <2>1. "rat" \in {x.k, y.k} /\ Ruled(x, y) => x.d # 0 /\ y.d # 0
    BY Fields DEF Ruled
  <2> QED
    BY <2>1, MadeKept
<1> QED
  BY <1>1, <1>2 DEF Combined

LEMMA SumsKept ==
  ASSUME NEW x, Good(x), NEW y, Good(y)
  PROVE  Kept(Add(x, y)) /\ Kept(Sub(x, y)) /\ Kept(Mul(x, y))
<1>1. /\ x.n \in Int /\ x.im \in Int /\ x.d \in Int
      /\ y.n \in Int /\ y.im \in Int /\ y.d \in Int
  BY Fields
<1>2. x.d * y.d \in Int /\ (x.d # 0 /\ y.d # 0 => x.d * y.d # 0)
  BY <1>1, NonZero
<1>3. /\ ~Exact(DblAdd(AsDouble(x), AsDouble(y)))
      /\ ~Exact(DblAdd(AsDouble(x), DblNeg(AsDouble(y))))
      /\ ~Exact(DblMul(AsDouble(x), AsDouble(y)))
  <2>1. /\ Good(AsDouble(x)) /\ AsDouble(x).k = "dbl"
        /\ Good(AsDouble(y)) /\ AsDouble(y).k = "dbl"
    BY AsDoubleGood
  <2>2. Good(DblNeg(AsDouble(y))) /\ DblNeg(AsDouble(y)).k = "dbl"
    BY <2>1, DoublesGood, DoublesInexact
  <2> QED
    BY <2>1, <2>2, DoublesInexact
<1>4. Kept(Add(x, y))
  <2>1. x.n * y.d + y.n * x.d \in Int
    BY <1>1, NonZero
  <2> QED
    BY <1>2, <1>3, <2>1, CombinedKept DEF Add
<1>5. Kept(Sub(x, y))
  <2>1. x.n * y.d - y.n * x.d \in Int
    BY <1>1, NonZero
  <2> QED
    BY <1>2, <1>3, <2>1, CombinedKept DEF Sub
<1>6. Kept(Mul(x, y))
  <2>1. x.n * y.n - x.im * y.im \in Int
    BY <1>1, NonZero
  <2> QED
    BY <1>2, <1>3, <2>1, CombinedKept DEF Mul
<1> QED
  BY <1>4, <1>5, <1>6

(* A number of one of the five kinds.                                      *)
Held(x) == Good(x) /\ x.k \notin {"trap", "err"} /\ Kept(x)

LEMMA HeldKinds ==
  ASSUME NEW x, Held(x)
  PROVE  /\ Good(x) /\ Kept(x) /\ x.k \in {"long", "big", "rat", "dbl", "cplx"}
         /\ x.k \in {"long", "big", "rat"} => Fits(x)
         /\ x.k \in {"dbl", "cplx"} => ~Exact(x)
BY Fields DEF Held, Kept, Exact, Kind

LEMMA DivKept ==
  ASSUME NEW x, Held(x), NEW y, Held(y)
  PROVE  Kept(Div(x, y)) /\ Kept(Recip(x))
<1>1. ASSUME NEW v, Held(v), NEW w, Held(w) PROVE Kept(Div(v, w))
  <2>1. CASE v.k \in {"long", "big", "rat"} /\ w.k \in {"long", "big", "rat"}
    BY <1>1, <2>1, HeldKinds, DivIs DEF Kept
  <2>2. CASE "cplx" \in {v.k, w.k}
    BY <1>1, <2>2, MadeKept DEF Kept, Div
  <2>3. CASE "dbl" \in {v.k, w.k} /\ "cplx" \notin {v.k, w.k}
    <3>1. ~Exact(DblDiv(AsDouble(v), AsDouble(w)))
      BY <1>1, AsDoubleGood, DoublesInexact DEF Held
    <3>2. Div(v, w) = IF IsZero(v) /\ IsZero(w) THEN Dbl(0, 1) ELSE DblDiv(AsDouble(v), AsDouble(w))
      BY <2>3 DEF Div
    <3> QED
      BY <3>1, <3>2, MadeKept DEF Kept
  <2> QED
    BY <1>1, <2>1, <2>2, <2>3, HeldKinds
<1>2. Held(Long(1))
  BY MadeGood, MadeKept, Ranges DEF Held, Long
<1> QED
  BY <1>1, <1>2 DEF Recip

LEMMA NegKept ==
  ASSUME NEW x, Held(x)
  PROVE  Kept(Neg(x)) /\ Kept(AbsVal(x))
<1>1. Kept(Neg(x))
  <2>1. CASE x.k \in {"long", "big", "rat"}
    BY <2>1, HeldKinds, NegIs DEF Kept
  <2>2. CASE x.k = "dbl"
    <3>1. Neg(x) = [x EXCEPT !.n = -@]
      BY <2>2 DEF Neg
    <3>2. Neg(x).k = "dbl"
      BY <2>2, <3>1 DEF Held, Good, Number
    <3> QED
      BY <3>2 DEF Kept, Exact
  <2>3. CASE x.k = "cplx"
    BY <2>3, MadeKept DEF Neg, Kept, Exact
  <2> QED
    BY <2>1, <2>2, <2>3, HeldKinds
<1>2. x.n \in Int /\ x.d \in Int /\ (x.k = "rat" => x.d # 0)
  BY Fields DEF Held
<1>3. x.k = "rat" => Kept(RationalToKap(x.n, x.d))
  BY <1>2, MadeKept
<1>4. x.n < 0 \/ x.n >= 0
  BY <1>2
<1>5. Kept(x)
  BY DEF Held
<1> QED
  BY <1>1, <1>3, <1>4, <1>5 DEF AbsVal

LEMMA LongKept ==
  ASSUME NEW x, Held(x)
  PROVE  Kept(AsLong(x)) /\ Kept(Numerator(x))
<1>1. x.n \in Int /\ x.d \in Int
  BY Fields DEF Held
<1>2. InLong(x.n) => Kept(Long(x.n))
  BY <1>1, MadeKept
<1>3. /\ Kept(NoNumber) /\ Kept(Long(0)) /\ Kept(Long(MaxLong)) /\ Kept(Long(MinLong)) /\ Kept(x)
      /\ Kept(Big(x.n))
  <2>1. MaxLong \in Int /\ MinLong \in Int
    BY MaxLongAssumption DEF MinLong
  <2> QED
    BY <1>1, <2>1, MadeKept, Ranges DEF Kept, Held
<1>4. x.d # 0 => Kept(Long(Clamped(Quot(x.n, x.d))))
  BY <1>1, QuotTyped, Ranges, MadeKept
<1>5. Kept(AsLong(x))
  BY <1>2, <1>3, <1>4 DEF AsLong, Finite
<1>6. x.n >= MinLong /\ x.n <= MaxAsDouble => Kept(Long(IF x.n > MaxLong THEN MaxLong ELSE x.n))
  BY <1>1, Ranges, MadeKept
<1>7. Kept(Numerator(x))
  BY <1>3, <1>5, <1>6 DEF Numerator
<1> QED
  BY <1>5, <1>7

LEMMA ModuloKept ==
  ASSUME NEW x, Held(x), NEW y, Held(y)
  PROVE  Kept(Modulo(x, y))
<1>1. /\ x.n \in Int /\ y.n \in Int /\ Good(x) /\ Good(y) /\ Kept(y)
  BY Fields DEF Held
<1>2. Kept(Trapped) /\ Kept(NaN)
  BY MadeKept DEF Kept
<1>3. CASE x.k = "long" /\ y.k = "long"
  <2>1. CASE x.n = 0 \/ Modulo(x, y) = Trapped
    BY <1>1, <1>2, <1>3, <2>1 DEF Modulo
  <2>2. CASE ~(x.n = 0 \/ Modulo(x, y) = Trapped)
    <3>1. Fits(x) /\ Fits(y) /\ IsIntegral(y)
      BY <1>3, HeldKinds DEF IsIntegral
    <3>2. Remainder(y.n, x.n, Modulo(x, y).n)
      BY <1>3, <2>2, <3>1, ModuloIs
    <3>3. PICK r : Modulo(x, y) = Long(r) /\ r = Modulo(x, y).n
      BY <1>3, <2>2 DEF Modulo, Long
    <3>4. r \in Int /\ InLong(r)
      <4>1. InLong(x.n)
        BY <1>3, <3>1, FitsFields
      <4> QED
        BY <1>1, <3>2, <3>3, <4>1, MaxLongAssumption DEF Remainder, InLong, MinLong
    <3> QED
      BY <3>3, <3>4, MadeKept
  <2> QED
    BY <2>1, <2>2
<1>4. CASE x.k = "long" /\ y.k = "big"
  <2>1. ASSUME x.n # 0
        PROVE  Kept(Big(x.n + Rem(y.n, x.n))) /\ Kept(Big(Rem(y.n, x.n)))
    <3>1. PICK r \in Int : r = Rem(y.n, x.n)
      BY <1>1, <2>1, QuotTyped
    <3>2. x.n + r \in Int
      BY <1>1
    <3> QED
      BY <3>1, <3>2, MadeKept
  <2> QED
    BY <1>1, <1>4, <2>1 DEF Modulo
<1>5. CASE ~(x.k = "long" /\ y.k = "long") /\ ~(x.k = "long" /\ y.k = "big")
  <2>1. ~Exact(AsDouble(x)) /\ ~Exact(AsDouble(y))
    BY DEF AsDouble, Exact
  <2>2. PICK a : a = AsDouble(x) /\ ~Exact(a)
    BY <2>1
  <2>3. PICK b : b = AsDouble(y) /\ ~Exact(b)
    BY <2>1
  <2>4. Modulo(x, y) \in {y, NaN, a, b} \/ \E n, d : Modulo(x, y) = Dbl(n, d)
    BY <1>5, <2>2, <2>3 DEF Modulo
  <2> QED
    BY <1>1, <1>2, <2>2, <2>3, <2>4, MadeKept DEF Kept
<1> QED
  BY <1>3, <1>4, <1>5

LEMMA LongOf ==
  ASSUME NEW v, Held(v), IsIntegral(v)
  PROVE  AsLong(v) = IF InLong(v.n) THEN Long(v.n) ELSE NoNumber
<1>1. Fits(v)
  BY HeldKinds DEF IsIntegral
<1>2. v.k = "long" => v = Long(v.n)
  <2>1. v \in Number /\ (v.k = "long" => v.im = 0 /\ v.d = 1)
    BY <1>1, FitsFields DEF Held, Good
  <2> QED
    BY <2>1 DEF Number, Long
<1>3. v.k = "long" => AsLong(v) = Long(v.n) /\ InLong(v.n)
  BY <1>1, <1>2, FitsFields DEF AsLong
<1> QED
  BY <1>3 DEF AsLong, IsIntegral

LEMMA GcdKept ==
  ASSUME NEW x, Held(x), IsIntegral(x), NEW y, Held(y), IsIntegral(y)
  PROVE  Kept(Gcd(x, y)) /\ (Gcd(x, y) = Trapped \/ Held(Gcd(x, y)))
<1>1. /\ x.n \in Int /\ x.d \in Int /\ x.d # 0 /\ y.n \in Int /\ y.d \in Int /\ y.d # 0
  BY Fields DEF IsIntegral, Held
<1> DEFINE long(v, z) == IF v # NoNumber THEN v.n ELSE Clamped(Quot(z.n, z.d))
           of(a, b, g) == IF g = MaxLong + 1 THEN IF 0 \in {a, b} THEN Trapped ELSE Long(MinLong)
                          ELSE Long(g)
<1>2. ASSUME NEW v, Held(v), IsIntegral(v), v.n \in Int, v.d \in Int, v.d # 0
      PROVE  \E a \in Int : a = long(AsLong(v), v) /\ InLong(a)
  <2>2. AsLong(v) = IF InLong(v.n) THEN Long(v.n) ELSE NoNumber
    BY <1>2, LongOf
  <2>3. NoNumber # Long(v.n) /\ Long(v.n).n = v.n
    BY DEF NoNumber, Long
  <2>4. Clamped(Quot(v.n, v.d)) \in Int /\ InLong(Clamped(Quot(v.n, v.d)))
    BY <1>2, QuotTyped, Ranges
  <2> QED
    BY <1>2, <2>2, <2>3, <2>4
<1>3. PICK a \in Int : a = long(AsLong(x), x) /\ InLong(a)
  BY <1>1, <1>2
<1>4. PICK b \in Int : b = long(AsLong(y), y) /\ InLong(b)
  BY <1>1, <1>2
<1>5. Gcd(x, y) = of(a, b, GcdOf(a, b))
  BY <1>3, <1>4 DEF Gcd
<1> HIDE DEF long
<1>6. PICK g \in Nat : g = GcdOf(a, b) /\ g <= MaxLong + 1
  <2>1. PICK p \in Nat, q \in Nat : /\ p = Magnitude(a) /\ q = Magnitude(b)
                                    /\ p <= MaxLong + 1 /\ q <= MaxLong + 1
    BY <1>3, <1>4, MaxLongAssumption DEF Magnitude, InLong, MinLong
  <2>2. gcd[<<p, q>>] \in Nat /\ (q # 0 => gcd[<<p, q>>] <= q) /\ (q = 0 => gcd[<<p, q>>] = p)
    BY GcdTyped, GcdSteps
  <2> QED
    BY <2>1, <2>2, MaxLongAssumption DEF GcdOf
<1>7. Gcd(x, y) = Trapped \/ \E n \in Int : Gcd(x, y) = Long(n) /\ InLong(n)
  BY <1>5, <1>6, MaxLongAssumption DEF InLong, MinLong
<1>8. CASE Gcd(x, y) = Trapped
  BY <1>8, MadeKept DEF Kept
<1>9. CASE \E n \in Int : Gcd(x, y) = Long(n) /\ InLong(n)
  BY <1>9, MadeKept, MadeGood DEF Held, Long
<1> QED
  BY <1>7, <1>8, <1>9

LEMMA LcmKept ==
  ASSUME NEW x, Held(x), IsIntegral(x), NEW y, Held(y), IsIntegral(y)
  PROVE  Kept(Lcm(x, y))
<1> DEFINE positive(q) == IF q.k # "long" THEN q ELSE IF q.n = MinLong THEN Trapped ELSE Long(Magnitude(q.n))
<1>1. Kept(Trapped) /\ Kept(Long(0))
  BY MadeKept, Ranges DEF Kept
<1>2. CASE Gcd(x, y) = Trapped
  BY <1>1, <1>2 DEF Lcm
<1>3. CASE Gcd(x, y) # Trapped
  <2>1. Fits(x) /\ Fits(y) /\ Allowed(x, y)
    BY HeldKinds DEF IsIntegral, Allowed
  <2>2. Held(Mul(x, y))
    <3>1. Fits(Mul(x, y))
      BY <2>1, SumsAre
    <3> QED
      BY <3>1, SumsGood DEF Held, Kept, Fits, Exact
  <2>3. PICK q : q = Div(Mul(x, y), Gcd(x, y)) /\ Kept(q) /\ Good(q)
    BY <1>3, <2>2, GcdKept, DivKept, DivGood DEF Held
  <2>4. Kept(positive(q))
    <3>1. CASE q.k # "long" \/ q.n = MinLong
      BY <1>1, <2>3, <3>1
    <3>2. CASE q.k = "long" /\ q.n # MinLong
      <4>1. q.n \in Int /\ InLong(q.n)
        BY <2>3, <3>2, FitsFields DEF Kept, Exact
      <4>2. Magnitude(q.n) \in Int /\ InLong(Magnitude(q.n))
        BY <3>2, <4>1, MaxLongAssumption DEF Magnitude, InLong, MinLong
      <4> QED
        BY <3>2, <4>2, MadeKept
    <3> QED
      BY <3>1, <3>2
  <2>5. Lcm(x, y) = Long(0) \/ Lcm(x, y) = positive(q)
    BY <1>3, <2>3 DEF Lcm
  <2> HIDE DEF positive
  <2> QED
    BY <1>1, <2>4, <2>5
<1> QED
  BY <1>2, <1>3

LEMMA WholeKept ==
  ASSUME NEW x, Held(x)
  PROVE  Kept(Floor(x)) /\ Kept(Ceil(x)) /\ Kept(Round(x))
<1>1. x.n \in Int /\ x.d \in Nat /\ -x.n \in Int /\ (x.k \in {"long", "big", "rat"} => x.d # 0) /\ Kept(x)
  BY Fields DEF Held
<1>2. ASSUME NEW q \in Int PROVE Kept(WholeDouble(q)) /\ Kept(BigintToKap(q))
  BY MadeKept, Ranges DEF WholeDouble, Kept
<1>3. x.d # 0 => FloorDiv(x.n, x.d) \in Int /\ -FloorDiv(-x.n, x.d) \in Int
  BY <1>1 DEF FloorDiv
<1>4. Kept(Long(0)) /\ Kept(NoNumber) /\ Kept(NaN)
  BY MadeKept, Ranges DEF Kept
<1>5. Kept(Floor(x))
  <2>1. x.d # 0 => Kept(BigintToKap(FloorDiv(x.n, x.d))) /\ Kept(WholeDouble(FloorDiv(x.n, x.d)))
    BY <1>2, <1>3
  <2> QED
    BY <1>1, <1>4, <2>1 DEF Floor, Finite
<1>6. Kept(Ceil(x))
  <2>1. x.d # 0 => Kept(BigintToKap(-FloorDiv(-x.n, x.d))) /\ Kept(WholeDouble(-FloorDiv(-x.n, x.d)))
    BY <1>2, <1>3
  <2> QED
    BY <1>1, <1>4, <2>1 DEF Ceil, Finite
<1>7. Kept(Round(x))
  <2> DEFINE up(q, r) == r > x.d \/ (r = x.d /\ q % 2 # 0)
             nearest(q) == IF up(q, 2 * (x.n - q * x.d)) THEN q + 1 ELSE q
             of(near) == IF x.k = "rat" THEN BigintToKap(near)
                         ELSE IF near >= MinLong /\ near <= MaxAsDouble
                         THEN Long(IF near > MaxLong THEN MaxLong ELSE near) ELSE Dbl(near, 1)
  <2>1. Round(x) = IF x.k = "long" THEN x
                   ELSE IF ~Finite(x) THEN IF x.n = 0 THEN NaN ELSE x
                   ELSE of(nearest(FloorDiv(x.n, x.d)))
    BY DEF Round
  <2>2. \A q \in Int : nearest(q) \in Int
    OBVIOUS
  <2>3. ASSUME NEW q \in Int PROVE Kept(of(q))
    <3>1. q >= MinLong /\ q <= MaxAsDouble => Kept(Long(IF q > MaxLong THEN MaxLong ELSE q))
      BY Ranges, MadeKept
    <3>2. Kept(Dbl(q, 1)) /\ Kept(BigintToKap(q))
      BY MadeKept DEF Kept
    <3> QED
      BY <3>1, <3>2
  <2> HIDE DEF of, nearest
  <2> QED
    BY <1>1, <1>3, <1>4, <2>1, <2>2, <2>3 DEF Finite
<1> QED
  BY <1>5, <1>6, <1>7

LEMMA PowKept ==
  ASSUME NEW x, Held(x), NEW e \in {-1, 0, 2}
  PROVE  Kept(Pow(x, Long(e)))
<1>1. x.n \in Int /\ x.d \in Int /\ (x.k = "rat" => x.d # 0)
  BY Fields DEF Held
<1>2. PICK n \in Int : n = power[<<x.n, Magnitude(e)>>]
  BY <1>1, Powers
<1>3. PICK d \in Int : d = power[<<x.d, Magnitude(e)>>] /\ (x.d # 0 => d # 0)
  BY <1>1, Powers
<1>4. Kept(BigintToKap(n)) /\ Kept(Trapped) /\ Kept(NoNumber)
  BY MadeKept DEF Kept
<1>5. n # 0 => Kept(Rat(1, n)) /\ Kept(RationalToKap(1, n))
  BY MadeKept
<1>6. d # 0 => Kept(RationalToKap(n, d))
  BY MadeKept
<1>7. Long(e).k = "long" /\ Long(e).n = e
  BY DEF Long
<1> QED
  BY <1>1, <1>2, <1>3, <1>4, <1>5, <1>6, <1>7 DEF Pow

LEMMA OthersKept ==
  ASSUME NEW x, Held(x)
  PROVE  /\ Kept(NotNum(x)) /\ Kept(Signum(x)) /\ Kept(AsBigint(x)) /\ Kept(AsRational(x))
         /\ Kept(Denominator(x))
<1>1. x.n \in Int /\ x.d \in Int /\ (IsIntegral(x) \/ x.k = "rat" => x.d # 0)
  BY Fields DEF IsIntegral, Held
<1>2. Kept(NotNum(x)) /\ Kept(Signum(x))
  <2>1. \A s \in {-1, 0, 1} : Kept(Long(s))
    BY Ranges, MadeKept
  <2> QED
    BY <1>1, <2>1, SignTyped DEF NotNum, Signum
<1>3. Kept(AsBigint(x)) /\ Kept(AsRational(x)) /\ Kept(Denominator(x))
  <2>1. Kept(Long(1)) /\ Kept(NoNumber)
    BY MadeKept, Ranges DEF Kept
  <2> QED
    BY <1>1, <2>1, MadeKept DEF AsBigint, AsRational, Denominator
<1> QED
  BY <1>2, <1>3

-----------------------------------------------------------------------------
(* The invariant                                                           *)

LEMMA SampleGood ==
  \A y \in Sample : Good(y) /\ y.k \notin {"trap", "err"}
<1>1. /\ MaxLong \in Int /\ MinLong \in Int /\ MaxLong + 1 \in Int /\ 2 * MaxLong + 1 \in Int
      /\ MaxLong - 1 \in Int
  BY MaxLongAssumption DEF MinLong
<1>2. \A n \in Int : /\ Good(Long(n)) /\ Long(n).k = "long"
                     /\ Good(Big(n)) /\ Big(n).k = "big"
  BY MadeGood DEF Long, Big
<1>3. \A n \in Int, d \in Int : d # 0 => /\ Good(Rat(n, d)) /\ Rat(n, d).k = "rat"
                                         /\ Good(Dbl(n, d)) /\ Dbl(n, d).k = "dbl"
  BY MadeGood, KindOfReduced DEF Rat, Dbl
<1>4. Good(Cplx(1, 2)) /\ Cplx(1, 2).k = "cplx"
  <2>1. Cplx(1, 2).k = "cplx"
    BY KindOfReduced DEF Cplx
  <2>2. Good(Cplx(1, 2))
    BY ReducedGood DEF Cplx, Kind
  <2> QED
    BY <2>1, <2>2
<1>5. /\ Good(Long(0)) /\ Good(Long(-1)) /\ Good(Long(2)) /\ Good(Long(MaxLong))
      /\ Good(Long(MinLong)) /\ Good(Big(MaxLong + 1)) /\ Good(Big(3))
  BY <1>1, <1>2
<1>6. /\ Long(0).k = "long" /\ Long(-1).k = "long" /\ Long(2).k = "long"
      /\ Long(MaxLong).k = "long" /\ Long(MinLong).k = "long"
      /\ Big(MaxLong + 1).k = "big" /\ Big(3).k = "big"
  BY <1>1, <1>2
<1>7. /\ Good(Rat(1, 2)) /\ Rat(1, 2).k = "rat"
      /\ Good(Rat(2 * MaxLong + 1, 2)) /\ Rat(2 * MaxLong + 1, 2).k = "rat"
      /\ Good(Dbl(1, 2)) /\ Dbl(1, 2).k = "dbl"
      /\ Good(Dbl(MaxLong, 1)) /\ Dbl(MaxLong, 1).k = "dbl"
      /\ Good(Dbl(MaxLong - 1, 1)) /\ Dbl(MaxLong - 1, 1).k = "dbl"
  BY <1>1, <1>3
<1> QED
  BY <1>4, <1>5, <1>6, <1>7 DEF Sample

HeldInv == Held(acc)

LEMMA SampleHeld ==
  \A y \in Sample : Held(y)
<1>1. /\ Kept(Long(0)) /\ Kept(Long(-1)) /\ Kept(Long(2)) /\ Kept(Long(MaxLong)) /\ Kept(Long(MinLong))
      /\ Kept(Big(MaxLong + 1)) /\ Kept(Big(3)) /\ Kept(Rat(1, 2)) /\ Kept(Rat(2 * MaxLong + 1, 2))
  <2>1. MaxLong \in Int /\ MinLong \in Int /\ MaxLong + 1 \in Int /\ 2 * MaxLong + 1 \in Int
    BY MaxLongAssumption DEF MinLong
  <2> QED
    BY <2>1, Ranges, MadeKept
<1>2. /\ Kept(Dbl(1, 2)) /\ Kept(Dbl(MaxLong, 1)) /\ Kept(Dbl(MaxLong - 1, 1)) /\ Kept(Cplx(1, 2))
  BY MadeKept DEF Kept
<1>3. \A y \in Sample : Kept(y)
  BY <1>1, <1>2 DEF Sample
<1> QED
  BY <1>3, SampleGood DEF Held

LEMMA HeldStarts == ArInit => HeldInv
<1>1. ASSUME NEW x \in Integers1 PROVE Held(x)
  <2>1. PICK n \in Int : x = Long(n) /\ InLong(n)
    BY DEF Integers1
  <2> QED
    BY <2>1, MadeGood, MadeKept DEF Long, Held
<1> QED
  BY <1>1, SampleHeld DEF ArInit, HeldInv

LEMMA HeldSteps == HeldInv /\ [ArNext]_arVars => HeldInv'
<1> SUFFICES ASSUME HeldInv, [ArNext]_arVars PROVE HeldInv'
  OBVIOUS
<1>0. Held(acc) /\ Good(acc) /\ Kept(acc)
  BY DEF HeldInv, Held
<1>1. ASSUME NEW S, \A r \in S : Good(r) /\ Kept(r), Becomes(S)
      PROVE  HeldInv'
  BY <1>1 DEF Becomes, HeldInv, Held
<1>2. CASE Literal1
  BY <1>2, SampleHeld DEF Literal1, HeldInv
<1>3. CASE Combination
  <2>1. PICK y \in Sample :
          \/ Becomes({Add(acc, y), Sub(y, acc), Mul(acc, y)})
          \/ Becomes({Div(acc, y), Div(y, acc)})
          \/ IsReal(acc) /\ IsReal(y) /\ Becomes({Modulo(acc, y), Modulo(y, acc)})
          \/ IsIntegral(acc) /\ IsIntegral(y) /\ Becomes({Gcd(acc, y), Lcm(acc, y)})
    BY <1>3 DEF Combination
  <2>2. Held(y) /\ Good(y) /\ y.k \notin {"trap", "err"} /\ acc.k \notin {"trap", "err"}
    BY <1>0, SampleHeld DEF Held
  <2>3. CASE Becomes({Add(acc, y), Sub(y, acc), Mul(acc, y)})
    <3>1. \A r \in {Add(acc, y), Sub(y, acc), Mul(acc, y)} : Good(r) /\ Kept(r)
      BY <1>0, <2>2, SumsGood, SumsKept
    <3> QED
      BY <1>1, <2>3, <3>1
  <2>4. CASE Becomes({Div(acc, y), Div(y, acc)})
    <3>1. \A r \in {Div(acc, y), Div(y, acc)} : Good(r) /\ Kept(r)
      BY <1>0, <2>2, DivGood, DivKept
    <3> QED
      BY <1>1, <2>4, <3>1
  <2>5. CASE Becomes({Modulo(acc, y), Modulo(y, acc)})
    <3>1. \A r \in {Modulo(acc, y), Modulo(y, acc)} : Good(r) /\ Kept(r)
      BY <1>0, <2>2, ModuloGood, ModuloKept
    <3> QED
      BY <1>1, <2>5, <3>1
  <2>6. CASE IsIntegral(acc) /\ IsIntegral(y) /\ Becomes({Gcd(acc, y), Lcm(acc, y)})
    <3>1. \A r \in {Gcd(acc, y), Lcm(acc, y)} : Good(r) /\ Kept(r)
      BY <1>0, <2>2, <2>6, IntegralGood, GcdKept, LcmKept
    <3> QED
      BY <1>1, <2>6, <3>1
  <2> QED
    BY <2>1, <2>3, <2>4, <2>5, <2>6
<1>4. CASE Alone
  <2>1. acc.k \notin {"trap", "err"}
    BY <1>0 DEF Held
  <2>2. CASE Becomes({Neg(acc), Recip(acc), NotNum(acc), Floor(acc), Ceil(acc)})
    <3>1. \A r \in {Neg(acc), Recip(acc), NotNum(acc), Floor(acc), Ceil(acc)} : Good(r) /\ Kept(r)
      BY <1>0, <2>1, NegGood, OthersGood, WholeGood, NegKept, DivKept, OthersKept, WholeKept
    <3> QED
      BY <1>1, <2>2, <3>1
  <2>3. CASE Becomes({AbsVal(acc), Signum(acc), Round(acc)})
    <3>1. \A r \in {AbsVal(acc), Signum(acc), Round(acc)} : Good(r) /\ Kept(r)
      BY <1>0, <2>1, NegGood, OthersGood, WholeGood, NegKept, OthersKept, WholeKept
    <3> QED
      BY <1>1, <2>3, <3>1
  <2>4. CASE \E e \in {-1, 0, 2} : Becomes({Pow(acc, Long(e))})
    <3>1. PICK e \in {-1, 0, 2} : Becomes({Pow(acc, Long(e))})
      BY <2>4
    <3>2. Good(Pow(acc, Long(e))) /\ Kept(Pow(acc, Long(e)))
      BY <1>0, PowGood, PowKept
    <3> QED
      BY <1>1, <3>1, <3>2
  <2>5. CASE Becomes({AsBigint(acc), AsRational(acc), Numerator(acc), Denominator(acc), AsLong(acc)})
    <3>1. \A r \in {AsBigint(acc), AsRational(acc), Numerator(acc), Denominator(acc), AsLong(acc)} :
            Good(r) /\ Kept(r)
      BY <1>0, <2>1, OthersGood, OthersKept, LongTyped, LongKept
    <3> QED
      BY <1>1, <2>5, <3>1
  <2> QED
    BY <1>4, <2>2, <2>3, <2>4, <2>5 DEF Alone
<1>5. CASE UNCHANGED arVars
  BY <1>0, <1>5 DEF arVars, HeldInv
<1> QED
  BY <1>2, <1>3, <1>4, <1>5 DEF ArNext

(* Every result is a number of one of the five kinds, and an exact one is   *)
(* in lowest terms, without a denominator when it is an integer, and in     *)
(* range when it is a machine integer (KapNumber and its arithmetic in      *)
(* number.rs).                                                             *)
THEOREM ResultsHeld == ArSpec => []HeldInv
BY HeldStarts, HeldSteps, PTL DEF ArSpec

-----------------------------------------------------------------------------
(* The order                                                               *)

Proper(x) == Good(x) /\ x.k \notin {"trap", "err"} /\ Comparable(x)
IsDouble(x) == x.k \in {"dbl", "cplx"}
Cross(x, y) == x.n * y.d - y.n * x.d

(* A double comes before an exact number of its value.                      *)
Before(x, y) == Cross(x, y) < 0 \/ (Cross(x, y) = 0 /\ (IsDouble(x) \/ ~IsDouble(y)))

LEMMA ProperFields ==
  ASSUME NEW x, Proper(x)
  PROVE  /\ x.n \in Int /\ x.d \in Nat \ {0} /\ x.im = 0 /\ x # NaN /\ Finite(x)
         /\ x.k \in {"long", "big", "rat", "dbl", "cplx"}
         /\ ~(IsDouble(x) /\ x.n = MaxAsDouble /\ x.d = 1)
<1>1. x # NaN
  BY DEF Proper, Comparable, Finite, NaN
<1> QED
  BY <1>1, Fields DEF Proper, Comparable, Finite, IsReal, IsDouble, Kind

LEMMA CrossTyped ==
  ASSUME NEW x, Proper(x), NEW y, Proper(y)
  PROVE  Cross(x, y) \in Int /\ Cross(y, x) = -Cross(x, y)
<1>1. x.n * y.d \in Int /\ y.n * x.d \in Int
  BY ProperFields, NonZero
<1> QED
  BY <1>1 DEF Cross

LEMMA CompareDouble ==
  ASSUME NEW x, Proper(x), IsDouble(x), NEW y, Proper(y), ~IsDouble(y), NEW td \in BOOLEAN,
         NEW a, a.n = x.n, a.d = x.d
  PROVE  CmpDoubleExact(a, y, td) =
           IF td /\ Cross(x, y) = 0 THEN -1 ELSE SignOf(Cross(x, y))
<1>1. ~(a.d = 1 /\ y.d = 1 /\ y.k # "rat" /\ a.n = MaxAsDouble)
  BY ProperFields
<1>2. ValueSign(a, y) = SignOf(Cross(x, y)) /\ Finite(a)
  BY ProperFields DEF ValueSign, Finite, Cross
<1>3. Cross(x, y) \in Int
  BY CrossTyped
<1>4. SignOf(Cross(x, y)) = 0 <=> Cross(x, y) = 0
  BY <1>3 DEF SignOf
<1> QED
  BY <1>1, <1>2, <1>4 DEF CmpDoubleExact

LEMMA Compare ==
  ASSUME NEW x, Proper(x), NEW y, Proper(y), NEW td \in BOOLEAN
  PROVE  /\ NumericCmp(x, y, td) \in Int
         /\ NumericCmp(x, y, td) =
              IF td /\ Cross(x, y) = 0 /\ IsDouble(x) /\ ~IsDouble(y) THEN -1
              ELSE IF td /\ Cross(x, y) = 0 /\ ~IsDouble(x) /\ IsDouble(y) THEN 1
              ELSE SignOf(Cross(x, y))
<1> DEFINE real(z) == IF z.k = "cplx" THEN [z EXCEPT !.k = "dbl"] ELSE z
<1>1. ASSUME NEW z, Proper(z)
      PROVE  /\ real(z).n = z.n /\ real(z).d = z.d /\ real(z) # NaN /\ Finite(real(z))
             /\ real(z).k = "dbl" <=> IsDouble(z)
             /\ ~IsDouble(z) => real(z) = z
  <2>1. z \in Number /\ z.d # 0
    BY <1>1, ProperFields DEF Proper, Good
  <2>2. real(z).n = z.n /\ real(z).d = z.d /\ (z.k = "cplx" => real(z).k = "dbl")
    BY <2>1 DEF Number
  <2> HIDE DEF real
  <2>3. real(z) # NaN
    BY <2>1, <2>2 DEF NaN
  <2>4. z.k # "cplx" => real(z) = z
    BY DEF real
  <2> QED
    BY <2>1, <2>2, <2>3, <2>4 DEF Finite, IsDouble
<1>2. PICK a : a = real(x)
  OBVIOUS
<1>3. PICK b : b = real(y)
  OBVIOUS
<1>4. NumericCmp(x, y, td) =
        CASE a.k = "dbl" /\ b.k # "dbl" -> CmpDoubleExact(a, b, td)
          [] a.k # "dbl" /\ b.k = "dbl" -> -CmpDoubleExact(b, a, td)
          [] (a.k = "dbl") = (b.k = "dbl") -> IF NaN \in {a, b} /\ ~td THEN 0 ELSE ValueSign(a, b)
  BY <1>2, <1>3 DEF NumericCmp
<1>5. /\ a.n = x.n /\ a.d = x.d /\ a # NaN /\ Finite(a) /\ (a.k = "dbl" <=> IsDouble(x))
      /\ ~IsDouble(x) => a = x
      /\ b.n = y.n /\ b.d = y.d /\ b # NaN /\ Finite(b) /\ (b.k = "dbl" <=> IsDouble(y))
      /\ ~IsDouble(y) => b = y
  BY <1>1, <1>2, <1>3
<1> HIDE DEF real
<1>6. Cross(x, y) \in Int /\ Cross(y, x) = -Cross(x, y)
  BY CrossTyped
<1>7. ValueSign(a, b) = SignOf(Cross(x, y))
  BY <1>5 DEF ValueSign, Cross
<1>8. PICK s \in {-1, 0, 1} : s = SignOf(Cross(x, y))
  <2>1. SignOf(Cross(x, y)) \in {-1, 0, 1}
    BY <1>6, SignTyped
  <2> QED
    BY <2>1
<1>9. CASE IsDouble(x) <=> IsDouble(y)
  <2>1. NumericCmp(x, y, td) = SignOf(Cross(x, y))
    BY <1>4, <1>5, <1>7, <1>9
  <2> QED
    BY <1>8, <1>9, <2>1
<1>10. CASE IsDouble(x) /\ ~IsDouble(y)
  <2>1. NumericCmp(x, y, td) = CmpDoubleExact(a, y, td)
    BY <1>4, <1>5, <1>10
  <2>2. CmpDoubleExact(a, y, td) = IF td /\ Cross(x, y) = 0 THEN -1 ELSE SignOf(Cross(x, y))
    BY <1>5, <1>10, CompareDouble
  <2> QED
    BY <1>8, <1>10, <2>1, <2>2
<1>11. CASE ~IsDouble(x) /\ IsDouble(y)
  <2>1. NumericCmp(x, y, td) = -CmpDoubleExact(b, x, td)
    BY <1>4, <1>5, <1>11
  <2>2. CmpDoubleExact(b, x, td) = IF td /\ Cross(y, x) = 0 THEN -1 ELSE SignOf(Cross(y, x))
    BY <1>5, <1>11, CompareDouble
  <2>3. SignOf(Cross(y, x)) = -SignOf(Cross(x, y)) /\ (Cross(y, x) = 0 <=> Cross(x, y) = 0)
    BY <1>6 DEF SignOf
  <2>4. PICK c \in Int : c = Cross(x, y)
    BY <1>6
  <2>5. NumericCmp(x, y, td) = IF td /\ c = 0 THEN 1 ELSE s
    BY <1>8, <2>1, <2>2, <2>3, <2>4
  <2>6. CASE td /\ c = 0
    BY <1>11, <2>4, <2>5, <2>6
  <2>7. CASE ~(td /\ c = 0)
    <3>1. NumericCmp(x, y, td) = s /\ s \in Int
      BY <2>5, <2>7
    <3>2. ~(td /\ Cross(x, y) = 0)
      BY <2>4, <2>7
    <3>3. s = SignOf(Cross(x, y))
      BY <1>8
    <3> QED
      BY ONLY <3>1, <3>2, <3>3, Zenon
  <2> QED
    BY <2>6, <2>7
<1> QED
  BY <1>9, <1>10, <1>11

LEMMA Ordering ==
  ASSUME NEW x, Proper(x), NEW y, Proper(y)
  PROVE  /\ NumberOrdering(x, y) \in Int
         /\ NumberOrdering(x, y) <= 0 <=> Before(x, y)
         /\ NumberOrdering(y, x) = -NumberOrdering(x, y)
         /\ NumericCmp(x, y, FALSE) = SignOf(Cross(x, y))
<1>1. ASSUME NEW v, Proper(v), NEW w, Proper(w)
      PROVE  NumberOrdering(v, w) = NumericCmp(v, w, TRUE)
  BY <1>1, ProperFields DEF NumberOrdering, CompareValid
<1>2. Cross(x, y) \in Int /\ Cross(y, x) = -Cross(x, y)
  BY CrossTyped
<1>3. ASSUME NEW v, Proper(v), NEW w, Proper(w)
      PROVE  NumberOrdering(v, w) =
               IF Cross(v, w) = 0 /\ IsDouble(v) /\ ~IsDouble(w) THEN -1
               ELSE IF Cross(v, w) = 0 /\ ~IsDouble(v) /\ IsDouble(w) THEN 1
               ELSE SignOf(Cross(v, w))
  BY <1>1, <1>3, Compare
<1>4. NumericCmp(x, y, FALSE) = SignOf(Cross(x, y))
  BY Compare
<1>5. PICK c \in Int : c = Cross(x, y) /\ -c = Cross(y, x)
  BY <1>2
<1>6. /\ SignOf(c) = IF c > 0 THEN 1 ELSE IF c < 0 THEN -1 ELSE 0
      /\ SignOf(-c) = IF c < 0 THEN 1 ELSE IF c > 0 THEN -1 ELSE 0
  BY DEF SignOf
<1>7. /\ NumberOrdering(x, y) = IF c = 0 /\ IsDouble(x) /\ ~IsDouble(y) THEN -1
                               ELSE IF c = 0 /\ ~IsDouble(x) /\ IsDouble(y) THEN 1 ELSE SignOf(c)
      /\ NumberOrdering(y, x) = IF c = 0 /\ IsDouble(y) /\ ~IsDouble(x) THEN -1
                               ELSE IF c = 0 /\ ~IsDouble(y) /\ IsDouble(x) THEN 1 ELSE SignOf(-c)
  BY <1>3, <1>5
<1>8. NumberOrdering(x, y) \in Int /\ NumberOrdering(y, x) = -NumberOrdering(x, y)
  BY <1>6, <1>7
<1>9. NumberOrdering(x, y) <= 0 <=> Before(x, y)
  <2>1. Before(x, y) <=> c < 0 \/ (c = 0 /\ (IsDouble(x) \/ ~IsDouble(y)))
    BY <1>5 DEF Before
  <2> QED
    BY <1>6, <1>7, <2>1
<1> QED
  BY <1>4, <1>8, <1>9

LEMMA CrossChain ==
  ASSUME NEW a \in Int, NEW b \in Int, NEW c \in Int,
         NEW p \in Nat \ {0}, NEW q \in Nat \ {0}, NEW r \in Nat \ {0},
         a * q <= b * p, b * r <= c * q
  PROVE  /\ a * r <= c * p
         /\ a * q < b * p \/ b * r < c * q => a * r < c * p
<1>1. /\ a * q \in Int /\ b * p \in Int /\ b * r \in Int /\ c * q \in Int
      /\ a * r \in Int /\ c * p \in Int
  OBVIOUS
<1>2. /\ (a * q) * r <= (b * p) * r /\ (a * q < b * p => (a * q) * r < (b * p) * r)
      /\ (b * r) * p <= (c * q) * p /\ (b * r < c * q => (b * r) * p < (c * q) * p)
  BY <1>1, Scaling
<1>3. /\ (a * q) * r = (a * r) * q /\ (b * p) * r = (b * r) * p /\ (c * q) * p = (c * p) * q
  BY Scaling
<1>4. /\ (a * r) * q \in Int /\ (b * r) * p \in Int /\ (c * p) * q \in Int
  BY <1>1
<1>5. /\ (a * r) * q <= (c * p) * q
      /\ a * q < b * p \/ b * r < c * q => (a * r) * q < (c * p) * q
  <2>1. \A u, v, w \in Int : /\ u <= v /\ v <= w => u <= w
                             /\ u < v /\ v <= w => u < w
                             /\ u <= v /\ v < w => u < w
    OBVIOUS
  <2> QED
    BY <1>2, <1>3, <1>4, <2>1
<1> QED
  BY <1>1, <1>5, Scaling

LEMMA BeforeTransitive ==
  ASSUME NEW x, Proper(x), NEW y, Proper(y), NEW z, Proper(z), Before(x, y), Before(y, z)
  PROVE  Before(x, z)
<1>1. PICK a \in Int, p \in Nat \ {0} : a = x.n /\ p = x.d
  BY ProperFields
<1>2. PICK b \in Int, q \in Nat \ {0} : b = y.n /\ q = y.d
  BY ProperFields
<1>3. PICK c \in Int, r \in Nat \ {0} : c = z.n /\ r = z.d
  BY ProperFields
<1>4. /\ a * q \in Int /\ b * p \in Int /\ b * r \in Int /\ c * q \in Int
      /\ a * r \in Int /\ c * p \in Int
  OBVIOUS
<1>5. /\ Cross(x, y) = a * q - b * p /\ Cross(y, z) = b * r - c * q /\ Cross(x, z) = a * r - c * p
  BY <1>1, <1>2, <1>3 DEF Cross
<1>6. a * q <= b * p /\ b * r <= c * q
  BY <1>4, <1>5 DEF Before
<1>7. /\ a * r <= c * p
      /\ a * q < b * p \/ b * r < c * q => a * r < c * p
  BY <1>6, CrossChain
<1>8. CASE a * q < b * p \/ b * r < c * q
  BY <1>4, <1>5, <1>7, <1>8 DEF Before
<1>9. CASE ~(a * q < b * p \/ b * r < c * q)
  <2>1. Cross(x, y) = 0 /\ Cross(y, z) = 0
    BY <1>4, <1>5, <1>6, <1>9
  <2>2. (IsDouble(x) \/ ~IsDouble(y)) /\ (IsDouble(y) \/ ~IsDouble(z))
    BY <2>1 DEF Before
  <2>3. Cross(x, z) <= 0 /\ Cross(x, z) \in Int
    BY <1>4, <1>5, <1>7
  <2> QED
    BY <2>2, <2>3 DEF Before
<1> QED
  BY <1>8, <1>9

(* Any two finite real numbers are in order one way or both, and what is in *)
(* order stays so along a chain (number_ordering in number.rs, which sort,  *)
(* grade and interval rely on).                                            *)
THEOREM NumbersTotallyOrdered ==
  ASSUME NEW x, Proper(x), NEW y, Proper(y), NEW z, Proper(z)
  PROVE  /\ NumberOrdering(y, x) = -NumberOrdering(x, y)
         /\ NumberOrdering(x, y) <= 0 /\ NumberOrdering(y, z) <= 0 => NumberOrdering(x, z) <= 0
<1>1. /\ NumberOrdering(x, y) <= 0 <=> Before(x, y)
      /\ NumberOrdering(y, z) <= 0 <=> Before(y, z)
      /\ NumberOrdering(x, z) <= 0 <=> Before(x, z)
      /\ NumberOrdering(y, x) = -NumberOrdering(x, y)
  BY Ordering
<1> QED
  BY <1>1, BeforeTransitive

(* The order of numbers is total and consistent, for every width of the     *)
(* machine integer (numeric_cmp, number_ordering).                          *)
THEOREM OrderOfNumbers == ArSpec => []NumbersOrdered
<1>1. ASSUME HeldInv, Comparable(acc)
      PROVE  NumbersOrdered
  <2> DEFINE others == {s \in Sample : Comparable(s)}
             upTo == [y \in others |-> NumberOrdering(acc, y)]
  <2>1. Proper(acc) /\ \A y \in others : Proper(y)
    BY <1>1, SampleGood DEF HeldInv, Held, Proper
  <2>2. ASSUME NEW y \in others
        PROVE  /\ NumberOrdering(y, acc) = -upTo[y]
               /\ NumericCmp(acc, y, FALSE) = SignOf(acc.n * y.d - y.n * acc.d)
               /\ upTo[y] \in Int
               /\ upTo[y] <= 0 <=> Before(acc, y)
               /\ upTo[y] >= 0 <=> Before(y, acc)
    <3>1. /\ NumberOrdering(acc, y) \in Int
          /\ NumberOrdering(acc, y) <= 0 <=> Before(acc, y)
          /\ NumberOrdering(y, acc) = -NumberOrdering(acc, y)
          /\ NumericCmp(acc, y, FALSE) = SignOf(Cross(acc, y))
          /\ NumberOrdering(y, acc) <= 0 <=> Before(y, acc)
      BY <2>1, Ordering
    <3>2. upTo[y] = NumberOrdering(acc, y)
      OBVIOUS
    <3> HIDE DEF upTo
    <3>3. upTo[y] \in Int /\ (upTo[y] >= 0 <=> -upTo[y] <= 0)
      BY <3>1, <3>2
    <3> QED
      BY <3>1, <3>2, <3>3 DEF Cross
  <2>3. ASSUME NEW y \in others, NEW z \in others
        PROVE  <<y, z>> \in Ordered <=> Before(y, z)
    <3>1. y \in Sample /\ z \in Sample /\ Comparable(y) /\ Comparable(z)
      OBVIOUS
    <3>2. NumberOrdering(y, z) <= 0 <=> Before(y, z)
      BY <2>1, Ordering
    <3> QED
      BY <3>1, <3>2 DEF Ordered
  <2>4. ASSUME NEW y \in others, NEW z \in others
        PROVE  /\ upTo[y] <= 0 /\ <<y, z>> \in Ordered => upTo[z] <= 0
               /\ upTo[y] >= 0 /\ upTo[z] <= 0 => <<y, z>> \in Ordered
    <3> HIDE DEF others, upTo
    <3>1. Before(acc, y) /\ Before(y, z) => Before(acc, z)
      BY <2>1, BeforeTransitive
    <3>2. Before(y, acc) /\ Before(acc, z) => Before(y, z)
      BY <2>1, BeforeTransitive
    <3> QED
      BY <2>2, <2>3, <3>1, <3>2
  <2> QED
    BY <2>2, <2>4 DEF NumbersOrdered
<1>2. HeldInv => NumbersOrdered
  BY <1>1 DEF NumbersOrdered
<1> QED
  BY <1>2, ResultsHeld, PTL

-----------------------------------------------------------------------------
(* How the exact operations fit together                                   *)

LEMMA FitsTidy ==
  ASSUME NEW x, Fits(x)
  PROVE  Exact(x) /\ Tidy(x)
<1>1. x.n \in Int /\ x.d \in Nat \ {0}
  BY FitsFields
<1>2. Coprime(Magnitude(x.n), x.d) /\ Magnitude(x.n) \in Nat
  BY <1>1, MagnitudeTyped DEF Fits, Lowest
<1>3. gcd[<<Magnitude(x.n), x.d>>] = 1
  BY <1>1, <1>2, CoprimeGcd
<1>4. Magnitude(x.d) = x.d
  BY <1>1 DEF Magnitude
<1> QED
  BY <1>1, <1>3, <1>4 DEF Fits, Tidy, GcdOf

LEMMA Commutes ==
  ASSUME NEW x, Fits(x), NEW y, Fits(y), Allowed(x, y)
  PROVE  Add(x, y) = Add(y, x) /\ Mul(x, y) = Mul(y, x)
<1>1. /\ x.n \in Int /\ x.d \in Int /\ x.im = 0 /\ y.n \in Int /\ y.d \in Int /\ y.im = 0
      /\ x.k \in {"long", "big", "rat"} /\ y.k \in {"long", "big", "rat"}
  BY FitsFields
<1>2. ASSUME NEW n, NEW im, NEW d, NEW s, NEW t
      PROVE  Combined(x, y, n, im, d, s) = Combined(y, x, n, im, d, t)
  <2>1. Ruled(x, y) /\ Ruled(y, x) /\ {x.k, y.k} = {y.k, x.k}
    BY <1>1 DEF Ruled, Allowed
  <2>2. CASE x.k = "long" /\ y.k = "long"
    BY <2>2 DEF Combined
  <2>3. CASE ~(x.k = "long" /\ y.k = "long") /\ "big" \in {x.k, y.k}
    BY <2>1, <2>3 DEF Combined
  <2>4. CASE "rat" \in {x.k, y.k} /\ "big" \notin {x.k, y.k}
    <3>1. ~(x.k = "long" /\ y.k = "long") /\ ~(y.k = "long" /\ x.k = "long")
      BY <2>4
    <3>2. "rat" \in {y.k, x.k} /\ "big" \notin {y.k, x.k}
      BY <2>4
    <3>3. Combined(x, y, n, im, d, s) = RationalToKap(n, d)
      BY <1>1, <2>1, <2>4, <3>1 DEF Combined
    <3>4. Combined(y, x, n, im, d, t) = RationalToKap(n, d)
      BY <1>1, <2>1, <3>1, <3>2 DEF Combined
    <3> QED
      BY <3>3, <3>4
  <2> QED
    BY <1>1, <2>2, <2>3, <2>4
<1>3. /\ x.n * y.d + y.n * x.d = y.n * x.d + x.n * y.d
      /\ x.im * y.d + y.im * x.d = y.im * x.d + x.im * y.d
      /\ x.d * y.d = y.d * x.d
  BY <1>1, NonZero
<1>4. /\ x.n * y.n - x.im * y.im = y.n * x.n - y.im * x.im
      /\ x.im * y.n + x.n * y.im = y.im * x.n + y.n * x.im
  BY <1>1
<1> QED
  BY <1>2, <1>3, <1>4 DEF Add, Mul

LEMMA SumUndone ==
  ASSUME NEW x, Fits(x), NEW y, Fits(y), Allowed(x, y)
  PROVE  SameNumber(Sub(Add(x, y), y), x) /\ SameNumber(Neg(Sub(x, y)), Sub(y, x))
<1>1. PICK a \in Int, p \in Nat \ {0} : a = x.n /\ p = x.d
  BY FitsFields
<1>2. PICK b \in Int, q \in Nat \ {0} : b = y.n /\ q = y.d
  BY FitsFields
<1>3. p * q \in Int /\ p * q # 0 /\ Is(x, a, p)
  BY <1>1, NonZero, FitsFields
<1>4. SameNumber(Sub(Add(x, y), y), x)
  <2>1. Fits(Add(x, y)) /\ Is(Add(x, y), a * q + b * p, p * q)
    BY <1>1, <1>2, SumsAre
  <2>2. PICK s \in Int, t \in Nat \ {0} : s = Add(x, y).n /\ t = Add(x, y).d
    BY <2>1, FitsFields
  <2>3. s * (p * q) = (a * q + b * p) * t
    BY <2>1, <2>2 DEF Is
  <2>4. Is(Sub(Add(x, y), y), s * q - b * t, t * q)
    BY <1>2, <2>1, <2>2, SumsAre
  <2>5. Equal(s * q - b * t, t * q, a, p)
    <3>1. (s * q - b * t) * p = s * (p * q) - (b * p) * t
      OBVIOUS
    <3>2. (a * q + b * p) * t - (b * p) * t = a * (t * q)
      OBVIOUS
    <3> QED
      BY <2>3, <3>1, <3>2 DEF Equal
  <2>6. s * q - b * t \in Int /\ t * q \in Int /\ t * q # 0
    BY NonZero
  <2> QED
    BY <1>3, <2>4, <2>5, <2>6, IsUnique
<1>5. SameNumber(Neg(Sub(x, y)), Sub(y, x))
  <2>1. Fits(Sub(x, y)) /\ Is(Sub(x, y), a * q - b * p, p * q)
    BY <1>1, <1>2, SumsAre
  <2>2. PICK s \in Int, t \in Nat \ {0} : s = Sub(x, y).n /\ t = Sub(x, y).d
    BY <2>1, FitsFields
  <2>3. s * (p * q) = (a * q - b * p) * t
    BY <2>1, <2>2 DEF Is
  <2>4. Is(Neg(Sub(x, y)), -s, t)
    BY <2>1, <2>2, NegIs
  <2>5. Is(Sub(y, x), b * p - a * q, q * p)
    BY <1>1, <1>2, SumsAre
  <2>6. Equal(-s, t, b * p - a * q, q * p)
    <3>1. (-s) * (q * p) = -(s * (p * q))
      OBVIOUS
    <3>2. -((a * q - b * p) * t) = (b * p - a * q) * t
      OBVIOUS
    <3> QED
      BY <2>3, <3>1, <3>2 DEF Equal
  <2>7. -s \in Int /\ b * p - a * q \in Int /\ q * p \in Int /\ q * p # 0
    BY NonZero
  <2> QED
    BY <2>4, <2>5, <2>6, <2>7, IsUnique
<1> QED
  BY <1>4, <1>5

LEMMA QuotientUndone ==
  ASSUME NEW x, Fits(x), NEW y, Fits(y), x.n # 0
  PROVE  SameNumber(Mul(Div(y, x), x), y)
<1>1. PICK a \in Int, p \in Nat \ {0} : a = x.n /\ p = x.d
  BY FitsFields
<1>2. PICK b \in Int, q \in Nat \ {0} : b = y.n /\ q = y.d /\ Is(y, b, q)
  BY FitsFields
<1>3. Fits(Div(y, x)) /\ Is(Div(y, x), b * p, q * a)
  BY <1>1, <1>2, DivIs
<1>4. PICK s \in Int, t \in Nat \ {0} : s = Div(y, x).n /\ t = Div(y, x).d /\ s * (q * a) = (b * p) * t
  BY <1>3, FitsFields DEF Is
<1>5. Is(Mul(Div(y, x), x), s * a, t * p)
  BY <1>1, <1>3, <1>4, SumsAre
<1>6. Equal(s * a, t * p, b, q)
  <2>1. (s * a) * q = s * (q * a) /\ (b * p) * t = b * (t * p)
    OBVIOUS
  <2> QED
    BY <1>4, <2>1 DEF Equal
<1>7. s * a \in Int /\ t * p \in Int /\ t * p # 0
  BY NonZero
<1> QED
  BY <1>2, <1>5, <1>6, <1>7, IsUnique

LEMMA RemainderFits ==
  ASSUME NEW x, Fits(x), x.k = "long", NEW y, Fits(y), IsIntegral(y), x.n # 0, Modulo(x, y) # Trapped
  PROVE  /\ y.n = x.n * Floor(Div(y, x)).n + Modulo(x, y).n
         /\ Magnitude(Modulo(x, y).n) < Magnitude(x.n) /\ Modulo(x, y).n * x.n >= 0
<1>1. PICK a \in Int, b \in Int : a = x.n /\ b = y.n /\ a # 0
  BY FitsFields
<1>2. x.d = 1 /\ y.d = 1
  BY FitsFields DEF IsIntegral
<1>3. PICK r \in Int : r = Modulo(x, y).n /\ Remainder(b, a, r)
  <2>1. Remainder(b, a, Modulo(x, y).n)
    BY <1>1, ModuloIs
  <2> QED
    BY <2>1 DEF Remainder
<1>4. PICK f \in Int : f = Floor(Div(y, x)).n
  BY DivIs, FloorIs, FitsFields
<1>5. Remainder(b, a, b - a * f)
  BY <1>1, <1>2, <1>4, FloorRemains
<1>6. r = b - a * f
  BY <1>1, <1>3, <1>5, RemainderUnique
<1>7. b = a * f + r
  <2>1. a * f \in Int
    OBVIOUS
  <2> QED
    BY <1>6, <2>1
<1>8. Magnitude(r) < Magnitude(a) /\ r * a >= 0
  <2>1. IF a > 0 THEN 0 <= r /\ r < a ELSE a < r /\ r <= 0
    BY <1>3 DEF Remainder
  <2>2. Magnitude(r) < Magnitude(a)
    BY <1>1, <2>1 DEF Magnitude
  <2>3. r * a >= 0
    <3>1. a > 0 /\ r >= 0 => r * a >= 0
      OBVIOUS
    <3>2. a < 0 /\ r <= 0 => r * a >= 0
      OBVIOUS
    <3> QED
      BY <1>1, <2>1, <3>1, <3>2
  <2> QED
    BY <2>2, <2>3
<1> QED
  BY <1>1, <1>3, <1>4, <1>7, <1>8

LEMMA CeilMirrors ==
  ASSUME NEW x, Fits(x)
  PROVE  SameNumber(Ceil(x), Neg(Floor(Neg(x))))
<1>1. Fits(Neg(x)) /\ Neg(x).n = -x.n /\ Neg(x).d = x.d
  BY NegIs
<1>2. Fits(Floor(Neg(x))) /\ Floor(Neg(x)).n = FloorDiv(-x.n, x.d) /\ Floor(Neg(x)).d = 1
  BY <1>1, FloorIs
<1>3. Neg(Floor(Neg(x))).n = -FloorDiv(-x.n, x.d) /\ Neg(Floor(Neg(x))).d = 1
  BY <1>2, NegIs
<1> QED
  BY <1>3, FloorIs DEF SameNumber

LEMMA SquareIs ==
  ASSUME NEW x, Fits(x)
  PROVE  SameNumber(Pow(x, Long(2)), Mul(x, x))
<1>1. PICK a \in Int, p \in Nat \ {0} : a = x.n /\ p = x.d
  BY FitsFields
<1>2. /\ power[<<a, 2>>] = a * a /\ power[<<p, 2>>] = p * p
  <2>1. p \in Int
    OBVIOUS
  <2> QED
    BY <2>1, Powers
<1>3. a * a \in Int /\ p * p \in Int /\ p * p # 0
  BY NonZero
<1>4. Is(Mul(x, x), a * a, p * p)
  BY <1>1, SumsAre
<1>5. Long(2).k = "long" /\ Long(2).n = 2 /\ Magnitude(2) = 2
  BY DEF Long, Magnitude
<1>6. Is(Pow(x, Long(2)), a * a, p * p)
  <2>1. CASE x.k \in {"long", "big"}
    <3>1. Pow(x, Long(2)) = BigintToKap(a * a) /\ p * p = 1
      <4>1. p = 1
        BY <1>1, <2>1, FitsFields
      <4>2. Pow(x, Long(2)) = BigintToKap(power[<<a, 2>>])
        BY <1>1, <1>5, <2>1 DEF Pow
      <4> QED
        BY <1>2, <4>1, <4>2
    <3> QED
      BY <1>3, <3>1, KapIs
  <2>2. CASE x.k = "rat"
    <3>1. Pow(x, Long(2)) = RationalToKap(power[<<a, 2>>], power[<<p, 2>>])
      BY <1>1, <1>5, <2>2 DEF Pow
    <3> QED
      BY <1>2, <1>3, <3>1, RationalsAre
  <2> QED
    BY <2>1, <2>2, FitsFields
<1>7. Equal(a * a, p * p, a * a, p * p)
  BY DEF Equal
<1> QED
  BY <1>3, <1>4, <1>6, <1>7, IsUnique

(* The greatest common divisor, when it is a machine integer or its least.  *)
LEMMA GcdIsLong ==
  ASSUME NEW x, Held(x), IsIntegral(x), InLong(x.n), NEW y, Held(y), IsIntegral(y), InLong(y.n),
         x.n # 0, Gcd(x, y) # Trapped
  PROVE  \E h \in Nat \ {0}, i, j \in Nat :
           /\ Magnitude(x.n) = i * h /\ Magnitude(y.n) = j * h
           /\ Gcd(x, y) = Long(h) \/ (Gcd(x, y) = Long(-h) /\ h = MaxLong + 1)
<1>1. PICK a \in Int, b \in Int : a = x.n /\ b = y.n /\ a # 0
  BY HeldKinds, FitsFields DEF IsIntegral
<1>2. AsLong(x) = Long(a) /\ AsLong(y) = Long(b)
  BY <1>1, LongOf
<1>3. Long(a) # NoNumber /\ Long(b) # NoNumber /\ Long(a).n = a /\ Long(b).n = b
  BY DEF Long, NoNumber
<1>4. Gcd(x, y) = IF GcdOf(a, b) = MaxLong + 1 THEN IF 0 \in {a, b} THEN Trapped ELSE Long(MinLong)
                  ELSE Long(GcdOf(a, b))
  BY <1>2, <1>3 DEF Gcd
<1>5. PICK p \in Nat \ {0}, q \in Nat : p = Magnitude(a) /\ q = Magnitude(b)
  BY <1>1, MagnitudeTyped
<1>6. GcdFacts(p, q, gcd[<<p, q>>])
  BY GcdIs
<1>7. PICK h \in Nat : h = GcdOf(a, b) /\ GcdFacts(p, q, h)
  BY <1>5, <1>6 DEF GcdOf, GcdFacts
<1>8. PICK i \in Nat, j \in Nat : p = i * h /\ q = j * h
  BY <1>7 DEF GcdFacts
<1>9. h # 0
  BY <1>8
<1>10. Gcd(x, y) = Long(h) \/ (Gcd(x, y) = Long(-h) /\ h = MaxLong + 1)
  BY <1>4, <1>7, MaxLongAssumption DEF MinLong
<1> QED
  BY <1>1, <1>5, <1>8, <1>9, <1>10

LEMMA GcdDivides ==
  ASSUME NEW x, Held(x), IsIntegral(x), InLong(x.n), NEW y, Held(y), IsIntegral(y), InLong(y.n),
         x.n # 0, Gcd(x, y) # Trapped
  PROVE  x.n % Magnitude(Gcd(x, y).n) = 0 /\ y.n % Magnitude(Gcd(x, y).n) = 0
<1>1. PICK h \in Nat \ {0}, i \in Nat, j \in Nat :
        /\ Magnitude(x.n) = i * h /\ Magnitude(y.n) = j * h
        /\ Gcd(x, y) = Long(h) \/ (Gcd(x, y) = Long(-h) /\ h = MaxLong + 1)
  BY GcdIsLong
<1>2. Magnitude(Gcd(x, y).n) = h
  BY <1>1 DEF Long, Magnitude
<1>3. ASSUME NEW a \in Int, NEW k \in Nat, Magnitude(a) = k * h
      PROVE  a % h = 0
  <2>1. PICK m \in Int : a = m * h
    <3>1. a = k * h \/ a = (-k) * h
      BY <1>3 DEF Magnitude
    <3> QED
      BY <3>1
  <2>2. PICK q \in Int, r \in Nat : q = a \div h /\ r = a % h /\ r < h /\ a = h * q + r
    OBVIOUS
  <2>3. (m - q) * h = r
    <3>1. (m - q) * h = m * h - h * q /\ h * q \in Int
      OBVIOUS
    <3> QED
      BY <2>1, <2>2, <3>1
  <2>4. m - q = 0
    BY <2>2, <2>3
  <2> QED
    BY <2>2, <2>3, <2>4
<1>4. x.n \in Int /\ y.n \in Int
  BY HeldKinds, FitsFields DEF IsIntegral
<1> QED
  BY <1>1, <1>2, <1>3, <1>4

LEMMA LcmIs ==
  ASSUME NEW x, Held(x), x.k = "long", NEW y, Held(y), y.k = "long",
         InLong(x.n * y.n), x.n # 0, y.n # 0, Lcm(x, y) # Trapped
  PROVE  Magnitude(x.n * y.n) = Magnitude(Gcd(x, y).n * Lcm(x, y).n)
<1>1. /\ IsIntegral(x) /\ IsIntegral(y) /\ Fits(x) /\ Fits(y) /\ InLong(x.n) /\ InLong(y.n)
  BY HeldKinds, FitsFields DEF IsIntegral
<1>2. PICK a \in Int, b \in Int : a = x.n /\ b = y.n /\ a # 0 /\ b # 0
  BY <1>1, FitsFields
<1>3. ~(x = Long(0) /\ y = Long(0))
  BY DEF Long
<1>4. Gcd(x, y) # Trapped
  BY <1>3 DEF Lcm
<1>5. PICK h \in Nat \ {0}, i \in Nat, j \in Nat :
        /\ Magnitude(a) = i * h /\ Magnitude(b) = j * h
        /\ Gcd(x, y) = Long(h) \/ (Gcd(x, y) = Long(-h) /\ h = MaxLong + 1)
  BY <1>1, <1>2, <1>4, GcdIsLong
<1>6. PICK g \in Int : Gcd(x, y) = Long(g) /\ Magnitude(g) = h /\ (g = h \/ g = MinLong)
  BY <1>5, MaxLongAssumption DEF Magnitude, MinLong
<1>7. PICK c \in Int : c = a * b /\ Mul(x, y) = Long(c) /\ InLong(c)
  BY <1>1, <1>2, SumsAre DEF BigintToKap
<1>8. PICK l \in Int : l = Quot(c, g) /\ c = g * l + Rem(c, g) /\ Rem(c, g) \in Int
                       /\ Magnitude(Rem(c, g)) < h
  <2>1. g # 0
    BY <1>5, <1>6 DEF Magnitude
  <2>2. /\ Quot(c, g) \in Int /\ Rem(c, g) \in Int /\ c = g * Quot(c, g) + Rem(c, g)
        /\ Magnitude(Rem(c, g)) < Magnitude(g)
    BY <2>1, QuotRem
  <2> QED
    BY <1>6, <2>2
<1>9. Rem(c, g) = 0
  <2>1. PICK m \in Int : a = m * h
    <3>1. a = i * h \/ a = (-i) * h
      BY <1>5 DEF Magnitude
    <3> QED
      BY <3>1
  <2>2. PICK w \in Int : h = w * g
    <3>1. g = h \/ g = -h
      BY <1>6 DEF Magnitude
    <3> QED
      BY <3>1
  <2>3. c = ((m * w) * b) * g /\ (m * w) * b \in Int
    <3>1. c = ((m * w) * g) * b
      BY <1>7, <2>1, <2>2, Multiply
    <3> QED
      BY <3>1, Scaling
  <2>4. PICK k \in Int : k = (m * w) * b - l /\ Rem(c, g) = k * g
    <3>1. ((m * w) * b - l) * g = ((m * w) * b) * g - l * g /\ l * g = g * l /\ g * l \in Int
      BY <2>3, Multiply
    <3> QED
      BY <1>8, <2>3, <3>1
  <2>5. \A u, v \in Int : Magnitude(u) >= 1 => Magnitude(u * v) >= Magnitude(v)
    BY DEF Magnitude
  <2>6. k = 0
    <3>1. k # 0 => Magnitude(k * g) >= Magnitude(g)
      <4>1. k # 0 => Magnitude(k) >= 1
        BY DEF Magnitude
      <4> QED
        BY <2>5, <4>1
    <3>2. Magnitude(k * g) < h /\ Magnitude(k * g) \in Int
      BY <1>8, <2>4, MagnitudeTyped
    <3> QED
      BY <1>6, <3>1, <3>2
  <2> QED
    BY <2>4, <2>6
<1>10. c = g * l
  <2>1. g * l \in Int
    OBVIOUS
  <2> QED
    BY <1>8, <1>9, <2>1
<1>11. Div(Mul(x, y), Gcd(x, y)) = Long(l)
  <2>1. /\ Long(c).k = "long" /\ Long(g).k = "long" /\ Long(c).n = c /\ Long(g).n = g
    BY DEF Long
  <2>2. g # 0 /\ g # -1
    BY <1>5, <1>6, MaxLongAssumption DEF MinLong, Magnitude
  <2> QED
    BY <1>6, <1>7, <1>8, <1>9, <2>1, <2>2 DEF Div
<1>12. Lcm(x, y) = Long(Magnitude(l))
  <2>1. Long(l).k = "long" /\ Long(l).n = l /\ Long(g) # Trapped
    BY DEF Long, Trapped
  <2>2. Lcm(x, y) = IF l = MinLong THEN Trapped ELSE Long(Magnitude(l))
    BY <1>3, <1>6, <1>11, <2>1 DEF Lcm
  <2> QED
    BY <2>2
<1>13. Magnitude(g * l) = Magnitude(g * Magnitude(l))
  <2>1. g * (-l) = -(g * l) /\ g * l \in Int
    OBVIOUS
  <2> QED
    BY <2>1 DEF Magnitude
<1>14. Long(g).n = g /\ Long(Magnitude(l)).n = Magnitude(l)
  BY DEF Long
<1> QED
  BY <1>2, <1>6, <1>7, <1>10, <1>12, <1>13, <1>14

(* The laws of exact numbers, whatever the numbers and the width of the     *)
(* machine integer: no operation of number.rs rounds, wraps or leaves its   *)
(* kind without need, and the operations undo one another.                  *)
THEOREM LawsOfExactNumbers ==
  ASSUME NEW x, Held(x), Exact(x), NEW y, Held(y), Exact(y), Allowed(x, y)
  PROVE  ExactLaws(x, y)
<1>1. Fits(x) /\ Fits(y)
  BY DEF Held, Kept
<1>2. \A z \in {Add(x, y), Sub(x, y), Mul(x, y), Neg(x), Div(y, x)} : Exact(z) /\ Tidy(z)
  <2>1. Fits(Add(x, y)) /\ Fits(Sub(x, y)) /\ Fits(Mul(x, y)) /\ Fits(Neg(x)) /\ Fits(Div(y, x))
    BY <1>1, SumsAre, NegIs, DivIs
  <2> QED
    BY <2>1, FitsTidy
<1>3. Add(x, y) = Add(y, x) /\ Mul(x, y) = Mul(y, x)
  BY <1>1, Commutes
<1>4. SameNumber(Sub(Add(x, y), y), x) /\ SameNumber(Neg(Sub(x, y)), Sub(y, x))
  BY <1>1, SumUndone
<1>5. x.k = "long" /\ y.k = "long" =>
        /\ Add(x, y).k = IF InLong(x.n + y.n) THEN "long" ELSE "big"
        /\ Mul(x, y).k = IF InLong(x.n * y.n) THEN "long" ELSE "big"
  <2>1. \A n : BigintToKap(n).k = IF InLong(n) THEN "long" ELSE "big"
    BY DEF BigintToKap, Long, Big
  <2> QED
    BY <1>1, <2>1, SumsAre
<1>6. x.n # 0 => SameNumber(Mul(Div(y, x), x), y)
  BY <1>1, QuotientUndone
<1>7. x.k = "long" /\ IsIntegral(y) /\ x.n # 0 /\ Modulo(x, y) # Trapped =>
        /\ y.n = x.n * Floor(Div(y, x)).n + Modulo(x, y).n
        /\ Magnitude(Modulo(x, y).n) < Magnitude(x.n) /\ Modulo(x, y).n * x.n >= 0
  BY <1>1, RemainderFits
<1>8. Floor(x).n * x.d <= x.n /\ x.n < (Floor(x).n + 1) * x.d
  BY <1>1, FitsFields, FloorIs, FloorDivIs
<1>9. SameNumber(Ceil(x), Neg(Floor(Neg(x)))) /\ SameNumber(Pow(x, Long(2)), Mul(x, x))
  BY <1>1, CeilMirrors, SquareIs
<1>10. IsIntegral(x) /\ IsIntegral(y) /\ InLong(x.n) /\ InLong(y.n) /\ x.n # 0 /\ Gcd(x, y) # Trapped =>
         x.n % Magnitude(Gcd(x, y).n) = 0 /\ y.n % Magnitude(Gcd(x, y).n) = 0
  BY <1>1, GcdDivides
<1>11. x.k = "long" /\ y.k = "long" /\ InLong(x.n * y.n) /\ x.n # 0 /\ y.n # 0 /\ Lcm(x, y) # Trapped =>
         Magnitude(x.n * y.n) = Magnitude(Gcd(x, y).n * Lcm(x, y).n)
  BY <1>1, LcmIs
<1> QED
  BY ONLY <1>2, <1>3, <1>4, <1>5, <1>6, <1>7, <1>8, <1>9, <1>10, <1>11, Zenon DEF ExactLaws

(* They hold of every result of a chain of calculations and every number of *)
(* the sample.                                                              *)
THEOREM ExactNumbers == ArSpec => []NumbersExact
<1>1. HeldInv => NumbersExact
  BY SampleHeld, LawsOfExactNumbers DEF HeldInv, Allowed, NumbersExact
<1> QED
  BY <1>1, ResultsHeld, PTL

-----------------------------------------------------------------------------
(* Divisors                                                                *)

LEMMA Divided ==
  ASSUME NEW n \in Nat, NEW d \in Nat \ {0}, Divides(d, n)
  PROVE  n \div d \in Nat /\ n = d * (n \div d)
<1>1. n = d * (n \div d) + (n % d) /\ n \div d \in Nat
  OBVIOUS
<1>2. n % d = 0
  BY DEF Divides
<1> QED
  BY <1>1, <1>2

LEMMA Multiples ==
  ASSUME NEW n \in Nat, NEW d \in Nat \ {0}, NEW q \in Nat, n = d * q
  PROVE  Divides(d, n) /\ n \div d = q
<1>1. n = d * (n \div d) + (n % d) /\ n \div d \in Nat /\ n % d \in Nat /\ n % d < d
  OBVIOUS
<1>2. PICK p \in Nat, r \in Nat : p = n \div d /\ r = n % d /\ n = d * p + r /\ r < d
  BY <1>1
<1>3. PICK j \in Int : j = q - p /\ d * j = r
  <2>1. d * (q - p) = d * q - d * p /\ d * q \in Int /\ d * p \in Int
    OBVIOUS
  <2> QED
    BY <1>2, <2>1
<1>4. j = 0
  <2>1. (j >= 1 => d * j >= d) /\ (j <= -1 => d * j <= -d)
    OBVIOUS
  <2> QED
    BY <1>2, <1>3, <2>1
<1>5. q = p /\ r = 0
  BY <1>3, <1>4
<1> QED
  BY <1>2, <1>5 DEF Divides

LEMMA DividesThrough ==
  ASSUME NEW n \in Nat, NEW e \in Nat, NEW m \in Nat, n = e * m,
         NEW c \in Nat \ {0}, Divides(c, m)
  PROVE  Divides(c, n)
<1>1. PICK q \in Nat : m = c * q
  BY Divided
<1>2. PICK k \in Nat : k = e * q /\ n = c * k
  <2>1. e * (c * q) = c * (e * q) /\ e * q \in Nat
    OBVIOUS
  <2> QED
    BY <1>1, <2>1
<1> QED
  BY <1>2, Multiples

(* The divisor on the other side of the square root.                       *)
LEMMA OtherDivisor ==
  ASSUME NEW n \in Nat, NEW d \in 2..(n - 1), Divides(d, n)
  PROVE  \E q \in 2..(n - 1) : /\ n = d * q /\ n \div d = q /\ n \div q = d /\ Divides(q, n)
                               /\ d * d <= n \/ q * q <= n
<1>1. PICK q \in Nat : n = d * q /\ n \div d = q
  BY Divided
<1>2. q # 0 /\ q # 1
  BY <1>1
<1>3. q < n
  <2>1. d * q >= 2 * q
    BY <1>1
  <2> QED
    BY <1>1, <1>2, <2>1
<1>4. q \in 2..(n - 1) /\ q \in Nat \ {0} /\ n = q * d
  BY <1>1, <1>2, <1>3
<1>5. Divides(q, n) /\ n \div q = d
  BY <1>4, Multiples
<1>6. d * d <= n \/ q * q <= n
  <2>1. CASE d <= q
    <3>1. d * d <= d * q
      BY <2>1, <1>1
    <3> QED
      BY <1>1, <3>1
  <2>2. CASE q <= d
    <3>1. q * q <= d * q
      BY <2>2, <1>1
    <3> QED
      BY <1>1, <3>1
  <2> QED
    BY <1>1, <2>1, <2>2
<1> QED
  BY <1>1, <1>4, <1>5, <1>6

LEMMA PrimeByRoot ==
  ASSUME NEW n \in Nat, n >= 2,
         \A d \in Nat : d >= 2 /\ d * d <= n => ~Divides(d, n)
  PROVE  Prime(n)
<1>1. ASSUME NEW d \in 2..(n - 1), Divides(d, n) PROVE FALSE
  <2>1. PICK q \in 2..(n - 1) : Divides(q, n) /\ (d * d <= n \/ q * q <= n)
    BY <1>1, OtherDivisor
  <2> QED
    BY <1>1, <2>1
<1> QED
  BY <1>1 DEF Prime

(* An odd number has odd divisors.                                         *)
LEMMA OddDivisors ==
  ASSUME NEW n \in Nat, n % 2 # 0, NEW d \in Nat \ {0}, Divides(d, n)
  PROVE  d % 2 = 1
<1>1. CASE d % 2 = 0
  <2>1. PICK e \in Nat : d = 2 * e
    BY <1>1
  <2>2. PICK q \in Nat : n = d * q
    BY Divided
  <2>3. PICK k \in Nat : k = e * q /\ n = 2 * k
    <3>1. (2 * e) * q = 2 * (e * q) /\ e * q \in Nat
      OBVIOUS
    <3> QED
      BY <2>1, <2>2, <3>1
  <2> QED
    BY <2>3
<1> QED
  BY <1>1

LEMMA DivisorsAll ==
  ASSUME NEW n \in Nat, n >= 2
  PROVE  DivisorLaw(n)
<1> DEFINE step == IF n % 2 = 0 THEN 1 ELSE 2
           start == IF n % 2 = 0 THEN 2 ELSE 3
           small == {d \in start .. n : d * d <= n /\ Divides(d, n) /\ (d - start) % step = 0}
           found == (small \cup {n \div d : d \in small}) \ {1, n}
           proper == {d \in 2 .. (n - 1) : Divides(d, n)}
<1>1. ASSUME NEW d \in small PROVE d \in 2..(n - 1) /\ Divides(d, n)
  <2>1. d \in Nat /\ d >= 2 /\ d <= n /\ d * d <= n /\ Divides(d, n)
    OBVIOUS
  <2>2. d # n
    <3>1. d * d >= 2 * d
      BY <2>1
    <3> QED
      BY <2>1, <3>1
  <2> QED
    BY <2>1, <2>2
<1>2. ASSUME NEW d \in 2..(n - 1), Divides(d, n), d * d <= n PROVE d \in small
  <2>1. CASE n % 2 = 0
    BY <1>2, <2>1
  <2>2. CASE n % 2 # 0
    <3>1. d % 2 = 1
      BY <1>2, <2>2, OddDivisors
    <3>2. d >= 3 /\ (d - 3) % 2 = 0 /\ d \in 3..n
      BY <3>1
    <3> QED
      BY <1>2, <2>2, <3>2
  <2> QED
    BY <2>1, <2>2
<1>3. Divisors(n) = found
  BY DEF Divisors
<1> HIDE DEF small
<1>4. ASSUME NEW d \in found PROVE d \in proper
  <2>1. CASE d \in small
    BY <1>1, <2>1
  <2>2. CASE \E c \in small : d = n \div c
    <3>1. PICK c \in small : d = n \div c
      BY <2>2
    <3>2. c \in 2..(n - 1) /\ Divides(c, n)
      BY <1>1
    <3>3. PICK q \in 2..(n - 1) : n \div c = q /\ Divides(q, n)
      BY <3>2, OtherDivisor
    <3> QED
      BY <3>1, <3>3
  <2> QED
    BY <2>1, <2>2
<1>5. ASSUME NEW d \in proper PROVE d \in found
  <2>1. d \in 2..(n - 1) /\ Divides(d, n)
    OBVIOUS
  <2>2. PICK q \in 2..(n - 1) : n \div q = d /\ Divides(q, n) /\ (d * d <= n \/ q * q <= n)
    BY <2>1, OtherDivisor
  <2>3. d \notin {1, n}
    BY <2>1
  <2>4. d \in small \/ q \in small
    BY <1>2, <2>1, <2>2
  <2> QED
    BY <2>2, <2>3, <2>4
<1>6. found = proper
  <2> HIDE DEF found, proper
  <2> QED
    BY <1>4, <1>5
<1> QED
  BY <1>3, <1>6 DEF DivisorLaw

-----------------------------------------------------------------------------
(* Trial division                                                          *)

Trials == Nat \X (Nat \ {0, 1})
Tried(r, d) == {e \in d .. r : e * e <= r /\ Divides(e, r)}
Smallest(r, d) == LeastOf(Tried(r, d))
FactorStep(h) ==
  [p \in Trials |-> IF Tried(p[1], p[2]) # {}
                    THEN <<Smallest(p[1], p[2])>>
                         \o h[<<p[1] \div Smallest(p[1], p[2]), Smallest(p[1], p[2])>>]
                    ELSE IF p[1] > 1 THEN <<p[1]>> ELSE <<>>]

(* The divisor that is found, and what is left to divide.                  *)
Split(r, d, e, q) ==
  /\ e \in Nat \ {0, 1} /\ d <= e /\ e * e <= r /\ Divides(e, r)
  /\ \A c \in Tried(r, d) : e <= c
  /\ q \in Nat /\ r = e * q /\ q < r /\ e <= q

LEMMA Splits ==
  ASSUME NEW r \in Nat, NEW d \in Nat \ {0, 1}, Tried(r, d) # {}
  PROVE  Split(r, d, Smallest(r, d), r \div Smallest(r, d))
<1>1. \E e \in Tried(r, d) : \A c \in Tried(r, d) : e <= c
  <2>1. Tried(r, d) \in SUBSET Nat
    BY DEF Tried
  <2> QED
    BY <2>1, LeastNumber
<1>2. PICK e : e = Smallest(r, d)
  OBVIOUS
<1>3. e \in Tried(r, d) /\ \A c \in Tried(r, d) : e <= c
  BY <1>1, <1>2 DEF Smallest, LeastOf
<1>4. e \in Nat \ {0, 1} /\ d <= e /\ e <= r /\ e * e <= r /\ Divides(e, r)
  BY <1>3 DEF Tried
<1>5. PICK q \in Nat : r = e * q /\ r \div e = q
  BY <1>4, Divided
<1>6. q # 0
  BY <1>4, <1>5
<1>7. q < r
  <2>1. e * q >= 2 * q
    BY <1>4, <1>5
  <2> QED
    BY <1>5, <1>6, <2>1
<1>8. e <= q
  <2>1. CASE q < e
    <3>1. e * q < e * e
      BY <1>4, <1>5, <2>1
    <3> QED
      BY <1>4, <1>5, <3>1
  <2> QED
    BY <1>4, <1>5, <2>1
<1> QED
  BY <1>2, <1>3, <1>4, <1>5, <1>7, <1>8 DEF Split

LEMMA Concatenated ==
  ASSUME NEW e \in Nat, NEW s \in Seq(Nat)
  PROVE  <<e>> \o s \in Seq(Nat)
OBVIOUS

LEMMA FactorsExist == \E g : g = FactorStep(g)
<1> DEFINE V == [Trials -> Seq(Nat)]
           start == [p \in Trials |-> <<>>]
           G == [h \in V |-> FactorStep(h)]
<1>0. ASSUME NEW r \in Nat, NEW d \in Nat \ {0, 1}, Tried(r, d) # {}
      PROVE  /\ Smallest(r, d) \in Nat \ {0, 1} /\ r \div Smallest(r, d) \in Nat
             /\ r \div Smallest(r, d) < r
             /\ <<r \div Smallest(r, d), Smallest(r, d)>> \in Trials
  BY <1>0, Splits DEF Split, Trials
<1>1. ASSUME NEW h \in V PROVE FactorStep(h) \in V
  <2>1. ASSUME NEW p \in Trials PROVE FactorStep(h)[p] \in Seq(Nat)
    <3>1. PICK r \in Nat, d \in Nat \ {0, 1} : p = <<r, d>> /\ p[1] = r /\ p[2] = d
      BY DEF Trials
    <3>2. CASE Tried(r, d) # {}
      <4>1. PICK e \in Nat : e = Smallest(r, d)
        BY <1>0, <3>2
      <4>2. PICK s \in Seq(Nat) : s = h[<<r \div e, e>>]
        BY <1>0, <3>2, <4>1
      <4>3. <<e>> \o s \in Seq(Nat)
        BY Concatenated
      <4>4. FactorStep(h)[p] = <<e>> \o s
        BY <3>1, <3>2, <4>1, <4>2 DEF FactorStep
      <4> QED
        BY <4>3, <4>4
    <3>3. CASE Tried(r, d) = {}
      <4>1. <<r>> \in Seq(Nat) /\ <<>> \in Seq(Nat)
        OBVIOUS
      <4>2. FactorStep(h)[p] = IF r > 1 THEN <<r>> ELSE <<>>
        BY <3>1, <3>3 DEF FactorStep
      <4> QED
        BY <4>1, <4>2
    <3> QED
      BY <3>2, <3>3
  <2> QED
    BY <2>1 DEF FactorStep
<1>2. start \in V /\ G \in [V -> V] /\ \A h \in V : G[h] = FactorStep(h)
  <2>1. <<>> \in Seq(Nat)
    OBVIOUS
  <2> QED
    BY <1>1, <2>1
<1> HIDE DEF G, start
<1>3. PICK f : Endless(V, start, G, f)
  <2> HIDE DEF V
  <2> QED
    BY <1>2, EndlessExists
<1>4. /\ \A n \in Nat : f[n] \in V
      /\ \A n \in Nat : f[n + 1] = FactorStep(f[n])
  BY <1>2, <1>3 DEF Endless
<1> DEFINE Made(r, d, h) ==
             IF Tried(r, d) # {}
             THEN <<Smallest(r, d)>> \o h[<<r \div Smallest(r, d), Smallest(r, d)>>]
             ELSE IF r > 1 THEN <<r>> ELSE <<>>
           Settled(n) == \A r \in 0..(n - 1), d \in Nat \ {0, 1} : f[n + 1][<<r, d>>] = f[n][<<r, d>>]
<1>5. \A n \in Nat, r \in Nat, d \in Nat \ {0, 1} : f[n + 1][<<r, d>>] = Made(r, d, f[n])
  <2>1. \A r \in Nat, d \in Nat \ {0, 1} : <<r, d>> \in Trials
    BY DEF Trials
  <2> QED
    BY <1>4, <2>1 DEF FactorStep
<1>6. ASSUME NEW n \in Nat, Settled(n) PROVE Settled(n + 1)
  <2>1. ASSUME NEW r \in 0..n, NEW d \in Nat \ {0, 1}
        PROVE  f[(n + 1) + 1][<<r, d>>] = f[n + 1][<<r, d>>]
    <3>0. PICK m \in Nat : m = n + 1
      OBVIOUS
    <3>1. r \in Nat
      OBVIOUS
    <3>2. f[m + 1][<<r, d>>] = Made(r, d, f[m]) /\ f[n + 1][<<r, d>>] = Made(r, d, f[n])
      <4> HIDE DEF Made
      <4> QED
        BY <1>5, <3>1
    <3>3. ASSUME Tried(r, d) # {}
          PROVE  f[n + 1][<<r \div Smallest(r, d), Smallest(r, d)>>]
                   = f[n][<<r \div Smallest(r, d), Smallest(r, d)>>]
      <4>1. PICK q \in Nat, e \in Nat \ {0, 1} : q = r \div Smallest(r, d) /\ e = Smallest(r, d) /\ q < r
        BY <1>0, <3>1, <3>3
      <4>2. q \in 0..(n - 1)
        BY <4>1
      <4>3. f[n + 1][<<q, e>>] = f[n][<<q, e>>]
        BY <1>6, <4>2
      <4> QED
        BY <4>1, <4>3
    <3> QED
      BY <3>0, <3>2, <3>3, Zenon
  <2>2. 0..((n + 1) - 1) = 0..n
    OBVIOUS
  <2> QED
    BY <2>1, <2>2
<1>7. ASSUME NEW n \in Nat PROVE Settled(n)
  <2> DEFINE S == {i \in 0..n : Settled(i)}
  <2>1. 0 \in S
    OBVIOUS
  <2>2. \A i \in 0..n : i \in S /\ i + 1 <= n => i + 1 \in S
    <3> HIDE DEF Settled
    <3> QED
      BY <1>6
  <2>3. \A i \in 0..n : i \in S
    <3> HIDE DEF S
    <3> QED
      BY <2>1, <2>2, InductionUpTo
  <2>4. n \in S
    BY <2>3
  <2> HIDE DEF Settled
  <2> QED
    BY <2>4
<1>8. ASSUME NEW r \in Nat, NEW d \in Nat \ {0, 1}, NEW m \in Nat
      PROVE  \A i \in 0..m : f[(r + 1) + i][<<r, d>>] = f[r + 1][<<r, d>>]
  <2> DEFINE S == {i \in 0..m : f[(r + 1) + i][<<r, d>>] = f[r + 1][<<r, d>>]}
  <2>1. 0 \in S
    OBVIOUS
  <2>2. ASSUME NEW i \in 0..m, i \in S /\ i + 1 <= m
        PROVE  i + 1 \in S
    <3>1. (r + 1) + i \in Nat /\ r \in 0..(((r + 1) + i) - 1) /\ (r + 1) + (i + 1) = ((r + 1) + i) + 1
      OBVIOUS
    <3>2. f[((r + 1) + i) + 1][<<r, d>>] = f[(r + 1) + i][<<r, d>>]
      BY <1>7, <3>1
    <3> QED
      BY <2>2, <3>1, <3>2
  <2>3. \A i \in 0..m : i \in S
    <3> HIDE DEF S
    <3> QED
      BY <2>1, <2>2, InductionUpTo
  <2> QED
    BY <2>3
<1> DEFINE g == [p \in Trials |-> f[p[1] + 1][p]]
<1>9. ASSUME NEW p \in Trials PROVE g[p] = FactorStep(g)[p]
  <2>1. PICK r \in Nat, d \in Nat \ {0, 1} : p = <<r, d>> /\ p[1] = r /\ p[2] = d
    BY DEF Trials
  <2>2. g[p] = Made(r, d, f[r])
    <3>1. g[p] = f[r + 1][<<r, d>>]
      BY <2>1
    <3> HIDE DEF g, Made
    <3> QED
      BY <1>5, <3>1
  <2>3. ASSUME Tried(r, d) # {}
        PROVE  f[r][<<r \div Smallest(r, d), Smallest(r, d)>>]
                 = g[<<r \div Smallest(r, d), Smallest(r, d)>>]
    <3>1. PICK q \in Nat, e \in Nat \ {0, 1} : /\ q = r \div Smallest(r, d) /\ e = Smallest(r, d)
                                               /\ q < r /\ <<q, e>> \in Trials
      BY <1>0, <2>3
    <3>2. (r - q) - 1 \in 0..r /\ (q + 1) + ((r - q) - 1) = r
      BY <3>1
    <3>3. f[r][<<q, e>>] = f[q + 1][<<q, e>>]
      <4>1. \A i \in 0..r : f[(q + 1) + i][<<q, e>>] = f[q + 1][<<q, e>>]
        BY <1>8
      <4> QED
        BY <3>2, <4>1
    <3>4. g[<<q, e>>] = f[q + 1][<<q, e>>]
      BY <3>1
    <3> QED
      BY <3>1, <3>3, <3>4
  <2>4. FactorStep(g)[p] = Made(r, d, g)
    <3> HIDE DEF g
    <3> QED
      BY <2>1 DEF FactorStep
  <2> HIDE DEF g
  <2> QED
    BY <2>2, <2>3, <2>4, Zenon
<1>10. g = FactorStep(g)
  <2>1. FactorStep(g) = [p \in Trials |-> FactorStep(g)[p]]
    BY DEF FactorStep
  <2> QED
    BY <1>9, <2>1
<1> QED
  BY <1>10

LEMMA FactorSteps ==
  ASSUME NEW r \in Nat, NEW d \in Nat \ {0, 1}
  PROVE  factors[<<r, d>>] =
           IF Tried(r, d) # {}
           THEN <<Smallest(r, d)>> \o factors[<<r \div Smallest(r, d), Smallest(r, d)>>]
           ELSE IF r > 1 THEN <<r>> ELSE <<>>
<1>1. factors = CHOOSE g : g = FactorStep(g)
  BY DEF factors, FactorStep, Trials, Tried, Smallest
<1>2. factors = FactorStep(factors)
  BY <1>1, FactorsExist, Zenon
<1>3. <<r, d>> \in Trials
  BY DEF Trials
<1> HIDE DEF factors
<1> QED
  BY <1>2, <1>3 DEF FactorStep

LEMMA ProductSteps ==
  ASSUME NEW s \in Seq(Nat)
  PROVE  \E f : Multiplied(s, f) /\ Product(s) = f[Len(s)]
<1> DEFINE upTo == CHOOSE f : Products(s, f)
<1>1. Product(s) = upTo[Len(s)]
  BY DEF Product, Products
<1> QED
  BY <1>1, ProductsMultiplied, Zenon

LEMMA ProductOfNone ==
  ASSUME NEW s \in Seq(Nat), Len(s) = 0
  PROVE  Product(s) = 1
BY ProductSteps DEF Multiplied

LEMMA ProductOfOne ==
  ASSUME NEW s \in Seq(Nat), Len(s) = 1
  PROVE  Product(s) = s[1]
<1>1. PICK f : Multiplied(s, f) /\ Product(s) = f[Len(s)]
  BY ProductSteps
<1>2. f[0] = 1 /\ \A i \in 1 .. Len(s) : f[i] = f[i - 1] * s[i]
  BY <1>1 DEF Multiplied
<1>3. 1 \in 1 .. Len(s) /\ 1 - 1 = 0
  OBVIOUS
<1>4. f[1] = f[0] * s[1]
  BY <1>2, <1>3
<1>5. s[1] \in Nat
  BY <1>3, ElementOfSeq
<1> QED
  BY <1>1, <1>2, <1>4, <1>5

LEMMA HeadedConcat ==
  ASSUME NEW e \in Nat, NEW s \in Seq(Nat)
  PROVE  <<e>> \o s \in Seq(Nat) /\ Headed(<<e>> \o s, e, s)
<1>1. PICK h : h = <<e>>
  OBVIOUS
<1>2. h \in Seq(Nat) /\ Len(h) = 1 /\ h[1] = e
  BY <1>1
<1>3. /\ h \o s \in Seq(Nat) /\ Len(h \o s) = Len(h) + Len(s)
      /\ \A i \in 1 .. (Len(h) + Len(s)) :
           (h \o s)[i] = IF i <= Len(h) THEN h[i] ELSE s[i - Len(h)]
  BY <1>2, ConcatProperties
<1>4. Len(s) \in Nat
  BY LenProperties
<1>5. Headed(h \o s, e, s)
  <2>1. (h \o s)[1] = e
    BY <1>2, <1>3, <1>4
  <2>2. ASSUME NEW i \in 1 .. Len(s) PROVE (h \o s)[i + 1] = s[i]
    BY <1>2, <1>3, <1>4
  <2> QED
    BY <1>2, <1>3, <1>4, <2>1, <2>2 DEF Headed
<1> QED
  BY <1>1, <1>3, <1>5

LEMMA ProductHeaded ==
  ASSUME NEW s \in Seq(Nat), NEW t \in Seq(Nat), NEW e \in Nat, Headed(t, e, s)
  PROVE  Product(t) = e * Product(s)
<1>1. PICK f : Multiplied(s, f) /\ Product(s) = f[Len(s)]
  BY ProductSteps
<1>2. PICK h : Multiplied(t, h) /\ Product(t) = h[Len(t)]
  BY ProductSteps
<1> QED
  BY <1>1, <1>2, HeadedMultiplied

-----------------------------------------------------------------------------
(* The factors                                                             *)

PrimeFactors(r, d, s) ==
  /\ s \in Seq(Nat) /\ Product(s) = r
  /\ \A i \in 1 .. Len(s) : Prime(s[i]) /\ d <= s[i]
  /\ \A i \in 2 .. Len(s) : s[i - 1] <= s[i]
Undivided(r, d) == \A c \in 2 .. (d - 1) : ~Divides(c, r)

(* Nothing divides what is left.                                           *)
LEMMA LastFactor ==
  ASSUME NEW r \in Nat \ {0}, NEW d \in Nat \ {0, 1}, Undivided(r, d), Tried(r, d) = {}
  PROVE  PrimeFactors(r, d, IF r > 1 THEN <<r>> ELSE <<>>)
<1>1. CASE r > 1
  <2>1. ASSUME NEW c \in Nat, c >= 2, c * c <= r, Divides(c, r) PROVE FALSE
    <3>1. c >= d
      BY <2>1 DEF Undivided
    <3>2. c <= r
      <4>1. c * c >= 2 * c
        BY <2>1
      <4> QED
        BY <2>1, <4>1
    <3>3. c \in Tried(r, d)
      BY <2>1, <3>1, <3>2 DEF Tried
    <3> QED
      BY <3>3
  <2>2. Prime(r)
    BY <1>1, <2>1, PrimeByRoot
  <2>3. d <= r
    <3>1. Divides(r, r)
      <4>1. r = r * 1
        OBVIOUS
      <4> QED
        BY <4>1, Multiples
    <3> QED
      BY <1>1, <3>1 DEF Undivided
  <2>4. PICK s \in Seq(Nat) : s = <<r>> /\ Len(s) = 1 /\ s[1] = r
    <3>1. <<r>> \in Seq(Nat)
      OBVIOUS
    <3>2. Len(<<r>>) = 1 /\ <<r>>[1] = r
      OBVIOUS
    <3> QED
      BY <3>1, <3>2, Zenon
  <2>5. Product(s) = r
    BY <2>4, ProductOfOne
  <2>6. PrimeFactors(r, d, s)
    <3>1. \A i \in 1 .. Len(s) : i = 1
      BY <2>4
    <3>2. 2 .. Len(s) = {}
      BY <2>4
    <3> QED
      BY <2>2, <2>3, <2>4, <2>5, <3>1, <3>2 DEF PrimeFactors
  <2> QED
    BY <1>1, <2>4, <2>6
<1>2. CASE ~(r > 1)
  <2>1. PICK s \in Seq(Nat) : s = <<>> /\ Len(s) = 0
    <3>1. <<>> \in Seq(Nat)
      OBVIOUS
    <3>2. Len(<<>>) = 0
      OBVIOUS
    <3> QED
      BY <3>1, <3>2, Zenon
  <2>2. Product(s) = 1 /\ r = 1
    <3>1. r = 1
      BY <1>2
    <3> QED
      BY <2>1, <3>1, ProductOfNone
  <2>3. PrimeFactors(r, d, s)
    BY <2>1, <2>2 DEF PrimeFactors
  <2> QED
    BY <1>2, <2>1, <2>3
<1> QED
  BY <1>1, <1>2

(* The divisor found is a prime, and so on with what is left.              *)
LEMMA NextFactor ==
  ASSUME NEW r \in Nat \ {0}, NEW d \in Nat \ {0, 1}, Undivided(r, d),
         NEW e, NEW q, Split(r, d, e, q), NEW s, PrimeFactors(q, e, s)
  PROVE  PrimeFactors(r, d, <<e>> \o s)
<1>1. /\ e \in Nat \ {0, 1} /\ d <= e /\ e * e <= r /\ Divides(e, r)
      /\ \A c \in Tried(r, d) : e <= c
      /\ q \in Nat /\ r = e * q
  BY DEF Split
<1>2. /\ s \in Seq(Nat) /\ Product(s) = q
      /\ \A i \in 1 .. Len(s) : Prime(s[i]) /\ e <= s[i]
      /\ \A i \in 2 .. Len(s) : s[i - 1] <= s[i]
  BY DEF PrimeFactors
<1>3. PICK t \in Seq(Nat) : t = <<e>> \o s /\ Headed(t, e, s)
  BY <1>1, <1>2, HeadedConcat
<1>4. Product(t) = r
  BY <1>1, <1>2, <1>3, ProductHeaded
<1>5. Prime(e)
  <2>1. ASSUME NEW c \in 2 .. (e - 1), Divides(c, e) PROVE FALSE
    <3>1. Divides(c, r)
      <4>1. r = q * e
        BY <1>1
      <4> QED
        BY <1>1, <2>1, <4>1, DividesThrough
    <3>2. c >= d
      BY <3>1 DEF Undivided
    <3>3. c * c <= r /\ c <= r
      <4>1. c * c <= e * e /\ e <= e * e
        BY <1>1
      <4> QED
        BY <1>1, <4>1
    <3>4. c \in Tried(r, d)
      BY <3>1, <3>2, <3>3 DEF Tried
    <3> QED
      BY <1>1, <3>4
  <2> QED
    BY <1>1, <2>1 DEF Prime
<1>6. /\ Len(s) \in Nat /\ Len(t) = Len(s) + 1 /\ t[1] = e
      /\ \A i \in 1 .. Len(s) : t[i + 1] = s[i] /\ s[i] \in Nat
  BY <1>2, <1>3, LenProperties, ElementOfSeq DEF Headed
<1>7. \A i \in 2 .. Len(t) : i - 1 \in 1 .. Len(s) /\ t[i] = s[i - 1]
  <2>1. ASSUME NEW i \in 2 .. Len(t) PROVE i - 1 \in 1 .. Len(s) /\ t[i] = s[i - 1]
    <3>1. i - 1 \in 1 .. Len(s) /\ (i - 1) + 1 = i
      BY <1>6
    <3> QED
      BY <1>6, <3>1
  <2> QED
    BY <2>1
<1>8. ASSUME NEW i \in 1 .. Len(t) PROVE Prime(t[i]) /\ d <= t[i]
  <2>1. CASE i = 1
    BY <1>1, <1>5, <1>6, <2>1
  <2>2. CASE i # 1
    <3>1. i \in 2 .. Len(t)
      BY <1>6, <2>2
    <3>2. Prime(t[i]) /\ e <= t[i] /\ t[i] \in Nat
      BY <1>2, <1>6, <1>7, <3>1
    <3> QED
      BY <1>1, <3>2
  <2> QED
    BY <2>1, <2>2
<1>9. ASSUME NEW i \in 2 .. Len(t) PROVE t[i - 1] <= t[i]
  <2>1. i - 1 \in 1 .. Len(s) /\ t[i] = s[i - 1] /\ e <= s[i - 1]
    BY <1>2, <1>7
  <2>2. CASE i = 2
    BY <1>6, <2>1, <2>2
  <2>3. CASE i # 2
    <3>1. i - 1 \in 2 .. Len(t) /\ i - 1 \in 2 .. Len(s)
      BY <1>6, <2>1, <2>3
    <3>2. t[i - 1] = s[(i - 1) - 1] /\ s[(i - 1) - 1] <= s[i - 1]
      BY <1>2, <1>7, <3>1
    <3> QED
      BY <2>1, <3>2
  <2> QED
    BY <2>2, <2>3
<1>10. PrimeFactors(r, d, t)
  BY <1>3, <1>4, <1>8, <1>9 DEF PrimeFactors
<1> QED
  BY <1>3, <1>10

(* No number smaller than the divisor found divides what is left.          *)
LEMMA LeftUndivided ==
  ASSUME NEW r \in Nat \ {0}, NEW d \in Nat \ {0, 1}, Undivided(r, d),
         NEW e, NEW q, Split(r, d, e, q)
  PROVE  q \in Nat \ {0} /\ e \in Nat \ {0, 1} /\ Undivided(q, e)
<1>1. /\ e \in Nat \ {0, 1} /\ d <= e /\ e * e <= r
      /\ \A c \in Tried(r, d) : e <= c
      /\ q \in Nat /\ r = e * q
  BY DEF Split
<1>2. q # 0
  BY <1>1
<1>3. ASSUME NEW c \in 2 .. (e - 1), Divides(c, q) PROVE FALSE
  <2>1. Divides(c, r)
    BY <1>1, <1>3, DividesThrough
  <2>2. c >= d
    BY <2>1 DEF Undivided
  <2>3. c * c <= r /\ c <= r
    <3>1. c * c <= e * e /\ e <= e * e
      BY <1>1
    <3> QED
      BY <1>1, <3>1
  <2>4. c \in Tried(r, d)
    BY <2>1, <2>2, <2>3 DEF Tried
  <2> QED
    BY <1>1, <2>4
<1> QED
  BY <1>1, <1>2, <1>3 DEF Undivided

LEMMA FactorsArePrimes ==
  ASSUME NEW r \in Nat \ {0}, NEW d \in Nat \ {0, 1}, Undivided(r, d)
  PROVE  PrimeFactors(r, d, factors[<<r, d>>])
<1> DEFINE Fine(n) == \A c \in Nat \ {0, 1} : Undivided(n, c) => PrimeFactors(n, c, factors[<<n, c>>])
           Bad == {n \in Nat : n # 0 /\ ~Fine(n)}
<1>1. CASE Bad = {}
  <2>1. Fine(r)
    <3> HIDE DEF Fine
    <3> QED
      BY <1>1
  <2> QED
    BY <2>1
<1>2. CASE Bad # {}
  <2>1. PICK n \in Bad : \A m \in Bad : n <= m
    <3>1. Bad \in SUBSET Nat
      OBVIOUS
    <3> HIDE DEF Bad
    <3> QED
      BY <1>2, <3>1, LeastNumber
  <2>2. n \in Nat \ {0} /\ ~Fine(n)
    <3> HIDE DEF Fine
    <3> QED
      BY <2>1
  <2>3. PICK c \in Nat \ {0, 1} : Undivided(n, c) /\ ~PrimeFactors(n, c, factors[<<n, c>>])
    BY <2>2
  <2>4. CASE Tried(n, c) = {}
    <3>1. factors[<<n, c>>] = IF n > 1 THEN <<n>> ELSE <<>>
      BY <2>2, <2>4, FactorSteps
    <3> QED
      BY <2>2, <2>3, <2>4, <3>1, LastFactor
  <2>5. CASE Tried(n, c) # {}
    <3>1. PICK e, q : e = Smallest(n, c) /\ q = n \div Smallest(n, c)
      OBVIOUS
    <3>2. Split(n, c, e, q)
      BY <2>2, <2>5, <3>1, Splits
    <3>3. q \in Nat \ {0} /\ e \in Nat \ {0, 1} /\ Undivided(q, e)
      <4> HIDE DEF Fine, Bad
      <4> QED
        BY <2>2, <2>3, <3>2, LeftUndivided
    <3>4. q < n
      BY <3>2 DEF Split
    <3>5. Fine(q)
      <4>1. q \notin Bad
        <5> HIDE DEF Bad
        <5> QED
          BY <2>1, <2>2, <3>3, <3>4
      <4> HIDE DEF Fine
      <4> QED
        BY <3>3, <4>1
    <3>6. PrimeFactors(q, e, factors[<<q, e>>])
      BY <3>3, <3>5
    <3>7. factors[<<n, c>>] = <<e>> \o factors[<<q, e>>]
      BY <2>2, <2>5, <3>1, FactorSteps
    <3>8. PICK s : s = factors[<<q, e>>]
      OBVIOUS
    <3>9. PrimeFactors(n, c, <<e>> \o s)
      <4> HIDE DEF Fine, Bad
      <4> QED
        BY <2>2, <2>3, <3>2, <3>6, <3>8, NextFactor
    <3> QED
      BY <2>3, <3>7, <3>8, <3>9
  <2> QED
    BY <2>4, <2>5
<1> QED
  BY <1>1, <1>2

LEMMA FactorLawHolds ==
  ASSUME NEW x, x.k \in {"long", "big", "rat"}, x.d = 1, x.n \in Nat, x.n >= 2
  PROVE  FactorLaw(x)
<1>1. PICK n \in Nat : n = x.n /\ n >= 2
  OBVIOUS
<1>2. Factor(x) = IF n <= 3 THEN <<n>> ELSE factors[<<n, 2>>]
  BY <1>1 DEF Factor, IsIntegral
<1>3. Undivided(n, 2)
  BY DEF Undivided
<1>4. ASSUME n <= 3 PROVE factors[<<n, 2>>] = <<n>>
  <2>1. ASSUME NEW e \in Tried(n, 2) PROVE FALSE
    <3>1. e \in Nat /\ e >= 2 /\ e * e <= n
      BY DEF Tried
    <3>2. e * e >= 2 * e
      BY <3>1
    <3> QED
      BY <1>4, <3>1, <3>2
  <2>2. Tried(n, 2) = {}
    BY <2>1
  <2>3. 2 \in Nat \ {0, 1} /\ n > 1
    BY <1>1
  <2>4. factors[<<n, 2>>] = IF n > 1 THEN <<n>> ELSE <<>>
    BY <2>2, <2>3, FactorSteps, Zenon
  <2> QED
    BY <2>3, <2>4, Zenon
<1>5. PICK f : f = Factor(x) /\ f = factors[<<n, 2>>]
  BY <1>2, <1>4
<1>6. PrimeFactors(n, 2, f)
  BY <1>1, <1>3, <1>5, FactorsArePrimes
<1>7. /\ f \in Seq(Nat) /\ Product(f) = n
      /\ \A i \in 1 .. Len(f) : Prime(f[i])
      /\ \A i \in 2 .. Len(f) : f[i - 1] <= f[i]
  BY <1>6 DEF PrimeFactors
<1>8. DOMAIN f = 1 .. Len(f) /\ Len(f) \in Nat
  BY <1>7, LenProperties
<1>9. ASSUME NEW i \in DOMAIN f PROVE Prime(f[i]) /\ (i > 1 => f[i - 1] <= f[i])
  <2>1. i \in 1 .. Len(f) /\ (i > 1 => i \in 2 .. Len(f))
    BY <1>8
  <2> QED
    BY <1>7, <2>1
<1> QED
  BY <1>1, <1>5, <1>7, <1>9 DEF FactorLaw

(* Trial division finds the prime factors of any whole number, of whatever  *)
(* kind it is, and the pairs around the square root are all the divisors of *)
(* a machine integer, however wide (math_factor, math_divisors).            *)
THEOREM FactorsAndDivisors ==
  ASSUME NEW x, Held(x), Exact(x), x.d = 1, x.n >= 2
  PROVE  FactorLaw(x) /\ DivisorLaw(x.n)
<1>1. Fits(x) /\ x.n \in Int /\ x.k \in {"long", "big", "rat"}
  BY HeldKinds DEF Fits, Lowest, Exact
<1>2. x.n \in Nat
  BY <1>1
<1> QED
  BY <1>1, <1>2, FactorLawHolds, DivisorsAll

(* So it is for every whole number a chain of calculations comes to.        *)
THEOREM WholeNumbersDivided == ArSpec => []TrialDivision
<1>1. HeldInv => TrialDivision
  <2> SUFFICES ASSUME HeldInv PROVE TrialDivision
    OBVIOUS
  <2>1. Held(acc)
    BY DEF HeldInv
  <2>2. Exact(acc) => acc.k \in {"long", "big", "rat"} /\ Fits(acc)
    BY <2>1, HeldKinds DEF Exact
  <2>3. ASSUME Exact(acc), acc.d = 1, acc.n >= 2 PROVE FactorLaw(acc) /\ DivisorLaw(acc.n)
    BY <2>1, <2>3, FactorsAndDivisors
  <2>4. acc.k = "long" => Exact(acc) /\ acc.d = 1
    BY <2>2 DEF Exact, Fits, IsIntegral
  <2> QED
    BY <2>3, <2>4 DEF TrialDivision
<1> QED
  BY <1>1, ResultsHeld, PTL

=============================================================================
