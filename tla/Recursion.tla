------------------------------ MODULE Recursion -----------------------------
(***************************************************************************)
(* Lemmas about induction over numbers and about recursion along a          *)
(* sequence, for the proofs about conversations, streams and programs.     *)
(***************************************************************************)
EXTENDS Naturals, Sequences, SequencesExt, SequenceTheorems,
        WellFoundedInduction, TLAPS

(* s is how t begins.                                                      *)
Begins(s, t) == Len(s) <= Len(t) /\ \A i \in 1..Len(s) : s[i] = t[i]

(* The first k elements.                                                   *)
FirstOf(s, k) == SubSeq(s, 1, k)

-----------------------------------------------------------------------------
(* Induction                                                               *)

(* Every nonempty set of naturals has a least element.                     *)
LEMMA LeastNumber ==
  ASSUME NEW S \in SUBSET Nat, S # {}
  PROVE  \E m \in S : \A t \in S : m <= t
<1>1. PICK x \in S : \A y \in S : ~(<<y, x>> \in OpToRel(<, Nat))
  BY NatLessThanWellFounded, WFMin
<1>2. \A y \in S : <<y, x>> \in OpToRel(<, Nat) <=> y < x
  BY DEF OpToRel
<1>3. \A y \in S : ~(y < x)
  BY <1>1, <1>2, Zenon
<1>4. \A y \in S : x <= y
  BY <1>3
<1> QED
  BY <1>4

(* Induction for a set of numbers, as far as a bound.                      *)
LEMMA InductionUpTo ==
  ASSUME NEW n \in Nat, NEW S, 0 \in S,
         \A i \in 0..n : i \in S /\ i + 1 <= n => i + 1 \in S
  PROVE  \A i \in 0..n : i \in S
<1> DEFINE Missing == {i \in 0..n : i \notin S}
<1>1. CASE Missing = {}
  BY <1>1
<1>2. CASE Missing # {}
  <2>1. PICK m \in Missing : \A t \in Missing : m <= t
    <3>1. Missing \in SUBSET Nat
      OBVIOUS
    <3> QED
      BY <1>2, <3>1, LeastNumber
  <2>2. m \in 1..n /\ m - 1 \in 0..n
    OBVIOUS
  <2>3. m - 1 \notin Missing
    BY <2>1, <2>2
  <2> QED
    BY <2>2, <2>3
<1> QED
  BY <1>1, <1>2

-----------------------------------------------------------------------------
(* Sequences                                                               *)

LEMMA MadeASeq ==
  ASSUME NEW S, NEW n \in Nat, NEW f \in [1..n -> S]
  PROVE  f \in Seq(S) /\ Len(f) = n
OBVIOUS

LEMMA FirstOfTyped ==
  ASSUME NEW S, NEW s \in Seq(S), NEW k \in 0..Len(s)
  PROVE  /\ FirstOf(s, k) \in Seq(S) /\ Len(FirstOf(s, k)) = k
         /\ \A i \in 1..k : FirstOf(s, k)[i] = s[i]
<1>1. \A i \in 1..k : s[i] \in S
  BY ElementOfSeq, LenProperties
<1> QED
  BY <1>1, SubSeqProperties, LenProperties DEF FirstOf

LEMMA FirstOfEnds ==
  ASSUME NEW S, NEW s \in Seq(S)
  PROVE  /\ FirstOf(s, 0) = <<>> /\ FirstOf(s, Len(s)) = s
<1>1. Len(s) \in 0..Len(s) /\ 0 \in 0..Len(s)
  BY LenProperties
<1>2. FirstOf(s, Len(s)) = s
  BY <1>1, FirstOfTyped, SeqEqual
<1>3. FirstOf(s, 0) = <<>>
  BY SubSeqEmpty DEF FirstOf
<1> QED
  BY <1>2, <1>3

LEMMA FirstOfNext ==
  ASSUME NEW S, NEW s \in Seq(S), NEW k \in 0..(Len(s) - 1)
  PROVE  FirstOf(s, k + 1) = Append(FirstOf(s, k), s[k + 1])
<1>1. Len(s) \in Nat /\ k \in 0..Len(s) /\ k + 1 \in 0..Len(s) /\ s[k + 1] \in S
  BY LenProperties, ElementOfSeq
<1>2. /\ FirstOf(s, k) \in Seq(S) /\ Len(FirstOf(s, k)) = k
      /\ \A i \in 1..k : FirstOf(s, k)[i] = s[i]
  BY <1>1, FirstOfTyped
<1>3. /\ FirstOf(s, k + 1) \in Seq(S) /\ Len(FirstOf(s, k + 1)) = k + 1
      /\ \A i \in 1..(k + 1) : FirstOf(s, k + 1)[i] = s[i]
  BY <1>1, FirstOfTyped
<1>4. /\ Append(FirstOf(s, k), s[k + 1]) \in Seq(S)
      /\ Len(Append(FirstOf(s, k), s[k + 1])) = k + 1
      /\ \A i \in 1..k : Append(FirstOf(s, k), s[k + 1])[i] = s[i]
      /\ Append(FirstOf(s, k), s[k + 1])[k + 1] = s[k + 1]
  BY <1>1, <1>2, AppendProperties
<1> QED
  BY <1>1, <1>3, <1>4, SeqEqual

LEMMA FirstOfAppend ==
  ASSUME NEW S, NEW s \in Seq(S), NEW e \in S, NEW k \in 0..Len(s)
  PROVE  FirstOf(Append(s, e), k) = FirstOf(s, k)
<1>1. /\ Append(s, e) \in Seq(S) /\ Len(Append(s, e)) = Len(s) + 1
      /\ \A i \in 1..Len(s) : Append(s, e)[i] = s[i]
  BY AppendProperties
<1>2. Len(s) \in Nat /\ k \in 0..Len(Append(s, e))
  BY <1>1, LenProperties
<1>3. /\ FirstOf(s, k) \in Seq(S) /\ Len(FirstOf(s, k)) = k
      /\ \A i \in 1..k : FirstOf(s, k)[i] = s[i]
  BY <1>1, FirstOfTyped
<1>4. /\ FirstOf(Append(s, e), k) \in Seq(S) /\ Len(FirstOf(Append(s, e), k)) = k
      /\ \A i \in 1..k : FirstOf(Append(s, e), k)[i] = Append(s, e)[i]
  BY <1>1, <1>2, FirstOfTyped
<1> QED
  BY <1>1, <1>2, <1>3, <1>4, SeqEqual

LEMMA BeginsTransitive ==
  ASSUME NEW S, NEW r \in Seq(S), NEW s \in Seq(S), NEW t \in Seq(S),
         Begins(r, s), Begins(s, t)
  PROVE  Begins(r, t)
BY LenProperties DEF Begins

LEMMA BeginsConcat ==
  ASSUME NEW S, NEW s \in Seq(S), NEW t \in Seq(S)
  PROVE  Begins(s, s \o t)
BY ConcatProperties, LenProperties DEF Begins

LEMMA Tuples ==
  ASSUME NEW a, NEW b, NEW c
  PROVE  /\ <<a>> \o <<b>> = <<a, b>>
         /\ <<a>> \o <<b, c>> = <<a, b, c>>
<1> DEFINE S == {a, b, c}
<1>1. <<a>> \in Seq(S) /\ <<b>> \in Seq(S) /\ <<a, b>> \in Seq(S)
      /\ <<b, c>> \in Seq(S) /\ <<a, b, c>> \in Seq(S)
  OBVIOUS
<1> HIDE DEF S
<1>2. <<a>> \o <<b>> = <<a, b>>
  <2>1. /\ <<a>> \o <<b>> \in Seq(S) /\ Len(<<a>> \o <<b>>) = 2
        /\ (<<a>> \o <<b>>)[1] = a /\ (<<a>> \o <<b>>)[2] = b
    BY <1>1, ConcatProperties
  <2>2. \A i \in 1..2 : (<<a>> \o <<b>>)[i] = <<a, b>>[i]
    BY <2>1
  <2> QED
    BY <1>1, <2>1, <2>2, SeqEqual
<1>3. <<a>> \o <<b, c>> = <<a, b, c>>
  <2>1. /\ <<a>> \o <<b, c>> \in Seq(S) /\ Len(<<a>> \o <<b, c>>) = 3
        /\ (<<a>> \o <<b, c>>)[1] = a /\ (<<a>> \o <<b, c>>)[2] = b
        /\ (<<a>> \o <<b, c>>)[3] = c
    BY <1>1, ConcatProperties
  <2>2. \A i \in 1..3 : (<<a>> \o <<b, c>>)[i] = <<a, b, c>>[i]
    BY <2>1
  <2> QED
    BY <1>1, <2>1, <2>2, SeqEqual
<1> QED
  BY <1>2, <1>3

(* An element in front of a sequence.                                      *)
LEMMA HeadAndTail ==
  ASSUME NEW S, NEW s \in Seq(S), s # <<>>
  PROVE  /\ Head(s) \in S /\ Tail(s) \in Seq(S) /\ Head(s) = s[1]
         /\ <<Head(s)>> \in Seq(S) /\ s = <<Head(s)>> \o Tail(s)
<1>1. Len(s) \in Nat \ {0} /\ Head(s) = s[1]
  BY EmptySeq
<1>2. /\ Head(s) \in S /\ Tail(s) \in Seq(S) /\ Len(Tail(s)) = Len(s) - 1
      /\ \A i \in 1..Len(Tail(s)) : Tail(s)[i] = s[i + 1]
  BY HeadTailProperties
<1>3. <<Head(s)>> \in Seq(S)
  BY <1>2
<1>4. /\ <<Head(s)>> \o Tail(s) \in Seq(S)
      /\ Len(<<Head(s)>> \o Tail(s)) = 1 + Len(Tail(s))
      /\ \A i \in 1..(1 + Len(Tail(s))) :
           (<<Head(s)>> \o Tail(s))[i] = IF i <= 1 THEN Head(s) ELSE Tail(s)[i - 1]
  BY <1>2, <1>3, ConcatProperties
<1>5. \A i \in 1..Len(s) : (<<Head(s)>> \o Tail(s))[i] = s[i]
  BY <1>1, <1>2, <1>4
<1> QED
  BY <1>1, <1>2, <1>3, <1>4, <1>5, SeqEqual

(* The rest of a sequence behind its first k elements.                     *)
LEMMA CutAt ==
  ASSUME NEW S, NEW s \in Seq(S), NEW k \in 0..Len(s)
  PROVE  /\ SubSeq(s, k + 1, Len(s)) \in Seq(S)
         /\ s = FirstOf(s, k) \o SubSeq(s, k + 1, Len(s))
<1> DEFINE rest == SubSeq(s, k + 1, Len(s))
<1>1. Len(s) \in Nat /\ \A i \in 1..Len(s) : s[i] \in S
  BY LenProperties, ElementOfSeq
<1>2. /\ rest \in Seq(S) /\ Len(rest) = Len(s) - k
      /\ \A i \in 1..(Len(s) - k) : rest[i] = s[k + i]
  <2>1. \A i \in (k + 1)..Len(s) : s[i] \in S
    BY <1>1
  <2>2. /\ rest \in Seq(S)
        /\ Len(rest) = IF k + 1 <= Len(s) THEN Len(s) - (k + 1) + 1 ELSE 0
        /\ \A i \in 1..(Len(s) - (k + 1) + 1) : rest[i] = s[(k + 1) + i - 1]
    BY <1>1, <2>1, SubSeqProperties
  <2> QED
    BY <1>1, <2>2
<1>3. /\ FirstOf(s, k) \in Seq(S) /\ Len(FirstOf(s, k)) = k
      /\ \A i \in 1..k : FirstOf(s, k)[i] = s[i]
  BY FirstOfTyped
<1>4. /\ FirstOf(s, k) \o rest \in Seq(S)
      /\ Len(FirstOf(s, k) \o rest) = k + Len(rest)
      /\ \A i \in 1..(k + Len(rest)) :
           (FirstOf(s, k) \o rest)[i] = IF i <= k THEN FirstOf(s, k)[i] ELSE rest[i - k]
  BY <1>2, <1>3, ConcatProperties
<1> HIDE DEF rest
<1>5. \A i \in 1..Len(s) : (FirstOf(s, k) \o rest)[i] = s[i]
  BY <1>1, <1>2, <1>3, <1>4
<1>6. Len(FirstOf(s, k) \o rest) = Len(s)
  BY <1>1, <1>2, <1>4
<1>7. s = FirstOf(s, k) \o rest
  BY <1>4, <1>5, <1>6, SeqEqual
<1> QED
  BY <1>2, <1>7 DEF rest

-----------------------------------------------------------------------------
(* Recursion along a sequence                                              *)

(* f starts with c and takes a step of G for each element.                 *)
Follows(s, V, c, G, f) ==
  /\ f \in [0..Len(s) -> V] /\ f[0] = c
  /\ \A i \in 1..Len(s) : f[i] = G[<<f[i - 1], s[i]>>]

LEMMA RecursionExists ==
  ASSUME NEW A, NEW s \in Seq(A), NEW V, NEW c \in V, NEW G \in [V \X A -> V]
  PROVE  \E f : Follows(s, V, c, G, f)
<1> DEFINE Solves(n, f) == /\ f[0] = c
                           /\ \A i \in 1..n : f[i] = G[<<f[i - 1], s[i]>>]
           Solved == {n \in 0..Len(s) : \E f \in [0..n -> V] : Solves(n, f)}
<1>1. Len(s) \in Nat /\ \A i \in 1..Len(s) : s[i] \in A
  BY LenProperties, ElementOfSeq
<1>2. 0 \in Solved
  <2> DEFINE f == [i \in 0..0 |-> c]
  <2>1. f \in [0..0 -> V] /\ f[0] = c
    OBVIOUS
  <2>2. Solves(0, f)
    BY <2>1
  <2> HIDE DEF f, Solves
  <2> QED
    BY <1>1, <2>1, <2>2
<1>3. ASSUME NEW n \in 0..Len(s), n \in Solved /\ n + 1 <= Len(s)
      PROVE  n + 1 \in Solved
  <2>1. PICK f \in [0..n -> V] : Solves(n, f)
    BY <1>3
  <2>2. n + 1 \in 1..Len(s) /\ n \in 0..n /\ <<f[n], s[n + 1]>> \in V \X A
    BY <1>1, <1>3
  <2> DEFINE new == G[<<f[n], s[n + 1]>>]
             g == [i \in 0..(n + 1) |-> IF i = n + 1 THEN new ELSE f[i]]
  <2>3. new \in V
    BY <2>2
  <2>4. new = G[<<f[n], s[n + 1]>>]
    OBVIOUS
  <2> HIDE DEF new
  <2>5. g \in [0..(n + 1) -> V]
    BY <2>3
  <2>6. g[0] = f[0] /\ g[n + 1] = new
    BY <2>2
  <2>7. \A i \in 0..n : g[i] = f[i]
    BY <2>2
  <2> HIDE DEF g
  <2>8. \A i \in 1..(n + 1) : g[i] = G[<<g[i - 1], s[i]>>]
    <3>1. ASSUME NEW i \in 1..(n + 1) PROVE g[i] = G[<<g[i - 1], s[i]>>]
      <4>1. i - 1 \in 0..n /\ g[i - 1] = f[i - 1]
        BY <2>7
      <4>2. CASE i = n + 1
        BY <2>4, <2>6, <4>1, <4>2
      <4>3. CASE i \in 1..n
        BY <2>1, <2>7, <4>1, <4>3
      <4> QED
        BY <4>2, <4>3
    <3> QED
      BY <3>1
  <2>9. Solves(n + 1, g)
    BY <2>1, <2>6, <2>8
  <2> HIDE DEF Solves
  <2> QED
    BY <1>1, <2>2, <2>5, <2>9
<1> HIDE DEF Solves
<1>4. \A n \in 0..Len(s) : n \in Solved
  <2> HIDE DEF Solved
  <2> QED
    BY <1>1, <1>2, <1>3, InductionUpTo
<1>5. PICK f \in [0..Len(s) -> V] : Solves(Len(s), f)
  BY <1>1, <1>4
<1>6. Follows(s, V, c, G, f)
  BY <1>5 DEF Solves, Follows
<1> QED
  BY <1>6

-----------------------------------------------------------------------------
(* Sequences of sequences                                                  *)

(* f[i] is the concatenation of the first i sequences.                      *)
Runs(ss, f) ==
  f = [i \in 1..Len(ss) |-> IF i = 1 THEN ss[i] ELSE f[i - 1] \o ss[i]]

LEMMA RunsExist ==
  ASSUME NEW S, NEW ss \in Seq(Seq(S))
  PROVE  \E f : Runs(ss, f)
<1> DEFINE T == Seq(S)
           G == [p \in T \X T |-> p[1] \o p[2]]
<1>1. ss \in Seq(T) /\ <<>> \in T /\ Len(ss) \in Nat
      /\ \A i \in 1..Len(ss) : ss[i] \in T
  BY LenProperties, ElementOfSeq, EmptySeq
<1>2. \A u, v \in T : u \o v \in T /\ <<>> \o v = v
  BY ConcatProperties, ConcatEmptySeq
<1> HIDE DEF T
<1>3. G \in [T \X T -> T] /\ \A u, v \in T : G[<<u, v>>] = u \o v
  BY <1>2
<1> HIDE DEF G
<1>4. PICK f : Follows(ss, T, <<>>, G, f)
  BY <1>1, <1>3, RecursionExists
<1>5. \A i \in 1..Len(ss) : f[i] = f[i - 1] \o ss[i] /\ f[i - 1] \in T
  <2>1. \A i \in 1..Len(ss) : i \in 0..Len(ss) /\ i - 1 \in 0..Len(ss) /\ i # 0
    BY <1>1
  <2>2. \A i \in 1..Len(ss) : f[i - 1] \in T /\ f[i] = G[<<f[i - 1], ss[i]>>]
    BY <1>4, <2>1 DEF Follows
  <2> QED
    BY <1>1, <1>3, <2>2
<1>6. f[0] = <<>>
  BY <1>4 DEF Follows
<1> DEFINE g == [i \in 1..Len(ss) |-> f[i]]
<1>g. g = [i \in 1..Len(ss) |-> f[i]]
  OBVIOUS
<1> HIDE DEF g
<1>7. g = [i \in 1..Len(ss) |-> IF i = 1 THEN ss[i] ELSE g[i - 1] \o ss[i]]
  <2>1. ASSUME NEW i \in 1..Len(ss)
        PROVE  f[i] = IF i = 1 THEN ss[i] ELSE g[i - 1] \o ss[i]
    <3>1. ASSUME i = 1 PROVE f[i] = ss[i]
      <4>0. 1 \in 1..Len(ss) /\ 1 - 1 = 0
        BY <3>1
      <4>1. f[1] = f[0] \o ss[1] /\ ss[1] \in T
        BY <1>1, <1>5, <4>0
      <4> QED
        BY <1>2, <1>6, <3>1, <4>1
    <3>2. ASSUME i # 1 PROVE f[i] = g[i - 1] \o ss[i]
      <4>1. i - 1 \in 1..Len(ss)
        BY <1>1, <3>2
      <4>2. g[i - 1] = f[i - 1]
        BY <1>g, <4>1
      <4> QED
        BY <1>5, <4>2
    <3> QED
      BY <3>1, <3>2
  <2> QED
    BY <1>g, <2>1
<1> QED
  BY <1>7 DEF Runs

LEMMA FlattenSeqRuns ==
  ASSUME NEW S, NEW ss \in Seq(Seq(S))
  PROVE  \E f : /\ Runs(ss, f)
                /\ FlattenSeq(ss) = IF Len(ss) = 0 THEN <<>> ELSE f[Len(ss)]
<1> DEFINE f == CHOOSE f : Runs(ss, f)
<1>1. Runs(ss, f)
  BY RunsExist
<1>2. FlattenSeq(ss) = IF Len(ss) = 0 THEN ss ELSE f[Len(ss)]
  BY DEF FlattenSeq, Runs
<1>3. Len(ss) = 0 => ss = <<>>
  BY EmptySeq
<1> QED
  BY <1>1, <1>2, <1>3

LEMMA RunsTyped ==
  ASSUME NEW S, NEW ss \in Seq(Seq(S)), NEW f, Runs(ss, f)
  PROVE  \A i \in 1..Len(ss) :
           /\ f[i] \in Seq(S)
           /\ f[i] = IF i = 1 THEN ss[i] ELSE f[i - 1] \o ss[i]
<1> DEFINE Typed == {i \in 0..Len(ss) : i = 0 \/ f[i] \in Seq(S)}
<1>1. Len(ss) \in Nat /\ \A i \in 1..Len(ss) : ss[i] \in Seq(S)
  BY LenProperties, ElementOfSeq
<1>2. \A i \in 1..Len(ss) : f[i] = IF i = 1 THEN ss[i] ELSE f[i - 1] \o ss[i]
  BY DEF Runs
<1>3. 0 \in Typed
  BY <1>1
<1>4. ASSUME NEW i \in 0..Len(ss), i \in Typed /\ i + 1 <= Len(ss)
      PROVE  i + 1 \in Typed
  <2>1. i + 1 \in 1..Len(ss) /\ ss[i + 1] \in Seq(S)
    BY <1>1, <1>4
  <2>2. CASE i = 0
    BY <1>2, <2>1, <2>2
  <2>3. CASE i # 0
    <3>1. i + 1 # 1 /\ (i + 1) - 1 = i /\ f[i] \in Seq(S)
      BY <1>1, <1>4, <2>3
    <3>a. f[i + 1] = f[i] \o ss[i + 1]
      BY <1>2, <2>1, <3>1
    <3>2. f[i + 1] \in Seq(S)
      BY <2>1, <3>1, <3>a, ConcatProperties
    <3> QED
      BY <1>1, <2>1, <3>2
  <2> QED
    BY <2>2, <2>3
<1>5. \A i \in 0..Len(ss) : i \in Typed
  <2> HIDE DEF Typed
  <2> QED
    BY <1>1, <1>3, <1>4, InductionUpTo
<1> QED
  BY <1>1, <1>2, <1>5

LEMMA FlattenSeqEmpty == FlattenSeq(<<>>) = <<>>
BY FlattenSeqRuns, EmptySeq

LEMMA FlattenSeqTyped ==
  ASSUME NEW S, NEW ss \in Seq(Seq(S))
  PROVE  FlattenSeq(ss) \in Seq(S)
<1>1. PICK f : /\ Runs(ss, f)
               /\ FlattenSeq(ss) = IF Len(ss) = 0 THEN <<>> ELSE f[Len(ss)]
  BY FlattenSeqRuns
<1>2. Len(ss) \in Nat /\ <<>> \in Seq(S)
  BY LenProperties, EmptySeq
<1>3. \A i \in 1..Len(ss) : f[i] \in Seq(S)
  BY <1>1, RunsTyped
<1> QED
  BY <1>1, <1>2, <1>3

(* One more sequence comes last.                                           *)
LEMMA FlattenSeqAppend ==
  ASSUME NEW S, NEW ss \in Seq(Seq(S)), NEW s \in Seq(S)
  PROVE  FlattenSeq(Append(ss, s)) = FlattenSeq(ss) \o s
<1> DEFINE n == Len(ss)
           tt == Append(ss, s)
<1>1. /\ tt \in Seq(Seq(S)) /\ Len(tt) = n + 1 /\ n \in Nat
      /\ \A i \in 1..n : tt[i] = ss[i]
      /\ tt[n + 1] = s
  BY AppendProperties, LenProperties
<1>2. PICK f : /\ Runs(ss, f)
               /\ FlattenSeq(ss) = IF n = 0 THEN <<>> ELSE f[n]
  BY FlattenSeqRuns
<1> HIDE DEF tt, n
<1>3. PICK g : /\ Runs(tt, g)
               /\ FlattenSeq(tt) = IF Len(tt) = 0 THEN <<>> ELSE g[Len(tt)]
  BY <1>1, FlattenSeqRuns
<1>4. \A i \in 1..n : f[i] = IF i = 1 THEN ss[i] ELSE f[i - 1] \o ss[i]
  BY <1>2, RunsTyped DEF n
<1>5. \A i \in 1..(n + 1) : g[i] = IF i = 1 THEN tt[i] ELSE g[i - 1] \o tt[i]
  <2>1. \A i \in 1..Len(tt) :
          g[i] \in Seq(S) /\ g[i] = IF i = 1 THEN tt[i] ELSE g[i - 1] \o tt[i]
    BY <1>1, <1>3, RunsTyped
  <2> QED
    BY <1>1, <2>1
<1> DEFINE Agree == {i \in 0..n : i = 0 \/ f[i] = g[i]}
<1>6. 0 \in Agree
  BY <1>1
<1>7. ASSUME NEW i \in 0..n, i \in Agree /\ i + 1 <= n
      PROVE  i + 1 \in Agree
  <2>1. i + 1 \in 1..n /\ tt[i + 1] = ss[i + 1] /\ i + 1 \in 1..(n + 1)
    BY <1>1, <1>7
  <2>2. CASE i = 0
    BY <1>4, <1>5, <2>1, <2>2
  <2>3. CASE i # 0
    <3>1. i + 1 # 1 /\ (i + 1) - 1 = i /\ f[i] = g[i]
      BY <1>1, <1>7, <2>3
    <3>2. f[i + 1] = f[i] \o ss[i + 1] /\ g[i + 1] = g[i] \o tt[i + 1]
      BY <1>4, <1>5, <2>1, <3>1
    <3>3. f[i + 1] = g[i + 1]
      BY <2>1, <3>1, <3>2
    <3> QED
      BY <2>1, <3>3
  <2> QED
    BY <2>2, <2>3
<1>8. \A i \in 0..n : i \in Agree
  <2> HIDE DEF Agree
  <2> QED
    BY <1>1, <1>6, <1>7, InductionUpTo
<1>9. FlattenSeq(tt) = g[n + 1] /\ n + 1 \in 1..(n + 1)
  BY <1>1, <1>3
<1>10. CASE n = 0
  <2>1. FlattenSeq(tt) = s
    BY <1>1, <1>5, <1>9, <1>10
  <2> QED
    BY <1>2, <1>10, <2>1, ConcatEmptySeq DEF tt
<1>11. CASE n # 0
  <2>0. n + 1 # 1 /\ (n + 1) - 1 = n
    BY <1>1, <1>11
  <2>1. g[n + 1] = g[n] \o s
    BY <1>1, <1>5, <1>9, <2>0
  <2>2. f[n] = g[n]
    BY <1>1, <1>8, <1>11
  <2> QED
    BY <1>2, <1>9, <1>11, <2>1, <2>2 DEF tt
<1> QED
  BY <1>10, <1>11

LEMMA FlattenSeqMore ==
  ASSUME NEW S, NEW ss \in Seq(Seq(S)), NEW tt \in Seq(Seq(S)), NEW s \in Seq(S),
         Len(tt) = Len(ss) + 1,
         \A i \in 1..Len(ss) : tt[i] = ss[i],
         tt[Len(ss) + 1] = s
  PROVE  FlattenSeq(tt) = FlattenSeq(ss) \o s
<1>1. /\ Append(ss, s) \in Seq(Seq(S)) /\ Len(Append(ss, s)) = Len(ss) + 1
      /\ \A i \in 1..Len(ss) : Append(ss, s)[i] = ss[i]
      /\ Append(ss, s)[Len(ss) + 1] = s
      /\ Len(ss) \in Nat
  BY AppendProperties, LenProperties
<1>2. \A i \in 1..Len(tt) : tt[i] = Append(ss, s)[i]
  BY <1>1
<1>3. tt = Append(ss, s)
  BY <1>1, <1>2, SeqEqual
<1> QED
  BY <1>3, FlattenSeqAppend

(* An endless sequence of values, each made from the one before it.         *)
Endless(V, c, G, f) ==
  f \in [Nat -> V] /\ f[0] = c /\ \A n \in Nat : f[n + 1] = G[f[n]]

LEMMA EndlessExists ==
  ASSUME NEW V, NEW c \in V, NEW G \in [V -> V]
  PROVE  \E f : Endless(V, c, G, f)
<1> DEFINE Solves(n, f) == f[0] = c /\ \A i \in 1..n : f[i] = G[f[i - 1]]
           Solution(n) == CHOOSE f \in [0..n -> V] : Solves(n, f)
           H == [p \in V \X Nat |-> G[p[1]]]
<1>1. H \in [V \X Nat -> V] /\ \A v \in V, n \in Nat : H[<<v, n>>] = G[v]
  OBVIOUS
<1> HIDE DEF H
<1>2. ASSUME NEW n \in Nat PROVE \E f \in [0..n -> V] : Solves(n, f)
  <2> DEFINE s == [i \in 1..n |-> i]
  <2>1. s \in Seq(Nat) /\ Len(s) = n /\ \A i \in 1..n : s[i] = i /\ i \in Nat
    <3>1. s \in [1..n -> Nat]
      OBVIOUS
    <3> HIDE DEF s
    <3>2. s \in Seq(Nat) /\ Len(s) = n
      BY <3>1, MadeASeq
    <3> QED
      BY <3>2 DEF s
  <2> HIDE DEF s
  <2>2. PICK f : Follows(s, V, c, H, f)
    BY <1>1, <2>1, RecursionExists
  <2>3. /\ f \in [0..n -> V] /\ f[0] = c
        /\ \A i \in 1..n : f[i] = H[<<f[i - 1], i>>]
    BY <2>1, <2>2 DEF Follows
  <2>4. \A i \in 1..n : f[i] = G[f[i - 1]]
    <3>1. \A i \in 1..n : i \in Nat /\ i - 1 \in 0..n
      OBVIOUS
    <3> QED
      BY <1>1, <2>3, <3>1
  <2> QED
    BY <2>3, <2>4
<1>3. ASSUME NEW n \in Nat PROVE Solution(n) \in [0..n -> V] /\ Solves(n, Solution(n))
  BY <1>2
<1>4. ASSUME NEW n \in Nat, NEW f \in [0..n -> V], Solves(n, f),
             NEW m \in Nat, NEW g \in [0..m -> V], Solves(m, g), n <= m
      PROVE  \A i \in 0..n : f[i] = g[i]
  <2> DEFINE Same == {i \in 0..n : f[i] = g[i]}
  <2>1. 0 \in Same
    BY <1>4
  <2>2. ASSUME NEW i \in 0..n, i \in Same /\ i + 1 <= n
        PROVE  i + 1 \in Same
    <3>1. i + 1 \in 1..n /\ i + 1 \in 1..m /\ (i + 1) - 1 = i /\ f[i] = g[i]
      BY <1>4, <2>2
    <3>2. f[i + 1] = G[f[i]] /\ g[i + 1] = G[g[i]]
      BY <1>4, <3>1
    <3> QED
      BY <3>1, <3>2
  <2>3. \A i \in 0..n : i \in Same
    <3> HIDE DEF Same
    <3> QED
      BY <2>1, <2>2, InductionUpTo
  <2> QED
    BY <2>3
<1> DEFINE f == [n \in Nat |-> Solution(n)[n]]
<1>5. f \in [Nat -> V]
  <2>1. ASSUME NEW n \in Nat PROVE Solution(n)[n] \in V
    <3>1. PICK u \in [0..n -> V] : u = Solution(n)
      BY <1>3
    <3>2. n \in 0..n
      OBVIOUS
    <3> QED
      BY <3>1, <3>2
  <2> HIDE DEF Solution
  <2> QED
    BY <2>1
<1>6. f[0] = c
  BY <1>3
<1>7. ASSUME NEW n \in Nat PROVE f[n + 1] = G[f[n]]
  <2>1. PICK u \in [0..n -> V] : u = Solution(n) /\ Solves(n, u)
    BY <1>3
  <2>2. n + 1 \in Nat /\ n + 1 \in 1..(n + 1) /\ (n + 1) - 1 = n /\ n <= n + 1 /\ n \in 0..n
    OBVIOUS
  <2>3. PICK w \in [0..(n + 1) -> V] : w = Solution(n + 1) /\ Solves(n + 1, w)
    BY <1>3, <2>2
  <2>4. u[n] = w[n]
    <3> HIDE DEF Solves
    <3> QED
      BY <1>4, <2>1, <2>2, <2>3
  <2>5. w[n + 1] = G[w[n]]
    BY <2>2, <2>3
  <2>6. f[n] = u[n] /\ f[n + 1] = w[n + 1]
    BY <2>1, <2>2, <2>3
  <2> QED
    BY <2>4, <2>5, <2>6
<1> HIDE DEF f
<1> QED
  BY <1>5, <1>6, <1>7 DEF Endless

-----------------------------------------------------------------------------
(* Products                                                                *)

(* The running product of a sequence.                                      *)
Multiplied(s, f) ==
  f \in [0 .. Len(s) -> Nat] /\ f[0] = 1 /\ \A i \in 1 .. Len(s) : f[i] = f[i - 1] * s[i]
Products(s, f) == f = [i \in 0 .. Len(s) |-> IF i = 0 THEN 1 ELSE f[i - 1] * s[i]]

LEMMA ProductsExist ==
  ASSUME NEW s \in Seq(Nat)
  PROVE  \E f : Products(s, f)
<1> DEFINE G == [p \in Nat \X Nat |-> p[1] * p[2]]
<1>1. G \in [Nat \X Nat -> Nat] /\ \A a, b \in Nat : G[<<a, b>>] = a * b
  OBVIOUS
<1> HIDE DEF G
<1>2. PICK f : Follows(s, Nat, 1, G, f)
  BY <1>1, RecursionExists
<1>3. /\ f \in [0 .. Len(s) -> Nat] /\ f[0] = 1
      /\ \A i \in 1 .. Len(s) : f[i] = G[<<f[i - 1], s[i]>>]
  BY <1>2 DEF Follows
<1>4. Len(s) \in Nat /\ \A i \in 1 .. Len(s) : s[i] \in Nat
  BY LenProperties, ElementOfSeq
<1>5. ASSUME NEW i \in 1 .. Len(s) PROVE f[i] = f[i - 1] * s[i]
  <2>1. i - 1 \in 0 .. Len(s)
    BY <1>4
  <2>2. f[i - 1] \in Nat /\ s[i] \in Nat
    BY <1>3, <1>4, <2>1
  <2> QED
    BY <1>1, <1>3, <2>2
<1>6. f = [i \in 0 .. Len(s) |-> IF i = 0 THEN 1 ELSE f[i - 1] * s[i]]
  BY <1>3, <1>4, <1>5
<1> QED
  BY <1>6 DEF Products

LEMMA ProductsMultiplied ==
  ASSUME NEW s \in Seq(Nat)
  PROVE  Multiplied(s, CHOOSE f : Products(s, f))
<1> DEFINE upTo == CHOOSE f : Products(s, f)
<1>1. Products(s, upTo)
  BY ProductsExist
<1> HIDE DEF upTo
<1>3. Len(s) \in Nat /\ \A i \in 1 .. Len(s) : s[i] \in Nat
  BY LenProperties, ElementOfSeq
<1>4. upTo = [i \in 0 .. Len(s) |-> IF i = 0 THEN 1 ELSE upTo[i - 1] * s[i]]
  BY <1>1 DEF Products
<1>5. upTo[0] = 1
  <2>1. 0 \in 0 .. Len(s)
    BY <1>3
  <2> QED
    BY <1>4, <2>1, Zenon
<1>6. ASSUME NEW i \in 1 .. Len(s) PROVE upTo[i] = upTo[i - 1] * s[i]
  <2>1. i \in 0 .. Len(s) /\ i # 0
    BY <1>3
  <2> QED
    BY <1>4, <2>1, Zenon
<1>7. \A i \in 0 .. Len(s) : upTo[i] \in Nat
  <2> DEFINE S == {i \in 0 .. Len(s) : upTo[i] \in Nat}
  <2>1. 0 \in S
    BY <1>3, <1>5
  <2>2. ASSUME NEW i \in 0 .. Len(s), i \in S /\ i + 1 <= Len(s) PROVE i + 1 \in S
    <3>1. i + 1 \in 1 .. Len(s) /\ (i + 1) - 1 = i /\ upTo[i] \in Nat
      BY <1>3, <2>2
    <3>2. PICK a \in Nat, b \in Nat : a = upTo[i] /\ b = s[i + 1] /\ upTo[i + 1] = a * b
      BY <1>3, <1>6, <3>1
    <3> QED
      BY <3>1, <3>2
  <2>3. \A i \in 0 .. Len(s) : i \in S
    <3> HIDE DEF S
    <3> QED
      BY <1>3, <2>1, <2>2, InductionUpTo
  <2> QED
    BY <2>3
<1>8. upTo \in [0 .. Len(s) -> Nat]
  <2>1. DOMAIN upTo = 0 .. Len(s) /\ upTo = [i \in DOMAIN upTo |-> upTo[i]]
    BY <1>4, Zenon
  <2> QED
    BY <1>7, <2>1
<1>9. Multiplied(s, upTo)
  BY <1>5, <1>6, <1>8 DEF Multiplied
<1> QED
  BY <1>9 DEF upTo

(* t is e followed by s.                                                   *)
Headed(t, e, s) ==
  Len(t) = Len(s) + 1 /\ t[1] = e /\ \A i \in 1 .. Len(s) : t[i + 1] = s[i]

LEMMA HeadedMultiplied ==
  ASSUME NEW s \in Seq(Nat), NEW t \in Seq(Nat), NEW e \in Nat, Headed(t, e, s),
         NEW f, Multiplied(s, f), NEW h, Multiplied(t, h)
  PROVE  h[Len(t)] = e * f[Len(s)]
<1>3. /\ f \in [0 .. Len(s) -> Nat] /\ f[0] = 1
      /\ \A i \in 1 .. Len(s) : f[i] = f[i - 1] * s[i]
  BY DEF Multiplied
<1>4. /\ h[0] = 1
      /\ \A i \in 1 .. Len(t) : h[i] = h[i - 1] * t[i]
  BY DEF Multiplied
<1>5. /\ Len(s) \in Nat /\ Len(t) = Len(s) + 1 /\ t[1] = e
      /\ \A i \in 1 .. Len(s) : t[i + 1] = s[i] /\ s[i] \in Nat
  BY LenProperties, ElementOfSeq DEF Headed
<1> DEFINE S == {i \in 0 .. Len(s) : h[i + 1] = e * f[i]}
<1>6. 0 \in S
  <2>1. 1 \in 1 .. Len(t) /\ 1 - 1 = 0
    BY <1>5
  <2>2. h[1] = h[0] * t[1]
    BY <1>4, <2>1
  <2>3. h[0 + 1] = e * f[0]
    BY <1>3, <1>4, <1>5, <2>2
  <2> QED
    BY <1>5, <2>3
<1>7. ASSUME NEW i \in 0 .. Len(s), i \in S /\ i + 1 <= Len(s) PROVE i + 1 \in S
  <2>1. i + 1 \in 1 .. Len(s) /\ (i + 1) - 1 = i /\ h[i + 1] = e * f[i] /\ i + 1 \in 0 .. Len(s)
    BY <1>5, <1>7
  <2>2. (i + 1) + 1 \in 1 .. Len(t) /\ ((i + 1) + 1) - 1 = i + 1
    BY <1>5, <2>1
  <2>3. PICK a \in Nat, b \in Nat : a = f[i] /\ b = s[i + 1] /\ f[i + 1] = a * b
    BY <1>3, <1>5, <2>1
  <2>4. h[(i + 1) + 1] = h[i + 1] * t[(i + 1) + 1]
    BY <1>4, <2>2
  <2>5. t[(i + 1) + 1] = b
    BY <1>5, <2>1, <2>3
  <2>6. h[(i + 1) + 1] = (e * a) * b /\ (e * a) * b = e * (a * b)
    BY <2>1, <2>3, <2>4, <2>5
  <2> QED
    BY <2>1, <2>3, <2>6
<1>8. \A i \in 0 .. Len(s) : i \in S
  <2> HIDE DEF S
  <2> QED
    BY <1>5, <1>6, <1>7, InductionUpTo
<1>9. Len(s) \in 0 .. Len(s)
  BY <1>5
<1>10. h[Len(s) + 1] = e * f[Len(s)]
  BY <1>8, <1>9
<1> QED
  BY <1>5, <1>10
=============================================================================
