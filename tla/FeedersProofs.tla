---------------------------- MODULE FeedersProofs ---------------------------
(***************************************************************************)
(* Proofs about feeders (module Feeders), for every set of feeders and      *)
(* every bound: types, feeders that exist, that a value was forwarded to    *)
(* the feeders attached when it arrived, and that a put nobody disturbs     *)
(* reaches every attached feeder, depth first.                             *)
(***************************************************************************)
EXTENDS Feeders, Recursion

(* A push under way: what it has served and what is left make up what it    *)
(* found, and all of it exists.                                            *)
GoodPush ==
  {p \in Push : /\ {p.feeder} \cup Names(p.todo) \subseteq Registered
                /\ p.sent \o p.todo = p.found}

(* The inductive invariant.                                                *)
FeedersInv == TypeOK /\ pushes \in Seq(GoodPush)

-----------------------------------------------------------------------------
(* Sequences of feeders                                                    *)

(* What a sequence names is what it is a sequence of.                      *)
LEMMA NamesTyped ==
  ASSUME NEW S, NEW s \in Seq(S)
  PROVE  Names(s) \subseteq S
BY ElementOfSeq, LenProperties DEF Names

LEMMA NamesSuffice ==
  ASSUME NEW S, NEW T, NEW s \in Seq(S), Names(s) \subseteq T
  PROVE  s \in Seq(T)
<1>1. Len(s) \in Nat /\ DOMAIN s = 1..Len(s) /\ s \in [1..Len(s) -> S]
  BY LenProperties
<1>2. s \in [1..Len(s) -> T]
  BY <1>1 DEF Names
<1> QED
  BY <1>1, <1>2

LEMMA SeqGrows ==
  ASSUME NEW S, NEW T, S \subseteq T, NEW s \in Seq(S)
  PROVE  s \in Seq(T)
BY NamesTyped, NamesSuffice

(* Serving the head of what is left.                                       *)
LEMMA Served ==
  ASSUME NEW S, NEW sent \in Seq(S), NEW todo \in Seq(S), todo # <<>>
  PROVE  /\ Head(todo) \in Names(todo) /\ Head(todo) \in S
         /\ Tail(todo) \in Seq(S) /\ Names(Tail(todo)) \subseteq Names(todo)
         /\ Append(sent, Head(todo)) \in Seq(S)
         /\ Append(sent, Head(todo)) \o Tail(todo) = sent \o todo
<1> DEFINE next == Head(todo)
           rest == Tail(todo)
<1>1. Len(todo) \in Nat \ {0} /\ DOMAIN todo = 1..Len(todo) /\ next = todo[1]
  BY EmptySeq, LenProperties
<1>2. /\ next \in S /\ rest \in Seq(S) /\ Len(rest) = Len(todo) - 1
      /\ \A i \in 1..Len(rest) : rest[i] = todo[i + 1]
  BY HeadTailProperties
<1>3. next \in Names(todo)
  BY <1>1 DEF Names
<1>4. Names(rest) \subseteq Names(todo)
  <2>1. DOMAIN rest = 1..Len(rest)
    BY <1>2, LenProperties
  <2> QED
    BY <1>1, <1>2, <2>1 DEF Names
<1>5. <<next>> \in Seq(S) /\ Append(sent, next) = sent \o <<next>>
  BY <1>2, AppendIsConcat
<1>6. <<next>> \o rest = todo
  <2>1. /\ <<next>> \o rest \in Seq(S) /\ Len(<<next>> \o rest) = 1 + Len(rest)
        /\ \A i \in 1..(1 + Len(rest)) :
             (<<next>> \o rest)[i] = IF i <= 1 THEN next ELSE rest[i - 1]
    BY <1>2, <1>5, ConcatProperties
  <2>2. \A i \in 1..Len(todo) : (<<next>> \o rest)[i] = todo[i]
    BY <1>1, <1>2, <2>1
  <2> QED
    BY <1>1, <1>2, <2>1, <2>2, SeqEqual
<1>7. (sent \o <<next>>) \o rest = sent \o todo
  BY <1>2, <1>5, <1>6, ConcatAssociative
<1> QED
  BY <1>2, <1>3, <1>4, <1>5, <1>7, AppendProperties

-----------------------------------------------------------------------------
(* Pushes                                                                  *)

(* A sequence of good pushes satisfies what TypeOK says of pushes.         *)
LEMMA GoodPushesTyped ==
  ASSUME NEW s \in Seq(GoodPush)
  PROVE  /\ s \in Seq(Push)
         /\ \A i \in DOMAIN s :
              {s[i].feeder} \cup Names(s[i].todo) \subseteq Registered
<1>1. s \in Seq(Push)
  BY SeqGrows DEF GoodPush
<1>2. \A i \in DOMAIN s : s[i] \in GoodPush
  BY ElementOfSeq, LenProperties
<1> QED
  BY <1>1, <1>2 DEF GoodPush

LEMMA ConnectionsTyped ==
  ASSUME TypeOK, NEW f \in Registered
  PROVE  /\ f \in Feeder /\ connections[f] \in Seq(Feeder)
         /\ Names(connections[f]) \subseteq Registered
<1>1. connections[f] \in Seq(Registered) /\ Registered \subseteq Feeder
  BY DEF TypeOK
<1> QED
  BY <1>1, NamesTyped, SeqGrows

LEMMA TopTyped ==
  ASSUME FeedersInv, Pushing
  PROVE  /\ Top \in GoodPush
         /\ Top.feeder \in Registered /\ Top.feeder \in Feeder
         /\ Top.todo \in Seq(Feeder) /\ Top.sent \in Seq(Feeder)
         /\ Top.found \in Seq(Feeder)
         /\ Top.sent \o Top.todo = Top.found
         /\ Names(Top.todo) \subseteq Registered
         /\ Len(pushes) \in 1..Len(pushes)
<1>1. Len(pushes) \in Nat \ {0} /\ pushes \in Seq(GoodPush)
  BY EmptySeq DEF FeedersInv, Pushing
<1>2. Top \in GoodPush
  BY <1>1, ElementOfSeq DEF Top
<1> QED
  BY <1>1, <1>2 DEF GoodPush, Push

(* A feeder is reached with all its connections still to be served.        *)
LEMMA Reached ==
  ASSUME TypeOK, NEW f \in Registered, NEW rest \in Seq(GoodPush), Reach(f, rest)
  PROVE  pushes' \in Seq(GoodPush)
<1> DEFINE new == [feeder |-> f, transforming |-> TRUE, todo |-> connections[f],
                   found |-> connections[f], sent |-> <<>>]
<1>1. f \in Feeder /\ connections[f] \in Seq(Feeder) /\ Names(connections[f]) \subseteq Registered
  BY ConnectionsTyped
<1>2. <<>> \in Seq(Feeder) /\ <<>> \o connections[f] = connections[f]
  BY <1>1, ConcatEmptySeq, EmptySeq
<1>3. new \in GoodPush
  BY <1>1, <1>2 DEF GoodPush, Push
<1> HIDE DEF new
<1>4. pushes' = Append(rest, new)
  BY DEF Reach, new
<1> QED
  BY <1>3, <1>4, AppendProperties

LEMMA TopReplaced ==
  ASSUME FeedersInv, Pushing, NEW push \in GoodPush
  PROVE  WithTop(push) \in Seq(GoodPush)
<1>1. pushes \in Seq(GoodPush) /\ Len(pushes) \in 1..Len(pushes)
  BY TopTyped DEF FeedersInv
<1> QED
  BY <1>1, ExceptSeq DEF WithTop

LEMMA Popped ==
  ASSUME FeedersInv, Pushing, Pop
  PROVE  pushes' \in Seq(GoodPush)
<1>1. /\ pushes \in Seq(GoodPush) /\ Len(pushes) \in Nat
      /\ Len(pushes) \in 1..Len(pushes)
  BY TopTyped, LenProperties DEF FeedersInv
<1>2. \A i \in 1..(Len(pushes) - 1) : pushes[i] \in GoodPush
  BY <1>1, ElementOfSeq
<1> QED
  BY <1>1, <1>2, SubSeqProperties DEF Pop

-----------------------------------------------------------------------------
(* The invariant                                                           *)

(* What is left to show when a step leaves the graph alone.                *)
LEMMA GraphKept ==
  ASSUME FeedersInv, UNCHANGED connections, pushes' \in Seq(GoodPush),
         raising' \in BOOLEAN, ops' \in 0..MaxOps,
         visited' \in Seq(Feeder), calm' \in BOOLEAN
  PROVE  FeedersInv'
<1>1. Registered' = Registered /\ GoodPush' = GoodPush
  BY DEF Registered, GoodPush
<1>2. /\ pushes' \in Seq(Push)
      /\ \A i \in DOMAIN pushes' :
           {pushes'[i].feeder} \cup Names(pushes'[i].todo) \subseteq Registered
  BY GoodPushesTyped
<1> QED
  BY <1>1, <1>2 DEF FeedersInv, TypeOK

LEMMA OperationCounts ==
  ASSUME TypeOK, Operation
  PROVE  ops' \in 0..MaxOps
BY FeedersAssumption DEF TypeOK, Operation

(* A graph that grows, or whose connections change, keeps good pushes good. *)
LEMMA GraphChanged ==
  ASSUME FeedersInv, Operation, UNCHANGED <<pushes, raising, visited>>, calm' = FALSE,
         Registered \subseteq Registered', Registered' \subseteq Feeder,
         connections' \in [Registered' -> Seq(Registered')]
  PROVE  FeedersInv'
<1>1. GoodPush \subseteq GoodPush'
  BY DEF GoodPush
<1>2. pushes' \in Seq(GoodPush')
  BY <1>1, SeqGrows DEF FeedersInv
<1>3. /\ pushes' \in Seq(Push)
      /\ \A i \in DOMAIN pushes' :
           {pushes'[i].feeder} \cup Names(pushes'[i].todo) \subseteq Registered'
  BY DEF FeedersInv, TypeOK
<1>4. ops' \in 0..MaxOps
  BY OperationCounts DEF FeedersInv
<1> QED
  BY <1>2, <1>3, <1>4 DEF FeedersInv, TypeOK

LEMMA MakeStep ==
  ASSUME FeedersInv, NEW f \in Feeder, Make(f)
  PROVE  FeedersInv'
<1>1. /\ Registered \subseteq Feeder
      /\ \A g \in Registered : connections[g] \in Seq(Registered)
  BY DEF FeedersInv, TypeOK
<1>2. Registered' = Registered \cup {f}
  BY DEF Make, Registered
<1>3. \A g \in Registered : connections[g] \in Seq(Registered')
  BY <1>1, <1>2, SeqGrows
<1>4. <<>> \in Seq(Registered')
  BY EmptySeq
<1>5. connections' \in [Registered' -> Seq(Registered')]
  BY <1>2, <1>3, <1>4 DEF Make
<1> QED
  BY <1>1, <1>2, <1>5, GraphChanged DEF Make

LEMMA AttachStep ==
  ASSUME FeedersInv, NEW src \in Feeder, NEW dest \in Feeder, Attach(src, dest)
  PROVE  FeedersInv'
<1>1. /\ Registered \subseteq Feeder /\ connections \in [Registered -> Seq(Registered)]
      /\ src \in Registered /\ dest \in Registered
  BY DEF FeedersInv, TypeOK, Attach, MayAttach
<1>2. Append(connections[src], dest) \in Seq(Registered)
  BY <1>1, AppendProperties
<1>3. Registered' = Registered /\ connections' \in [Registered -> Seq(Registered)]
  BY <1>1, <1>2 DEF Attach, Registered
<1> QED
  BY <1>1, <1>3, GraphChanged DEF Attach

LEMMA PutStep ==
  ASSUME FeedersInv, NEW f \in Feeder, Put(f)
  PROVE  FeedersInv'
<1>1. pushes' \in Seq(GoodPush)
  BY Reached DEF FeedersInv, Put
<1>2. visited' \in Seq(Feeder)
  BY AppendProperties, EmptySeq DEF Put, FeedersInv, TypeOK
<1>3. ops' \in 0..MaxOps
  BY OperationCounts DEF Put, FeedersInv
<1> QED
  BY <1>1, <1>2, <1>3, GraphKept DEF Put, FeedersInv, TypeOK

LEMMA ErrorStep ==
  ASSUME FeedersInv, Operation, Error
  PROVE  FeedersInv'
<1>1. ops' \in 0..MaxOps
  BY OperationCounts DEF FeedersInv
<1> QED
  BY <1>1, GraphKept DEF Error, history, FeedersInv, TypeOK

LEMMA TransformedStep ==
  ASSUME FeedersInv, Transformed
  PROVE  FeedersInv'
<1>1. [Top EXCEPT !.transforming = FALSE] \in GoodPush
  BY TopTyped DEF Transformed, GoodPush, Push
<1>2. pushes' \in Seq(GoodPush)
  BY <1>1, TopReplaced DEF Transformed
<1> QED
  BY <1>2, GraphKept DEF Transformed, history, FeedersInv, TypeOK

LEMMA ForwardStep ==
  ASSUME FeedersInv, Forward
  PROVE  FeedersInv'
<1> DEFINE next   == Head(Top.todo)
           served == [Top EXCEPT !.todo = Tail(@), !.sent = Append(@, Head(Top.todo))]
<1>1. /\ next \in Names(Top.todo) /\ next \in Feeder
      /\ Tail(Top.todo) \in Seq(Feeder)
      /\ Names(Tail(Top.todo)) \subseteq Names(Top.todo)
      /\ Append(Top.sent, next) \in Seq(Feeder)
      /\ Append(Top.sent, next) \o Tail(Top.todo) = Top.found
  <2>1. /\ Top.todo \in Seq(Feeder) /\ Top.sent \in Seq(Feeder)
        /\ Top.todo # <<>> /\ Top.sent \o Top.todo = Top.found
    BY TopTyped DEF Forward
  <2>2. \A sent, todo \in Seq(Feeder) :
          todo # <<>> =>
            /\ Head(todo) \in Names(todo) /\ Head(todo) \in Feeder
            /\ Tail(todo) \in Seq(Feeder) /\ Names(Tail(todo)) \subseteq Names(todo)
            /\ Append(sent, Head(todo)) \in Seq(Feeder)
            /\ Append(sent, Head(todo)) \o Tail(todo) = sent \o todo
    BY Served
  <2> QED
    BY <2>1, <2>2, Zenon
<1>2. next \in Registered /\ Names(Tail(Top.todo)) \subseteq Registered
  BY <1>1, TopTyped DEF Forward
<1>3. served \in GoodPush
  <2>1. Top \in Push /\ Top.feeder \in Registered
    BY TopTyped DEF Forward, GoodPush
  <2>2. /\ served \in Push /\ served.feeder = Top.feeder
        /\ served.todo = Tail(Top.todo) /\ served.found = Top.found
        /\ served.sent = Append(Top.sent, next)
    BY <1>1, <2>1 DEF Push
  <2> QED
    BY <1>1, <1>2, <2>1, <2>2 DEF GoodPush
<1>4. pushes' \in Seq(GoodPush)
  BY <1>2, <1>3, TopReplaced, Reached DEF Forward, FeedersInv
<1>5. visited' \in Seq(Feeder)
  BY <1>1, AppendProperties DEF Forward, FeedersInv, TypeOK
<1> QED
  BY <1>4, <1>5, GraphKept DEF Forward, FeedersInv, TypeOK

LEMMA PopStep ==
  ASSUME FeedersInv, Delivered \/ Abort
  PROVE  FeedersInv'
<1>1. pushes' \in Seq(GoodPush)
  BY Popped DEF Delivered, Abort
<1> QED
  BY <1>1, GraphKept DEF Delivered, Abort, history, FeedersInv, TypeOK

LEMMA HandleStep ==
  ASSUME FeedersInv, Handle
  PROVE  FeedersInv'
BY GraphKept DEF Handle, history, FeedersInv, TypeOK

LEMMA InvariantInit == Init => FeedersInv
<1> SUFFICES ASSUME Init
             PROVE  FeedersInv
  OBVIOUS
<1>1. Registered = {} /\ connections \in [Registered -> Seq(Registered)]
  BY DEF Init, Registered
<1>2. pushes \in Seq(GoodPush) /\ pushes \in Seq(Push) /\ visited \in Seq(Feeder)
  BY EmptySeq DEF Init
<1>3. \A i \in DOMAIN pushes :
        {pushes[i].feeder} \cup Names(pushes[i].todo) \subseteq Registered
  BY <1>2, GoodPushesTyped
<1>4. ops \in 0..MaxOps
  BY FeedersAssumption DEF Init
<1>5. raising \in BOOLEAN /\ calm \in BOOLEAN
  BY Zenon DEF Init
<1> QED
  BY <1>1, <1>2, <1>3, <1>4, <1>5 DEF FeedersInv, TypeOK

LEMMA InvariantStep ==
  ASSUME FeedersInv, [Next]_vars
  PROVE  FeedersInv'
<1>1. ASSUME NEW f \in Feeder, Make(f) \/ Put(f) \/ PutUnknown(f)
      PROVE  FeedersInv'
  BY <1>1, MakeStep, PutStep, ErrorStep DEF PutUnknown
<1>2. ASSUME NEW src \in Feeder, NEW dest \in Feeder,
             Attach(src, dest) \/ \E output \in BOOLEAN : AttachFails(src, dest, output)
      PROVE  FeedersInv'
  BY <1>2, AttachStep, ErrorStep DEF AttachFails
<1>3. CASE TransformerFails
  BY <1>3, ErrorStep DEF TransformerFails
<1>4. CASE PushStep
  BY <1>4, TransformedStep, ForwardStep, PopStep DEF PushStep
<1>5. CASE Handle
  BY <1>5, HandleStep
<1>6. CASE UNCHANGED vars
  BY <1>6, GraphKept DEF vars, history, FeedersInv, TypeOK
<1> QED
  BY <1>1, <1>2, <1>3, <1>4, <1>5, <1>6 DEF Next

(* The strengthening is inductive: make, attach, put and every step of      *)
(* feeder_put_value keep the pushes under way good.                        *)
THEOREM FeedersInvariant == Spec => []FeedersInv
BY InvariantInit, InvariantStep, PTL DEF Spec

(* Whatever transformers do to the graph, values are only in feeders that   *)
(* exist, and feeders are only connected to feeders that exist.            *)
THEOREM FeedersTyped == Spec => []TypeOK
<1>1. FeedersInv => TypeOK
  BY DEF FeedersInv
<1> QED
  BY <1>1, FeedersInvariant, PTL

(* A push that is over has forwarded its value to the feeders attached when *)
(* it arrived, in attach order (feeder_put_value copies the connections).  *)
THEOREM ForwardedAsFound == Spec => ForwardsWhatItFound
<1>1. ASSUME FeedersInv, Delivered
      PROVE  Top.sent = Top.found
  <2>1. Top.sent \in Seq(Feeder) /\ Top.sent \o Top.todo = Top.found /\ Top.todo = <<>>
    BY <1>1, TopTyped DEF Delivered
  <2> QED
    BY <2>1, ConcatEmptySeq
<1>2. FeedersInv /\ [Next]_vars => [Delivered => Top.sent = Top.found]_vars
  BY <1>1
<1> QED
  BY <1>2, FeedersInvariant, PTL DEF Spec, ForwardsWhatItFound

-----------------------------------------------------------------------------
(* Depth first                                                             *)

(* The search from f, destination by destination, in the graph c: v holds   *)
(* the searches from the destinations.                                     *)
Walk(c, v, f) ==
  LET after[i \in 0..Len(c[f])] ==
        IF i = 0 THEN <<f>> ELSE after[i - 1] \o v[c[f][i]]
  IN  after

(* DepthFirst, of the graph c.                                             *)
Search(c) ==
  LET reached[n \in 0..MaxDepth] ==
        [f \in DOMAIN c |->
           IF n = 0 THEN <<f>> ELSE Walk(c, reached[n - 1], f)[Len(c[f])]]
  IN  reached

(* Behind the first m destinations of f, with n pushes to go.              *)
Walked(c, n, f, m) == Walk(c, Search(c)[n - 1], f)[m]

LEMMA SearchIsDepthFirst == DepthFirst = Search(connections)
BY DEF DepthFirst, Search, Walk, Registered

(* The equations of Walk, which recursion along the destinations solves.    *)
Walks(c, v, f, g) ==
  g = [i \in 0..Len(c[f]) |-> IF i = 0 THEN <<f>> ELSE g[i - 1] \o v[c[f][i]]]

LEMMA WalkSteps ==
  ASSUME NEW R, NEW c \in [R -> Seq(R)], NEW v \in [R -> Seq(R)], NEW f \in R
  PROVE  /\ Walk(c, v, f)[0] = <<f>>
         /\ \A i \in 1..Len(c[f]) :
              Walk(c, v, f)[i] = Walk(c, v, f)[i - 1] \o v[c[f][i]]
         /\ \A i \in 0..Len(c[f]) : Walk(c, v, f)[i] \in Seq(R)
<1> DEFINE T == Seq(R)
           G == [p \in T \X R |-> p[1] \o v[p[2]]]
           s == c[f]
<1>1. /\ s \in Seq(R) /\ Len(s) \in Nat /\ <<f>> \in T
      /\ \A i \in 1..Len(s) : s[i] \in R
  BY LenProperties, ElementOfSeq
<1>2. \A u \in T, d \in R : u \o v[d] \in T
  BY ConcatProperties
<1>3. c[f] = s
  OBVIOUS
<1> HIDE DEF T, s
<1>4. G \in [T \X R -> T] /\ \A u \in T, d \in R : G[<<u, d>>] = u \o v[d]
  BY <1>2
<1> HIDE DEF G
<1>5. PICK g : Follows(s, T, <<f>>, G, g)
  BY <1>1, <1>4, RecursionExists
<1>6. /\ g = [i \in 0..Len(s) |-> g[i]] /\ g[0] = <<f>>
      /\ \A i \in 0..Len(s) : g[i] \in T
      /\ \A i \in 1..Len(s) : g[i] = G[<<g[i - 1], s[i]>>]
  BY <1>5 DEF Follows
<1>7. \A i \in 1..Len(s) : g[i] = g[i - 1] \o v[s[i]]
  <2>1. \A i \in 1..Len(s) : i - 1 \in 0..Len(s)
    BY <1>1
  <2> QED
    BY <1>1, <1>4, <1>6, <2>1
<1>8. Walks(c, v, f, g)
  <2>1. ASSUME NEW i \in 0..Len(s)
        PROVE  g[i] = IF i = 0 THEN <<f>> ELSE g[i - 1] \o v[s[i]]
    <3>1. i # 0 => i \in 1..Len(s)
      BY <1>1
    <3> QED
      BY <1>6, <1>7, <3>1
  <2> QED
    BY <1>3, <1>6, <2>1 DEF Walks
<1> DEFINE h == CHOOSE h : Walks(c, v, f, h)
<1>9. Walks(c, v, f, h)
  BY <1>8
<1>10. Walk(c, v, f) = h
  BY DEF Walk, Walks
<1> HIDE DEF h
<1>w. PICK w : w = Walk(c, v, f) /\ Walks(c, v, f, w)
  BY <1>9, <1>10
<1>11. /\ w[0] = <<f>>
       /\ \A i \in 1..Len(s) : w[i] = w[i - 1] \o v[s[i]]
  <2>1. w = [i \in 0..Len(s) |-> IF i = 0 THEN <<f>> ELSE w[i - 1] \o v[s[i]]]
    BY <1>3, <1>w DEF Walks
  <2>2. 0 \in 0..Len(s) /\ \A i \in 1..Len(s) : i \in 0..Len(s) /\ i # 0
    BY <1>1
  <2> QED
    BY <2>1, <2>2
<1> DEFINE Typed == {i \in 0..Len(s) : w[i] \in T}
<1>12. 0 \in Typed
  <2>1. 0 \in 0..Len(s) /\ w[0] \in T
    BY <1>1, <1>11
  <2> QED
    BY <2>1
<1>13. ASSUME NEW i \in 0..Len(s), i \in Typed /\ i + 1 <= Len(s)
       PROVE  i + 1 \in Typed
  <2>a. i + 1 \in 1..Len(s) /\ (i + 1) - 1 = i
    BY <1>1, <1>13
  <2>b. w[i] \in T
    BY <1>13
  <2>1. i + 1 \in 1..Len(s) /\ (i + 1) - 1 = i /\ s[i + 1] \in R /\ w[i] \in T
    BY <1>1, <2>a, <2>b
  <2>2. w[i + 1] = w[i] \o v[s[i + 1]]
    BY <1>11, <2>1
  <2>3. w[i + 1] \in T
    BY <1>2, <2>1, <2>2
  <2> QED
    BY <1>1, <2>1, <2>3
<1>14. \A i \in 0..Len(s) : i \in Typed
  <2> HIDE DEF Typed
  <2> QED
    BY <1>1, <1>12, <1>13, InductionUpTo
<1>15. \A i \in 0..Len(s) : w[i] \in T
  BY <1>14
<1> QED
  BY <1>3, <1>w, <1>11, <1>15 DEF T

(* The searches of n pushes are walks through those of n - 1.              *)
Searches(c, d) ==
  d = [n \in 0..MaxDepth |->
         [f \in DOMAIN c |->
            IF n = 0 THEN <<f>> ELSE Walk(c, d[n - 1], f)[Len(c[f])]]]

LEMMA SearchSteps ==
  ASSUME NEW R, NEW c \in [R -> Seq(R)]
  PROVE  /\ \A n \in 0..MaxDepth : Search(c)[n] \in [R -> Seq(R)]
         /\ \A n \in 1..MaxDepth, f \in R :
              Search(c)[n][f] = Walk(c, Search(c)[n - 1], f)[Len(c[f])]
<1> DEFINE V == [R -> Seq(R)]
           start == [f \in R |-> <<f>>]
           Out(u) == [f \in R |-> Walk(c, u, f)[Len(c[f])]]
           G == [p \in V \X Nat |-> Out(p[1])]
           s == [i \in 1..MaxDepth |-> i]
<1>1. MaxDepth \in Nat /\ DOMAIN c = R /\ start \in V
  BY FeedersAssumption
<1>2. s \in Seq(Nat) /\ Len(s) = MaxDepth /\ \A i \in 1..MaxDepth : s[i] = i
  <2>1. s \in [1..MaxDepth -> Nat]
    BY <1>1
  <2> HIDE DEF s
  <2>2. s \in Seq(Nat) /\ Len(s) = MaxDepth
    BY <1>1, <2>1, MadeASeq
  <2> QED
    BY <2>2 DEF s
<1> HIDE DEF s
<1>3. ASSUME NEW u \in V PROVE Out(u) \in V
  <2>1. ASSUME NEW f \in R PROVE Walk(c, u, f)[Len(c[f])] \in Seq(R)
    <3>1. Len(c[f]) \in 0..Len(c[f])
      BY LenProperties
    <3> QED
      BY <3>1, WalkSteps
  <2> QED
    BY <2>1
<1>4. \A u \in V : Out(u) \in V
  BY <1>3
<1>o. \A u \in V : Out(u) = [f \in R |-> Walk(c, u, f)[Len(c[f])]]
  OBVIOUS
<1>t. start = [f \in R |-> <<f>>]
  OBVIOUS
<1>v. V = [R -> Seq(R)]
  OBVIOUS
<1> HIDE DEF V, Out, start
<1>5. G \in [V \X Nat -> V] /\ \A u \in V, n \in Nat : G[<<u, n>>] = Out(u)
  BY <1>4
<1> HIDE DEF G
<1>6. PICK g : Follows(s, V, start, G, g)
  BY <1>1, <1>2, <1>5, RecursionExists
<1>7. /\ g = [n \in 0..MaxDepth |-> g[n]] /\ g[0] = start
      /\ \A n \in 0..MaxDepth : g[n] \in V
      /\ \A n \in 1..MaxDepth : g[n] = G[<<g[n - 1], n>>]
  BY <1>1, <1>2, <1>6 DEF Follows
<1>8. \A n \in 1..MaxDepth : g[n] = Out(g[n - 1])
  <2>1. \A n \in 1..MaxDepth : n - 1 \in 0..MaxDepth /\ n \in Nat
    BY <1>1
  <2> QED
    BY <1>5, <1>7, <2>1
<1>9. Searches(c, g)
  <2>1. ASSUME NEW n \in 0..MaxDepth
        PROVE  g[n] = [f \in R |-> IF n = 0 THEN <<f>>
                                   ELSE Walk(c, g[n - 1], f)[Len(c[f])]]
    <3>1. CASE n = 0
      BY <1>7, <1>t, <3>1
    <3>2. CASE n # 0
      <4>1. n \in 1..MaxDepth /\ n - 1 \in 0..MaxDepth
        BY <1>1, <3>2
      <4>2. g[n] = Out(g[n - 1]) /\ g[n - 1] \in V
        BY <1>7, <1>8, <4>1
      <4> QED
        BY <1>o, <3>2, <4>2
    <3> QED
      BY <3>1, <3>2
  <2> QED
    BY <1>1, <1>7, <2>1 DEF Searches
<1> DEFINE d == CHOOSE h : Searches(c, h)
<1>10. Searches(c, d)
  BY <1>9
<1>11. Search(c) = d
  BY DEF Search, Searches
<1> HIDE DEF d
<1>12. /\ \A n \in 0..MaxDepth :
            d[n] = [f \in R |-> IF n = 0 THEN <<f>>
                                ELSE Walk(c, d[n - 1], f)[Len(c[f])]]
  BY <1>1, <1>10 DEF Searches
<1>13. d[0] = start
  BY <1>1, <1>12, <1>t
<1>14. \A n \in 1..MaxDepth : d[n] = [f \in R |-> Walk(c, d[n - 1], f)[Len(c[f])]]
  BY <1>1, <1>12
<1> DEFINE Typed == {n \in 0..MaxDepth : d[n] \in V}
<1>15. 0 \in Typed
  BY <1>1, <1>13
<1>16. ASSUME NEW n \in 0..MaxDepth, n \in Typed /\ n + 1 <= MaxDepth
       PROVE  n + 1 \in Typed
  <2>1. n + 1 \in 1..MaxDepth /\ (n + 1) - 1 = n /\ d[n] \in V
    BY <1>1, <1>16
  <2>2. d[n + 1] = Out(d[n])
    BY <1>14, <1>o, <2>1
  <2>3. d[n + 1] \in V
    BY <1>4, <2>1, <2>2
  <2> QED
    BY <1>1, <2>1, <2>3
<1>17. \A n \in 0..MaxDepth : n \in Typed
  <2> HIDE DEF Typed
  <2> QED
    BY <1>1, <1>15, <1>16, InductionUpTo
<1>18. \A n \in 0..MaxDepth : d[n] \in [R -> Seq(R)]
  BY <1>17, <1>v
<1>19. ASSUME NEW n \in 1..MaxDepth, NEW f \in R
       PROVE  d[n][f] = Walk(c, d[n - 1], f)[Len(c[f])]
  BY <1>14
<1> QED
  BY <1>11, <1>18, <1>19

(* A graph of feeders: each has destinations that exist.                   *)
Graph(c) == c \in [DOMAIN c -> Seq(DOMAIN c)]

(* How a walk begins, goes on and ends.                                    *)
LEMMA WalkedTyped ==
  ASSUME NEW R, NEW c \in [R -> Seq(R)], NEW n \in 1..MaxDepth, NEW f \in R
  PROVE  /\ Walked(c, n, f, 0) = <<f>>
         /\ \A m \in 1..Len(c[f]) :
              Walked(c, n, f, m) = Walked(c, n, f, m - 1) \o Search(c)[n - 1][c[f][m]]
         /\ \A m \in 0..Len(c[f]) : Walked(c, n, f, m) \in Seq(R)
         /\ Search(c)[n][f] = Walked(c, n, f, Len(c[f]))
<1>1. n - 1 \in 0..MaxDepth
  BY FeedersAssumption
<1>2. Search(c)[n - 1] \in [R -> Seq(R)]
  BY <1>1, SearchSteps
<1>3. Search(c)[n][f] = Walk(c, Search(c)[n - 1], f)[Len(c[f])]
  BY SearchSteps
<1>4. PICK v \in [R -> Seq(R)] : v = Search(c)[n - 1]
  BY <1>2
<1>5. /\ Walk(c, v, f)[0] = <<f>>
      /\ \A i \in 1..Len(c[f]) :
           Walk(c, v, f)[i] = Walk(c, v, f)[i - 1] \o v[c[f][i]]
      /\ \A i \in 0..Len(c[f]) : Walk(c, v, f)[i] \in Seq(R)
  BY WalkSteps
<1>6. \A m : Walked(c, n, f, m) = Walk(c, v, f)[m]
  BY <1>4 DEF Walked
<1> QED
  BY <1>3, <1>4, <1>5, <1>6

LEMMA WalkedSteps ==
  ASSUME NEW c, Graph(c), NEW n \in 1..MaxDepth, NEW f \in DOMAIN c
  PROVE  /\ Walked(c, n, f, 0) = <<f>>
         /\ \A m \in 1..Len(c[f]) :
              Walked(c, n, f, m) = Walked(c, n, f, m - 1) \o Search(c)[n - 1][c[f][m]]
         /\ \A m \in 0..Len(c[f]) : Walked(c, n, f, m) \in Seq(DOMAIN c)
         /\ Search(c)[n][f] = Walked(c, n, f, Len(c[f]))
BY WalkedTyped, Zenon DEF Graph

-----------------------------------------------------------------------------
(* The path of a value through the graph                                   *)

(* Pushes that nobody disturbed: each has served what it found as far as    *)
(* the next one, which is at the destination served last.                  *)
Path(c, ps) ==
  /\ Len(ps) <= MaxDepth
  /\ \A i \in 1..Len(ps) : /\ ps[i].feeder \in DOMAIN c
                           /\ ps[i].sent \o ps[i].todo = c[ps[i].feeder]
  /\ \A i \in 1..(Len(ps) - 1) :
       /\ ps[i].sent # <<>>
       /\ ps[i + 1].feeder = c[ps[i].feeder][Len(ps[i].sent)]

(* The destination served last is reached, but its search is not over.      *)
Part(c, ps, i) ==
  Walked(c, MaxDepth - i + 1, ps[i].feeder,
         IF i = Len(ps) THEN Len(ps[i].sent) ELSE Len(ps[i].sent) - 1)

Parts(c, ps) == [i \in 1..Len(ps) |-> Part(c, ps, i)]

LEMMA PathServed ==
  ASSUME NEW c, Graph(c), NEW ps \in Seq(Push), Path(c, ps), NEW i \in 1..Len(ps)
  PROVE  /\ ps[i].feeder \in DOMAIN c /\ ps[i].sent \in Seq(Feeder)
         /\ Len(ps[i].sent) \in 0..Len(c[ps[i].feeder])
         /\ ps[i].todo = <<>> => Len(ps[i].sent) = Len(c[ps[i].feeder])
         /\ ps[i].todo # <<>> =>
              /\ Len(ps[i].sent) + 1 \in 1..Len(c[ps[i].feeder])
              /\ c[ps[i].feeder][Len(ps[i].sent) + 1] = Head(ps[i].todo)
<1>1. ps[i] \in Push /\ Len(ps) \in Nat
  BY ElementOfSeq, LenProperties
<1>2. PICK sent \in Seq(Feeder), todo \in Seq(Feeder) :
        ps[i].sent = sent /\ ps[i].todo = todo
  BY <1>1 DEF Push
<1>3. PICK out : c[ps[i].feeder] = out /\ out = sent \o todo
  BY <1>2 DEF Path
<1>4. Len(sent) \in Nat /\ Len(todo) \in Nat /\ Len(out) = Len(sent) + Len(todo)
  BY <1>3, LenProperties, ConcatProperties
<1>5. todo = <<>> => Len(todo) = 0
  BY EmptySeq
<1>6. ASSUME todo # <<>>
      PROVE  Len(sent) + 1 \in 1..Len(out) /\ out[Len(sent) + 1] = Head(todo)
  <2>1. Len(todo) \in Nat \ {0} /\ Head(todo) = todo[1]
    BY <1>6, EmptySeq
  <2>2. Len(sent) + 1 \in 1..(Len(sent) + Len(todo)) /\ ~(Len(sent) + 1 <= Len(sent))
        /\ (Len(sent) + 1) - Len(sent) = 1
    BY <1>4, <2>1
  <2>3. out[Len(sent) + 1] = todo[1]
    BY <1>3, <2>2, ConcatProperties
  <2> QED
    BY <1>4, <2>1, <2>2, <2>3
<1>7. ps[i].feeder \in DOMAIN c
  BY DEF Path
<1>8. Len(sent) \in 0..Len(out) /\ (todo = <<>> => Len(sent) = Len(out))
  BY <1>4, <1>5
<1> QED
  BY <1>2, <1>3, <1>6, <1>7, <1>8, Zenon

LEMMA PartsTyped ==
  ASSUME NEW c, Graph(c), NEW ps \in Seq(Push), Path(c, ps)
  PROVE  /\ Parts(c, ps) \in Seq(Seq(DOMAIN c)) /\ Len(Parts(c, ps)) = Len(ps)
         /\ \A i \in 1..Len(ps) : Parts(c, ps)[i] = Part(c, ps, i)
         /\ \A i \in 1..Len(ps) : Part(c, ps, i) \in Seq(DOMAIN c)
<1>1. Len(ps) \in Nat /\ Len(ps) <= MaxDepth /\ MaxDepth \in Nat
  BY FeedersAssumption, LenProperties DEF Path
<1>2. ASSUME NEW i \in 1..Len(ps) PROVE Part(c, ps, i) \in Seq(DOMAIN c)
  <2>1. PICK R : R = DOMAIN c /\ c \in [R -> Seq(R)]
    BY DEF Graph
  <2>2. PICK n \in 1..MaxDepth : n = MaxDepth - i + 1
    BY <1>1
  <2>3. PICK f \in R : f = ps[i].feeder
    BY <2>1 DEF Path
  <2>4. PICK m \in 0..Len(c[f]) :
          m = IF i = Len(ps) THEN Len(ps[i].sent) ELSE Len(ps[i].sent) - 1
    <3>1. Len(ps[i].sent) \in 0..Len(c[f])
      BY <2>3, PathServed
    <3>2. i # Len(ps) => Len(ps[i].sent) # 0
      <4>1. i # Len(ps) => i \in 1..(Len(ps) - 1)
        BY <1>1
      <4>2. i # Len(ps) => ps[i].sent # <<>>
        BY <4>1 DEF Path
      <4> QED
        BY <4>2, PathServed, EmptySeq
    <3>3. PICK l \in 0..Len(c[f]) : Len(ps[i].sent) = l
      BY <3>1
    <3>4. Len(c[f]) \in Nat /\ (i # Len(ps) => l # 0)
      BY <2>1, <3>2, <3>3, LenProperties
    <3>5. i # Len(ps) => l - 1 \in 0..Len(c[f])
      BY <3>4
    <3> QED
      BY <3>3, <3>5
  <2>5. Walked(c, n, f, m) \in Seq(R)
    BY <2>1, WalkedSteps
  <2> QED
    BY <2>1, <2>2, <2>3, <2>4, <2>5 DEF Part
<1>3. Parts(c, ps) \in [1..Len(ps) -> Seq(DOMAIN c)]
  BY <1>2 DEF Parts
<1>4. \A i \in 1..Len(ps) : Parts(c, ps)[i] = Part(c, ps, i)
  BY DEF Parts
<1> QED
  BY <1>1, <1>2, <1>3, <1>4, MadeASeq

(* A session's put begins a path.                                          *)
LEMMA PathBegins ==
  ASSUME NEW c, Graph(c), NEW qs \in Seq(Push), Len(qs) = 1, 1 <= MaxDepth,
         qs[1].feeder \in DOMAIN c, qs[1].sent = <<>>, qs[1].todo = c[qs[1].feeder]
  PROVE  Path(c, qs) /\ FlattenSeq(Parts(c, qs)) = <<qs[1].feeder>>
<1>1. PICK R : R = DOMAIN c /\ c \in [R -> Seq(R)]
  BY DEF Graph
<1>2. PICK f \in R : f = qs[1].feeder
  BY <1>1
<1>3. c[f] \in Seq(R) /\ <<>> \o c[f] = c[f] /\ Len(<<>>) = 0
  BY <1>1, ConcatEmptySeq, EmptySeq
<1>4. Path(c, qs)
  <2>1. \A i \in 1..1 : i = 1
    OBVIOUS
  <2>2. \A i \in 1..Len(qs) : /\ qs[i].feeder \in DOMAIN c
                              /\ qs[i].sent \o qs[i].todo = c[qs[i].feeder]
    BY <1>1, <1>2, <1>3, <2>1
  <2>3. 1..(Len(qs) - 1) = {}
    OBVIOUS
  <2> QED
    BY <2>2, <2>3 DEF Path
<1>5. PICK n \in 1..MaxDepth : n = MaxDepth - 1 + 1
  BY FeedersAssumption
<1>6. Part(c, qs, 1) = <<f>>
  <2>1. Walked(c, n, f, 0) = <<f>>
    BY <1>1, WalkedSteps
  <2>2. Part(c, qs, 1) = Walked(c, n, f, 0)
    BY <1>2, <1>3, <1>5 DEF Part
  <2> QED
    BY <2>1, <2>2
<1>7. <<>> \in Seq(Seq(R)) /\ <<f>> \in Seq(R) /\ Len(<<>>) = 0
  OBVIOUS
<1>8. FlattenSeq(Parts(c, qs)) = FlattenSeq(<<>>) \o <<f>>
  <2>a. 1 \in 1..1 /\ 0 + 1 = 1
    OBVIOUS
  <2>b. Parts(c, qs) \in Seq(Seq(R)) /\ Len(Parts(c, qs)) = 1
    BY <1>1, <1>4, PartsTyped
  <2>c. Parts(c, qs)[1] = <<f>>
    BY <1>4, <1>6, <2>a, PartsTyped
  <2>1. /\ Parts(c, qs) \in Seq(Seq(R)) /\ Len(Parts(c, qs)) = Len(<<>>) + 1
        /\ Parts(c, qs)[Len(<<>>) + 1] = <<f>>
    BY <1>7, <2>a, <2>b, <2>c
  <2>2. \A i \in 1..Len(<<>>) : Parts(c, qs)[i] = <<>>[i]
    BY <1>7
  <2> QED
    BY <1>7, <2>1, <2>2, FlattenSeqMore
<1>9. FlattenSeq(Parts(c, qs)) = <<f>>
  BY <1>7, <1>8, FlattenSeqEmpty, ConcatEmptySeq
<1> QED
  BY <1>2, <1>4, <1>9

(* The pushes qs are ps, of which the innermost of k forwards to next.      *)
Forwards(c, ps, qs, k, next) ==
  /\ Len(ps) = k /\ Len(qs) = k + 1 /\ k < MaxDepth
  /\ ps[k].todo # <<>> /\ next = Head(ps[k].todo)
  /\ \A i \in 1..(k - 1) : qs[i] = ps[i]
  /\ qs[k].feeder = ps[k].feeder
  /\ qs[k].sent = Append(ps[k].sent, next) /\ qs[k].todo = Tail(ps[k].todo)
  /\ qs[k + 1].feeder = next /\ qs[k + 1].sent = <<>> /\ qs[k + 1].todo = c[next]

(* Forwarding goes one feeder further.                                     *)
LEMMA PathForward ==
  ASSUME NEW c, Graph(c), NEW ps \in Seq(Push), Path(c, ps),
         NEW qs \in Seq(Push), NEW k \in Nat \ {0}, NEW next,
         Forwards(c, ps, qs, k, next)
  PROVE  Path(c, qs) /\ FlattenSeq(Parts(c, qs)) = Append(FlattenSeq(Parts(c, ps)), next)
<1> USE DEF Forwards
<1>k. k \in 1..k /\ k \in 1..(k + 1) /\ k + 1 \in 1..(k + 1)
  OBVIOUS
<1>1. PICK R : R = DOMAIN c /\ c \in [R -> Seq(R)]
  BY DEF Graph
<1>2. PICK f \in R : f = ps[k].feeder
  BY <1>k, <1>1 DEF Path
<1>3. PICK sent \in Seq(Feeder), todo \in Seq(Feeder) :
        /\ ps[k].sent = sent /\ ps[k].todo = todo
        /\ sent \o todo = c[f] /\ todo # <<>>
  <2>1. ps[k] \in Push
    BY <1>k, ElementOfSeq
  <2>2. ps[k].sent \o ps[k].todo = c[f]
    BY <1>k, <1>2 DEF Path
  <2> QED
    BY <2>1, <2>2 DEF Push
<1>4. /\ Len(sent) \in Nat /\ Len(sent) + 1 \in 1..Len(c[f])
      /\ c[f][Len(sent) + 1] = next
  BY <1>k, <1>2, <1>3, PathServed, LenProperties
<1>5. next \in R /\ c[next] \in Seq(R)
  <2>1. c[f] \in Seq(R)
    BY ONLY <1>1, f \in R
  <2>2. c[f][Len(sent) + 1] \in R
    BY ONLY <1>4, <2>1, ElementOfSeq
  <2> QED
    BY ONLY <1>1, <1>4, <2>2
<1>6. next \in Feeder /\ Append(sent, next) \o Tail(todo) = c[f]
      /\ Len(Append(sent, next)) = Len(sent) + 1
  <2>1. Head(todo) \in Feeder /\ Append(sent, Head(todo)) \o Tail(todo) = sent \o todo
    <3>1. todo # <<>>
      BY <1>3
    <3> QED
      BY ONLY <3>1, sent \in Seq(Feeder), todo \in Seq(Feeder), Served
  <2>2. next = Head(todo)
    BY <1>3
  <2>3. next \in Feeder /\ Append(sent, next) \o Tail(todo) = c[f]
    BY ONLY <1>3, <2>1, <2>2
  <2>4. Len(Append(sent, next)) = Len(sent) + 1
    BY ONLY <2>3, sent \in Seq(Feeder), AppendProperties
  <2> QED
    BY <2>3, <2>4
<1>7. <<>> \o c[next] = c[next] /\ Len(<<>>) = 0
  BY <1>5, ConcatEmptySeq, EmptySeq
<1>8. Path(c, qs)
  <2>1. Len(qs) <= MaxDepth
    BY FeedersAssumption
  <2>2. ASSUME NEW i \in 1..(k + 1)
        PROVE  qs[i].feeder \in R /\ qs[i].sent \o qs[i].todo = c[qs[i].feeder]
    <3>1. CASE i \in 1..(k - 1)
      <4>1. qs[i] = ps[i] /\ i \in 1..Len(ps)
        BY <3>1
      <4> QED
        BY <1>1, <4>1 DEF Path
    <3>2. CASE i = k
      <4>1. qs[k].feeder = f /\ qs[k].sent = Append(sent, next) /\ qs[k].todo = Tail(todo)
        BY <1>2, <1>3
      <4> QED
        BY <1>2, <1>6, <3>2, <4>1
    <3>3. CASE i = k + 1
      <4>1. qs[k + 1].feeder = next /\ qs[k + 1].sent = <<>> /\ qs[k + 1].todo = c[next]
        OBVIOUS
      <4>2. qs[i].feeder = next /\ qs[i].sent = <<>> /\ qs[i].todo = c[next]
        BY ONLY <3>3, <4>1
      <4> QED
        BY <1>5, <1>7, <4>2, Zenon
    <3>4. i \in 1..(k - 1) \/ i = k \/ i = k + 1
      OBVIOUS
    <3> QED
      BY ONLY <3>1, <3>2, <3>3, <3>4
  <2>3. ASSUME NEW i \in 1..k
        PROVE  /\ qs[i].sent # <<>>
               /\ qs[i + 1].feeder = c[qs[i].feeder][Len(qs[i].sent)]
    <3>1. CASE i = k
      <4>1. qs[k].sent # <<>>
        <5>1. qs[k].sent = Append(sent, next)
          BY <1>3
        <5> QED
          BY ONLY <1>4, <1>6, <1>7, <5>1
      <4> QED
        BY <1>2, <1>3, <1>4, <1>6, <3>1, <4>1
    <3>2. CASE i \in 1..(k - 1)
      <4>1. qs[i + 1].feeder = ps[i + 1].feeder
        <5>1. i + 1 = k \/ i + 1 \in 1..(k - 1)
          BY <3>2
        <5> QED
          BY <5>1
      <4> QED
        BY <3>2, <4>1 DEF Path
    <3> QED
      BY <3>1, <3>2
  <2>4. Len(qs) - 1 = k
    OBVIOUS
  <2> QED
    BY <1>1, <2>1, <2>2, <2>3, <2>4 DEF Path
<1>9. \A i \in 1..k : Part(c, qs, i) = Part(c, ps, i)
  <2>1. ASSUME NEW i \in 1..(k - 1) PROVE Part(c, qs, i) = Part(c, ps, i)
    <3>1. i # k /\ i # k + 1
      OBVIOUS
    <3> QED
      BY <3>1 DEF Part
  <2>2. Part(c, qs, k) = Part(c, ps, k)
    <3>1. (Len(sent) + 1) - 1 = Len(sent) /\ k # k + 1
      BY <1>4
    <3> QED
      BY <1>3, <1>6, <3>1 DEF Part
  <2> QED
    BY <2>1, <2>2
<1>10. Part(c, qs, k + 1) = <<next>>
  <2>1. PICK n \in 1..MaxDepth : n = MaxDepth - (k + 1) + 1
    BY FeedersAssumption
  <2>2. PICK g \in R : g = next
    BY <1>5
  <2>3. Walked(c, n, g, 0) = <<g>>
    BY <1>1, WalkedSteps
  <2>4. Part(c, qs, k + 1) = Walked(c, n, g, 0)
    BY <1>7, <2>1, <2>2 DEF Part
  <2> QED
    BY <2>2, <2>3, <2>4
<1>11. FlattenSeq(Parts(c, qs)) = FlattenSeq(Parts(c, ps)) \o <<next>>
  <2>1. /\ Parts(c, ps) \in Seq(Seq(R)) /\ Parts(c, qs) \in Seq(Seq(R))
        /\ <<next>> \in Seq(R) /\ Len(Parts(c, ps)) = k /\ Len(Parts(c, qs)) = k + 1
        /\ Parts(c, qs)[k + 1] = <<next>>
    BY <1>1, <1>5, <1>8, <1>10, PartsTyped
  <2>2. \A i \in 1..k : Parts(c, qs)[i] = Parts(c, ps)[i]
    <3>1. \A i \in 1..k : Parts(c, ps)[i] = Part(c, ps, i)
      BY PartsTyped
    <3>2. \A i \in 1..(k + 1) : Parts(c, qs)[i] = Part(c, qs, i)
      BY <1>8, PartsTyped
    <3> QED
      BY <1>9, <3>1, <3>2
  <2>3. PICK ss \in Seq(Seq(R)), tt \in Seq(Seq(R)), s \in Seq(R) :
          ss = Parts(c, ps) /\ tt = Parts(c, qs) /\ s = <<next>>
    BY <2>1
  <2>4. FlattenSeq(tt) = FlattenSeq(ss) \o s
    <3>1. Len(tt) = Len(ss) + 1 /\ tt[Len(ss) + 1] = s
          /\ \A i \in 1..Len(ss) : tt[i] = ss[i]
      BY <2>1, <2>2, <2>3
    <3> QED
      BY ONLY <3>1, ss \in Seq(Seq(R)), tt \in Seq(Seq(R)), s \in Seq(R), FlattenSeqMore
  <2> QED
    BY <2>3, <2>4
<1>12. FlattenSeq(Parts(c, ps)) \in Seq(R)
  BY <1>1, PartsTyped, FlattenSeqTyped
<1> QED
  BY <1>5, <1>8, <1>11, <1>12, AppendIsConcat

(* What a push that is over leaves is a path, and the value has been to the *)
(* same feeders: all of the last search belongs to the push outside.       *)
LEMMA PathDelivered ==
  ASSUME NEW c, Graph(c), NEW ps \in Seq(Push), Path(c, ps),
         NEW qs \in Seq(Push), NEW k \in Nat \ {0},
         Len(ps) = k + 1, Len(qs) = k, ps[k + 1].todo = <<>>,
         \A i \in 1..k : qs[i] = ps[i]
  PROVE  Path(c, qs) /\ FlattenSeq(Parts(c, qs)) = FlattenSeq(Parts(c, ps))
<1> DEFINE A == Part(c, ps, k)
           B == Part(c, ps, k + 1)
           C == Part(c, qs, k)
           ss == [i \in 1..(k - 1) |-> Part(c, ps, i)]
           tt == [i \in 1..k |-> Part(c, ps, i)]
<1>k. k \in 1..k /\ k \in 1..(k + 1) /\ k + 1 \in 1..(k + 1) /\ k - 1 \in Nat
  OBVIOUS
<1>1. Path(c, qs)
  <2>1. Len(qs) <= MaxDepth
    BY FeedersAssumption DEF Path
  <2>2. ASSUME NEW i \in 1..k
        PROVE  qs[i].feeder \in DOMAIN c /\ qs[i].sent \o qs[i].todo = c[qs[i].feeder]
    <3>1. i \in 1..(k + 1) /\ qs[i] = ps[i]
      OBVIOUS
    <3> QED
      BY <3>1 DEF Path
  <2>3. ASSUME NEW i \in 1..(k - 1)
        PROVE  qs[i].sent # <<>> /\ qs[i + 1].feeder = c[qs[i].feeder][Len(qs[i].sent)]
    <3>1. i \in 1..((k + 1) - 1) /\ i \in 1..k /\ i + 1 \in 1..k
      OBVIOUS
    <3>2. qs[i] = ps[i] /\ qs[i + 1] = ps[i + 1]
      BY <3>1
    <3> QED
      BY <3>1, <3>2 DEF Path
  <2> QED
    BY <2>1, <2>2, <2>3 DEF Path
<1>2. \A i \in 1..(k - 1) : Part(c, qs, i) = Part(c, ps, i)
  <2>1. ASSUME NEW i \in 1..(k - 1) PROVE Part(c, qs, i) = Part(c, ps, i)
    <3>1. i # k /\ i # k + 1 /\ qs[i] = ps[i]
      OBVIOUS
    <3> QED
      BY <3>1 DEF Part
  <2> QED
    BY <2>1
<1>3. C = A \o B
  <2>1. PICK n \in 2..MaxDepth : n = MaxDepth - k + 1
    BY FeedersAssumption DEF Path
  <2>2. PICK f \in DOMAIN c : f = ps[k].feeder
    BY <1>k DEF Path
  <2>3. PICK m \in 1..Len(c[f]) : m = Len(ps[k].sent)
    <3>1. k \in 1..((k + 1) - 1)
      OBVIOUS
    <3>2. ps[k].sent # <<>>
      BY <3>1 DEF Path
    <3>3. ps[k].sent \in Seq(Feeder) /\ Len(ps[k].sent) \in 0..Len(c[f])
      BY <1>k, <2>2, PathServed
    <3>4. Len(ps[k].sent) # 0
      BY <3>2, <3>3, EmptySeq
    <3> QED
      BY ONLY <3>3, <3>4
  <2>4. PICK g \in DOMAIN c : g = ps[k + 1].feeder
    BY <1>k DEF Path
  <2>5. g = c[f][m]
    <3>1. k \in 1..((k + 1) - 1)
      OBVIOUS
    <3> QED
      BY <2>2, <2>3, <2>4, <3>1 DEF Path
  <2>6. Len(ps[k + 1].sent) = Len(c[g])
    BY <1>k, <2>4, PathServed
  <2>7. A = Walked(c, n, f, m - 1)
    <3>1. k # k + 1
      OBVIOUS
    <3> QED
      BY <2>1, <2>2, <2>3, <3>1 DEF Part
  <2>8. B = Walked(c, n - 1, g, Len(c[g]))
    <3>1. MaxDepth - (k + 1) + 1 = n - 1
      BY <2>1, FeedersAssumption
    <3> QED
      BY <2>4, <2>6, <3>1 DEF Part
  <2>9. C = Walked(c, n, f, m)
    BY <1>k, <2>1, <2>2, <2>3 DEF Part
  <2>10. B = Search(c)[n - 1][g]
    <3>1. n - 1 \in 1..MaxDepth
      BY <2>1, FeedersAssumption
    <3> QED
      BY ONLY <2>8, <3>1, Graph(c), g \in DOMAIN c, WalkedSteps
  <2>11. C = Walked(c, n, f, m - 1) \o Search(c)[n - 1][c[f][m]]
    <3>1. n \in 1..MaxDepth
      BY <2>1, FeedersAssumption
    <3> QED
      BY ONLY <2>9, <3>1, Graph(c), f \in DOMAIN c, m \in 1..Len(c[f]), WalkedSteps
  <2> QED
    BY <2>5, <2>7, <2>10, <2>11
<1>4. /\ A \in Seq(DOMAIN c) /\ B \in Seq(DOMAIN c)
      /\ \A i \in 1..(k + 1) : Part(c, ps, i) \in Seq(DOMAIN c)
      /\ Parts(c, ps) \in Seq(Seq(DOMAIN c)) /\ Len(Parts(c, ps)) = k + 1
      /\ \A i \in 1..(k + 1) : Parts(c, ps)[i] = Part(c, ps, i)
  BY <1>k, PartsTyped
<1>5. /\ C \in Seq(DOMAIN c) /\ Parts(c, qs) \in Seq(Seq(DOMAIN c))
      /\ Len(Parts(c, qs)) = k
      /\ \A i \in 1..k : Parts(c, qs)[i] = Part(c, qs, i)
  BY <1>k, <1>1, PartsTyped
<1>6. /\ ss \in Seq(Seq(DOMAIN c)) /\ Len(ss) = k - 1
      /\ \A i \in 1..(k - 1) : ss[i] = Part(c, ps, i)
  <2>1. ss \in [1..(k - 1) -> Seq(DOMAIN c)]
    BY <1>4
  <2> QED
    BY <1>k, <2>1, MadeASeq
<1>7. /\ tt \in Seq(Seq(DOMAIN c)) /\ Len(tt) = k
      /\ \A i \in 1..k : tt[i] = Part(c, ps, i)
  <2>1. tt \in [1..k -> Seq(DOMAIN c)]
    BY <1>4
  <2> QED
    BY <1>k, <2>1, MadeASeq
<1> HIDE DEF A, B, C, ss, tt
<1>8. FlattenSeq(tt) = FlattenSeq(ss) \o A
  <2>1. /\ Len(tt) = Len(ss) + 1 /\ tt[Len(ss) + 1] = A
        /\ \A i \in 1..Len(ss) : tt[i] = ss[i]
    BY <1>6, <1>7 DEF A
  <2> QED
    BY ONLY <1>4, <1>6, <1>7, <2>1, FlattenSeqMore
<1>9. FlattenSeq(Parts(c, ps)) = FlattenSeq(tt) \o B
  <2>1. /\ Len(Parts(c, ps)) = Len(tt) + 1 /\ Parts(c, ps)[Len(tt) + 1] = B
        /\ \A i \in 1..Len(tt) : Parts(c, ps)[i] = tt[i]
    BY <1>4, <1>7 DEF B
  <2> QED
    BY ONLY <1>4, <1>7, <2>1, FlattenSeqMore
<1>10. FlattenSeq(Parts(c, qs)) = FlattenSeq(ss) \o C
  <2>1. /\ Len(Parts(c, qs)) = Len(ss) + 1 /\ Parts(c, qs)[Len(ss) + 1] = C
        /\ \A i \in 1..Len(ss) : Parts(c, qs)[i] = ss[i]
    BY <1>k, <1>2, <1>5, <1>6 DEF C
  <2> QED
    BY ONLY <1>5, <1>6, <2>1, FlattenSeqMore
<1>11. FlattenSeq(ss) \in Seq(DOMAIN c)
  BY <1>6, FlattenSeqTyped
<1>12. (FlattenSeq(ss) \o A) \o B = FlattenSeq(ss) \o (A \o B)
  <2>1. PICK S, x, y, z :
          /\ x = FlattenSeq(ss) /\ y = A /\ z = B
          /\ x \in Seq(S) /\ y \in Seq(S) /\ z \in Seq(S)
    BY <1>4, <1>11
  <2>2. (x \o y) \o z = x \o (y \o z)
    BY ONLY <2>1, ConcatAssociative
  <2> QED
    BY ONLY <2>1, <2>2
<1> QED
  BY <1>1, <1>3, <1>8, <1>9, <1>10, <1>12

-----------------------------------------------------------------------------
(* Deliveries                                                              *)

(* The pushes under way are a path, and the value has been where it leads.  *)
Undisturbed ==
  /\ Path(connections, pushes)
  /\ visited = FlattenSeq(Parts(connections, pushes))

(* While the transformers do nothing to feeders, only the innermost push    *)
(* transforms, and the pushes are undisturbed, until an error ends one.     *)
CalmInv ==
  /\ Len(pushes) <= MaxDepth
  /\ calm => /\ \A i \in 1..(Len(pushes) - 1) : ~pushes[i].transforming
             /\ Pushing /\ (raising => Top.transforming) => Undisturbed

LEMMA StateTyped ==
  ASSUME FeedersInv
  PROVE  /\ Graph(connections) /\ DOMAIN connections = Registered
         /\ pushes \in Seq(Push) /\ Len(pushes) \in Nat
         /\ Pushing => Len(pushes) \in Nat \ {0}
<1>1. /\ connections \in [Registered -> Seq(Registered)] /\ pushes \in Seq(Push)
  BY DEF FeedersInv, TypeOK
<1> QED
  BY <1>1, LenProperties, EmptySeq DEF Graph, Registered, Pushing

(* Pushes that serve alike are on the same path.                           *)
LEMMA PathSame ==
  ASSUME NEW c, NEW ps, NEW qs, Len(qs) = Len(ps), Path(c, ps),
         \A i \in 1..Len(ps) : /\ qs[i].feeder = ps[i].feeder
                               /\ qs[i].sent = ps[i].sent
                               /\ qs[i].todo = ps[i].todo,
         Len(ps) \in Nat
  PROVE  Path(c, qs) /\ Parts(c, qs) = Parts(c, ps)
<1>1. Path(c, qs)
  <2>1. \A i \in 1..(Len(ps) - 1) : i \in 1..Len(ps) /\ i + 1 \in 1..Len(ps)
    OBVIOUS
  <2> QED
    BY <2>1 DEF Path
<1>2. \A i \in 1..Len(ps) : Part(c, qs, i) = Part(c, ps, i)
  BY DEF Part
<1> QED
  BY <1>1, <1>2 DEF Parts

LEMMA CalmKept ==
  ASSUME CalmInv, UNCHANGED <<connections, pushes, history>>,
         raising => raising' \/ (Pushing => Top.transforming)
  PROVE  CalmInv'
<1>1. Pushing' = Pushing /\ Top' = Top
  BY DEF Pushing, Top
<1>2. Undisturbed => Undisturbed'
  BY DEF Undisturbed, history
<1> QED
  BY <1>1, <1>2 DEF CalmInv, history

LEMMA CalmChanged ==
  ASSUME CalmInv, UNCHANGED pushes, calm' = FALSE
  PROVE  CalmInv'
BY DEF CalmInv

LEMMA CalmPut ==
  ASSUME FeedersInv, CalmInv, FeedersInv', NEW f \in Feeder, Put(f)
  PROVE  CalmInv'
<1> DEFINE new == [feeder |-> f, transforming |-> TRUE, todo |-> connections[f],
                   found |-> connections[f], sent |-> <<>>]
<1>n. new.feeder = f /\ new.sent = <<>> /\ new.todo = connections[f]
  OBVIOUS
<1> HIDE DEF new
<1>1. /\ pushes' = Append(pushes, new) /\ Len(pushes) < MaxDepth
      /\ calm' = ~Pushing /\ f \in Registered /\ UNCHANGED connections
      /\ visited' = IF Pushing THEN visited ELSE <<f>>
  BY DEF Put, Reach, new
<1>2. /\ pushes \in Seq(Push) /\ pushes' \in Seq(Push) /\ Graph(connections)
      /\ DOMAIN connections = Registered /\ Len(pushes) \in Nat
  BY StateTyped DEF FeedersInv, TypeOK
<1>3. CASE Pushing
  <2>1. Len(pushes') = Len(pushes) + 1
    BY <1>1, <1>2
  <2>2. Len(pushes') <= MaxDepth
    BY <1>1, <1>2, <2>1, FeedersAssumption
  <2>3. ~calm'
    BY <1>1, <1>3, Zenon
  <2> QED
    BY <2>2, <2>3 DEF CalmInv
<1>4. CASE ~Pushing
  <2>1. pushes' = <<new>>
    BY <1>1, <1>4 DEF Pushing
  <2>2. Len(pushes') = 1 /\ pushes'[1] = new /\ 1 <= MaxDepth
    BY <1>1, <1>2, <2>1, FeedersAssumption
  <2>3. Path(connections, pushes') /\ FlattenSeq(Parts(connections, pushes')) = <<f>>
    <3>a. PICK c : c = connections
      OBVIOUS
    <3>b. PICK qs \in Seq(Push) : qs = pushes'
      BY <1>2
    <3>1. c = connections /\ qs = pushes'
      BY <3>a, <3>b
    <3>2. /\ Graph(c) /\ Len(qs) = 1 /\ qs[1].feeder = f /\ f \in DOMAIN c
          /\ qs[1].sent = <<>> /\ qs[1].todo = c[f]
      BY <1>1, <1>2, <1>n, <2>2, <3>1
    <3>3. Path(c, qs) /\ FlattenSeq(Parts(c, qs)) = <<f>>
      BY ONLY <2>2, <3>2, qs \in Seq(Push), PathBegins
    <3> QED
      BY <3>1, <3>3
  <2>4. Undisturbed'
    BY <1>1, <1>4, <2>3 DEF Undisturbed
  <2>5. 1..(Len(pushes') - 1) = {}
    BY <2>2
  <2> QED
    BY <2>2, <2>4, <2>5 DEF CalmInv
<1> QED
  BY <1>3, <1>4

LEMMA CalmTransformed ==
  ASSUME FeedersInv, CalmInv, FeedersInv', Transformed
  PROVE  CalmInv'
<1> DEFINE k == Len(pushes)
           new == [Top EXCEPT !.transforming = FALSE]
<1>1. /\ pushes \in Seq(Push) /\ Graph(connections) /\ k \in Nat \ {0} /\ k \in 1..k
      /\ Top = pushes[k] /\ Top \in Push
  <2>1. Pushing
    BY DEF Transformed
  <2>2. /\ pushes \in Seq(Push) /\ Graph(connections) /\ k \in Nat \ {0}
    BY <2>1, StateTyped
  <2> QED
    BY <2>2, ElementOfSeq DEF Top
<1>2. /\ pushes' = [pushes EXCEPT ![k] = new] /\ ~raising /\ ~raising'
      /\ Top.transforming /\ UNCHANGED <<connections, visited, calm>>
  BY DEF Transformed, WithTop, history
<1>3. new.feeder = Top.feeder /\ new.sent = Top.sent /\ new.todo = Top.todo
  BY <1>1 DEF Push
<1> HIDE DEF new, k
<1>4. /\ Len(pushes') = k /\ DOMAIN pushes = 1..k /\ pushes'[k] = new
      /\ \A i \in 1..(k - 1) : pushes'[i] = pushes[i]
  BY <1>1, <1>2, LenProperties DEF k
<1>5. \A i \in 1..k : /\ pushes'[i].feeder = pushes[i].feeder
                      /\ pushes'[i].sent = pushes[i].sent
                      /\ pushes'[i].todo = pushes[i].todo
  <2>1. \A i \in 1..k : i = k \/ i \in 1..(k - 1)
    BY <1>1
  <2> QED
    BY <1>1, <1>3, <1>4, <2>1
<1>6. calm => Undisturbed'
  <2>1. ASSUME calm PROVE Undisturbed
    BY <1>1, <1>2, <2>1 DEF CalmInv, Transformed
  <2>2. ASSUME Path(connections, pushes)
        PROVE  /\ Path(connections, pushes')
               /\ Parts(connections, pushes') = Parts(connections, pushes)
    BY <1>1, <1>4, <1>5, <2>2, PathSame DEF k
  <2> QED
    BY <1>2, <2>1, <2>2 DEF Undisturbed
<1>7. calm => \A i \in 1..(k - 1) : ~pushes'[i].transforming
  BY <1>4 DEF CalmInv, k
<1> QED
  BY <1>2, <1>4, <1>6, <1>7 DEF CalmInv, k

LEMMA CalmForward ==
  ASSUME FeedersInv, CalmInv, FeedersInv', Forward
  PROVE  CalmInv'
<1> DEFINE k == Len(pushes)
           next == Head(Top.todo)
           served == [Top EXCEPT !.todo = Tail(@), !.sent = Append(@, Head(Top.todo))]
           new == [feeder |-> next, transforming |-> TRUE, todo |-> connections[next],
                   found |-> connections[next], sent |-> <<>>]
           mid == [pushes EXCEPT ![k] = served]
<1>1. /\ pushes \in Seq(Push) /\ Graph(connections) /\ k \in Nat \ {0} /\ k \in 1..k
      /\ Top = pushes[k] /\ Top \in Push /\ pushes' \in Seq(Push) /\ Pushing
      /\ Top.todo # <<>> /\ ~Top.transforming
  <2>1. Pushing /\ Top.todo # <<>> /\ ~Top.transforming
    BY DEF Forward
  <2>2. /\ pushes \in Seq(Push) /\ Graph(connections) /\ k \in Nat \ {0}
        /\ pushes' \in Seq(Push)
    BY <2>1, StateTyped DEF FeedersInv, TypeOK
  <2> QED
    BY <2>1, <2>2, ElementOfSeq DEF Top
<1>2. /\ pushes' = Append(mid, new) /\ Len(mid) < MaxDepth /\ ~raising /\ ~raising'
      /\ visited' = Append(visited, next) /\ UNCHANGED <<connections, calm>>
  BY DEF Forward, Reach, WithTop
<1>3. /\ served.feeder = Top.feeder /\ served.sent = Append(Top.sent, next)
      /\ served.todo = Tail(Top.todo) /\ served.transforming = Top.transforming
  BY <1>1 DEF Push
<1>4. new.feeder = next /\ new.sent = <<>> /\ new.todo = connections[next]
  OBVIOUS
<1>s. served \in Push
  <2>1. Top.todo \in Seq(Feeder) /\ Top.sent \in Seq(Feeder)
    BY <1>1 DEF Push
  <2>2. Tail(Top.todo) \in Seq(Feeder) /\ Append(Top.sent, next) \in Seq(Feeder)
    BY <1>1, <2>1, HeadTailProperties, AppendProperties
  <2> QED
    BY <1>1, <2>2 DEF Push
<1> HIDE DEF new, served
<1>5. /\ mid \in Seq(Push) /\ Len(mid) = k /\ DOMAIN pushes = 1..k /\ mid[k] = served
      /\ \A i \in 1..(k - 1) : mid[i] = pushes[i]
  BY <1>1, <1>s, ExceptSeq, LenProperties
<1> HIDE DEF mid, k
<1>6. /\ Len(pushes') = k + 1 /\ pushes'[k] = served /\ pushes'[k + 1] = new
      /\ \A i \in 1..(k - 1) : pushes'[i] = pushes[i]
  <2>1. \A i \in 1..k : pushes'[i] = mid[i]
    BY <1>2, <1>5
  <2>2. Len(pushes') = k + 1 /\ pushes'[k + 1] = new
    BY <1>1, <1>2, <1>5
  <2> QED
    BY <1>1, <1>5, <2>1, <2>2
<1>7. calm => Undisturbed'
  <2>1. ASSUME calm PROVE Undisturbed
    BY <1>1, <1>2, <2>1 DEF CalmInv
  <2>2. ASSUME Path(connections, pushes)
        PROVE  /\ Path(connections, pushes')
               /\ FlattenSeq(Parts(connections, pushes'))
                    = Append(FlattenSeq(Parts(connections, pushes)), next)
    <3>a. PICK c, x : c = connections /\ x = next
      OBVIOUS
    <3>b. PICK ps \in Seq(Push), qs \in Seq(Push) : ps = pushes /\ qs = pushes'
      BY <1>1
    <3>1. c = connections /\ ps = pushes /\ qs = pushes' /\ x = next
      BY <3>a, <3>b
    <3>2. /\ Graph(c) /\ Path(c, ps) /\ k \in Nat \ {0}
          /\ Len(ps) = k /\ Len(qs) = k + 1 /\ k < MaxDepth
          /\ ps[k].todo # <<>> /\ x = Head(ps[k].todo)
          /\ \A i \in 1..(k - 1) : qs[i] = ps[i]
          /\ qs[k].feeder = ps[k].feeder
          /\ qs[k].sent = Append(ps[k].sent, x) /\ qs[k].todo = Tail(ps[k].todo)
          /\ qs[k + 1].feeder = x /\ qs[k + 1].sent = <<>> /\ qs[k + 1].todo = c[x]
      BY <1>1, <1>2, <1>3, <1>4, <1>5, <1>6, <2>2, <3>1 DEF k
    <3>4. Forwards(c, ps, qs, k, x)
      BY <3>2 DEF Forwards
    <3>3. /\ Path(c, qs)
          /\ FlattenSeq(Parts(c, qs)) = Append(FlattenSeq(Parts(c, ps)), x)
      BY ONLY <3>2, <3>4, ps \in Seq(Push), qs \in Seq(Push), PathForward
    <3> QED
      BY <3>1, <3>3
  <2> QED
    BY <1>2, <2>1, <2>2 DEF Undisturbed
<1>8. calm => \A i \in 1..k : ~pushes'[i].transforming
  <2>1. \A i \in 1..k : i = k \/ i \in 1..(k - 1)
    BY <1>1
  <2>2. calm => \A i \in 1..(k - 1) : ~pushes[i].transforming
    BY DEF CalmInv, k
  <2> QED
    BY <1>1, <1>3, <1>6, <2>1, <2>2
<1>9. Len(pushes') <= MaxDepth /\ Len(pushes') - 1 = k
  BY <1>1, <1>2, <1>5, <1>6, FeedersAssumption
<1> QED
  BY <1>2, <1>7, <1>8, <1>9 DEF CalmInv

LEMMA Shorter ==
  ASSUME FeedersInv, Pushing, Pop
  PROVE  /\ Len(pushes) \in Nat \ {0} /\ Len(pushes') = Len(pushes) - 1
         /\ \A i \in 1..(Len(pushes) - 1) : pushes'[i] = pushes[i]
<1>1. pushes \in Seq(Push) /\ Len(pushes) \in Nat \ {0}
  BY StateTyped
<1>l. PICK l \in Nat \ {0} : l = Len(pushes)
  BY <1>1
<1>2. PICK k \in 0..Len(pushes) : k = Len(pushes) - 1
  <2>1. l - 1 \in 0..l
    OBVIOUS
  <2> QED
    BY <1>l, <2>1
<1>3. pushes' = FirstOf(pushes, k)
  BY <1>2 DEF Pop, FirstOf
<1>4. /\ Len(FirstOf(pushes, k)) = k
      /\ \A i \in 1..k : FirstOf(pushes, k)[i] = pushes[i]
  BY <1>1, FirstOfTyped
<1> QED
  BY <1>1, <1>2, <1>3, <1>4

LEMMA CalmDelivered ==
  ASSUME FeedersInv, CalmInv, FeedersInv', Delivered
  PROVE  CalmInv'
<1>1. /\ Pushing /\ Pop /\ ~raising /\ ~raising' /\ Top.todo = <<>>
      /\ UNCHANGED <<connections, visited, calm>>
  BY DEF Delivered, history
<1>2. PICK k \in Nat : k = Len(pushes) - 1
  BY <1>1, Shorter
<1>3. /\ Len(pushes) = k + 1 /\ Len(pushes') = k
      /\ \A i \in 1..k : pushes'[i] = pushes[i]
  BY <1>1, <1>2, Shorter
<1>4. Len(pushes') <= MaxDepth
  BY <1>3, FeedersAssumption DEF CalmInv
<1>5. calm => \A i \in 1..(k - 1) : ~pushes'[i].transforming
  <2>1. \A i \in 1..(k - 1) : i \in 1..k
    OBVIOUS
  <2> QED
    BY <1>2, <1>3, <2>1 DEF CalmInv
<1>6. CASE k = 0
  <2>1. ~Pushing'
    BY <1>3, <1>6, StateTyped DEF Pushing
  <2> QED
    BY <1>1, <1>3, <1>4, <1>5, <2>1 DEF CalmInv
<1>7. CASE k # 0
  <2>1. ASSUME calm PROVE Undisturbed
    BY <1>1, <2>1 DEF CalmInv
  <2>2. ASSUME Path(connections, pushes)
        PROVE  /\ Path(connections, pushes')
               /\ FlattenSeq(Parts(connections, pushes'))
                    = FlattenSeq(Parts(connections, pushes))
    <3>a. PICK c : c = connections
      OBVIOUS
    <3>b. PICK ps \in Seq(Push), qs \in Seq(Push) : ps = pushes /\ qs = pushes'
      BY StateTyped DEF FeedersInv, TypeOK
    <3>1. c = connections /\ ps = pushes /\ qs = pushes'
      BY <3>a, <3>b
    <3>2. /\ Graph(c) /\ Path(c, ps) /\ k \in Nat \ {0}
          /\ Len(ps) = k + 1 /\ Len(qs) = k /\ ps[k + 1].todo = <<>>
          /\ \A i \in 1..k : qs[i] = ps[i]
      BY <1>1, <1>3, <1>7, <2>2, <3>1, StateTyped DEF Top
    <3>3. Path(c, qs) /\ FlattenSeq(Parts(c, qs)) = FlattenSeq(Parts(c, ps))
      BY ONLY <3>2, ps \in Seq(Push), qs \in Seq(Push), PathDelivered
    <3> QED
      BY <3>1, <3>3
  <2>3. calm => Undisturbed'
    BY <1>1, <2>1, <2>2 DEF Undisturbed
  <2> QED
    BY <1>1, <1>3, <1>4, <1>5, <2>3 DEF CalmInv
<1> QED
  BY <1>6, <1>7

LEMMA CalmAbort ==
  ASSUME FeedersInv, CalmInv, FeedersInv', Abort
  PROVE  CalmInv'
<1>1. /\ Pushing /\ Pop /\ raising /\ raising' /\ UNCHANGED <<connections, visited, calm>>
  BY DEF Abort, history
<1>2. PICK k \in Nat : k = Len(pushes) - 1
  BY <1>1, Shorter
<1>3. /\ Len(pushes) = k + 1 /\ Len(pushes') = k
      /\ \A i \in 1..k : pushes'[i] = pushes[i]
  BY <1>1, <1>2, Shorter
<1>4. Len(pushes') <= MaxDepth
  BY <1>3, FeedersAssumption DEF CalmInv
<1>5. calm => \A i \in 1..k : ~pushes'[i].transforming
  BY <1>2, <1>3 DEF CalmInv
<1>6. Pushing' => k \in 1..k /\ Top' = pushes'[k]
  <2>1. Pushing' => Len(pushes') \in Nat \ {0}
    BY EmptySeq DEF FeedersInv, TypeOK, Pushing
  <2> QED
    BY <1>3, <2>1 DEF Top
<1>7. \A i \in 1..(k - 1) : i \in 1..k
  OBVIOUS
<1> QED
  BY <1>1, <1>3, <1>4, <1>5, <1>6, <1>7 DEF CalmInv

LEMMA CalmInit == Init => CalmInv
BY FeedersAssumption DEF Init, CalmInv, Pushing

LEMMA CalmStep ==
  ASSUME FeedersInv, CalmInv, FeedersInv', [Next]_vars
  PROVE  CalmInv'
<1>1. ASSUME NEW f \in Feeder, Make(f) \/ Put(f) \/ PutUnknown(f)
      PROVE  CalmInv'
  BY <1>1, CalmChanged, CalmPut, CalmKept DEF Make, PutUnknown, Operation, Error
<1>2. ASSUME NEW src \in Feeder, NEW dest \in Feeder,
             Attach(src, dest) \/ \E output \in BOOLEAN : AttachFails(src, dest, output)
      PROVE  CalmInv'
  BY <1>2, CalmChanged, CalmKept DEF Attach, AttachFails, Operation, Error
<1>3. CASE TransformerFails
  BY <1>3, CalmKept DEF TransformerFails, Operation, Error
<1>4. CASE PushStep
  BY <1>4, CalmTransformed, CalmForward, CalmDelivered, CalmAbort DEF PushStep
<1>5. CASE Handle
  BY <1>5, CalmKept DEF Handle, history
<1>6. CASE UNCHANGED vars
  BY <1>6, CalmKept DEF vars
<1> QED
  BY <1>1, <1>2, <1>3, <1>4, <1>5, <1>6 DEF Next

(* A put that nothing disturbs reaches every attached feeder, once for each *)
(* path to it, depth first and in attach order (feeder_put_value).         *)
THEOREM DeliveredDepthFirst == Spec => DeliversDepthFirst
<1>1. Spec => []CalmInv
  <2>1. FeedersInv /\ FeedersInv' /\ CalmInv /\ [Next]_vars => CalmInv'
    BY CalmStep
  <2> QED
    BY <2>1, CalmInit, FeedersInvariant, PTL DEF Spec
<1>2. ASSUME FeedersInv, CalmInv, Delivered, Len(pushes) = 1, calm
      PROVE  visited = DepthFirst[MaxDepth][Top.feeder]
  <2>1. Undisturbed /\ Pushing /\ Top.todo = <<>> /\ Top = pushes[1]
    BY <1>2 DEF CalmInv, Delivered, Top
  <2>a. PICK c, f : c = connections /\ f = Top.feeder
    OBVIOUS
  <2>b. PICK ps \in Seq(Push) : ps = pushes
    BY <1>2, StateTyped
  <2>2. c = connections /\ ps = pushes /\ f = Top.feeder
    BY <2>a, <2>b
  <2>3. Graph(c) /\ Path(c, ps) /\ Len(ps) = 1 /\ 1 \in 1..Len(ps) /\ 1 \in 1..1
        /\ ps[1].feeder = f /\ ps[1].todo = <<>>
    <3>1. Graph(c) /\ Path(c, ps) /\ Len(ps) = 1
      BY <1>2, <2>1, <2>2, StateTyped DEF Undisturbed
    <3>2. 1 \in 1..1 /\ ps[1].feeder = f /\ ps[1].todo = <<>>
      BY <2>1, <2>2
    <3> QED
      BY <3>1, <3>2
  <2>4. f \in DOMAIN c /\ Len(ps[1].sent) = Len(c[f])
    BY ONLY <2>3, ps \in Seq(Push), PathServed
  <2>5. PICK n \in 1..MaxDepth : n = MaxDepth /\ MaxDepth - 1 + 1 = n
    BY <2>3, FeedersAssumption DEF Path
  <2>6. Part(c, ps, 1) = Walked(c, n, f, Len(c[f]))
    BY <2>3, <2>4, <2>5 DEF Part
  <2>7. Part(c, ps, 1) = Search(c)[n][f]
    BY ONLY <2>3, <2>4, <2>6, n \in 1..MaxDepth, WalkedSteps
  <2>8. /\ Parts(c, ps) \in Seq(Seq(DOMAIN c)) /\ Len(Parts(c, ps)) = 1
        /\ Parts(c, ps)[1] = Part(c, ps, 1) /\ Part(c, ps, 1) \in Seq(DOMAIN c)
    BY ONLY <2>3, ps \in Seq(Push), PartsTyped
  <2>9. FlattenSeq(Parts(c, ps)) = Part(c, ps, 1)
    <3>1. PICK S, tt, s : /\ tt = Parts(c, ps) /\ s = Part(c, ps, 1)
                          /\ tt \in Seq(Seq(S)) /\ s \in Seq(S)
      BY <2>8
    <3>2. <<>> \in Seq(Seq(S)) /\ Len(<<>>) = 0 /\ Len(tt) = 0 + 1 /\ tt[0 + 1] = s
      BY <2>8, <3>1
    <3>3. \A i \in 1..Len(<<>>) : tt[i] = <<>>[i]
      BY <3>2
    <3>4. FlattenSeq(tt) = FlattenSeq(<<>>) \o s
      BY ONLY <3>1, <3>2, <3>3, FlattenSeqMore
    <3> QED
      BY <3>1, <3>4, FlattenSeqEmpty, ConcatEmptySeq
  <2> QED
    BY <2>1, <2>2, <2>5, <2>7, <2>9, SearchIsDepthFirst DEF Undisturbed
<1>3. FeedersInv /\ CalmInv /\ [Next]_vars
        => [Delivered /\ Len(pushes) = 1 /\ calm
              => visited = DepthFirst[MaxDepth][Top.feeder]]_vars
  BY <1>2
<1> QED
  BY <1>1, <1>3, FeedersInvariant, PTL DEF Spec, DeliversDepthFirst

=============================================================================
