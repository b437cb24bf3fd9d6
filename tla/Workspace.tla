------------------------------ MODULE Workspace ------------------------------
(***************************************************************************)
(* A session at work on one value: the statements of a user who applies    *)
(* one primitive after the other to the last result.  What one primitive   *)
(* leaves behind, its storage layout, its labels, its empty axes, is what  *)
(* the next one meets.  A statement whose primitive reports an error has   *)
(* no step; one that indexes out of a Vec ends in Trap.                    *)
(***************************************************************************)
EXTENDS Higher, KapMap, Codes, Encoder, ArrayLaws

CONSTANTS MaxCells,       \* of an array
          MaxRank,
          MaxNum,         \* largest magnitude of a number
          MaxChain        \* statements after a literal
ASSUME WorkspaceAssumption == {MaxCells, MaxRank, MaxDepth, MaxNum, MaxChain} \subseteq Nat

VARIABLES chain,          \* statements since the literal it started from
          regular         \* it was made by Yields from a flat value
wsVars == <<it, chain, regular>>

V3  == Labelled(<<3>>, <<Num(1), Num(0), Num(2)>>, <<<<1, 2, 3>>>>)
M22 == Labelled(<<2, 2>>, <<Num(2), Num(0), Num(1), Num(1)>>, <<<<1, 2>>, <<3, 4>>>>)
Seeds == {Num(2), Chr(1), Nil, Str(<<2, 1, 2>>), V3, M22, NumVec(<<1, 1, 0, 2>>),
          Arr(<<2, 0>>, <<>>), VecOf(<<NumVec(<<1, 0>>), NumVec(<<2, 1>>)>>),
          VecOf(<<Num(1), NumVec(<<0, 2>>)>>), BoxOf(NumVec(<<0, 1>>)),
          VecOf(<<Num(1), Num(0), Num(2), Chr(2)>>),
          MapOf(<<<<Num(1), Num(2)>>, <<Chr(1), Num(0)>>>>)}
Operands == {Num(1), Null, NumVec(<<0, 1>>), Str(<<1>>)}

RECURSIVE Bounded(_, _)
Bounded(v, depth) ==
  CASE IsNum(v) -> AbsOf(v.n) <= MaxNum
    [] v.tag = "char" -> v.c \in 0 .. MaxNum
    [] IsStr(v) -> Len(v.chars) <= MaxCells /\ ToSet(v.chars) \subseteq 0 .. MaxNum
    [] v.tag \in {"array", "list"} ->
         /\ depth > 0
         /\ Len(v.data) <= MaxCells
         /\ IsArr(v) => Len(v.dims) <= MaxRank /\ Count(v.dims) <= MaxCells
         /\ \A i \in DOMAIN v.data : Bounded(v.data[i], depth - 1)
    [] v.tag = "map" -> /\ depth = MaxDepth
                        /\ Len(v.pairs) <= 3
                        /\ \A i \in DOMAIN v.pairs : Bounded(v.pairs[i][1], 0) /\ Bounded(v.pairs[i][2], 1)
    [] OTHER -> TRUE
RECURSIVE DeepFlat(_)
DeepFlat(v) == v.tag \in {"array", "list"} =>
                 IsFlat(v) /\ \A i \in DOMAIN v.data : DeepFlat(v.data[i])

(* A statement with one of the results S.  What an ill-stored array turns  *)
(* into is not followed.                                                   *)
Statement(S, usual) ==
  /\ chain < MaxChain
  /\ \E r \in S :
       /\ r.tag # "err"
       /\ Bounded(r, MaxDepth)
       /\ it' = r
       /\ chain' = IF r.tag # "trap" /\ WellStored(r) /\ LabelsFit(r) THEN chain + 1 ELSE MaxChain
       /\ regular' = (usual /\ DeepFlat(it))
Yields(S) == Statement(S, TRUE)
Gives(r) == Yields({r})
Unless(case, S) == Statement(S, ~case)

-----------------------------------------------------------------------------
(* The statements, by the kind of argument they take.                      *)

Axes == {0, 1, LastAxis}
(* Where a primitive leaves an array whose storage is neither its cells    *)
(* nor its rows, or indexes out of it.                                     *)
EmptyRows(v) == IsArr(v) /\ Len(v.dims) > 1 /\ Count(v.dims) = 0
Simple(x) == x.tag \in {"num", "char", "nil"}
Mixed(v) == IsArr(v) /\ \E x, y \in ToSet(v.data) : IsArr(x) # IsArr(y) \/ Simple(x) # Simple(y)
RECURSIVE HasChar(_)
HasChar(v) == \/ v.tag \in {"char", "str"}
              \/ v.tag \in {"array", "list"} /\ \E i \in DOMAIN v.data : HasChar(v.data[i])
Matrix == IsArr(it) /\ Len(it.dims) = 2
Listed == IsArr(it) \/ IsStr(it)
Numeric == IsNum(it) \/ (IsArr(it) /\ it.data # <<>> /\ \A i \in DOMAIN it.data : IsNum(it.data[i]))

Literal == /\ chain > 0
           /\ it' \in Seeds
           /\ chain' = 0
           /\ regular' = TRUE
Measure == Yields({Shape(it), Tally(it), First(it), Num(DepthOf(it)), TakeFirst(it)})
Turn == \/ \E k \in Axes : Gives(ReverseAxis(it, k))
        \/ \E k \in Axes, n \in {-1, 1} : Gives(RotateAxis(Num(n), it, k))
        \/ Matrix /\ Gives(RotateAxis(NumVec(<<0, 1>>), it, 0))
        \/ Gives(Transpose(<<1>>, it))
        \/ Unless(RankOf(it) = 1 \/ EmptyRows(it), {Transpose(<<0, 0>>, it)})
        \/ Gives(TransposeAll(it))
Cut == \/ \E c \in {<<0>>, <<1>>, <<-2>>, <<2, 1>>, <<3>>, <<Keep, -1>>} :
            Yields({Take(c, it), Drop(c, it)})
       \/ Gives(DropFirst(it))
       \/ \E c \in {<<-2>>, <<1, 2>>} : Gives(TakeFill(c, it, Chr(1)))
Fit == \E spec \in {<<>>, <<0>>, <<3>>, <<2, 2>>, <<1, 2>>, <<2, 1, 2>>, <<MatchDim, 2>>, <<FillDim, 2>>,
                    <<TruncDim, 2>>, <<3, CycleDim>>} : Gives(Reshape(spec, it))
Spread == \/ Unless(it = Null \/ EmptyRows(it), {Table(it)})
          \/ Yields({Ravel(it), Enclose(it), ToList(it), FromList(it),
                       CollapseValue(it)})
          \/ Unless(LabelsOf(it) # <<>>, {RankUp(it), RankDown(it)})
          \/ \E limit \in {Keep, 0, 1} : Gives(Enlist(it, limit))
Count1 == Numeric /\ Gives(Iota(NumbersOf(FlatElements(it))))
Join == \E b \in Operands \cup {it} :
          \/ \E table \in BOOLEAN : Yields({Catenate(it, b, table), Catenate(b, it, table)})
          \/ \E k \in {0, 1} : Yields({CatenateAxis(it, b, k), Laminate(b, it, k)})
          \/ Yields({Pair(it, b), RangeOf(it, b)})
Arrange == \/ \E up \in BOOLEAN : Gives(Grade(it, up))
           \/ \E up \in BOOLEAN, k \in {1, 2} : Gives(SortArray(it, k, up))
           \/ Yields({Where(it), WhereInverse(it), Classify(it)})
           \/ Unless(RankOf(it) > 1, {UniqueMask(it)})
Combine == \E b \in Operands \cup {NumVec(<<2, 1, 0>>)} :
             \/ Yields({Unique(it), Union(it, b), Intersection(it, b), Less(it, b)})
             \/ Yields({IndexOf(it, b), Membership(b, it), Find(b, it), Interval(it, b)})
Places == {Num(1), Num(-1), NumVec(<<1, 0>>), VecOf(<<Num(0), Null>>), VecOf(<<Null, NumVec(<<1, 1>>)>>),
           VecOf(<<NumVec(<<2, 0>>)>>)}
Choose1 == /\ Listed
           /\ \E sel \in Places :
                \/ Unless(ElementCount(it) = 0, {IndexSelect(it, sel)})
                \/ Yields({Squad(sel, it), FromIndex(sel, it), PickApl(sel, it),
                             Pick(it, sel), PickInto(sel, it)})
                \/ \E val \in {Num(0), NumVec(<<2, 0>>)} : Gives(IndexAssign(it, sel, val))
                \/ Gives(SquadAxis(<<sel>>, <<0>>, it))
Select1 == /\ Listed
           /\ \E c \in {<<2>>, <<1, 0>>, <<0, 1, 1>>} :
                \/ \E last \in BOOLEAN : Gives(SelectElements(c, it, last))
                \/ \E k \in {0, 1} : Gives(SelectAxis(NumVec(c), it, k))
                \/ \E k \in {1, 2} : Unless(2 \in ToSet(c), {ExpandAxis(c, it, k)})
Split == /\ IsArr(it)
         /\ \/ \E a \in {NumVec(<<1, 1>>), NumVec(<<0, 1, 2>>), NumVec(<<1, 0, 1, 1>>)} :
                 Unless(EmptyRows(it), {PartitionedEnclose(a, it), PartitionedSubset(a, it, LastAxis)})
            \/ \E a \in {NumVec(<<1, 1>>), NumVec(<<0, 2, 1>>)} : Unless(IsBox(it), {Group(a, it)})
            \/ \E axes \in {<<0>>, <<1>>, <<1, 0>>} : Gives(EncloseAxes(axes, it))
            \/ \E k \in {0, 1} : Gives(EncloseAxis(k, it))
Open == \/ Unless(Mixed(it), {Disclose(it)})
        \/ \E axes \in {<<0>>, <<1>>} : IsArr(it) /\ Gives(DiscloseAxis(axes, Num(0), it))
Compute == \E b \in Operands \cup {Num(-1), it} :
             \/ Unless(HasChar(it) \/ HasChar(b), {Plus(it, b), Minus(b, it), Num2("*", it, b), MinMax("max", it, b)})
             \/ \E sym \in {"=", "<"} : Gives(Compare(sym, it, b))
             \/ \E sym \in {"and", "nor"} : Gives(Bool2(sym, it, b))
             \/ \E sym \in {"and", "ne", "rotate"} : Gives(Bitwise2(sym, b, it))
             \/ \E k \in {0, 1} : IsArr(it) /\ Unless(HasChar(it) \/ HasChar(b), {Num2Axis("+", b, it, k)})
             \/ Yields({CmpValues(it, b), Match(it, b)})
Compute1 == \/ \E sym \in {"-", "abs"} : Gives(Num1(sym, it))
            \/ Numeric /\ \E sym \in {"not", "length", "count"} : Gives(Bitwise1(sym, it))
            \/ Numeric /\ Gives(CaseSelect(it, VecOf(<<Num(2), Chr(1)>>)))
R22 == Arr(<<2, 2>>, <<Num(2), Num(3), Num(2), Num(2)>>)
Radix == Numeric /\ \/ \E a \in {Num(2), NumVec(<<2, 3>>)} :
                         Yields({Encode(a, it), EncodeBigint(a, it), Decode(a, it)})
                    \/ Unless(ElementCount(it) # 2, {Encode(R22, it)})
Random == IsNum(it) /\ \E a \in {1, 2} : Yields(Deal(a, it.n))
Fold == \/ \E k \in {NoAxis, 0, 1} : Unless(EmptyRows(it) \/ HasChar(it), {Reduce("+", it, k), Reduce("-", it, k)})
        \/ \E k \in {NoAxis, 0} : Unless(HasChar(it), {Scan("-", it, k)})
        \/ \E n \in {1, 2} : Unless(HasChar(it), {ReduceWindow("-", n, it)})
Map1 == \/ Gives(Each("shape", it))
        \/ \E b \in Operands \ {Null} : Unless(HasChar(it) \/ HasChar(b), {Each2("+", b, it)})
        \/ \E k \in {0, 1, -1} : Unless(Mixed(it), {RankApply("enclose", k, it)})
        \/ Unless(Mixed(it), {RankApply2("-", 0, 1, it, NumVec(<<0, 1>>))})
        \/ \E n \in {0, 2} : Gives(PowerTimes("increment", n, it))
        \/ Gives(PowerUntil("takeFirst", "match", it, 3))
Cross == \/ \E b \in Operands \ {Null} :
              Unless(HasChar(it) \/ HasChar(b), {Outer("-", it, b), OuterProduct("-", b, it)})
         \/ Numeric /\ \E b \in {NumVec(<<0, 1>>), M22, it} : Gives(Inner("+", "-", it, b))
         \/ Listed /\ Gives(Key("tally", it, it))
Train == \/ \E t \in {<<"shape", "tally", <<it>>>>, <<"pair", "pair", <<Num(1), it>>>>} :
              Yields({Fork(t[1], "pair", t[2], t[3]), Atop("tally", t[1], t[3])})
         \/ Yields({Hook("pair", "tally", Num(1), it), BackHook("tally", "pair", Num(1), it),
                     BoundTrain("+", Num(1), it)})
Under == /\ IsArr(it)
         /\ \E f \in {"increment", "twiceFirst"}, take \in BOOLEAN, c \in {1, -1}, k \in {0, 1} :
              Gives(UnderWindow(f, take, c, it, k))
Title == \E k \in {0, 1} : IsArr(it) /\ Gives(SetLabels(<<5, 6>>, it, k))
KeyValues == {VecOf(<<Num(1), Num(0)>>), VecOf(<<Num(0), Chr(1), Num(1), Num(1)>>)}
Maps == \/ \E kv \in KeyValues : Yields({MapWith(it, kv), MapAppendTo(it, kv)})
        \/ Gives(MapNew(it))
        \/ \E k \in {Num(1), Chr(1), NumVec(<<1, 0>>)} :
             \/ Yields({MapRemove(it, k), MapGet(it, k)})
             \/ IsMap(it) /\ Gives(MapIndex(it, k))
        \/ IsMap(it) /\ Yields({ToArray(it), KeysArray(it)})
Ship == it.tag # "map" /\ Gives(DecodeValue(EncodeValue(it)))

Init == /\ it \in Seeds
        /\ chain = 0
        /\ regular = TRUE
Next == \/ Literal \/ Measure \/ Turn \/ Cut \/ Fit \/ Spread \/ Count1 \/ Join \/ Arrange \/ Combine
        \/ Choose1 \/ Select1 \/ Split \/ Open \/ Compute \/ Compute1 \/ Radix \/ Random \/ Fold \/ Map1
        \/ Cross \/ Train \/ Under \/ Title \/ Maps \/ Ship
Spec == Init /\ [][Next]_wsVars

-----------------------------------------------------------------------------
(* What the statements promise.  The laws are about the value a session    *)
(* has reached; a law about cells is about the logical ones.               *)

(* An array of rank 2 or more whose cells are arrays is left out of the    *)
(* laws: its cells pass for rows.                                          *)
RECURSIVE ByRows(_)
ByRows(v) == \/ \A i \in DOMAIN v.data : ~IsArr(v.data[i])
             \/ Len(v.dims) > 1 /\ \A i \in DOMAIN v.data : IsRow(v.data[i], Tail(v.dims)) /\ ByRows(v.data[i])
Sound == /\ IsArr(it) /\ it.dims # <<>>
         /\ WellStored(it) /\ LabelsFit(it)
         /\ Len(it.dims) > 1 => ByRows(it)
Flat1 == Sound /\ \A i \in DOMAIN it.data : ~IsArr(it.data[i])        \* stored as its cells
Numbers1 == \A i \in DOMAIN it.data : IsNum(it.data[i])
Atoms == \A i \in DOMAIN it.data : it.data[i].tag \in {"num", "char"}
Cells(v) == LogicalCells(v)
Titleless(v) == \A k \in DOMAIN v.labels : v.labels[k] = <<>>
Plain(v) == IF IsArr(v) /\ Titleless(v) THEN NoLabels(Abstract(v)) ELSE Abstract(v)
SameCells(a, b) == Plain(a) = Plain(b)

(* A primitive given a value stored flat leaves a value whose storage is   *)
(* its cells or its rows and whose labels fit its axes, and indexes        *)
(* nothing out of range: otherwise the next primitive reads other cells    *)
(* than the ones its dimensions name.  The cases the code gets wrong are   *)
(* the ones Unless names.                                                  *)
StorageSound == regular => it.tag # "trap" /\ WellStored(it) /\ LabelsFit(it)

(* The primitives that go through the logical cells do not see whether the *)
(* array is stored as its cells or as its rows.                            *)
LayoutBlind ==
  Sound /\ RankOf(it) > 1 =>
    LET w == Abstract(it)
        same(Op(_)) == SameCells(Op(it), Op(w))
    IN  /\ \A c \in {<<1>>, <<-1>>, <<3>>} : /\ same(LAMBDA v : Take(c, v))
                                             /\ same(LAMBDA v : Drop(c, v))
        /\ same(Ravel) /\ same(Table) /\ same(TakeFirst)
        /\ Count(it.dims) > 0 =>
             /\ same(LAMBDA v : Catenate(v, v, TRUE))
             /\ same(LAMBDA v : CatenateAxis(Num(1), v, 0))
             /\ same(LAMBDA v : Each("tally", v))
             /\ same(LAMBDA v : Reduce("pair", v, 0))
             /\ same(LAMBDA v : Scan("pair", v, NoAxis))
             /\ same(LAMBDA v : Inner("pair", "pair", v, NumVec([i \in 1 .. it.dims[Len(it.dims)] |-> i])))
             /\ (\A i \in DOMAIN Cells(it) : IsNum(Cells(it)[i])) => same(LAMBDA v : Num2("-", v, w))

(* Taking and dropping split an array in two: joined again along the axis  *)
(* they give it back, titles included; a negative count takes from the     *)
(* end; and a count beyond the axis adds fills after the cells.            *)
TakeDropSplit ==
  Sound => LET n == it.dims[1] IN
    /\ \A m \in 0 .. n :
         /\ SameCells(CatenateAxis(Take(<<m>>, it), Drop(<<m>>, it), 0), it)
         /\ Take(<<-m>>, it) = Drop(<<n - m>>, it)
         /\ Drop(<<-m>>, it) = Take(<<n - m>>, it)
    /\ LET more == Take(<<n + 1>>, it)
           less == Take(<<-(n + 1)>>, it)
       IN  /\ SameCells(Take(<<n>>, more), Take(<<n>>, it))
           /\ SameCells(Drop(<<1>>, less), it)
           /\ \A c \in ToSet(Cells(Drop(<<n>>, more))) \cup ToSet(Cells(Take(<<1>>, less))) : c = Num(0)

(* A cell keeps the titles of its place when the array is reversed, cut,   *)
(* joined with itself, indexed, selected from or (rank 2) transposed.      *)
Titled(v) ==
  LET cells == Cells(v)
      title(k, i) == LET l == AxisLabels(v.labels, k) IN IF l = <<>> THEN 0 ELSE l[i + 1]
  IN  {<<[k \in DOMAIN v.dims |-> title(k, Coords(v.dims, p)[k])], cells[p + 1]>> :
          p \in 0 .. (Count(v.dims) - 1)}
LabelsFollow ==
  Flat1 /\ it.labels # <<>> /\ Count(it.dims) > 0 => \A k \in 0 .. (Len(it.dims) - 1) :
    LET back == ReverseAxis(it, k)
        places == Titled(it)
        bits == [i \in 1 .. it.dims[1] |-> i % 2]
        one(sel) == VecOf(IF RankOf(it) = 1 THEN <<sel>> ELSE <<sel, Null>>)
    IN  /\ Titled(back) = places
        /\ Titled(CatenateAxis(it, back, k)) = places
        /\ \A n \in 0 .. it.dims[1] : /\ Titled(Take(<<n>>, it)) \subseteq places
                                      /\ Titled(Drop(<<-n>>, it)) \subseteq places
        /\ Titled(SelectElements(bits, it, FALSE)) \subseteq places
        /\ it.dims[1] > 1 /\ (RankOf(it) = 1 \/ \A j \in DOMAIN it.dims : it.dims[j] > 1) =>
             Titled(IndexSelect(it, one(NumVec(<<1, 0>>)))) \subseteq places
        /\ RankOf(it) = 2 =>
             Titled(TransposeAll(it)) = {<<Reverse(t[1]), t[2]>> : t \in places}

(* Grade is a stable sorting permutation of the major cells, in both       *)
(* directions, sort follows it, and interval counts the bounds of a sorted *)
(* vector that do not exceed a value.                                      *)
GradeSorts ==
  Flat1 /\ it.data # <<>> => \A up \in BOOLEAN :
    LET n == it.dims[1]
        size == Len(it.data) \div n
        cell(i) == [j \in 1 .. size |-> it.data[i * size + j]]
        order == [i \in 1 .. n |-> Grade(it, up).data[i].n]
        differ(i, j) == {k \in 1 .. size : TotalCmp(cell(i)[k], cell(j)[k]) # 0}
        precedes(i, j) == /\ differ(i, j) # {}
                          /\ LET k == Min(differ(i, j)) IN
                             TotalCmp(cell(i)[k], cell(j)[k]) = IF up THEN -1 ELSE 1
    IN  /\ ToSet(order) = 0 .. (n - 1)
        /\ \A i, j \in 1 .. n : i < j =>
             \/ precedes(order[i], order[j])
             \/ differ(order[i], order[j]) = {} /\ order[i] < order[j]
        /\ SortArray(it, 1, up).data = FlattenSeq([i \in 1 .. n |-> cell(order[i])])
        /\ RankOf(it) = 1 /\ up /\ Interval(it, Num(0)) # Err =>
             \A b \in Operands \ {Null} : Dims(b) = <<>> =>
               Interval(it, b) = Num(Cardinality({i \in 1 .. n : TotalCmp(it.data[i], b) <= 0}))

(* Membership, index-of, find, unique, its mask, the classes, the sets and *)
(* key agree on which cells of a vector are the same.                      *)
SearchAgrees ==
  Flat1 /\ RankOf(it) = 1 /\ it.data # <<>> /\ Atoms =>
    LET s == it.data
        n == Len(s)
        u == Unique(it).data
        class(i) == Classify(it).data[i].n
        mask == NumbersOf(UniqueMask(it).data)
        members(v) == IF v = Null THEN {} ELSE ToSet(v.data)
    IN  /\ \A x \in ToSet(s) \cup {Num(5), Chr(5)} :
             /\ (IndexOf(it, x).n < n) <=> (x \in ToSet(s))
             /\ Membership(x, it) = Bit(IndexOf(it, x).n < n)
             /\ x \in ToSet(s) => s[IndexOf(it, x).n + 1] = x /\ x \notin ToSet(SubSeq(s, 1, IndexOf(it, x).n))
             /\ ~IsStr(x) => \A i \in 1 .. n : Find(VecOf(<<x>>), it).data[i] = Bit(s[i] = x)
        /\ ToSet(u) = ToSet(s) /\ IsInjective(u)
        /\ SelectElements(mask, it, FALSE).data = u
        /\ \A i \in 1 .. n : u[class(i) + 1] = s[i]
        /\ \A b \in {Null, NumVec(<<0, 1>>), VecOf(<<Chr(2)>>)} :
             /\ members(Intersection(it, b)) \cup members(Less(it, b)) = ToSet(s)
             /\ members(Intersection(it, b)) \cap members(Less(it, b)) = {}
             /\ members(Union(it, b)) = ToSet(s) \cup members(b)
        /\ Key("tally", it, it).data = [g \in DOMAIN u |-> VecOf(<<u[g], Num(Cardinality({i \in 1 .. n : s[i] = u[g]}))>>)]
        /\ Group(Classify(it), it).data = [g \in DOMAIN u |-> VecOf(SelectSeq(s, LAMBDA x : x = u[g]))]
        /\ Numbers1 /\ Where(it) \notin {Err, Null} =>
             Take(<<n>>, WhereInverse(Where(it))) = NoLabels(it)

(* An indexed assignment changes the cells its index selects, all of them  *)
(* and no other, and what is assigned is what the index then selects.      *)
AssignSelects ==
  LET numbered == Arr(it.dims, [i \in DOMAIN it.data |-> Num(i)])
      distinct(s) == [s EXCEPT !.data = [i \in DOMAIN s.data |-> Num(10 + i)]]
      places(s) == IF IsArr(s) THEN {s.data[i].n : i \in DOMAIN s.data} ELSE {s.n}
      reads(sel, v) == IndexSelect(IndexAssign(it, sel, v), sel) = v
      exact(sel, chosen, r) ==
        r # Err => /\ r.dims = it.dims
                   /\ \A i \in DOMAIN it.data : r.data[i] = IF i \in places(chosen) THEN Num(7) ELSE it.data[i]
                   /\ IsArr(chosen) /\ IsInjective(chosen.data) => reads(sel, distinct(chosen))
  IN  Flat1 /\ it.data # <<>> => \A sel \in Places \cup {VecOf(<<NumVec(<<1, 0>>), Null>>)} :
        exact(sel, IndexSelect(numbered, sel), IndexAssign(it, sel, Num(7)))

(* A function under a take or a drop changes the window and no cell        *)
(* outside it, and one that grows the window moves the cells after it.     *)
UnderWindowExact ==
  Flat1 /\ it.data # <<>> /\ Numbers1 => \A c \in {1, -1} :
    LET v == NoLabels(it)
        one == Abstract(UnderWindow("wrapCells", TRUE, c, v, 0))
        rest == Abstract(UnderWindow("wrapCells", FALSE, c, v, 0))
        twice == UnderWindow("twiceFirst", TRUE, c, v, 0)
        front == Take(<<c>>, v)
        back == Drop(<<c>>, v)
    IN  AbsOf(c) <= v.dims[1] =>
          /\ \A i \in DOMAIN v.data :
               /\ {one.data[i], rest.data[i]} = {v.data[i], VecOf(<<v.data[i]>>)}
               /\ (one.data[i] # v.data[i]) <=> (Coords(v.dims, i - 1)[1] \in
                    IF c > 0 THEN 0 .. (c - 1) ELSE (v.dims[1] + c) .. (v.dims[1] - 1))
          /\ Cells(twice) = Cells(IF c > 0 THEN CatenateAxis(CatenateAxis(front, front, 0), back, 0)
                                  ELSE CatenateAxis(back, CatenateAxis(front, front, 0), 0))

(* A reduction is the last prefix of the scan of its lane, along the last  *)
(* axis and, transposed, along the first; a window reduces its own cells;  *)
(* the inner product and the rank operator are what they say of the rows   *)
(* and the columns.                                                        *)
FoldLaws ==
  Flat1 /\ Numbers1 /\ RankOf(it) <= 2 /\ it.data # <<>> =>
    LET d == it.dims
        n == d[Len(d)]
        lane(i) == [j \in 1 .. n |-> it.data[i * n + j].n]
        folded(s) == s[1] - FoldLeft(LAMBDA a, b : a + b, 0, Tail(s))
        last == Reduce("-", it, NoAxis)
        scan == Cells(Scan("-", it, NoAxis))
        dot(s, t) == FoldLeft(LAMBDA a, j : a + s[j] * t[j], 0, [j \in 1 .. n |-> j])
    IN  /\ FlatElements(last) = [i \in 1 .. (Len(it.data) \div n) |-> Num(folded(lane(i - 1)))]
        /\ \A p \in DOMAIN scan : scan[p] = Num(folded(SubSeq(lane((p - 1) \div n), 1, ((p - 1) % n) + 1)))
        /\ RankOf(it) = 2 =>
             /\ Reduce("-", TransposeAll(it), 0) = last
             /\ Cells(Scan("-", TransposeAll(it), 0)) = Cells(TransposeAll(Scan("-", it, 1)))
             /\ RankApply("enclose", 1, it).data = [i \in 1 .. d[1] |-> NumVec(lane(i - 1))]
             /\ RankApply("takeFirst", 1, it).data = [i \in 1 .. d[1] |-> Num(lane(i - 1)[1])]
             /\ Cells(Inner("+", "*", it, TransposeAll(it))) =
                  [p \in 1 .. (d[1] * d[1]) |-> Num(dot(lane((p - 1) \div d[1]), lane((p - 1) % d[1])))]
        /\ RankOf(it) = 1 =>
             /\ \A w \in 1 .. n : Cells(ReduceWindow("-", w, it)) =
                  [i \in 1 .. (n - w + 1) |-> Num(folded(SubSeq(lane(0), i, i + w - 1)))]
             /\ Inner("+", "*", it, it) = Num(dot(lane(0), lane(0)))

(* What can be undone: boxes, partitions, digits in a radix and the binary *)
(* encoding (integers from -128 to -5 come back unsigned, and are left     *)
(* out).                                                                   *)
Scaled(k) == Arr(it.dims, [i \in DOMAIN it.data |-> Num(it.data[i].n * k)])
RoundTrips ==
  Flat1 =>
    /\ RankOf(it) = 1 /\ it.data # <<>> /\ Atoms =>
         LET parts == PartitionedEnclose(NumVec([i \in DOMAIN it.data |-> i % 2]), it)
         IN  FlattenSeq([i \in DOMAIN parts.data |-> Cells(parts.data[i])]) = it.data
    /\ it.data # <<>> /\ Atoms /\ RankOf(it) = 2 => Cells(Disclose(EncloseAxis(1, it))) = it.data
    /\ Numbers1 /\ it.data # <<>> => \A k \in {1, 3, 5} :
         LET x == Scaled(k)
             radices == NumVec(<<4, 3>>)
         IN  /\ (\A i \in DOMAIN x.data : x.data[i].n >= 0) =>
                  \A r \in {2, 3} : Cells(Decode(Num(r), Encode(Num(r), x))) = FlatElements(x)
             /\ FlatElements(Decode(radices, Encode(radices, x))) = [i \in DOMAIN x.data |-> Num(x.data[i].n % 12)]
             /\ EncodeBigint(radices, x) = Encode(radices, x)
    /\ AllEncodable(it) => SameValue(DecodeValue(EncodeValue(it)), it)
    /\ Numbers1 => \A k \in {100, 4096, 524288} :
         (\A i \in DOMAIN it.data : it.data[i].n * k \notin -128 .. -5) =>
           DecodeValue(EncodeValue(Scaled(k))) = Scaled(k)
=============================================================================
