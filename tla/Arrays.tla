------------------------------- MODULE Arrays -------------------------------
(***************************************************************************)
(* The two layouts arrays are kept in.  The storage children of a          *)
(* well-formed array are either its cells in row-major order (flat         *)
(* storage) or, above rank 1, its rows, each an array of the remaining     *)
(* dimensions (nested storage): both are built by the primitives, and a    *)
(* primitive sees one or the other according to the view it takes,         *)
(* Elements (KapArray::elements) or LogicalCells (Engine::logical_cells).  *)
(***************************************************************************)
EXTENDS AplValues

IsRow(k, trailing) == IsArr(k) /\ k.dims = trailing

AreRows(kids, d) == Len(kids) = d[1] /\ \A i \in DOMAIN kids : IsRow(kids[i], Tail(d))
Chunks(s, n) == [i \in 1 .. ((Len(s) + n - 1) \div n) |->
                   SubSeq(s, (i - 1) * n + 1, Least(i * n, Len(s)))]

(* The rows of a node, each walked in turn; cells that are no rows are cut *)
(* into rows of the trailing dimensions, and a cell alone in its row is    *)
(* walked too.                                                             *)
RECURSIVE Walk(_, _)
Walk(node, d) ==
  LET walked(chunk, rest) == IF Len(rest) <= 1 \/ Len(chunk) # 1 THEN chunk ELSE Walk(chunk[1], rest)
      cut(chunks, rest) == [i \in 1 .. Least(d[1], Len(chunks)) |-> walked(chunks[i], rest)]
  IN  IF Len(d) <= 1 \/ ~IsArr(node) THEN Elements(node)
      ELSE FlattenSeq(IF AreRows(node.data, d)
                      THEN [i \in DOMAIN node.data |-> Walk(node.data[i], Tail(d))]
                      ELSE cut(Chunks(node.data, Most(1, Count(Tail(d)))), Tail(d)))

(* The cells by logical position; a walk that comes out short of the       *)
(* dimensions falls back to the storage children.                          *)
LogicalCells(v) ==
  LET complete(out, storage) == IF Len(out) # ElementCount(v) /\ storage # <<>> THEN storage ELSE out
  IN  complete(Walk(v, Dims(v)), IF IsArr(v) \/ IsStr(v) THEN Elements(v) ELSE <<>>)

(* Rank 1 is plain; above it the rows are built as arrays of their own.    *)
RECURSIVE BuildNested(_, _)
BuildNested(cells, d) ==
  LET inner == Count(Tail(d))
      rows == [i \in 1 .. d[1] |->
                 BuildNested(SubSeq(cells, (i - 1) * inner + 1, i * inner), Tail(d))]
  IN  IF Len(d) <= 1 THEN Arr(d, cells)
      ELSE IF Len(cells) < Count(d) THEN Trap
      ELSE Arr(d, rows)

(* Storage is well formed when its children are the cells or the rows.     *)
RECURSIVE WellStored(_)
WellStored(v) ==
  v.tag \in {"array", "list"} =>
     /\ \A i \in DOMAIN v.data : WellStored(v.data[i])
     /\ IsArr(v) =>
          \/ Len(v.data) = Count(v.dims)
          \/ /\ Len(v.dims) > 1
             /\ AreRows(v.data, v.dims)
IsFlat(v) == IsArr(v) => Len(v.data) = Count(v.dims)
(* The same array with its cells stored flat: the abstract value.          *)
Abstract(v) == IF IsArr(v) THEN [v EXCEPT !.data = LogicalCells(v)] ELSE v

-----------------------------------------------------------------------------
(* Equality and order of values.  Numbers being integers here, total_equal,*)
(* type_equal and deep_equal agree.                                        *)

RECURSIVE SameValue(_, _)
SameValue(a, b) ==
  CASE IsStr(a) /\ IsArr(b) -> Dims(a) = b.dims /\ Elements(a) = b.data
    [] IsArr(a) /\ IsStr(b) -> Dims(b) = a.dims /\ Elements(b) = a.data
    [] a.tag = b.tag /\ a.tag \in {"array", "list"} ->
         /\ IsArr(a) => a.dims = b.dims
         /\ Len(a.data) = Len(b.data)
         /\ \A i \in DOMAIN a.data : SameValue(a.data[i], b.data[i])
    [] OTHER -> a = b

RECURSIVE DepthOf(_)
DepthOf(v) ==
  CASE IsArr(v) /\ (Count(v.dims) = 0 \/ v.data = <<>>) -> 1
    [] IsArr(v) /\ Count(v.dims) # 0 /\ v.data # <<>> ->
         1 + Max({DepthOf(v.data[i]) : i \in DOMAIN v.data})
    [] IsStr(v) -> 1
    [] OTHER -> 0

Sign(a, b) == IF a < b THEN -1 ELSE IF a = b THEN 0 ELSE 1
(* Kinds by Kap's typeSortOrder, in which a map has no place: a comparison  *)
(* that meets one says nothing.                                            *)
Unordered == 2
KindOf(v) == CASE IsNum(v) -> 0 [] v.tag = "char" -> 5 [] v.tag \in {"str", "array"} -> 7
               [] v.tag = "list" -> 9 [] OTHER -> 11
LexSign(s, t) ==      \* of two sequences of integers (a Vec's cmp)
  FirstNonzero([i \in 1 .. Least(Len(s), Len(t)) |-> Sign(s[i], t[i])], Sign(Len(s), Len(t)))

(* Arrays by rank, then (above or below rank 1) by dimensions, then, as    *)
(* lists, by their elements.                                               *)
RECURSIVE TotalCmp(_, _)
TotalCmp(a, b) ==
  LET shapes == <<Sign(RankOf(a), RankOf(b)), IF RankOf(a) = 1 THEN 0 ELSE LexSign(Dims(a), Dims(b))>>
      elementwise(s, t) == [i \in 1 .. Least(Len(s), Len(t)) |-> TotalCmp(s[i], t[i])] \o <<Sign(Len(s), Len(t))>>
  IN  CASE IsNum(a) /\ IsNum(b) -> Sign(a.n, b.n)
        [] a.tag = "char" /\ b.tag = "char" -> Sign(a.c, b.c)
        [] KindOf(a) = KindOf(b) /\ KindOf(a) \in {7, 9} ->
             FirstNonzero(IF KindOf(a) = 7 THEN shapes \o elementwise(Elements(a), Elements(b))
                          ELSE elementwise(a.data, b.data), 0)
        [] "map" \in {a.tag, b.tag} -> Unordered
        [] OTHER -> Sign(KindOf(a), KindOf(b))
=============================================================================
