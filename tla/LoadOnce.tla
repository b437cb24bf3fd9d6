------------------------------ MODULE LoadOnce ------------------------------
(***************************************************************************)
(* What the loader promises of library files: files load one inside the     *)
(* other, each is entered at most once in a session, and a load that was    *)
(* entered ends.                                                           *)
(***************************************************************************)
EXTENDS Naturals, Sequences

CONSTANT Basename

VARIABLES
  loading,    \* the loads in progress, innermost last
  done        \* the files whose load ended, well or badly

vars == <<loading, done>>

InProgress == {loading[i] : i \in DOMAIN loading}

Init == loading = <<>> /\ done = {}

Begin(b) ==
  /\ b \notin InProgress \cup done
  /\ loading' = Append(loading, b)
  /\ UNCHANGED done

End ==
  /\ loading # <<>>
  /\ done' = done \cup {loading[Len(loading)]}
  /\ loading' = SubSeq(loading, 1, Len(loading) - 1)

Next == End \/ \E b \in Basename : Begin(b)

Spec == Init /\ [][Next]_vars /\ WF_vars(End)

=============================================================================
