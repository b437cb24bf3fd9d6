------------------------------- MODULE Unwind -------------------------------
(***************************************************************************)
(* What unwindProtect promises: an evaluation that was entered stays open   *)
(* until its handler is applied, the handler is applied once, and handlers  *)
(* are applied innermost first.  Activations are numbered as they begin, so *)
(* the innermost is the greatest.                                          *)
(***************************************************************************)
EXTENDS Naturals

CONSTANT Activation   \* a set of numbers

VARIABLES
  open,      \* protected evaluations in progress
  cleaned    \* those whose handler was applied

vars == <<open, cleaned>>

Init == open = {} /\ cleaned = {}

Enter(a) ==
  /\ \A b \in open \cup cleaned : b < a
  /\ open' = open \cup {a}
  /\ UNCHANGED cleaned

Clean(a) ==
  /\ a \in open
  /\ \A b \in open : b <= a
  /\ open' = open \ {a}
  /\ cleaned' = cleaned \cup {a}

Next == \E a \in Activation : Enter(a) \/ Clean(a)

Spec == Init /\ [][Next]_vars

=============================================================================
