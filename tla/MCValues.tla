------------------------------ MODULE MCValues ------------------------------
(* The four machines of values side by side: a behaviour is one of the     *)
(* workspace, of the arithmetic, of the assignments or of a map in use,    *)
(* the others idle.                                                        *)
EXTENDS Workspace, Arithmetic, Assignments, MapStore

CONSTANTS alpha, beta, gamma
VARIABLE machine

(* Targets and values of destructuring assignments.                        *)
PairOf(m, n) == GroupOf(<<Leaf(m), Leaf(n)>>)
PairIn(m, n) == GroupOf(<<Leaf(m), GroupOf(<<Leaf(n), Leaf(m)>>)>>)
TwoList(m, n) == ListOf(<<Leaf(n), Leaf(m)>>)
SomeTargets == UNION {{PairOf(m, n), PairIn(m, n), TwoList(m, n)} : m, n \in Name}
SomeValues == {Amount(1), Vector(<<Amount(1), Amount(2)>>),
               Vector(<<Amount(1), Amount(1), Amount(2)>>),
               Vector(<<Amount(2), Vector(<<Amount(1), Amount(0)>>)>>),
               ListValue(<<Amount(2), Amount(1)>>)}

(* Keys that are boxed, that hold another and that equal nothing; a boxed  *)
(* value, and the value that append takes for none.                        *)
SomeKeys == {Num(1), BoxOf(Num(1)), NumVec(<<1>>), Nil}
SomeContents == {BoxOf(Num(1)), Null}

vars == <<wsVars, arVars, asVars, msVars, machine>>

WsIdle == it = Nil /\ chain = MaxChain /\ regular = TRUE
ArIdle == acc = NaN /\ steps = MaxSteps
MsIdle == table = Nil /\ clean = TRUE
MCInit == \/ machine = "workspace" /\ Init /\ ArIdle /\ AsInit /\ MsIdle
          \/ machine = "arithmetic" /\ ArInit /\ WsIdle /\ AsInit /\ MsIdle
          \/ machine = "assignments" /\ AsInit /\ WsIdle /\ ArIdle /\ MsIdle
          \/ machine = "maps" /\ MsInit /\ WsIdle /\ ArIdle /\ AsInit
MCNext == /\ \/ machine = "workspace" /\ Next /\ UNCHANGED <<arVars, asVars, msVars>>
             \/ machine = "arithmetic" /\ ArNext /\ UNCHANGED <<wsVars, asVars, msVars>>
             \/ machine = "assignments" /\ AsNext /\ UNCHANGED <<wsVars, arVars, msVars>>
             \/ machine = "maps" /\ MsNext /\ UNCHANGED <<wsVars, arVars, asVars>>
          /\ UNCHANGED machine
MCSpec == MCInit /\ [][MCNext]_vars
=============================================================================
