------------------------------ MODULE Exchange ------------------------------
(***************************************************************************)
(* What the interpreter promises a RIDE peer: it says nothing but the       *)
(* answers to what was asked, request by request and in full; it hangs up   *)
(* only when the peer left or asked for it, with everything before said.    *)
(***************************************************************************)
EXTENDS RideMessages

CONSTANT Command

VARIABLES
  mode,     \* which side opened the connection
  asked,    \* the requests of the peer
  said,     \* the messages of the interpreter
  gone,     \* the peer has left
  over      \* the interpreter has hung up

vars == <<mode, asked, said, gone, over>>

Script == ConversationOf(mode, asked)

Init ==
  /\ mode \in {"serve", "ride"}
  /\ asked = <<>> /\ said = <<>>
  /\ gone = FALSE /\ over = FALSE

Ask(q) ==
  /\ ~gone
  /\ asked' = Append(asked, q)
  /\ UNCHANGED <<mode, said, gone, over>>

Say ==
  /\ ~over
  /\ Len(said) < Len(Script.said)
  /\ said' = Append(said, Script.said[Len(said) + 1])
  /\ UNCHANGED <<mode, asked, gone, over>>

Leave ==
  /\ ~gone
  /\ gone' = TRUE
  /\ UNCHANGED <<mode, asked, said, over>>

HangUp ==
  /\ ~over
  /\ gone \/ (Script.over /\ said = Script.said)
  /\ over' = TRUE
  /\ UNCHANGED <<mode, asked, said, gone>>

Next == Say \/ Leave \/ HangUp \/ \E q \in Command : Ask(q)

Spec == Init /\ [][Next]_vars /\ WF_vars(Say \/ HangUp)

=============================================================================
