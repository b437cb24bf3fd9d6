-------------------------------- MODULE Ride --------------------------------
(***************************************************************************)
(* One RIDE connection: handle_client and ride_mode of kap-cli/src/ride.rs  *)
(* with the handler of a command send by send, the peer and the network.    *)
(*                                                                         *)
(* A frame is a sequence of cells, the header's first.  The socket hands    *)
(* over any number of them at a time, across frames; the peer may leave in  *)
(* the middle of a frame.                                                  *)
(***************************************************************************)
EXTENDS RideMessages

CONSTANTS
  Command,    \* the requests a peer may send
  ReadSize,   \* cells a read returns at most
  MaxAsked    \* bound: requests of a connection

ASSUME RideAssumption ==
  /\ Command \subseteq Request
  /\ ReadSize \in Nat \ {0} /\ MaxAsked \in Nat

VARIABLES
  mode,       \* "serve": the peer dialled in; "ride": the interpreter did
  net,        \* cells under way to the interpreter
  peer,       \* "here", "left" after sending its last cell, or "reset"
  acc,        \* cells read and not yet taken as frames
  todo,       \* the rest of the running handler, a sequence of steps
  request,    \* the request being handled
  result,     \* what its program evaluated to
  programs,   \* the session: programs that succeeded
  identified, \* peer_identified
  working,    \* writes to the socket succeed
  ended,      \* the loop was left
  asked,      \* history: requests sent by the peer
  said        \* history: messages written

loopVars == <<acc, todo, request, result, programs, identified>>
rdVars == <<mode, net, peer, loopVars, working, ended, asked, said>>

NoRequest == [cmd |-> "", text |-> ""]

RdInit ==
  /\ mode \in {"serve", "ride"}
  /\ net = <<>> /\ peer = "here" /\ acc = <<>>
  /\ todo = IF mode = "ride" THEN <<"hello", "using", "prompt1">> ELSE <<>>
  /\ request = NoRequest /\ result = Eval(0, "")
  /\ programs = 0 /\ identified = FALSE
  /\ working = TRUE /\ ended = FALSE
  /\ asked = <<>> /\ said = <<>>

-----------------------------------------------------------------------------
(* Frames.                                                                 *)

HeaderLen == 2
FrameLen(q) == IF q.cmd = "Short" THEN 2 ELSE IF q.cmd = "Execute" THEN 4
                                                                   ELSE 3
Frame(q) == [i \in 1..FrameLen(q) |-> [of |-> q, at |-> i]]

(* The peer: a front end that sends requests without waiting for answers.   *)
PeerSend(q) ==
  /\ peer = "here" /\ Len(asked) < MaxAsked
  /\ net' = net \o Frame(q)
  /\ asked' = Append(asked, q)
  /\ UNCHANGED <<mode, peer, loopVars, working, ended, said>>

PeerLeave ==
  /\ peer = "here"
  /\ \E k \in {Len(net), Len(net) - 1} \cap Nat : net' = SubSeq(net, 1, k)
  /\ peer' \in {"left", "reset"}
  /\ UNCHANGED <<mode, loopVars, working, ended, asked, said>>

-----------------------------------------------------------------------------
(* The loop.                                                               *)

Waiting == ~ended /\ todo = <<>>

(* A whole frame has been read.                                             *)
FrameReady(cells) ==
  /\ Len(cells) >= HeaderLen
  /\ Len(cells) >= FrameLen(cells[1].of)

ReadSocket ==
  /\ Waiting /\ ~FrameReady(acc)
  /\ peer # "reset" /\ net # <<>>
  /\ \E k \in 1..ReadSize :
       /\ k <= Len(net)
       /\ acc' = acc \o SubSeq(net, 1, k)
       /\ net' = SubSeq(net, k + 1, Len(net))
  /\ UNCHANGED <<mode, peer, todo, request, result, programs, identified,
                 working, ended, asked, said>>

(* End of file, or a read that fails: what is left of a frame is dropped.   *)
HangUp ==
  /\ Waiting /\ ~FrameReady(acc)
  /\ peer = "reset" \/ (peer = "left" /\ net = <<>>)
  /\ ended' = TRUE
  /\ UNCHANGED <<mode, net, peer, loopVars, working, asked, said>>

(* The steps of handle_command for a request, in the order of the code.     *)
Steps(q) ==
  CASE q.cmd = "Identify" -> <<"identity", "prompt1">>
    [] q.cmd \in Queries -> <<"reply">>
    [] q.cmd = "Subscribe" /\ q.text = "statusfields" -> <<"status">>
    [] q.cmd = "Execute" /\ q.text # "" ->
         <<"echo", "prompt0", "eval", "output", "status?", "prompt1">>
    [] q.cmd = "SupportedProtocols" /\ mode = "serve" -> <<"using?">>
    [] OTHER -> <<>>

(* Mutant: a request is dropped with everything read behind it.             *)
TakeFrameAlone ==
  /\ Waiting /\ FrameReady(acc)
  /\ LET q == acc[1].of IN
     /\ acc' = <<>>
     /\ request' = q
     /\ todo' = Steps(q)
     /\ identified' = (identified \/ q.cmd = "Identify")
     /\ ended' = EndsSession(mode, q)
  /\ UNCHANGED <<mode, net, peer, result, programs, working, asked, said>>

(* The next frame leaves the buffer and its request is dispatched.          *)
TakeFrame ==
  /\ Waiting /\ FrameReady(acc)
  /\ LET q == acc[1].of IN
     /\ acc' = SubSeq(acc, FrameLen(q) + 1, Len(acc))
     /\ request' = q
     /\ todo' = Steps(q)
     /\ identified' = (identified \/ q.cmd = "Identify")
     /\ ended' = EndsSession(mode, q)
  /\ UNCHANGED <<mode, net, peer, result, programs, working, asked, said>>

-----------------------------------------------------------------------------
(* The handler.                                                            *)

Wording(step) ==
  CASE step = "identity" -> Identity
    [] step = "prompt0" -> Prompt(0)
    [] step = "prompt1" -> Prompt(1)
    [] step = "reply" -> Reply(request.cmd)
    [] step = "echo" -> EchoInput(request.text)
    [] step = "output" -> Output(result, identified)
    [] step \in {"status", "status?"} -> Status
    [] step = "hello" -> Message("SupportedProtocols")
    [] step \in {"using", "using?"} -> Message("UsingProtocol")

(* Sends whose failure the code ignores.                                    *)
Ignored == {"status?", "using?"}

Running(step) == ~ended /\ todo # <<>> /\ Head(todo) = step

Evaluate ==
  /\ Running("eval")
  /\ result' = Eval(programs, request.text)
  /\ programs' = Eval(programs, request.text).n
  /\ todo' = Tail(todo)
  /\ UNCHANGED <<mode, net, peer, acc, request, identified, working, ended,
                 asked, said>>

(* An empty rendering is not sent.                                          *)
Suppress ==
  /\ Running("output") /\ Quiet(result)
  /\ todo' = Tail(todo)
  /\ UNCHANGED <<mode, net, peer, acc, request, result, programs, identified,
                 working, ended, asked, said>>

Sending == /\ ~ended /\ todo # <<>>
           /\ Head(todo) # "eval"
           /\ ~(Head(todo) = "output" /\ Quiet(result))

(* send_ride: written and flushed.                                          *)
Send ==
  /\ Sending /\ working
  /\ said' = Append(said, Wording(Head(todo)))
  /\ todo' = Tail(todo)
  /\ UNCHANGED <<mode, net, peer, acc, request, result, programs, identified,
                 working, ended, asked>>

(* A write to a peer that is gone fails sooner or later, and from then on.  *)
SendFails ==
  /\ Sending /\ peer # "here"
  /\ working' = FALSE
  /\ IF Head(todo) \in Ignored THEN todo' = Tail(todo) /\ UNCHANGED ended
                               ELSE ended' = TRUE /\ UNCHANGED todo
  /\ UNCHANGED <<mode, net, peer, acc, request, result, programs, identified,
                 asked, said>>

Serve == \/ ReadSocket \/ HangUp \/ TakeFrame
         \/ Evaluate \/ Suppress \/ Send \/ SendFails
RdNext == Serve \/ PeerLeave \/ \E q \in Command : PeerSend(q)
RdSpec == RdInit /\ [][RdNext]_rdVars /\ WF_rdVars(Serve)

-----------------------------------------------------------------------------
(* Properties                                                              *)

Promise == INSTANCE Exchange WITH gone <- peer # "here", over <- ended

(* The connection implements Exchange: whatever the sizes of the reads and  *)
(* wherever the peer leaves, the interpreter says the answers of a session  *)
(* that serves one request after the other, in order and in full, and ends  *)
(* the connection only when it must.                                        *)
ImplementsExchange == Promise!Spec

=============================================================================
