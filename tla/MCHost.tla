------------------------------- MODULE MCHost -------------------------------
(* The three faces of the host side by side: a behaviour is one of a RIDE   *)
(* connection, of a stream, or of the read-evaluate-print loop.            *)
EXTENDS Ride, Streams, Repl

CONSTANTS x, n, o, s, t, nl
VARIABLE machine

vars == <<rdVars, stVars, rpVars, machine>>

Ask(cmd, text) == [cmd |-> cmd, text |-> text]
Commands == {Ask("Identify", ""), Ask("Execute", "count"), Ask("Execute", "silent"),
             Ask("Execute", "fail"), Ask("Execute", ""), Ask("GetConfiguration", ""),
             Ask("Subscribe", "statusfields"), Ask("SupportedProtocols", ""),
             Ask("Exit", ""), Ask("Unmarked", ""), Ask("Short", ""),
             Ask("Nothing", "")}

RdIdle == RdInit /\ mode = "serve"
StIdle == StInit /\ kind = "memory" /\ content = <<>>
MCInit == \/ machine = "ride" /\ RdInit /\ StIdle /\ RpInit
          \/ machine = "stream" /\ StInit /\ RdIdle /\ RpInit
          \/ machine = "repl" /\ RpInit /\ RdIdle /\ StIdle
OnlyRide   == machine = "ride"   /\ UNCHANGED <<stVars, rpVars, machine>>
OnlyStream == machine = "stream" /\ UNCHANGED <<rdVars, rpVars, machine>>
OnlyRepl   == machine = "repl"   /\ UNCHANGED <<rdVars, stVars, machine>>
MCNext == \/ RdNext /\ OnlyRide
          \/ StNext /\ OnlyStream
          \/ RpNext /\ OnlyRepl
MCSpec == /\ MCInit /\ [][MCNext]_vars
          /\ WF_vars(Serve /\ OnlyRide)
          /\ WF_vars(Primitive /\ OnlyStream) /\ WF_vars(Child /\ OnlyStream)
=============================================================================
