---------------------------- MODULE RideMessages ----------------------------
(***************************************************************************)
(* What a RIDE peer may ask of the interpreter and what the interpreter     *)
(* answers (kap-cli/src/ride.rs, handle_command), as values: a request is   *)
(* a record, an answer a sequence of messages.  A program's value is        *)
(* reduced to what the session remembers: how many programs succeeded.      *)
(***************************************************************************)
EXTENDS Naturals, Sequences

Message(name)   == [name |-> name, text |-> "", value |-> 0, newline |-> FALSE]
Prompt(type)    == [Message("SetPromptType") EXCEPT !.value = type]
EchoInput(text) == [Message("EchoInput") EXCEPT !.text = text]
Reply(cmd)      == [Message("Reply") EXCEPT !.text = cmd]
Status          == Message("InterpreterStatus")
Identity        == Message("ReplyIdentify")

Request == [cmd : STRING, text : STRING]

Silent  == {"Connect", "GetWindowLayout", "GetSyntaxInformation", "GetLog",
            "SetPW", "ReplyIdentify", "ReplyConnect"}
Queries == {"GetLanguageBar", "GetKeyboardLayout", "GetConfiguration"}
Leaving == {"Exit", "Disconnect"}

(* A frame that is shorter than its header and a command list without a     *)
(* command end the connection, by a message or by a panic of its thread; a  *)
(* frame that is not marked RIDE is refused by the interpreter that dialled *)
(* out and read as any other by the one that listens.                       *)
EndsSession(mode, q) ==
  q.cmd \in Leaving \cup {"Short", "Nothing"} \/ (mode = "ride" /\ q.cmd = "Unmarked")

(* Session::eval: a count that succeeds is remembered, a silent program     *)
(* has an empty rendering, a failing one leaves the session as it was.      *)
Eval(n, text) ==
  CASE text = "count"  -> [n |-> n + 1, out |-> n + 1, ok |-> TRUE]
    [] text = "silent" -> [n |-> n + 1, out |-> 0, ok |-> TRUE]
    [] OTHER           -> [n |-> n, out |-> n, ok |-> FALSE]

Quiet(result) == result.ok /\ result.out = 0

(* Rendered output; a peer that identified itself gets whole lines.         *)
Output(result, identified) ==
  [name |-> "AppendSessionOutput",
   text |-> IF result.ok THEN "type 2" ELSE "type 5",
   value |-> result.out,
   newline |-> identified]

(* What the interpreter says of its own accord when the connection starts.  *)
Greeting(mode) ==
  IF mode = "ride" THEN <<Message("SupportedProtocols"),
                          Message("UsingProtocol"), Prompt(1)>>
                   ELSE <<>>

-----------------------------------------------------------------------------
(* The whole answer to one request, by a session that evaluated n programs. *)

ExecuteAnswer(text, n, identified) ==
  <<EchoInput(text), Prompt(0)>>
  \o (IF Quiet(Eval(n, text)) THEN <<>>
                              ELSE <<Output(Eval(n, text), identified)>>)
  \o <<Status, Prompt(1)>>

Answer(mode, q, n, identified) ==
  CASE q.cmd = "Identify" -> <<Identity, Prompt(1)>>
    [] q.cmd \in Queries -> <<Reply(q.cmd)>>
    [] q.cmd = "Subscribe" /\ q.text = "statusfields" -> <<Status>>
    [] q.cmd = "Execute" /\ q.text # "" ->
         ExecuteAnswer(q.text, n, identified)
    [] q.cmd = "SupportedProtocols" /\ mode = "serve" ->
         <<Message("UsingProtocol")>>
    [] OTHER -> <<>>

Opened(mode) == [mode |-> mode, n |-> 0, identified |-> FALSE,
                 over |-> FALSE, said |-> Greeting(mode)]

(* The conversation after one more request.                                 *)
Asked(c, q) ==
  LET identified == c.identified \/ q.cmd = "Identify" IN
  IF c.over THEN c ELSE
  [c EXCEPT !.n = IF q.cmd = "Execute" THEN Eval(@, q.text).n ELSE @,
            !.identified = identified,
            !.over = EndsSession(c.mode, q),
            !.said = @ \o Answer(c.mode, q, c.n, identified)]

(* The conversation in which a peer asks qs one after the other.            *)
ConversationOf(mode, qs) ==
  LET f[i \in 0..Len(qs)] ==
        IF i = 0 THEN Opened(mode) ELSE Asked(f[i - 1], qs[i])
  IN f[Len(qs)]

=============================================================================
