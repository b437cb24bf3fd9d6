------------------------------- MODULE Control ------------------------------
(***************************************************************************)
(* Control flow that leaves an evaluation early (kap-core/src/evaluator.rs: *)
(* return_arrow, apply_escape, apply_user_fn, catch_apply, throw,           *)
(* int:unwindProtect, thread:makeThread, adverb_each, use_file).           *)
(*                                                                         *)
(* The stack holds the activations in progress, innermost last.  An         *)
(* activation's owner is the construct that started it and that decides     *)
(* what its outcome becomes: a plain call passes it on, catch looks for a   *)
(* tag, unwindProtect runs its handler first, makeThread and each keep it   *)
(* from the outside, and a file turns it into a plain error.               *)
(***************************************************************************)
EXTENDS Naturals, Sequences

CONSTANTS
  Tag,        \* the keys programs throw
  MaxIds,     \* bound: activations before the program applies no more
  MaxDepth,   \* bound: activations nested in each other
  MaxOps      \* bound: statements that raise, capture or force

ASSUME ControlAssumption ==
  MaxIds \in Nat /\ MaxDepth \in Nat /\ MaxOps \in Nat

(* Handlers are still applied when MaxIds is reached: at most one for each  *)
(* activation then in progress.                                            *)
Id == 1..(MaxIds + MaxDepth)

NoTarget == 0                  \* Rust's None: no enclosing function

(* What an evaluation yields: a value, or one of the three errors.         *)
Value   == [kind |-> "value"]
Return(t) == [kind |-> "return", to |-> t]
Thrown(k) == [kind |-> "thrown", key |-> k]
Failure == [kind |-> "runtime"]

Signal  == [kind : {"return"}, to : Id \cup {NoTarget}] \cup
           [kind : {"thrown"}, key : Tag] \cup {Failure}
Outcome == Signal \cup {Value}

Owner == {"session", "call", "catch", "protect", "cleanup", "thread", "each",
          "file"}

VARIABLES
  stack,      \* activations in progress
  outcome,    \* Value while the innermost runs, else the signal leaving it
  lastId,     \* activations started so far
  closures,   \* return targets seen by the bare function values that exist
  escapes,    \* targets of the captured return escapes that exist
  suspended,  \* targets of the suspended returns stored in arrays
  ops,        \* statements counted (bounds the behaviour)
  cleaned,    \* history: protected activations whose handler was started
  raisedAt,   \* history: the stack when the signal in flight was raised
  reported    \* history: what the last failed session statement returned

heap    == <<closures, escapes, suspended>>
history == <<cleaned, raisedAt, reported>>
vars    == <<stack, outcome, lastId, heap, ops, history>>

(* A frame catches returns if it is a block's (is_return_target); home is   *)
(* the target a return written in it aims at, the nearest one lexically.   *)
Frame == [owner : Owner, id : Id \cup {0}, target : BOOLEAN,
          home : Id \cup {NoTarget}, tags : SUBSET Tag, saved : Outcome]

TypeOK ==
  /\ stack \in Seq(Frame) /\ stack # <<>>
  /\ outcome \in Outcome
  /\ lastId \in Id \cup {0}
  /\ closures \subseteq Id \cup {NoTarget}
  /\ escapes \subseteq Id
  /\ suspended \subseteq Id \cup {NoTarget}
  /\ ops \in 0..MaxOps
  /\ cleaned \subseteq Id
  /\ raisedAt \in Seq(Frame)
  /\ reported \in Outcome

Session == [owner |-> "session", id |-> 0, target |-> FALSE,
            home |-> NoTarget, tags |-> {}, saved |-> Value]

Init ==
  /\ stack = <<Session>>
  /\ outcome = Value
  /\ lastId = 0
  /\ closures = {} /\ escapes = {} /\ suspended = {}
  /\ ops = 0
  /\ cleaned = {} /\ raisedAt = <<>> /\ reported = Value

-----------------------------------------------------------------------------

Top     == stack[Len(stack)]
Running == outcome = Value

Statement == Running /\ ops < MaxOps /\ ops' = ops + 1

Raise(s) == outcome' = s /\ raisedAt' = stack

(* A block body's frame is a target of its own; a bare body's returns aim   *)
(* where the closure was made.                                             *)
NewFrame(owner, block, h, tags, saved) ==
  [owner |-> owner, id |-> lastId + 1, target |-> block,
   home |-> IF block THEN lastId + 1 ELSE h, tags |-> tags, saved |-> saved]

(* The first conjunct never blocks: see MayApply and Id.                    *)
Start(below, frame) ==
  /\ lastId + 1 \in Id
  /\ lastId' = lastId + 1
  /\ stack' = Append(below, frame)

MayApply == Running /\ lastId < MaxIds /\ Len(stack) < MaxDepth

(* The functions a program can apply: a block, or a bare function value.    *)
Body == {<<TRUE, NoTarget>>} \cup {<<FALSE, h>> : h \in closures}

-----------------------------------------------------------------------------
(* Statements                                                              *)

(* f <= + or a lambda without a block: its scope is no return target.       *)
MakeBareFn ==
  /\ Statement
  /\ closures' = closures \cup {Top.home}
  /\ UNCHANGED <<stack, outcome, lastId, escapes, suspended, history>>

(* S <= return: capture the return of the enclosing function.              *)
Capture ==
  /\ Statement
  /\ IF Top.home = NoTarget
     THEN Raise(Failure) /\ UNCHANGED escapes
     ELSE escapes' = escapes \cup {Top.home} /\ UNCHANGED <<outcome, raisedAt>>
  /\ UNCHANGED <<stack, lastId, closures, suspended, cleaned, reported>>

(* A return, an escape applied, a suspended return forced, throw, an error. *)
RaiseSignal ==
  /\ Statement
  /\ \/ Raise(Return(Top.home))
     \/ \E t \in escapes \cup suspended : Raise(Return(t))
     \/ \E k \in Tag : Raise(Thrown(k))
     \/ Raise(Failure)
  /\ UNCHANGED <<stack, lastId, heap, cleaned, reported>>

(* A call, or a construct that applies a function and owns its outcome.     *)
Apply(owner, b, tags) ==
  /\ MayApply
  /\ Start(stack, NewFrame(owner, b[1], b[2], tags, Value))
  /\ UNCHANGED <<outcome, heap, ops, history>>

(* use(): the file's scope is a child of the caller's and no target.       *)
UseFile ==
  /\ MayApply
  /\ Start(stack, NewFrame("file", FALSE, Top.home, {}, Value))
  /\ UNCHANGED <<outcome, heap, ops, history>>

-----------------------------------------------------------------------------
(* The end of an activation: its body ended, or a signal is leaving it      *)

(* Mutant: a block catches every return that passes.                       *)
CaughtAny(f, s) == s.kind = "return" /\ f.target

(* The frame's own check, Return(v, t) if t = its id.                      *)
Caught(f, s) == s.kind = "return" /\ f.target /\ s.to = f.id

(* The outcome the owner sees.                                             *)
Result == IF Caught(Top, outcome) THEN Value ELSE outcome

Below == SubSeq(stack, 1, Len(stack) - 1)

Ends(owner) == Top.owner = owner

(* The activation is over; a signal that stops here is forgotten.          *)
PassOn(s) ==
  /\ stack' = Below
  /\ outcome' = s
  /\ raisedAt' = IF s = Value THEN <<>> ELSE raisedAt

(* A call, and catch when the key is not in its table.                     *)
EndCall ==
  /\ \/ Ends("call")
     \/ Ends("catch") /\ ~(Result.kind = "thrown" /\ Result.key \in Top.tags)
  /\ PassOn(Result)
  /\ UNCHANGED <<lastId, heap, ops, cleaned, reported>>

(* A handler takes the place of the activation that ends: a function is     *)
(* applied to it, anything else has one of the other outcomes or fails.    *)
Handle(owner, saved, others) ==
  \/ /\ \E b \in Body : Start(Below, NewFrame(owner, b[1], b[2], {}, saved))
     /\ outcome' = Value /\ raisedAt' = <<>>
  \/ /\ stack' = Below /\ UNCHANGED lastId
     /\ outcome' \in others \cup {Failure}
     /\ raisedAt' = IF outcome' = Value THEN <<>> ELSE Below

(* catch found the key: the handler runs outside the catch.  It may be a    *)
(* captured escape, which returns unless what was thrown is false, or the   *)
(* body of a macro's argument, whose statements are those of the frame the  *)
(* catch is in.                                                            *)
CatchTag ==
  /\ Ends("catch") /\ Result.kind = "thrown" /\ Result.key \in Top.tags
  /\ Handle("call", Value, {Value} \cup {Return(t) : t \in escapes})
  /\ UNCHANGED <<heap, ops, cleaned, reported>>

(* Mutant: a return leaves without the handler.                            *)
EndProtectErrorsOnly ==
  /\ Ends("protect")
  /\ IF Result.kind = "return"
     THEN PassOn(Result) /\ UNCHANGED <<lastId, cleaned>>
     ELSE Handle("cleanup", Result, {}) /\ cleaned' = cleaned \cup {Top.id}
  /\ UNCHANGED <<heap, ops, reported>>

(* unwindProtect: whatever the outcome, the handler is applied next.       *)
EndProtect ==
  /\ Ends("protect")
  /\ Handle("cleanup", Result, {})
  /\ cleaned' = cleaned \cup {Top.id}
  /\ UNCHANGED <<heap, ops, reported>>

(* The handler's own error replaces the outcome that waited.               *)
EndCleanup ==
  /\ Ends("cleanup")
  /\ IF Result = Value
     THEN /\ stack' = Below
          /\ outcome' = Top.saved
          /\ raisedAt' = IF Top.saved = Value THEN <<>> ELSE Below
     ELSE PassOn(Result)
  /\ UNCHANGED <<lastId, heap, ops, cleaned, reported>>

(* Mutant: a return leaves the thread for the function it aims at.         *)
EndThreadReturns ==
  /\ Ends("thread")
  /\ PassOn(IF Result.kind = "return" THEN Result ELSE Value)
  /\ UNCHANGED <<lastId, heap, ops, cleaned, reported>>

(* makeThread: the outcome is stored, any error as nil.                    *)
EndThread ==
  /\ Ends("thread")
  /\ PassOn(Value)
  /\ UNCHANGED <<lastId, heap, ops, cleaned, reported>>

(* An element of each: a return becomes a value of the result.             *)
EndEach ==
  /\ Ends("each")
  /\ IF Result.kind = "return"
     THEN PassOn(Value) /\ suspended' = suspended \cup {Result.to}
     ELSE PassOn(Result) /\ UNCHANGED suspended
  /\ UNCHANGED <<lastId, closures, escapes, ops, cleaned, reported>>

(* A file: every error leaves it as a runtime error with the same text.    *)
EndFile ==
  /\ Ends("file")
  /\ PassOn(IF Result = Value THEN Value ELSE Failure)
  /\ UNCHANGED <<lastId, heap, ops, cleaned, reported>>

(* The statement of the session failed: eval_string_in_env turns a throw    *)
(* into a runtime error and returns the others as they are.                *)
Report ==
  /\ Ends("session") /\ ~Running
  /\ reported' = IF outcome.kind = "thrown" THEN Failure ELSE outcome
  /\ outcome' = Value /\ raisedAt' = <<>>
  /\ UNCHANGED <<stack, lastId, heap, ops, cleaned>>

End ==
  \/ EndCall \/ CatchTag \/ EndProtect \/ EndCleanup \/ EndThread \/ EndEach
  \/ EndFile \/ Report

Next ==
  \/ MakeBareFn \/ Capture \/ RaiseSignal \/ UseFile
  \/ \E b \in Body :
       \/ \E owner \in {"call", "protect", "thread", "each"} :
            Apply(owner, b, {})
       \/ \E k \in Tag : Apply("catch", b, {k})
  \/ End

Spec == Init /\ [][Next]_vars

-----------------------------------------------------------------------------
(* Properties                                                              *)

(* The frames the signal in flight has left behind since it was raised.    *)
Passed == {raisedAt[i] : i \in (Len(stack) + 1)..Len(raisedAt)}

(* The signal in flight has passed no frame that had to stop or change it:  *)
(* not the frame its return aims at, no catch that lists its tag, no        *)
(* thread, no each if it is a return, no file unless it became an error,    *)
(* and no protected activation: its handler comes first.                   *)
SignalsStop ==
  outcome # Value => \A f \in Passed :
    /\ f.owner \notin {"thread", "protect"}
    /\ f.owner = "file" => outcome = Failure
    /\ outcome.kind = "return" => f.owner # "each" /\ (f.target => f.id # outcome.to)
    /\ outcome.kind = "thrown" /\ f.owner = "catch" => outcome.key \notin f.tags

(* A return stops as a value only where it aims: everywhere else it goes on *)
(* to the frame below, waits for a handler or is stored for later, until a  *)
(* thread, a file or the session ends it.                                  *)
ReturnsLandWhereAimed ==
  [][ outcome.kind = "return" /\ outcome' = Value =>
        \/ Top.target /\ Top.id = outcome.to
        \/ Top.owner \in {"thread", "session"}
        \/ Top.owner = "each" /\ outcome.to \in suspended'
        \/ Top.owner = "protect" /\ stack'[Len(stack')].saved = outcome ]_vars

(* What unwindProtect promises, stated by Unwind: a protected activation    *)
(* that is over has had its handler applied, once, innermost first.        *)
OpenIds ==
  {stack[i].id : i \in {j \in DOMAIN stack : stack[j].owner = "protect"}}

Brackets == INSTANCE Unwind WITH Activation <- Id, open <- OpenIds

ImplementsUnwind == Brackets!Spec

(* What the comments at evaluator.rs:16822 and lib.rs:1658 say: a return      *)
(* that leaves its statement is reported as a runtime error.               *)
ReturnsAreConverted == reported.kind # "return"

=============================================================================
