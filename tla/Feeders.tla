------------------------------ MODULE Feeders -------------------------------
(***************************************************************************)
(* Feeders (kap-core/src/evaluator.rs, feeder:make, feeder:att, feeder:put, *)
(* feeder_put_value): a graph of named transformers.  A value put into a    *)
(* feeder goes through its transformer and on to the attached feeders,      *)
(* depth first.  Transformers are programs: they may make, attach and put   *)
(* while a value is on its way.                                            *)
(***************************************************************************)
EXTENDS Naturals, Sequences

CONSTANTS
  Feeder,     \* names of feeders
  MaxOps,     \* bound: feeder operations programs perform
  MaxDepth    \* bound: pushes nested in each other

ASSUME FeedersAssumption == MaxOps \in Nat /\ MaxDepth \in Nat

VARIABLES
  connections,  \* the registered feeders, with their destinations
  pushes,       \* calls of feeder_put_value in progress, innermost last
  raising,      \* an error is propagating
  ops,          \* operations performed (bounds the behaviour)
  visited,      \* history: feeders the session's last put has reached
  calm          \* history: the transformers did nothing to feeders since

history == <<visited, calm>>
vars == <<connections, pushes, raising, ops, history>>

Registered == DOMAIN connections

(* "found" is history: the destinations the feeder had when it was reached, *)
(* and "sent" those the value was forwarded to.                            *)
Push == [feeder : Feeder, transforming : BOOLEAN, todo : Seq(Feeder),
         found : Seq(Feeder), sent : Seq(Feeder)]

(* The names a sequence holds.                                             *)
Names(s) == {s[i] : i \in DOMAIN s}

(* Values are only put into, and forwarded to, feeders that exist.         *)
TypeOK ==
  /\ Registered \subseteq Feeder
  /\ connections \in [Registered -> Seq(Registered)]
  /\ pushes \in Seq(Push)
  /\ \A i \in DOMAIN pushes :
       {pushes[i].feeder} \cup Names(pushes[i].todo) \subseteq Registered
  /\ raising \in BOOLEAN
  /\ ops \in 0..MaxOps
  /\ visited \in Seq(Feeder)
  /\ calm \in BOOLEAN

Init ==
  /\ connections = [f \in {} |-> <<>>]
  /\ pushes = <<>>
  /\ raising = FALSE
  /\ ops = 0
  /\ visited = <<>> /\ calm = TRUE

-----------------------------------------------------------------------------
(* Operations of the session and of transformers                           *)

Pushing == pushes # <<>>
Top     == pushes[Len(pushes)]

(* A program runs: the session's, or the transformer of the innermost push. *)
Operation ==
  /\ ~raising /\ (Pushing => Top.transforming)
  /\ ops < MaxOps
  /\ ops' = ops + 1

Error == raising' = TRUE /\ UNCHANGED <<connections, pushes, history>>

(* Registering a name again drops the connections it had.                  *)
Make(f) ==
  /\ Operation
  /\ connections' = [g \in Registered \cup {f} |->
                       IF g = f THEN <<>> ELSE connections[g]]
  /\ calm' = FALSE
  /\ UNCHANGED <<pushes, raising, visited>>

MayAttach(src, dest) ==
  {src, dest} \subseteq Registered /\ dest \notin Names(connections[src])

Attach(src, dest) ==
  /\ Operation
  /\ MayAttach(src, dest)
  /\ connections' = [connections EXCEPT ![src] = Append(@, dest)]
  /\ calm' = FALSE
  /\ UNCHANGED <<pushes, raising, visited>>

(* An attach that names an output of its source always fails.              *)
AttachFails(src, dest, output) ==
  /\ Operation
  /\ output \/ ~MayAttach(src, dest)
  /\ Error

(* feeder_put_value copies the connections, then applies the transformer.  *)
Reach(f, rest) ==
  /\ Len(rest) < MaxDepth
  /\ pushes' = Append(rest, [feeder |-> f, transforming |-> TRUE,
                             todo |-> connections[f],
                             found |-> connections[f], sent |-> <<>>])

Put(f) ==
  /\ Operation
  /\ f \in Registered
  /\ Reach(f, pushes)
  /\ visited' = IF Pushing THEN visited ELSE <<f>>
  /\ calm' = ~Pushing
  /\ UNCHANGED <<connections, raising>>

PutUnknown(f) ==
  /\ Operation
  /\ f \notin Registered
  /\ Error

-----------------------------------------------------------------------------
(* A push                                                                  *)

WithTop(push) == [pushes EXCEPT ![Len(pushes)] = push]

(* Mutant: the connections are read after the transformer.                 *)
TransformedLate ==
  /\ ~raising /\ Pushing /\ Top.transforming
  /\ pushes' = WithTop([Top EXCEPT !.transforming = FALSE,
                                   !.todo = connections[Top.feeder]])
  /\ UNCHANGED <<connections, raising, ops, history>>

Transformed ==
  /\ ~raising /\ Pushing /\ Top.transforming
  /\ pushes' = WithTop([Top EXCEPT !.transforming = FALSE])
  /\ UNCHANGED <<connections, raising, ops, history>>

(* The transformer fails by itself.                                        *)
TransformerFails ==
  /\ Pushing /\ Operation
  /\ Error

(* Mutant: the destinations are taken last first.                          *)
ForwardLast ==
  /\ ~raising /\ Pushing /\ ~Top.transforming /\ Top.todo # <<>>
  /\ LET n == Len(Top.todo)
         next == Top.todo[n]
     IN  /\ Reach(next, WithTop([Top EXCEPT !.todo = SubSeq(@, 1, n - 1),
                                            !.sent = Append(@, next)]))
         /\ visited' = Append(visited, next)
  /\ UNCHANGED <<connections, raising, ops, calm>>

(* Mutant: the destination just served stays first in line.                *)
ForwardAgain ==
  /\ ~raising /\ Pushing /\ ~Top.transforming /\ Top.todo # <<>>
  /\ Reach(Head(Top.todo), pushes)
  /\ visited' = <<>>
  /\ UNCHANGED <<connections, raising, ops, calm>>

(* The result goes to the next of the copied connections.                  *)
Forward ==
  /\ ~raising /\ Pushing /\ ~Top.transforming /\ Top.todo # <<>>
  /\ Reach(Head(Top.todo), WithTop([Top EXCEPT !.todo = Tail(@),
                                               !.sent = Append(@, Head(Top.todo))]))
  /\ visited' = Append(visited, Head(Top.todo))
  /\ UNCHANGED <<connections, raising, ops, calm>>

Pop == pushes' = SubSeq(pushes, 1, Len(pushes) - 1)

Delivered ==
  /\ ~raising /\ Pushing /\ ~Top.transforming /\ Top.todo = <<>>
  /\ Pop
  /\ UNCHANGED <<connections, raising, ops, history>>

(* An error ends the push, and with it the pushes it was forwarded by.     *)
Abort ==
  /\ raising /\ Pushing
  /\ Pop
  /\ UNCHANGED <<connections, raising, ops, history>>

(* A transformer catches the error of its own operation; the session       *)
(* reports the others.                                                     *)
Handle ==
  /\ raising /\ (Pushing => Top.transforming)
  /\ raising' = FALSE
  /\ UNCHANGED <<connections, pushes, ops, history>>

PushStep == Transformed \/ Forward \/ Delivered \/ Abort

Next ==
  \/ \E f \in Feeder : Make(f) \/ Put(f) \/ PutUnknown(f)
  \/ \E src, dest \in Feeder :
       \/ Attach(src, dest)
       \/ \E output \in BOOLEAN : AttachFails(src, dest, output)
  \/ TransformerFails
  \/ PushStep
  \/ Handle

(* The interpreter keeps running what it started.                          *)
Spec == Init /\ [][Next]_vars /\ WF_vars(PushStep)

-----------------------------------------------------------------------------
(* Properties                                                              *)

(* Whatever transformers do to the graph in between, a value that has gone  *)
(* through a feeder was forwarded to exactly the feeders attached to it     *)
(* when it arrived, in attach order; those attached later do not get it.   *)
ForwardsWhatItFound ==
  [][ Delivered => Top.sent = Top.found ]_vars

(* The feeders reached from f, depth first, in attach order, no deeper than *)
(* the bound on nested pushes.                                             *)
DepthFirst[n \in 0..MaxDepth] ==
  [f \in Registered |->
     IF n = 0 THEN <<f>>
     ELSE LET after[i \in 0..Len(connections[f])] ==
                IF i = 0 THEN <<f>>
                ELSE after[i - 1] \o DepthFirst[n - 1][connections[f][i]]
          IN  after[Len(connections[f])]]

(* A put that no transformer and no error disturbs reaches every attached   *)
(* feeder, once for each path to it, depth first and in attach order.      *)
DeliversDepthFirst ==
  [][ Delivered /\ Len(pushes) = 1 /\ calm
        => visited = DepthFirst[MaxDepth][Top.feeder] ]_vars

(* The recursion is as deep as the stack allows.                          *)
Overflow == Len(pushes) = MaxDepth

(* A put returns, whatever its transformers do to the graph and whichever   *)
(* of them fail, unless the recursion of feeder_put_value overflows the     *)
(* stack (attaching in a circle is not refused).                           *)
PutsReturn == Pushing ~> (~Pushing \/ Overflow)

=============================================================================
