---------------------------- MODULE ControlProofs ---------------------------
(***************************************************************************)
(* Proofs about non-local control (module Control), for every set of tags   *)
(* and every bound: types, the frames a signal may not pass, where a return *)
(* lands, and that unwindProtect implements Unwind.                        *)
(***************************************************************************)
EXTENDS Control, SequenceTheorems, TLAPS

(* Activations are numbered in the order they begin, above the session's.  *)
Ordered ==
  /\ stack[1].owner = "session"
  /\ \A i \in 1..Len(stack) : stack[i].id <= lastId
  /\ \A i, j \in 1..Len(stack) : i < j => stack[i].id < stack[j].id
  /\ \A a \in cleaned : a <= lastId

(* A signal in flight unwinds the stack it was raised on.                  *)
InFlight ==
  outcome # Value =>
    /\ Len(stack) <= Len(raisedAt)
    /\ \A i \in 1..Len(stack) : raisedAt[i] = stack[i]

(* The inductive invariant.                                                *)
ControlInv == TypeOK /\ Ordered /\ InFlight /\ SignalsStop

-----------------------------------------------------------------------------
(* The stack                                                               *)

LEMMA StackTyped ==
  ASSUME TypeOK
  PROVE  /\ Len(stack) \in Nat \ {0} /\ DOMAIN stack = 1..Len(stack)
         /\ \A i \in 1..Len(stack) : stack[i] \in Frame
         /\ Top \in Frame
<1>1. stack \in Seq(Frame) /\ stack # <<>>
  BY DEF TypeOK
<1>2. Len(stack) \in Nat \ {0} /\ DOMAIN stack = 1..Len(stack)
  BY <1>1, EmptySeq, LenProperties
<1>3. \A i \in 1..Len(stack) : stack[i] \in Frame
  BY <1>1, ElementOfSeq
<1> QED
  BY <1>2, <1>3 DEF Top

(* Every activation but the session's has one below it.                    *)
LEMMA BelowTyped ==
  ASSUME TypeOK, Ordered, Top.owner # "session"
  PROVE  /\ Len(stack) > 1
         /\ Below \in Seq(Frame) /\ Below # <<>>
         /\ Len(Below) = Len(stack) - 1
         /\ \A i \in 1..Len(Below) : Below[i] = stack[i]
<1>1. Len(stack) > 1
  BY StackTyped DEF Ordered, Top
<1>2. \A i \in 1..(Len(stack) - 1) : stack[i] \in Frame
  BY StackTyped
<1>3. /\ Below \in Seq(Frame) /\ Len(Below) = Len(stack) - 1
      /\ \A i \in 1..Len(Below) : Below[i] = stack[i]
  BY <1>1, <1>2, StackTyped, SubSeqProperties DEF Below
<1> QED
  BY <1>1, <1>3

(* The session's activation is the only one that may have no number.       *)
LEMMA OnlySessionIsZero ==
  ASSUME TypeOK, Ordered, Top.owner # "session"
  PROVE  Top.id \in Id
<1>1. stack[1].id < Top.id /\ stack[1].id \in Nat
  <2>1. 1 \in 1..Len(stack) /\ Len(stack) \in 1..Len(stack) /\ 1 < Len(stack)
    BY BelowTyped, StackTyped
  <2>2. stack[1].id \in Id \cup {0}
    BY <2>1, StackTyped DEF Frame
  <2> QED
    BY <2>1, <2>2, ControlAssumption DEF Ordered, Top, Id
<1>2. Top.id \in Id \cup {0}
  BY StackTyped DEF Frame
<1> QED
  BY <1>1, <1>2

(* Ending an activation keeps the order.                                   *)
LEMMA Popped ==
  ASSUME TypeOK, Ordered, Top.owner # "session", stack' = Below,
         lastId' = lastId, cleaned' \subseteq cleaned \cup {Top.id}
  PROVE  stack' \in Seq(Frame) /\ stack' # <<>> /\ Ordered'
<1>1. /\ stack' \in Seq(Frame) /\ stack' # <<>>
      /\ Len(stack') = Len(stack) - 1
      /\ \A i \in 1..Len(stack') : stack'[i] = stack[i]
  BY BelowTyped
<1>2. Len(stack) \in Nat /\ Len(stack) > 1
  BY BelowTyped, StackTyped
<1>3. \A a \in cleaned' : a <= lastId'
  BY StackTyped DEF Ordered, Top
<1> QED
  BY <1>1, <1>2, <1>3 DEF Ordered

(* Starting one above a prefix of the stack keeps it too.                  *)
LEMMA Pushed ==
  ASSUME TypeOK, Ordered,
         NEW below \in Seq(Frame), below # <<>>, Len(below) <= Len(stack),
         \A i \in 1..Len(below) : below[i] = stack[i],
         NEW frame \in Frame, frame.id = lastId + 1, Start(below, frame),
         cleaned' \subseteq cleaned \cup {Top.id}
  PROVE  /\ stack' \in Seq(Frame) /\ stack' # <<>> /\ lastId' \in Id
         /\ Len(stack') = Len(below) + 1
         /\ \A i \in 1..Len(below) : stack'[i] = stack[i]
         /\ stack'[Len(below) + 1] = frame
         /\ Ordered'
<1>1. stack' = Append(below, frame) /\ lastId' = lastId + 1 /\ lastId' \in Id
  BY DEF Start
<1>2. /\ stack' \in Seq(Frame) /\ Len(stack') = Len(below) + 1
      /\ \A i \in 1..Len(below) : stack'[i] = below[i]
      /\ stack'[Len(below) + 1] = frame
  BY <1>1, AppendProperties
<1>3. Len(below) \in Nat /\ Len(below) >= 1 /\ Len(stack) \in Nat
  BY EmptySeq, StackTyped
<1>4. lastId \in Nat /\ \A i \in 1..Len(stack) : stack[i].id \in Nat
  BY StackTyped, ControlAssumption DEF TypeOK, Id, Frame
<1>5. \A a \in cleaned' : a <= lastId'
  <2>1. \A a \in cleaned : a \in Nat
    BY ControlAssumption DEF TypeOK, Id
  <2>2. Top.id <= lastId
    BY StackTyped DEF Ordered, Top
  <2> QED
    BY <1>1, <1>4, <2>1, <2>2, StackTyped DEF Ordered, Top
<1>6. stack'[1].owner = "session"
  BY <1>2, <1>3 DEF Ordered
<1>7. \A i \in 1..Len(stack') : stack'[i].id <= lastId'
  BY <1>1, <1>2, <1>3, <1>4 DEF Ordered
<1>8. \A i, j \in 1..Len(stack') : i < j => stack'[i].id < stack'[j].id
  <2> SUFFICES ASSUME NEW i \in 1..Len(stack'), NEW j \in 1..Len(stack'), i < j
               PROVE  stack'[i].id < stack'[j].id
    OBVIOUS
  <2>1. i \in 1..Len(below) /\ stack'[i] = stack[i]
    BY <1>2, <1>3
  <2>2. CASE j = Len(below) + 1
    BY <1>2, <1>3, <1>4, <2>1, <2>2 DEF Ordered
  <2>3. CASE j \in 1..Len(below)
    BY <1>2, <1>3, <2>1, <2>3 DEF Ordered
  <2> QED
    BY <1>2, <1>3, <2>2, <2>3
<1> QED
  BY <1>1, <1>2, <1>3, <1>5, <1>6, <1>7, <1>8 DEF Ordered

-----------------------------------------------------------------------------
(* Values and signals                                                      *)

LEMMA SignalKinds ==
  /\ Value \in Outcome /\ Failure \in Signal /\ Signal \subseteq Outcome
  /\ \A s \in Outcome : s = Value \/ s \in Signal
  /\ \A s \in Signal : s # Value /\ s.kind \in {"return", "thrown", "runtime"}
  /\ \A s \in Signal : s.kind = "return" => s.to \in Id \cup {NoTarget}
  /\ \A s \in Signal : s.kind = "runtime" => s = Failure
  /\ \A t \in Id \cup {NoTarget} : Return(t) \in Signal
  /\ \A k \in Tag : Thrown(k) \in Signal
  /\ Failure.kind = "runtime" /\ Value.kind = "value"
BY DEF Value, Failure, Signal, Outcome, Return, Thrown

(* The frame's own check turns a return into a value or changes nothing.   *)
LEMMA ResultTyped ==
  ASSUME TypeOK
  PROVE  /\ Result \in Outcome
         /\ Result # Value => Result = outcome /\ ~Caught(Top, outcome)
BY SignalKinds DEF Result, TypeOK

(* The frames a program starts are frames.                                 *)
LEMMA NewFrameTyped ==
  ASSUME TypeOK, NEW owner \in Owner, NEW block \in BOOLEAN,
         NEW h \in Id \cup {NoTarget}, NEW tags \in SUBSET Tag,
         NEW saved \in Outcome, lastId + 1 \in Id
  PROVE  /\ NewFrame(owner, block, h, tags, saved) \in Frame
         /\ NewFrame(owner, block, h, tags, saved).id = lastId + 1
         /\ NewFrame(owner, block, h, tags, saved).owner = owner
         /\ NewFrame(owner, block, h, tags, saved).saved = saved
BY DEF NewFrame, Frame

LEMMA BodyTyped ==
  ASSUME TypeOK, NEW b \in Body
  PROVE  b[1] \in BOOLEAN /\ b[2] \in Id \cup {NoTarget}
<1>1. CASE b = <<TRUE, NoTarget>>
  BY <1>1
<1>2. CASE \E h \in closures : b = <<FALSE, h>>
  BY <1>2 DEF TypeOK
<1> QED
  BY <1>1, <1>2 DEF Body

-----------------------------------------------------------------------------
(* What the steps have in common                                           *)

(* A signal raised on the stack as it is has passed nothing.               *)
LEMMA Raised ==
  ASSUME stack' \in Seq(Frame), raisedAt' = stack'
  PROVE  InFlight' /\ SignalsStop'
<1>1. Len(stack') \in Nat
  BY LenProperties
<1>2. Passed' = {}
  BY <1>1 DEF Passed
<1> QED
  BY <1>1, <1>2 DEF InFlight, SignalsStop

(* Nothing is in flight.                                                   *)
LEMMA Landed ==
  ASSUME outcome' = Value
  PROVE  InFlight' /\ SignalsStop'
BY DEF InFlight, SignalsStop

(* What a frame that lets s pass, changed or not, has to be.               *)
LetsPass(f, s) ==
  /\ outcome # Value /\ s \in {outcome, Failure}
  /\ f.owner \notin {"thread", "protect"}
  /\ f.owner = "file" => s = Failure
  /\ s.kind = "return" => f.owner # "each" /\ (f.target => f.id # s.to)
  /\ s.kind = "thrown" /\ f.owner = "catch" => s.key \notin f.tags

LEMMA PassedOn ==
  ASSUME ControlInv, Top.owner # "session", NEW s \in Outcome, PassOn(s),
         lastId' = lastId, cleaned' = cleaned,
         s # Value => LetsPass(Top, s)
  PROVE  /\ stack' \in Seq(Frame) /\ stack' # <<>>
         /\ outcome' \in Outcome /\ raisedAt' \in Seq(Frame)
         /\ Ordered' /\ InFlight' /\ SignalsStop'
<1> USE DEF ControlInv
<1>1. stack' \in Seq(Frame) /\ stack' # <<>> /\ Ordered'
  BY Popped DEF PassOn
<1>2. outcome' \in Outcome /\ raisedAt' \in Seq(Frame)
  BY EmptySeq DEF PassOn, TypeOK
<1>3. CASE s = Value
  BY <1>1, <1>2, <1>3, Landed DEF PassOn
<1>4. CASE s # Value
  <2>1. outcome' = s /\ raisedAt' = raisedAt /\ LetsPass(Top, s)
    BY <1>4 DEF PassOn
  <2>2. /\ Len(stack) \in Nat /\ Len(stack') = Len(stack) - 1
        /\ \A i \in 1..Len(stack') : stack'[i] = stack[i]
        /\ Len(raisedAt) \in Nat
    BY BelowTyped, StackTyped, LenProperties DEF PassOn, TypeOK
  <2>3. InFlight'
    BY <2>1, <2>2 DEF InFlight, LetsPass
  <2>4. raisedAt[Len(stack)] = Top
    BY <2>1, <2>2, StackTyped DEF InFlight, LetsPass, Top
  <2>5. Passed' \subseteq Passed \cup {Top}
    BY <2>1, <2>2, <2>4 DEF Passed
  <2>6. SignalsStop'
    <3> SUFFICES ASSUME NEW f \in Passed'
                 PROVE  /\ f.owner \notin {"thread", "protect"}
                        /\ f.owner = "file" => s = Failure
                        /\ s.kind = "return" =>
                             f.owner # "each" /\ (f.target => f.id # s.to)
                        /\ s.kind = "thrown" /\ f.owner = "catch" => s.key \notin f.tags
      BY <2>1 DEF SignalsStop
    <3>1. CASE f = Top
      BY <2>1, <3>1 DEF LetsPass
    <3>2. CASE f \in Passed /\ s = outcome
      BY <2>1, <3>2 DEF LetsPass, SignalsStop
    <3>3. CASE f \in Passed /\ s = Failure
      BY <2>1, <3>3, SignalKinds DEF LetsPass, SignalsStop
    <3> QED
      BY <2>1, <2>5, <3>1, <3>2, <3>3 DEF LetsPass
  <2> QED
    BY <1>1, <1>2, <2>3, <2>6
<1> QED
  BY <1>3, <1>4

(* A handler takes the place of the frame that ends.                       *)
LEMMA Handled ==
  ASSUME ControlInv, Top.owner # "session",
         NEW owner \in {"call", "cleanup"}, NEW saved \in Outcome,
         NEW others \in SUBSET Outcome, Handle(owner, saved, others),
         cleaned' \subseteq cleaned \cup {Top.id}
  PROVE  /\ stack' \in Seq(Frame) /\ stack' # <<>> /\ lastId' \in Id \cup {0}
         /\ outcome' \in Outcome /\ raisedAt' \in Seq(Frame)
         /\ Ordered' /\ InFlight' /\ SignalsStop'
         /\ \/ stack' = Below
            \/ /\ stack' = Append(Below, stack'[Len(stack)])
               /\ Len(stack') = Len(stack)
               /\ stack'[Len(stack)].owner = owner
               /\ stack'[Len(stack)].saved = saved
<1> USE DEF ControlInv
<1> DEFINE frame(b) == NewFrame(owner, b[1], b[2], {}, saved)
<1>1. /\ Below \in Seq(Frame) /\ Below # <<>>
      /\ Len(stack) \in Nat /\ Len(Below) = Len(stack) - 1
      /\ \A i \in 1..Len(Below) : Below[i] = stack[i]
  BY BelowTyped, StackTyped
<1>2. CASE /\ \E b \in Body : Start(Below, frame(b))
           /\ outcome' = Value /\ raisedAt' = <<>>
  <2>1. PICK b \in Body : Start(Below, frame(b))
    BY <1>2
  <2>2. b[1] \in BOOLEAN /\ b[2] \in Id \cup {NoTarget} /\ lastId + 1 \in Id
    BY <2>1, BodyTyped DEF Start
  <2>3. /\ frame(b) \in Frame /\ frame(b).id = lastId + 1
        /\ frame(b).owner = owner /\ frame(b).saved = saved
    BY <2>2, NewFrameTyped DEF Owner
  <2> HIDE DEF frame
  <2>4. /\ stack' \in Seq(Frame) /\ stack' # <<>> /\ lastId' \in Id /\ Ordered'
        /\ Len(stack') = Len(Below) + 1 /\ stack'[Len(Below) + 1] = frame(b)
    BY <1>1, <2>1, <2>3, Pushed
  <2>5. stack' = Append(Below, frame(b))
    BY <2>1 DEF Start
  <2>6. stack'[Len(stack)] = frame(b) /\ Len(stack') = Len(stack)
    BY <1>1, <2>4
  <2>7. outcome' \in Outcome /\ raisedAt' \in Seq(Frame)
    BY <1>2, SignalKinds, EmptySeq DEF Outcome
  <2> QED
    BY <1>2, <2>3, <2>4, <2>5, <2>6, <2>7, Landed
<1>3. CASE /\ stack' = Below /\ UNCHANGED lastId
           /\ outcome' \in others \cup {Failure}
           /\ raisedAt' = IF outcome' = Value THEN <<>> ELSE Below
  <2>1. stack' \in Seq(Frame) /\ stack' # <<>> /\ Ordered'
    BY <1>3, Popped
  <2>2. outcome' \in Outcome
    BY <1>3, SignalKinds
  <2>3. lastId' \in Id \cup {0}
    BY <1>3 DEF TypeOK
  <2>4. raisedAt' \in Seq(Frame)
    BY <1>1, <1>3, EmptySeq
  <2>5. InFlight' /\ SignalsStop'
    <3>1. CASE outcome' = Value
      BY <3>1, Landed
    <3>2. CASE outcome' # Value
      BY <1>3, <2>1, <3>2, Raised
    <3> QED
      BY <3>1, <3>2
  <2> QED
    BY <1>3, <2>1, <2>2, <2>3, <2>4, <2>5
<1> QED
  BY <1>2, <1>3 DEF Handle

-----------------------------------------------------------------------------
(* The actions                                                             *)

(* The statements: the stack stays, a signal may be raised on it.          *)
LEMMA StatementStep ==
  ASSUME ControlInv, MakeBareFn \/ Capture \/ RaiseSignal
  PROVE  ControlInv'
<1> USE DEF ControlInv
<1>1. /\ stack' = stack /\ stack \in Seq(Frame) /\ lastId' = lastId
      /\ cleaned' = cleaned /\ reported' = reported /\ ops' \in 0..MaxOps
      /\ outcome = Value /\ Top.home \in Id \cup {NoTarget}
  BY StackTyped, ControlAssumption
     DEF TypeOK, Frame, MakeBareFn, Capture, RaiseSignal, Statement, Running,
         heap, history
<1>2. /\ closures' \subseteq Id \cup {NoTarget} /\ escapes' \subseteq Id
      /\ suspended' \subseteq Id \cup {NoTarget}
  BY <1>1 DEF TypeOK, MakeBareFn, Capture, RaiseSignal, heap, NoTarget
<1>3. \/ outcome' = Value /\ raisedAt' = raisedAt
      \/ outcome' \in Signal /\ raisedAt' = stack
  <2>1. CASE MakeBareFn
    BY <1>1, <2>1 DEF MakeBareFn, history
  <2>2. CASE Capture
    BY <1>1, <2>2, SignalKinds DEF Capture, Raise
  <2>3. CASE RaiseSignal
    <3>1. escapes \cup suspended \subseteq Id \cup {NoTarget}
      BY DEF TypeOK
    <3> QED
      BY <1>1, <2>3, <3>1, SignalKinds DEF RaiseSignal, Raise
  <2> QED
    BY <2>1, <2>2, <2>3
<1>4. TypeOK'
  BY <1>1, <1>2, <1>3, SignalKinds DEF TypeOK
<1>5. Ordered'
  BY <1>1 DEF Ordered
<1> QED
  BY <1>1, <1>3, <1>4, <1>5, Raised, Landed

(* The program applies something: a frame above the running one.           *)
LEMMA ApplyStep ==
  ASSUME ControlInv, NEW owner \in Owner, NEW block \in BOOLEAN,
         NEW h \in Id \cup {NoTarget}, NEW tags \in SUBSET Tag, MayApply,
         Start(stack, NewFrame(owner, block, h, tags, Value)),
         UNCHANGED <<outcome, heap, ops, history>>
  PROVE  /\ ControlInv'
         /\ stack' = Append(stack, stack'[Len(stack) + 1])
         /\ Len(stack') = Len(stack) + 1
         /\ stack'[Len(stack) + 1].owner = owner
         /\ stack'[Len(stack) + 1].id = lastId + 1
<1> USE DEF ControlInv
<1> DEFINE frame == NewFrame(owner, block, h, tags, Value)
<1>1. frame \in Frame /\ frame.id = lastId + 1 /\ frame.owner = owner
  <2>1. lastId + 1 \in Id /\ Value \in Outcome
    BY SignalKinds DEF Start
  <2> QED
    BY <2>1, NewFrameTyped
<1> HIDE DEF frame
<1>2. stack \in Seq(Frame) /\ stack # <<>> /\ Len(stack) \in Nat
  BY StackTyped DEF TypeOK
<1>3. Start(stack, frame) /\ cleaned' = cleaned
  BY DEF frame, history
<1>4. /\ stack' \in Seq(Frame) /\ stack' # <<>> /\ lastId' \in Id /\ Ordered'
      /\ Len(stack') = Len(stack) + 1 /\ stack'[Len(stack) + 1] = frame
  BY <1>1, <1>2, <1>3, Pushed
<1>5. outcome' = Value
  BY DEF MayApply, Running
<1>6. TypeOK'
  BY <1>4 DEF TypeOK, heap, history
<1> QED
  BY <1>1, <1>3, <1>4, <1>5, <1>6, Landed DEF Start

LEMMA ProgramApplies ==
  ASSUME ControlInv,
         \/ UseFile
         \/ \E b \in Body :
              \/ \E owner \in {"call", "protect", "thread", "each"} :
                   Apply(owner, b, {})
              \/ \E k \in Tag : Apply("catch", b, {k})
  PROVE  /\ ControlInv'
         /\ stack' = Append(stack, stack'[Len(stack) + 1])
         /\ Len(stack') = Len(stack) + 1
         /\ stack'[Len(stack) + 1].id = lastId + 1
         /\ cleaned' = cleaned
<1>1. CASE UseFile
  <2>1. /\ "file" \in Owner /\ FALSE \in BOOLEAN /\ {} \in SUBSET Tag
        /\ Top.home \in Id \cup {NoTarget}
    BY StackTyped DEF ControlInv, Frame, Owner
  <2>2. /\ MayApply /\ UNCHANGED <<outcome, heap, ops, history>>
        /\ Start(stack, NewFrame("file", FALSE, Top.home, {}, Value))
    BY <1>1 DEF UseFile
  <2>3. cleaned' = cleaned
    BY <2>2 DEF history
  <2> QED
    BY <2>1, <2>2, <2>3, ApplyStep
<1>2. ASSUME NEW b \in Body, NEW owner \in Owner, NEW tags \in SUBSET Tag,
             Apply(owner, b, tags)
      PROVE  /\ ControlInv'
             /\ stack' = Append(stack, stack'[Len(stack) + 1])
             /\ Len(stack') = Len(stack) + 1
             /\ stack'[Len(stack) + 1].id = lastId + 1
             /\ cleaned' = cleaned
  <2>1. b[1] \in BOOLEAN /\ b[2] \in Id \cup {NoTarget}
    BY BodyTyped DEF ControlInv
  <2>2. /\ MayApply /\ UNCHANGED <<outcome, heap, ops, history>>
        /\ Start(stack, NewFrame(owner, b[1], b[2], tags, Value))
    BY <1>2 DEF Apply
  <2>3. cleaned' = cleaned
    BY <2>2 DEF history
  <2> QED
    BY <2>1, <2>2, <2>3, ApplyStep
<1>3. /\ {"call", "protect", "thread", "each", "catch"} \subseteq Owner
      /\ {} \in SUBSET Tag /\ \A k \in Tag : {k} \in SUBSET Tag
  BY DEF Owner
<1> QED
  BY <1>1, <1>2, <1>3

(* An activation ends and hands its outcome on.                            *)
LEMMA EndStep ==
  ASSUME ControlInv, EndCall \/ EndThread \/ EndEach \/ EndFile
  PROVE  ControlInv' /\ stack' = Below /\ cleaned' = cleaned
<1> USE DEF ControlInv
<1> DEFINE Kept == lastId' = lastId /\ cleaned' = cleaned /\ ops' = ops
                   /\ reported' = reported /\ closures' = closures
                   /\ escapes' = escapes
<1>1. /\ Result \in Outcome
      /\ Result # Value => Result = outcome /\ outcome # Value
                           /\ ~Caught(Top, outcome)
  BY ResultTyped DEF TypeOK
<1>2. \E s \in Outcome :
        /\ PassOn(s) /\ Top.owner # "session" /\ Kept
        /\ s # Value => LetsPass(Top, s)
        /\ suspended' \subseteq Id \cup {NoTarget}
  <2>1. CASE EndCall
    <3>1. /\ PassOn(Result) /\ Kept /\ suspended' = suspended
          /\ Top.owner \in {"call", "catch"}
          /\ Top.owner = "catch" => ~(Result.kind = "thrown" /\ Result.key \in Top.tags)
      BY <2>1 DEF EndCall, Ends, heap
    <3>2. Result # Value => LetsPass(Top, Result)
      BY <1>1, <3>1 DEF LetsPass, Caught
    <3> QED
      BY <1>1, <3>1, <3>2 DEF TypeOK
  <2>2. CASE EndThread
    BY <2>2, SignalKinds DEF EndThread, Ends, heap, TypeOK, Outcome
  <2>3. CASE EndEach /\ Result.kind = "return"
    <3>1. Result.to \in Id \cup {NoTarget}
      BY <1>1, <2>3, SignalKinds
    <3> QED
      BY <2>3, <3>1, SignalKinds DEF EndEach, Ends, TypeOK, Outcome
  <2>4. CASE EndEach /\ Result.kind # "return"
    <3>1. /\ PassOn(Result) /\ Kept /\ suspended' = suspended /\ Top.owner = "each"
      BY <2>4 DEF EndEach, Ends
    <3>2. Result # Value => LetsPass(Top, Result)
      BY <1>1, <2>4, <3>1 DEF LetsPass
    <3> QED
      BY <1>1, <3>1, <3>2 DEF TypeOK
  <2>5. CASE EndFile
    <3> DEFINE s == IF Result = Value THEN Value ELSE Failure
    <3>1. PassOn(s) /\ Kept /\ suspended' = suspended /\ Top.owner = "file"
      BY <2>5 DEF EndFile, Ends, heap
    <3>2. s # Value => s = Failure /\ LetsPass(Top, s)
      BY <1>1, <3>1, SignalKinds DEF LetsPass
    <3>3. s \in Outcome
      BY SignalKinds DEF Outcome
    <3> QED
      BY <3>1, <3>2, <3>3 DEF TypeOK
  <2> QED
    BY <2>1, <2>2, <2>3, <2>4, <2>5
<1>3. PICK s \in Outcome :
        /\ PassOn(s) /\ Top.owner # "session" /\ Kept
        /\ s # Value => LetsPass(Top, s)
        /\ suspended' \subseteq Id \cup {NoTarget}
  BY <1>2
<1>4. /\ stack' \in Seq(Frame) /\ stack' # <<>>
      /\ outcome' \in Outcome /\ raisedAt' \in Seq(Frame)
      /\ Ordered' /\ InFlight' /\ SignalsStop'
  BY <1>3, PassedOn
<1>5. TypeOK'
  BY <1>3, <1>4 DEF TypeOK
<1> QED
  BY <1>3, <1>4, <1>5 DEF PassOn

(* A handler is applied, or could not be.                                  *)
LEMMA HandlerStep ==
  ASSUME ControlInv, CatchTag \/ EndProtect
  PROVE  ControlInv' /\ Top.owner # "session"
<1> USE DEF ControlInv
<1>1. CASE CatchTag
  <2>1. /\ Top.owner = "catch" /\ cleaned' = cleaned
        /\ Handle("call", Value, {Value} \cup {Return(t) : t \in escapes})
    BY <1>1 DEF CatchTag, Ends
  <2>2. {Value} \cup {Return(t) : t \in escapes} \in SUBSET Outcome
    BY SignalKinds DEF TypeOK
  <2>3. /\ stack' \in Seq(Frame) /\ stack' # <<>> /\ lastId' \in Id \cup {0}
        /\ outcome' \in Outcome /\ raisedAt' \in Seq(Frame)
        /\ Ordered' /\ InFlight' /\ SignalsStop'
    BY <2>1, <2>2, Handled
  <2> QED
    BY <1>1, <2>1, <2>3 DEF CatchTag, TypeOK, heap
<1>2. CASE EndProtect
  <2>1. /\ Top.owner = "protect" /\ cleaned' = cleaned \cup {Top.id}
        /\ Handle("cleanup", Result, {})
    BY <1>2 DEF EndProtect, Ends
  <2>2. Result \in Outcome /\ {} \in SUBSET Outcome
    BY ResultTyped
  <2>3. /\ stack' \in Seq(Frame) /\ stack' # <<>> /\ lastId' \in Id \cup {0}
        /\ outcome' \in Outcome /\ raisedAt' \in Seq(Frame)
        /\ Ordered' /\ InFlight' /\ SignalsStop'
    BY <2>1, <2>2, Handled
  <2>4. Top.id \in Id
    BY <2>1, StackTyped, OnlySessionIsZero
  <2> QED
    BY <1>2, <2>1, <2>3, <2>4 DEF EndProtect, TypeOK, heap
<1> QED
  BY <1>1, <1>2

(* The handler of a protected activation ends.                             *)
LEMMA CleanupStep ==
  ASSUME ControlInv, EndCleanup
  PROVE  ControlInv' /\ stack' = Below /\ cleaned' = cleaned
<1> USE DEF ControlInv
<1>1. /\ Top.owner = "cleanup" /\ lastId' = lastId /\ cleaned' = cleaned
      /\ UNCHANGED <<closures, escapes, suspended, ops, reported>>
  BY DEF EndCleanup, Ends, heap
<1>2. CASE Result = Value
  <2>1. /\ stack' = Below /\ outcome' = Top.saved
        /\ raisedAt' = IF Top.saved = Value THEN <<>> ELSE Below
    BY <1>2 DEF EndCleanup
  <2>2. stack' \in Seq(Frame) /\ stack' # <<>> /\ Ordered'
    BY <1>1, <2>1, Popped
  <2>3. outcome' \in Outcome /\ raisedAt' \in Seq(Frame)
    BY <2>1, <2>2, StackTyped, EmptySeq DEF Frame
  <2>4. InFlight' /\ SignalsStop'
    BY <2>1, <2>2, Landed, Raised
  <2> QED
    BY <1>1, <2>1, <2>2, <2>3, <2>4 DEF TypeOK
<1>3. CASE Result # Value
  <2>1. PassOn(Result)
    BY <1>3 DEF EndCleanup
  <2>2. Result \in Outcome /\ Result = outcome /\ ~Caught(Top, outcome)
    BY <1>3, ResultTyped
  <2>3. LetsPass(Top, Result)
    BY <1>1, <1>3, <2>2 DEF LetsPass, Caught
  <2>4. /\ stack' \in Seq(Frame) /\ stack' # <<>>
        /\ outcome' \in Outcome /\ raisedAt' \in Seq(Frame)
        /\ Ordered' /\ InFlight' /\ SignalsStop'
    BY <1>1, <2>1, <2>2, <2>3, PassedOn
  <2> QED
    BY <1>1, <2>1, <2>4 DEF TypeOK, PassOn
<1> QED
  BY <1>2, <1>3

LEMMA ReportStep ==
  ASSUME ControlInv, Report
  PROVE  ControlInv' /\ stack' = stack /\ cleaned' = cleaned
<1> USE DEF ControlInv
<1>1. /\ outcome' = Value /\ raisedAt' = <<>> /\ stack' = stack
      /\ lastId' = lastId /\ cleaned' = cleaned
      /\ UNCHANGED <<closures, escapes, suspended, ops>>
      /\ reported' \in {outcome, Failure}
  BY DEF Report, heap
<1>2. TypeOK'
  BY <1>1, SignalKinds, EmptySeq DEF TypeOK, Outcome
<1> QED
  BY <1>1, <1>2, Landed DEF Ordered

-----------------------------------------------------------------------------
(* The theorems                                                            *)

LEMMA InitControl == Init => ControlInv
<1> SUFFICES ASSUME Init PROVE ControlInv
  OBVIOUS
<1>1. Session \in Frame
  BY SignalKinds DEF Session, Frame, Owner, NoTarget, Outcome
<1>2. /\ stack = <<Session>> /\ stack \in Seq(Frame) /\ Len(stack) = 1
      /\ stack[1] = Session /\ stack # <<>>
  BY <1>1 DEF Init
<1>3. TypeOK
  BY <1>2, SignalKinds, EmptySeq, ControlAssumption DEF Init, TypeOK, Outcome
<1>4. Ordered
  BY <1>2 DEF Init, Ordered, Session
<1> QED
  BY <1>3, <1>4 DEF Init, ControlInv, InFlight, SignalsStop

LEMMA NextControl == ControlInv /\ [Next]_vars => ControlInv'
<1> SUFFICES ASSUME ControlInv, [Next]_vars PROVE ControlInv'
  OBVIOUS
<1>1. CASE Next
  BY <1>1, StatementStep, ProgramApplies, EndStep, HandlerStep, CleanupStep,
     ReportStep DEF Next, End
<1>2. CASE UNCHANGED vars
  BY <1>2 DEF vars, heap, history, ControlInv, TypeOK, Ordered, InFlight,
              SignalsStop, Passed
<1> QED
  BY <1>1, <1>2

(* The invariant that is inductive: a signal in flight unwinds the stack it *)
(* was raised on, frame by frame, and none of those it passed could stop it.*)
THEOREM ControlInvariant == Spec => []ControlInv
BY InitControl, NextControl, PTL DEF Spec

(* The stack, the outcome and the captured targets keep their types.       *)
THEOREM ControlTypes == Spec => []TypeOK
<1>1. ControlInv => TypeOK
  BY DEF ControlInv
<1> QED
  BY <1>1, ControlInvariant, PTL

(* A signal passes no frame that has to stop or change it.                 *)
THEOREM SignalsStopAtWalls == Spec => []SignalsStop
<1>1. ControlInv => SignalsStop
  BY DEF ControlInv
<1> QED
  BY <1>1, ControlInvariant, PTL

-----------------------------------------------------------------------------
(* Where a return lands                                                    *)

LEMMA LandingStep ==
  ASSUME ControlInv, [Next]_vars, outcome.kind = "return", outcome' = Value
  PROVE  \/ Top.target /\ Top.id = outcome.to
         \/ Top.owner \in {"thread", "session"}
         \/ Top.owner = "each" /\ outcome.to \in suspended'
         \/ Top.owner = "protect" /\ stack'[Len(stack')].saved = outcome
<1> USE DEF ControlInv
<1>1. outcome # Value /\ Failure # Value
  BY SignalKinds DEF Outcome
<1>2. CASE Result = Value
  BY <1>1, <1>2 DEF Result, Caught
<1>3. CASE Result # Value /\ Next
  <2>1. Result = outcome /\ Result \in Outcome
    BY <1>3, ResultTyped
  <2>2. CASE EndCall \/ CatchTag
    <3>1. CatchTag => FALSE
      BY <2>1 DEF CatchTag
    <3> QED
      BY <1>3, <2>2, <3>1 DEF EndCall, PassOn
  <2>3. CASE EndProtect
    <3>1. Top.owner = "protect" /\ Handle("cleanup", Result, {})
          /\ cleaned' = cleaned \cup {Top.id}
      BY <2>3 DEF EndProtect, Ends
    <3>2. stack' # Below
      BY <1>1, <3>1, BelowTyped, StackTyped, AppendProperties DEF Handle, Start
    <3>3. stack'[Len(stack)].saved = Result /\ Len(stack') = Len(stack)
      BY <2>1, <3>1, <3>2, Handled
    <3> QED
      BY <2>1, <3>1, <3>3
  <2>4. CASE EndCleanup \/ EndFile
    BY <1>1, <1>3, <2>4 DEF EndCleanup, EndFile, PassOn
  <2>5. CASE EndThread \/ Report
    BY <2>5 DEF EndThread, Report, Ends
  <2>6. CASE EndEach
    BY <2>1, <2>6 DEF EndEach, Ends
  <2>7. MakeBareFn \/ Capture \/ RaiseSignal => FALSE
    BY <1>1 DEF MakeBareFn, Capture, RaiseSignal, Statement, Running
  <2>8. UseFile \/ (\E b \in Body : \/ \E owner \in {"call", "protect", "thread", "each"} :
                                          Apply(owner, b, {})
                                     \/ \E k \in Tag : Apply("catch", b, {k})) => FALSE
    BY <1>1 DEF UseFile, Apply, MayApply, Running
  <2> QED
    BY <1>3, <2>2, <2>3, <2>4, <2>5, <2>6, <2>7, <2>8 DEF Next, End
<1>4. CASE UNCHANGED vars
  BY <1>1, <1>4 DEF vars
<1> QED
  BY <1>2, <1>3, <1>4

(* A return ends as a value only in the frame it aims at, or where a        *)
(* construct keeps it.                                                     *)
THEOREM ReturnsLand == Spec => ReturnsLandWhereAimed
BY ControlInvariant, LandingStep, PTL DEF Spec, ReturnsLandWhereAimed

-----------------------------------------------------------------------------
(* Refinement                                                              *)

(* Open activations are numbers up to lastId.                              *)
LEMMA OpenTyped ==
  ASSUME ControlInv
  PROVE  /\ OpenIds = {stack[i].id : i \in {j \in 1..Len(stack) : stack[j].owner = "protect"}}
         /\ \A a \in OpenIds \cup cleaned : a <= lastId /\ a \in Nat
         /\ lastId \in Nat
<1> USE DEF ControlInv
<1>1. OpenIds = {stack[i].id : i \in {j \in 1..Len(stack) : stack[j].owner = "protect"}}
  BY StackTyped DEF OpenIds
<1>2. \A i \in 1..Len(stack) : stack[i].id \in Id \cup {0} /\ stack[i].id <= lastId
  BY StackTyped DEF Frame, Ordered
<1>3. cleaned \subseteq Id /\ \A a \in cleaned : a <= lastId
  BY DEF TypeOK, Ordered
<1>4. lastId \in Nat /\ \A a \in Id \cup {0} : a \in Nat
  BY ControlAssumption DEF TypeOK, Id
<1> QED
  BY <1>1, <1>2, <1>3, <1>4

(* The stack with its last frame gone, or replaced by one that is not      *)
(* protected, has lost the last frame's number if that one was protected.  *)
LEMMA OpenWithoutTop ==
  ASSUME ControlInv, Top.owner # "session",
         \/ stack' = Below
         \/ /\ stack' = Append(Below, stack'[Len(stack)])
            /\ stack'[Len(stack)].owner # "protect"
            /\ Len(stack') = Len(stack)
  PROVE  OpenIds' = IF Top.owner = "protect" THEN OpenIds \ {Top.id} ELSE OpenIds
<1> USE DEF ControlInv
<1> DEFINE n == Len(stack)
           low == {j \in 1..(n - 1) : stack[j].owner = "protect"}
<1>1. /\ n \in Nat /\ n > 1 /\ Below \in Seq(Frame) /\ Len(Below) = n - 1
      /\ \A i \in 1..(n - 1) : Below[i] = stack[i]
  BY BelowTyped, StackTyped
<1>2. {j \in DOMAIN stack' : stack'[j].owner = "protect"} = low
      /\ \A i \in low : stack'[i] = stack[i]
  <2>1. CASE stack' = Below
    BY <1>1, <2>1, LenProperties
  <2>2. CASE /\ stack' = Append(Below, stack'[n])
             /\ stack'[n].owner # "protect" /\ Len(stack') = n
    <3>1. \A i \in 1..(n - 1) : stack'[i] = stack[i]
      BY <1>1, <2>2, AppendProperties
    <3>2. DOMAIN stack' = 1..n
      BY <1>1, <2>2
    <3> QED
      BY <1>1, <2>2, <3>1, <3>2
  <2> QED
    BY <2>1, <2>2
<1>3. OpenIds' = {stack[i].id : i \in low}
  BY <1>2 DEF OpenIds
<1>4. {j \in 1..n : stack[j].owner = "protect"} =
         IF Top.owner = "protect" THEN low \cup {n} ELSE low
  BY <1>1 DEF Top
<1>5. OpenIds = IF Top.owner = "protect" THEN {stack[i].id : i \in low} \cup {Top.id}
                ELSE {stack[i].id : i \in low}
  BY <1>4, OpenTyped DEF Top
<1>6. \A i \in low : stack[i].id # Top.id
  <2>1. \A i \in low : stack[i].id < Top.id /\ stack[i].id \in Id \cup {0}
    BY <1>1, StackTyped DEF Ordered, Top, Frame
  <2>2. \A a \in Id \cup {0} : a \in Nat
    BY ControlAssumption DEF Id
  <2> QED
    BY <2>1, <2>2
<1> QED
  BY <1>3, <1>5, <1>6

(* A frame pushed by the program enters if it is protected.                *)
LEMMA OpenWithNew ==
  ASSUME ControlInv, stack' = Append(stack, stack'[Len(stack) + 1]),
         Len(stack') = Len(stack) + 1, stack'[Len(stack) + 1].id = lastId + 1
  PROVE  OpenIds' \in {OpenIds, OpenIds \cup {lastId + 1}}
<1> USE DEF ControlInv
<1> DEFINE n == Len(stack)
           low == {j \in 1..n : stack[j].owner = "protect"}
<1>1. n \in Nat /\ stack \in Seq(Frame)
  BY StackTyped DEF TypeOK
<1>2. DOMAIN stack' = 1..(n + 1) /\ \A i \in 1..n : stack'[i] = stack[i]
  BY <1>1, AppendProperties
<1>3. {j \in DOMAIN stack' : stack'[j].owner = "protect"} \in {low, low \cup {n + 1}}
  BY <1>1, <1>2
<1>4. OpenIds' \in {{stack'[i].id : i \in low}, {stack'[i].id : i \in low \cup {n + 1}}}
  BY <1>3 DEF OpenIds
<1>5. {stack'[i].id : i \in low} = OpenIds
  BY <1>2, OpenTyped
<1>6. {stack'[i].id : i \in low \cup {n + 1}} = OpenIds \cup {lastId + 1}
  BY <1>5
<1> QED
  BY <1>4, <1>5, <1>6

LEMMA UnwindStep ==
  ASSUME ControlInv, [Next]_vars
  PROVE  [Brackets!Next]_(Brackets!vars)
<1> USE DEF ControlInv
<1>1. CASE UseFile \/ (\E b \in Body :
             \/ \E owner \in {"call", "protect", "thread", "each"} : Apply(owner, b, {})
             \/ \E k \in Tag : Apply("catch", b, {k}))
  <2>1. /\ stack' = Append(stack, stack'[Len(stack) + 1]) /\ cleaned' = cleaned
        /\ Len(stack') = Len(stack) + 1 /\ stack'[Len(stack) + 1].id = lastId + 1
    BY <1>1, ProgramApplies
  <2>2. OpenIds' \in {OpenIds, OpenIds \cup {lastId + 1}}
    BY <2>1, OpenWithNew
  <2>3. lastId + 1 \in Id
    BY <1>1 DEF UseFile, Apply, Start
  <2>4. \A a \in OpenIds \cup cleaned : a < lastId + 1
    BY OpenTyped
  <2>5. CASE OpenIds' = OpenIds
    BY <2>1, <2>5 DEF Brackets!vars
  <2>6. CASE OpenIds' = OpenIds \cup {lastId + 1}
    BY <2>1, <2>3, <2>4, <2>6 DEF Brackets!Next, Brackets!Enter
  <2> QED
    BY <2>2, <2>5, <2>6
<1>2. CASE EndProtect
  <2>1. /\ Top.owner = "protect" /\ cleaned' = cleaned \cup {Top.id}
        /\ Handle("cleanup", Result, {})
    BY <1>2 DEF EndProtect, Ends
  <2>2. Result \in Outcome /\ {} \in SUBSET Outcome
    BY ResultTyped
  <2>3. \/ stack' = Below
        \/ /\ stack' = Append(Below, stack'[Len(stack)])
           /\ Len(stack') = Len(stack) /\ stack'[Len(stack)].owner = "cleanup"
    BY <2>1, <2>2, Handled
  <2>4. OpenIds' = OpenIds \ {Top.id}
    BY <2>1, <2>3, OpenWithoutTop
  <2>5. Top.id \in Id
    BY <2>1, OnlySessionIsZero
  <2>6. Top.id \in OpenIds
    BY <2>1, OpenTyped, StackTyped DEF Top
  <2>7. \A a \in OpenIds : a <= Top.id
    <3>1. \A i \in 1..Len(stack) : stack[i].id <= Top.id
      <4>1. \A i \in 1..Len(stack) : i < Len(stack) => stack[i].id < Top.id
        BY StackTyped DEF Ordered, Top
      <4>2. \A i \in 1..Len(stack) : stack[i].id \in Nat
        BY StackTyped, ControlAssumption DEF Frame, Id
      <4>3. Top.id \in Nat
        BY <2>5, ControlAssumption DEF Id
      <4> QED
        BY <4>1, <4>2, <4>3, StackTyped DEF Top
    <3> QED
      BY <3>1, OpenTyped
  <2> QED
    BY <2>1, <2>4, <2>5, <2>6, <2>7 DEF Brackets!Next, Brackets!Clean
<1>3. CASE CatchTag
  <2>1. /\ Top.owner = "catch" /\ cleaned' = cleaned
        /\ Handle("call", Value, {Value} \cup {Return(t) : t \in escapes})
    BY <1>3 DEF CatchTag, Ends
  <2>2. {Value} \cup {Return(t) : t \in escapes} \in SUBSET Outcome
    BY SignalKinds DEF TypeOK
  <2>3. \/ stack' = Below
        \/ /\ stack' = Append(Below, stack'[Len(stack)])
           /\ Len(stack') = Len(stack) /\ stack'[Len(stack)].owner = "call"
    BY <2>1, <2>2, Handled
  <2>4. OpenIds' = OpenIds
    BY <2>1, <2>3, OpenWithoutTop
  <2> QED
    BY <2>1, <2>4 DEF Brackets!vars
<1>4. CASE EndCall \/ EndThread \/ EndEach \/ EndFile \/ EndCleanup
  <2>1. stack' = Below /\ cleaned' = cleaned
    BY <1>4, EndStep, CleanupStep
  <2>2. Top.owner \notin {"protect", "session"}
    BY <1>4 DEF EndCall, EndThread, EndEach, EndFile, EndCleanup, Ends
  <2>3. OpenIds' = OpenIds
    BY <2>1, <2>2, OpenWithoutTop
  <2> QED
    BY <2>1, <2>3 DEF Brackets!vars
<1>5. CASE MakeBareFn \/ Capture \/ RaiseSignal \/ Report \/ UNCHANGED vars
  <2>1. stack' = stack /\ cleaned' = cleaned
    BY <1>5 DEF MakeBareFn, Capture, RaiseSignal, Report, vars, history
  <2> QED
    BY <2>1 DEF Brackets!vars, OpenIds
<1> QED
  BY <1>1, <1>2, <1>3, <1>4, <1>5 DEF Next, End

(* unwindProtect implements Unwind: whatever leaves a protected activation, *)
(* its handler is applied, once, innermost first.                          *)
THEOREM ProtectImplementsUnwind == Spec => ImplementsUnwind
<1>1. Init => Brackets!Init
  BY DEF Init, Brackets!Init, OpenIds, Session
<1> QED
  BY <1>1, ControlInvariant, UnwindStep, PTL DEF Spec, ImplementsUnwind, Brackets!Spec

=============================================================================
