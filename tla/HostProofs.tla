----------------------------- MODULE HostProofs -----------------------------
(***************************************************************************)
(* Proofs about the three faces of the host, for every content and every    *)
(* bound.  An input stream (module Streams) returns every byte once and in  *)
(* order; the read-evaluate-print loop (module Repl) runs the text typed,   *)
(* cut into whole programs; and a RIDE connection (module Ride), whatever   *)
(* the requests, the size of the reads and the moment the peer leaves, says *)
(* the messages module Exchange promises.                                  *)
(***************************************************************************)
EXTENDS Ride, Streams, Repl, Recursion

-----------------------------------------------------------------------------
(* Streams: the invariant                                                  *)

Bytes  == Seq(Byte)
StreamAnswer == [op : {"line", "read", "wait"}, limit : Nat, value : Bytes, nil : BOOLEAN]
          \cup [op : {"lines"}, limit : Nat, value : Seq(Bytes), nil : BOOLEAN]

(* The state is made of what its declarations say.                          *)
StreamTypeOK ==
  /\ kind \in {"memory", "file", "child"} /\ child \in {"running", "exited", "killed"}
  /\ content \in Bytes /\ source \in Bytes /\ pipe \in Bytes /\ pending \in Bytes
  /\ got \in Bytes /\ lines \in Seq(Bytes) /\ answers \in Seq(StreamAnswer)
  /\ open \in BOOLEAN /\ job \in Jobs \cup {NoJob}

(* Only a child has a pipe, and memory needs no readahead.                  *)
Sides ==
  /\ kind = "memory" => pending = <<>>
  /\ kind # "child" => pipe = <<>> /\ child # "running"

(* What a primitive collects is its own.                                    *)
Collecting ==
  /\ Reading => open
  /\ ~Reading => got = <<>>
  /\ job.op # "lines" => lines = <<>>
  /\ job.op = "read" => Len(got) <= job.limit
  /\ job.op \in {"line", "lines"} => \A i \in 1..Len(got) : got[i] # NL

(* The bytes read, buffered and to come.                                    *)
Everything == BytesRead \o pending \o pipe \o source

(* They are the content, but for the end added to an unfinished last line.  *)
Conserved ==
  open => \/ Everything = content
          \/ /\ content # <<>> /\ Last(content) # NL
             /\ Everything = Append(content, NL)
             /\ AtEnd /\ got = <<>> /\ lines = <<>>

(* A short read met the end of the stream, and a line has no line end.      *)
AnswerOK(a) ==
  /\ a.op = "read" => \/ Len(a.value) = a.limit
                      \/ Len(a.value) < a.limit /\ (open => AtEnd)
  /\ a.op = "line" /\ ~a.nil => \A k \in DOMAIN a.value : a.value[k] # NL

AnswersOK == \A i \in 1..Len(answers) : AnswerOK(answers[i])

(* The inductive invariant.                                                *)
StreamInv == StreamTypeOK /\ Sides /\ Collecting /\ Conserved /\ AnswersOK

(* The bytes of answers and of lines, and what a state has read.            *)
AnsBytes(as)        == FlattenSeq([i \in DOMAIN as |-> Taken(as[i])])
LineBytes(ls)       == FlattenSeq([i \in DOMAIN ls |-> Append(ls[i], NL)])
ReadOf(as, ls, g)   == AnsBytes(as) \o LineBytes(ls) \o g
ToCome(ahead, p, s) == ahead \o (p \o s)

-----------------------------------------------------------------------------
(* Streams: bytes                                                          *)

LEMMA ByteConcat ==
  /\ \A u, v \in Bytes : u \o v \in Bytes
  /\ \A u, v, w \in Bytes : (u \o v) \o w = u \o (v \o w)
  /\ \A u \in Bytes : <<>> \o u = u /\ u \o <<>> = u
BY ConcatProperties, ConcatAssociative, ConcatEmptySeq DEF Bytes

LEMMA ByteUnit ==
  /\ <<>> \in Bytes /\ NL \in Byte
  /\ \A b \in Byte : <<b>> \in Bytes
  /\ \A u \in Bytes, b \in Byte : Append(u, b) = u \o <<b>> /\ Append(u, b) \in Bytes
<1>1. \A u \in Bytes, b \in Byte : Append(u, b) = u \o <<b>> /\ Append(u, b) \in Bytes
  BY AppendIsConcat, AppendProperties DEF Bytes
<1> QED
  BY <1>1, StreamsAssumption DEF Bytes

LEMMA LineBytesTyped ==
  ASSUME NEW ls \in Seq(Bytes)
  PROVE  /\ [i \in DOMAIN ls |-> Append(ls[i], NL)] \in Seq(Bytes)
         /\ Len([i \in DOMAIN ls |-> Append(ls[i], NL)]) = Len(ls)
         /\ LineBytes(ls) \in Bytes
<1>1. DOMAIN ls = 1..Len(ls) /\ Len(ls) \in Nat
  BY LenProperties
<1>2. \A i \in 1..Len(ls) : Append(ls[i], NL) \in Bytes
  BY ElementOfSeq, ByteUnit
<1>3. /\ [i \in 1..Len(ls) |-> Append(ls[i], NL)] \in Seq(Bytes)
      /\ Len([i \in 1..Len(ls) |-> Append(ls[i], NL)]) = Len(ls)
  BY <1>1, <1>2
<1> QED
  BY <1>1, <1>3, FlattenSeqTyped DEF LineBytes, Bytes

LEMMA LineBytesAppend ==
  ASSUME NEW ls \in Seq(Bytes), NEW l \in Bytes
  PROVE  /\ Append(ls, l) \in Seq(Bytes)
         /\ LineBytes(Append(ls, l)) = LineBytes(ls) \o Append(l, NL)
<1> DEFINE F(ms) == [i \in DOMAIN ms |-> Append(ms[i], NL)]
           ms == Append(ls, l)
<1>1. /\ ms \in Seq(Bytes) /\ Len(ms) = Len(ls) + 1 /\ Len(ls) \in Nat
      /\ \A i \in 1..Len(ls) : ms[i] = ls[i]
      /\ ms[Len(ls) + 1] = l
  BY AppendProperties, LenProperties
<1> HIDE DEF ms
<1>2. DOMAIN ls = 1..Len(ls) /\ DOMAIN ms = 1..(Len(ls) + 1)
  BY <1>1, LenProperties
<1>3. /\ F(ls) \in Seq(Bytes) /\ Len(F(ls)) = Len(ls)
      /\ F(ms) \in Seq(Bytes) /\ Len(F(ms)) = Len(ls) + 1
  BY <1>1, LineBytesTyped
<1>4. /\ \A i \in 1..Len(ls) : F(ls)[i] = Append(ls[i], NL)
      /\ \A i \in 1..(Len(ls) + 1) : F(ms)[i] = Append(ms[i], NL)
  BY <1>2
<1>5. Append(l, NL) \in Bytes
  BY ByteUnit
<1> HIDE DEF F
<1>6. ASSUME NEW i \in 1..Len(ls)
      PROVE  F(ms)[i] = F(ls)[i]
  <2>1. i \in 1..(Len(ls) + 1)
    BY <1>1
  <2> QED
    BY <1>1, <1>4, <2>1, Zenon
<1>7. F(ms)[Len(ls) + 1] = Append(l, NL)
  <2>1. Len(ls) + 1 \in 1..(Len(ls) + 1)
    BY <1>1
  <2> QED
    BY <1>1, <1>4, <2>1, Zenon
<1>8. FlattenSeq(F(ms)) = FlattenSeq(F(ls)) \o Append(l, NL)
  <2>1. PICK u, v, w : u = F(ls) /\ v = F(ms) /\ w = Append(l, NL)
    OBVIOUS
  <2>2. /\ u \in Seq(Seq(Byte)) /\ v \in Seq(Seq(Byte)) /\ w \in Seq(Byte)
        /\ Len(v) = Len(u) + 1 /\ v[Len(u) + 1] = w
        /\ \A i \in 1..Len(u) : v[i] = u[i]
    BY <1>3, <1>5, <1>6, <1>7, <2>1 DEF Bytes
  <2>3. FlattenSeq(v) = FlattenSeq(u) \o w
    BY <2>2, FlattenSeqMore
  <2> QED
    BY <2>1, <2>3
<1> QED
  BY <1>1, <1>8 DEF LineBytes, F, ms

LEMMA TakenTyped ==
  ASSUME NEW a \in StreamAnswer
  PROVE  Taken(a) \in Bytes
<1>1. CASE a.op = "read"
  BY <1>1 DEF StreamAnswer, Taken
<1>2. CASE a.op = "line"
  <2>1. a.value \in Bytes
    BY <1>2 DEF StreamAnswer
  <2> QED
    BY <1>2, <2>1, ByteUnit DEF Taken
<1>3. CASE a.op = "lines"
  <2>1. a.value \in Seq(Bytes)
    BY <1>3 DEF StreamAnswer
  <2>2. LineBytes(a.value) \in Bytes
    BY <2>1, LineBytesTyped
  <2> QED
    BY <1>3, <2>2 DEF Taken, LineBytes
<1>4. CASE a.op = "wait"
  BY <1>4, ByteUnit DEF Taken
<1> QED
  BY <1>1, <1>2, <1>3, <1>4 DEF StreamAnswer

LEMMA AnsBytesTyped ==
  ASSUME NEW as \in Seq(StreamAnswer)
  PROVE  /\ [i \in DOMAIN as |-> Taken(as[i])] \in Seq(Bytes)
         /\ Len([i \in DOMAIN as |-> Taken(as[i])]) = Len(as)
         /\ AnsBytes(as) \in Bytes
<1>1. DOMAIN as = 1..Len(as) /\ Len(as) \in Nat
  BY LenProperties
<1>2. \A i \in 1..Len(as) : Taken(as[i]) \in Bytes
  BY ElementOfSeq, TakenTyped
<1>3. /\ [i \in 1..Len(as) |-> Taken(as[i])] \in Seq(Bytes)
      /\ Len([i \in 1..Len(as) |-> Taken(as[i])]) = Len(as)
  <2> DEFINE f == [i \in 1..Len(as) |-> Taken(as[i])]
  <2>1. f \in [1..Len(as) -> Bytes]
    BY <1>2, Zenon
  <2> HIDE DEF f
  <2>2. f \in Seq(Bytes) /\ Len(f) = Len(as)
    BY <1>1, <2>1, MadeASeq
  <2> QED
    BY <2>2 DEF f
<1> QED
  BY <1>1, <1>3, FlattenSeqTyped DEF AnsBytes, Bytes

LEMMA AnsBytesAppend ==
  ASSUME NEW as \in Seq(StreamAnswer), NEW a \in StreamAnswer
  PROVE  /\ Append(as, a) \in Seq(StreamAnswer)
         /\ AnsBytes(Append(as, a)) = AnsBytes(as) \o Taken(a)
<1> DEFINE F(bs) == [i \in DOMAIN bs |-> Taken(bs[i])]
           bs == Append(as, a)
<1>1. /\ bs \in Seq(StreamAnswer) /\ Len(bs) = Len(as) + 1 /\ Len(as) \in Nat
      /\ \A i \in 1..Len(as) : bs[i] = as[i]
      /\ bs[Len(as) + 1] = a
  BY AppendProperties, LenProperties
<1> HIDE DEF bs
<1>2. DOMAIN as = 1..Len(as) /\ DOMAIN bs = 1..(Len(as) + 1)
  BY <1>1, LenProperties
<1>3. /\ F(as) \in Seq(Bytes) /\ Len(F(as)) = Len(as)
      /\ F(bs) \in Seq(Bytes) /\ Len(F(bs)) = Len(as) + 1
  BY <1>1, AnsBytesTyped
<1>4. /\ \A i \in 1..Len(as) : F(as)[i] = Taken(as[i])
      /\ \A i \in 1..(Len(as) + 1) : F(bs)[i] = Taken(bs[i])
  BY <1>2
<1>5. Taken(a) \in Bytes
  BY TakenTyped
<1> HIDE DEF F
<1>6. ASSUME NEW i \in 1..Len(as)
      PROVE  F(bs)[i] = F(as)[i]
  <2>1. i \in 1..(Len(as) + 1)
    BY <1>1
  <2> QED
    BY <1>1, <1>4, <2>1, Zenon
<1>7. F(bs)[Len(as) + 1] = Taken(a)
  <2>1. Len(as) + 1 \in 1..(Len(as) + 1)
    BY <1>1
  <2> QED
    BY <1>1, <1>4, <2>1, Zenon
<1>8. FlattenSeq(F(bs)) = FlattenSeq(F(as)) \o Taken(a)
  <2>1. PICK u, v, w : u = F(as) /\ v = F(bs) /\ w = Taken(a)
    OBVIOUS
  <2>2. /\ u \in Seq(Seq(Byte)) /\ v \in Seq(Seq(Byte)) /\ w \in Seq(Byte)
        /\ Len(v) = Len(u) + 1 /\ v[Len(u) + 1] = w
        /\ \A i \in 1..Len(u) : v[i] = u[i]
    BY <1>3, <1>5, <1>6, <1>7, <2>1 DEF Bytes
  <2>3. FlattenSeq(v) = FlattenSeq(u) \o w
    BY <2>2, FlattenSeqMore
  <2> QED
    BY <2>1, <2>3
<1> QED
  BY <1>1, <1>8 DEF AnsBytes, F, bs

LEMMA NothingRead ==
  AnsBytes(<<>>) = <<>> /\ LineBytes(<<>>) = <<>> /\ <<>> \in Seq(Bytes)
<1>1. /\ [i \in DOMAIN <<>> |-> Taken(<<>>[i])] = <<>>
      /\ [i \in DOMAIN <<>> |-> Append(<<>>[i], NL)] = <<>>
  OBVIOUS
<1> QED
  BY <1>1, FlattenSeqEmpty DEF AnsBytes, LineBytes

(* What one step adds to the bytes read.                                    *)
LEMMA ReadGrows ==
  ASSUME NEW as \in Seq(StreamAnswer), NEW ls \in Seq(Bytes), NEW g \in Bytes
  PROVE  /\ ReadOf(as, ls, g) \in Bytes
         /\ ReadOf(as, <<>>, g) = AnsBytes(as) \o g
         /\ ReadOf(as, ls, <<>>) = AnsBytes(as) \o LineBytes(ls)
         /\ \A b \in Byte : ReadOf(as, ls, Append(g, b)) = ReadOf(as, ls, g) \o <<b>>
         /\ ReadOf(as, Append(ls, g), <<>>) = ReadOf(as, ls, g) \o <<NL>>
         /\ \A a \in StreamAnswer :
              ReadOf(Append(as, a), <<>>, <<>>) = AnsBytes(as) \o Taken(a)
<1>1. /\ AnsBytes(as) \in Bytes /\ LineBytes(ls) \in Bytes /\ <<>> \in Bytes
      /\ LineBytes(<<>>) = <<>> /\ <<NL>> \in Bytes /\ NL \in Byte
  BY AnsBytesTyped, LineBytesTyped, NothingRead, ByteUnit
<1>2. /\ ReadOf(as, ls, g) \in Bytes
      /\ ReadOf(as, <<>>, g) = AnsBytes(as) \o g
      /\ ReadOf(as, ls, <<>>) = AnsBytes(as) \o LineBytes(ls)
  BY <1>1, ByteConcat, Zenon DEF ReadOf
<1>3. ASSUME NEW b \in Byte
      PROVE  ReadOf(as, ls, Append(g, b)) = ReadOf(as, ls, g) \o <<b>>
  <2>1. Append(g, b) = g \o <<b>> /\ <<b>> \in Bytes
    BY ByteUnit
  <2>2. AnsBytes(as) \o LineBytes(ls) \in Bytes
    BY <1>1, ByteConcat, Zenon
  <2>3. ((AnsBytes(as) \o LineBytes(ls)) \o g) \o <<b>>
          = (AnsBytes(as) \o LineBytes(ls)) \o (g \o <<b>>)
    BY <2>1, <2>2, ByteConcat, Zenon
  <2> QED
    BY <2>1, <2>3, Zenon DEF ReadOf
<1>4. ReadOf(as, Append(ls, g), <<>>) = ReadOf(as, ls, g) \o <<NL>>
  <2>1. /\ Append(ls, g) \in Seq(Bytes)
        /\ LineBytes(Append(ls, g)) = LineBytes(ls) \o Append(g, NL)
    BY LineBytesAppend
  <2>2. Append(g, NL) = g \o <<NL>> /\ Append(g, NL) \in Bytes
    BY <1>1, ByteUnit
  <2>3. ReadOf(as, Append(ls, g), <<>>) = AnsBytes(as) \o (LineBytes(ls) \o Append(g, NL))
    <3>1. LineBytes(ls) \o Append(g, NL) \in Bytes
      BY <1>1, <2>2, ByteConcat, Zenon
    <3>2. AnsBytes(as) \o (LineBytes(ls) \o Append(g, NL)) \in Bytes
      BY <1>1, <3>1, ByteConcat, Zenon
    <3> QED
      BY <2>1, <3>2, ByteConcat, Zenon DEF ReadOf
  <2>4. ReadOf(as, ls, Append(g, NL)) = AnsBytes(as) \o (LineBytes(ls) \o Append(g, NL))
    BY <1>1, <2>2, ByteConcat, Zenon DEF ReadOf
  <2> QED
    BY <1>1, <1>3, <2>3, <2>4
<1>5. ASSUME NEW a \in StreamAnswer
      PROVE  ReadOf(Append(as, a), <<>>, <<>>) = AnsBytes(as) \o Taken(a)
  <2>1. /\ AnsBytes(Append(as, a)) = AnsBytes(as) \o Taken(a)
        /\ Taken(a) \in Bytes
    BY AnsBytesAppend, TakenTyped
  <2>2. AnsBytes(as) \o Taken(a) \in Bytes
    BY <1>1, <2>1, ByteConcat, Zenon
  <2> QED
    BY <1>1, <2>1, <2>2, ByteConcat, Zenon DEF ReadOf
<1> QED
  BY <1>2, <1>3, <1>4, <1>5

-----------------------------------------------------------------------------
(* Streams: what the steps have in common                                  *)

LEMMA JobTyped ==
  ASSUME NEW j \in Jobs \cup {NoJob}
  PROVE  /\ j.limit \in Nat
         /\ j.op \in {"none", "line", "lines", "read", "wait"}
         /\ j # NoJob => j.op # "none"
BY StreamsAssumption DEF Jobs, NoJob, Unlimited, Deadlines, Forever

(* The answers of the primitives, and the bytes they took.                  *)
LEMMA WaitTaken ==
  ASSUME NEW l \in Nat, NEW v \in Bytes, NEW b \in BOOLEAN,
         NEW a, a = [op |-> "wait", limit |-> l, value |-> v, nil |-> b]
  PROVE  /\ a \in StreamAnswer /\ a.op = "wait"
         /\ Taken(a) = <<>>
BY DEF StreamAnswer, Taken

LEMMA LinesTaken ==
  ASSUME NEW l \in Nat, NEW v \in Seq(Bytes), NEW b \in BOOLEAN,
         NEW a, a = [op |-> "lines", limit |-> l, value |-> v, nil |-> b]
  PROVE  a \in StreamAnswer /\ a.op = "lines" /\ Taken(a) = LineBytes(v)
BY DEF StreamAnswer, Taken, LineBytes

(* The bytes read are followed by those to come.                            *)
LEMMA EverythingIs ==
  ASSUME StreamTypeOK
  PROVE  Everything = ReadOf(answers, lines, got) \o ToCome(pending, pipe, source)
<1>1. ReadOf(answers, lines, got) \in Bytes
  BY ReadGrows DEF StreamTypeOK
<1>2. Everything = ReadOf(answers, lines, got) \o pending \o pipe \o source
  BY DEF Everything, BytesRead, ReadOf, AnsBytes, LineBytes
<1>3. pending \in Bytes /\ pipe \in Bytes /\ source \in Bytes
  BY DEF StreamTypeOK
<1>4. ReadOf(answers, lines, got) \o pending \o pipe \o source
        = ReadOf(answers, lines, got) \o ToCome(pending, pipe, source)
  <2>1. PICK r, a, p, s : /\ r = ReadOf(answers, lines, got)
                          /\ a = pending /\ p = pipe /\ s = source
    OBVIOUS
  <2>2. r \in Bytes /\ a \in Bytes /\ p \in Bytes /\ s \in Bytes
    BY <1>1, <1>3, <2>1
  <2>3. (r \o a) \o p = r \o (a \o p) /\ a \o p \in Bytes
    BY <2>2, ByteConcat, Zenon
  <2>4. (r \o (a \o p)) \o s = r \o ((a \o p) \o s)
    BY <2>2, <2>3, ByteConcat, Zenon
  <2>5. (a \o p) \o s = a \o (p \o s)
    BY <2>2, ByteConcat, Zenon
  <2>6. r \o a \o p \o s = r \o ToCome(a, p, s)
    BY <2>3, <2>4, <2>5, Zenon DEF ToCome
  <2> QED
    BY <2>1, <2>6, Zenon
<1> QED
  BY <1>2, <1>4, Zenon

LEMMA EverythingNext ==
  ASSUME StreamTypeOK'
  PROVE  Everything' = ReadOf(answers', lines', got') \o ToCome(pending', pipe', source')
<1>1. ReadOf(answers', lines', got') \in Bytes
  BY ReadGrows DEF StreamTypeOK
<1>2. Everything' = ReadOf(answers', lines', got') \o pending' \o pipe' \o source'
  BY DEF Everything, BytesRead, ReadOf, AnsBytes, LineBytes
<1>3. pending' \in Bytes /\ pipe' \in Bytes /\ source' \in Bytes
  BY DEF StreamTypeOK
<1>4. ReadOf(answers', lines', got') \o pending' \o pipe' \o source'
        = ReadOf(answers', lines', got') \o ToCome(pending', pipe', source')
  <2>1. PICK r, a, p, s : /\ r = ReadOf(answers', lines', got')
                          /\ a = pending' /\ p = pipe' /\ s = source'
    OBVIOUS
  <2>2. r \in Bytes /\ a \in Bytes /\ p \in Bytes /\ s \in Bytes
    BY <1>1, <1>3, <2>1
  <2>3. (r \o a) \o p = r \o (a \o p) /\ a \o p \in Bytes
    BY <2>2, ByteConcat, Zenon
  <2>4. (r \o (a \o p)) \o s = r \o ((a \o p) \o s)
    BY <2>2, <2>3, ByteConcat, Zenon
  <2>5. (a \o p) \o s = a \o (p \o s)
    BY <2>2, ByteConcat, Zenon
  <2>6. r \o a \o p \o s = r \o ToCome(a, p, s)
    BY <2>3, <2>4, <2>5, Zenon DEF ToCome
  <2> QED
    BY <2>1, <2>6, Zenon
<1> QED
  BY <1>2, <1>4, Zenon

(* Before the end of the stream a step moves bytes and keeps their order.   *)
LEMMA Moves ==
  ASSUME StreamTypeOK, StreamTypeOK', Conserved, ~AtEnd, open' => open,
         content' = content,
         ReadOf(answers', lines', got') \o ToCome(pending', pipe', source')
           = ReadOf(answers, lines, got) \o ToCome(pending, pipe, source)
  PROVE  Conserved'
<1>1. Everything' = Everything
  BY EverythingIs, EverythingNext
<1>2. open' => Everything = content
  BY DEF Conserved
<1> QED
  BY <1>1, <1>2, Zenon DEF Conserved

(* A step that takes no byte.                                              *)
LEMMA Stays ==
  ASSUME StreamTypeOK, StreamTypeOK', Conserved,
         UNCHANGED <<content, open, pending, pipe, source, child>>,
         got = <<>> => got' = <<>>, lines = <<>> => lines' = <<>>,
         ReadOf(answers', lines', got') = ReadOf(answers, lines, got)
  PROVE  Conserved'
<1>1. Everything' = Everything
  BY EverythingIs, EverythingNext
<1>2. AtEnd' = AtEnd
  BY DEF AtEnd
<1> QED
  BY <1>1, <1>2, Zenon DEF Conserved

(* A short read stays justified, and a new answer comes last.               *)
LEMMA AnswersStay ==
  ASSUME AnswersOK, answers' = answers, open' => open, open' /\ AtEnd => AtEnd'
  PROVE  AnswersOK'
BY DEF AnswersOK, AnswerOK

LEMMA AnswersGrow ==
  ASSUME AnswersOK, answers \in Seq(StreamAnswer), NEW a \in StreamAnswer,
         answers' = Append(answers, a), UNCHANGED open, AtEnd => AtEnd',
         /\ a.op = "read" => \/ Len(a.value) = a.limit
                             \/ Len(a.value) < a.limit /\ (open => AtEnd'),
         a.op = "line" /\ ~a.nil => \A k \in DOMAIN a.value : a.value[k] # NL
  PROVE  answers' \in Seq(StreamAnswer) /\ AnswersOK'
<1>1. /\ answers' \in Seq(StreamAnswer) /\ Len(answers') = Len(answers) + 1
      /\ \A i \in 1..Len(answers) : answers'[i] = answers[i]
      /\ answers'[Len(answers) + 1] = a
      /\ Len(answers) \in Nat
  BY AppendProperties, LenProperties
<1>2. ASSUME NEW i \in 1..Len(answers')
      PROVE  AnswerOK(answers[i])'
  <2>1. CASE i = Len(answers) + 1
    <3>1. answers'[i] = a
      BY <1>1, <2>1
    <3> QED
      BY <3>1 DEF AnswerOK
  <2>2. CASE i # Len(answers) + 1
    <3>1. i \in 1..Len(answers) /\ answers'[i] = answers[i]
      BY <1>1, <2>2
    <3>2. AnswerOK(answers[i])
      BY <3>1 DEF AnswersOK
    <3> QED
      BY <3>1, <3>2 DEF AnswerOK
  <2> QED
    BY <2>1, <2>2
<1> QED
  BY <1>1, <1>2 DEF AnswersOK

-----------------------------------------------------------------------------
(* Streams: the steps                                                      *)

LEMMA ToComeTyped ==
  ASSUME StreamTypeOK
  PROVE  /\ ReadOf(answers, lines, got) \in Bytes
         /\ pending \in Bytes /\ pipe \in Bytes /\ source \in Bytes
BY ReadGrows DEF StreamTypeOK

LEMMA StreamStarts ==
  ASSUME StInit
  PROVE  StreamInv
<1>1. content \in Bytes
  BY StreamsAssumption DEF StInit, SeqOf, Bytes
<1>2. <<>> \in Bytes /\ <<>> \in Seq(Bytes) /\ <<>> \in Seq(StreamAnswer)
  BY ByteUnit
<1>3. StreamTypeOK
  BY <1>1, <1>2 DEF StInit, StreamTypeOK
<1>4. Sides /\ Collecting
  BY DEF StInit, Sides, Collecting, Reading, NoJob
<1>5. Everything = content
  <2>1. Everything = ReadOf(<<>>, <<>>, <<>>) \o ToCome(<<>>, <<>>, content)
    BY <1>3, EverythingIs DEF StInit
  <2>2. ReadOf(<<>>, <<>>, <<>>) = <<>>
    BY <1>2, NothingRead, ByteConcat, Zenon DEF ReadOf
  <2>3. ToCome(<<>>, <<>>, content) = content
    BY <1>1, <1>2, ByteConcat, Zenon DEF ToCome
  <2> QED
    BY <1>1, <2>1, <2>2, <2>3, ByteConcat, Zenon
<1>6. AnswersOK
  BY DEF StInit, AnswersOK
<1> QED
  BY <1>3, <1>4, <1>5, <1>6 DEF StreamInv, Conserved

(* The child puts a byte into the pipe.                                    *)
LEMMA ChildWriteStep ==
  ASSUME StreamInv, ChildWrite
  PROVE  StreamInv'
<1>1. StreamTypeOK /\ Sides /\ Collecting /\ Conserved /\ AnswersOK /\ ~AtEnd
  BY DEF StreamInv, ChildWrite, AtEnd
<1>2. /\ source \in Bytes /\ pipe \in Bytes /\ pending \in Bytes
      /\ ReadOf(answers, lines, got) \in Bytes
  BY <1>1, ToComeTyped
<1>3. /\ Head(source) \in Byte /\ Tail(source) \in Bytes
      /\ <<Head(source)>> \in Bytes /\ source = <<Head(source)>> \o Tail(source)
  BY <1>2, HeadAndTail, ByteUnit DEF Bytes, ChildWrite
<1>4. pipe' = pipe \o <<Head(source)>> /\ pipe' \in Bytes /\ source' \in Bytes
  BY <1>2, <1>3, ByteUnit DEF ChildWrite
<1>5. StreamTypeOK'
  BY <1>1, <1>4 DEF StreamTypeOK, ChildWrite
<1>6. ToCome(pending', pipe', source') = ToCome(pending, pipe, source)
  <2>1. (pipe \o <<Head(source)>>) \o Tail(source)
          = pipe \o (<<Head(source)>> \o Tail(source))
    BY <1>2, <1>3, ByteConcat, Zenon
  <2>2. pipe' \o source' = pipe \o source
    BY <1>3, <1>4, <2>1, Zenon DEF ChildWrite
  <2> QED
    BY <2>2 DEF ToCome, ChildWrite
<1>7. Conserved'
  BY <1>1, <1>5, <1>6, Moves DEF ChildWrite
<1>8. Sides' /\ Collecting'
  BY <1>1 DEF Sides, Collecting, Reading, ChildWrite
<1>9. AnswersOK'
  BY <1>1, AnswersStay DEF ChildWrite
<1> QED
  BY <1>5, <1>7, <1>8, <1>9 DEF StreamInv

LEMMA ChildEndStep ==
  ASSUME StreamInv, ChildEnd
  PROVE  StreamInv'
<1>1. StreamTypeOK /\ Sides /\ Collecting /\ Conserved /\ AnswersOK /\ ~AtEnd
  BY DEF StreamInv, ChildEnd, AtEnd
<1>2. StreamTypeOK'
  BY <1>1 DEF StreamTypeOK, ChildEnd
<1>3. Conserved'
  BY <1>1, <1>2, Moves DEF ChildEnd
<1>4. Sides' /\ Collecting'
  BY <1>1 DEF Sides, Collecting, Reading, ChildEnd
<1>5. AnswersOK'
  BY <1>1, AnswersStay DEF ChildEnd
<1> QED
  BY <1>2, <1>3, <1>4, <1>5 DEF StreamInv

LEMMA StartStep ==
  ASSUME StreamInv, NEW j \in Jobs, Start(j)
  PROVE  StreamInv'
<1>1. /\ StreamTypeOK /\ Sides /\ Collecting /\ Conserved /\ AnswersOK
      /\ got = <<>> /\ lines = <<>>
  BY DEF StreamInv, Start, Idle, Collecting, Reading, NoJob
<1>2. j.limit \in Nat /\ Len(<<>>) = 0
  BY JobTyped
<1>3. StreamTypeOK'
  BY <1>1 DEF StreamTypeOK, Start
<1>4. Conserved'
  BY <1>1, <1>3, Stays DEF Start
<1>5. Sides'
  BY <1>1 DEF Sides, Start
<1>6. Collecting'
  BY <1>1, <1>2 DEF Collecting, Reading, Start
<1>7. AnswersOK'
  BY <1>1, AnswersStay DEF Start, AtEnd
<1> QED
  BY <1>3, <1>4, <1>5, <1>6, <1>7 DEF StreamInv

LEMMA CloseStep ==
  ASSUME StreamInv, Close
  PROVE  StreamInv'
<1>1. StreamTypeOK /\ Sides /\ Collecting /\ AnswersOK
  BY DEF StreamInv
<1>2. StreamTypeOK'
  BY <1>1, ByteUnit DEF StreamTypeOK, Close
<1>3. Sides' /\ Conserved' /\ Collecting'
  BY <1>1 DEF Sides, Conserved, Collecting, Reading, Close, Idle, NoJob
<1>4. AnswersOK'
  BY <1>1, AnswersStay DEF Close
<1> QED
  BY <1>1, <1>2, <1>3, <1>4 DEF StreamInv

LEMMA SleepStep ==
  ASSUME StreamInv, Sleep
  PROVE  StreamInv'
<1>1. StreamTypeOK /\ Sides /\ Collecting /\ Conserved /\ AnswersOK
  BY DEF StreamInv
<1>2. job \in Jobs /\ job' \in Jobs /\ job'.op = "wait" /\ job.op = "wait"
  BY <1>1 DEF StreamTypeOK, Sleep, Jobs, NoJob, Deadlines, Forever, Unlimited
<1>3. StreamTypeOK'
  BY <1>1, <1>2 DEF StreamTypeOK, Sleep
<1>4. Conserved'
  BY <1>1, <1>3, Stays DEF Sleep
<1>5. Sides' /\ Collecting'
  BY <1>1, <1>2 DEF Sides, Collecting, Reading, Sleep
<1>6. AnswersOK'
  BY <1>1, AnswersStay DEF Sleep, AtEnd
<1> QED
  BY <1>3, <1>4, <1>5, <1>6 DEF StreamInv

(* What every answer that leaves the buffers alone has in common.           *)
LEMMA Answering ==
  ASSUME StreamInv, NEW a \in StreamAnswer, Answered(a),
         UNCHANGED <<kind, content, source, pipe, child, pending, open>>,
         a.op = "read" => \/ Len(a.value) = a.limit
                          \/ Len(a.value) < a.limit /\ AtEnd,
         a.op = "line" /\ ~a.nil => \A k \in DOMAIN a.value : a.value[k] # NL
  PROVE  /\ StreamTypeOK' /\ Sides' /\ Collecting' /\ AnswersOK'
         /\ ReadOf(answers', lines', got') = AnsBytes(answers) \o Taken(a)
<1>1. StreamTypeOK /\ Sides /\ AnswersOK /\ answers \in Seq(StreamAnswer)
  BY DEF StreamInv, StreamTypeOK
<1>2. answers' = Append(answers, a) /\ job' = NoJob /\ got' = <<>> /\ lines' = <<>>
  BY DEF Answered
<1>3. AtEnd' = AtEnd
  BY DEF AtEnd
<1>4. answers' \in Seq(StreamAnswer) /\ AnswersOK'
  BY <1>1, <1>2, <1>3, AnswersGrow
<1>5. StreamTypeOK'
  BY <1>1, <1>2, <1>4, ByteUnit DEF StreamTypeOK
<1>6. Sides' /\ Collecting'
  BY <1>1, <1>2 DEF Sides, Collecting, Reading, NoJob
<1>7. ReadOf(Append(answers, a), <<>>, <<>>) = AnsBytes(answers) \o Taken(a)
  BY <1>1, NothingRead, ByteUnit, ReadGrows
<1> QED
  BY <1>2, <1>4, <1>5, <1>6, <1>7

LEMMA LimitReachedStep ==
  ASSUME StreamInv, LimitReached
  PROVE  StreamInv'
<1> DEFINE a == Result(got, FALSE)
<1>1. /\ StreamTypeOK /\ Conserved /\ got \in Bytes /\ answers \in Seq(StreamAnswer)
      /\ job \in Jobs \cup {NoJob} /\ job.op = "read" /\ lines = <<>>
  BY DEF StreamInv, StreamTypeOK, LimitReached, Collecting
<1>2. job.limit \in Nat /\ Len(got) \in Nat
  BY <1>1, JobTyped, LenProperties DEF Bytes
<1>3. Len(got) = job.limit
  BY <1>1, <1>2 DEF StreamInv, Collecting, LimitReached, WantsByte, Reading
<1>4. a \in StreamAnswer /\ a.op = "read" /\ a.limit = job.limit /\ a.value = got
      /\ Taken(a) = got
  <2>1. a = [op |-> "read", limit |-> job.limit, value |-> got, nil |-> FALSE]
    BY <1>1 DEF Result
  <2> HIDE DEF a
  <2> QED
    BY <1>1, <1>2, <2>1 DEF StreamAnswer, Taken
<1>5. Answered(a)
  BY DEF LimitReached
<1> HIDE DEF a
<1>6. /\ StreamTypeOK' /\ Sides' /\ Collecting' /\ AnswersOK'
      /\ ReadOf(answers', lines', got') = AnsBytes(answers) \o got
  BY <1>3, <1>4, <1>5, Answering DEF LimitReached
<1>7. ReadOf(answers, lines, got) = AnsBytes(answers) \o got
  BY <1>1, NothingRead, ReadGrows
<1>8. Conserved'
  BY <1>1, <1>5, <1>6, <1>7, Stays DEF LimitReached, Answered
<1> QED
  BY <1>6, <1>8 DEF StreamInv

(* A wait takes no byte.                                                   *)
LEMMA WaitedStep ==
  ASSUME StreamInv, WaitOver \/ TimeOut
  PROVE  StreamInv'
<1>1. PICK b \in BOOLEAN : Answered(Result(<<>>, b))
  BY DEF WaitOver, TimeOut
<1> DEFINE a == Result(<<>>, b)
<1>2. /\ StreamTypeOK /\ Conserved /\ answers \in Seq(StreamAnswer)
      /\ job \in Jobs \cup {NoJob} /\ job.op = "wait" /\ lines = <<>> /\ got = <<>>
      /\ UNCHANGED <<kind, content, source, pipe, child, pending, open>>
  BY DEF StreamInv, StreamTypeOK, WaitOver, TimeOut, Collecting, Reading
<1>3. job.limit \in Nat /\ <<>> \in Bytes
  BY <1>2, JobTyped, ByteUnit
<1>4. a \in StreamAnswer /\ a.op = "wait" /\ Taken(a) = <<>>
  BY <1>2, <1>3, WaitTaken DEF Result
<1>5. Answered(a)
  BY <1>1
<1> HIDE DEF a
<1>6. /\ StreamTypeOK' /\ Sides' /\ Collecting' /\ AnswersOK'
      /\ ReadOf(answers', lines', got') = AnsBytes(answers) \o <<>>
  BY <1>2, <1>4, <1>5, Answering
<1>7. ReadOf(answers, lines, got) = AnsBytes(answers) \o <<>>
  BY <1>2, <1>3, NothingRead, ReadGrows
<1>8. Conserved'
  BY <1>2, <1>5, <1>6, <1>7, Stays DEF Answered
<1> QED
  BY <1>6, <1>8 DEF StreamInv

LEMMA EndOfStreamStep ==
  ASSUME StreamInv, EndOfStream
  PROVE  StreamInv'
<1>1. /\ StreamTypeOK /\ Conserved /\ got \in Bytes /\ answers \in Seq(StreamAnswer)
      /\ lines \in Seq(Bytes) /\ content \in Bytes /\ AtEnd
      /\ job \in Jobs \cup {NoJob} /\ job.op \in {"line", "lines", "read"}
      /\ UNCHANGED <<kind, content, source, pipe, child, pending, open>>
  BY DEF StreamInv, StreamTypeOK, EndOfStream, WantsByte, Reading
<1>2. job.limit \in Nat /\ Len(got) \in Nat /\ AnsBytes(answers) \in Bytes
      /\ NL \in Byte /\ <<>> \in Bytes
  BY <1>1, JobTyped, LenProperties, AnsBytesTyped, ByteUnit DEF Bytes
<1>3. Everything = ReadOf(answers, lines, got)
  <2>1. /\ ReadOf(answers, lines, got) \in Bytes
        /\ Everything = ReadOf(answers, lines, got) \o ToCome(<<>>, <<>>, <<>>)
    BY <1>1, ReadGrows, EverythingIs DEF AtEnd
  <2>2. ToCome(<<>>, <<>>, <<>>) = <<>>
    BY <1>2, ByteConcat, Zenon DEF ToCome
  <2> QED
    BY <2>1, <2>2, ByteConcat, Zenon
(* The bytes read stay, or are those of a last line that is given its end.  *)
<1> DEFINE Same  == ReadOf(answers', lines', got') = ReadOf(answers, lines, got)
           Ended == /\ got # <<>> /\ \A i \in 1..Len(got) : got[i] # NL
                    /\ ReadOf(answers', lines', got')
                         = ReadOf(answers, lines, got) \o <<NL>>
<1>4. ASSUME Same \/ Ended, StreamTypeOK', got' = <<>> /\ lines' = <<>>
      PROVE  Conserved'
  <2>1. CASE Same
    BY <1>1, <1>4, <2>1, Stays
  <2>2. CASE Ended
    <3>1. Everything' = ReadOf(answers, lines, got) \o <<NL>>
      <4>1. Everything' = ReadOf(answers', lines', got') \o ToCome(<<>>, <<>>, <<>>)
        BY <1>1, <1>4, EverythingNext DEF AtEnd
      <4>2. ToCome(<<>>, <<>>, <<>>) = <<>>
        BY <1>2, ByteConcat, Zenon DEF ToCome
      <4>3. ReadOf(answers', lines', got') \in Bytes
        BY <1>4, ReadGrows DEF StreamTypeOK
      <4> QED
        BY <2>2, <4>1, <4>2, <4>3, ByteConcat, Zenon
    <3>2. open => Everything = content
      BY <1>1, <2>2 DEF Conserved
    <3>3. open => Everything' = Append(content, NL)
      BY <1>1, <1>2, <1>3, <3>1, <3>2, ByteUnit
    <3>4. open => content # <<>> /\ Last(content) = Last(got)
      <4>1. AnsBytes(answers) \o LineBytes(lines) \in Bytes
        BY <1>1, <1>2, LineBytesTyped, ByteConcat, Zenon
      <4>2. PICK before \in Bytes : ReadOf(answers, lines, got) = before \o got
        BY <4>1 DEF ReadOf
      <4>3. /\ Len(before \o got) = Len(before) + Len(got) /\ Len(before) \in Nat
            /\ \A i \in 1..(Len(before) + Len(got)) : (before \o got)[i] =
                 IF i <= Len(before) THEN before[i] ELSE got[i - Len(before)]
        BY <1>1, ConcatProperties, LenProperties DEF Bytes
      <4>4. Len(got) > 0
        BY <1>1, <2>2, EmptySeq DEF Bytes
      <4>5. (before \o got)[Len(before) + Len(got)] = got[Len(got)]
        <5>1. /\ Len(before) + Len(got) \in 1..(Len(before) + Len(got))
              /\ ~(Len(before) + Len(got) <= Len(before))
              /\ (Len(before) + Len(got)) - Len(before) = Len(got)
          BY <1>2, <4>3, <4>4
        <5> QED
          BY <4>3, <5>1
      <4>6. open => content = before \o got
        BY <1>3, <3>2, <4>2
      <4>7. before \o got # <<>>
        BY <1>2, <4>3, <4>4
      <4> QED
        BY <4>3, <4>5, <4>6, <4>7 DEF Last
    <3>5. open => Last(content) # NL
      <4>1. Len(got) \in 1..Len(got)
        BY <1>1, <1>2, <2>2, EmptySeq DEF Bytes
      <4> QED
        BY <2>2, <3>4, <4>1 DEF Last
    <3>6. AtEnd'
      BY <1>1 DEF AtEnd
    <3> QED
      BY <1>1, <1>4, <3>3, <3>4, <3>5, <3>6 DEF Conserved
  <2> QED
    BY <1>4, <2>1, <2>2
<1>5. got' = <<>> /\ lines' = <<>>
  BY <1>1 DEF EndOfStream, Answered
<1> HIDE DEF Same, Ended
<1>6. CASE job.op = "read"
  <2> DEFINE a == Result(got, FALSE)
  <2>1. a \in StreamAnswer /\ a.op = "read" /\ a.limit = job.limit /\ a.value = got
        /\ Taken(a) = got
    <3>1. a = [op |-> "read", limit |-> job.limit, value |-> got, nil |-> FALSE]
      BY <1>6 DEF Result
    <3> HIDE DEF a
    <3> QED
      BY <1>1, <1>2, <3>1 DEF StreamAnswer, Taken
  <2>2. Answered(a) /\ lines = <<>> /\ Len(got) < job.limit
    <3>1. Answered(a)
      BY <1>6 DEF EndOfStream
    <3>2. lines = <<>>
      BY <1>6 DEF StreamInv, Collecting
    <3>3. Len(got) < job.limit
      BY <1>2, <1>6 DEF EndOfStream, WantsByte
    <3> QED
      BY <3>1, <3>2, <3>3
  <2> HIDE DEF a
  <2>3. /\ StreamTypeOK' /\ Sides' /\ Collecting' /\ AnswersOK'
        /\ ReadOf(answers', lines', got') = AnsBytes(answers) \o got
    BY <1>1, <2>1, <2>2, Answering
  <2>4. ReadOf(answers, lines, got) = AnsBytes(answers) \o got
    BY <1>1, <2>2, NothingRead, ReadGrows
  <2>5. Same
    BY <2>3, <2>4 DEF Same
  <2> QED
    BY <1>4, <1>5, <2>3, <2>5 DEF StreamInv
<1>7. CASE job.op = "line"
  <2> DEFINE a == Result(got, got = <<>>)
  <2>1. /\ a \in StreamAnswer /\ a.op = "line" /\ a.value = got
        /\ Taken(a) = IF got = <<>> THEN <<>> ELSE got \o <<NL>>
    <3>1. PICK b \in BOOLEAN : b = (got = <<>>)
      OBVIOUS
    <3>2. a = [op |-> "line", limit |-> job.limit, value |-> got, nil |-> b]
      BY <1>7, <3>1 DEF Result
    <3> HIDE DEF a
    <3>3. /\ a \in StreamAnswer /\ a.op = "line" /\ a.value = got
          /\ Taken(a) = IF b THEN <<>> ELSE got \o <<NL>>
      BY <1>1, <1>2, <3>2, ByteUnit DEF StreamAnswer, Taken
    <3> QED
      BY <3>1, <3>3
  <2>2. Answered(a) /\ lines = <<>> /\ \A i \in 1..Len(got) : got[i] # NL
    BY <1>7 DEF EndOfStream, StreamInv, Collecting
  <2>3. DOMAIN got = 1..Len(got)
    BY <1>1, LenProperties DEF Bytes
  <2> HIDE DEF a
  <2>4. /\ StreamTypeOK' /\ Sides' /\ Collecting' /\ AnswersOK'
        /\ ReadOf(answers', lines', got') = AnsBytes(answers) \o Taken(a)
    BY <1>1, <2>1, <2>2, <2>3, Answering
  <2>5. ReadOf(answers, lines, got) = AnsBytes(answers) \o got
    BY <1>1, <2>2, NothingRead, ReadGrows
  <2>6. ASSUME got = <<>> PROVE Same
    BY <2>1, <2>4, <2>5, <2>6 DEF Same
  <2>7. ASSUME got # <<>> PROVE Ended
    <3>1. ReadOf(answers', lines', got') = AnsBytes(answers) \o (got \o <<NL>>)
      BY <2>1, <2>4, <2>7
    <3>2. <<NL>> \in Bytes
      BY ByteUnit
    <3>3. AnsBytes(answers) \o (got \o <<NL>>) = (AnsBytes(answers) \o got) \o <<NL>>
      BY <1>1, <1>2, <3>2, ByteConcat, Zenon
    <3> QED
      BY <2>2, <2>5, <2>7, <3>1, <3>3 DEF Ended
  <2> QED
    BY <1>4, <1>5, <2>4, <2>6, <2>7 DEF StreamInv
<1>8. CASE job.op = "lines"
  <2> DEFINE v == lines \o (IF got = <<>> THEN <<>> ELSE <<got>>)
             a == Result(v, FALSE)
  <2>1. /\ got = <<>> => v = lines
        /\ got # <<>> => v = Append(lines, got)
    <3>1. lines \o <<>> = lines /\ Append(lines, got) = lines \o <<got>>
      BY <1>1, ConcatEmptySeq, AppendIsConcat
    <3> QED
      BY <3>1
  <2>2. /\ Answered(a) /\ \A i \in 1..Len(got) : got[i] # NL
    BY <1>8 DEF EndOfStream, StreamInv, Collecting
  <2> HIDE DEF v
  <2>3. v \in Seq(Bytes)
    BY <1>1, <2>1, LineBytesAppend
  <2>4. a \in StreamAnswer /\ a.op = "lines" /\ Taken(a) = LineBytes(v)
    BY <1>2, <1>8, <2>3, LinesTaken DEF Result
  <2> HIDE DEF a
  <2>5. /\ StreamTypeOK' /\ Sides' /\ Collecting' /\ AnswersOK'
        /\ ReadOf(answers', lines', got') = AnsBytes(answers) \o LineBytes(v)
    BY <1>1, <2>2, <2>4, Answering
  <2>6. ASSUME got = <<>> PROVE Same
    <3>1. ReadOf(answers, lines, got) = AnsBytes(answers) \o LineBytes(lines)
      BY <1>1, <2>6, ReadGrows
    <3> QED
      BY <2>1, <2>5, <2>6, <3>1 DEF Same
  <2>7. ASSUME got # <<>> PROVE Ended
    <3>1. ReadOf(answers, v, <<>>) = AnsBytes(answers) \o LineBytes(v)
      BY <1>1, <1>2, <2>3, ReadGrows
    <3>2. ReadOf(answers, Append(lines, got), <<>>)
            = ReadOf(answers, lines, got) \o <<NL>>
      BY <1>1, ReadGrows
    <3> QED
      BY <2>1, <2>2, <2>5, <2>7, <3>1, <3>2 DEF Ended
  <2> QED
    BY <1>4, <1>5, <2>5, <2>6, <2>7 DEF StreamInv
<1> QED
  BY <1>1, <1>6, <1>7, <1>8

(* A read of the system moves bytes into the readahead.                     *)
LEMMA FillPendingStep ==
  ASSUME StreamInv, FillPending
  PROVE  StreamInv'
<1>1. /\ StreamTypeOK /\ Sides /\ Collecting /\ Conserved /\ AnswersOK
      /\ source \in Bytes /\ pipe \in Bytes /\ pending = <<>> /\ kind # "memory"
      /\ Available \in Bytes
  BY DEF StreamInv, StreamTypeOK, FillPending, Available
<1>2. ~AtEnd
  BY DEF FillPending, Available, AtEnd
<1>3. PICK n \in 1..BlockSize :
         /\ n <= Len(Available)
         /\ pending' = SubSeq(Available, 1, n)
         /\ IF kind = "file"
            THEN source' = SubSeq(source, n + 1, Len(source)) /\ UNCHANGED pipe
            ELSE pipe' = SubSeq(pipe, n + 1, Len(pipe)) /\ UNCHANGED source
  BY DEF FillPending
<1> DEFINE rest == SubSeq(Available, n + 1, Len(Available))
<1>4. /\ pending' \in Bytes /\ rest \in Bytes /\ Available = pending' \o rest
  <2>1. n \in 0..Len(Available)
    BY <1>1, <1>3, LenProperties, StreamsAssumption DEF Bytes
  <2> QED
    BY <1>1, <1>3, <2>1, CutAt, FirstOfTyped DEF FirstOf, Bytes
<1> HIDE DEF rest
<1>5. /\ kind = "file" => source' = rest /\ source = Available /\ pipe' = pipe /\ pipe = <<>>
      /\ kind # "file" => pipe' = rest /\ pipe = Available /\ source' = source
  BY <1>1, <1>3 DEF rest, Available, Sides
<1>6. StreamTypeOK'
  BY <1>1, <1>4, <1>5 DEF StreamTypeOK, FillPending
<1>7. ToCome(pending', pipe', source') = ToCome(pending, pipe, source)
  <2>1. CASE kind = "file"
    <3>1. /\ pipe' = <<>> /\ pipe = <<>> /\ pending = <<>>
          /\ source = pending' \o source' /\ source' \in Bytes /\ pending' \in Bytes
      BY <1>1, <1>4, <1>5, <2>1
    <3>2. <<>> \o source' = source' /\ <<>> \o (<<>> \o source) = source
      BY <1>1, <3>1, ByteConcat, Zenon
    <3> QED
      BY <3>1, <3>2, Zenon DEF ToCome
  <2>2. CASE kind # "file"
    <3>1. /\ pipe = pending' \o pipe' /\ source' = source /\ pending = <<>>
          /\ pipe' \in Bytes /\ pending' \in Bytes
      BY <1>1, <1>4, <1>5, <2>2
    <3>2. pending' \o (pipe' \o source) = (pending' \o pipe') \o source
      BY <1>1, <3>1, ByteConcat, Zenon
    <3>3. pipe \o source \in Bytes
      BY <1>1, ByteConcat, Zenon
    <3>4. <<>> \o (pipe \o source) = pipe \o source
      BY <3>3, ByteConcat, Zenon
    <3> QED
      BY <3>1, <3>2, <3>4, Zenon DEF ToCome
  <2> QED
    BY <2>1, <2>2
<1>8. Conserved'
  BY <1>1, <1>2, <1>6, <1>7, Moves DEF FillPending
<1>9. Sides' /\ Collecting'
  <2>1. Sides'
    BY <1>1, <1>5 DEF Sides, FillPending
  <2>2. Collecting'
    BY <1>1 DEF Collecting, Reading, FillPending
  <2> QED
    BY <2>1, <2>2
<1>10. AnswersOK'
  BY <1>1, <1>2, AnswersStay DEF FillPending
<1> QED
  BY <1>6, <1>8, <1>9, <1>10 DEF StreamInv

(* The next byte of the stream is the first of those to come.               *)
LEMMA NextByteTakes ==
  ASSUME StreamTypeOK, Sides, NEW b \in Byte, NextByte(b), UNCHANGED pipe
  PROVE  /\ ~AtEnd /\ pending' \in Bytes /\ source' \in Bytes
         /\ kind = "memory" => pending' = <<>>
         /\ ToCome(pending, pipe, source) = <<b>> \o ToCome(pending', pipe', source')
<1>1. /\ source \in Bytes /\ pipe \in Bytes /\ pending \in Bytes /\ <<b>> \in Bytes
  BY ByteUnit DEF StreamTypeOK
<1>2. CASE kind = "memory"
  <2>1. /\ pending = <<>> /\ pending' = <<>> /\ pipe = <<>> /\ pipe' = <<>>
        /\ source # <<>> /\ b = Head(source) /\ source' = Tail(source)
    BY <1>2 DEF Sides, NextByte
  <2>2. source = <<b>> \o source' /\ source' \in Bytes
    BY <1>1, <2>1, HeadAndTail DEF Bytes
  <2>3. <<>> \o (<<>> \o source') = source' /\ <<>> \o (<<>> \o source) = source
    BY <1>1, <2>2, ByteConcat, Zenon
  <2> QED
    BY <1>1, <2>1, <2>2, <2>3 DEF ToCome, AtEnd
<1>3. CASE kind # "memory"
  <2>1. /\ pending # <<>> /\ b = Head(pending) /\ pending' = Tail(pending)
        /\ source' = source /\ pipe' = pipe
    BY <1>3 DEF NextByte
  <2>2. pending = <<b>> \o pending' /\ pending' \in Bytes
    BY <1>1, <2>1, HeadAndTail DEF Bytes
  <2>3. pipe \o source \in Bytes
    BY <1>1, ByteConcat, Zenon
  <2>4. (<<b>> \o pending') \o (pipe \o source) = <<b>> \o (pending' \o (pipe \o source))
    <3>1. PICK u, v, w : u = <<b>> /\ v = pending' /\ w = pipe \o source
      OBVIOUS
    <3>2. u \in Bytes /\ v \in Bytes /\ w \in Bytes
      BY <1>1, <2>2, <2>3, <3>1
    <3>3. (u \o v) \o w = u \o (v \o w)
      BY <3>2, ByteConcat, Zenon
    <3> QED
      BY <3>1, <3>3, Zenon
  <2>5. ToCome(pending, pipe, source) = <<b>> \o ToCome(pending', pipe', source')
    BY <2>1, <2>2, <2>4, Zenon DEF ToCome
  <2> QED
    BY <1>1, <1>3, <2>1, <2>2, <2>5 DEF AtEnd
<1> QED
  BY <1>2, <1>3

LEMMA CollectStep ==
  ASSUME StreamInv, NEW b \in Byte, Collect(b)
  PROVE  StreamInv'
<1>1. /\ StreamTypeOK /\ Sides /\ Collecting /\ Conserved /\ AnswersOK
      /\ got \in Bytes /\ answers \in Seq(StreamAnswer) /\ lines \in Seq(Bytes)
      /\ job \in Jobs \cup {NoJob} /\ job.op \in {"line", "lines", "read"}
      /\ UNCHANGED <<kind, content, pipe, child, open>>
  BY DEF StreamInv, StreamTypeOK, Collect, WantsByte, Reading
<1>2. /\ ~AtEnd /\ pending' \in Bytes /\ source' \in Bytes
      /\ kind = "memory" => pending' = <<>>
      /\ ToCome(pending, pipe, source) = <<b>> \o ToCome(pending', pipe', source')
  BY <1>1, NextByteTakes DEF Collect
<1>3. /\ job.limit \in Nat /\ Len(got) \in Nat /\ <<>> \in Bytes /\ Len(<<>>) = 0
      /\ AnsBytes(answers) \in Bytes /\ <<b>> \in Bytes /\ DOMAIN got = 1..Len(got)
  BY <1>1, JobTyped, LenProperties, AnsBytesTyped, ByteUnit DEF Bytes
<1>4. Sides'
  BY <1>1, <1>2 DEF Sides
(* In each case the byte is the next one read.                              *)
<1> DEFINE Taking == ReadOf(answers', lines', got') = ReadOf(answers, lines, got) \o <<b>>
<1>5. ASSUME Taking, StreamTypeOK'
      PROVE  Conserved'
  <2>1. PICK r, u, v : /\ r = ReadOf(answers, lines, got)
                       /\ u = ToCome(pending', pipe', source') /\ v = <<b>>
    OBVIOUS
  <2>2. r \in Bytes /\ u \in Bytes /\ v \in Bytes
    <3>1. r \in Bytes
      BY <1>1, <2>1, ReadGrows
    <3>2. pipe' \o source' \in Bytes
      BY <1>2, <1>5, ByteConcat, Zenon DEF StreamTypeOK
    <3>3. u \in Bytes
      BY <1>2, <2>1, <3>2, ByteConcat, Zenon DEF ToCome
    <3> QED
      BY <1>3, <2>1, <3>1, <3>3
  <2>3. (r \o v) \o u = r \o (v \o u)
    BY <2>2, ByteConcat, Zenon
  <2>4. ReadOf(answers', lines', got') \o ToCome(pending', pipe', source')
          = ReadOf(answers, lines, got) \o ToCome(pending, pipe, source)
    BY <1>2, <1>5, <2>1, <2>3, Zenon
  <2> QED
    BY <1>1, <1>2, <1>5, <2>4, Moves
<1> HIDE DEF Taking
<1>6. CASE job.op = "line" /\ b = NL
  <2> DEFINE a == Result(got, FALSE)
  <2>1. /\ answers' = Append(answers, a) /\ job' = NoJob /\ got' = <<>> /\ lines' = <<>>
        /\ lines = <<>> /\ \A i \in 1..Len(got) : got[i] # NL
    BY <1>1, <1>6 DEF Collect, Answered, Collecting
  <2>2. /\ a \in StreamAnswer /\ a.op = "line" /\ a.value = got
        /\ Taken(a) = got \o <<b>>
    <3>1. a = [op |-> "line", limit |-> job.limit, value |-> got, nil |-> FALSE]
      BY <1>6 DEF Result
    <3> HIDE DEF a
    <3> QED
      BY <1>1, <1>3, <1>6, <3>1, ByteUnit DEF StreamAnswer, Taken
  <2> HIDE DEF a
  <2>3. answers' \in Seq(StreamAnswer) /\ AnswersOK'
    BY <1>1, <1>2, <1>3, <2>1, <2>2, AnswersGrow
  <2>4. StreamTypeOK'
    BY <1>1, <1>2, <1>3, <2>1, <2>3 DEF StreamTypeOK
  <2>5. Collecting'
    BY <1>3, <2>1 DEF Collecting, Reading, NoJob
  <2>6. Taking
    <3>1. ReadOf(answers', lines', got') = AnsBytes(answers) \o (got \o <<b>>)
      <4>1. ReadOf(Append(answers, a), <<>>, <<>>) = AnsBytes(answers) \o Taken(a)
        BY <1>1, <1>3, <2>2, NothingRead, ReadGrows
      <4> QED
        BY <2>1, <2>2, <4>1
    <3>2. ReadOf(answers, lines, got) = AnsBytes(answers) \o got
      BY <1>1, <2>1, NothingRead, ReadGrows
    <3>3. (AnsBytes(answers) \o got) \o <<b>> = AnsBytes(answers) \o (got \o <<b>>)
      BY <1>1, <1>3, ByteConcat, Zenon
    <3> QED
      BY <3>1, <3>2, <3>3, Zenon DEF Taking
  <2> QED
    BY <1>4, <1>5, <2>3, <2>4, <2>5, <2>6 DEF StreamInv
<1>7. CASE job.op = "lines" /\ b = NL
  <2>1. lines' = Append(lines, got) /\ got' = <<>> /\ UNCHANGED <<job, answers>>
    BY <1>7 DEF Collect
  <2>2. lines' \in Seq(Bytes)
    BY <1>1, <2>1, LineBytesAppend
  <2>3. StreamTypeOK'
    BY <1>1, <1>2, <1>3, <2>1, <2>2 DEF StreamTypeOK
  <2>4. Collecting'
    BY <1>1, <1>3, <1>7, <2>1 DEF Collecting, Reading
  <2>5. Taking
    BY <1>1, <1>7, <2>1, ReadGrows DEF Taking
  <2>6. AnswersOK'
    BY <1>1, <1>2, <2>1, AnswersStay
  <2> QED
    BY <1>4, <1>5, <2>3, <2>4, <2>5, <2>6 DEF StreamInv
<1>8. CASE ~(job.op \in {"line", "lines"} /\ b = NL)
  <2>1. got' = Append(got, b) /\ UNCHANGED <<job, lines, answers>>
    BY <1>1, <1>8 DEF Collect
  <2>2. /\ got' \in Bytes /\ Len(got') = Len(got) + 1
        /\ \A i \in 1..Len(got) : got'[i] = got[i]
        /\ got'[Len(got) + 1] = b
    BY <1>1, <2>1, AppendProperties DEF Bytes
  <2>3. StreamTypeOK'
    BY <1>1, <1>2, <2>1, <2>2 DEF StreamTypeOK
  <2>4. Collecting'
    <3>1. (Reading => open)' /\ (~Reading => got = <<>>)'
          /\ (job.op # "lines" => lines = <<>>)'
      BY <1>1, <2>1 DEF Collecting, Reading
    <3>2. (job.op = "read" => Len(got) <= job.limit)'
      BY <1>3, <2>1, <2>2 DEF Collect, WantsByte
    <3>3. ASSUME job.op \in {"line", "lines"}, NEW i \in 1..Len(got')
          PROVE  got'[i] # NL
      <4>1. CASE i = Len(got) + 1
        BY <1>8, <2>2, <3>3, <4>1
      <4>2. CASE i # Len(got) + 1
        <5>1. i \in 1..Len(got)
          BY <1>3, <2>2, <4>2
        <5> QED
          BY <1>1, <2>2, <3>3, <5>1 DEF Collecting
      <4> QED
        BY <4>1, <4>2
    <3> QED
      BY <2>1, <3>1, <3>2, <3>3 DEF Collecting
  <2>5. Taking
    BY <1>1, <2>1, ReadGrows DEF Taking
  <2>6. AnswersOK'
    BY <1>1, <1>2, <2>1, AnswersStay
  <2> QED
    BY <1>4, <1>5, <2>3, <2>4, <2>5, <2>6 DEF StreamInv
<1> QED
  BY <1>6, <1>7, <1>8

LEMMA StreamStutters ==
  ASSUME StreamInv, UNCHANGED stVars
  PROVE  StreamInv'
BY DEF stVars, StreamInv, StreamTypeOK, Sides, Collecting, Conserved, AnswersOK,
       AnswerOK, Everything, BytesRead, Taken, AtEnd, Reading

-----------------------------------------------------------------------------
(* Streams: the theorems                                                   *)

(* Whatever a stream carries, whatever reads it and however the system      *)
(* delivers it, its bytes are read, buffered or to come, in order           *)
(* (read_byte, fill_pending, read_line, read_all_lines, close).             *)
THEOREM StreamInvariant == StSpec => []StreamInv
<1>1. StInit => StreamInv
  BY StreamStarts
<1>2. StreamInv /\ [StNext]_stVars => StreamInv'
  <2> SUFFICES ASSUME StreamInv, [StNext]_stVars PROVE StreamInv'
    OBVIOUS
  <2>1. CASE Primitive
    BY <2>1, FillPendingStep, EndOfStreamStep, LimitReachedStep, WaitedStep,
       SleepStep, CollectStep DEF Primitive
  <2>2. CASE Child
    BY <2>2, ChildWriteStep, ChildEndStep DEF Child
  <2>3. CASE Close
    BY <2>3, CloseStep
  <2>4. CASE \E j \in Jobs : Start(j)
    BY <2>4, StartStep
  <2>5. CASE UNCHANGED stVars
    BY <2>5, StreamStutters
  <2> QED
    BY <2>1, <2>2, <2>3, <2>4, <2>5 DEF StNext
<1> QED
  BY <1>1, <1>2, PTL DEF StSpec

(* Every variable of a stream keeps to its set, bytes and answers included. *)
THEOREM StreamTyped == StSpec => []StreamTypeOK
<1>1. StreamInv => StreamTypeOK
  BY DEF StreamInv
<1> QED
  BY <1>1, StreamInvariant, PTL

(* Every byte is returned once and in order, a read is short only at the    *)
(* end of the stream, and no line has a line end (read_bytes, read_line).   *)
THEOREM StreamBytesExact == StSpec => []StreamExact
<1>1. StreamInv => StreamExact
  <2> SUFFICES ASSUME StreamInv PROVE StreamExact
    OBVIOUS
  <2>1. open => \/ BytesRead \o pending \o pipe \o source = content
                \/ /\ content # <<>> /\ Last(content) # NL
                   /\ BytesRead \o pending \o pipe \o source = Append(content, NL)
    BY DEF StreamInv, Conserved, Everything
  <2>2. DOMAIN answers = 1..Len(answers)
    BY LenProperties DEF StreamInv, StreamTypeOK
  <2>3. \A i \in DOMAIN answers : AnswerOK(answers[i])
    BY <2>2 DEF StreamInv, AnswersOK
  <2> QED
    BY <2>1, <2>3 DEF StreamExact, AnswerOK
<1> QED
  BY <1>1, StreamInvariant, PTL

-----------------------------------------------------------------------------
(* The read-evaluate-print loop: the invariant                             *)

Symbol == {Open, Shut, Tick, Newline}
Text   == Seq(Symbol)

ReplTypeOK ==
  /\ typed \in Seq(Lines) /\ buffer \in Text /\ ran \in Seq(Text)
  /\ finished \in BOOLEAN

(* What is collected is waited for, and only the last program may be one    *)
(* that was not completed.                                                 *)
Unfinished == buffer # <<>> => HasUnbalanced(buffer) \/ Continued(Last(typed))
Complete(i) ==
  /\ ran[i] # <<>> /\ Last(ran[i]) = Newline
  /\ ~HasUnbalanced(ran[i]) \/ (finished /\ i = Len(ran))

(* The inductive invariant.                                                *)
ReplInv ==
  /\ ReplTypeOK /\ Unfinished
  /\ FlattenSeq(ran) \o buffer = Typed
  /\ buffer # <<>> => Last(buffer) = Newline
  /\ \A i \in 1..Len(ran) : Complete(i)

-----------------------------------------------------------------------------
(* The read-evaluate-print loop: depths and matching brackets              *)

(* f is the depth of each prefix, or what is left of it.                    *)
DepthOf(text, f) ==
  f = [i \in 0..Len(text) |-> IF i = 0 THEN 0 ELSE f[i - 1] + Weight(text[i])]
LeftOf(text, f) ==
  f = [i \in 0..Len(text) |-> IF i = 0 THEN <<>> ELSE Matched(f[i - 1], text[i])]

LEMMA WeightTyped ==
  ASSUME NEW c
  PROVE  /\ Weight(c) \in Int
         /\ c = Open => Weight(c) = 1
         /\ c = Shut => Weight(c) = -1
         /\ c # Open /\ c # Shut => Weight(c) = 0
BY ReplAssumption DEF Weight

LEMMA DepthsAre ==
  ASSUME NEW text \in Text
  PROVE  /\ Depths(text)[0] = 0
         /\ \A i \in 1..Len(text) : /\ Depths(text)[i - 1] \in Int
                                    /\ Depths(text)[i] \in Int
                                    /\ Depths(text)[i] =
                                         Depths(text)[i - 1] + Weight(text[i])
<1> DEFINE G == [p \in Int \X Symbol |-> p[1] + Weight(p[2])]
           d == Depths(text)
<1>1. Len(text) \in Nat /\ \A i \in 1..Len(text) : text[i] \in Symbol
  BY LenProperties, ElementOfSeq DEF Text
<1>2. /\ G \in [Int \X Symbol -> Int]
      /\ \A u \in Int, c \in Symbol : G[<<u, c>>] = u + Weight(c)
  BY WeightTyped
<1> HIDE DEF G
<1>3. PICK f : Follows(text, Int, 0, G, f)
  <2>1. text \in Seq(Symbol) /\ 0 \in Int
    BY DEF Text
  <2> QED
    BY <1>2, <2>1, RecursionExists
<1>4. f \in [0..Len(text) -> Int] /\ f[0] = 0
      /\ \A i \in 1..Len(text) : f[i] = G[<<f[i - 1], text[i]>>]
  BY <1>3 DEF Follows
<1>5. \A i \in 1..Len(text) : f[i] = f[i - 1] + Weight(text[i])
  <2>1. \A i \in 1..Len(text) : i - 1 \in 0..Len(text)
    BY <1>1
  <2> QED
    BY <1>1, <1>2, <1>4, <2>1
<1>6. DepthOf(text, f)
  BY <1>4, <1>5 DEF DepthOf
<1>7. d = CHOOSE g : DepthOf(text, g)
  BY DEF Depths, DepthOf
<1> HIDE DEF d
<1>8. DepthOf(text, d)
  BY <1>6, <1>7
<1>9. d[0] = 0 /\ \A i \in 1..Len(text) : d[i] = d[i - 1] + Weight(text[i])
  BY <1>1, <1>8 DEF DepthOf
<1> DEFINE Typing == {i \in 0..Len(text) : d[i] \in Int}
<1>10. \A i \in 0..Len(text) : i \in Typing
  <2>1. 0 \in Typing
    BY <1>1, <1>9
  <2>2. ASSUME NEW i \in 0..Len(text), i \in Typing /\ i + 1 <= Len(text)
        PROVE  i + 1 \in Typing
    <3>1. i + 1 \in 1..Len(text) /\ (i + 1) - 1 = i
      BY <1>1, <2>2
    <3>2. d[i + 1] = d[i] + Weight(text[i + 1])
      BY <1>9, <3>1
    <3> QED
      BY <2>2, <3>1, <3>2, WeightTyped
  <2> HIDE DEF Typing
  <2> QED
    BY <1>1, <2>1, <2>2, InductionUpTo
<1>11. \A i \in 1..Len(text) : d[i - 1] \in Int /\ d[i] \in Int
  <2>1. \A i \in 1..Len(text) : i - 1 \in 0..Len(text) /\ i \in 0..Len(text)
    BY <1>1
  <2> QED
    BY <1>10, <2>1
<1> QED
  BY <1>9, <1>11 DEF d

LEMMA MatchedTyped ==
  ASSUME NEW stack \in Text, NEW c \in Symbol
  PROVE  Matched(stack, c) \in Text
<1>1. Append(stack, c) \in Text
  BY AppendProperties DEF Text
<1>2. ASSUME stack # <<>> PROVE Front(stack) \in Text
  <2>1. Len(stack) - 1 \in 0..Len(stack)
    BY <1>2, EmptySeq DEF Text
  <2> QED
    BY <2>1, FirstOfTyped DEF FirstOf, Front, Text
<1> QED
  BY <1>1, <1>2 DEF Matched

LEMMA LeftExists ==
  ASSUME NEW text \in Text
  PROVE  \E f : /\ LeftOf(text, f) /\ Unmatched(text) = f[Len(text)]
                /\ f[0] = <<>>
                /\ \A i \in 1..Len(text) : f[i] = Matched(f[i - 1], text[i])
<1> DEFINE G == [p \in Text \X Symbol |-> Matched(p[1], p[2])]
           d == CHOOSE g : LeftOf(text, g)
<1>1. Len(text) \in Nat /\ (\A i \in 1..Len(text) : text[i] \in Symbol) /\ <<>> \in Text
  BY LenProperties, ElementOfSeq, EmptySeq DEF Text
<1>2. /\ G \in [Text \X Symbol -> Text]
      /\ \A u \in Text, c \in Symbol : G[<<u, c>>] = Matched(u, c)
  BY MatchedTyped
<1> HIDE DEF G
<1>3. PICK f : Follows(text, Text, <<>>, G, f)
  BY <1>1, <1>2, RecursionExists DEF Text
<1>4. f \in [0..Len(text) -> Text] /\ f[0] = <<>>
      /\ \A i \in 1..Len(text) : f[i] = G[<<f[i - 1], text[i]>>]
  BY <1>3 DEF Follows
<1>5. \A i \in 1..Len(text) : f[i] = Matched(f[i - 1], text[i])
  <2>1. \A i \in 1..Len(text) : i - 1 \in 0..Len(text)
    BY <1>1
  <2> QED
    BY <1>1, <1>2, <1>4, <2>1
<1>6. LeftOf(text, f)
  BY <1>4, <1>5 DEF LeftOf
<1>7. Unmatched(text) = d[Len(text)]
  BY DEF Unmatched, LeftOf
<1>8. LeftOf(text, d)
  BY <1>6
<1> HIDE DEF d
<1>9. d[0] = <<>> /\ \A i \in 1..Len(text) : d[i] = Matched(d[i - 1], text[i])
  BY <1>1, <1>8 DEF LeftOf
<1> QED
  BY <1>7, <1>8, <1>9

(* While no bracket was closed early, all that is left is open brackets.    *)
AllOpen(stack, depth) ==
  stack \in Text /\ Len(stack) = depth /\ \A k \in 1..Len(stack) : stack[k] = Open
Spoilt(stack) == stack \in Text /\ stack # <<>> /\ stack[1] = Shut

LEMMA MatchedOpens ==
  ASSUME NEW stack, NEW depth \in Nat, AllOpen(stack, depth), NEW c \in Symbol
  PROVE  \/ depth + Weight(c) \in Nat /\ AllOpen(Matched(stack, c), depth + Weight(c))
         \/ depth + Weight(c) = -1 /\ Spoilt(Matched(stack, c))
<1>1. stack \in Text /\ Len(stack) = depth
      /\ \A k \in 1..Len(stack) : stack[k] = Open
  BY DEF AllOpen
<1>2. /\ Append(stack, c) \in Text /\ Append(stack, c) # <<>>
      /\ Len(Append(stack, c)) = depth + 1
      /\ \A k \in 1..depth : Append(stack, c)[k] = stack[k]
      /\ Append(stack, c)[depth + 1] = c
  BY <1>1, AppendProperties DEF Text
<1>3. CASE c = Open
  <2>1. Matched(stack, c) = Append(stack, c) /\ Weight(c) = 1
    BY <1>3, WeightTyped DEF Matched
  <2>2. AllOpen(Append(stack, c), depth + 1)
    BY <1>1, <1>2, <1>3 DEF AllOpen
  <2> QED
    BY <2>1, <2>2
<1>4. CASE c = Shut /\ stack # <<>>
  <2>1. depth \in Nat \ {0} /\ depth - 1 \in 0..depth /\ depth \in 1..depth
    BY <1>1, <1>4, EmptySeq DEF Text
  <2>2. Last(stack) = Open
    BY <1>1, <2>1 DEF Last
  <2>3. Matched(stack, c) = FirstOf(stack, depth - 1) /\ Weight(c) = -1
    BY <1>1, <1>4, <2>2, WeightTyped, ReplAssumption DEF Matched, Front, FirstOf
  <2>4. AllOpen(FirstOf(stack, depth - 1), depth - 1)
    <3>1. /\ FirstOf(stack, depth - 1) \in Text
          /\ Len(FirstOf(stack, depth - 1)) = depth - 1
          /\ \A k \in 1..(depth - 1) : FirstOf(stack, depth - 1)[k] = stack[k]
      <4>1. stack \in Seq(Symbol) /\ depth - 1 \in 0..Len(stack)
        BY <1>1, <2>1 DEF Text
      <4> QED
        BY <4>1, FirstOfTyped DEF Text
    <3> QED
      BY <1>1, <2>1, <3>1 DEF AllOpen
  <2>5. depth + (-1) = depth - 1 /\ depth - 1 \in Nat
    BY <2>1
  <2> QED
    BY <2>3, <2>4, <2>5
<1>5. CASE c = Shut /\ stack = <<>>
  <2>1. depth = 0 /\ Weight(c) = -1 /\ Matched(stack, c) = Append(stack, c)
    BY <1>1, <1>5, WeightTyped, ReplAssumption DEF Matched
  <2>2. Spoilt(Append(stack, c))
    BY <1>2, <1>5, <2>1 DEF Spoilt
  <2> QED
    BY <2>1, <2>2
<1>6. CASE c # Open /\ c # Shut
  BY <1>6, WeightTyped DEF Matched
<1> QED
  BY <1>3, <1>4, <1>5, <1>6

LEMMA MatchedSpoils ==
  ASSUME NEW stack, Spoilt(stack), NEW c \in Symbol
  PROVE  Spoilt(Matched(stack, c))
<1>1. stack \in Text /\ stack # <<>> /\ stack[1] = Shut /\ Len(stack) \in Nat \ {0}
  BY EmptySeq DEF Spoilt, Text
<1>2. CASE Matched(stack, c) = Append(stack, c)
  <2>1. Append(stack, c) \in Text /\ Append(stack, c) # <<>>
        /\ Append(stack, c)[1] = stack[1]
    BY <1>1, AppendProperties DEF Text
  <2> QED
    BY <1>1, <1>2, <2>1 DEF Spoilt
<1>3. CASE Matched(stack, c) = stack
  BY <1>3
<1>4. CASE Matched(stack, c) = Front(stack) /\ Last(stack) = Open
  <2>1. Len(stack) # 1
    BY <1>1, <1>4, ReplAssumption DEF Last
  <2>2. Len(stack) - 1 \in 0..Len(stack) /\ 1 \in 1..(Len(stack) - 1)
    <3>1. \A l \in Nat \ {0} : l # 1 => l - 1 \in 0..l /\ 1 \in 1..(l - 1)
      OBVIOUS
    <3> QED
      BY <1>1, <2>1, <3>1, Zenon
  <2>3. /\ Front(stack) \in Text /\ Len(Front(stack)) = Len(stack) - 1
        /\ Front(stack)[1] = stack[1]
    BY <1>1, <2>2, FirstOfTyped DEF FirstOf, Front, Text
  <2>4. Front(stack) # <<>>
    BY <1>1, <2>2, <2>3
  <2> QED
    BY <1>1, <1>4, <2>3, <2>4 DEF Spoilt
<1> QED
  BY <1>2, <1>3, <1>4 DEF Matched

(* A program is complete exactly when its brackets match (has_unbalanced).  *)
LEMMA BalancedIsMatched ==
  ASSUME NEW text \in Text
  PROVE  HasUnbalanced(text) <=> Unmatched(text) # <<>>
<1> DEFINE n == Len(text)
           d == Depths(text)
<1>1. n \in Nat /\ \A i \in 1..n : text[i] \in Symbol
  BY LenProperties, ElementOfSeq DEF Text
<1>2. PICK f : /\ Unmatched(text) = f[n] /\ f[0] = <<>>
               /\ \A i \in 1..n : f[i] = Matched(f[i - 1], text[i])
  BY LeftExists
<1>3. /\ d[0] = 0
      /\ \A i \in 1..n : d[i - 1] \in Int /\ d[i] \in Int
                         /\ d[i] = d[i - 1] + Weight(text[i])
  BY DepthsAre
<1>4. HasUnbalanced(text) <=> (\E i \in 1..n : d[i] < 0) \/ d[n] > 0
  BY DEF HasUnbalanced
<1> HIDE DEF d, n
<1> DEFINE Nested(i) == /\ \A j \in 1..i : d[j] >= 0
                        /\ d[i] \in Nat /\ AllOpen(f[i], d[i])
           Broken(i) == (\E j \in 1..i : d[j] < 0) /\ Spoilt(f[i])
           Known     == {i \in 0..n : Nested(i) \/ Broken(i)}
<1>5. 0 \in Known
  <2>1. AllOpen(<<>>, 0)
    BY EmptySeq DEF AllOpen, Text
  <2> QED
    BY <1>1, <1>2, <1>3, <2>1
<1>6. ASSUME NEW i \in 0..n, i \in Known /\ i + 1 <= n
      PROVE  i + 1 \in Known
  <2>1. i \in Nat /\ i + 1 \in 1..n /\ (i + 1) - 1 = i /\ i + 1 \in 0..n
    BY <1>1, <1>6
  <2>2. /\ f[i + 1] = Matched(f[i], text[i + 1]) /\ text[i + 1] \in Symbol
        /\ d[i + 1] = d[i] + Weight(text[i + 1]) /\ d[i + 1] \in Int
    BY <1>1, <1>2, <1>3, <2>1
  <2>3. \A j \in 1..(i + 1) : j = i + 1 \/ j \in 1..i
    BY <2>1
  <2>4. CASE Nested(i)
    <3>1. CASE d[i + 1] \in Nat /\ AllOpen(f[i + 1], d[i + 1])
      <4>1. Nested(i + 1)
        BY <2>3, <2>4, <3>1
      <4> QED
        BY <2>1, <4>1
    <3>2. CASE d[i + 1] = -1 /\ Spoilt(f[i + 1])
      <4>1. i + 1 \in 1..(i + 1)
        BY <2>1
      <4>2. Broken(i + 1)
        BY <3>2, <4>1
      <4> QED
        BY <2>1, <4>2
    <3> HIDE DEF Known
    <3> QED
      BY <2>2, <2>4, <3>1, <3>2, MatchedOpens
  <2>5. CASE Broken(i)
    <3>1. Spoilt(f[i + 1])
      BY <2>2, <2>5, MatchedSpoils
    <3>2. \E j \in 1..(i + 1) : d[j] < 0
      BY <2>1, <2>5
    <3> QED
      BY <2>1, <3>1, <3>2
  <2> QED
    BY <1>6, <2>4, <2>5
<1>7. n \in Known
  <2> HIDE DEF Known
  <2>1. \A i \in 0..n : i \in Known
    BY <1>1, <1>5, <1>6, InductionUpTo
  <2> QED
    BY <1>1, <2>1
<1>8. CASE Nested(n)
  <2>1. HasUnbalanced(text) <=> d[n] > 0
    <3>1. ASSUME NEW j \in 1..n PROVE ~(d[j] < 0)
      BY <1>3, <1>8
    <3> QED
      BY <1>4, <3>1
  <2>2. f[n] \in Text /\ Len(f[n]) = d[n] /\ d[n] \in Nat
    BY <1>8 DEF AllOpen
  <2>3. f[n] = <<>> <=> Len(f[n]) = 0
    BY <2>2, EmptySeq DEF Text
  <2> QED
    BY <1>2, <2>1, <2>2, <2>3
<1>9. CASE Broken(n)
  BY <1>2, <1>4, <1>9 DEF Spoilt
<1> QED
  BY <1>7, <1>8, <1>9

-----------------------------------------------------------------------------
(* The read-evaluate-print loop: the text typed                            *)

TypedText(ts) == FlattenSeq([i \in DOMAIN ts |-> Append(Trimmed(ts[i]), Newline)])

LEMMA TextConcat ==
  /\ \A u, v \in Text : u \o v \in Text
  /\ \A u, v, w \in Text : (u \o v) \o w = u \o (v \o w)
  /\ \A u \in Text : <<>> \o u = u /\ u \o <<>> = u
BY ConcatProperties, ConcatAssociative, ConcatEmptySeq DEF Text

LEMMA TextUnit ==
  /\ <<>> \in Text /\ Newline \in Symbol /\ <<Newline>> \in Text
  /\ \A u \in Text : /\ Append(u, Newline) = u \o <<Newline>>
                     /\ Append(u, Newline) \in Text /\ Append(u, Newline) # <<>>
                     /\ Last(Append(u, Newline)) = Newline
<1>1. Newline \in Symbol
  BY DEF Symbol
<1>2. ASSUME NEW u \in Text
      PROVE  /\ Append(u, Newline) = u \o <<Newline>>
             /\ Append(u, Newline) \in Text /\ Append(u, Newline) # <<>>
             /\ Last(Append(u, Newline)) = Newline
  BY <1>1, AppendIsConcat, AppendProperties DEF Text, Last
<1>3. <<>> \in Text /\ <<Newline>> \in Text
  BY <1>1 DEF Text
<1> QED
  BY <1>1, <1>2, <1>3

LEMMA TrimmedTyped ==
  ASSUME NEW line \in Lines
  PROVE  Trimmed(line) \in Text
<1>1. line \in Text
  <2>1. PICK m \in 0..MaxLine : line \in [1..m -> {Open, Shut, Tick}]
    BY DEF Lines, SeqOf
  <2>2. m \in Nat /\ line \in [1..m -> Symbol]
    BY <2>1, ReplAssumption DEF Symbol
  <2> QED
    BY <2>2, MadeASeq DEF Text
<1>2. ASSUME line # <<>> PROVE Front(line) \in Text
  <2>1. line \in Seq(Symbol) /\ Len(line) - 1 \in 0..Len(line)
    BY <1>1, <1>2, EmptySeq DEF Text
  <2> QED
    BY <2>1, FirstOfTyped DEF FirstOf, Front, Text
<1> QED
  BY <1>1, <1>2 DEF Trimmed, Continued

LEMMA TypedTextTyped ==
  ASSUME NEW ts \in Seq(Lines)
  PROVE  /\ [i \in DOMAIN ts |-> Append(Trimmed(ts[i]), Newline)] \in Seq(Text)
         /\ Len([i \in DOMAIN ts |-> Append(Trimmed(ts[i]), Newline)]) = Len(ts)
         /\ TypedText(ts) \in Text
<1>1. DOMAIN ts = 1..Len(ts) /\ Len(ts) \in Nat
  BY LenProperties
<1>2. \A i \in 1..Len(ts) : Append(Trimmed(ts[i]), Newline) \in Text
  BY ElementOfSeq, TrimmedTyped, TextUnit
<1> DEFINE f == [i \in DOMAIN ts |-> Append(Trimmed(ts[i]), Newline)]
<1>3. f \in [1..Len(ts) -> Text]
  BY <1>1, <1>2, Zenon
<1>4. TypedText(ts) = FlattenSeq(f)
  BY DEF TypedText
<1> HIDE DEF f
<1>5. f \in Seq(Text) /\ Len(f) = Len(ts)
  BY <1>1, <1>3, MadeASeq
<1>6. FlattenSeq(f) \in Text
  BY <1>5, FlattenSeqTyped DEF Text
<1> QED
  BY <1>4, <1>5, <1>6 DEF f

LEMMA TypedTextAppend ==
  ASSUME NEW ts \in Seq(Lines), NEW line \in Lines
  PROVE  TypedText(Append(ts, line)) = TypedText(ts) \o Append(Trimmed(line), Newline)
<1> DEFINE F(us) == [i \in DOMAIN us |-> Append(Trimmed(us[i]), Newline)]
           us == Append(ts, line)
<1>1. /\ us \in Seq(Lines) /\ Len(us) = Len(ts) + 1 /\ Len(ts) \in Nat
      /\ \A i \in 1..Len(ts) : us[i] = ts[i]
      /\ us[Len(ts) + 1] = line
  BY AppendProperties, LenProperties
<1> HIDE DEF us
<1>2. DOMAIN ts = 1..Len(ts) /\ DOMAIN us = 1..(Len(ts) + 1)
  BY <1>1, LenProperties
<1>3. /\ F(ts) \in Seq(Text) /\ Len(F(ts)) = Len(ts)
      /\ F(us) \in Seq(Text) /\ Len(F(us)) = Len(ts) + 1
  BY <1>1, TypedTextTyped
<1>4. /\ \A i \in 1..Len(ts) : F(ts)[i] = Append(Trimmed(ts[i]), Newline)
      /\ \A i \in 1..(Len(ts) + 1) : F(us)[i] = Append(Trimmed(us[i]), Newline)
  BY <1>2
<1>5. Append(Trimmed(line), Newline) \in Text
  BY TrimmedTyped, TextUnit
<1> HIDE DEF F
<1>6. ASSUME NEW i \in 1..Len(ts)
      PROVE  F(us)[i] = F(ts)[i]
  <2>1. i \in 1..(Len(ts) + 1)
    BY <1>1
  <2> QED
    BY <1>1, <1>4, <2>1, Zenon
<1>7. F(us)[Len(ts) + 1] = Append(Trimmed(line), Newline)
  <2>1. Len(ts) + 1 \in 1..(Len(ts) + 1)
    BY <1>1
  <2> QED
    BY <1>1, <1>4, <2>1, Zenon
<1>8. FlattenSeq(F(us)) = FlattenSeq(F(ts)) \o Append(Trimmed(line), Newline)
  <2>1. PICK u, v, w : u = F(ts) /\ v = F(us) /\ w = Append(Trimmed(line), Newline)
    OBVIOUS
  <2>2. /\ u \in Seq(Seq(Symbol)) /\ v \in Seq(Seq(Symbol)) /\ w \in Seq(Symbol)
        /\ Len(v) = Len(u) + 1 /\ v[Len(u) + 1] = w
        /\ \A i \in 1..Len(u) : v[i] = u[i]
    BY <1>3, <1>5, <1>6, <1>7, <2>1 DEF Text
  <2>3. FlattenSeq(v) = FlattenSeq(u) \o w
    BY <2>2, FlattenSeqMore
  <2> QED
    BY <2>1, <2>3
<1> QED
  BY <1>8 DEF TypedText, F, us

-----------------------------------------------------------------------------
(* The read-evaluate-print loop: the steps                                 *)

LEMMA CompleteStays ==
  ASSUME ReplInv, ran' = ran, finished => finished'
  PROVE  \A i \in 1..Len(ran') : Complete(i)'
<1>1. ASSUME NEW i \in 1..Len(ran')
      PROVE  Complete(i)'
  <2>1. Complete(i) /\ ran'[i] = ran[i] /\ Len(ran') = Len(ran)
    BY DEF ReplInv
  <2> QED
    BY <2>1 DEF Complete, HasUnbalanced, Depths, Weight
<1> QED
  BY <1>1

(* A program handed to the session comes last.                              *)
LEMMA RunAppends ==
  ASSUME ReplInv, ~finished, NEW text \in Text, text # <<>>, Last(text) = Newline,
         ran' = Append(ran, text), ~HasUnbalanced(text) \/ finished'
  PROVE  /\ ran' \in Seq(Text) /\ FlattenSeq(ran') = FlattenSeq(ran) \o text
         /\ \A i \in 1..Len(ran') : Complete(i)'
<1>1. /\ ran' \in Seq(Text) /\ Len(ran') = Len(ran) + 1 /\ Len(ran) \in Nat
      /\ \A i \in 1..Len(ran) : ran'[i] = ran[i]
      /\ ran'[Len(ran) + 1] = text
  BY AppendProperties, LenProperties DEF ReplInv, ReplTypeOK
<1>2. FlattenSeq(ran') = FlattenSeq(ran) \o text
  BY FlattenSeqAppend DEF ReplInv, ReplTypeOK, Text
<1>3. ASSUME NEW i \in 1..Len(ran')
      PROVE  Complete(i)'
  <2>1. CASE i = Len(ran) + 1
    <3>1. ran'[i] = text /\ i = Len(ran')
      BY <1>1, <2>1
    <3>2. HasUnbalanced(ran'[i]) <=> HasUnbalanced(text)
      BY <3>1, Zenon
    <3> QED
      BY <3>1, <3>2 DEF Complete, HasUnbalanced, Depths, Weight
  <2>2. CASE i # Len(ran) + 1
    <3>1. i \in 1..Len(ran) /\ ran'[i] = ran[i]
      BY <1>1, <2>2
    <3>2. Complete(i)
      BY <3>1 DEF ReplInv
    <3> QED
      BY <3>1, <3>2 DEF Complete, HasUnbalanced, Depths, Weight
  <2> QED
    BY <2>1, <2>2
<1> QED
  BY <1>1, <1>2, <1>3

LEMMA TypeLineStep ==
  ASSUME ReplInv, NEW line \in Lines, TypeLine(line)
  PROVE  ReplInv'
<1> DEFINE text == Append(buffer \o Trimmed(line), Newline)
<1>1. /\ ~finished /\ finished' = finished /\ typed' = Append(typed, line)
      /\ typed \in Seq(Lines) /\ buffer \in Text /\ ran \in Seq(Text)
      /\ FlattenSeq(ran) \o buffer = TypedText(typed)
  BY DEF ReplInv, ReplTypeOK, TypeLine, Typed, TypedText
<1>2. /\ IF Continued(line) \/ HasUnbalanced(text)
         THEN buffer' = text /\ ran' = ran
         ELSE buffer' = <<>> /\ ran' = Append(ran, text)
  BY DEF TypeLine
<1>3. Trimmed(line) \in Text /\ buffer \o Trimmed(line) \in Text
  BY <1>1, TrimmedTyped, TextConcat
<1>4. /\ text \in Text /\ text # <<>> /\ Last(text) = Newline
      /\ text = (buffer \o Trimmed(line)) \o <<Newline>>
  BY <1>3, TextUnit
<1>5. /\ typed' \in Seq(Lines) /\ Last(typed') = line
  BY <1>1, AppendProperties, LenProperties DEF Last
<1>6. FlattenSeq(ran) \in Text
  BY <1>1, FlattenSeqTyped DEF Text
<1>7. Typed' = FlattenSeq(ran) \o text
  <2>1. Typed' = TypedText(typed) \o Append(Trimmed(line), Newline)
    <3>1. Typed' = TypedText(typed')
      BY DEF Typed, TypedText, Trimmed, Continued
    <3> QED
      BY <1>1, <3>1, TypedTextAppend
  <2>2. PICK u, v, w, e : /\ u = FlattenSeq(ran) /\ v = buffer
                          /\ w = Trimmed(line) /\ e = <<Newline>>
    OBVIOUS
  <2>3. u \in Text /\ v \in Text /\ w \in Text /\ e \in Text
    BY <1>1, <1>3, <1>6, <2>2, TextUnit
  <2>4. Append(Trimmed(line), Newline) = w \o e
    BY <1>3, <2>2, TextUnit
  <2>5. Typed' = (u \o v) \o (w \o e)
    BY <1>1, <2>1, <2>2, <2>4
  <2>6. w \o e \in Text
    BY <2>3, TextConcat, Zenon
  <2>7. (u \o v) \o (w \o e) = u \o (v \o (w \o e))
    BY <2>3, <2>6, TextConcat, Zenon
  <2>8. v \o (w \o e) = (v \o w) \o e
    BY <2>3, TextConcat, Zenon
  <2> QED
    BY <1>4, <2>2, <2>5, <2>7, <2>8
<1>8. CASE Continued(line) \/ HasUnbalanced(text)
  <2>1. buffer' = text /\ ran' = ran
    BY <1>2, <1>8
  <2>2. ReplTypeOK'
    BY <1>1, <1>4, <1>5, <2>1 DEF ReplInv, ReplTypeOK
  <2>3. Unfinished'
    <3>1. HasUnbalanced(buffer') \/ Continued(Last(typed'))
      BY <1>5, <1>8, <2>1
    <3> QED
      BY <3>1 DEF Unfinished, HasUnbalanced, Depths, Weight, Continued
  <2>4. \A i \in 1..Len(ran') : Complete(i)'
    BY <1>1, <2>1, CompleteStays
  <2> QED
    BY <1>4, <1>7, <2>1, <2>2, <2>3, <2>4 DEF ReplInv
<1>9. CASE ~(Continued(line) \/ HasUnbalanced(text))
  <2>1. buffer' = <<>> /\ ran' = Append(ran, text) /\ ~HasUnbalanced(text)
    BY <1>2, <1>9
  <2> HIDE DEF text
  <2>2. /\ ran' \in Seq(Text) /\ FlattenSeq(ran') = FlattenSeq(ran) \o text
        /\ \A i \in 1..Len(ran') : Complete(i)'
    BY <1>1, <1>4, <2>1, RunAppends
  <2>3. ReplTypeOK' /\ Unfinished'
    BY <1>1, <1>5, <2>1, <2>2, TextUnit DEF ReplInv, ReplTypeOK, Unfinished
  <2>4. FlattenSeq(ran') \o buffer' = Typed'
    <3>1. FlattenSeq(ran) \o text \in Text
      BY <1>4, <1>6, TextConcat, Zenon
    <3> QED
      BY <1>7, <2>1, <2>2, <3>1, TextConcat, Zenon
  <2> QED
    BY <2>1, <2>2, <2>3, <2>4 DEF ReplInv
<1> QED
  BY <1>8, <1>9

LEMMA EndOfInputStep ==
  ASSUME ReplInv, EndOfInput
  PROVE  ReplInv'
<1>1. /\ ~finished /\ finished' = TRUE /\ buffer' = <<>> /\ typed' = typed
      /\ buffer \in Text /\ ran \in Seq(Text) /\ typed \in Seq(Lines)
      /\ FlattenSeq(ran) \o buffer = Typed /\ <<>> \in Text
  BY TextUnit DEF ReplInv, ReplTypeOK, EndOfInput
<1>2. Typed' = Typed /\ FlattenSeq(ran) \in Text
  BY <1>1, FlattenSeqTyped DEF Typed, Trimmed, Continued, Text
<1>3. FlattenSeq(ran) \o buffer \in Text
  BY <1>1, <1>2, TextConcat, Zenon
<1>4. CASE buffer = <<>>
  <2>1. ran' = ran
    BY <1>4 DEF EndOfInput
  <2>2. \A i \in 1..Len(ran') : Complete(i)'
    BY <1>1, <2>1, CompleteStays
  <2> QED
    BY <1>1, <1>2, <1>4, <2>1, <2>2 DEF ReplInv, ReplTypeOK, Unfinished
<1>5. CASE buffer # <<>>
  <2>1. ran' = Append(ran, buffer) /\ Last(buffer) = Newline
    BY <1>5 DEF EndOfInput, ReplInv
  <2>2. /\ ran' \in Seq(Text) /\ FlattenSeq(ran') = FlattenSeq(ran) \o buffer
        /\ \A i \in 1..Len(ran') : Complete(i)'
    BY <1>1, <1>5, <2>1, RunAppends
  <2>3. FlattenSeq(ran') \o <<>> = FlattenSeq(ran) \o buffer
    BY <1>3, <2>2, TextConcat, Zenon
  <2> QED
    BY <1>1, <1>2, <2>2, <2>3 DEF ReplInv, ReplTypeOK, Unfinished
<1> QED
  BY <1>4, <1>5

LEMMA ReplKeeps ==
  ASSUME ReplInv, ReadError \/ UNCHANGED rpVars
  PROVE  ReplInv'
<1>1. UNCHANGED <<typed, buffer, ran>> /\ finished' \in BOOLEAN /\ (finished => finished')
  BY DEF ReadError, rpVars, ReplInv, ReplTypeOK
<1>2. Typed' = Typed
  BY <1>1 DEF Typed, Trimmed, Continued
<1>3. \A i \in 1..Len(ran') : Complete(i)'
  BY <1>1, CompleteStays
<1>4. Unfinished'
  BY <1>1 DEF ReplInv, Unfinished, HasUnbalanced, Depths, Weight, Continued
<1> QED
  BY <1>1, <1>2, <1>3, <1>4 DEF ReplInv, ReplTypeOK

-----------------------------------------------------------------------------
(* The read-evaluate-print loop: the theorems                              *)

(* The loop collects what it has not run, and waits only for the rest of a  *)
(* program (repl).                                                         *)
THEOREM ReplInvariant == RpSpec => []ReplInv
<1>1. RpInit => ReplInv
  <2> SUFFICES ASSUME RpInit PROVE ReplInv
    OBVIOUS
  <2>1. <<>> \in Text /\ <<>> \in Seq(Text) /\ <<>> \in Seq(Lines) /\ Len(<<>>) = 0
    BY TextUnit
  <2>2. Typed = <<>>
    <3>1. [i \in DOMAIN <<>> |-> Append(Trimmed(<<>>[i]), Newline)] = <<>>
      OBVIOUS
    <3> QED
      BY <3>1, FlattenSeqEmpty DEF RpInit, Typed
  <2>3. FlattenSeq(ran) \o buffer = Typed
    BY <2>1, <2>2, FlattenSeqEmpty, TextConcat DEF RpInit
  <2>4. \A i \in 1..Len(ran) : Complete(i)
    BY <2>1 DEF RpInit
  <2>5. ReplTypeOK /\ Unfinished
    BY <2>1 DEF RpInit, ReplTypeOK, Unfinished
  <2>6. buffer = <<>>
    BY DEF RpInit
  <2> QED
    BY <2>3, <2>4, <2>5, <2>6 DEF ReplInv
<1>2. ReplInv /\ [RpNext]_rpVars => ReplInv'
  BY TypeLineStep, EndOfInputStep, ReplKeeps DEF RpNext
<1> QED
  BY <1>1, <1>2, PTL DEF RpSpec

(* The programs run are the text typed, cut at ends of lines with nothing   *)
(* lost; each is well nested unless the input ended, and what is still      *)
(* collected is not, or ends in a backtick (repl, has_unbalanced).          *)
THEOREM ReplWholePrograms == RpSpec => []ReplRunsWholePrograms
<1>1. ReplInv => ReplRunsWholePrograms
  <2> SUFFICES ASSUME ReplInv PROVE ReplRunsWholePrograms
    OBVIOUS
  <2>1. buffer \in Text /\ ran \in Seq(Text) /\ DOMAIN ran = 1..Len(ran)
    BY LenProperties DEF ReplInv, ReplTypeOK
  <2>2. \A i \in DOMAIN ran : /\ ran[i] \in Text /\ Last(ran[i]) = Newline
                              /\ ~HasUnbalanced(ran[i]) \/ (finished /\ i = Len(ran))
    BY <2>1, ElementOfSeq DEF ReplInv, Complete
  <2>3. \A i \in DOMAIN ran : Unmatched(ran[i]) = <<>> \/ (finished /\ i = Len(ran))
    BY <2>2, BalancedIsMatched
  <2>4. buffer # <<>> => Unmatched(buffer) # <<>> \/ Continued(Last(typed))
    BY <2>1, BalancedIsMatched DEF ReplInv, Unfinished
  <2> QED
    BY <2>2, <2>3, <2>4 DEF ReplRunsWholePrograms, ReplInv
<1> QED
  BY <1>1, ReplInvariant, PTL

-----------------------------------------------------------------------------
(* RIDE: the invariant                                                     *)


Cell    == [of : Request, at : Nat]
Value   == [n : Nat, out : Nat, ok : BOOLEAN]
Current == Request \cup {NoRequest}
Msg     == {Status, Identity, Prompt(0), Prompt(1),
            Message("SupportedProtocols"), Message("UsingProtocol")}
           \cup {EchoInput(q.text) : q \in Current}
           \cup {Reply(q.cmd) : q \in Current}
           \cup {Output(r, b) : r \in Value, b \in BOOLEAN}
Conversation == [mode : {"serve", "ride"}, n : Nat, identified : BOOLEAN,
                 over : BOOLEAN, said : Seq(Msg)]
StepName == {"hello", "using", "prompt0", "prompt1", "identity", "reply",
             "status", "echo", "eval", "output", "status?", "using?"}

(* The state is made of what its declarations say.                          *)
RideTypeOK ==
  /\ mode \in {"serve", "ride"} /\ peer \in {"here", "left", "reset"}
  /\ net \in Seq(Cell) /\ acc \in Seq(Cell)
  /\ asked \in Seq(Request) /\ said \in Seq(Msg)
  /\ todo \in Seq(StepName) /\ request \in Current /\ result \in Value
  /\ programs \in Nat
  /\ identified \in BOOLEAN /\ working \in BOOLEAN /\ ended \in BOOLEAN

(* An evaluation is followed by three steps, the first of which prints it.  *)
Shape ==
  /\ Len(todo) <= 6
  /\ \A i \in 1..Len(todo) : /\ todo[i] = "eval" <=> Len(todo) - i = 3
                             /\ todo[i] = "output" => Len(todo) - i = 2

(* What the handler's program evaluates to, or did.                         *)
Evaluated == IF Len(todo) >= 4 THEN Eval(programs, request.text) ELSE result

(* The message step i of the rest of the handler sends, if any.             *)
Due(i) ==
  IF i > Len(todo) THEN <<>>
  ELSE IF todo[i] = "eval" THEN <<>>
  ELSE IF todo[i] = "output"
       THEN IF Quiet(Evaluated) THEN <<>> ELSE <<Output(Evaluated, identified)>>
  ELSE <<Wording(todo[i])>>

AllDue == Due(1) \o (Due(2) \o (Due(3) \o (Due(4) \o (Due(5) \o Due(6)))))

(* The cells of a sequence of requests.                                    *)
Cells(qs) == FlattenSeq([i \in 1..Len(qs) |-> Frame(qs[i])])

(* The conversation about the first k requests.                            *)
Part(k) == ConversationOf(mode, FirstOf(asked, k))

(* What was sent is what was served, what is buffered and what is under way, *)
(* and what was lost with the peer.                                        *)
Wire(k) ==
  /\ Begins(Cells(FirstOf(asked, k)) \o (acc \o net), Cells(asked))
  /\ peer = "here" => Cells(FirstOf(asked, k)) \o (acc \o net) = Cells(asked)

(* k requests were dispatched, and the last may still be in its handler.    *)
Served(k) ==
  /\ Wire(k)
  /\ identified = Part(k).identified
  /\ Part(k).over => ended
  /\ Part(k).n = IF Len(todo) >= 4 THEN Evaluated.n ELSE programs
  /\ working => said \o AllDue = Part(k).said

(* The inductive invariant.                                                *)
RideInv ==
  /\ RideTypeOK /\ Shape
  /\ ~working => peer # "here"
  /\ \E k \in 0..Len(asked) : Served(k)

-----------------------------------------------------------------------------
(* Messages                                                                *)

LEMMA MessagesTyped ==
  /\ Status \in Msg /\ Identity \in Msg /\ Prompt(0) \in Msg /\ Prompt(1) \in Msg
  /\ Message("SupportedProtocols") \in Msg /\ Message("UsingProtocol") \in Msg
  /\ \A q \in Current : EchoInput(q.text) \in Msg /\ Reply(q.cmd) \in Msg
  /\ \A r \in Value, b \in BOOLEAN : Output(r, b) \in Msg
BY DEF Msg

LEMMA EvalTyped ==
  ASSUME NEW n \in Nat, NEW text
  PROVE  Eval(n, text) \in Value /\ Eval(n, text).n \in Nat
BY DEF Eval, Value

LEMMA GreetingTyped ==
  ASSUME NEW m
  PROVE  Greeting(m) \in Seq(Msg)
BY MessagesTyped DEF Greeting

LEMMA AnswerTyped ==
  ASSUME NEW m, NEW q \in Request, NEW n \in Nat, NEW b \in BOOLEAN
  PROVE  Answer(m, q, n, b) \in Seq(Msg)
<1>1. q \in Current
  BY DEF Current
<1>2. ExecuteAnswer(q.text, n, b) \in Seq(Msg)
  <2>1. /\ <<EchoInput(q.text), Prompt(0)>> \in Seq(Msg)
        /\ <<Status, Prompt(1)>> \in Seq(Msg)
    <3>1. EchoInput(q.text) \in Msg /\ Prompt(0) \in Msg /\ Status \in Msg
          /\ Prompt(1) \in Msg
      BY <1>1, MessagesTyped
    <3> QED
      BY <3>1
  <2>2. Output(Eval(n, q.text), b) \in Msg
    BY EvalTyped, MessagesTyped
  <2>3. (IF Quiet(Eval(n, q.text)) THEN <<>> ELSE <<Output(Eval(n, q.text), b)>>)
           \in Seq(Msg)
    BY <2>2
  <2> QED
    BY <2>1, <2>3, ConcatProperties DEF ExecuteAnswer
<1>3. /\ <<Identity, Prompt(1)>> \in Seq(Msg) /\ <<Reply(q.cmd)>> \in Seq(Msg)
      /\ <<Status>> \in Seq(Msg) /\ <<Message("UsingProtocol")>> \in Seq(Msg)
      /\ <<>> \in Seq(Msg)
  <2>1. Identity \in Msg /\ Prompt(1) \in Msg /\ Reply(q.cmd) \in Msg
        /\ Status \in Msg /\ Message("UsingProtocol") \in Msg
    BY <1>1, MessagesTyped
  <2> QED
    BY <2>1
<1> QED
  BY <1>2, <1>3 DEF Answer

-----------------------------------------------------------------------------
(* Conversations                                                           *)

LEMMA OpenedTyped ==
  ASSUME NEW m \in {"serve", "ride"}
  PROVE  Opened(m) \in Conversation
BY GreetingTyped DEF Opened, Conversation

LEMMA AskedTyped ==
  ASSUME NEW c \in Conversation, NEW q \in Request
  PROVE  /\ Asked(c, q) \in Conversation
         /\ Asked(c, q).mode = c.mode
         /\ c.over => Asked(c, q) = c
         /\ ~c.over =>
              /\ Asked(c, q).n = IF q.cmd = "Execute" THEN Eval(c.n, q.text).n ELSE c.n
              /\ Asked(c, q).identified = (c.identified \/ q.cmd = "Identify")
              /\ Asked(c, q).over = EndsSession(c.mode, q)
              /\ Asked(c, q).said =
                   c.said \o Answer(c.mode, q, c.n, c.identified \/ q.cmd = "Identify")
<1> DEFINE b == c.identified \/ q.cmd = "Identify"
           added == Answer(c.mode, q, c.n, b)
           m == IF q.cmd = "Execute" THEN Eval(c.n, q.text).n ELSE c.n
<1>1. c.n \in Nat /\ c.said \in Seq(Msg) /\ c.mode \in {"serve", "ride"}
  BY DEF Conversation
<1>2. b \in BOOLEAN /\ EndsSession(c.mode, q) \in BOOLEAN
  BY DEF EndsSession
<1>3. added \in Seq(Msg) /\ m \in Nat
  BY <1>1, <1>2, AnswerTyped, EvalTyped
<1>4. c.said \o added \in Seq(Msg)
  BY <1>1, <1>3, ConcatProperties
<1>5. CASE c.over
  BY <1>5 DEF Asked
<1>6. CASE ~c.over
  <2>1. Asked(c, q) = [c EXCEPT !.n = m, !.identified = b,
                                !.over = EndsSession(c.mode, q),
                                !.said = c.said \o added]
    BY <1>6 DEF Asked, Conversation
  <2> HIDE DEF m, b, added
  <2>2. Asked(c, q) = [mode |-> c.mode, n |-> m, identified |-> b,
                       over |-> EndsSession(c.mode, q), said |-> c.said \o added]
    BY <2>1 DEF Conversation
  <2>3. Asked(c, q) \in Conversation
    BY <1>1, <1>2, <1>3, <1>4, <2>2 DEF Conversation
  <2>4. /\ Asked(c, q).mode = c.mode /\ Asked(c, q).n = m
        /\ Asked(c, q).identified = b
        /\ Asked(c, q).over = EndsSession(c.mode, q)
        /\ Asked(c, q).said = c.said \o added
    BY <2>2
  <2> QED
    BY <1>6, <2>3, <2>4 DEF m, b, added
<1> QED
  BY <1>5, <1>6

(* A request adds its answer, in the same mode; none once it is over.       *)
LEMMA AskedGrows ==
  ASSUME NEW c \in Conversation, NEW q \in Request, NEW d, d = Asked(c, q)
  PROVE  /\ c.over => d = c
         /\ d.mode = c.mode
         /\ Begins(c.said, d.said)
<1> DEFINE b == c.identified \/ q.cmd = "Identify"
           added == Answer(c.mode, q, c.n, b)
<1>1. c.said \in Seq(Msg) /\ c.n \in Nat /\ b \in BOOLEAN
  BY DEF Conversation
<1>2. added \in Seq(Msg)
  BY <1>1, AnswerTyped
<1>3. /\ c.over => d = c
      /\ d.mode = c.mode
      /\ ~c.over => d.said = c.said \o added
  BY AskedTyped
<1> HIDE DEF added
<1>4. Begins(c.said, c.said)
  BY <1>1, LenProperties DEF Begins
<1>5. Begins(c.said, c.said \o added)
  BY <1>1, <1>2, BeginsConcat
<1> QED
  BY <1>3, <1>4, <1>5

(* f[i] is the conversation about the first i requests.                     *)
Talks(m, qs, f) ==
  f = [i \in 0..Len(qs) |-> IF i = 0 THEN Opened(m) ELSE Asked(f[i - 1], qs[i])]

LEMMA TalksExist ==
  ASSUME NEW m \in {"serve", "ride"}, NEW qs \in Seq(Request)
  PROVE  \E f : Talks(m, qs, f)
<1> DEFINE G == [p \in Conversation \X Request |-> Asked(p[1], p[2])]
<1>1. /\ G \in [Conversation \X Request -> Conversation]
      /\ \A c \in Conversation, q \in Request : G[<<c, q>>] = Asked(c, q)
  BY AskedTyped
<1>2. Len(qs) \in Nat /\ \A i \in 1..Len(qs) : qs[i] \in Request
  BY LenProperties, ElementOfSeq
<1> HIDE DEF G
<1>3. PICK f : Follows(qs, Conversation, Opened(m), G, f)
  BY <1>1, OpenedTyped, RecursionExists
<1>4. \A i \in 1..Len(qs) : f[i] = Asked(f[i - 1], qs[i])
  <2>1. \A i \in 1..Len(qs) : i - 1 \in 0..Len(qs)
    BY <1>2
  <2> QED
    BY <1>1, <1>2, <1>3, <2>1 DEF Follows
<1>5. f = [i \in 0..Len(qs) |-> f[i]] /\ f[0] = Opened(m)
  BY <1>3 DEF Follows
<1>6. \A i \in 0..Len(qs) :
        f[i] = IF i = 0 THEN Opened(m) ELSE Asked(f[i - 1], qs[i])
  <2>1. ASSUME NEW i \in 0..Len(qs), i # 0 PROVE f[i] = Asked(f[i - 1], qs[i])
    <3>1. i \in 1..Len(qs)
      BY <1>2, <2>1
    <3> QED
      BY <1>4, <3>1
  <2> QED
    BY <1>5, <2>1
<1> QED
  BY <1>5, <1>6 DEF Talks

LEMMA TalksTyped ==
  ASSUME NEW m \in {"serve", "ride"}, NEW qs \in Seq(Request), NEW f,
         Talks(m, qs, f)
  PROVE  /\ f[0] = Opened(m)
         /\ \A i \in 1..Len(qs) : f[i] = Asked(f[i - 1], qs[i])
         /\ \A i \in 0..Len(qs) : f[i] \in Conversation
<1> DEFINE Known == {i \in 0..Len(qs) : f[i] \in Conversation}
<1>1. Len(qs) \in Nat /\ \A i \in 1..Len(qs) : qs[i] \in Request
  BY LenProperties, ElementOfSeq
<1>2. /\ f[0] = Opened(m)
      /\ \A i \in 1..Len(qs) : f[i] = Asked(f[i - 1], qs[i])
  BY <1>1 DEF Talks
<1>3. 0 \in Known
  BY <1>1, <1>2, OpenedTyped
<1>4. ASSUME NEW i \in 0..Len(qs), i \in Known /\ i + 1 <= Len(qs)
      PROVE  i + 1 \in Known
  <2>1. i + 1 \in 1..Len(qs) /\ (i + 1) - 1 = i /\ f[i] \in Conversation
        /\ i + 1 \in 0..Len(qs)
    BY <1>1, <1>4
  <2>2. f[i + 1] = Asked(f[i], qs[i + 1]) /\ qs[i + 1] \in Request
    BY <1>1, <1>2, <2>1
  <2>3. f[i + 1] \in Conversation
    BY <2>1, <2>2, AskedTyped
  <2> QED
    BY <2>1, <2>3
<1>5. \A i \in 0..Len(qs) : i \in Known
  <2> HIDE DEF Known
  <2> QED
    BY <1>1, <1>3, <1>4, InductionUpTo
<1> QED
  BY <1>2, <1>5

LEMMA ConversationTalks ==
  ASSUME NEW m \in {"serve", "ride"}, NEW qs \in Seq(Request)
  PROVE  \E f : Talks(m, qs, f) /\ ConversationOf(m, qs) = f[Len(qs)]
<1> DEFINE f == CHOOSE f : Talks(m, qs, f)
<1>1. Talks(m, qs, f)
  BY TalksExist
<1>2. ConversationOf(m, qs) = f[Len(qs)]
  BY DEF ConversationOf, Talks
<1> QED
  BY <1>1, <1>2

LEMMA ConversationTyped ==
  ASSUME NEW m \in {"serve", "ride"}, NEW qs \in Seq(Request)
  PROVE  ConversationOf(m, qs) \in Conversation
<1>1. PICK f : Talks(m, qs, f) /\ ConversationOf(m, qs) = f[Len(qs)]
  BY ConversationTalks
<1>2. Len(qs) \in 0..Len(qs)
  BY LenProperties
<1> QED
  BY <1>1, <1>2, TalksTyped

LEMMA ConversationEmpty ==
  ASSUME NEW m \in {"serve", "ride"}
  PROVE  ConversationOf(m, <<>>) = Opened(m)
<1>1. <<>> \in Seq(Request) /\ Len(<<>>) = 0
  BY EmptySeq
<1>2. PICK f : Talks(m, <<>>, f) /\ ConversationOf(m, <<>>) = f[Len(<<>>)]
  BY <1>1, ConversationTalks
<1> QED
  BY <1>1, <1>2, TalksTyped

(* One more request takes one more step.                                    *)
LEMMA ConversationAppend ==
  ASSUME NEW m \in {"serve", "ride"}, NEW qs \in Seq(Request), NEW q \in Request
  PROVE  ConversationOf(m, Append(qs, q)) = Asked(ConversationOf(m, qs), q)
<1> DEFINE n == Len(qs)
           rs == Append(qs, q)
<1>1. /\ rs \in Seq(Request) /\ Len(rs) = n + 1 /\ n \in Nat
      /\ \A i \in 1..n : rs[i] = qs[i]
      /\ rs[n + 1] = q
  BY AppendProperties, LenProperties
<1>2. PICK f : Talks(m, qs, f) /\ ConversationOf(m, qs) = f[n]
  BY ConversationTalks
<1>3. /\ f[0] = Opened(m)
      /\ \A i \in 1..n : f[i] = Asked(f[i - 1], qs[i])
  BY <1>2, TalksTyped
<1> HIDE DEF n, rs
<1>4. PICK g : Talks(m, rs, g) /\ ConversationOf(m, rs) = g[Len(rs)]
  BY <1>1, ConversationTalks
<1>5. /\ g[0] = Opened(m)
      /\ \A i \in 1..Len(rs) : g[i] = Asked(g[i - 1], rs[i])
  BY <1>1, <1>4, TalksTyped
<1> DEFINE Agree == {i \in 0..n : f[i] = g[i]}
<1>6. 0 \in Agree
  BY <1>1, <1>3, <1>5
<1>7. ASSUME NEW i \in 0..n, i \in Agree /\ i + 1 <= n
      PROVE  i + 1 \in Agree
  <2>1. /\ i + 1 \in 1..n /\ i + 1 \in 1..Len(rs) /\ (i + 1) - 1 = i
        /\ i + 1 \in 0..n /\ f[i] = g[i] /\ rs[i + 1] = qs[i + 1]
    BY <1>1, <1>7
  <2>2. f[i + 1] = g[i + 1]
    BY <1>3, <1>5, <2>1
  <2> QED
    BY <2>1, <2>2
<1>8. \A i \in 0..n : i \in Agree
  <2> HIDE DEF Agree
  <2> QED
    BY <1>1, <1>6, <1>7, InductionUpTo
<1>9. n + 1 \in 1..Len(rs) /\ (n + 1) - 1 = n /\ f[n] = g[n]
  BY <1>1, <1>8
<1>10. g[n + 1] = Asked(g[n], q)
  BY <1>1, <1>5, <1>9
<1> QED
  BY <1>1, <1>2, <1>4, <1>9, <1>10 DEF rs

(* A conversation is how every longer one begins, and all of it once over.  *)
LEMMA ConversationGrows ==
  ASSUME NEW m \in {"serve", "ride"}, NEW qs \in Seq(Request),
         NEW k \in 0..Len(qs)
  PROVE  LET c == ConversationOf(m, FirstOf(qs, k))
             d == ConversationOf(m, qs)
         IN  /\ c \in Conversation /\ d \in Conversation
             /\ Begins(c.said, d.said)
             /\ c.over => d = c
             /\ c.mode = m
<1> DEFINE C(i) == ConversationOf(m, FirstOf(qs, i))
           Later == {i \in 0..Len(qs) :
                       i >= k => Begins(C(k).said, C(i).said) /\ (C(k).over => C(i) = C(k))}
           Modes == {i \in 0..Len(qs) : C(i).mode = m}
<1>1. Len(qs) \in Nat /\ \A i \in 1..Len(qs) : qs[i] \in Request
  BY LenProperties, ElementOfSeq
<1>2. \A i \in 0..Len(qs) : FirstOf(qs, i) \in Seq(Request)
  BY FirstOfTyped
<1>3. \A i \in 0..Len(qs) : C(i) \in Conversation
  BY <1>2, ConversationTyped
<1>4. \A i \in 0..Len(qs) : C(i).said \in Seq(Msg)
  BY <1>3 DEF Conversation
<1>5. \A i \in 0..(Len(qs) - 1) : C(i + 1) = Asked(C(i), qs[i + 1])
  <2>1. ASSUME NEW i \in 0..(Len(qs) - 1)
        PROVE  C(i + 1) = Asked(C(i), qs[i + 1])
    <3>1. FirstOf(qs, i + 1) = Append(FirstOf(qs, i), qs[i + 1])
      BY FirstOfNext
    <3>2. i \in 0..Len(qs) /\ i + 1 \in 1..Len(qs)
      BY <1>1
    <3>3. FirstOf(qs, i) \in Seq(Request) /\ qs[i + 1] \in Request
      BY <1>1, <1>2, <3>2
    <3>4. ConversationOf(m, Append(FirstOf(qs, i), qs[i + 1]))
            = Asked(ConversationOf(m, FirstOf(qs, i)), qs[i + 1])
      BY <3>3, ConversationAppend
    <3> QED
      BY <3>1, <3>4
  <2> QED
    BY <2>1
<1>6. C(0) = Opened(m)
  BY FirstOfEnds, ConversationEmpty
<1>7. C(Len(qs)) = ConversationOf(m, qs)
  BY FirstOfEnds
<1>8. \A i \in 0..Len(qs) : Begins(C(i).said, C(i).said)
  BY <1>4, LenProperties DEF Begins
<1> HIDE DEF C
<1>9. ASSUME NEW i \in 0..Len(qs), i + 1 <= Len(qs)
      PROVE  /\ i + 1 \in 0..Len(qs)
             /\ Begins(C(i).said, C(i + 1).said)
             /\ C(i).over => C(i + 1) = C(i)
             /\ C(i + 1).mode = C(i).mode
  <2>1. i \in 0..(Len(qs) - 1) /\ i + 1 \in 1..Len(qs) /\ i + 1 \in 0..Len(qs)
    BY <1>1, <1>9
  <2>2. /\ C(i) \in Conversation /\ qs[i + 1] \in Request
        /\ C(i + 1) = Asked(C(i), qs[i + 1])
    BY <1>1, <1>3, <1>5, <2>1
  <2>3. /\ C(i).over => C(i + 1) = C(i)
        /\ C(i + 1).mode = C(i).mode
        /\ Begins(C(i).said, C(i + 1).said)
    BY <2>2, AskedGrows
  <2> QED
    BY <2>1, <2>3
<1>10. \A i \in 0..Len(qs) : i \in Later
  <2>1. 0 \in Later
    BY <1>1, <1>8
  <2>2. ASSUME NEW i \in 0..Len(qs), i \in Later /\ i + 1 <= Len(qs)
        PROVE  i + 1 \in Later
    <3>1. CASE i + 1 = k
      BY <1>8, <1>9, <2>2, <3>1
    <3>2. CASE i + 1 < k
      BY <1>1, <1>9, <2>2, <3>2
    <3>3. CASE i >= k
      <4>1. Begins(C(k).said, C(i).said) /\ (C(k).over => C(i) = C(k))
        BY <2>2, <3>3
      <4>2. /\ i + 1 \in 0..Len(qs) /\ Begins(C(i).said, C(i + 1).said)
            /\ C(i).over => C(i + 1) = C(i)
        BY <1>9, <2>2
      <4>3. Begins(C(k).said, C(i + 1).said)
        BY <1>4, <4>1, <4>2, BeginsTransitive DEF C
      <4> QED
        BY <4>1, <4>2, <4>3
    <3> QED
      BY <1>1, <3>1, <3>2, <3>3
  <2> HIDE DEF Later
  <2> QED
    BY <1>1, <2>1, <2>2, InductionUpTo
<1>11. \A i \in 0..Len(qs) : i \in Modes
  <2>1. 0 \in Modes
    BY <1>1, <1>6 DEF Opened
  <2>2. ASSUME NEW i \in 0..Len(qs), i \in Modes /\ i + 1 <= Len(qs)
        PROVE  i + 1 \in Modes
    BY <1>9, <2>2
  <2> HIDE DEF Modes
  <2> QED
    BY <1>1, <2>1, <2>2, InductionUpTo
<1>12. Len(qs) \in 0..Len(qs) /\ Len(qs) >= k
  BY <1>1
<1>13. /\ C(k) \in Conversation /\ C(Len(qs)) \in Conversation
       /\ Begins(C(k).said, C(Len(qs)).said)
       /\ C(k).over => C(Len(qs)) = C(k)
       /\ C(k).mode = m
  BY <1>3, <1>10, <1>11, <1>12
<1> QED
  BY <1>7, <1>13 DEF C

-----------------------------------------------------------------------------
(* Frames                                                                  *)

LEMMA CellConcat ==
  /\ \A r, s \in Seq(Cell) : r \o s \in Seq(Cell)
  /\ \A r, s, t \in Seq(Cell) : (r \o s) \o t = r \o (s \o t)
BY ConcatProperties, ConcatAssociative

LEMMA FrameTyped ==
  ASSUME NEW q \in Request
  PROVE  /\ Frame(q) \in Seq(Cell) /\ Len(Frame(q)) = FrameLen(q)
         /\ FrameLen(q) \in 2..4
         /\ \A i \in 1..FrameLen(q) : Frame(q)[i].of = q
<1>1. FrameLen(q) \in 2..4
  BY DEF FrameLen
<1>2. \A i \in 1..FrameLen(q) : [of |-> q, at |-> i] \in Cell
  BY <1>1 DEF Cell
<1>3. Frame(q) \in Seq(Cell) /\ Len(Frame(q)) = FrameLen(q)
  BY <1>1, <1>2 DEF Frame
<1>4. \A i \in 1..FrameLen(q) : Frame(q)[i].of = q
  BY DEF Frame
<1> QED
  BY <1>1, <1>3, <1>4

LEMMA FramesTyped ==
  ASSUME NEW qs \in Seq(Request)
  PROVE  [i \in 1..Len(qs) |-> Frame(qs[i])] \in Seq(Seq(Cell))
<1>1. Len(qs) \in Nat /\ \A i \in 1..Len(qs) : Frame(qs[i]) \in Seq(Cell)
  BY LenProperties, ElementOfSeq, FrameTyped
<1> QED
  BY <1>1

LEMMA CellsTyped ==
  ASSUME NEW qs \in Seq(Request)
  PROVE  Cells(qs) \in Seq(Cell)
BY FramesTyped, FlattenSeqTyped DEF Cells

LEMMA CellsAppend ==
  ASSUME NEW qs \in Seq(Request), NEW q \in Request
  PROVE  Cells(Append(qs, q)) = Cells(qs) \o Frame(q)
<1> DEFINE F(rs) == [i \in 1..Len(rs) |-> Frame(rs[i])]
           rs == Append(qs, q)
<1>1. /\ rs \in Seq(Request) /\ Len(rs) = Len(qs) + 1 /\ Len(qs) \in Nat
      /\ \A i \in 1..Len(qs) : rs[i] = qs[i]
      /\ rs[Len(qs) + 1] = q
  BY AppendProperties, LenProperties
<1>2. /\ F(qs) \in Seq(Seq(Cell)) /\ Len(F(qs)) = Len(qs)
      /\ \A i \in 1..Len(qs) : F(qs)[i] = Frame(qs[i])
  BY <1>1, FramesTyped
<1> HIDE DEF rs
<1>3. /\ F(rs) \in Seq(Seq(Cell)) /\ Len(F(rs)) = Len(qs) + 1
      /\ \A i \in 1..(Len(qs) + 1) : F(rs)[i] = Frame(rs[i])
  BY <1>1, FramesTyped
<1>4. Frame(q) \in Seq(Cell)
  BY FrameTyped
<1> HIDE DEF F
<1>5. /\ Append(F(qs), Frame(q)) \in Seq(Seq(Cell))
      /\ Len(Append(F(qs), Frame(q))) = Len(qs) + 1
      /\ \A i \in 1..Len(qs) : Append(F(qs), Frame(q))[i] = F(qs)[i]
      /\ Append(F(qs), Frame(q))[Len(qs) + 1] = Frame(q)
  BY <1>2, <1>4, AppendProperties
<1>6. \A i \in 1..(Len(qs) + 1) : F(rs)[i] = Append(F(qs), Frame(q))[i]
  BY <1>1, <1>2, <1>3, <1>5
<1>7. F(rs) = Append(F(qs), Frame(q))
  BY <1>3, <1>5, <1>6, SeqEqual
<1>8. FlattenSeq(F(rs)) = FlattenSeq(F(qs)) \o Frame(q)
  BY <1>2, <1>4, <1>7, FlattenSeqAppend
<1> QED
  BY <1>8 DEF Cells, F, rs

LEMMA CellsNext ==
  ASSUME NEW qs \in Seq(Request), NEW k \in 0..(Len(qs) - 1)
  PROVE  /\ FirstOf(qs, k) \in Seq(Request) /\ qs[k + 1] \in Request
         /\ Cells(FirstOf(qs, k + 1)) = Cells(FirstOf(qs, k)) \o Frame(qs[k + 1])
<1>1. Len(qs) \in Nat /\ k \in 0..Len(qs) /\ k + 1 \in 1..Len(qs)
  BY LenProperties
<1>2. FirstOf(qs, k) \in Seq(Request) /\ qs[k + 1] \in Request
  BY <1>1, FirstOfTyped, ElementOfSeq
<1>3. FirstOf(qs, k + 1) = Append(FirstOf(qs, k), qs[k + 1])
  BY FirstOfNext
<1> QED
  BY <1>2, <1>3, CellsAppend

(* The cells of the first requests come first.                              *)
LEMMA CellsGrow ==
  ASSUME NEW qs \in Seq(Request), NEW k \in 0..Len(qs)
  PROVE  Begins(Cells(FirstOf(qs, k)), Cells(qs))
<1> DEFINE C(i) == Cells(FirstOf(qs, i))
           Later == {i \in 0..Len(qs) : i >= k => Begins(C(k), C(i))}
<1>1. Len(qs) \in Nat
  BY LenProperties
<1>2. \A i \in 0..Len(qs) : C(i) \in Seq(Cell)
  BY FirstOfTyped, CellsTyped
<1>3. \A i \in 0..(Len(qs) - 1) : /\ C(i + 1) = C(i) \o Frame(qs[i + 1])
                                  /\ Frame(qs[i + 1]) \in Seq(Cell)
  BY CellsNext, FrameTyped
<1>4. C(Len(qs)) = Cells(qs)
  BY FirstOfEnds
<1> HIDE DEF C
<1>5. \A i \in 0..Len(qs) : Begins(C(i), C(i))
  BY <1>2, LenProperties DEF Begins
<1>6. ASSUME NEW i \in 0..Len(qs), i + 1 <= Len(qs)
      PROVE  i + 1 \in 0..Len(qs) /\ Begins(C(i), C(i + 1))
  <2>1. i \in 0..(Len(qs) - 1) /\ i + 1 \in 0..Len(qs)
    BY <1>1, <1>6
  <2> QED
    BY <1>2, <1>3, <2>1, BeginsConcat
<1>7. 0 \in Later
  BY <1>1, <1>5
<1>8. ASSUME NEW i \in 0..Len(qs), i \in Later /\ i + 1 <= Len(qs)
      PROVE  i + 1 \in Later
  <2>1. CASE i + 1 = k
    BY <1>5, <1>6, <1>8, <2>1
  <2>2. CASE i + 1 < k
    BY <1>1, <1>6, <1>8, <2>2
  <2>3. CASE i >= k
    <3>1. Begins(C(k), C(i)) /\ Begins(C(i), C(i + 1)) /\ i + 1 \in 0..Len(qs)
      BY <1>6, <1>8, <2>3
    <3>2. C(k) \in Seq(Cell) /\ C(i) \in Seq(Cell) /\ C(i + 1) \in Seq(Cell)
      BY <1>2, <3>1
    <3>3. Begins(C(k), C(i + 1))
      BY <3>1, <3>2, BeginsTransitive
    <3> QED
      BY <3>1, <3>3
  <2> QED
    BY <1>1, <2>1, <2>2, <2>3
<1>9. \A i \in 0..Len(qs) : i \in Later
  <2> HIDE DEF Later
  <2> QED
    BY <1>1, <1>7, <1>8, InductionUpTo
<1>10. Len(qs) \in 0..Len(qs) /\ Len(qs) >= k
  BY <1>1
<1> QED
  BY <1>4, <1>9, <1>10 DEF C

(* The frame that is ready is the next request's; its cells move from the   *)
(* buffer to what was served.                                              *)
LEMMA NextFrame ==
  ASSUME NEW qs \in Seq(Request), NEW k \in 0..Len(qs),
         NEW buf \in Seq(Cell), NEW wire \in Seq(Cell),
         Begins(Cells(FirstOf(qs, k)) \o (buf \o wire), Cells(qs)),
         FrameReady(buf)
  PROVE  /\ k + 1 \in 1..Len(qs) /\ buf[1].of = qs[k + 1]
         /\ LET rest == SubSeq(buf, FrameLen(buf[1].of) + 1, Len(buf))
            IN  /\ rest \in Seq(Cell)
                /\ Cells(FirstOf(qs, k)) \o (buf \o wire)
                     = Cells(FirstOf(qs, k + 1)) \o (rest \o wire)
<1> DEFINE done == Cells(FirstOf(qs, k))
           all == Cells(qs)
<1>1. /\ Len(qs) \in Nat /\ Len(buf) \in Nat /\ Len(wire) \in Nat
      /\ FirstOf(qs, k) \in Seq(Request)
  BY LenProperties, FirstOfTyped
<1>2. /\ done \in Seq(Cell) /\ all \in Seq(Cell)
      /\ Len(done) \in Nat /\ Len(all) \in Nat
  BY <1>1, CellsTyped, LenProperties
<1>3. /\ buf \o wire \in Seq(Cell) /\ Len(buf \o wire) = Len(buf) + Len(wire)
      /\ \A i \in 1..Len(buf) : (buf \o wire)[i] = buf[i]
  BY <1>1, ConcatProperties
<1> HIDE DEF done, all
<1>4. /\ Len(done \o (buf \o wire)) = Len(done) + Len(buf) + Len(wire)
      /\ \A i \in 1..Len(buf) : (done \o (buf \o wire))[Len(done) + i] = buf[i]
  <2>1. /\ Len(done \o (buf \o wire)) = Len(done) + Len(buf \o wire)
        /\ \A i \in 1..(Len(done) + Len(buf \o wire)) :
             (done \o (buf \o wire))[i]
               = IF i <= Len(done) THEN done[i] ELSE (buf \o wire)[i - Len(done)]
    BY <1>2, <1>3, ConcatProperties
  <2> QED
    BY <1>1, <1>2, <1>3, <2>1
<1>5. Begins(done \o (buf \o wire), all)
  BY DEF done, all
<1>6. /\ Len(done) + Len(buf) <= Len(all)
      /\ \A i \in 1..Len(buf) : all[Len(done) + i] = buf[i]
  <2> DEFINE sent == done \o (buf \o wire)
  <2>1. Len(sent) <= Len(all) /\ \A i \in 1..Len(sent) : sent[i] = all[i]
    BY <1>5 DEF Begins
  <2> HIDE DEF sent
  <2>2. \A i \in 1..Len(buf) : Len(done) + i \in 1..Len(sent)
    BY <1>1, <1>2, <1>4 DEF sent
  <2>3. \A i \in 1..Len(buf) : sent[Len(done) + i] = buf[i]
    BY <1>4 DEF sent
  <2>4. Len(done) + Len(buf) <= Len(all)
    BY <1>1, <1>2, <1>4, <2>1 DEF sent
  <2> QED
    BY <2>1, <2>2, <2>3, <2>4
<1>7. 2 <= Len(buf) /\ FrameLen(buf[1].of) <= Len(buf)
  BY DEF FrameReady, HeaderLen
<1>8. k \in 0..(Len(qs) - 1)
  <2>1. k = Len(qs) => done = all
    BY FirstOfEnds DEF done, all
  <2> QED
    BY <1>1, <1>2, <1>6, <1>7, <2>1
<1> DEFINE q == qs[k + 1]
           next == Cells(FirstOf(qs, k + 1))
<1>9. q \in Request /\ next = done \o Frame(q) /\ k + 1 \in 1..Len(qs)
  BY <1>1, <1>8, CellsNext DEF done
<1>10. Begins(next, all)
  BY <1>9, CellsGrow DEF all
<1> HIDE DEF q, next
<1>11. /\ Frame(q) \in Seq(Cell) /\ Len(Frame(q)) = FrameLen(q)
       /\ FrameLen(q) \in 2..4
       /\ \A i \in 1..FrameLen(q) : Frame(q)[i].of = q
  BY <1>9, FrameTyped
<1>12. /\ Len(next) = Len(done) + FrameLen(q)
       /\ \A i \in 1..FrameLen(q) : next[Len(done) + i] = Frame(q)[i]
  <2>1. /\ Len(next) = Len(done) + Len(Frame(q))
        /\ \A i \in 1..(Len(done) + Len(Frame(q))) :
             next[i] = IF i <= Len(done) THEN done[i] ELSE Frame(q)[i - Len(done)]
    BY <1>2, <1>9, <1>11, ConcatProperties
  <2> QED
    BY <1>2, <1>11, <2>1
<1>13. /\ Len(done) + FrameLen(q) <= Len(all)
       /\ \A i \in 1..FrameLen(q) : all[Len(done) + i] = Frame(q)[i]
  BY <1>2, <1>10, <1>11, <1>12 DEF Begins
<1>14. buf[1].of = q
  <2>1. 1 \in 1..Len(buf) /\ 1 \in 1..FrameLen(q)
    BY <1>1, <1>7, <1>11
  <2>2. buf[1] = Frame(q)[1]
    BY <1>6, <1>13, <2>1
  <2> QED
    BY <1>11, <2>1, <2>2
<1> DEFINE L == FrameLen(q)
           rest == SubSeq(buf, L + 1, Len(buf))
<1>15. L \in 0..Len(buf)
  BY <1>1, <1>7, <1>11, <1>14
<1>16. rest \in Seq(Cell) /\ buf = FirstOf(buf, L) \o rest
  BY <1>15, CutAt
<1>17. FirstOf(buf, L) = Frame(q)
  <2>1. /\ FirstOf(buf, L) \in Seq(Cell) /\ Len(FirstOf(buf, L)) = L
        /\ \A i \in 1..L : FirstOf(buf, L)[i] = buf[i]
    BY <1>15, FirstOfTyped
  <2>2. \A i \in 1..L : buf[i] = Frame(q)[i]
    <3>1. \A i \in 1..L : i \in 1..Len(buf)
      BY <1>1, <1>15
    <3> QED
      BY <1>6, <1>13, <3>1
  <2>3. \A i \in 1..Len(FirstOf(buf, L)) : FirstOf(buf, L)[i] = Frame(q)[i]
    BY <2>1, <2>2
  <2>4. Len(FirstOf(buf, L)) = Len(Frame(q))
    BY <1>11, <2>1
  <2> HIDE DEF L
  <2> QED
    BY <1>11, <2>1, <2>3, <2>4, SeqEqual
<1> HIDE DEF rest
<1>18. done \o (buf \o wire) = next \o (rest \o wire)
  <2> DEFINE f == Frame(q)
  <2>1. f \in Seq(Cell) /\ buf = f \o rest /\ next = done \o f
    BY <1>9, <1>11, <1>16, <1>17
  <2> HIDE DEF f
  <2>2. done \o ((f \o rest) \o wire) = (done \o f) \o (rest \o wire)
    <3>1. f \o rest \in Seq(Cell) /\ rest \o wire \in Seq(Cell)
      BY <1>16, <2>1, CellConcat, Zenon
    <3>2. (f \o rest) \o wire = f \o (rest \o wire)
      BY <1>16, <2>1, CellConcat, Zenon
    <3>3. (done \o f) \o (rest \o wire) = done \o (f \o (rest \o wire))
      <4>1. done \in Seq(Cell) /\ f \in Seq(Cell) /\ rest \o wire \in Seq(Cell)
        BY <1>2, <2>1, <3>1
      <4> QED
        BY <4>1, CellConcat, Zenon
    <3> QED
      BY <3>2, <3>3, Zenon
  <2> QED
    BY <2>1, <2>2
<1> QED
  BY <1>9, <1>14, <1>16, <1>18 DEF done, next, rest, q

-----------------------------------------------------------------------------
(* The handler                                                             *)

LEMMA MsgConcat ==
  /\ \A r, s \in Seq(Msg) : r \o s \in Seq(Msg)
  /\ \A r, s, t \in Seq(Msg) : (r \o s) \o t = r \o (s \o t)
  /\ \A s \in Seq(Msg) : s \o <<>> = s /\ <<>> \o s = s
BY ConcatProperties, ConcatAssociative, ConcatEmptySeq

LEMMA EvaluatedTyped ==
  ASSUME RideTypeOK
  PROVE  Evaluated \in Value /\ Evaluated.n \in Nat
<1>1. programs \in Nat /\ result \in Value
  BY DEF RideTypeOK
<1>2. Eval(programs, request.text) \in Value
  BY <1>1, EvalTyped
<1>3. Evaluated \in Value
  BY <1>1, <1>2 DEF Evaluated
<1> QED
  BY <1>3 DEF Value

LEMMA WordingTyped ==
  ASSUME RideTypeOK, NEW step \in StepName \ {"eval"}
  PROVE  Wording(step) \in Msg
<1>1. request \in Current /\ result \in Value /\ identified \in BOOLEAN
  BY DEF RideTypeOK
<1> QED
  BY <1>1, MessagesTyped DEF Wording, StepName

LEMMA DueTyped ==
  ASSUME RideTypeOK, NEW i \in 1..6
  PROVE  Due(i) \in Seq(Msg)
<1>1. identified \in BOOLEAN /\ \A j \in 1..Len(todo) : todo[j] \in StepName
  BY ElementOfSeq DEF RideTypeOK
<1>2. Len(todo) \in Nat
  BY LenProperties DEF RideTypeOK
<1>3. CASE i > Len(todo)
  BY <1>3 DEF Due
<1>4. CASE i <= Len(todo)
  <2>1. i \in 1..Len(todo) /\ todo[i] \in StepName
    BY <1>1, <1>2, <1>4
  <2>2. Output(Evaluated, identified) \in Msg
    BY <1>1, EvaluatedTyped, MessagesTyped
  <2>3. todo[i] # "eval" => Wording(todo[i]) \in Msg
    BY <2>1, WordingTyped
  <2> QED
    BY <2>2, <2>3 DEF Due
<1> QED
  BY <1>2, <1>3, <1>4

LEMMA AllDueTyped ==
  ASSUME RideTypeOK
  PROVE  AllDue \in Seq(Msg)
<1>1. \A i \in 1..6 : Due(i) \in Seq(Msg)
  BY DueTyped
<1>2. /\ Due(1) \in Seq(Msg) /\ Due(2) \in Seq(Msg) /\ Due(3) \in Seq(Msg)
      /\ Due(4) \in Seq(Msg) /\ Due(5) \in Seq(Msg) /\ Due(6) \in Seq(Msg)
  BY <1>1
<1> QED
  BY <1>2, MsgConcat DEF AllDue

(* What a handler that starts sends is the answer to its request.           *)
LEMMA DueOfNone ==
  ASSUME todo' = <<>>
  PROVE  todo' \in Seq(StepName) /\ Shape' /\ Len(todo') = 0 /\ AllDue' = <<>>
<1>1. Len(todo') = 0
  OBVIOUS
<1>2. \A i \in 1..6 : Due(i)' = <<>>
  BY <1>1 DEF Due
<1>3. \A i \in {1, 2, 3, 4, 5, 6} : Due(i)' = <<>>
  BY <1>2
<1>4. AllDue' = <<>>
  BY <1>3, MsgConcat, EmptySeq DEF AllDue
<1>5. todo' \in Seq(StepName) /\ Shape'
  BY DEF Shape
<1> QED
  BY <1>1, <1>4, <1>5

LEMMA DueOfNothing ==
  ASSUME todo = <<>>
  PROVE  AllDue = <<>>
<1>1. Len(todo) = 0
  OBVIOUS
<1>2. \A i \in 1..6 : Due(i) = <<>>
  BY <1>1 DEF Due
<1>3. \A i \in {1, 2, 3, 4, 5, 6} : Due(i) = <<>>
  BY <1>2
<1> QED
  BY <1>3, MsgConcat, EmptySeq DEF AllDue

LEMMA DueOfOne ==
  ASSUME NEW a \in StepName \ {"eval", "output"}, todo' = <<a>>
  PROVE  /\ todo' \in Seq(StepName) /\ Shape' /\ Len(todo') = 1
         /\ AllDue' = <<Wording(a)'>>
<1>1. Len(todo') = 1 /\ todo'[1] = a
  OBVIOUS
<1>2. Due(1)' = <<Wording(a)'>>
  BY <1>1 DEF Due
<1>3. /\ Due(2)' = <<>> /\ Due(3)' = <<>> /\ Due(4)' = <<>> /\ Due(5)' = <<>>
      /\ Due(6)' = <<>>
  BY <1>1 DEF Due
<1>4. AllDue' = <<Wording(a)'>>
  <2> DEFINE w == Wording(a)'
  <2>1. <<w>> \in Seq({w}) /\ <<>> \in Seq({w})
    OBVIOUS
  <2> HIDE DEF w
  <2>2. <<w>> \o <<>> = <<w>> /\ <<>> \o <<>> = <<>>
    BY <2>1, ConcatEmptySeq
  <2> QED
    BY <1>2, <1>3, <2>2 DEF AllDue, w
<1>5. todo' \in Seq(StepName) /\ Shape'
  BY <1>1 DEF Shape
<1> QED
  BY <1>1, <1>4, <1>5

LEMMA DueOfSteps ==
  ASSUME NEW q \in Request, todo' = Steps(q), request' = q, programs' \in Nat,
         identified' \in BOOLEAN
  PROVE  /\ todo' \in Seq(StepName) /\ Shape'
         /\ AllDue' = Answer(mode, q, programs', identified')
         /\ (IF Len(todo') >= 4 THEN Evaluated'.n ELSE programs')
              = IF q.cmd = "Execute" THEN Eval(programs', q.text).n ELSE programs'
<1>1. CASE q.cmd = "Identify"
  <2>1. todo' = <<"identity", "prompt1">> /\ Answer(mode, q, programs', identified')
                                              = <<Identity, Prompt(1)>>
    BY <1>1 DEF Steps, Answer, Queries
  <2>2. Len(todo') = 2 /\ todo'[1] = "identity" /\ todo'[2] = "prompt1"
    BY <2>1
  <2>3. /\ Due(1)' = <<Identity>> /\ Due(2)' = <<Prompt(1)>>
        /\ Due(3)' = <<>> /\ Due(4)' = <<>> /\ Due(5)' = <<>> /\ Due(6)' = <<>>
    BY <2>2 DEF Due, Wording
  <2>4. AllDue' = <<Identity, Prompt(1)>>
    <3>1. /\ <<Prompt(1)>> \in Seq(Msg) /\ <<>> \in Seq(Msg)
          /\ <<Identity>> \o <<Prompt(1)>> = <<Identity, Prompt(1)>>
      <4>1. Prompt(1) \in Msg
        BY MessagesTyped
      <4>2. <<Identity>> \o <<Prompt(1)>> = <<Identity, Prompt(1)>>
        BY Tuples
      <4> QED
        BY <4>1, <4>2
    <3>2. <<Prompt(1)>> \o <<>> = <<Prompt(1)>> /\ <<>> \o <<>> = <<>>
      BY <3>1, MsgConcat
    <3> QED
      BY <2>3, <3>1, <3>2 DEF AllDue
  <2>5. todo' \in Seq(StepName) /\ Shape'
    BY <2>1, <2>2 DEF StepName, Shape
  <2> QED
    BY <1>1, <2>1, <2>2, <2>4, <2>5
<1>2. CASE q.cmd \in Queries
  <2>1. todo' = <<"reply">> /\ Answer(mode, q, programs', identified') = <<Reply(q.cmd)>>
    BY <1>2 DEF Steps, Answer, Queries
  <2>2. Wording("reply")' = Reply(q.cmd)
    BY DEF Wording
  <2>3. /\ todo' \in Seq(StepName) /\ Shape' /\ Len(todo') = 1
        /\ AllDue' = <<Reply(q.cmd)>>
    BY <2>1, <2>2, DueOfOne DEF StepName
  <2>4. q.cmd # "Execute"
    BY <1>2 DEF Queries
  <2> QED
    BY <2>1, <2>3, <2>4
<1>3. CASE q.cmd = "Subscribe" /\ q.text = "statusfields"
  <2>1. todo' = <<"status">> /\ Answer(mode, q, programs', identified') = <<Status>>
    BY <1>3 DEF Steps, Answer, Queries
  <2>2. Wording("status")' = Status
    BY DEF Wording
  <2>3. /\ todo' \in Seq(StepName) /\ Shape' /\ Len(todo') = 1
        /\ AllDue' = <<Status>>
    BY <2>1, <2>2, DueOfOne DEF StepName
  <2> QED
    BY <1>3, <2>1, <2>3
<1>4. CASE q.cmd = "Execute" /\ q.text # ""
  <2> DEFINE r == Eval(programs', q.text)
  <2>1. todo' = <<"echo", "prompt0", "eval", "output", "status?", "prompt1">>
    BY <1>4 DEF Steps, Queries
  <2>2. Len(todo') = 6 /\ Evaluated' = r
    BY <2>1 DEF Evaluated
  <2> HIDE DEF r
  <2>3. /\ Due(1)' = <<EchoInput(q.text)>> /\ Due(2)' = <<Prompt(0)>>
        /\ Due(3)' = <<>>
        /\ Due(4)' = IF Quiet(r) THEN <<>> ELSE <<Output(r, identified')>>
        /\ Due(5)' = <<Status>> /\ Due(6)' = <<Prompt(1)>>
    BY <2>1, <2>2 DEF Due, Wording
  <2>4. AllDue' = ExecuteAnswer(q.text, programs', identified')
    <3> DEFINE x == IF Quiet(r) THEN <<>> ELSE <<Output(r, identified')>>
               a == <<EchoInput(q.text)>>
               b == <<Prompt(0)>>
               c == <<Status>>
               d == <<Prompt(1)>>
    <3>1. r \in Value
      BY EvalTyped DEF r
    <3>2. /\ a \in Seq(Msg) /\ b \in Seq(Msg) /\ c \in Seq(Msg) /\ d \in Seq(Msg)
          /\ a \o b = <<EchoInput(q.text), Prompt(0)>>
          /\ c \o d = <<Status, Prompt(1)>>
      <4>1. /\ EchoInput(q.text) \in Msg /\ Prompt(0) \in Msg /\ Status \in Msg
            /\ Prompt(1) \in Msg
        BY MessagesTyped DEF Current
      <4>2. /\ <<EchoInput(q.text)>> \o <<Prompt(0)>> = <<EchoInput(q.text), Prompt(0)>>
            /\ <<Status>> \o <<Prompt(1)>> = <<Status, Prompt(1)>>
        BY Tuples
      <4> QED
        BY <4>1, <4>2
    <3>3. x \in Seq(Msg)
      <4>1. Output(r, identified') \in Msg
        BY <3>1, MessagesTyped
      <4> QED
        BY <4>1
    <3>4. ExecuteAnswer(q.text, programs', identified') = ((a \o b) \o x) \o (c \o d)
      BY <3>2 DEF ExecuteAnswer, r
    <3>5. AllDue' = a \o (b \o (<<>> \o (x \o (c \o d))))
      BY <2>3 DEF AllDue
    <3> HIDE DEF x, a, b, c, d
    <3>6. c \o d \in Seq(Msg) /\ a \o b \in Seq(Msg)
      BY <3>2, MsgConcat, Zenon
    <3>7. ((a \o b) \o x) \o (c \o d) = (a \o b) \o (x \o (c \o d))
      BY <3>3, <3>6, MsgConcat, Zenon
    <3>8. x \o (c \o d) \in Seq(Msg)
      BY <3>3, <3>6, MsgConcat, Zenon
    <3>9. (a \o b) \o (x \o (c \o d)) = a \o (b \o (x \o (c \o d)))
      BY <3>2, <3>8, MsgConcat, Zenon
    <3>10. <<>> \o (x \o (c \o d)) = x \o (c \o d)
      BY <3>8, MsgConcat, Zenon
    <3> QED
      BY <3>4, <3>5, <3>7, <3>9, <3>10
  <2>5. Answer(mode, q, programs', identified')
           = ExecuteAnswer(q.text, programs', identified')
    BY <1>4 DEF Answer, Queries
  <2>6. todo' \in Seq(StepName) /\ Shape'
    BY <2>1 DEF StepName, Shape
  <2>7. (IF Len(todo') >= 4 THEN Evaluated'.n ELSE programs') = r.n
    BY <2>2
  <2>8. (IF q.cmd = "Execute" THEN Eval(programs', q.text).n ELSE programs') = r.n
    BY <1>4 DEF r
  <2> QED
    BY <2>4, <2>5, <2>6, <2>7, <2>8
<1>5. CASE q.cmd = "SupportedProtocols" /\ mode = "serve"
  <2>1. todo' = <<"using?">> /\ Answer(mode, q, programs', identified')
                                  = <<Message("UsingProtocol")>>
    BY <1>5 DEF Steps, Answer, Queries
  <2>2. Wording("using?")' = Message("UsingProtocol")
    BY DEF Wording
  <2>3. /\ todo' \in Seq(StepName) /\ Shape' /\ Len(todo') = 1
        /\ AllDue' = <<Message("UsingProtocol")>>
    BY <2>1, <2>2, DueOfOne DEF StepName
  <2> QED
    BY <1>5, <2>1, <2>3
<1>6. CASE /\ q.cmd # "Identify" /\ q.cmd \notin Queries
           /\ ~(q.cmd = "Subscribe" /\ q.text = "statusfields")
           /\ ~(q.cmd = "Execute" /\ q.text # "")
           /\ ~(q.cmd = "SupportedProtocols" /\ mode = "serve")
  <2>1. todo' = <<>> /\ Answer(mode, q, programs', identified') = <<>>
    BY <1>6 DEF Steps, Answer
  <2>2. q.cmd = "Execute" => Eval(programs', q.text).n = programs'
    BY <1>6 DEF Eval
  <2> QED
    BY <2>1, <2>2, DueOfNone
<1> QED
  BY <1>1, <1>2, <1>3, <1>4, <1>5, <1>6

(* One step of the handler is done.                                        *)
Popped == /\ todo # <<>> /\ todo' = Tail(todo)
          /\ request' = request /\ identified' = identified

LEMMA PopShape ==
  ASSUME RideTypeOK, Shape, Popped
  PROVE  /\ todo' \in Seq(StepName) /\ Shape'
         /\ Len(todo) \in 1..6 /\ Len(todo') = Len(todo) - 1
         /\ Head(todo) = todo[1] /\ todo[1] \in StepName
         /\ \A i \in 1..Len(todo') : todo'[i] = todo[i + 1]
<1>1. todo \in Seq(StepName) /\ todo # <<>>
  BY DEF RideTypeOK, Popped
<1>a. Len(todo) \in Nat \ {0}
  BY <1>1, EmptySeq
<1>2. /\ Head(todo) \in StepName /\ Head(todo) = todo[1]
      /\ todo' \in Seq(StepName) /\ Len(todo') = Len(todo) - 1
      /\ \A i \in 1..Len(todo') : todo'[i] = todo[i + 1]
  BY <1>1, EmptySeq, HeadTailProperties, HeadAndTail DEF Popped
<1>3. Shape'
  BY <1>a, <1>2 DEF Shape
<1>4. Len(todo) <= 6
  BY DEF Shape
<1>5. Len(todo) \in 1..6
  <2>1. \A l \in Nat \ {0} : l <= 6 => l \in 1..6
    OBVIOUS
  <2> QED
    BY <1>a, <1>4, <2>1
<1> QED
  BY <1>2, <1>3, <1>5

LEMMA PopDue ==
  ASSUME RideTypeOK, Shape, Popped, Evaluated' = Evaluated
  PROVE  /\ AllDue' \in Seq(Msg) /\ AllDue = Due(1) \o AllDue'
         /\ Due(1) \in Seq(Msg)
<1>1. /\ Len(todo) \in 1..6 /\ Len(todo') = Len(todo) - 1
      /\ \A i \in 1..Len(todo') : todo'[i] = todo[i + 1]
  BY PopShape
<1>2. \A i \in 1..5 : Due(i)' = Due(i + 1)
  <2>1. ASSUME NEW i \in 1..5 PROVE Due(i)' = Due(i + 1)
    <3>1. CASE i > Len(todo')
      BY <1>1, <3>1 DEF Due
    <3>2. CASE i <= Len(todo')
      <4>1. /\ todo'[i] = todo[i + 1] /\ ~(i + 1 > Len(todo)) /\ ~(i > Len(todo'))
        BY <1>1, <3>2
      <4>2. todo[i + 1] \in StepName
        BY <1>1, <3>2, ElementOfSeq DEF RideTypeOK
      <4>3. \A step \in StepName \ {"eval", "output"} : Wording(step)' = Wording(step)
        BY DEF Wording, Popped, StepName
      <4>4. CASE todo[i + 1] = "eval"
        BY <4>1, <4>4 DEF Due
      <4>5. CASE todo[i + 1] = "output"
        BY <4>1, <4>5 DEF Due, Popped
      <4>6. CASE todo[i + 1] \in StepName \ {"eval", "output"}
        BY <4>1, <4>3, <4>6 DEF Due
      <4> QED
        BY <4>2, <4>4, <4>5, <4>6
    <3> QED
      BY <1>1, <3>1, <3>2
  <2> QED
    BY <2>1
<1>3. Due(6)' = <<>>
  BY <1>1 DEF Due
<1>4. \A i \in 1..6 : Due(i) \in Seq(Msg)
  BY DueTyped
<1>5. Due(1)' = Due(2) /\ Due(2)' = Due(3) /\ Due(3)' = Due(4) /\ Due(4)' = Due(5)
      /\ Due(5)' = Due(6)
  BY <1>2
<1>6. /\ Due(1) \in Seq(Msg) /\ Due(2) \in Seq(Msg) /\ Due(3) \in Seq(Msg)
      /\ Due(4) \in Seq(Msg) /\ Due(5) \in Seq(Msg) /\ Due(6) \in Seq(Msg)
  BY <1>4
<1>7. Due(6) \o <<>> = Due(6)
  BY <1>6, MsgConcat
<1>8. AllDue' = Due(2) \o (Due(3) \o (Due(4) \o (Due(5) \o Due(6))))
  BY <1>3, <1>5, <1>7 DEF AllDue
<1>9. Due(2) \o (Due(3) \o (Due(4) \o (Due(5) \o Due(6)))) \in Seq(Msg)
  BY <1>6, MsgConcat
<1> QED
  BY <1>6, <1>8, <1>9 DEF AllDue

-----------------------------------------------------------------------------
(* The steps                                                               *)

(* Both modules speak of the same conversations.                            *)
LEMMA ScriptIs ==
  Promise!Script = ConversationOf(mode, asked)
BY DEF Promise!Script, Promise!ConversationOf, ConversationOf,
       Promise!Opened, Opened, Promise!Greeting, Greeting, Promise!Message, Message,
       Promise!Prompt, Prompt, Promise!Asked, Asked, Promise!Answer, Answer,
       Promise!ExecuteAnswer, ExecuteAnswer, Promise!EndsSession, EndsSession,
       Promise!Leaving, Leaving, Promise!Queries, Queries, Promise!Eval, Eval,
       Promise!Quiet, Quiet, Promise!Output, Output, Promise!EchoInput, EchoInput,
       Promise!Reply, Reply, Promise!Status, Status, Promise!Identity, Identity

LEMMA PartTyped ==
  ASSUME RideTypeOK, NEW k \in 0..Len(asked)
  PROVE  /\ Part(k) \in Conversation /\ Part(k).mode = mode
         /\ Part(k).said \in Seq(Msg) /\ Part(k).n \in Nat
         /\ Promise!Script \in Conversation /\ Promise!Script.said \in Seq(Msg)
         /\ Begins(Part(k).said, Promise!Script.said)
         /\ Part(k).over => Promise!Script = Part(k)
<1>1. asked \in Seq(Request) /\ mode \in {"serve", "ride"}
  BY DEF RideTypeOK
<1>2. /\ Part(k) \in Conversation /\ Part(k).mode = mode
      /\ Promise!Script \in Conversation
      /\ Begins(Part(k).said, Promise!Script.said)
      /\ Part(k).over => Promise!Script = Part(k)
  <2> DEFINE c == ConversationOf(mode, FirstOf(asked, k))
             d == ConversationOf(mode, asked)
  <2>1. /\ c \in Conversation /\ d \in Conversation
        /\ Begins(c.said, d.said)
        /\ c.over => d = c
        /\ c.mode = mode
    BY <1>1, ConversationGrows
  <2> QED
    BY <2>1, ScriptIs DEF Part
<1> QED
  BY <1>2 DEF Conversation

(* The message a prefix of a conversation is followed by.                   *)
LEMMA NextSaid ==
  ASSUME NEW s \in Seq(Msg), NEW w \in Msg, NEW t \in Seq(Msg),
         NEW all \in Seq(Msg), Begins(s \o (<<w>> \o t), all)
  PROVE  Len(s) < Len(all) /\ all[Len(s) + 1] = w
<1>1. <<w>> \in Seq(Msg) /\ Len(<<w>>) = 1 /\ <<w>>[1] = w
  OBVIOUS
<1>2. /\ <<w>> \o t \in Seq(Msg) /\ Len(<<w>> \o t) = 1 + Len(t)
      /\ (<<w>> \o t)[1] = w /\ Len(t) \in Nat /\ Len(s) \in Nat
      /\ Len(all) \in Nat
  BY <1>1, ConcatProperties, LenProperties
<1> DEFINE u == <<w>> \o t
<1>3. u \in Seq(Msg) /\ Len(u) = 1 + Len(t) /\ u[1] = w
  BY <1>2
<1> HIDE DEF u
<1>4. Len(s \o u) = Len(s) + Len(u) /\ (s \o u)[Len(s) + 1] = u[1]
  <2>1. /\ Len(s \o u) = Len(s) + Len(u)
        /\ \A i \in 1..(Len(s) + Len(u)) :
             (s \o u)[i] = IF i <= Len(s) THEN s[i] ELSE u[i - Len(s)]
    <3>1. u \in Seq(Msg)
      BY <1>3
    <3> QED
      BY <3>1, ConcatProperties
  <2>2. /\ Len(s) + 1 \in 1..(Len(s) + Len(u)) /\ ~(Len(s) + 1 <= Len(s))
        /\ (Len(s) + 1) - Len(s) = 1
    BY <1>2, <1>3
  <2> QED
    BY <2>1, <2>2
<1>5. Begins(s \o u, all)
  BY DEF u
<1>6. Len(s) + 1 \in 1..Len(s \o u)
  BY <1>2, <1>3, <1>4
<1>7. Len(s \o u) <= Len(all) /\ all[Len(s) + 1] = (s \o u)[Len(s) + 1]
  BY <1>5, <1>6 DEF Begins
<1>8. Len(s) + 1 <= Len(all)
  BY <1>2, <1>3, <1>4, <1>7
<1> QED
  BY <1>2, <1>3, <1>4, <1>7, <1>8

LEMMA RideInit ==
  ASSUME RdInit
  PROVE  RideInv /\ Promise!Init
<1>1. /\ mode \in {"serve", "ride"} /\ net = <<>> /\ peer = "here" /\ acc = <<>>
      /\ request = NoRequest /\ result = Eval(0, "") /\ programs = 0
      /\ identified = FALSE /\ working = TRUE /\ ended = FALSE
      /\ asked = <<>> /\ said = <<>>
      /\ todo = IF mode = "ride" THEN <<"hello", "using", "prompt1">> ELSE <<>>
  BY DEF RdInit
<1>2. todo \in Seq(StepName) /\ Shape /\ Len(todo) \in {0, 3}
  <2>1. CASE mode = "ride"
    <3>1. todo = <<"hello", "using", "prompt1">>
      BY <1>1, <2>1
    <3> QED
      BY <3>1 DEF StepName, Shape
  <2>2. CASE mode # "ride"
    <3>1. todo = <<>>
      BY <1>1, <2>2
    <3> QED
      BY <3>1 DEF Shape
  <2> QED
    BY <2>1, <2>2
<1>3. RideTypeOK
  <2>1. result \in Value /\ request \in Current
    BY <1>1, EvalTyped DEF Current
  <2>2. identified \in BOOLEAN /\ working \in BOOLEAN /\ ended \in BOOLEAN
    BY <1>1
  <2>3. /\ net \in Seq(Cell) /\ acc \in Seq(Cell) /\ asked \in Seq(Request)
        /\ said \in Seq(Msg) /\ programs \in Nat
    BY <1>1, EmptySeq
  <2> QED
    BY <1>1, <1>2, <2>1, <2>2, <2>3 DEF RideTypeOK
<1>4. Promise!Init
  BY <1>1 DEF Promise!Init
<1>5. AllDue = Greeting(mode)
  <2>1. CASE mode = "serve"
    <3>1. Len(todo) = 0
      BY <1>1, <2>1
    <3>2. /\ Due(1) = <<>> /\ Due(2) = <<>> /\ Due(3) = <<>> /\ Due(4) = <<>>
          /\ Due(5) = <<>> /\ Due(6) = <<>>
      BY <3>1 DEF Due
    <3>3. <<>> \o <<>> = <<>>
      BY EmptySeq, MsgConcat
    <3> QED
      BY <2>1, <3>2, <3>3 DEF AllDue, Greeting
  <2>2. CASE mode = "ride"
    <3> DEFINE a == Message("SupportedProtocols")
               b == Message("UsingProtocol")
               c == Prompt(1)
    <3>1. Len(todo) = 3 /\ todo[1] = "hello" /\ todo[2] = "using" /\ todo[3] = "prompt1"
      BY <1>1, <2>2
    <3>2. /\ Due(1) = <<a>> /\ Due(2) = <<b>> /\ Due(3) = <<c>> /\ Due(4) = <<>>
          /\ Due(5) = <<>> /\ Due(6) = <<>>
      BY <3>1 DEF Due, Wording
    <3>3. c \in Msg
      BY MessagesTyped
    <3>4. Greeting(mode) = <<a, b, c>>
      BY <2>2 DEF Greeting
    <3> HIDE DEF a, b, c
    <3>5. <<c>> \o <<>> = <<c>> /\ <<>> \o <<>> = <<>>
      BY <3>3, MsgConcat
    <3>6. <<b>> \o <<c>> = <<b, c>> /\ <<a>> \o <<b, c>> = <<a, b, c>>
      BY Tuples
    <3> QED
      BY <3>2, <3>4, <3>5, <3>6 DEF AllDue
  <2> QED
    BY <1>1, <2>1, <2>2
<1>6. FirstOf(asked, 0) = asked /\ Len(asked) = 0 /\ Part(0) = Opened(mode)
  BY <1>1, EmptySeq, FirstOfEnds, ConversationEmpty DEF Part
<1>7. Wire(0)
  <2>1. Cells(asked) \in Seq(Cell)
    BY <1>3, CellsTyped DEF RideTypeOK
  <2>2. Cells(asked) \o (<<>> \o <<>>) = Cells(asked) /\ Len(Cells(asked)) \in Nat
    BY <2>1, ConcatEmptySeq, EmptySeq, LenProperties
  <2> QED
    <3>1. Cells(FirstOf(asked, 0)) \o (acc \o net) = Cells(asked)
      BY <1>1, <1>6, <2>2
    <3>2. Begins(Cells(asked), Cells(asked))
      BY <2>2 DEF Begins
    <3> QED
      BY <3>1, <3>2 DEF Wire
<1>8. said \o AllDue = Part(0).said
  <2>1. Part(0).said = Greeting(mode) /\ Greeting(mode) \in Seq(Msg)
    BY <1>6, GreetingTyped DEF Opened
  <2>2. <<>> \o Greeting(mode) = Greeting(mode)
    BY <2>1, MsgConcat
  <2> QED
    BY <1>1, <1>5, <2>1, <2>2
<1>9. Served(0)
  <2>1. Part(0).n = 0 /\ Part(0).identified = FALSE /\ Part(0).over = FALSE
    BY <1>6 DEF Opened
  <2>2. ~(Len(todo) >= 4)
    <3>1. Len(todo) = 0 \/ Len(todo) = 3
      BY <1>2
    <3>2. \A l : l = 0 \/ l = 3 => ~(l >= 4)
      OBVIOUS
    <3> QED
      BY <3>1, <3>2
  <2> QED
    BY <1>1, <1>7, <1>8, <2>1, <2>2 DEF Served
<1>10. 0 \in 0..Len(asked) /\ working
  <2>1. Len(asked) = 0
    BY <1>6
  <2>2. working
    BY <1>1
  <2> QED
    BY <2>1, <2>2
<1> QED
  BY <1>2, <1>3, <1>4, <1>9, <1>10 DEF RideInv

LEMMA SendStep ==
  ASSUME RideInv, Send
  PROVE  RideInv' /\ [Promise!Next]_(Promise!vars)
<1> DEFINE w == Wording(Head(todo))
<1>1. RideTypeOK /\ Shape /\ Popped /\ Sending /\ working
  BY DEF RideInv, Send, Sending, Popped
<1>2. /\ todo' \in Seq(StepName) /\ Shape'
      /\ Len(todo) \in 1..6 /\ Len(todo') = Len(todo) - 1
      /\ Head(todo) = todo[1] /\ todo[1] \in StepName
  BY <1>1, PopShape
<1>3. todo[1] # "eval" /\ Len(todo) # 4 /\ (todo[1] = "output" => Len(todo) = 3)
  <2>1. todo[1] # "eval" /\ 1 \in 1..Len(todo)
    BY <1>1, <1>2 DEF Sending
  <2>2. /\ todo[1] = "eval" <=> Len(todo) - 1 = 3
        /\ todo[1] = "output" => Len(todo) - 1 = 2
    BY <1>1, <2>1 DEF Shape
  <2> QED
    BY <1>2, <2>1, <2>2
<1>4. w \in Msg
  BY <1>1, <1>2, <1>3, WordingTyped
<1>5. Evaluated' = Evaluated
  BY <1>2, <1>3 DEF Evaluated, Send
<1>6. Due(1) = <<w>>
  <2>1. CASE todo[1] = "output"
    <3>1. Evaluated = result
      <4>1. Len(todo) = 3
        BY <1>3, <2>1
      <4> QED
        BY <4>1 DEF Evaluated
    <3>2. ~Quiet(result) /\ w = Output(result, identified)
      BY <1>1, <1>2, <2>1 DEF Sending, Wording
    <3> QED
      BY <1>2, <2>1, <3>1, <3>2 DEF Due
  <2>2. CASE todo[1] # "output"
    BY <1>2, <1>3, <2>2 DEF Due
  <2> QED
    BY <2>1, <2>2
<1>7. AllDue' \in Seq(Msg) /\ AllDue = <<w>> \o AllDue'
  BY <1>1, <1>5, <1>6, PopDue
<1> HIDE DEF w
<1>8. said \in Seq(Msg) /\ said' = Append(said, w) /\ ~ended
  BY <1>1 DEF Send, RideTypeOK, Sending, w
<1>9. /\ said' \in Seq(Msg) /\ said' \o AllDue' = said \o AllDue
  <2>1. said' = said \o <<w>> /\ <<w>> \in Seq(Msg)
    BY <1>4, <1>8, AppendIsConcat
  <2>2. (said \o <<w>>) \o AllDue' = said \o (<<w>> \o AllDue')
    BY <1>7, <1>8, <2>1, MsgConcat, Zenon
  <2>3. said' \in Seq(Msg)
    BY <1>4, <1>8, AppendProperties
  <2> QED
    BY <1>7, <2>1, <2>2, <2>3
<1>10. PICK k \in 0..Len(asked) : Served(k)
  BY DEF RideInv
<1>11. /\ asked' = asked /\ mode' = mode /\ peer' = peer /\ net' = net /\ acc' = acc
       /\ working' = working /\ identified' = identified /\ ended' = ended
       /\ programs' = programs /\ request' = request /\ result' = result
  BY DEF Send
<1>12. Part(k)' = Part(k) /\ Wire(k)' = Wire(k)
  BY <1>11 DEF Part, Wire
<1>13. said \o AllDue = Part(k).said
  BY <1>1, <1>10 DEF Served
<1>14. Part(k).n = IF Len(todo') >= 4 THEN Evaluated'.n ELSE programs'
  BY <1>2, <1>3, <1>5, <1>10, <1>11 DEF Served
<1>15. Served(k)'
  BY <1>9, <1>10, <1>11, <1>12, <1>13, <1>14 DEF Served
<1>16. RideTypeOK'
  BY <1>1, <1>2, <1>9, <1>11 DEF RideTypeOK
<1>17. RideInv'
  BY <1>2, <1>11, <1>15, <1>16 DEF RideInv
<1>18. Promise!Say
  <2>1. /\ Begins(said \o (<<w>> \o AllDue'), Promise!Script.said)
        /\ Promise!Script.said \in Seq(Msg)
    BY <1>1, <1>7, <1>13, PartTyped
  <2>2. Len(said) < Len(Promise!Script.said) /\ Promise!Script.said[Len(said) + 1] = w
    BY <1>4, <1>7, <1>8, <2>1, NextSaid
  <2> QED
    BY <1>8, <1>11, <2>2 DEF Promise!Say
<1> QED
  BY <1>17, <1>18 DEF Promise!Next

(* An evaluation, or an output that is not sent, takes a step and says       *)
(* nothing.                                                                *)
LEMMA QuietStep ==
  ASSUME RideInv, Evaluate \/ Suppress
  PROVE  RideInv' /\ [Promise!Next]_(Promise!vars)
<1>1. RideTypeOK /\ Shape /\ Popped
  BY DEF RideInv, Evaluate, Suppress, Running, Popped
<1>2. /\ todo' \in Seq(StepName) /\ Shape'
      /\ Len(todo) \in 1..6 /\ Len(todo') = Len(todo) - 1
      /\ Head(todo) = todo[1] /\ todo[1] \in StepName
  BY <1>1, PopShape
<1>3. /\ todo[1] = "eval" <=> Len(todo) - 1 = 3
      /\ todo[1] = "output" => Len(todo) - 1 = 2
  <2>1. 1 \in 1..Len(todo)
    BY <1>2
  <2> QED
    BY <1>1, <2>1 DEF Shape
<1>4. /\ asked' = asked /\ mode' = mode /\ peer' = peer /\ net' = net /\ acc' = acc
      /\ working' = working /\ identified' = identified /\ ended' = ended
      /\ request' = request /\ said' = said
  BY DEF Evaluate, Suppress
<1>5. /\ Evaluated' = Evaluated /\ Due(1) = <<>>
      /\ result' \in Value /\ programs' \in Nat
      /\ (IF Len(todo) >= 4 THEN Evaluated.n ELSE programs)
           = IF Len(todo') >= 4 THEN Evaluated'.n ELSE programs'
  <2>1. CASE Evaluate
    <3>1. Len(todo) = 4 /\ Len(todo') = 3
      BY <1>2, <1>3, <2>1 DEF Evaluate, Running
    <3>2. Evaluated = Eval(programs, request.text)
      BY <3>1 DEF Evaluated
    <3>3. Evaluated' = result'
      BY <3>1 DEF Evaluated
    <3>4. /\ result' = Eval(programs, request.text)
          /\ programs' = Eval(programs, request.text).n
      BY <2>1 DEF Evaluate
    <3>5. Evaluated \in Value /\ Evaluated.n \in Nat
      BY <1>1, EvaluatedTyped
    <3>6. Due(1) = <<>>
      BY <1>2, <2>1, <3>1 DEF Due, Evaluate, Running
    <3> QED
      BY <3>1, <3>2, <3>3, <3>4, <3>5, <3>6
  <2>2. CASE Suppress
    <3>1. todo[1] = "output" /\ Len(todo) = 3 /\ Len(todo') = 2 /\ Quiet(result)
      BY <1>2, <1>3, <2>2 DEF Suppress, Running
    <3>2. result' = result /\ programs' = programs
      BY <2>2 DEF Suppress
    <3>3. Evaluated = result /\ Evaluated' = result
      BY <3>1, <3>2 DEF Evaluated
    <3>4. Due(1) = <<>>
      BY <3>1, <3>3 DEF Due
    <3>5. result \in Value /\ programs \in Nat
      BY <1>1 DEF RideTypeOK
    <3> QED
      BY <3>1, <3>2, <3>3, <3>4, <3>5
  <2> QED
    BY <2>1, <2>2
<1>6. AllDue' = AllDue
  <2>1. AllDue' \in Seq(Msg) /\ AllDue = <<>> \o AllDue'
    BY <1>1, <1>5, PopDue
  <2> QED
    BY <2>1, MsgConcat
<1>7. PICK k \in 0..Len(asked) : Served(k)
  BY DEF RideInv
<1>8. Part(k)' = Part(k) /\ Wire(k)' = Wire(k)
  BY <1>4 DEF Part, Wire
<1>9. Served(k)'
  BY <1>4, <1>5, <1>6, <1>7, <1>8 DEF Served
<1>10. RideTypeOK'
  BY <1>1, <1>2, <1>4, <1>5 DEF RideTypeOK
<1>11. RideInv'
  BY <1>2, <1>4, <1>9, <1>10 DEF RideInv
<1>12. UNCHANGED Promise!vars
  BY <1>4 DEF Promise!vars
<1> QED
  BY <1>11, <1>12

(* Nothing the conversation depends on changes.                            *)
LEMMA SameServed ==
  ASSUME NEW k \in 0..Len(asked), Served(k), Wire(k)',
         UNCHANGED <<mode, asked, todo, request, result, programs, identified>>,
         ended => ended',
         working' => working, said' = said
  PROVE  Served(k)'
<1>1. Part(k)' = Part(k)
  BY DEF Part
<1>2. Evaluated' = Evaluated
  BY DEF Evaluated
<1>3. AllDue' = AllDue
  <2>1. \A step : Wording(step)' = Wording(step)
    BY DEF Wording
  <2>2. \A i : Due(i)' = Due(i)
    BY <1>2, <2>1 DEF Due
  <2> QED
    BY <2>2 DEF AllDue
<1> QED
  BY <1>1, <1>2, <1>3 DEF Served

LEMMA ReadSocketStep ==
  ASSUME RideInv, ReadSocket
  PROVE  RideInv' /\ [Promise!Next]_(Promise!vars)
<1>1. RideTypeOK /\ Shape /\ net \in Seq(Cell) /\ acc \in Seq(Cell)
  BY DEF RideInv, RideTypeOK
<1>2. PICK n \in 1..ReadSize :
        /\ n <= Len(net)
        /\ acc' = acc \o SubSeq(net, 1, n)
        /\ net' = SubSeq(net, n + 1, Len(net))
  BY DEF ReadSocket
<1>3. n \in 0..Len(net)
  BY <1>1, <1>2, RideAssumption, LenProperties
<1>4. /\ net' \in Seq(Cell) /\ SubSeq(net, 1, n) \in Seq(Cell)
      /\ net = SubSeq(net, 1, n) \o net'
  BY <1>1, <1>2, <1>3, CutAt, FirstOfTyped DEF FirstOf
<1>5. acc' \in Seq(Cell)
  BY <1>1, <1>2, <1>4, CellConcat
<1>6. acc' \o net' = acc \o net
  <2> DEFINE r == SubSeq(net, 1, n)
  <2>1. r \in Seq(Cell) /\ acc' = acc \o r /\ net = r \o net' /\ net' \in Seq(Cell)
    BY <1>2, <1>4
  <2> HIDE DEF r
  <2>2. (acc \o r) \o net' = acc \o (r \o net')
    BY <1>1, <2>1, CellConcat, Zenon
  <2> QED
    BY <2>1, <2>2
<1>7. UNCHANGED <<mode, peer, todo, request, result, programs, identified, working,
                  ended, asked, said>>
  BY DEF ReadSocket
<1>8. PICK k \in 0..Len(asked) : Served(k)
  BY DEF RideInv
<1>9. Wire(k)'
  BY <1>6, <1>7, <1>8 DEF Wire, Served
<1>10. Served(k)'
  BY <1>7, <1>8, <1>9, SameServed
<1>11. RideInv'
  BY <1>1, <1>4, <1>5, <1>7, <1>10 DEF RideInv, RideTypeOK, Shape
<1>12. UNCHANGED Promise!vars
  BY <1>7 DEF Promise!vars
<1> QED
  BY <1>11, <1>12

LEMMA PeerSendStep ==
  ASSUME RideInv, NEW q \in Command, PeerSend(q)
  PROVE  RideInv' /\ [Promise!Next]_(Promise!vars)
<1>1. /\ RideTypeOK /\ Shape /\ net \in Seq(Cell) /\ acc \in Seq(Cell)
      /\ asked \in Seq(Request) /\ Len(asked) \in Nat
  BY LenProperties DEF RideInv, RideTypeOK
<1>2. q \in Request
  BY RideAssumption
<1>3. Frame(q) \in Seq(Cell)
  BY <1>2, FrameTyped
<1>4. /\ peer = "here" /\ net' = net \o Frame(q) /\ asked' = Append(asked, q)
      /\ UNCHANGED <<mode, peer, acc, todo, request, result, programs, identified,
                     working, ended, said>>
  BY DEF PeerSend, loopVars
<1>5. /\ net' \in Seq(Cell) /\ asked' \in Seq(Request)
      /\ Len(asked') = Len(asked) + 1
  BY <1>1, <1>2, <1>3, <1>4, CellConcat, AppendProperties
<1>6. PICK k \in 0..Len(asked) : Served(k)
  BY DEF RideInv
<1>7. FirstOf(asked', k) = FirstOf(asked, k) /\ k \in 0..Len(asked')
  BY <1>1, <1>2, <1>4, <1>5, FirstOfAppend
<1>8. Cells(asked') = Cells(asked) \o Frame(q)
  BY <1>1, <1>2, <1>4, CellsAppend
<1>9. Wire(k)'
  <2> DEFINE d == Cells(FirstOf(asked, k))
  <2>1. d \in Seq(Cell) /\ d \o (acc \o net) = Cells(asked)
    BY <1>1, <1>4, <1>6, FirstOfTyped, CellsTyped DEF Served, Wire
  <2> HIDE DEF d
  <2>2. (acc \o net) \o Frame(q) = acc \o (net \o Frame(q))
    BY <1>1, <1>3, CellConcat, Zenon
  <2>3. acc \o net \in Seq(Cell)
    BY <1>1, CellConcat, Zenon
  <2>4. (d \o (acc \o net)) \o Frame(q) = d \o ((acc \o net) \o Frame(q))
    BY <1>3, <2>1, <2>3, CellConcat, Zenon
  <2>5. d \o (acc' \o net') = Cells(asked')
    BY <1>4, <1>8, <2>1, <2>2, <2>4
  <2>6. Begins(Cells(asked'), Cells(asked'))
    BY <1>5, CellsTyped, LenProperties DEF Begins
  <2> QED
    BY <1>7, <2>5, <2>6 DEF Wire, d
<1>10. Served(k)'
  <2>1. Part(k)' = Part(k)
    BY <1>4, <1>7 DEF Part
  <2>2. Evaluated' = Evaluated
    BY <1>4 DEF Evaluated
  <2>3. AllDue' = AllDue
    <3>1. \A step : Wording(step)' = Wording(step)
      BY <1>4 DEF Wording
    <3>2. \A i : Due(i)' = Due(i)
      BY <1>4, <2>2, <3>1 DEF Due
    <3> QED
      BY <3>2 DEF AllDue
  <2> QED
    BY <1>4, <1>6, <1>9, <2>1, <2>2, <2>3 DEF Served
<1>11. RideTypeOK'
  BY <1>1, <1>4, <1>5 DEF RideTypeOK
<1>12. RideInv'
  BY <1>1, <1>4, <1>7, <1>10, <1>11 DEF RideInv, Shape
<1>13. Promise!Ask(q)
  BY <1>4 DEF Promise!Ask
<1> QED
  BY <1>12, <1>13 DEF Promise!Next

LEMMA PeerLeaveStep ==
  ASSUME RideInv, PeerLeave
  PROVE  RideInv' /\ [Promise!Next]_(Promise!vars)
<1>1. /\ RideTypeOK /\ Shape /\ net \in Seq(Cell) /\ acc \in Seq(Cell)
      /\ asked \in Seq(Request)
  BY DEF RideInv, RideTypeOK
<1>2. Len(net) \in Nat /\ Len(acc) \in Nat
  BY <1>1, LenProperties
<1>3. PICK n \in {Len(net), Len(net) - 1} \cap Nat : net' = SubSeq(net, 1, n)
  BY DEF PeerLeave
<1>4. /\ peer = "here" /\ peer' \in {"left", "reset"}
      /\ UNCHANGED <<mode, acc, todo, request, result, programs, identified,
                     working, ended, asked, said>>
  BY DEF PeerLeave, loopVars
<1>5. n \in 0..Len(net) /\ net' = FirstOf(net, n)
  BY <1>2, <1>3 DEF FirstOf
<1>6. net' \in Seq(Cell) /\ Len(net') = n /\ \A i \in 1..n : net'[i] = net[i]
  BY <1>1, <1>5, FirstOfTyped
<1>7. PICK k \in 0..Len(asked) : Served(k)
  BY DEF RideInv
<1>8. Wire(k)'
  <2> DEFINE d == Cells(FirstOf(asked, k))
             rest == SubSeq(net, n + 1, Len(net))
             all == Cells(asked)
  <2>1. d \in Seq(Cell) /\ all \in Seq(Cell) /\ d \o (acc \o net) = all
    BY <1>1, <1>4, <1>7, FirstOfTyped, CellsTyped DEF Served, Wire
  <2>2. rest \in Seq(Cell) /\ net = net' \o rest
    BY <1>1, <1>5, CutAt
  <2> HIDE DEF d, rest, all
  <2>3. (acc \o net') \o rest = acc \o (net' \o rest)
    BY <1>1, <1>6, <2>2, CellConcat, Zenon
  <2>4. acc \o net' \in Seq(Cell)
    BY <1>1, <1>6, CellConcat, Zenon
  <2>5. (d \o (acc \o net')) \o rest = d \o ((acc \o net') \o rest)
    BY <2>1, <2>2, <2>4, CellConcat, Zenon
  <2>6. d \o (acc \o net') \in Seq(Cell)
    BY <2>1, <2>4, CellConcat, Zenon
  <2>7. Begins(d \o (acc \o net'), all)
    <3> DEFINE u == d \o (acc \o net')
    <3>1. u \in Seq(Cell) /\ u \o rest = all
      BY <2>1, <2>2, <2>3, <2>5, <2>6
    <3> HIDE DEF u
    <3>2. Begins(u, u \o rest)
      BY <2>2, <3>1, BeginsConcat
    <3> QED
      BY <3>1, <3>2 DEF u
  <2> QED
    BY <1>4, <2>7 DEF Wire, d, all
<1>9. Served(k)'
  BY <1>4, <1>7, <1>8, SameServed
<1>10. RideTypeOK'
  BY <1>1, <1>4, <1>6 DEF RideTypeOK
<1>11. RideInv'
  BY <1>1, <1>4, <1>9, <1>10 DEF RideInv, Shape
<1>12. Promise!Leave
  BY <1>4 DEF Promise!Leave
<1> QED
  BY <1>11, <1>12 DEF Promise!Next

LEMMA HangUpStep ==
  ASSUME RideInv, HangUp
  PROVE  RideInv' /\ [Promise!Next]_(Promise!vars)
<1>1. RideTypeOK /\ Shape
  BY DEF RideInv
<1>2. /\ ~ended /\ ended' = TRUE /\ peer # "here"
      /\ UNCHANGED <<mode, net, peer, acc, todo, request, result, programs, identified,
                     working, asked, said>>
  BY DEF HangUp, Waiting, loopVars
<1>3. PICK k \in 0..Len(asked) : Served(k)
  BY DEF RideInv
<1>4. Wire(k)'
  BY <1>2, <1>3 DEF Served, Wire
<1>5. Served(k)'
  BY <1>2, <1>3, <1>4, SameServed
<1>6. ended' \in BOOLEAN
  BY <1>2
<1>7. RideTypeOK'
  BY <1>1, <1>2, <1>6 DEF RideTypeOK
<1>8. RideInv'
  BY <1>1, <1>2, <1>5, <1>7 DEF RideInv, Shape
<1>9. Promise!HangUp
  BY <1>2 DEF Promise!HangUp
<1> QED
  BY <1>8, <1>9 DEF Promise!Next

LEMMA SendFailsStep ==
  ASSUME RideInv, SendFails
  PROVE  RideInv' /\ [Promise!Next]_(Promise!vars)
<1>1. RideTypeOK /\ Shape /\ Sending
  BY DEF RideInv, SendFails
<1>2. /\ peer # "here" /\ working' = FALSE
      /\ UNCHANGED <<mode, net, peer, acc, request, result, programs, identified,
                     asked, said>>
  BY DEF SendFails
<1>3. PICK k \in 0..Len(asked) : Served(k)
  BY DEF RideInv
<1>4. Wire(k)' /\ Part(k)' = Part(k)
  BY <1>2, <1>3 DEF Served, Wire, Part
<1>5. working' \in BOOLEAN /\ ~working'
  BY <1>2
<1>6. CASE Head(todo) \in Ignored
  <2>1. Popped /\ ended' = ended
    BY <1>1, <1>2, <1>6 DEF SendFails, Popped, Sending
  <2>2. /\ todo' \in Seq(StepName) /\ Shape'
        /\ Len(todo) \in 1..6 /\ Len(todo') = Len(todo) - 1
        /\ Head(todo) = todo[1]
    BY <1>1, <2>1, PopShape
  <2>3. Len(todo) # 4
    <3>1. todo[1] # "eval" /\ 1 \in 1..Len(todo)
      BY <1>1, <2>2 DEF Sending
    <3>2. todo[1] = "eval" <=> Len(todo) - 1 = 3
      BY <1>1, <3>1 DEF Shape
    <3> QED
      BY <2>2, <3>1, <3>2
  <2>4. Evaluated' = Evaluated
    BY <1>2, <2>2, <2>3 DEF Evaluated
  <2>5. Served(k)'
    BY <1>2, <1>3, <1>4, <1>5, <2>1, <2>2, <2>3, <2>4 DEF Served
  <2>6. RideTypeOK'
    BY <1>1, <1>2, <1>5, <2>1, <2>2 DEF RideTypeOK
  <2>7. RideInv'
    BY <1>2, <2>2, <2>5, <2>6 DEF RideInv
  <2>8. UNCHANGED Promise!vars
    BY <1>2, <2>1 DEF Promise!vars
  <2> QED
    BY <2>7, <2>8
<1>7. CASE Head(todo) \notin Ignored
  <2>1. todo' = todo /\ ended' = TRUE /\ ~ended
    BY <1>1, <1>7 DEF SendFails, Sending
  <2>2. ended' \in BOOLEAN
    BY <2>1
  <2>3. Evaluated' = Evaluated
    BY <1>2, <2>1 DEF Evaluated
  <2>4. Served(k)'
    BY <1>2, <1>3, <1>4, <1>5, <2>1, <2>3 DEF Served
  <2>5. RideTypeOK'
    BY <1>1, <1>2, <1>5, <2>1, <2>2 DEF RideTypeOK
  <2>6. RideInv'
    BY <1>1, <1>2, <2>1, <2>4, <2>5 DEF RideInv, Shape
  <2>7. Promise!HangUp
    BY <1>2, <2>1 DEF Promise!HangUp
  <2> QED
    BY <2>6, <2>7 DEF Promise!Next
<1> QED
  BY <1>6, <1>7

(* A request whose handling ends the session is answered with nothing.      *)
LEMMA EndingIsSilent ==
  ASSUME NEW q, EndsSession(mode, q)
  PROVE  Steps(q) = <<>>
BY DEF EndsSession, Steps, Leaving, Queries

LEMMA TakeFrameStep ==
  ASSUME RideInv, TakeFrame
  PROVE  RideInv' /\ [Promise!Next]_(Promise!vars)
<1> DEFINE q == acc[1].of
<1>1. /\ RideTypeOK /\ Shape /\ net \in Seq(Cell) /\ acc \in Seq(Cell)
      /\ asked \in Seq(Request) /\ said \in Seq(Msg) /\ programs \in Nat
      /\ identified \in BOOLEAN /\ mode \in {"serve", "ride"}
  BY DEF RideInv, RideTypeOK
<1>2. /\ ~ended /\ todo = <<>> /\ FrameReady(acc)
      /\ acc' = SubSeq(acc, FrameLen(q) + 1, Len(acc)) /\ request' = q
      /\ todo' = Steps(q) /\ identified' = (identified \/ q.cmd = "Identify")
      /\ ended' = EndsSession(mode, q)
      /\ UNCHANGED <<mode, net, peer, result, programs, working, asked, said>>
  BY DEF TakeFrame, Waiting
<1>3. PICK k \in 0..Len(asked) : Served(k)
  BY DEF RideInv
<1>4. /\ k + 1 \in 1..Len(asked) /\ q = asked[k + 1] /\ acc' \in Seq(Cell)
      /\ Cells(FirstOf(asked, k)) \o (acc \o net)
           = Cells(FirstOf(asked, k + 1)) \o (acc' \o net)
  <2>1. Begins(Cells(FirstOf(asked, k)) \o (acc \o net), Cells(asked))
    BY <1>3 DEF Served, Wire
  <2>2. /\ k + 1 \in 1..Len(asked) /\ q = asked[k + 1]
        /\ LET rest == SubSeq(acc, FrameLen(q) + 1, Len(acc))
           IN  /\ rest \in Seq(Cell)
               /\ Cells(FirstOf(asked, k)) \o (acc \o net)
                    = Cells(FirstOf(asked, k + 1)) \o (rest \o net)
    BY <1>1, <1>2, <2>1, NextFrame
  <2> QED
    BY <1>2, <2>2
<1>5. q \in Request
  BY <1>1, <1>4, ElementOfSeq
<1>6. Len(asked) \in Nat /\ k \in 0..(Len(asked) - 1) /\ k + 1 \in 0..Len(asked)
  BY <1>1, <1>4, LenProperties
<1>7. Wire(k + 1)'
  BY <1>2, <1>3, <1>4 DEF Served, Wire
<1> HIDE DEF q
<1>8. Part(k + 1) = Asked(Part(k), q) /\ Part(k + 1)' = Part(k + 1)
  <2>1. FirstOf(asked, k) \in Seq(Request)
    BY <1>1, FirstOfTyped
  <2>2. FirstOf(asked, k + 1) = Append(FirstOf(asked, k), q)
    BY <1>1, <1>4, <1>6, FirstOfNext
  <2>3. Part(k + 1) = Asked(Part(k), q)
    BY <1>1, <1>5, <2>1, <2>2, ConversationAppend DEF Part
  <2> QED
    BY <1>2, <2>3 DEF Part
<1>9. /\ Part(k) \in Conversation /\ Part(k).mode = mode /\ Part(k).said \in Seq(Msg)
  BY <1>1, PartTyped
<1>10. /\ Part(k).n = programs /\ Part(k).identified = identified /\ ~Part(k).over
  <2>1. Len(todo) = 0
    BY <1>2
  <2> QED
    BY <1>2, <1>3, <2>1 DEF Served
<1>11. identified' \in BOOLEAN /\ programs' \in Nat /\ ended' \in BOOLEAN
  BY <1>1, <1>2 DEF EndsSession
<1>12. /\ Part(k + 1).n
            = IF q.cmd = "Execute" THEN Eval(programs, q.text).n ELSE programs
       /\ Part(k + 1).identified = identified'
       /\ Part(k + 1).over = ended'
       /\ Part(k + 1).said = Part(k).said \o Answer(mode, q, programs', identified')
  <2>1. /\ Asked(Part(k), q).n
            = IF q.cmd = "Execute" THEN Eval(Part(k).n, q.text).n ELSE Part(k).n
        /\ Asked(Part(k), q).identified = (Part(k).identified \/ q.cmd = "Identify")
        /\ Asked(Part(k), q).over = EndsSession(Part(k).mode, q)
        /\ Asked(Part(k), q).said
             = Part(k).said \o Answer(Part(k).mode, q, Part(k).n,
                                      Part(k).identified \/ q.cmd = "Identify")
    BY <1>5, <1>9, <1>10, AskedTyped
  <2>2. Part(k).identified \/ q.cmd = "Identify" <=> identified'
    BY <1>2, <1>10
  <2> QED
    BY <1>2, <1>8, <1>9, <1>10, <2>1, <2>2
<1>13. /\ todo' \in Seq(StepName) /\ Shape'
       /\ AllDue' = Answer(mode, q, programs', identified')
       /\ (IF Len(todo') >= 4 THEN Evaluated'.n ELSE programs')
            = IF q.cmd = "Execute" THEN Eval(programs', q.text).n ELSE programs'
  BY <1>2, <1>5, <1>11, DueOfSteps
<1>14. working => said = Part(k).said
  <2>1. AllDue = <<>>
    BY <1>2, DueOfNothing
  <2>2. said \o <<>> = said
    BY <1>1, MsgConcat
  <2> QED
    BY <1>3, <2>1, <2>2 DEF Served
<1>15. Served(k + 1)'
  <2>1. working' => said' \o AllDue' = Part(k + 1).said
    BY <1>2, <1>12, <1>13, <1>14
  <2>2. Part(k + 1).n = IF Len(todo') >= 4 THEN Evaluated'.n ELSE programs'
    BY <1>2, <1>12, <1>13
  <2> QED
    BY <1>7, <1>8, <1>12, <2>1, <2>2 DEF Served
<1>16. RideTypeOK'
  BY <1>1, <1>2, <1>4, <1>5, <1>11, <1>13 DEF RideTypeOK, Current
<1>17. RideInv'
  BY <1>2, <1>6, <1>13, <1>15, <1>16 DEF RideInv
<1>18. CASE ended'
  <2>1. Steps(q) = <<>> /\ ended' = TRUE
    BY <1>2, <1>18, EndingIsSilent DEF EndsSession
  <2>2. AllDue' = <<>>
    BY <1>2, <2>1, DueOfNone
  <2>3. Part(k + 1).said = Part(k).said
    BY <1>9, <1>12, <1>13, <2>2, MsgConcat
  <2>4. Promise!Script = Part(k + 1) /\ Part(k + 1).over
    BY <1>1, <1>6, <1>12, <1>18, PartTyped
  <2>5. ~working => peer # "here"
    BY DEF RideInv
  <2>6. peer # "here" \/ (Promise!Script.over /\ said = Promise!Script.said)
    BY <1>14, <2>3, <2>4, <2>5
  <2>7. Promise!HangUp
    BY <1>2, <2>1, <2>6 DEF Promise!HangUp
  <2> QED
    BY <1>17, <2>7 DEF Promise!Next
<1>19. CASE ~ended'
  <2>1. ended' = ended
    BY <1>1, <1>2, <1>11, <1>19 DEF RideTypeOK
  <2>2. UNCHANGED Promise!vars
    BY <1>2, <2>1 DEF Promise!vars
  <2> QED
    BY <1>17, <2>2
<1> QED
  BY <1>18, <1>19

LEMMA RideStep ==
  ASSUME RideInv, [RdNext]_rdVars
  PROVE  RideInv' /\ [Promise!Next]_(Promise!vars)
<1>1. CASE UNCHANGED rdVars
  <2>1. UNCHANGED <<mode, net, peer, acc, todo, request, result, programs, identified,
                    working, ended, asked, said>>
    BY <1>1 DEF rdVars, loopVars
  <2>2. PICK k \in 0..Len(asked) : Served(k)
    BY DEF RideInv
  <2>3. Wire(k)'
    BY <2>1, <2>2 DEF Served, Wire
  <2>4. Served(k)'
    BY <2>1, <2>2, <2>3, SameServed
  <2>5. RideInv'
    BY <2>1, <2>4 DEF RideInv, RideTypeOK, Shape
  <2>6. UNCHANGED Promise!vars
    BY <2>1 DEF Promise!vars
  <2> QED
    BY <2>5, <2>6
<1>2. CASE RdNext
  BY <1>2, ReadSocketStep, HangUpStep, TakeFrameStep, QuietStep, SendStep,
     SendFailsStep, PeerLeaveStep, PeerSendStep DEF RdNext, Serve
<1> QED
  BY <1>1, <1>2

-----------------------------------------------------------------------------
(* Theorems                                                                *)

(* The inductive invariant: at every moment some first requests have been   *)
(* dispatched, what is buffered and under way are the frames behind them,   *)
(* and what was said with what the handler still owes is the conversation   *)
(* about them (handle_client, ride_mode, handle_command).                   *)
THEOREM RideInvariant == RdSpec => []RideInv
<1>1. RdInit => RideInv
  BY RideInit
<1>2. RideInv /\ [RdNext]_rdVars => RideInv'
  BY RideStep
<1> QED
  BY <1>1, <1>2, PTL DEF RdSpec

(* The types of the connection's state.                                    *)
THEOREM RideTyped == RdSpec => []RideTypeOK
<1>1. RideInv => RideTypeOK
  BY DEF RideInv
<1> QED
  BY <1>1, RideInvariant, PTL

(* The connection takes no step that Exchange does not allow: whatever the  *)
(* sizes of the reads, the requests and the moment the peer leaves, nothing *)
(* is said but the answers, in order and in full, and the interpreter hangs *)
(* up on a peer that is there only when asked to, with everything said      *)
(* (all of ImplementsExchange but its fairness).                           *)
THEOREM RideAnswers ==
  RdSpec => Promise!Init /\ [][Promise!Next]_(Promise!vars)
<1>1. RdInit => Promise!Init
  BY RideInit
<1>2. RideInv /\ [RdNext]_rdVars => [Promise!Next]_(Promise!vars)
  BY RideStep
<1> QED
  BY <1>1, <1>2, RideInvariant, PTL DEF RdSpec
=============================================================================
