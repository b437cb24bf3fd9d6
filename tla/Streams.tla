------------------------------ MODULE Streams ------------------------------
(***************************************************************************)
(* Byte streams and child processes (kap-core/src/stream.rs, and the io2:   *)
(* primitives of evaluator.rs that call it): one input stream, over bytes   *)
(* in memory, a file, or the output of a child, read by one primitive after *)
(* the other, and the wait for the child.                                  *)
(***************************************************************************)
EXTENDS Naturals, Sequences, SequencesExt

CONSTANTS
  Byte, NL,     \* bytes, and the one that ends a line
  MaxContent,   \* bound: bytes of a stream
  BlockSize,    \* bytes of a readahead (1024 in the code)
  PipeSize,     \* bytes the system buffers between a child and its reader
  MaxJobs       \* bound: primitives applied to the stream

ASSUME StreamsAssumption ==
  /\ NL \in Byte
  /\ {MaxContent, MaxJobs} \subseteq Nat
  /\ {BlockSize, PipeSize} \subseteq Nat \ {0}

VARIABLES
  kind,      \* "memory", "file" or "child"
  content,   \* history: every byte the stream will ever carry
  source,    \* bytes not yet read from the file, or not yet written
  pipe,      \* bytes the child wrote and nobody read
  child,     \* "running", "exited" or "killed"
  pending,   \* the readahead: bytes read from the system, not yet returned
  open,      \* the stream was not closed
  job,       \* the primitive being applied
  got,       \* bytes it collected for its next line or its result
  lines,     \* lines it collected
  answers    \* history: results of the primitives

stVars == <<kind, content, source, pipe, child, pending, open, job, got,
            lines, answers>>

NoJob == [op |-> "none", limit |-> 0]
Unlimited == MaxContent + 1
Deadlines == 0..1
Forever == 2
Jobs == [op : {"line", "lines"}, limit : {0}]
        \cup [op : {"read"}, limit : {0, 1, 2, Unlimited}]
        \cup [op : {"wait"}, limit : Deadlines \cup {Forever}]

StInit ==
  /\ kind \in {"memory", "file", "child"}
  /\ content \in SeqOf(Byte, MaxContent)
  /\ source = content /\ pipe = <<>> /\ pending = <<>>
  /\ child = IF kind = "child" THEN "running" ELSE "exited"
  /\ open = TRUE
  /\ job = NoJob /\ got = <<>> /\ lines = <<>> /\ answers = <<>>

-----------------------------------------------------------------------------
(* The child: writes its output as the pipe has room, then exits.  Writing  *)
(* to a pipe without a reader kills it.                                    *)

ChildWrite ==
  /\ child = "running" /\ open /\ source # <<>> /\ Len(pipe) < PipeSize
  /\ pipe' = Append(pipe, Head(source))
  /\ source' = Tail(source)
  /\ UNCHANGED <<kind, content, child, pending, open, job, got, lines, answers>>

ChildEnd ==
  /\ child = "running"
  /\ \/ source = <<>> /\ child' = "exited"
     \/ source # <<>> /\ ~open /\ child' = "killed"
  /\ UNCHANGED <<kind, content, source, pipe, pending, open, job, got, lines,
                 answers>>

-----------------------------------------------------------------------------
(* KapStream.                                                              *)

Reading == job.op \in {"line", "lines", "read"}
Idle    == job = NoJob

Start(j) ==
  /\ Idle /\ Len(answers) < MaxJobs
  /\ j.op = "wait" => kind = "child"
  /\ open \/ j.op = "wait"      \* a closed stream is no input stream
  /\ job' = j
  /\ UNCHANGED <<kind, content, source, pipe, child, pending, open, got, lines,
                 answers>>

Answered(a) ==
  /\ answers' = Append(answers, a)
  /\ job' = NoJob /\ got' = <<>> /\ lines' = <<>>

Result(value, nil) ==
  [op |-> job.op, limit |-> job.limit, value |-> value, nil |-> nil]

(* Bytes the system hands over to a reader right now.                       *)
Available == IF kind = "file" THEN source ELSE pipe

WantsByte == Reading /\ ~(job.op = "read" /\ Len(got) >= job.limit)

(* Mutant: the readahead is replaced before it is used up.                  *)
FillPendingEarly ==
  /\ WantsByte /\ kind # "memory"
  /\ Len(pending) <= 1 /\ Available # <<>>
  /\ \E n \in 1..BlockSize :
       /\ n <= Len(Available)
       /\ pending' = SubSeq(Available, 1, n)
       /\ IF kind = "file"
          THEN source' = SubSeq(source, n + 1, Len(source)) /\ UNCHANGED pipe
          ELSE pipe' = SubSeq(pipe, n + 1, Len(pipe)) /\ UNCHANGED source
  /\ UNCHANGED <<kind, content, child, open, job, got, lines, answers>>

(* fill_pending: one read of the system when the readahead is used up; it   *)
(* may return fewer bytes than asked for.  It waits while there are none.   *)
FillPending ==
  /\ WantsByte /\ kind # "memory"
  /\ pending = <<>> /\ Available # <<>>
  /\ \E n \in 1..BlockSize :
       /\ n <= Len(Available)
       /\ pending' = SubSeq(Available, 1, n)
       /\ IF kind = "file"
          THEN source' = SubSeq(source, n + 1, Len(source)) /\ UNCHANGED pipe
          ELSE pipe' = SubSeq(pipe, n + 1, Len(pipe)) /\ UNCHANGED source
  /\ UNCHANGED <<kind, content, child, open, job, got, lines, answers>>

(* read_byte, at a byte and at the end of the stream.                       *)
NextByte(b) ==
  IF kind = "memory"
  THEN source # <<>> /\ b = Head(source) /\ source' = Tail(source)
       /\ UNCHANGED pending
  ELSE pending # <<>> /\ b = Head(pending) /\ pending' = Tail(pending)
       /\ UNCHANGED source

AtEnd == pending = <<>> /\ source = <<>> /\ pipe = <<>> /\ child # "running"

(* The loops of read_bytes, read_line and read_all_lines, a byte at a time. *)
Collect(b) ==
  /\ WantsByte
  /\ NextByte(b)
  /\ CASE job.op = "line" /\ b = NL -> Answered(Result(got, FALSE))
       [] job.op = "lines" /\ b = NL ->
            lines' = Append(lines, got) /\ got' = <<>>
            /\ UNCHANGED <<job, answers>>
       [] OTHER -> got' = Append(got, b) /\ UNCHANGED <<job, lines, answers>>
  /\ UNCHANGED <<kind, content, pipe, child, open>>

EndOfStream ==
  /\ WantsByte /\ AtEnd
  /\ CASE job.op = "line" -> Answered(Result(got, got = <<>>))
       [] job.op = "lines" ->
            Answered(Result(lines \o (IF got = <<>> THEN <<>> ELSE <<got>>),
                            FALSE))
       [] job.op = "read" -> Answered(Result(got, FALSE))
  /\ UNCHANGED <<kind, content, source, pipe, child, pending, open>>

LimitReached ==
  /\ job.op = "read" /\ ~WantsByte
  /\ Answered(Result(got, FALSE))
  /\ UNCHANGED <<kind, content, source, pipe, child, pending, open>>

(* close(): the readahead and the reader are gone.                          *)
Close ==
  /\ Idle /\ open
  /\ open' = FALSE
  /\ pending' = <<>> /\ pipe' = <<>>
  /\ UNCHANGED <<kind, content, source, child, job, got, lines, answers>>

-----------------------------------------------------------------------------
(* wait_timeout: poll, then sleep, until the child is over or the time is.  *)

WaitOver ==
  /\ job.op = "wait" /\ child # "running"
  /\ Answered(Result(<<>>, child = "killed"))
  /\ UNCHANGED <<kind, content, source, pipe, child, pending, open>>

(* Mutant: the deadline is not looked at while the child runs.              *)
TimeOutLate ==
  /\ job.op = "wait" /\ job.limit \in Deadlines /\ child # "running"
  /\ Answered(Result(<<>>, TRUE))
  /\ UNCHANGED <<kind, content, source, pipe, child, pending, open>>

TimeOut ==
  /\ job.op = "wait" /\ job.limit = 0 /\ child = "running"
  /\ Answered(Result(<<>>, TRUE))
  /\ UNCHANGED <<kind, content, source, pipe, child, pending, open>>

Sleep ==
  /\ job.op = "wait" /\ job.limit \in Deadlines \ {0} /\ child = "running"
  /\ job' = [job EXCEPT !.limit = @ - 1]
  /\ UNCHANGED <<kind, content, source, pipe, child, pending, open, got, lines,
                 answers>>

Primitive ==
  \/ FillPending \/ EndOfStream \/ LimitReached
  \/ WaitOver \/ TimeOut \/ Sleep
  \/ \E b \in Byte : Collect(b)
Child == ChildWrite \/ ChildEnd
StNext == Primitive \/ Child \/ Close \/ \E j \in Jobs : Start(j)

(* The interpreter runs the primitive it is in, the system runs the child.  *)
StFair == WF_stVars(Primitive) /\ WF_stVars(Child)
StSpec == StInit /\ [][StNext]_stVars /\ StFair

-----------------------------------------------------------------------------
(* Properties                                                              *)

(* The bytes an answer took from the stream, line ends included.            *)
Taken(a) ==
  CASE a.op = "read" -> a.value
    [] a.op = "line" -> IF a.nil THEN <<>> ELSE Append(a.value, NL)
    [] a.op = "lines" -> FlattenSeq([i \in DOMAIN a.value |->
                                       Append(a.value[i], NL)])
    [] OTHER -> <<>>

BytesRead == FlattenSeq([i \in DOMAIN answers |-> Taken(answers[i])])
        \o FlattenSeq([i \in DOMAIN lines |-> Append(lines[i], NL)])
        \o got

(* Whatever mix of primitives reads a stream, and in whatever blocks the    *)
(* system delivers it, every byte is returned once and in order; a last     *)
(* line without a line end counts as a line; and a read that asks for n     *)
(* bytes gets n unless the stream ended (read_byte, read_line, read_bytes). *)
StreamExact ==
  /\ open => LET whole == BytesRead \o pending \o pipe \o source IN
       \/ whole = content
       \/ /\ content # <<>> /\ Last(content) # NL
          /\ whole = Append(content, NL)
  /\ \A i \in DOMAIN answers :
       /\ answers[i].op = "read" =>
            \/ Len(answers[i].value) = answers[i].limit
            \/ Len(answers[i].value) < answers[i].limit /\ (open => AtEnd)
       /\ answers[i].op = "line" /\ ~answers[i].nil =>
            \A k \in DOMAIN answers[i].value : answers[i].value[k] # NL

(* A wait without a deadline for a child that has more to write than the    *)
(* pipe takes, while nobody reads it.                                      *)
WaitsForReader ==
  /\ job.op = "wait" /\ job.limit = Forever
  /\ open /\ Len(pipe) + Len(source) > PipeSize

(* Every read and every wait returns, whatever the child does with its      *)
(* output, except the wait for a child that waits for its reader; a wait    *)
(* with a deadline returns even then (wait_timeout).                        *)
JobsReturn == (~Idle /\ ~WaitsForReader) ~> Idle

=============================================================================
