-------------------------------- MODULE Repl --------------------------------
(***************************************************************************)
(* The read-evaluate-print loop (kap-cli/src/main.rs, repl, run and         *)
(* has_unbalanced): lines are collected until they make a program.  A line  *)
(* is a sequence of brackets and other text; a final backtick continues it. *)
(***************************************************************************)
EXTENDS Integers, Sequences, SequencesExt

CONSTANTS
  Open, Shut,   \* an opening and a closing bracket, of whatever kind
  Tick,         \* a backtick
  Newline,      \* the end of a line
  MaxLine,      \* bound: brackets and backticks of a line
  MaxLines      \* bound: lines typed

ASSUME ReplAssumption == Open # Shut /\ {MaxLine, MaxLines} \subseteq Nat

VARIABLES
  typed,      \* history: the lines typed
  buffer,     \* the program being collected
  ran,        \* history: the programs handed to the session
  finished    \* the loop was left

rpVars == <<typed, buffer, ran, finished>>

RpInit == typed = <<>> /\ buffer = <<>> /\ ran = <<>> /\ finished = FALSE

Lines == SeqOf({Open, Shut, Tick}, MaxLine)

Continued(line) == line # <<>> /\ Last(line) = Tick
Trimmed(line)   == IF Continued(line) THEN Front(line) ELSE line

(* The depth of the brackets before and after each character.               *)
Weight(c) == CASE c = Open -> 1 [] c = Shut -> -1 [] OTHER -> 0
Depths(text) ==
  LET depth[i \in 0..Len(text)] ==
        IF i = 0 THEN 0 ELSE depth[i - 1] + Weight(text[i])
  IN depth

(* Mutant: only the depth at the end counts.                                *)
HasUnbalancedSum(text) == Depths(text)[Len(text)] > 0

(* A closing bracket before its opening one, or more opened than closed.    *)
HasUnbalanced(text) ==
  \/ \E i \in 1..Len(text) : Depths(text)[i] < 0
  \/ Depths(text)[Len(text)] > 0

TypeLine(line) ==
  /\ ~finished /\ Len(typed) < MaxLines
  /\ typed' = Append(typed, line)
  /\ LET text == Append(buffer \o Trimmed(line), Newline) IN
     IF Continued(line) \/ HasUnbalanced(text)
     THEN buffer' = text /\ UNCHANGED ran
     ELSE buffer' = <<>> /\ ran' = Append(ran, text)
  /\ UNCHANGED finished

(* End of input runs what is there.                                         *)
EndOfInput ==
  /\ ~finished
  /\ finished' = TRUE
  /\ buffer' = <<>>
  /\ ran' = IF buffer = <<>> THEN ran ELSE Append(ran, buffer)
  /\ UNCHANGED typed

(* The terminal fails: the loop ends, the collected text is dropped.        *)
ReadError ==
  /\ ~finished
  /\ finished' = TRUE
  /\ UNCHANGED <<typed, buffer, ran>>

RpNext == EndOfInput \/ ReadError \/ \E line \in Lines : TypeLine(line)
RpSpec == RpInit /\ [][RpNext]_rpVars

-----------------------------------------------------------------------------
(* Properties                                                              *)

(* What was typed, without the backticks that continue a line.              *)
Typed == FlattenSeq([i \in DOMAIN typed |-> Append(Trimmed(typed[i]), Newline)])

(* The text left when matching brackets are removed, innermost first: none  *)
(* for a program that is well nested.                                      *)
Matched(open, c) ==
  IF c = Open THEN Append(open, c)
  ELSE IF c # Shut THEN open
  ELSE IF open # <<>> /\ Last(open) = Open THEN Front(open) ELSE Append(open, c)
Unmatched(text) ==
  LET left[i \in 0..Len(text)] ==
        IF i = 0 THEN <<>> ELSE Matched(left[i - 1], text[i])
  IN left[Len(text)]

(* The programs run are the text typed, cut at ends of lines and with       *)
(* nothing lost; each is well nested, and what is still collected is not    *)
(* or ends in a backtick: a close bracket typed too early keeps every later *)
(* line from running until the input ends (has_unbalanced).                 *)
ReplRunsWholePrograms ==
  /\ FlattenSeq(ran) \o buffer = Typed
  /\ \A i \in DOMAIN ran : Unmatched(ran[i]) = <<>> \/ (finished /\ i = Len(ran))
  /\ \A i \in DOMAIN ran : Last(ran[i]) = Newline
  /\ buffer # <<>> => Unmatched(buffer) # <<>> \/ Continued(Last(typed))

=============================================================================
