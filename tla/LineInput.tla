----------------------------- MODULE LineInput ------------------------------
(***************************************************************************)
(* What the console promises to its readers: the line being typed can be    *)
(* edited, a finished line cannot, and finished input is read in order, once.*)
(***************************************************************************)
EXTENDS Naturals, Sequences

CONSTANTS
  Char,      \* characters that can be typed into a line
  LineEnds,  \* those that finish it
  Cap        \* characters that fit

VARIABLES
  ready,     \* finished input that has not been read
  line       \* the line being typed

Init == ready = <<>> /\ line = <<>>

Room == Len(ready) + Len(line) < Cap

\* A character of a line that is not finished, and still has room.
Put(ch) ==
  /\ Room /\ ch \notin LineEnds
  /\ line' = Append(line, ch)
  /\ Room'
  /\ UNCHANGED ready

\* The last character: a line end, or the one that takes the last room.
Finish(ch) ==
  /\ Room
  /\ ch \in LineEnds \/ Len(ready) + Len(line) + 1 = Cap
  /\ ready' = ready \o Append(line, ch)
  /\ line' = <<>>

Erase == line # <<>> /\ line' = SubSeq(line, 1, Len(line) - 1) /\ UNCHANGED ready

EraseLine == line # <<>> /\ line' = <<>> /\ UNCHANGED ready

Take == ready # <<>> /\ ready' = Tail(ready) /\ UNCHANGED line

Next == (\E ch \in Char : Put(ch) \/ Finish(ch)) \/ Erase \/ EraseLine \/ Take

Spec == Init /\ [][Next]_<<ready, line>>
=============================================================================
