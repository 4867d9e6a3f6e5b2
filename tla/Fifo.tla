-------------------------------- MODULE Fifo --------------------------------
(***************************************************************************)
(* What a pipe promises: a bounded queue of bytes.  Every byte written is   *)
(* delivered to one reader, once, in order; end of file is reported only    *)
(* when the queue is empty and no writer is left.                           *)
(***************************************************************************)
EXTENDS Naturals, Sequences

CONSTANTS Procs, Bytes, Capacity, NoByte

VARIABLES
  queue,      \* bytes in the pipe
  last,       \* last byte delivered to each process
  writers,    \* the write end is open
  eof         \* processes that have seen end of file

vars == <<queue, last, writers, eof>>

Init ==
  /\ queue = <<>>
  /\ last = [p \in Procs |-> NoByte]
  /\ writers = TRUE
  /\ eof = {}

Put(v) ==
  /\ Len(queue) < Capacity
  /\ queue' = Append(queue, v)
  /\ UNCHANGED <<last, writers, eof>>

Get(p) ==
  /\ queue # <<>>
  /\ last' = [last EXCEPT ![p] = Head(queue)]
  /\ queue' = Tail(queue)
  /\ UNCHANGED <<writers, eof>>

CloseWriters ==
  /\ writers' = FALSE
  /\ UNCHANGED <<queue, last, eof>>

SeeEof(p) ==
  /\ queue = <<>> /\ ~writers
  /\ eof' = eof \cup {p}
  /\ UNCHANGED <<queue, last, writers>>

Next ==
  \/ \E v \in Bytes : Put(v)
  \/ \E p \in Procs : Get(p) \/ SeeEof(p)
  \/ CloseWriters

Spec == Init /\ [][Next]_vars
=============================================================================
