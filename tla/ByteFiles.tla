----------------------------- MODULE ByteFiles -----------------------------
(***************************************************************************)
(* What the file layer promises: a file is a sequence of bytes, marked here  *)
(* with the file they were meant for.  A step stores bytes in one file, over *)
(* existing bytes or right after them, or empties one file.  At first each   *)
(* file holds bytes of its own.                                              *)
(***************************************************************************)
EXTENDS Integers, Sequences

CONSTANTS Files, MaxRun

VARIABLE bytes

Init == \A i \in Files : \A k \in DOMAIN bytes[i] : bytes[i][k] = i

\* n bytes are stored at offset off of file i.
Store(i, off, n) ==
  /\ off <= Len(bytes[i])
  /\ bytes' = [bytes EXCEPT ![i] =
                 SubSeq(@, 1, off) \o [k \in 1..n |-> i] \o SubSeq(@, off + n + 1, Len(@))]

Empty(i) == bytes' = [bytes EXCEPT ![i] = <<>>]

Next ==
  \E i \in Files :
    \/ Empty(i)
    \/ \E off \in 0..Len(bytes[i]), n \in 1..MaxRun : Store(i, off, n)

Spec == Init /\ [][Next]_bytes
=============================================================================
