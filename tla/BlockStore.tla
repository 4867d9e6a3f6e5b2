----------------------------- MODULE BlockStore -----------------------------
(***************************************************************************)
(* What the buffer cache promises its callers: every block has one value,   *)
(* and a process that has a block has it alone, sees that value and may     *)
(* change it.  Buffers, the driver and the disk do not appear.              *)
(***************************************************************************)
CONSTANTS Procs, Blocks, Values, None

VARIABLES
  value,   \* value[k]: contents of block k
  owner,   \* owner[k]: process that has block k, or None
  view     \* view[p]: contents p sees in its block, or None

vars == <<value, owner, view>>

Init ==
  /\ value \in [Blocks -> Values]
  /\ owner = [k \in Blocks |-> None]
  /\ view = [p \in Procs |-> None]

Take(p, k) ==
  /\ owner[k] = None /\ \A j \in Blocks : owner[j] # p
  /\ owner' = [owner EXCEPT ![k] = p]
  /\ view' = [view EXCEPT ![p] = value[k]]
  /\ UNCHANGED value

Change(p, k, v) ==
  /\ owner[k] = p
  /\ value' = [value EXCEPT ![k] = v]
  /\ view' = [view EXCEPT ![p] = v]
  /\ UNCHANGED owner

Return(p, k) ==
  /\ owner[k] = p
  /\ owner' = [owner EXCEPT ![k] = None]
  /\ view' = [view EXCEPT ![p] = None]
  /\ UNCHANGED value

Next ==
  \E p \in Procs, k \in Blocks :
    \/ Take(p, k)
    \/ \E v \in Values : Change(p, k, v)
    \/ Return(p, k)

Spec == Init /\ [][Next]_vars
=============================================================================
