----------------------------- MODULE AtomicDisk -----------------------------
(***************************************************************************)
(* What the log of log.c promises to the file system: a disk on which the  *)
(* writes of a group of operations become durable together or not at all.  *)
(* "durable" is the disk a reboot would find, "pending" the disk as the     *)
(* running kernel sees it, "active" the number of operations in progress.   *)
(***************************************************************************)
EXTENDS Naturals

CONSTANTS Blocks, Vals

VARIABLES durable, pending, active

vars == <<durable, pending, active>>

Init ==
  /\ durable \in [Blocks -> Vals]
  /\ pending = durable
  /\ active = 0

Begin ==
  /\ active' = active + 1
  /\ UNCHANGED <<durable, pending>>

\* Only an operation in progress changes a block, and only in memory.
Write(b, v) ==
  /\ active > 0
  /\ pending' = [pending EXCEPT ![b] = v]
  /\ UNCHANGED <<durable, active>>

End ==
  /\ active > 0
  /\ active' = active - 1
  /\ UNCHANGED <<durable, pending>>

\* All pending writes become durable in one step, between operations.
Commit ==
  /\ active = 0
  /\ durable' = pending
  /\ UNCHANGED <<pending, active>>

\* A crash loses exactly what was not durable.
Crash ==
  /\ pending' = durable
  /\ active' = 0
  /\ UNCHANGED durable

Next ==
  \/ Begin
  \/ \E b \in Blocks, v \in Vals : Write(b, v)
  \/ End
  \/ Commit
  \/ Crash

Spec == Init /\ [][Next]_vars
=============================================================================
