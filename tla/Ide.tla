--------------------------------- MODULE Ide ---------------------------------
(***************************************************************************)
(* The IDE driver, ide.c: the queue of buffers between iderw and ideintr,   *)
(* and the device.  Every section under idelock is one step; sleep() under  *)
(* idelock is the end of such a section.  The module has the actions of the *)
(* driver only; Bio composes them with the buffer cache that calls iderw.   *)
(***************************************************************************)
EXTENDS Integers, Sequences, FiniteSets

CONSTANTS
  Procs,
  NBUF,
  Blocks,       \* block numbers of the disk
  Values,       \* contents of a block
  NoBlock,      \* block number of a buffer that was never used
  None,
  ReadErrors    \* TRUE: the device may report an error on a read

Bufs == 1..NBUF

\* The channels of sleep() and wakeup().
BufChan(b) == <<"buf", b>>
LockChan(b) == <<"lock", b>>

ASSUME IdeAssumption ==
  /\ NBUF \in Nat \ {0}
  /\ NoBlock \notin Blocks
  /\ IsFiniteSet(Procs)
  /\ None \notin Procs /\ None \notin Bufs
  /\ \A b \in Bufs \cup {None} : None # BufChan(b) /\ None # LockChan(b)
  /\ ReadErrors \in BOOLEAN

VARIABLES
  flags, blockno, data,   \* struct buf
  idequeue,
  device,                 \* "idle", "busy", or "intr": interrupt raised
  cmd,                    \* the command the device works on
  disk,
  pc, buf,                \* buf[p]: the buffer of p's call in progress
  asleep                  \* asleep[p]: channel p sleeps on

ideVars == <<flags, blockno, data, idequeue, device, cmd, disk>>

wakeup(chan) == [p \in Procs |-> IF asleep[p] = chan THEN None ELSE asleep[p]]

IdeInit ==
  /\ flags = [b \in Bufs |-> {}]
  /\ blockno = [b \in Bufs |-> NoBlock]
  /\ \E v \in Values : data = [b \in Bufs |-> v]
  /\ idequeue = <<>>
  /\ device = "idle"
  /\ cmd = None
  /\ disk \in [Blocks -> Values]

\* For a write the data go to the device with the command.
idestart(b) ==
  /\ device' = "busy"
  /\ cmd' = [block |-> blockno[b], write |-> "DIRTY" \in flags[b], value |-> data[b]]

\* iderw() up to its first sleep: b is queued, and started if it is alone.
iderw(p) ==
  /\ pc[p] \in {"read", "write"}
  /\ idequeue' = Append(idequeue, buf[p])
  /\ IF idequeue = <<>> THEN idestart(buf[p]) ELSE UNCHANGED <<device, cmd>>
  /\ asleep' = [asleep EXCEPT ![p] = BufChan(buf[p])]
  /\ pc' = [pc EXCEPT ![p] = IF @ = "read" THEN "read_wait" ELSE "write_wait"]
  /\ UNCHANGED <<flags, blockno, data, disk, buf>>

\* iderw() after a sleep: it returns once the buffer is valid and clean.
iderwTest(p) ==
  /\ pc[p] \in {"read_wait", "write_wait"} /\ asleep[p] = None
  /\ IF flags[buf[p]] = {"VALID"}
       THEN pc' = [pc EXCEPT ![p] = "held"] /\ UNCHANGED asleep
       ELSE asleep' = [asleep EXCEPT ![p] = BufChan(buf[p])] /\ UNCHANGED pc
  /\ UNCHANGED <<ideVars, buf>>

\* The device carries out its command and raises the interrupt.
DeviceDone ==
  /\ device = "busy"
  /\ device' = "intr"
  /\ disk' = IF cmd.write THEN [disk EXCEPT ![cmd.block] = cmd.value] ELSE disk
  /\ UNCHANGED <<flags, blockno, data, idequeue, cmd, pc, buf, asleep>>

\* ideintr() finishes the request for b with the data that insl() finds, or
\* with none after a read error.
ideintrWith(b, error) ==
  /\ data' = IF "DIRTY" \in flags[b] \/ error
               THEN data ELSE [data EXCEPT ![b] = disk[cmd.block]]
  /\ flags' = [flags EXCEPT ![b] = (@ \cup {"VALID"}) \ {"DIRTY"}]
  /\ asleep' = wakeup(BufChan(b))

\* ideintr().  With an empty queue it returns at once and changes nothing.
ideintr ==
  /\ device = "intr" /\ idequeue # <<>>
  /\ idequeue' = Tail(idequeue)
  /\ \E error \in {FALSE, ReadErrors} : ideintrWith(Head(idequeue), error)
  /\ IF idequeue' # <<>> THEN idestart(Head(idequeue'))
                         ELSE device' = "idle" /\ cmd' = None
  /\ UNCHANGED <<blockno, disk, pc, buf>>
=============================================================================
