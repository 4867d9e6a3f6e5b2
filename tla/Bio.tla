--------------------------------- MODULE Bio ---------------------------------
(***************************************************************************)
(* The buffer cache, bio.c, with the sleep locks of sleeplock.c, over the   *)
(* IDE driver of module Ide.  A section under bcache.lock, or under the     *)
(* spinlock inside a sleep lock, is one step.  A process uses one buffer at *)
(* a time; one that uses two counts as two.                                 *)
(***************************************************************************)
EXTENDS Ide

CONSTANT MaxPinned   \* buffers that log_write may have marked B_DIRTY at a time

ASSUME BioAssumption == MaxPinned \in Nat

VARIABLES
  refcnt,
  mru,       \* the list of buffers, most recently used first
  holder,    \* owner of each buffer's sleep lock
  panicked   \* bget() found no buffer

vars == <<ideVars, pc, buf, asleep, refcnt, mru, holder, panicked>>

Init ==
  /\ IdeInit
  /\ pc = [p \in Procs |-> "idle"]
  /\ buf = [p \in Procs |-> None]
  /\ asleep = [p \in Procs |-> None]
  /\ refcnt = [b \in Bufs |-> 0]
  /\ mru = [i \in Bufs |-> NBUF + 1 - i]
  /\ holder = [b \in Bufs |-> None]
  /\ panicked = FALSE

Cached(k) == {b \in Bufs : blockno[b] = k}

\* Variant of Unused that ignores B_DIRTY.
UnusedOrDirty == {i \in Bufs : refcnt[mru[i]] = 0}

\* Positions in the list of the buffers that bget() may recycle.
Unused == {i \in Bufs : refcnt[mru[i]] = 0 /\ "DIRTY" \notin flags[mru[i]]}

\* bget(): the block is cached.
BgetCached(p, k) ==
  /\ pc[p] = "idle"
  /\ \E b \in Cached(k) :
       /\ refcnt' = [refcnt EXCEPT ![b] = @ + 1]
       /\ buf' = [buf EXCEPT ![p] = b]
  /\ pc' = [pc EXCEPT ![p] = "lock"]
  /\ UNCHANGED <<ideVars, asleep, mru, holder, panicked>>

\* bget(): the least recently used buffer that is unused is recycled.
BgetRecycle(p, k) ==
  /\ pc[p] = "idle" /\ Cached(k) = {} /\ Unused # {}
  /\ LET b == mru[CHOOSE i \in Unused : \A j \in Unused : j <= i] IN
       /\ blockno' = [blockno EXCEPT ![b] = k]
       /\ flags' = [flags EXCEPT ![b] = {}]
       /\ refcnt' = [refcnt EXCEPT ![b] = 1]
       /\ buf' = [buf EXCEPT ![p] = b]
  /\ pc' = [pc EXCEPT ![p] = "lock"]
  /\ UNCHANGED <<data, idequeue, device, cmd, disk, asleep, mru, holder, panicked>>

\* bget(): panic("bget: no buffers").
BgetPanic(p, k) ==
  /\ pc[p] = "idle" /\ Cached(k) = {} /\ Unused = {}
  /\ panicked' = TRUE
  /\ UNCHANGED <<ideVars, pc, buf, asleep, refcnt, mru, holder>>

\* acquiresleep(), and the test of B_VALID in bread().
acquiresleep(p) ==
  /\ pc[p] = "lock" /\ asleep[p] = None
  /\ IF holder[buf[p]] = None
       THEN /\ holder' = [holder EXCEPT ![buf[p]] = p]
            /\ pc' = [pc EXCEPT ![p] = IF "VALID" \in flags[buf[p]] THEN "held" ELSE "read"]
            /\ UNCHANGED asleep
       ELSE /\ asleep' = [asleep EXCEPT ![p] = LockChan(buf[p])]
            /\ UNCHANGED <<holder, pc>>
  /\ UNCHANGED <<ideVars, buf, refcnt, mru, panicked>>

\* The caller changes its buffer and calls bwrite().
bwrite(p, v) ==
  /\ pc[p] = "held"
  /\ data' = [data EXCEPT ![buf[p]] = v]
  /\ flags' = [flags EXCEPT ![buf[p]] = @ \cup {"DIRTY"}]
  /\ pc' = [pc EXCEPT ![p] = "write"]
  /\ UNCHANGED <<blockno, idequeue, device, cmd, disk, buf, asleep, refcnt, mru, holder, panicked>>

Dirty == {b \in Bufs : "DIRTY" \in flags[b]}

\* The caller changes its buffer and calls log_write(), which pins it.
log_write(p, v) ==
  /\ pc[p] = "held"
  /\ Cardinality(Dirty \cup {buf[p]}) <= MaxPinned
  /\ data' = [data EXCEPT ![buf[p]] = v]
  /\ flags' = [flags EXCEPT ![buf[p]] = @ \cup {"DIRTY"}]
  /\ UNCHANGED <<blockno, idequeue, device, cmd, disk, pc, buf, asleep, refcnt, mru, holder, panicked>>

\* Variant of releasesleep that wakes nobody.
releasesleepSilent(p) ==
  /\ pc[p] = "held"
  /\ holder' = [holder EXCEPT ![buf[p]] = None]
  /\ pc' = [pc EXCEPT ![p] = "release"]
  /\ UNCHANGED <<ideVars, buf, asleep, refcnt, mru, panicked>>

\* brelse(): releasesleep().
releasesleep(p) ==
  /\ pc[p] = "held"
  /\ holder' = [holder EXCEPT ![buf[p]] = None]
  /\ asleep' = wakeup(LockChan(buf[p]))
  /\ pc' = [pc EXCEPT ![p] = "release"]
  /\ UNCHANGED <<ideVars, buf, refcnt, mru, panicked>>

\* The list with buffer b moved to its front.
MoveToFront(b) ==
  LET at == CHOOSE i \in Bufs : mru[i] = b
  IN [i \in Bufs |-> IF i = 1 THEN b ELSE IF i <= at THEN mru[i - 1] ELSE mru[i]]

\* brelse(): the reference is dropped, and an unused buffer moves to the front.
brelse(p) ==
  /\ pc[p] = "release"
  /\ refcnt' = [refcnt EXCEPT ![buf[p]] = @ - 1]
  /\ mru' = IF refcnt'[buf[p]] = 0 THEN MoveToFront(buf[p]) ELSE mru
  /\ pc' = [pc EXCEPT ![p] = "idle"]
  /\ buf' = [buf EXCEPT ![p] = None]
  /\ UNCHANGED <<ideVars, asleep, holder, panicked>>

cacheVars == <<refcnt, mru, holder, panicked>>

Next ==
  /\ ~panicked
  /\ \/ \E p \in Procs :
          \/ \E k \in Blocks : BgetCached(p, k) \/ BgetRecycle(p, k) \/ BgetPanic(p, k)
          \/ acquiresleep(p)
          \/ iderw(p) /\ UNCHANGED cacheVars
          \/ iderwTest(p) /\ UNCHANGED cacheVars
          \/ \E v \in Values : bwrite(p, v) \/ log_write(p, v)
          \/ releasesleep(p)
          \/ brelse(p)
     \/ DeviceDone /\ UNCHANGED cacheVars
     \/ ideintr /\ UNCHANGED cacheVars

Spec == Init /\ [][Next]_vars

-----------------------------------------------------------------------------

\* A process sleeps on a buffer only while the driver has it and the device
\* works on the first buffer of the queue, in the right direction; and on a
\* sleep lock only while another process holds it: no wakeup is lost.
SleepsForReason ==
  \A p \in Procs :
    /\ asleep[p] = BufChan(buf[p]) =>
         /\ \E i \in DOMAIN idequeue : idequeue[i] = buf[p]
         /\ device # "idle"
         /\ LET b == Head(idequeue)
            IN cmd = [block |-> blockno[b], write |-> "DIRTY" \in flags[b],
                      value |-> data[b]]
    /\ asleep[p] = LockChan(buf[p]) => holder[buf[p]] \notin {None, p}

\* The cache implements a store of blocks that are used by one process at a
\* time: what a process finds in its buffer is what was last stored there,
\* through any number of evictions and pinned buffers.
Holds(p, k) ==
  pc[p] \in {"held", "write", "write_wait"} /\ blockno[buf[p]] = k
Value == [k \in Blocks |->
  IF \E b \in Cached(k) : "VALID" \in flags[b]
    THEN data[CHOOSE b \in Cached(k) : "VALID" \in flags[b]] ELSE disk[k]]
Owner == [k \in Blocks |->
  IF \E p \in Procs : Holds(p, k) THEN CHOOSE p \in Procs : Holds(p, k) ELSE None]
View == [p \in Procs |->
  IF pc[p] \in {"held", "write", "write_wait"} THEN data[buf[p]] ELSE None]
B == INSTANCE BlockStore WITH value <- Value, owner <- Owner, view <- View
StoresBlocks == B!Spec
=============================================================================
