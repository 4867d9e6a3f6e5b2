-------------------------------- MODULE Log --------------------------------
(***************************************************************************)
(* The write-ahead log of log.c.  Processes run file-system operations      *)
(* between begin_op and end_op; the last one out commits for all of them.   *)
(* A write to one disk block (bwrite) is atomic; the machine may crash      *)
(* between any two steps and then runs recover_from_log before anything     *)
(* else.  The spinlock log.lock makes each critical section one step.       *)
(***************************************************************************)
EXTENDS Naturals, Sequences, FiniteSets

CONSTANTS
  Procs,         \* processes that run file-system operations
  Blocks,        \* home blocks of the file system
  Vals,          \* block contents
  MAXOPBLOCKS,   \* blocks that begin_op reserves for an operation
  LOGSIZE,       \* capacity of logheader.block
  Size,          \* log.size, blocks of the on-disk log with its header
  OPBLOCKS       \* distinct blocks an operation really writes

ASSUME LogAssumption ==
  /\ IsFiniteSet(Procs)
  /\ MAXOPBLOCKS \in Nat \ {0}
  /\ LOGSIZE \in Nat
  /\ Size \in Nat
  /\ OPBLOCKS \in 0..MAXOPBLOCKS

VARIABLES
  disk,          \* home blocks on disk
  logblk,        \* log data blocks on disk
  head,          \* block numbers in the on-disk log header
  cache,         \* home blocks as the buffer cache returns them
  dirty,         \* blocks whose buffer has B_DIRTY, which bget never recycles
  lh,            \* log.lh, the in-memory header
  outstanding,   \* log.outstanding
  committing,    \* log.committing
  pc,            \* what each process is doing
  held,          \* the block whose buffer a process passes to log_write
  wrote,         \* blocks the running operation of a process has written
  phase,         \* step of commit() or recover_from_log()
  tail           \* loop index of write_log and install_trans

diskVars == <<disk, logblk, head>>
opVars == <<pc, held, wrote, outstanding>>
vars == <<disk, logblk, head, cache, dirty, lh, outstanding, committing, pc,
          held, wrote, phase, tail>>

Pcs == {"user", "asleep", "op", "log_write", "commit"}
Phases == {"idle", "read_head", "write_log", "write_head", "install", "clear",
           "done"}

Logged(h) == {h[i] : i \in DOMAIN h}

\* The blocks of d with those a header h names replaced by their log copies.
Overlay(h, l, d) ==
  [b \in Blocks |->
     IF b \in Logged(h) THEN l[CHOOSE i \in DOMAIN h : h[i] = b] ELSE d[b]]

Recovering == phase # "idle" /\ ~committing

\* wakeup(&log): every process asleep in begin_op tests its condition again.
WakeAll(pcs) == [p \in Procs |-> IF pcs[p] = "asleep" THEN "user" ELSE pcs[p]]

-----------------------------------------------------------------------------
\* A disk made by mkfs, about to be mounted: initlog has not run yet.
Init ==
  /\ disk \in [Blocks -> Vals]
  /\ \E v \in Vals : logblk = [i \in 1..LOGSIZE |-> v]
  /\ head = <<>>
  /\ cache = disk
  /\ dirty = {}
  /\ lh = <<>>
  /\ outstanding = 0
  /\ committing = FALSE
  /\ pc = [p \in Procs |-> "user"]
  /\ held = [p \in Procs |-> {}]
  /\ wrote = [p \in Procs |-> {}]
  /\ phase = "read_head"
  /\ tail = 0

\* Variant of NoSpace that reserves nothing for the operation that begins.
NoSpaceForOthers == Len(lh) + outstanding * MAXOPBLOCKS > LOGSIZE

\* begin_op's test: the log might not hold another operation's blocks.
NoSpace == Len(lh) + (outstanding + 1) * MAXOPBLOCKS > LOGSIZE

\* begin_op() that finds room.
BeginOp(p) ==
  /\ pc[p] = "user" /\ ~Recovering
  /\ ~committing /\ ~NoSpace
  /\ outstanding' = outstanding + 1
  /\ pc' = [pc EXCEPT ![p] = "op"]
  /\ UNCHANGED <<diskVars, cache, dirty, lh, committing, held, wrote, phase,
                 tail>>

\* begin_op() that must sleep on &log.
BeginOpSleep(p) ==
  /\ pc[p] = "user" /\ ~Recovering
  /\ committing \/ NoSpace
  /\ pc' = [pc EXCEPT ![p] = "asleep"]
  /\ UNCHANGED <<diskVars, cache, dirty, lh, outstanding, committing, held,
                 wrote, phase, tail>>

\* The tests of log_write that panic when they fail.
LogWritable == Len(lh) < LOGSIZE /\ Len(lh) + 1 < Size

\* An operation changes a buffer it holds locked and calls log_write, which
\* first makes its tests without holding log.lock.
LogWrite(p, b, v) ==
  /\ pc[p] = "op"
  /\ \A q \in Procs : b \notin held[q]
  /\ Cardinality(wrote[p] \cup {b}) <= OPBLOCKS
  /\ LogWritable /\ outstanding >= 1
  /\ cache' = [cache EXCEPT ![b] = v]
  /\ pc' = [pc EXCEPT ![p] = "log_write"]
  /\ held' = [held EXCEPT ![p] = {b}]
  /\ wrote' = [wrote EXCEPT ![p] = @ \cup {b}]
  /\ UNCHANGED <<diskVars, dirty, lh, outstanding, committing, phase, tail>>

\* Variant of LogWriteLocked that does not set B_DIRTY.
LogWriteNoPin(p) ==
  /\ pc[p] = "log_write"
  /\ \E b \in held[p] : lh' = IF b \in Logged(lh) THEN lh ELSE Append(lh, b)
  /\ pc' = [pc EXCEPT ![p] = "op"]
  /\ held' = [held EXCEPT ![p] = {}]
  /\ UNCHANGED <<diskVars, cache, dirty, outstanding, committing, wrote, phase,
                 tail>>

\* The rest of log_write, under log.lock: absorb or append, and pin.
LogWriteLocked(p) ==
  /\ pc[p] = "log_write"
  /\ \E b \in held[p] : lh' = IF b \in Logged(lh) THEN lh ELSE Append(lh, b)
  /\ dirty' = dirty \cup held[p]
  /\ pc' = [pc EXCEPT ![p] = "op"]
  /\ held' = [held EXCEPT ![p] = {}]
  /\ UNCHANGED <<diskVars, cache, outstanding, committing, wrote, phase, tail>>

\* end_op() while other operations run: give back the reservation.
EndOp(p) ==
  /\ pc[p] = "op" /\ ~committing
  /\ outstanding > 1
  /\ outstanding' = outstanding - 1
  /\ pc' = WakeAll([pc EXCEPT ![p] = "user"])
  /\ wrote' = [wrote EXCEPT ![p] = {}]
  /\ UNCHANGED <<diskVars, cache, dirty, lh, committing, held, phase, tail>>

\* end_op() of the last operation: it becomes the committer.
EndOpLast(p) ==
  /\ pc[p] = "op" /\ ~committing
  /\ outstanding = 1
  /\ outstanding' = 0
  /\ committing' = TRUE
  /\ pc' = [pc EXCEPT ![p] = "commit"]
  /\ phase' = IF lh = <<>> THEN "done" ELSE "write_log"
  /\ tail' = 0
  /\ wrote' = [wrote EXCEPT ![p] = {}]
  /\ UNCHANGED <<diskVars, cache, dirty, lh, held>>

-----------------------------------------------------------------------------
\* write_log(): one iteration copies one cached block to the log.
WriteLog ==
  /\ phase = "write_log"
  /\ logblk' = [logblk EXCEPT ![tail + 1] = cache[lh[tail + 1]]]
  /\ tail' = tail + 1
  /\ phase' = IF tail + 1 = Len(lh) THEN "write_head" ELSE "write_log"
  /\ UNCHANGED <<disk, head, cache, dirty, lh, committing, opVars>>

\* The first write_head() of commit(): the transaction commits.
WriteHead ==
  /\ phase = "write_head"
  /\ head' = lh
  /\ phase' = "install"
  /\ tail' = 0
  /\ UNCHANGED <<disk, logblk, cache, dirty, lh, committing, opVars>>

\* Variant of InstallTrans that stops one block early.
InstallTransShort ==
  /\ phase = "install"
  /\ disk' = [disk EXCEPT ![lh[tail + 1]] = logblk[tail + 1]]
  /\ cache' = [cache EXCEPT ![lh[tail + 1]] = logblk[tail + 1]]
  /\ dirty' = dirty \ {lh[tail + 1]}
  /\ tail' = tail + 1
  /\ phase' = IF tail + 2 >= Len(lh) THEN "clear" ELSE "install"
  /\ UNCHANGED <<logblk, head, lh, committing, opVars>>

\* install_trans(): one iteration copies one log block home.  The write clears
\* the B_DIRTY of the home block's buffer.
InstallTrans ==
  /\ phase = "install"
  /\ disk' = [disk EXCEPT ![lh[tail + 1]] = logblk[tail + 1]]
  /\ cache' = [cache EXCEPT ![lh[tail + 1]] = logblk[tail + 1]]
  /\ dirty' = dirty \ {lh[tail + 1]}
  /\ tail' = tail + 1
  /\ phase' = IF tail + 1 = Len(lh) THEN "clear" ELSE "install"
  /\ UNCHANGED <<logblk, head, lh, committing, opVars>>

\* log.lh.n = 0 and the second write_head(): the log is empty again.
ClearHead ==
  /\ phase = "clear"
  /\ lh' = <<>>
  /\ head' = <<>>
  /\ phase' = IF committing THEN "done" ELSE "idle"
  /\ tail' = 0
  /\ UNCHANGED <<disk, logblk, cache, dirty, committing, opVars>>

\* Variant of EndCommit without wakeup.
EndCommitNoWakeup(p) ==
  /\ pc[p] = "commit" /\ phase = "done"
  /\ committing' = FALSE
  /\ phase' = "idle"
  /\ pc' = [pc EXCEPT ![p] = "user"]
  /\ UNCHANGED <<diskVars, cache, dirty, lh, outstanding, held, wrote, tail>>

\* end_op() after commit(): let the sleepers in.
EndCommit(p) ==
  /\ pc[p] = "commit" /\ phase = "done"
  /\ committing' = FALSE
  /\ phase' = "idle"
  /\ pc' = WakeAll([pc EXCEPT ![p] = "user"])
  /\ UNCHANGED <<diskVars, cache, dirty, lh, outstanding, held, wrote, tail>>

-----------------------------------------------------------------------------
\* Power fails and the machine boots again: memory is lost, the cache will
\* read what the disk holds.
Crash ==
  /\ cache' = disk
  /\ dirty' = {}
  /\ lh' = <<>>
  /\ outstanding' = 0
  /\ committing' = FALSE
  /\ pc' = [p \in Procs |-> "user"]
  /\ held' = [p \in Procs |-> {}]
  /\ wrote' = [p \in Procs |-> {}]
  /\ phase' = "read_head"
  /\ tail' = 0
  /\ UNCHANGED diskVars

\* Variant of ReadHead: recovery clears the log without installing it.
ReadHeadDiscard ==
  /\ phase = "read_head"
  /\ lh' = head
  /\ phase' = "clear"
  /\ tail' = 0
  /\ UNCHANGED <<diskVars, cache, dirty, committing, opVars>>

\* read_head() of recover_from_log().
ReadHead ==
  /\ phase = "read_head"
  /\ lh' = head
  /\ phase' = IF head = <<>> THEN "clear" ELSE "install"
  /\ tail' = 0
  /\ UNCHANGED <<diskVars, cache, dirty, committing, opVars>>

Commit == WriteLog \/ WriteHead \/ InstallTrans \/ ClearHead

Next ==
  \/ \E p \in Procs :
       \/ BeginOp(p)
       \/ BeginOpSleep(p)
       \/ \E b \in Blocks, v \in Vals : LogWrite(p, b, v)
       \/ LogWriteLocked(p)
       \/ EndOp(p)
       \/ EndOpLast(p)
       \/ EndCommit(p)
  \/ Commit
  \/ ReadHead
  \/ Crash

Spec == Init /\ [][Next]_vars

\* A runnable process goes on running, the disk answers, and every operation
\* makes finitely many writes before it calls end_op.
Fairness ==
  /\ WF_vars(Commit)
  /\ WF_vars(ReadHead)
  /\ \A p \in Procs :
       /\ WF_vars(LogWriteLocked(p))
       /\ WF_vars(EndCommit(p))
       /\ SF_vars(EndOp(p) \/ EndOpLast(p))

FairSpec == Spec /\ Fairness

-----------------------------------------------------------------------------
\* The variables have their types: neither the log header in memory nor the
\* one on disk outgrows the log.
TypeOK ==
  /\ disk \in [Blocks -> Vals]
  /\ logblk \in [1..LOGSIZE -> Vals]
  /\ head \in Seq(Blocks) /\ Len(head) <= LOGSIZE
  /\ cache \in [Blocks -> Vals]
  /\ dirty \subseteq Blocks
  /\ lh \in Seq(Blocks) /\ Len(lh) <= LOGSIZE
  /\ outstanding \in Nat
  /\ committing \in BOOLEAN
  /\ pc \in [Procs -> Pcs]
  /\ held \in [Procs -> SUBSET Blocks]
  /\ wrote \in [Procs -> SUBSET Blocks]
  /\ phase \in Phases
  /\ tail \in 0..LOGSIZE

\* The tests of log_write never panic while an operation is in progress, not
\* even when running operations have used every block that begin_op reserved
\* but one: as long as each operation writes fewer than MAXOPBLOCKS blocks, and
\* although the header takes one block of a log of LOGSIZE blocks (mkfs).
NoPanic == \A p \in Procs : pc[p] = "op" => LogWritable

\* An operation that has not yet written its OPBLOCKS blocks finds room in the
\* log for one more: begin_op's reservation and the test of log_write agree.
ReservedSpace ==
  \A p \in Procs :
    pc[p] = "op" /\ Cardinality(wrote[p]) < OPBLOCKS => LogWritable

\* commit() runs only when no operation is in progress, so a commit never
\* contains part of a system call (and end_op's own panic is not reached).
CommitOnlyIdle ==
  committing => \A p \in Procs : pc[p] \notin {"op", "log_write"}

\* A block whose buffer bget may recycle reads the same from cache and disk:
\* recycling it loses no update, neither before, during nor after a commit.
CleanMatchesDisk ==
  \A b \in Blocks :
    b \notin dirty /\ (\A p \in Procs : b \notin held[p]) => cache[b] = disk[b]

\* The disk that a crash in this state would leave after recovery.
Durable == Overlay(head, logblk, disk)

\* What the running kernel sees; during recovery that is the recovered disk.
Pending == IF Recovering THEN Durable ELSE cache

\* When the last end_op has returned, everything written has reached the disk.
QuiescentDurable ==
  phase = "idle" /\ outstanding = 0 => disk = cache /\ head = <<>>

\* The log implements a disk with atomic group commit, through any number of
\* crashes, including crashes during commit and during recovery.
Abs == INSTANCE AtomicDisk
         WITH durable <- Durable, pending <- Pending, active <- outstanding

AtomicCommit == Abs!Spec

\* A process asleep in begin_op is woken: no commit or end_op forgets it.
SleepersWake == \A p \in Procs : pc[p] = "asleep" ~> pc[p] # "asleep"
=============================================================================
