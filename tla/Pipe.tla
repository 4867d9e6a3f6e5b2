-------------------------------- MODULE Pipe --------------------------------
(***************************************************************************)
(* A pipe of pipe.c between processes that share its two ends, with the     *)
(* reference counts of the two struct file (file.c) and with kill.          *)
(*                                                                          *)
(* pipe->lock is explicit: the loops of pipewrite and piperead are one      *)
(* action per iteration, run by the owner of the lock.  sleep() and         *)
(* wakeup() run under ptable.lock and are one step each.                    *)
(***************************************************************************)
EXTENDS Integers, Sequences, FiniteSets

CONSTANTS
  Readers, Writers,   \* processes that have the read end, the write end
  Killable,           \* processes that may be killed
  Bytes,              \* contents of a byte
  NoByte, NoOwner,
  PIPESIZE,
  UINT,               \* nread and nwrite count modulo UINT
  Lens                \* sizes of reads and writes

Procs == Readers \cup Writers

ASSUME PipeAssumption ==
  /\ Readers \cap Writers = {}
  /\ Killable \subseteq Procs
  /\ NoByte \notin Bytes /\ NoOwner \notin Procs
  /\ PIPESIZE \in Nat \ {0} /\ UINT \in Nat
  /\ UINT % PIPESIZE = 0 /\ UINT > PIPESIZE
  /\ Lens \subseteq Nat

VARIABLES
  data, nread, nwrite, readopen, writeopen,   \* struct pipe
  lock,      \* owner of pipe->lock
  freed,     \* the pipe's page has been given back with kfree
  open,      \* processes whose descriptor still refers to its end
  killed,
  asleep,    \* processes asleep on &nread (readers) or &nwrite (writers)
  pc,
  n,         \* bytes still to be copied by the call in progress
  got,       \* bytes copied by the read in progress
  last,      \* last byte delivered to each reader
  eof        \* readers to which a read of at least one byte returned 0

pipeVars == <<data, nread, nwrite, readopen, writeopen, freed>>
vars == <<data, nread, nwrite, readopen, writeopen, lock, freed, open, killed,
          asleep, pc, n, got, last, eof>>

Full == nwrite = (nread + PIPESIZE) % UINT
Empty == nread = nwrite

Init ==
  /\ \E b \in Bytes : data = [i \in 0..PIPESIZE - 1 |-> b]
  /\ nread = 0 /\ nwrite = 0
  /\ readopen = TRUE /\ writeopen = TRUE
  /\ lock = NoOwner
  /\ freed = FALSE
  /\ open = Procs
  /\ killed = {}
  /\ asleep = {}
  /\ pc = [p \in Procs |-> "user"]
  /\ n = [p \in Procs |-> 0]
  /\ got = [p \in Procs |-> 0]
  /\ last = [p \in Procs |-> NoByte]
  /\ eof = {}

\* acquire(&p->lock) at the start of a call of pipewrite or piperead.  kill may
\* have come after the test of killed in trap(), so p may be killed already.
Call(p, len) ==
  /\ pc[p] = "user" /\ p \in open
  /\ lock = NoOwner
  /\ lock' = p
  /\ pc' = [pc EXCEPT ![p] = IF p \in Writers THEN "write" ELSE "read"]
  /\ n' = [n EXCEPT ![p] = len]
  /\ got' = [got EXCEPT ![p] = 0]
  /\ UNCHANGED <<pipeVars, open, killed, asleep, last, eof>>

\* pipewrite() stores one byte.
WriteByte(p, v) ==
  /\ pc[p] = "write" /\ n[p] > 0 /\ ~Full
  /\ data' = [data EXCEPT ![nwrite % PIPESIZE] = v]
  /\ nwrite' = (nwrite + 1) % UINT
  /\ n' = [n EXCEPT ![p] = @ - 1]
  /\ UNCHANGED <<nread, readopen, writeopen, lock, freed, open, killed, asleep,
                 pc, got, last, eof>>

\* pipewrite() finds the pipe full and nobody to read, or itself killed.
WriteFail(p) ==
  /\ pc[p] = "write" /\ n[p] > 0 /\ Full
  /\ ~readopen \/ p \in killed
  /\ lock' = NoOwner
  /\ pc' = [pc EXCEPT ![p] = "user"]
  /\ n' = [n EXCEPT ![p] = 0]
  /\ UNCHANGED <<pipeVars, open, killed, asleep, got, last, eof>>

\* pipewrite() finds the pipe full: it wakes the readers and will sleep.
WriteFull(p) ==
  /\ pc[p] = "write" /\ n[p] > 0 /\ Full
  /\ readopen /\ p \notin killed
  /\ asleep' = asleep \ Readers
  /\ pc' = [pc EXCEPT ![p] = "write_sleep"]
  /\ UNCHANGED <<pipeVars, lock, open, killed, n, got, last, eof>>

\* Variant of WriteDone that wakes no reader.
WriteDoneSilent(p) ==
  /\ pc[p] = "write" /\ n[p] = 0
  /\ lock' = NoOwner
  /\ pc' = [pc EXCEPT ![p] = "user"]
  /\ UNCHANGED <<pipeVars, open, killed, asleep, n, got, last, eof>>

\* pipewrite() has written everything.
WriteDone(p) ==
  /\ pc[p] = "write" /\ n[p] = 0
  /\ asleep' = asleep \ Readers
  /\ lock' = NoOwner
  /\ pc' = [pc EXCEPT ![p] = "user"]
  /\ UNCHANGED <<pipeVars, open, killed, n, got, last, eof>>

\* piperead() finds the pipe empty and writers left.
ReadEmpty(p) ==
  /\ pc[p] = "read" /\ Empty /\ writeopen
  /\ \/ /\ p \in killed
        /\ lock' = NoOwner
        /\ pc' = [pc EXCEPT ![p] = "user"]
        /\ n' = [n EXCEPT ![p] = 0]
     \/ /\ p \notin killed
        /\ pc' = [pc EXCEPT ![p] = "read_sleep"]
        /\ UNCHANGED <<lock, n>>
  /\ UNCHANGED <<pipeVars, open, killed, asleep, got, last, eof>>

\* piperead() leaves its waiting loop.
ReadReady(p) ==
  /\ pc[p] = "read" /\ ~(Empty /\ writeopen)
  /\ pc' = [pc EXCEPT ![p] = "copy"]
  /\ UNCHANGED <<pipeVars, lock, open, killed, asleep, n, got, last, eof>>

\* Variant of ReadByte that reads the byte after the next.
ReadByteAhead(p) ==
  /\ pc[p] = "copy" /\ n[p] > 0 /\ ~Empty
  /\ last' = [last EXCEPT ![p] = data[(nread + 1) % PIPESIZE]]
  /\ nread' = (nread + 1) % UINT
  /\ n' = [n EXCEPT ![p] = @ - 1]
  /\ got' = [got EXCEPT ![p] = @ + 1]
  /\ UNCHANGED <<data, nwrite, readopen, writeopen, lock, freed, open, killed,
                 asleep, pc, eof>>

\* piperead() takes one byte.
ReadByte(p) ==
  /\ pc[p] = "copy" /\ n[p] > 0 /\ ~Empty
  /\ last' = [last EXCEPT ![p] = data[nread % PIPESIZE]]
  /\ nread' = (nread + 1) % UINT
  /\ n' = [n EXCEPT ![p] = @ - 1]
  /\ got' = [got EXCEPT ![p] = @ + 1]
  /\ UNCHANGED <<data, nwrite, readopen, writeopen, lock, freed, open, killed,
                 asleep, pc, eof>>

\* piperead() returns the number of bytes it took.
ReadDone(p) ==
  /\ pc[p] = "copy" /\ (n[p] = 0 \/ Empty)
  /\ asleep' = asleep \ Writers
  /\ lock' = NoOwner
  /\ pc' = [pc EXCEPT ![p] = "user"]
  /\ n' = [n EXCEPT ![p] = 0]
  /\ eof' = IF got[p] = 0 /\ n[p] > 0 THEN eof \cup {p} ELSE eof
  /\ got' = [got EXCEPT ![p] = 0]
  /\ UNCHANGED <<pipeVars, open, killed, last>>

\* sleep(chan, &p->lock): asleep and without the lock in one step.
Sleep(p) ==
  /\ pc[p] \in {"write_sleep", "read_sleep"}
  /\ asleep' = asleep \cup {p}
  /\ lock' = NoOwner
  /\ pc' = [pc EXCEPT ![p] = IF p \in Writers THEN "write_wake" ELSE "read_wake"]
  /\ UNCHANGED <<pipeVars, open, killed, n, got, last, eof>>

\* sleep() returns with the lock.
Resume(p) ==
  /\ pc[p] \in {"write_wake", "read_wake"} /\ p \notin asleep
  /\ lock = NoOwner
  /\ lock' = p
  /\ pc' = [pc EXCEPT ![p] = IF p \in Writers THEN "write" ELSE "read"]
  /\ UNCHANGED <<pipeVars, open, killed, asleep, n, got, last, eof>>

-----------------------------------------------------------------------------
\* Variant of FileClose that ignores the other references.
FileCloseAlways(p) ==
  /\ pc[p] = "user" /\ p \in open
  /\ open' = open \ {p}
  /\ pc' = [pc EXCEPT ![p] = "close"]
  /\ UNCHANGED <<pipeVars, lock, killed, asleep, n, got, last, eof>>

\* fileclose(): the reference is dropped under ftable.lock; the process that
\* drops the last one goes on to pipeclose.
FileClose(p) ==
  /\ pc[p] = "user" /\ p \in open
  /\ open' = open \ {p}
  /\ LET side == IF p \in Writers THEN Writers ELSE Readers
     IN pc' = IF open' \cap side = {} THEN [pc EXCEPT ![p] = "close"] ELSE pc
  /\ UNCHANGED <<pipeVars, lock, killed, asleep, n, got, last, eof>>

\* Variant of PipeClose that wakes nobody.
PipeCloseSilent(p) ==
  /\ pc[p] = "close" /\ lock = NoOwner
  /\ writeopen' = (writeopen /\ p \notin Writers)
  /\ readopen' = (readopen /\ p \notin Readers)
  /\ freed' = (~readopen' /\ ~writeopen')
  /\ pc' = [pc EXCEPT ![p] = "user"]
  /\ UNCHANGED <<data, nread, nwrite, lock, open, killed, asleep, n, got, last, eof>>

\* pipeclose()
PipeClose(p) ==
  /\ pc[p] = "close" /\ lock = NoOwner
  /\ writeopen' = (writeopen /\ p \notin Writers)
  /\ readopen' = (readopen /\ p \notin Readers)
  /\ asleep' = asleep \ (IF p \in Writers THEN Readers ELSE Writers)
  /\ freed' = (~readopen' /\ ~writeopen')
  /\ pc' = [pc EXCEPT ![p] = "user"]
  /\ UNCHANGED <<data, nread, nwrite, lock, open, killed, n, got, last, eof>>

\* kill() of p by some other process.
Kill(p) ==
  /\ p \in Killable
  /\ killed' = killed \cup {p}
  /\ asleep' = asleep \ {p}
  /\ UNCHANGED <<pipeVars, lock, open, pc, n, got, last, eof>>

\* The steps of a call in progress.
InCall(p) ==
  \/ \E v \in Bytes : WriteByte(p, v)
  \/ WriteFail(p) \/ WriteFull(p) \/ WriteDone(p)
  \/ ReadEmpty(p) \/ ReadReady(p) \/ ReadByte(p) \/ ReadDone(p)
  \/ Sleep(p) \/ Resume(p) \/ PipeClose(p)

Next ==
  \E p \in Procs :
    \/ \E len \in Lens : Call(p, len)
    \/ InCall(p)
    \/ FileClose(p)
    \/ Kill(p)

Spec == Init /\ [][Next]_vars

\* A process that can run does run.
FairSpec == Spec /\ \A p \in Procs : SF_vars(InCall(p))

-----------------------------------------------------------------------------
\* Number of bytes in the pipe.
Count == (nwrite - nread) % UINT

\* A reader sleeps only while there is nothing to read and a writer may still
\* write, a writer only while the pipe is full and a reader may still read, or
\* while the owner of the lock has yet to wake it.  A writer that has filled
\* the pipe and finds itself killed returns without waking the readers: only
\* once a writer has been killed may a reader sleep beside bytes.
SleepsForReason ==
  /\ \A p \in asleep \cap Readers :
       \/ Empty /\ writeopen
       \/ \E q \in Writers : lock = q /\ pc[q] = "write"
       \/ ~Empty /\ writeopen /\ Writers \cap killed # {}
  /\ \A p \in asleep \cap Writers :
       \/ Full /\ readopen
       \/ \E q \in Readers : lock = q /\ pc[q] = "copy"

\* The page of the pipe is freed only after the last process has left it.
NoUseAfterFree ==
  freed => \A p \in Procs : pc[p] = "user" /\ p \notin open

\* The pipe implements a bounded queue: no byte is lost, repeated or
\* reordered, and end of file is reported only when there will be no more.
Queue == [i \in 1..Count |-> data[(nread + i - 1) % PIPESIZE]]
Q == INSTANCE Fifo WITH Capacity <- PIPESIZE, queue <- Queue,
                        writers <- writeopen
DeliversInOrder == Q!Spec

\* Once pipeclose has closed the other end, a read or write in progress
\* returns: nobody sleeps on in sleep(&p->nread) or sleep(&p->nwrite).
ClosedEndReturns ==
  /\ \A p \in Writers : pc[p] # "user" /\ ~readopen ~> pc[p] = "user"
  /\ \A p \in Readers : pc[p] # "user" /\ ~writeopen ~> pc[p] = "user"
=============================================================================
