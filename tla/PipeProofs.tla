----------------------------- MODULE PipeProofs -----------------------------
(***************************************************************************)
(* Proofs about Pipe, for every number of readers and writers, every set of *)
(* processes that may be killed, every size of the pipe and every length of *)
(* read and write.                                                          *)
(***************************************************************************)
EXTENDS Pipe, NatLemmas

Pcs == {"user", "write", "write_sleep", "write_wake", "read", "copy",
        "read_sleep", "read_wake", "close"}

\* Where a process is when it owns pipe->lock.
Owning == {"write", "write_sleep", "read", "copy", "read_sleep"}

TypeOK ==
  /\ data \in [0..PIPESIZE - 1 -> Bytes]
  /\ nread \in 0..UINT - 1 /\ nwrite \in 0..UINT - 1
  /\ readopen \in BOOLEAN /\ writeopen \in BOOLEAN /\ freed \in BOOLEAN
  /\ lock \in Procs \cup {NoOwner}
  /\ open \subseteq Procs /\ killed \subseteq Procs /\ asleep \subseteq Procs
  /\ pc \in [Procs -> Pcs]
  /\ n \in [Procs -> Nat] /\ got \in [Procs -> Nat]
  /\ last \in [Procs -> Bytes \cup {NoByte}]
  /\ eof \subseteq Procs

\* One process owns the lock; each end is used by its own processes; only a
\* process inside sleep() is asleep.
LockInv ==
  \A p \in Procs :
    /\ lock = p <=> pc[p] \in Owning
    /\ pc[p] \in {"write", "write_sleep", "write_wake"} => p \in Writers
    /\ pc[p] \in {"read", "copy", "read_sleep", "read_wake"} => p \in Readers
    /\ p \in asleep => pc[p] \in {"write_wake", "read_wake"}

\* One end of the pipe: S are the processes it belongs to, up says that
\* pipeclose has not closed it.  The one process on its way to pipeclose has
\* dropped the last reference, and behind a closed end nobody is left.
EndInv(S, up) ==
  /\ \A p \in S : pc[p] = "close" =>
       /\ up
       /\ open \cap S = {}
       /\ \A q \in S : pc[q] = "close" => q = p
  /\ ~up => \A p \in S : pc[p] = "user" /\ p \notin open

EndsInv ==
  /\ \A p \in Procs : pc[p] \notin {"user", "close"} => p \in open
  /\ EndInv(Writers, writeopen)
  /\ EndInv(Readers, readopen)
  /\ freed <=> ~readopen /\ ~writeopen

\* Between the test of its loop and sleep() a process keeps the lock, so what
\* it tested still holds; and a read that has taken nothing yet found bytes or
\* the end of the file.
WaitInv ==
  \A p \in Procs :
    /\ pc[p] = "write_sleep" => Full /\ readopen
    /\ pc[p] = "read_sleep" => Empty /\ writeopen
    /\ pc[p] = "copy" /\ got[p] = 0 => ~(Empty /\ writeopen)

\* The inductive invariant.
IInv ==
  /\ TypeOK
  /\ LockInv
  /\ EndsInv
  /\ WaitInv
  /\ SleepsForReason

-----------------------------------------------------------------------------
\* The values of the constants that the arithmetic below needs.
LEMMA Bounds ==
  ASSUME TypeOK
  PROVE  /\ UINT \in Nat \ {0} /\ PIPESIZE \in Nat \ {0} /\ PIPESIZE < UINT
         /\ nread \in 0..UINT - 1 /\ nwrite \in 0..UINT - 1
BY PipeAssumption DEF TypeOK

\* The number of bytes between two counters, wherever they have wrapped.
LEMMA Distance ==
  ASSUME NEW i \in 0..UINT - 1, NEW j \in 0..UINT - 1
  PROVE  (j - i) % UINT = IF j >= i THEN j - i ELSE j - i + UINT
<1>1. UINT \in Nat \ {0}
  BY PipeAssumption
<1>2. CASE j >= i
  <2>1. j - i \in 0..UINT - 1
    BY <1>1, <1>2
  <2> QED
    BY <1>1, <1>2, <2>1, ModBelow
<1>3. CASE j < i
  <2>1. j - i \in Int /\ (j - i) + UINT \in 0..UINT - 1
    BY <1>1, <1>3
  <2>2. (j - i) % UINT = (j - i) + UINT
    BY <1>1, <2>1, ModUnder
  <2> QED
    BY <1>3, <2>2
<1> QED
  BY <1>2, <1>3

\* Count, without the remainder.
LEMMA CountIs ==
  ASSUME TypeOK
  PROVE  Count = IF nwrite >= nread THEN nwrite - nread
                 ELSE nwrite - nread + UINT
BY Distance, Bounds DEF Count

\* The tests of pipewrite and piperead are tests of the number of bytes.
LEMMA TestsCount ==
  ASSUME TypeOK
  PROVE  /\ Empty <=> Count = 0
         /\ Full <=> Count = PIPESIZE
<1>1. Empty <=> Count = 0
  BY Bounds, CountIs DEF Empty
<1>2. CASE nread + PIPESIZE < UINT
  <2>1. nread + PIPESIZE \in 0..UINT - 1
    BY <1>2, Bounds
  <2>2. (nread + PIPESIZE) % UINT = nread + PIPESIZE
    BY <2>1, Bounds, ModBelow
  <2> QED
    BY <1>1, <1>2, <2>2, CountIs, Bounds DEF Full
<1>3. CASE nread + PIPESIZE >= UINT
  <2>1. nread + PIPESIZE \in Int /\ (nread + PIPESIZE) - UINT \in 0..UINT - 1
    BY <1>3, Bounds
  <2>2. (nread + PIPESIZE) % UINT = nread + PIPESIZE - UINT
    BY <2>1, Bounds, ModOver
  <2> QED
    BY <1>1, <1>3, <2>2, CountIs, Bounds DEF Full
<1> QED
  BY <1>2, <1>3, Bounds

\* A full pipe is not empty, for any position of nread.
LEMMA FullNotEmpty ==
  ASSUME TypeOK, Full
  PROVE  ~Empty
BY TestsCount, Bounds

\* pipealloc() establishes the invariant.
LEMMA InitInv == Init => IInv
<1> SUFFICES ASSUME Init PROVE IInv
  OBVIOUS
<1>1. TypeOK
  <2>1. 0 \in 0..UINT - 1
    BY PipeAssumption
  <2>2. data \in [0..PIPESIZE - 1 -> Bytes]
    BY DEF Init
  <2>3. pc \in [Procs -> Pcs]
    BY DEF Init, Pcs
  <2> QED
    BY <2>1, <2>2, <2>3, Zenon DEF Init, TypeOK
<1>2. LockInv
  BY PipeAssumption DEF Init, LockInv, Owning
<1>3. EndsInv
  BY DEF Init, EndsInv, EndInv, Procs
<1>4. WaitInv /\ SleepsForReason
  BY DEF Init, WaitInv, SleepsForReason
<1> QED
  BY <1>1, <1>2, <1>3, <1>4 DEF IInv

-----------------------------------------------------------------------------
\* A call enters pipewrite() or piperead() and takes the lock.
LEMMA CallInv ==
  ASSUME IInv, NEW p \in Procs, NEW len \in Lens, Call(p, len)
  PROVE  IInv'
<1> USE DEF IInv
<1>1. TypeOK'
  BY PipeAssumption DEF Call, TypeOK, pipeVars, Pcs
<1>2. LockInv'
  BY PipeAssumption DEF Call, LockInv, TypeOK, pipeVars, Owning, Procs
<1>3. EndsInv'
  BY PipeAssumption DEF Call, LockInv, EndsInv, EndInv, TypeOK, pipeVars, Procs
<1>4. WaitInv'
  BY PipeAssumption
     DEF Call, WaitInv, LockInv, TypeOK, pipeVars, Owning, Empty, Full
<1>5. SleepsForReason'
  BY PipeAssumption, FullNotEmpty
     DEF Call, SleepsForReason, LockInv, EndsInv, EndInv, WaitInv, TypeOK,
         pipeVars, Owning, Empty, Full, Procs
<1> QED
  BY <1>1, <1>2, <1>3, <1>4, <1>5

\* pipewrite() stores a byte: there is one more to read, under the lock.
LEMMA WriteByteInv ==
  ASSUME IInv, NEW p \in Procs, NEW v \in Bytes, WriteByte(p, v)
  PROVE  IInv'
<1> USE DEF IInv
<1>1. TypeOK'
  BY PipeAssumption DEF WriteByte, TypeOK, pipeVars, Pcs
<1>2. LockInv'
  BY PipeAssumption DEF WriteByte, LockInv, TypeOK, pipeVars, Owning
<1>3. EndsInv'
  BY PipeAssumption
     DEF WriteByte, LockInv, EndsInv, EndInv, TypeOK, pipeVars, Procs
<1>4. WaitInv'
  BY PipeAssumption
     DEF WriteByte, WaitInv, LockInv, TypeOK, pipeVars, Owning, Empty, Full
<1>5. SleepsForReason'
  BY PipeAssumption, FullNotEmpty
     DEF WriteByte, SleepsForReason, LockInv, EndsInv, EndInv, WaitInv, TypeOK,
         pipeVars, Owning, Empty, Full, Procs
<1> QED
  BY <1>1, <1>2, <1>3, <1>4, <1>5

\* pipewrite() gives up, with the pipe full.
LEMMA WriteFailInv ==
  ASSUME IInv, NEW p \in Procs, WriteFail(p)
  PROVE  IInv'
<1> USE DEF IInv
<1>1. TypeOK'
  BY PipeAssumption DEF WriteFail, TypeOK, pipeVars, Pcs
<1>2. LockInv'
  BY PipeAssumption DEF WriteFail, LockInv, TypeOK, pipeVars, Owning
<1>3. EndsInv'
  BY PipeAssumption
     DEF WriteFail, LockInv, EndsInv, EndInv, TypeOK, pipeVars, Procs
<1>4. WaitInv'
  BY PipeAssumption
     DEF WriteFail, WaitInv, LockInv, TypeOK, pipeVars, Owning, Empty, Full
<1>5. SleepsForReason'
  BY PipeAssumption, FullNotEmpty
     DEF WriteFail, SleepsForReason, LockInv, EndsInv, EndInv, WaitInv, TypeOK,
         pipeVars, Owning, Empty, Full, Procs
<1> QED
  BY <1>1, <1>2, <1>3, <1>4, <1>5

\* pipewrite() has woken the readers when it is about to sleep.
LEMMA WriteFullInv ==
  ASSUME IInv, NEW p \in Procs, WriteFull(p)
  PROVE  IInv'
<1> USE DEF IInv
<1>1. TypeOK'
  BY PipeAssumption DEF WriteFull, TypeOK, pipeVars, Pcs
<1>2. LockInv'
  BY PipeAssumption DEF WriteFull, LockInv, TypeOK, pipeVars, Owning
<1>3. EndsInv'
  BY PipeAssumption
     DEF WriteFull, LockInv, EndsInv, EndInv, TypeOK, pipeVars, Procs
<1>4. WaitInv'
  BY PipeAssumption
     DEF WriteFull, WaitInv, LockInv, TypeOK, pipeVars, Owning, Empty, Full
<1>5. SleepsForReason'
  BY PipeAssumption, FullNotEmpty
     DEF WriteFull, SleepsForReason, LockInv, EndsInv, EndInv, WaitInv, TypeOK,
         pipeVars, Owning, Empty, Full, Procs
<1> QED
  BY <1>1, <1>2, <1>3, <1>4, <1>5

\* pipewrite() has woken the readers when it releases the lock.
LEMMA WriteDoneInv ==
  ASSUME IInv, NEW p \in Procs, WriteDone(p)
  PROVE  IInv'
<1> USE DEF IInv
<1>1. TypeOK'
  BY PipeAssumption DEF WriteDone, TypeOK, pipeVars, Pcs
<1>2. LockInv'
  BY PipeAssumption DEF WriteDone, LockInv, TypeOK, pipeVars, Owning
<1>3. EndsInv'
  BY PipeAssumption
     DEF WriteDone, LockInv, EndsInv, EndInv, TypeOK, pipeVars, Procs
<1>4. WaitInv'
  BY PipeAssumption
     DEF WriteDone, WaitInv, LockInv, TypeOK, pipeVars, Owning, Empty, Full
<1>5. SleepsForReason'
  BY PipeAssumption, FullNotEmpty
     DEF WriteDone, SleepsForReason, LockInv, EndsInv, EndInv, WaitInv, TypeOK,
         pipeVars, Owning, Empty, Full, Procs
<1> QED
  BY <1>1, <1>2, <1>3, <1>4, <1>5

\* piperead() is about to sleep, or leaves because it is killed.
LEMMA ReadEmptyInv ==
  ASSUME IInv, NEW p \in Procs, ReadEmpty(p)
  PROVE  IInv'
<1> USE DEF IInv
<1>1. /\ pc[p] = "read" /\ Empty /\ writeopen
      /\ UNCHANGED <<pipeVars, open, killed, asleep, got, last, eof>>
  BY DEF ReadEmpty
<1>2. \/ /\ lock' = NoOwner
         /\ pc' = [pc EXCEPT ![p] = "user"]
         /\ n' = [n EXCEPT ![p] = 0]
      \/ /\ pc' = [pc EXCEPT ![p] = "read_sleep"]
         /\ UNCHANGED <<lock, n>>
  BY DEF ReadEmpty
<1>3. TypeOK'
  <2>1. pc' \in [Procs -> Pcs]
    BY <1>2 DEF TypeOK, Pcs
  <2>2. lock' \in Procs \cup {NoOwner}
    BY <1>2 DEF TypeOK
  <2>3. n' \in [Procs -> Nat]
    <3>1. n \in [Procs -> Nat] /\ 0 \in Nat
      BY DEF TypeOK
    <3> QED
      BY <1>2, <3>1, Zenon
  <2> QED
    BY <1>1, <2>1, <2>2, <2>3 DEF TypeOK, pipeVars
<1>4. LockInv'
  BY <1>1, <1>2, PipeAssumption DEF LockInv, TypeOK, pipeVars, Owning
<1>5. EndsInv'
  BY <1>1, <1>2, Zenon DEF EndsInv, EndInv, TypeOK, pipeVars, Procs
<1>6. WaitInv'
  BY <1>1, <1>2 DEF WaitInv, LockInv, TypeOK, pipeVars, Owning, Empty, Full
<1>7. SleepsForReason'
  BY <1>1, <1>2
     DEF SleepsForReason, LockInv, TypeOK, pipeVars, Owning, Empty, Full, Procs
<1> QED
  BY <1>3, <1>4, <1>5, <1>6, <1>7

\* piperead() leaves its waiting loop.
LEMMA ReadReadyInv ==
  ASSUME IInv, NEW p \in Procs, ReadReady(p)
  PROVE  IInv'
<1> USE DEF IInv
<1>1. TypeOK'
  BY PipeAssumption DEF ReadReady, TypeOK, pipeVars, Pcs
<1>2. LockInv'
  BY PipeAssumption DEF ReadReady, LockInv, TypeOK, pipeVars, Owning
<1>3. EndsInv'
  BY PipeAssumption
     DEF ReadReady, LockInv, EndsInv, EndInv, TypeOK, pipeVars, Procs
<1>4. WaitInv'
  BY PipeAssumption
     DEF ReadReady, WaitInv, LockInv, TypeOK, pipeVars, Owning, Empty, Full
<1>5. SleepsForReason'
  BY PipeAssumption, FullNotEmpty
     DEF ReadReady, SleepsForReason, LockInv, EndsInv, EndInv, WaitInv, TypeOK,
         pipeVars, Owning, Empty, Full, Procs
<1> QED
  BY <1>1, <1>2, <1>3, <1>4, <1>5

\* piperead() takes a byte: there is room, and it owes the wakeup.
LEMMA ReadByteInv ==
  ASSUME IInv, NEW p \in Procs, ReadByte(p)
  PROVE  IInv'
<1> USE DEF IInv
<1>1. TypeOK'
  BY PipeAssumption DEF ReadByte, TypeOK, pipeVars, Pcs
<1>2. LockInv'
  BY PipeAssumption DEF ReadByte, LockInv, TypeOK, pipeVars, Owning
<1>3. EndsInv'
  BY PipeAssumption
     DEF ReadByte, LockInv, EndsInv, EndInv, TypeOK, pipeVars, Procs
<1>4. WaitInv'
  BY PipeAssumption
     DEF ReadByte, WaitInv, LockInv, TypeOK, pipeVars, Owning, Empty, Full
<1>5. SleepsForReason'
  BY PipeAssumption, FullNotEmpty
     DEF ReadByte, SleepsForReason, LockInv, EndsInv, EndInv, WaitInv, TypeOK,
         pipeVars, Owning, Empty, Full, Procs
<1> QED
  BY <1>1, <1>2, <1>3, <1>4, <1>5

\* piperead() has woken the writers when it releases the lock.
LEMMA ReadDoneInv ==
  ASSUME IInv, NEW p \in Procs, ReadDone(p)
  PROVE  IInv'
<1> USE DEF IInv
<1>1. TypeOK'
  BY PipeAssumption DEF ReadDone, TypeOK, pipeVars, Pcs
<1>2. LockInv'
  BY PipeAssumption DEF ReadDone, LockInv, TypeOK, pipeVars, Owning
<1>3. EndsInv'
  BY PipeAssumption
     DEF ReadDone, LockInv, EndsInv, EndInv, TypeOK, pipeVars, Procs
<1>4. WaitInv'
  BY PipeAssumption
     DEF ReadDone, WaitInv, LockInv, TypeOK, pipeVars, Owning, Empty, Full
<1>5. SleepsForReason'
  BY PipeAssumption, FullNotEmpty
     DEF ReadDone, SleepsForReason, LockInv, EndsInv, EndInv, WaitInv, TypeOK,
         pipeVars, Owning, Empty, Full, Procs
<1> QED
  BY <1>1, <1>2, <1>3, <1>4, <1>5

\* sleep() gives the lock up with its reason still true.
LEMMA SleepInv ==
  ASSUME IInv, NEW p \in Procs, Sleep(p)
  PROVE  IInv'
<1> USE DEF IInv
<1>1. TypeOK'
  BY PipeAssumption DEF Sleep, TypeOK, pipeVars, Pcs
<1>2. LockInv'
  BY PipeAssumption DEF Sleep, LockInv, TypeOK, pipeVars, Owning
<1>3. EndsInv'
  BY PipeAssumption
     DEF Sleep, LockInv, EndsInv, EndInv, TypeOK, pipeVars, Procs
<1>4. WaitInv'
  BY PipeAssumption
     DEF Sleep, WaitInv, LockInv, TypeOK, pipeVars, Owning, Empty, Full
<1>5. SleepsForReason'
  BY PipeAssumption, FullNotEmpty
     DEF Sleep, SleepsForReason, LockInv, EndsInv, EndInv, WaitInv, TypeOK,
         pipeVars, Owning, Empty, Full, Procs
<1> QED
  BY <1>1, <1>2, <1>3, <1>4, <1>5

\* sleep() returns with the lock.
LEMMA ResumeInv ==
  ASSUME IInv, NEW p \in Procs, Resume(p)
  PROVE  IInv'
<1> USE DEF IInv
<1>1. TypeOK'
  BY PipeAssumption DEF Resume, TypeOK, pipeVars, Pcs
<1>2. LockInv'
  BY PipeAssumption DEF Resume, LockInv, TypeOK, pipeVars, Owning
<1>3. EndsInv'
  BY PipeAssumption
     DEF Resume, LockInv, EndsInv, EndInv, TypeOK, pipeVars, Procs
<1>4. WaitInv'
  BY PipeAssumption
     DEF Resume, WaitInv, LockInv, TypeOK, pipeVars, Owning, Empty, Full
<1>5. SleepsForReason'
  BY PipeAssumption, FullNotEmpty
     DEF Resume, SleepsForReason, LockInv, EndsInv, EndInv, WaitInv, TypeOK,
         pipeVars, Owning, Empty, Full, Procs
<1> QED
  BY <1>1, <1>2, <1>3, <1>4, <1>5

\* fileclose() counts the references of an end.
LEMMA FileCloseInv ==
  ASSUME IInv, NEW p \in Procs, FileClose(p)
  PROVE  IInv'
<1> USE DEF IInv
<1>1. TypeOK'
  BY PipeAssumption DEF FileClose, TypeOK, pipeVars, Pcs
<1>2. LockInv'
  BY PipeAssumption DEF FileClose, LockInv, TypeOK, pipeVars, Owning
<1>3. EndsInv'
  BY PipeAssumption
     DEF FileClose, LockInv, EndsInv, EndInv, TypeOK, pipeVars, Procs
<1>4. WaitInv'
  BY PipeAssumption
     DEF FileClose, WaitInv, LockInv, TypeOK, pipeVars, Owning, Empty, Full
<1>5. SleepsForReason'
  BY PipeAssumption, FullNotEmpty
     DEF FileClose, SleepsForReason, LockInv, EndsInv, EndInv, WaitInv, TypeOK,
         pipeVars, Owning, Empty, Full, Procs
<1> QED
  BY <1>1, <1>2, <1>3, <1>4, <1>5

\* pipeclose() wakes whoever waits for the end that it closes.
LEMMA PipeCloseInv ==
  ASSUME IInv, NEW p \in Procs, PipeClose(p)
  PROVE  IInv'
<1> USE DEF IInv
<1>1. TypeOK'
  BY PipeAssumption DEF PipeClose, TypeOK, pipeVars, Pcs
<1>2. LockInv'
  BY PipeAssumption DEF PipeClose, LockInv, TypeOK, pipeVars, Owning
<1>3. EndsInv'
  BY PipeAssumption
     DEF PipeClose, LockInv, EndsInv, EndInv, TypeOK, pipeVars, Procs
<1>4. WaitInv'
  BY PipeAssumption
     DEF PipeClose, WaitInv, LockInv, TypeOK, pipeVars, Owning, Empty, Full
<1>5. SleepsForReason'
  BY PipeAssumption, FullNotEmpty
     DEF PipeClose, SleepsForReason, LockInv, EndsInv, EndInv, WaitInv, TypeOK,
         pipeVars, Owning, Empty, Full, Procs
<1> QED
  BY <1>1, <1>2, <1>3, <1>4, <1>5

\* kill() wakes its process.
LEMMA KillInv ==
  ASSUME IInv, NEW p \in Procs, Kill(p)
  PROVE  IInv'
<1> USE DEF IInv
<1>1. TypeOK'
  BY PipeAssumption DEF Kill, TypeOK, pipeVars, Pcs
<1>2. LockInv'
  BY PipeAssumption DEF Kill, LockInv, TypeOK, pipeVars, Owning
<1>3. EndsInv'
  BY PipeAssumption DEF Kill, LockInv, EndsInv, EndInv, TypeOK, pipeVars, Procs
<1>4. WaitInv'
  BY PipeAssumption
     DEF Kill, WaitInv, LockInv, TypeOK, pipeVars, Owning, Empty, Full
<1>5. SleepsForReason'
  BY PipeAssumption, FullNotEmpty
     DEF Kill, SleepsForReason, LockInv, EndsInv, EndInv, WaitInv, TypeOK,
         pipeVars, Owning, Empty, Full, Procs
<1> QED
  BY <1>1, <1>2, <1>3, <1>4, <1>5

-----------------------------------------------------------------------------
\* Every step keeps the invariant.
LEMMA NextInv == IInv /\ [Next]_vars => IInv'
<1> SUFFICES ASSUME IInv, [Next]_vars PROVE IInv'
  OBVIOUS
<1>1. CASE UNCHANGED vars
  BY <1>1
     DEF vars, IInv, TypeOK, LockInv, EndsInv, EndInv, WaitInv,
         SleepsForReason, Empty, Full
<1>2. ASSUME NEW p \in Procs, NEW len \in Lens, Call(p, len)
      PROVE  IInv'
  BY <1>2, CallInv
<1>3. ASSUME NEW p \in Procs, InCall(p)
      PROVE  IInv'
  BY <1>3, WriteByteInv, WriteFailInv, WriteFullInv, WriteDoneInv,
     ReadEmptyInv, ReadReadyInv, ReadByteInv, ReadDoneInv, SleepInv, ResumeInv,
     PipeCloseInv
     DEF InCall
<1>4. ASSUME NEW p \in Procs, FileClose(p) \/ Kill(p)
      PROVE  IInv'
  BY <1>4, FileCloseInv, KillInv
<1> QED
  BY <1>1, <1>2, <1>3, <1>4 DEF Next

\* The inductive invariant holds in every reachable state.
LEMMA Invariance == Spec => []IInv
BY InitInv, NextInv, PTL DEF Spec

\* A reader or writer sleeps only for a reason that is still there, whatever
\* the lengths and however the steps of pipewrite, piperead, pipeclose and
\* kill interleave.
THEOREM NoLostWakeup == Spec => []SleepsForReason
<1>1. IInv => SleepsForReason
  BY DEF IInv
<1> QED
  BY <1>1, Invariance, PTL

\* pipeclose frees the page of the pipe only when no process can use it again.
THEOREM FreedUnused == Spec => []NoUseAfterFree
<1>1. IInv => NoUseAfterFree
  BY DEF IInv, EndsInv, EndInv, NoUseAfterFree, Procs
<1> QED
  BY <1>1, Invariance, PTL

-----------------------------------------------------------------------------
\* pipewrite's step of nwrite adds one byte.
LEMMA CountUp ==
  ASSUME TypeOK, TypeOK', nwrite' = (nwrite + 1) % UINT, nread' = nread,
         Count < UINT - 1
  PROVE  Count' = Count + 1
<1>1. /\ nwrite < UINT - 1 => nwrite' = nwrite + 1
      /\ nwrite = UINT - 1 => nwrite' = 0
  BY Bounds, ModNext
<1>2. Count' = IF nwrite' >= nread' THEN nwrite' - nread'
               ELSE nwrite' - nread' + UINT
  BY Distance, Zenon DEF Count, TypeOK
<1> QED
  BY <1>1, <1>2, CountIs, Bounds

\* piperead's step of nread takes one byte.
LEMMA CountDown ==
  ASSUME TypeOK, TypeOK', nread' = (nread + 1) % UINT, nwrite' = nwrite,
         Count > 0
  PROVE  Count' = Count - 1
<1>1. /\ nread < UINT - 1 => nread' = nread + 1
      /\ nread = UINT - 1 => nread' = 0
  BY Bounds, ModNext
<1>2. Count' = IF nwrite' >= nread' THEN nwrite' - nread'
               ELSE nwrite' - nread' + UINT
  BY Distance, Zenon DEF Count, TypeOK
<1> QED
  BY <1>1, <1>2, CountIs, Bounds

-----------------------------------------------------------------------------
\* The pipe never holds more than PIPESIZE bytes.
RoomInv == Count <= PIPESIZE

\* The invariant of the refinement.
RInv == IInv /\ RoomInv

\* The contents of the pipe are a window of its ring buffer.
LEMMA QueueIs ==
  /\ Queue = Window(data, PIPESIZE, nread, Count)
  /\ Queue' = Window(data', PIPESIZE, nread', Count')
BY DEF Queue, Window

\* The count is a number, so the queue is a sequence of that length.
LEMMA QueueLen ==
  ASSUME TypeOK
  PROVE  /\ IsRing(data, PIPESIZE, Bytes)
         /\ Count \in Nat /\ nread \in Nat
         /\ Queue \in Seq(Bytes) /\ Len(Queue) = Count
<1>1. Count \in Nat /\ nread \in Nat
  BY CountIs, Bounds
<1>2. IsRing(data, PIPESIZE, Bytes)
  BY Bounds DEF TypeOK, IsRing
<1> QED
  BY <1>1, <1>2, QueueIs, WindowSeq

\* pipewrite's byte goes to the end of the queue, and there is room for it.
LEMMA WriteByteQueue ==
  ASSUME RInv, TypeOK', NEW p \in Procs, NEW v \in Bytes, WriteByte(p, v)
  PROVE  /\ Count < PIPESIZE /\ Count' = Count + 1
         /\ Queue' = Append(Queue, v)
<1>1. TypeOK /\ Count <= PIPESIZE
  BY DEF RInv, IInv, RoomInv
<1>2. Count \in Nat /\ Count < PIPESIZE
  BY <1>1, QueueLen, TestsCount, Bounds DEF WriteByte
<1>3. nwrite' = (nwrite + 1) % UINT /\ nread' = nread
  BY DEF WriteByte
<1>4. Count' = Count + 1
  BY <1>1, <1>2, <1>3, Bounds, CountUp
<1>5. nwrite % PIPESIZE = (nread + Count) % PIPESIZE
  <2>1. nwrite = (nread + Count) % UINT
    <3>1. CASE nwrite >= nread
      <4>1. nread + Count = nwrite
        BY <1>1, <3>1, CountIs, Bounds
      <4> QED
        BY <1>1, <4>1, Bounds, ModBelow
    <3>2. CASE nwrite < nread
      <4>1. nread + Count \in Int /\ (nread + Count) - UINT = nwrite
        BY <1>1, <3>2, CountIs, Bounds
      <4> QED
        BY <1>1, <4>1, Bounds, ModOver
    <3> QED
      BY <1>1, <3>1, <3>2, Bounds
  <2>2. nread + Count \in Int
    BY <1>1, <1>2, Bounds
  <2> QED
    BY <1>1, <2>1, <2>2, Bounds, ModMod, PipeAssumption
<1>6. data' = [data EXCEPT ![(nread + Count) % PIPESIZE] = v]
  BY <1>5, Zenon DEF WriteByte
<1>7. Window(data', PIPESIZE, nread, Count + 1)
        = Append(Window(data, PIPESIZE, nread, Count), v)
  <2>1. IsRing(data, PIPESIZE, Bytes) /\ nread \in Nat
    BY <1>1, QueueLen
  <2>2. data' = Stored(data, (nread + Count) % PIPESIZE, v)
    BY <1>6 DEF Stored
  <2>3. CanStore(Bytes, PIPESIZE, data, v, nread, Count)
    BY <1>2, <2>1 DEF CanStore
  <2> QED
    BY <2>2, <2>3, WindowAppend
<1> QED
  BY <1>2, <1>3, <1>4, <1>7, QueueIs

\* piperead's byte is the first of the queue.
LEMMA ReadByteQueue ==
  ASSUME RInv, TypeOK', NEW p \in Procs, ReadByte(p)
  PROVE  /\ Count > 0 /\ Count' = Count - 1
         /\ Queue # <<>>
         /\ data[nread % PIPESIZE] = Head(Queue)
         /\ Queue' = Tail(Queue)
<1>1. TypeOK
  BY DEF RInv, IInv
<1>2. Count > 0 /\ Count \in Nat
  BY <1>1, QueueLen, TestsCount DEF ReadByte
<1>3. nread' = (nread + 1) % UINT /\ nwrite' = nwrite /\ data' = data
  BY DEF ReadByte
<1>4. Count' = Count - 1
  BY <1>1, <1>2, <1>3, CountDown
<1>5. Queue # <<>> /\ Head(Queue) = data[nread % PIPESIZE]
  BY <1>1, <1>2, QueueLen, QueueIs, WindowHead
<1>6. Tail(Queue) = Window(data, PIPESIZE, nread + 1, Count - 1)
  BY <1>1, <1>2, QueueLen, QueueIs, WindowTail
<1>7. Window(data, PIPESIZE, nread', Count - 1)
        = Window(data, PIPESIZE, nread + 1, Count - 1)
  <2>1. nread + 1 \in Nat /\ Count - 1 \in Nat /\ UINT \in Nat \ {0}
        /\ UINT % PIPESIZE = 0
    BY <1>1, <1>2, QueueLen, PipeAssumption
  <2> QED
    BY <1>1, <1>3, <2>1, QueueLen, WindowWrap
<1> QED
  BY <1>2, <1>3, <1>4, <1>5, <1>6, <1>7, QueueIs

\* What a step does to the queue a reader and a writer see: most steps of the
\* code leave it alone.
LEMMA StepKinds ==
  ASSUME [Next]_vars
  PROVE  \/ UNCHANGED <<data, nread, nwrite, last, writeopen, eof>>
         \/ \E p \in Procs :
              \/ \E v \in Bytes : WriteByte(p, v)
              \/ ReadByte(p) \/ ReadDone(p) \/ PipeClose(p)
<1>1. CASE UNCHANGED vars
  BY <1>1 DEF vars
<1>2. ASSUME NEW p \in Procs, NEW len \in Lens, Call(p, len)
      PROVE  UNCHANGED <<data, nread, nwrite, last, writeopen, eof>>
  BY <1>2 DEF Call, pipeVars
<1>3. ASSUME NEW p \in Procs,
             WriteFail(p) \/ WriteFull(p) \/ WriteDone(p) \/ ReadEmpty(p)
               \/ ReadReady(p) \/ Sleep(p) \/ Resume(p)
      PROVE  UNCHANGED <<data, nread, nwrite, last, writeopen, eof>>
  BY <1>3
     DEF WriteFail, WriteFull, WriteDone, ReadEmpty, ReadReady, Sleep, Resume,
         pipeVars
<1>4. ASSUME NEW p \in Procs, FileClose(p) \/ Kill(p)
      PROVE  UNCHANGED <<data, nread, nwrite, last, writeopen, eof>>
  BY <1>4 DEF FileClose, Kill, pipeVars
<1> QED
  BY <1>1, <1>2, <1>3, <1>4 DEF Next, InCall

\* The queue is a function of the buffer and the two counters.
LEMMA QueueSame ==
  ASSUME UNCHANGED <<data, nread, nwrite>>
  PROVE  Queue' = Queue /\ Count' = Count
BY DEF Queue, Count

\* An empty pipe is the empty queue.
LEMMA QueueEmpty ==
  ASSUME TypeOK
  PROVE  Empty <=> Queue = <<>>
BY TestsCount, QueueLen

\* A new pipe is empty.
LEMMA RInit == Init => RInv /\ Queue = <<>>
<1> SUFFICES ASSUME Init PROVE RInv /\ Queue = <<>>
  OBVIOUS
<1>1. IInv /\ TypeOK
  BY InitInv DEF IInv
<1>2. Empty
  BY DEF Init, Empty
<1>3. Count = 0
  BY <1>1, <1>2, TestsCount
<1> QED
  BY <1>1, <1>2, <1>3, QueueEmpty, PipeAssumption DEF RInv, RoomInv

\* pipewrite tests that there is room before it stores.
LEMMA RNext == RInv /\ [Next]_vars => RInv'
<1> SUFFICES ASSUME RInv, [Next]_vars PROVE RInv'
  OBVIOUS
<1>1. IInv' /\ TypeOK' /\ TypeOK
  BY NextInv DEF RInv, IInv
<1>2. Count \in Nat /\ PIPESIZE \in Nat /\ Count <= PIPESIZE
  BY <1>1, QueueLen, PipeAssumption DEF RInv, RoomInv
<1>3. ASSUME UNCHANGED <<data, nread, nwrite>>
      PROVE  RInv'
  BY <1>1, <1>2, <1>3, QueueSame DEF RInv, RoomInv
<1>4. ASSUME NEW p \in Procs, NEW v \in Bytes, WriteByte(p, v)
      PROVE  RInv'
  BY <1>1, <1>2, <1>4, WriteByteQueue DEF RInv, RoomInv
<1>5. ASSUME NEW p \in Procs, ReadByte(p)
      PROVE  RInv'
  BY <1>1, <1>2, <1>5, ReadByteQueue DEF RInv, RoomInv
<1>6. ASSUME NEW p \in Procs, ReadDone(p) \/ PipeClose(p)
      PROVE  UNCHANGED <<data, nread, nwrite>>
  BY <1>6 DEF ReadDone, PipeClose, pipeVars
<1> QED
  BY <1>3, <1>4, <1>5, <1>6, StepKinds

\* Each step of the pipe is a step of the queue or leaves the queue unchanged.
LEMMA PipeStep ==
  ASSUME RInv, [Next]_vars
  PROVE  [Q!Next]_Q!vars
<1>1. TypeOK /\ TypeOK'
  BY NextInv DEF RInv, IInv
<1>2. ASSUME UNCHANGED <<data, nread, nwrite, last, writeopen, eof>>
      PROVE  UNCHANGED Q!vars
  BY <1>2, QueueSame DEF Q!vars
<1>3. ASSUME NEW p \in Procs, NEW v \in Bytes, WriteByte(p, v)
      PROVE  Q!Put(v)
  <2>1. UNCHANGED <<last, writeopen, eof>>
    BY <1>3 DEF WriteByte
  <2>2. Len(Queue) = Count
    BY <1>1, QueueLen
  <2> QED
    BY <1>1, <1>3, <2>1, <2>2, WriteByteQueue DEF Q!Put
<1>4. ASSUME NEW p \in Procs, ReadByte(p)
      PROVE  Q!Get(p)
  <2>1. /\ last' = [last EXCEPT ![p] = data[nread % PIPESIZE]]
        /\ UNCHANGED <<writeopen, eof>>
    BY <1>4 DEF ReadByte
  <2> QED
    BY <1>1, <1>4, <2>1, ReadByteQueue, Zenon DEF Q!Get
<1>5. ASSUME NEW p \in Procs, ReadDone(p)
      PROVE  Q!SeeEof(p) \/ UNCHANGED Q!vars
  <2>1. UNCHANGED <<data, nread, nwrite, last, writeopen>>
    BY <1>5 DEF ReadDone, pipeVars
  <2>2. CASE got[p] = 0 /\ n[p] > 0
    <3>1. Empty /\ ~writeopen
      <4>1. pc[p] = "copy" /\ (n[p] = 0 \/ Empty)
        BY <1>5 DEF ReadDone
      <4>2. n[p] \in Nat
        BY <1>1 DEF TypeOK
      <4> QED
        BY <2>2, <4>1, <4>2 DEF RInv, IInv, WaitInv
    <3>2. eof' = eof \cup {p}
      BY <1>5, <2>2 DEF ReadDone
    <3> QED
      BY <1>1, <2>1, <3>1, <3>2, QueueSame, QueueEmpty DEF Q!SeeEof
  <2>3. CASE ~(got[p] = 0 /\ n[p] > 0)
    <3>1. eof' = eof
      BY <1>5, <2>3 DEF ReadDone
    <3> QED
      BY <2>1, <3>1, QueueSame DEF Q!vars
  <2> QED
    BY <2>2, <2>3
<1>6. ASSUME NEW p \in Procs, PipeClose(p)
      PROVE  Q!CloseWriters \/ UNCHANGED Q!vars
  <2>1. UNCHANGED <<data, nread, nwrite, last, eof>>
    BY <1>6 DEF PipeClose
  <2>2. writeopen' = FALSE \/ writeopen' = writeopen
    BY <1>1, <1>6, Zenon DEF PipeClose, TypeOK
  <2> QED
    BY <2>1, <2>2, QueueSame DEF Q!CloseWriters, Q!vars
<1> QED
  BY <1>2, <1>3, <1>4, <1>5, <1>6, StepKinds DEF Q!Next

\* The pipe implements the bounded queue of Fifo: no byte is lost, repeated or
\* reordered, whatever the capacity, the lengths and the wraps of nread and
\* nwrite, and a read reports end of file only when nothing more will come.
THEOREM PipeIsFifo == Spec => DeliversInOrder
<1>1. Spec => []RInv
  BY RInit, RNext, PTL DEF Spec
<1>2. Init => Q!Init
  BY RInit DEF Init, Q!Init
<1>3. RInv /\ [Next]_vars => [Q!Next]_Q!vars
  BY PipeStep
<1> QED
  BY <1>1, <1>2, <1>3, PTL DEF Spec, DeliversInOrder, Q!Spec
=============================================================================
