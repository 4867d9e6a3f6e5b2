------------------------------ MODULE Spinlock ------------------------------
(***************************************************************************)
(* The spin locks of spinlock.c: one lock, taken by threads and by          *)
(* interrupt handlers on several processors, with the nesting of pushcli    *)
(* and popcli, and the part of the switch between threads (sched, yield and *)
(* scheduler in proc.c) that saves and restores what they keep.             *)
(*                                                                          *)
(* acquire and release are split where another processor can look at the    *)
(* lock in between: between its two fields, locked and cpu.                 *)
(***************************************************************************)
EXTENDS Integers

CONSTANTS
  Cpus,     \* processors
  NoCpu     \* lk->cpu of a lock nobody holds

ASSUME SpinlockAssumption == NoCpu \notin Cpus

VARIABLES
  cpu,      \* per processor: fl (FL_IF of eflags), ncli and intena
  lk,       \* the lock: locked and cpu
  panicked     \* a call of panic()

lockVars == <<cpu, lk, panicked>>

LockInit ==
  /\ cpu = [c \in Cpus |-> [fl |-> TRUE, ncli |-> 0, intena |-> TRUE]]
  /\ lk = [locked |-> FALSE, cpu |-> NoCpu]
  /\ panicked = FALSE

\* What pushcli() makes of the state k of its processor.
pushcli(k) ==
  [fl |-> FALSE, ncli |-> k.ncli + 1,
   intena |-> IF k.ncli = 0 THEN k.fl ELSE k.intena]

popcliPanics(k) == k.fl \/ k.ncli = 0

\* What popcli() makes of the state k of its processor.
popcli(k) ==
  [k EXCEPT !.ncli = k.ncli - 1, !.fl = k.ncli = 1 /\ k.intena]

holding(c) == lk.locked /\ lk.cpu = c

-----------------------------------------------------------------------------
\* acquire(): interrupts go off, and the processor must not have the lock ...
AcquireStart(c) ==
  /\ cpu' = [cpu EXCEPT ![c] = pushcli(cpu[c])]
  /\ panicked' = (panicked \/ holding(c))
  /\ UNCHANGED lk

\* ... xchg finds the lock free ...
AcquireXchg(c) ==
  /\ ~lk.locked
  /\ lk' = [lk EXCEPT !.locked = TRUE]
  /\ UNCHANGED <<cpu, panicked>>

\* ... and the owner is noted.
AcquireOwn(c) ==
  /\ lk' = [lk EXCEPT !.cpu = c]
  /\ UNCHANGED <<cpu, panicked>>

\* Variant of ReleaseStart that leaves the owner in place.
ReleaseStartKeepsOwner(c) ==
  /\ panicked' = (panicked \/ ~holding(c))
  /\ UNCHANGED <<cpu, lk>>

\* release(): the owner is cleared while the lock is still taken ...
ReleaseStart(c) ==
  /\ panicked' = (panicked \/ ~holding(c))
  /\ lk' = [lk EXCEPT !.cpu = NoCpu]
  /\ UNCHANGED cpu

\* ... then the lock is free, and interrupts may come on again.
ReleaseEnd(c) ==
  /\ lk' = [lk EXCEPT !.locked = FALSE]
  /\ cpu' = [cpu EXCEPT ![c] = popcli(cpu[c])]
  /\ panicked' = (panicked \/ popcliPanics(cpu[c]))

-----------------------------------------------------------------------------
\* The processor's state k when sched() has reached the scheduler, which
\* finds no other process, releases ptable.lock and enables interrupts.
Idle(k) == [popcli(k) EXCEPT !.fl = TRUE]

\* Variant of Dispatch that lets the thread go on with the processor's intena.
DispatchKeepsIntena(k, saved) == popcli(k)

\* The scheduler, holding ptable.lock in state k, switches to a thread whose
\* sched() kept saved; the thread puts that back and releases ptable.lock.
Dispatch(k, saved) == popcli([k EXCEPT !.intena = saved])
=============================================================================
