------------------------------ MODULE Console -------------------------------
(***************************************************************************)
(* The console of console.c: the ring of typed characters that consoleintr  *)
(* fills and edits and consoleread empties, under the spin lock cons.lock.  *)
(*                                                                          *)
(* Processes call consoleread and consolewrite on any processor, are        *)
(* preempted by the timer and killed; keyboard and serial interrupts go to  *)
(* one processor, which runs consoleintr.  Each is a context with its own   *)
(* pc.  ptable.lock, taken inside sleep, wakeup and the scheduler, makes    *)
(* each of those one step.                                                  *)
(***************************************************************************)
EXTENDS Spinlock, Sequences

CONSTANTS
  Cpu0,        \* the processor the keyboard and the serial line interrupt
  Procs,       \* processes
  NoProc,      \* cpu->proc in the scheduler
  Plain,       \* characters with no special meaning
  INPUT_BUF,   \* slots of the ring
  WRAP,        \* 2^32: where r, w and e wrap around
  Readers,     \* the processes that read; all of them write
  Counts,      \* sizes of reads
  Mortal       \* the processes that may be killed

ASSUME ConsoleAssumption ==
  /\ INPUT_BUF \in Nat \ {0}
  /\ WRAP \in Nat /\ WRAP > INPUT_BUF /\ WRAP % INPUT_BUF = 0
  /\ Counts \subseteq Nat \ {0}
  /\ Cpu0 \in Cpus /\ Procs \cap Cpus = {}
  /\ NoProc \notin Procs
  /\ Readers \subseteq Procs /\ Mortal \subseteq Procs

VARIABLES
  buf, r, w, e,   \* input
  pc,             \* of every process, and of the handler on every processor
  run,            \* cpu->proc
  inTrap,         \* the process was preempted inside a trap
  saved,          \* the local variable intena of sched()
  op,             \* the call a process is in; "sleep" inside a read
  n, target,      \* locals of consoleread
  killed

ringVars == <<buf, r, w, e>>
threadVars == <<run, inTrap, saved>>
callVars == <<op, n, target>>
vars == <<lockVars, ringVars, pc, threadVars, callVars, killed>>

\* newline and end of file (^D) finish a line
LineEnds == {"newline", "eof"}
Char == Plain \cup LineEnds
Slot(i) == i % INPUT_BUF
Inc(i) == (i + 1) % WRAP
Dec(i) == (i + WRAP - 1) % WRAP
Used == (e + WRAP - r) % WRAP       \* input.e - input.r

\* Nothing is typed; the processes have been preempted in their programs.
Init ==
  /\ LockInit
  /\ buf \in [0..INPUT_BUF - 1 -> {"newline"}]
  /\ r = 0 /\ w = 0 /\ e = 0
  /\ pc = [x \in Procs \cup Cpus |-> IF x \in Procs THEN "user" ELSE "none"]
  /\ run = [c \in Cpus |-> NoProc]
  /\ inTrap = [p \in Procs |-> TRUE]
  /\ saved = [p \in Procs |-> FALSE]
  /\ op = [p \in Procs |-> "none"]
  /\ n = [p \in Procs |-> 0] /\ target = [p \in Procs |-> 0]
  /\ killed = [p \in Procs |-> FALSE]

\* Context x executes on processor c: the handler that interrupted it, or
\* else its process, unless that has still to return from its trap.
On(x, c) ==
  \/ x = c /\ pc[c] # "none"
  \/ pc[c] = "none" /\ run[c] = x /\ x \in Procs /\ ~inTrap[x]

Goto(x, l) == pc' = [pc EXCEPT ![x] = l]

-----------------------------------------------------------------------------
\* cons.lock, for every context.
Acquire(x, c) ==
  /\ On(x, c)
  /\ \/ pc[x] = "call" /\ AcquireStart(c) /\ Goto(x, "spin")
     \/ pc[x] = "spin" /\ AcquireXchg(c) /\ Goto(x, "got")
     \/ pc[x] = "got" /\ AcquireOwn(c) /\ Goto(x, "critical")
  /\ UNCHANGED <<ringVars, threadVars, callVars, killed>>

\* The critical section ends: release() clears the owner ...
Leave(x, c) == ReleaseStart(c) /\ Goto(x, "release")

\* ... and frees the lock.
Release(x, c) ==
  /\ On(x, c) /\ pc[x] = "release"
  /\ ReleaseEnd(c)
  /\ Goto(x, IF x \in Procs THEN "user" ELSE "iret")
  /\ UNCHANGED <<ringVars, threadVars, callVars, killed>>

-----------------------------------------------------------------------------
\* An interrupt gate turns interrupts off and calls kbdintr or uartintr.
Interrupt(c) ==
  /\ c = Cpu0 /\ cpu[c].fl /\ pc[c] = "none"
  /\ cpu' = [cpu EXCEPT ![c].fl = FALSE]
  /\ Goto(c, "call")
  /\ UNCHANGED <<lk, panicked, ringVars, threadVars, callVars, killed>>

\* The interrupt returns to what it interrupted.
HandlerReturn(c) ==
  /\ pc[c] = "iret"
  /\ cpu' = [cpu EXCEPT ![c].fl = TRUE]
  /\ Goto(c, "none")
  /\ UNCHANGED <<lk, panicked, ringVars, threadVars, callVars, killed>>

\* The pcs after wakeup(&input.r).
Wakeup == [x \in DOMAIN pc |-> IF pc[x] = "asleep" THEN "call" ELSE pc[x]]

\* Variant of Type that finishes only lines that end.
TypeEndsOnly(c, ch) ==
  /\ pc[c] = "critical"
  /\ Used < INPUT_BUF
  /\ buf' = [buf EXCEPT ![Slot(e)] = ch]
  /\ e' = Inc(e)
  /\ IF ch \in LineEnds
     THEN w' = e' /\ pc' = Wakeup
     ELSE UNCHANGED <<w, pc>>
  /\ UNCHANGED <<lockVars, r, threadVars, callVars, killed>>

\* consoleintr(): a character goes into the ring; the last of a line, or of
\* the ring, gives the line to the readers.
Type(c, ch) ==
  /\ pc[c] = "critical"
  /\ Used < INPUT_BUF
  /\ buf' = [buf EXCEPT ![Slot(e)] = ch]
  /\ e' = Inc(e)
  /\ IF ch \in LineEnds \/ e' = (r + INPUT_BUF) % WRAP
     THEN w' = e' /\ pc' = Wakeup
     ELSE UNCHANGED <<w, pc>>
  /\ UNCHANGED <<lockVars, r, threadVars, callVars, killed>>

\* Variant of Backspace that stops only at the next character to read.
BackspaceTooFar(c) ==
  /\ pc[c] = "critical"
  /\ e # r
  /\ e' = Dec(e)
  /\ UNCHANGED <<lockVars, buf, r, w, pc, threadVars, callVars, killed>>

\* consoleintr(): ^H or delete.
Backspace(c) ==
  /\ pc[c] = "critical"
  /\ e # w
  /\ e' = Dec(e)
  /\ UNCHANGED <<lockVars, buf, r, w, pc, threadVars, callVars, killed>>

\* consoleintr(): ^U goes back to the start of the line: to w, or to just
\* behind the last newline before e.
KillLine(c) ==
  /\ pc[c] = "critical"
  /\ LET typed == (e + WRAP - w) % WRAP
         stops == {k \in 0..typed : \/ k = typed
                                     \/ buf[Slot(e + WRAP - k - 1)] = "newline"}
     IN e' = (e + WRAP - (CHOOSE k \in stops : \A j \in stops : k <= j)) % WRAP
  /\ UNCHANGED <<lockVars, buf, r, w, pc, threadVars, callVars, killed>>

\* consoleintr(): the device has no more characters.
HandlerDone(c) ==
  /\ pc[c] = "critical"
  /\ Leave(c, c)
  /\ UNCHANGED <<ringVars, threadVars, callVars, killed>>

-----------------------------------------------------------------------------
\* A system call on the console, made through a trap gate: interrupts stay on.
Call(c, p, o, k) ==
  /\ On(p, c) /\ pc[p] = "user" /\ ~killed[p]
  /\ op' = [op EXCEPT ![p] = o]
  /\ n' = [n EXCEPT ![p] = k] /\ target' = [target EXCEPT ![p] = k]
  /\ Goto(p, "call")
  /\ UNCHANGED <<lockVars, ringVars, threadVars, killed>>

Reading(p, c) == On(p, c) /\ pc[p] = "critical" /\ op[p] = "read"

\* consoleread() takes a character; an end of file behind other bytes is
\* left for the next read.
ReadChar(c, p) ==
  /\ Reading(p, c) /\ r # w
  /\ LET ch == buf[Slot(r)]
         eof == ch = "eof"
     IN /\ r' = IF eof /\ n[p] < target[p] THEN r ELSE Inc(r)
        /\ n' = IF eof THEN n ELSE [n EXCEPT ![p] = @ - 1]
        /\ IF eof \/ ch = "newline" \/ n'[p] = 0 THEN Leave(p, c)
           ELSE UNCHANGED <<lockVars, pc>>
  /\ UNCHANGED <<buf, w, e, threadVars, op, target, killed>>

\* consoleread() gives up: nothing is ready and the process is killed.
ReadKilled(c, p) ==
  /\ Reading(p, c) /\ r = w /\ killed[p]
  /\ Leave(p, c)
  /\ UNCHANGED <<ringVars, threadVars, callVars, killed>>

\* consoleread() finds nothing ready, is not killed and calls sleep().
ReadWaits(c, p) ==
  /\ Reading(p, c) /\ r = w /\ ~killed[p]
  /\ op' = [op EXCEPT ![p] = "sleep"]
  /\ UNCHANGED <<lockVars, ringVars, pc, threadVars, n, target, killed>>

\* consolewrite() puts its characters on the screen.
Write(c, p) ==
  /\ On(p, c) /\ pc[p] = "critical" /\ op[p] = "write"
  /\ Leave(p, c)
  /\ UNCHANGED <<ringVars, threadVars, callVars, killed>>

-----------------------------------------------------------------------------
Runnable(q) ==
  /\ pc[q] \notin {"asleep", "exited"}
  /\ \A c \in Cpus : run[c] # q

\* sched() leaves its thread on c, in state k, for the scheduler, which goes
\* on with process q or finds none.
SwitchTo(c, k, q) ==
  /\ q \in Procs => Runnable(q)
  /\ run' = [run EXCEPT ![c] = q]
  /\ cpu' = [cpu EXCEPT ![c] = IF q = NoProc THEN Idle(k)
                               ELSE Dispatch(k, saved[q])]

schedPanics(k) == k.ncli # 1 \/ k.fl

\* scheduler() comes round with interrupts enabled.
Schedule(c, q) ==
  /\ run[c] = NoProc /\ pc[c] = "none"
  /\ SwitchTo(c, pushcli(cpu[c]), q)
  /\ UNCHANGED <<lk, panicked, ringVars, pc, inTrap, saved, callVars, killed>>

\* The timer interrupts a process and yields.
Timer(c, p, q) ==
  /\ cpu[c].fl /\ pc[c] = "none" /\ run[c] = p
  /\ LET k == pushcli([cpu[c] EXCEPT !.fl = FALSE])
     IN /\ saved' = [saved EXCEPT ![p] = k.intena]
        /\ panicked' = (panicked \/ schedPanics(k))
        /\ SwitchTo(c, k, q)
  /\ inTrap' = [inTrap EXCEPT ![p] = TRUE]
  /\ UNCHANGED <<lk, ringVars, pc, callVars, killed>>

\* A process that has yielded returns from the timer interrupt.
TrapReturn(c, p) ==
  /\ pc[c] = "none" /\ run[c] = p /\ inTrap[p]
  /\ inTrap' = [inTrap EXCEPT ![p] = FALSE]
  /\ cpu' = [cpu EXCEPT ![c].fl = TRUE]
  /\ UNCHANGED <<lk, panicked, ringVars, pc, run, saved, callVars, killed>>

\* sleep(&input.r, &cons.lock): ptable.lock is taken, cons.lock released.  A
\* kill() since the test goes unnoticed.
Sleep(c, p, q) ==
  /\ On(p, c) /\ pc[p] = "critical" /\ op[p] = "sleep"
  /\ op' = [op EXCEPT ![p] = "read"]
  /\ LET k == popcli(pushcli(cpu[c]))
     IN /\ lk' = [locked |-> FALSE, cpu |-> NoCpu]
        /\ saved' = [saved EXCEPT ![p] = k.intena]
        /\ panicked' = (panicked \/ ~holding(c) \/ schedPanics(k))
        /\ SwitchTo(c, k, q)
  /\ Goto(p, "asleep")
  /\ UNCHANGED <<ringVars, inTrap, n, target, killed>>

\* kill(), called by a process that is not modelled.
Kill(p) ==
  /\ pc[p] # "exited" /\ ~killed[p]
  /\ killed' = [killed EXCEPT ![p] = TRUE]
  /\ pc' = IF pc[p] = "asleep" THEN [pc EXCEPT ![p] = "call"] ELSE pc
  /\ UNCHANGED <<lockVars, ringVars, threadVars, callVars>>

\* A killed process exits on its way back to its program.
Exit(c, p, q) ==
  /\ On(p, c) /\ pc[p] = "user" /\ killed[p]
  /\ Goto(p, "exited")
  /\ LET k == pushcli(cpu[c])
     IN /\ panicked' = (panicked \/ schedPanics(k))
        /\ SwitchTo(c, k, q)
  /\ UNCHANGED <<lk, ringVars, inTrap, saved, callVars, killed>>

-----------------------------------------------------------------------------
Handler(c) ==
  \/ Acquire(c, c) \/ Release(c, c) \/ HandlerReturn(c)
  \/ (\E ch \in Char : Type(c, ch))
  \/ Backspace(c) \/ KillLine(c) \/ HandlerDone(c)

\* The steps of a call in progress.
Thread(c, p) ==
  \/ Acquire(p, c) \/ Release(p, c)
  \/ ReadChar(c, p) \/ ReadKilled(c, p) \/ ReadWaits(c, p) \/ Write(c, p)
  \/ (\E q \in (Procs \ {p}) \cup {NoProc} : Sleep(c, p, q) \/ Exit(c, p, q))

Preempt(c, p) == \E q \in (Procs \ {p}) \cup {NoProc} : Timer(c, p, q)

CallSome(c, p) ==
  \/ Call(c, p, "write", 0)
  \/ p \in Readers /\ \E k \in Counts : Call(c, p, "read", k)

Next ==
  \/ \E c \in Cpus :
       \/ Interrupt(c) \/ Handler(c)
       \/ \E p \in Procs : \/ Thread(c, p) \/ Preempt(c, p) \/ TrapReturn(c, p)
                           \/ CallSome(c, p) \/ Schedule(c, p)
  \/ \E p \in Mortal : Kill(p)

Spec == Init /\ [][Next]_vars

-----------------------------------------------------------------------------
\* No lock is taken twice or released by a processor that does not hold it,
\* popcli never runs out of pushcli, and sched() is entered with one level of
\* pushcli: none of the panics of spinlock.c and sched() is reached.
NoPanic == ~panicked

\* A processor has interrupts enabled exactly when it executes the scheduler's
\* idle loop, a program, or a system call outside its critical sections,
\* whatever threads were switched on it and however they were switched; never
\* in a handler, in a trap, or while it holds or waits for the lock.
InterruptsMatchContext ==
  \A c \in Cpus :
    cpu[c].fl <=>
      /\ pc[c] = "none"
      /\ run[c] = NoProc \/ (~inTrap[run[c]] /\ pc[run[c]] \in {"user", "call"})

\* A reader sleeps only if no line is ready and the line being typed can still
\* be finished: no wakeup comes between its test and its sleep, and a full ring
\* never waits for room that only a sleeping reader could make.  (It may have
\* been killed between the two, and then sleeps until the line is finished.)
SleepsForReason ==
  \A p \in Procs : pc[p] = "asleep" => r = w /\ Used < INPUT_BUF

Ring(i, j) ==
  [k \in 1..(j + WRAP - i) % WRAP |-> buf[Slot(i + k - 1)]]

Lines == INSTANCE LineInput WITH Cap <- INPUT_BUF, ready <- Ring(r, w),
                                 line <- Ring(w, e)

\* The ring implements line input: editing touches only the unfinished line,
\* finished lines are read in order, and no character is lost or read twice,
\* across the wrap of the ring and of the counters.
KeepsLines == Lines!Spec
=============================================================================
