-------------------------------- MODULE Proc --------------------------------
(***************************************************************************)
(* The process table of proc.c: fork, exit, wait, kill, yield, sleep and    *)
(* wakeup, the scheduler of every CPU, and sys_sleep with the timer         *)
(* interrupt as the client of sleep and wakeup that uses a second lock.     *)
(*                                                                          *)
(* A section under ptable.lock is one step; ptlock is explicit only for     *)
(* wait(), which still holds the lock when sleep() returns to it.  Code     *)
(* outside the lock interleaves at the granularity of the labels in pc.     *)
(***************************************************************************)
EXTENDS Integers, FiniteSets

CONSTANTS
  NPROC,      \* slots of ptable.proc; the first is initproc
  Cpus,       \* processors
  MaxPid,     \* bound on nextpid
  KillArgs,   \* process ids that programs pass to kill
  MaxSleep    \* longest sleep, in ticks

ASSUME ProcAssumption ==
  /\ NPROC \in Nat \ {0}
  /\ IsFiniteSet(Cpus)
  /\ MaxPid \in Nat \ {0}
  /\ KillArgs \subseteq Nat
  /\ MaxSleep \in Nat

Slots == 1..NPROC
initproc == 1
None == 0
Ticks == NPROC + 1    \* the channel &ticks; as owner of a lock, the timer

VARIABLES
  state, pid, parent, killed, chan,   \* the fields of struct proc
  pc,         \* where the process is when it runs
  np,         \* the child that fork() is making
  left,       \* n - (ticks - ticks0) in sys_sleep, at least 0
  cpu,        \* cpu->proc of every processor
  nextpid,
  ptlock,     \* wait()'s hold on ptable.lock
  tlock       \* owner of tickslock

vars == <<state, pid, parent, killed, chan, pc, np, left, cpu, nextpid,
          ptlock, tlock>>
procVars == <<pid, parent, killed>>
callVars == <<np, left>>

Min(S) == CHOOSE x \in S : \A y \in S : x <= y

\* wakeup1(ch), applied to the states st.
wakeup1(st, ch) ==
  [p \in Slots |-> IF st[p] = "SLEEPING" /\ chan[p] = ch THEN "RUNNABLE"
                   ELSE st[p]]

\* sched(): the processor goes back to its scheduler.
sched(p) == cpu' = [c \in Cpus |-> IF cpu[c] = p THEN None ELSE cpu[c]]

-----------------------------------------------------------------------------
\* userinit() has made the first process.
Init ==
  /\ state = [p \in Slots |-> IF p = initproc THEN "RUNNABLE" ELSE "UNUSED"]
  /\ pid = [p \in Slots |-> IF p = initproc THEN 1 ELSE 0]
  /\ parent = [p \in Slots |-> None]
  /\ killed = [p \in Slots |-> FALSE]
  /\ chan = [p \in Slots |-> None]
  /\ pc = [p \in Slots |-> "forkret"]
  /\ np = [p \in Slots |-> None]
  /\ left = [p \in Slots |-> 0]
  /\ cpu = [c \in Cpus |-> None]
  /\ nextpid = 2
  /\ ptlock = None
  /\ tlock = None

\* Variant of Run that leaves the process RUNNABLE.
RunStillRunnable(c, p) ==
  /\ cpu[c] = None /\ ptlock = None
  /\ state[p] = "RUNNABLE"
  /\ cpu' = [cpu EXCEPT ![c] = p]
  /\ chan' = IF pc[p] \in {"wait", "sleeping"} THEN [chan EXCEPT ![p] = None]
             ELSE chan
  /\ ptlock' = IF pc[p] = "wait" THEN p ELSE None
  /\ pc' = IF pc[p] = "forkret" THEN [pc EXCEPT ![p] = "user"] ELSE pc
  /\ UNCHANGED <<state, procVars, callVars, nextpid, tlock>>

\* scheduler() switches to a runnable process, which resumes after its call
\* of sched() or, the first time, in forkret().
Run(c, p) ==
  /\ cpu[c] = None /\ ptlock = None
  /\ state[p] = "RUNNABLE"
  /\ state' = [state EXCEPT ![p] = "RUNNING"]
  /\ cpu' = [cpu EXCEPT ![c] = p]
  /\ chan' = IF pc[p] \in {"wait", "sleeping"} THEN [chan EXCEPT ![p] = None]
             ELSE chan
  /\ ptlock' = IF pc[p] = "wait" THEN p ELSE None
  /\ pc' = IF pc[p] = "forkret" THEN [pc EXCEPT ![p] = "user"] ELSE pc
  /\ UNCHANGED <<procVars, callVars, nextpid, tlock>>

\* yield() in the timer interrupt, which comes only while p neither holds a
\* lock nor spins for one.
Yield(p) ==
  /\ state[p] = "RUNNING" /\ ptlock = None /\ tlock # p /\ pc[p] # "spin"
  /\ state' = [state EXCEPT ![p] = "RUNNABLE"]
  /\ sched(p)
  /\ UNCHANGED <<procVars, callVars, chan, pc, nextpid, ptlock, tlock>>

\* A process at user level that trap() lets make a system call.
InUser(p) == state[p] = "RUNNING" /\ pc[p] = "user" /\ ~killed[p]

\* fork(): allocproc() takes the first unused slot.
ForkAlloc(p) ==
  /\ InUser(p) /\ ptlock = None
  /\ nextpid <= MaxPid
  /\ \E q \in Slots : state[q] = "UNUSED"
  /\ LET q == Min({r \in Slots : state[r] = "UNUSED"})
     IN /\ state' = [state EXCEPT ![q] = "EMBRYO"]
        /\ pid' = [pid EXCEPT ![q] = nextpid]
        /\ np' = [np EXCEPT ![p] = q]
  /\ nextpid' = nextpid + 1
  /\ pc' = [pc EXCEPT ![p] = "fork"]
  /\ UNCHANGED <<parent, killed, chan, left, cpu, ptlock, tlock>>

\* fork(): there is no memory for the kernel stack or the address space.
ForkFail(p) ==
  /\ state[p] = "RUNNING" /\ pc[p] = "fork"
  /\ state' = [state EXCEPT ![np[p]] = "UNUSED"]
  /\ np' = [np EXCEPT ![p] = None]
  /\ pc' = [pc EXCEPT ![p] = "user"]
  /\ UNCHANGED <<procVars, chan, left, cpu, nextpid, ptlock, tlock>>

\* fork(): fill in the child, without holding ptable.lock.
ForkCopy(p) ==
  /\ state[p] = "RUNNING" /\ pc[p] = "fork"
  /\ parent' = [parent EXCEPT ![np[p]] = p]
  /\ pc' = [pc EXCEPT ![p] = "forked", ![np[p]] = "forkret"]
  /\ UNCHANGED <<state, pid, killed, chan, callVars, cpu, nextpid,
                 ptlock, tlock>>

\* fork(): the child may run.
ForkRun(p) ==
  /\ state[p] = "RUNNING" /\ pc[p] = "forked" /\ ptlock = None
  /\ state' = [state EXCEPT ![np[p]] = "RUNNABLE"]
  /\ np' = [np EXCEPT ![p] = None]
  /\ pc' = [pc EXCEPT ![p] = "user"]
  /\ UNCHANGED <<procVars, chan, left, cpu, nextpid, ptlock, tlock>>

-----------------------------------------------------------------------------
\* exit() is called, or trap() finds the process killed.
Exit(p) ==
  /\ state[p] = "RUNNING" /\ pc[p] = "user"
  /\ p # initproc    \* else panic("init exiting")
  /\ pc' = [pc EXCEPT ![p] = "exit"]
  /\ UNCHANGED <<state, procVars, chan, callVars, cpu, nextpid, ptlock, tlock>>

\* Variant of ExitZombie that does not hand the children to init.
ExitZombieKeepsChildren(p) ==
  /\ state[p] = "RUNNING" /\ pc[p] = "exit" /\ ptlock = None
  /\ LET orphans == {q \in Slots : parent[q] = p}
         woken == wakeup1(state, parent[p])
         all == IF \E q \in orphans : state[q] = "ZOMBIE"
                THEN wakeup1(woken, initproc) ELSE woken
     IN /\ state' = [all EXCEPT ![p] = "ZOMBIE"]
  /\ sched(p)
  /\ UNCHANGED <<pid, parent, killed, chan, pc, callVars, nextpid, ptlock, tlock>>

\* The rest of exit(), under ptable.lock.
ExitZombie(p) ==
  /\ state[p] = "RUNNING" /\ pc[p] = "exit" /\ ptlock = None
  /\ LET orphans == {q \in Slots : parent[q] = p}
         woken == wakeup1(state, parent[p])
         all == IF \E q \in orphans : state[q] = "ZOMBIE"
                THEN wakeup1(woken, initproc) ELSE woken
     IN /\ state' = [all EXCEPT ![p] = "ZOMBIE"]
        /\ parent' = [q \in Slots |-> IF q \in orphans THEN initproc
                                      ELSE parent[q]]
  /\ sched(p)
  /\ UNCHANGED <<pid, killed, chan, pc, callVars, nextpid, ptlock, tlock>>

\* wait() holds ptable.lock: it has just been called or has just slept.
Waiting(p) ==
  /\ state[p] = "RUNNING"
  /\ \/ InUser(p) /\ ptlock = None
     \/ pc[p] = "wait" /\ ptlock = p
Children(p) == {q \in Slots : parent[q] = p}
Zombies(p) == {q \in Children(p) : state[q] = "ZOMBIE"}

\* wait() finds an exited child and frees its slot.
WaitReap(p) ==
  /\ Waiting(p) /\ Zombies(p) # {}
  /\ LET q == Min(Zombies(p))
     IN /\ state' = [state EXCEPT ![q] = "UNUSED"]
        /\ pid' = [pid EXCEPT ![q] = 0]
        /\ parent' = [parent EXCEPT ![q] = None]
        /\ killed' = [killed EXCEPT ![q] = FALSE]
  /\ pc' = [pc EXCEPT ![p] = "user"]
  /\ ptlock' = None
  /\ UNCHANGED <<chan, callVars, cpu, nextpid, tlock>>

\* wait() has nothing to wait for, or the process has been killed.
WaitFail(p) ==
  /\ Waiting(p) /\ Zombies(p) = {}
  /\ Children(p) = {} \/ killed[p]
  /\ pc' = [pc EXCEPT ![p] = "user"]
  /\ ptlock' = None
  /\ UNCHANGED <<state, procVars, chan, callVars, cpu, nextpid, tlock>>

\* wait() sleeps on the process itself; sched() gives ptable.lock up.
WaitSleep(p) ==
  /\ Waiting(p) /\ Zombies(p) = {}
  /\ Children(p) # {} /\ ~killed[p]
  /\ state' = [state EXCEPT ![p] = "SLEEPING"]
  /\ chan' = [chan EXCEPT ![p] = p]
  /\ pc' = [pc EXCEPT ![p] = "wait"]
  /\ ptlock' = None
  /\ sched(p)
  /\ UNCHANGED <<procVars, callVars, nextpid, tlock>>

\* Variant of Kill that leaves a sleeper asleep.
KillNoWakeup(p, n) ==
  /\ InUser(p) /\ ptlock = None
  /\ \E q \in Slots : pid[q] = n
  /\ LET q == Min({r \in Slots : pid[r] = n})
     IN /\ killed' = [killed EXCEPT ![q] = TRUE]
  /\ UNCHANGED <<state, pid, parent, chan, pc, callVars, cpu, nextpid, ptlock, tlock>>

\* kill(): the first slot with that pid, whatever its state.
Kill(p, n) ==
  /\ InUser(p) /\ ptlock = None
  /\ \E q \in Slots : pid[q] = n
  /\ LET q == Min({r \in Slots : pid[r] = n})
     IN /\ killed' = [killed EXCEPT ![q] = TRUE]
        /\ state' = IF state[q] = "SLEEPING"
                    THEN [state EXCEPT ![q] = "RUNNABLE"] ELSE state
  /\ UNCHANGED <<pid, parent, chan, pc, callVars, cpu, nextpid, ptlock, tlock>>

-----------------------------------------------------------------------------
\* sys_sleep(n) takes tickslock.
SleepEnter(p, n) ==
  /\ InUser(p) /\ tlock = None
  /\ left' = [left EXCEPT ![p] = n]
  /\ tlock' = p
  /\ pc' = [pc EXCEPT ![p] = "sleep_test"]
  /\ UNCHANGED <<state, procVars, chan, np, cpu, nextpid, ptlock>>

\* sys_sleep() returns: the time is over, or the process has been killed.
SleepReturn(p) ==
  /\ state[p] = "RUNNING" /\ pc[p] = "sleep_test"
  /\ left[p] = 0 \/ killed[p]
  /\ left' = [left EXCEPT ![p] = 0]
  /\ tlock' = None
  /\ pc' = [pc EXCEPT ![p] = "user"]
  /\ UNCHANGED <<state, procVars, chan, np, cpu, nextpid, ptlock>>

\* Variant of SleepTest that gives tickslock up before ptable.lock is held.
SleepTestUnlocks(p) ==
  /\ state[p] = "RUNNING" /\ pc[p] = "sleep_test"
  /\ left[p] > 0 /\ ~killed[p]
  /\ pc' = [pc EXCEPT ![p] = "sleep_go"]
  /\ tlock' = None
  /\ UNCHANGED <<state, procVars, chan, callVars, cpu, nextpid, ptlock>>

\* sys_sleep() decides to sleep on &ticks.
SleepTest(p) ==
  /\ state[p] = "RUNNING" /\ pc[p] = "sleep_test"
  /\ left[p] > 0 /\ ~killed[p]
  /\ pc' = [pc EXCEPT ![p] = "sleep_go"]
  /\ UNCHANGED <<state, procVars, chan, callVars, cpu, nextpid, ptlock, tlock>>

\* sleep(&ticks, &tickslock): tickslock is released under ptable.lock.
SleepGo(p) ==
  /\ state[p] = "RUNNING" /\ pc[p] = "sleep_go" /\ ptlock = None
  /\ state' = [state EXCEPT ![p] = "SLEEPING"]
  /\ chan' = [chan EXCEPT ![p] = Ticks]
  /\ tlock' = None
  /\ pc' = [pc EXCEPT ![p] = "sleeping"]
  /\ sched(p)
  /\ UNCHANGED <<procVars, callVars, nextpid, ptlock>>

\* sleep() has resumed and calls acquire(lk), which disables interrupts ...
SleepSpin(p) ==
  /\ state[p] = "RUNNING" /\ pc[p] = "sleeping"
  /\ pc' = [pc EXCEPT ![p] = "spin"]
  /\ UNCHANGED <<state, procVars, chan, callVars, cpu, nextpid, ptlock, tlock>>

\* ... and spins until it gets tickslock.
SleepAgain(p) ==
  /\ state[p] = "RUNNING" /\ pc[p] = "spin" /\ tlock = None
  /\ tlock' = p
  /\ pc' = [pc EXCEPT ![p] = "sleep_test"]
  /\ UNCHANGED <<state, procVars, chan, callVars, cpu, nextpid, ptlock>>

\* The timer interrupt counts a tick under tickslock ...
Tick ==
  /\ tlock = None
  /\ tlock' = Ticks
  /\ left' = [p \in Slots |-> IF left[p] > 0 THEN left[p] - 1 ELSE 0]
  /\ UNCHANGED <<state, procVars, chan, pc, np, cpu, nextpid, ptlock>>

\* Variant of TickWakeup that wakes nobody.
TickNoWakeup ==
  /\ tlock = Ticks /\ ptlock = None
  /\ tlock' = None
  /\ UNCHANGED <<state, procVars, chan, pc, callVars, cpu, nextpid, ptlock>>

\* ... and wakes everyone asleep on &ticks.
TickWakeup ==
  /\ tlock = Ticks /\ ptlock = None
  /\ state' = wakeup1(state, Ticks)
  /\ tlock' = None
  /\ UNCHANGED <<procVars, chan, pc, callVars, cpu, nextpid, ptlock>>

Step(p) ==
  \/ Yield(p) \/ ForkAlloc(p) \/ ForkFail(p) \/ ForkCopy(p) \/ ForkRun(p)
  \/ Exit(p) \/ ExitZombie(p) \/ WaitReap(p) \/ WaitFail(p) \/ WaitSleep(p)
  \/ (\E n \in KillArgs : Kill(p, n))
  \/ (\E n \in 1..MaxSleep : SleepEnter(p, n))
  \/ SleepReturn(p) \/ SleepTest(p) \/ SleepGo(p) \/ SleepSpin(p)
  \/ SleepAgain(p)

Next ==
  \/ \E p \in Slots : Step(p) \/ (\E c \in Cpus : Run(c, p))
  \/ Tick
  \/ TickWakeup

Spec == Init /\ [][Next]_vars

\* The steps of p that do not depend on what its program does next.
Kernel(p) ==
  \/ ForkFail(p) \/ ForkCopy(p) \/ ForkRun(p) \/ ExitZombie(p)
  \/ (killed[p] /\ Exit(p))
  \/ (pc[p] = "wait" /\ (WaitReap(p) \/ WaitFail(p) \/ WaitSleep(p)))
  \/ SleepReturn(p) \/ SleepTest(p) \/ SleepGo(p) \/ SleepSpin(p)
  \/ SleepAgain(p)

\* scheduler() visits every slot in turn, so a process that is runnable again
\* and again is run, and a time slice is long enough for a step; the timer
\* keeps ticking, and every tick ends the slice of the running process.
Fairness ==
  /\ \A p \in Slots : /\ SF_vars(\E c \in Cpus : Run(c, p))
                        /\ SF_vars(Kernel(p))
                        /\ WF_vars(Yield(p))
  /\ SF_vars(Tick) /\ SF_vars(TickWakeup)

FairSpec == Spec /\ Fairness

-----------------------------------------------------------------------------

\* A process runs on exactly one processor while it is RUNNING, and on none
\* otherwise, through every hand-over of ptable.lock.
RunsOnOneCpu ==
  \A p \in Slots :
    IF state[p] = "RUNNING" THEN \E c \in Cpus : \A d \in Cpus :
                                   cpu[d] = p <=> d = c
    ELSE \A c \in Cpus : cpu[c] # p

\* Every process except init has a parent that has not exited: exit hands
\* children to init in the same section that makes it a zombie.
ParentAlive ==
  \A p \in Slots \ {initproc} :
    state[p] \in {"SLEEPING", "RUNNABLE", "RUNNING", "ZOMBIE"} =>
      parent[p] # None /\ state[parent[p]] \in {"SLEEPING", "RUNNABLE", "RUNNING"}

\* No process sleeps on past what it waits for: in wait() no child, its own
\* or one it inherited as init, is a zombie, and in sys_sleep() the time is
\* over only if the timer interrupt is just about to wake the process.
NoMissedWakeup ==
  \A p \in Slots : state[p] = "SLEEPING" =>
    /\ pc[p] = "wait" => \A q \in Slots : parent[q] = p => state[q] # "ZOMBIE"
    /\ pc[p] = "sleeping" /\ left[p] = 0 => tlock = Ticks

\* A killed process exits, wherever it was when killed: running, in fork, or
\* asleep in wait() or sys_sleep().
KilledExits ==
  \A p \in Slots \ {initproc} :
    killed[p] /\ state[p] \in {"RUNNABLE", "RUNNING", "SLEEPING"}
      ~> state[p] \in {"ZOMBIE", "UNUSED"}

\* sys_sleep() returns.
SleepEnds ==
  \A p \in Slots : pc[p] \in {"sleep_test", "sleep_go", "sleeping", "spin"}
                     ~> pc[p] = "user"
=============================================================================
