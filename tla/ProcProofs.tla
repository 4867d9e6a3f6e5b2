----------------------------- MODULE ProcProofs -----------------------------
(***************************************************************************)
(* Proofs about Proc, for every number of slots and of processors, every    *)
(* set of arguments of kill and every length of sleep.                      *)
(***************************************************************************)
EXTENDS Proc, WellFoundedInduction, TLAPS

States == {"UNUSED", "EMBRYO", "SLEEPING", "RUNNABLE", "RUNNING", "ZOMBIE"}
Live == {"SLEEPING", "RUNNABLE", "RUNNING"}
Pcs == {"forkret", "user", "fork", "forked", "exit", "wait", "sleep_test",
        "sleep_go", "sleeping", "spin"}

TypeOK ==
  /\ state \in [Slots -> States]
  /\ pid \in [Slots -> Nat]
  /\ parent \in [Slots -> Slots \cup {None}]
  /\ killed \in [Slots -> BOOLEAN]
  /\ chan \in [Slots -> Slots \cup {None, Ticks}]
  /\ pc \in [Slots -> Pcs]
  /\ np \in [Slots -> Slots \cup {None}]
  /\ left \in [Slots -> Nat]
  /\ cpu \in [Cpus -> Slots \cup {None}]
  /\ nextpid \in Nat
  /\ ptlock \in Slots \cup {None}
  /\ tlock \in Slots \cup {None, Ticks}

\* What the state of a slot says about where its process is.
PcInv ==
  \A p \in Slots :
    /\ state[p] = "SLEEPING" => \/ pc[p] = "wait" /\ chan[p] = p
                                \/ pc[p] = "sleeping" /\ chan[p] = Ticks
    /\ state[p] = "ZOMBIE" => pc[p] = "exit"
    /\ state[p] \in {"UNUSED", "EMBRYO"} => pc[p] \in {"exit", "forkret"}

\* tickslock is held from the test of the time to sleep().
TicksInv ==
  \A p \in Slots :
    /\ tlock = p <=> pc[p] \in {"sleep_test", "sleep_go"}
    /\ pc[p] = "sleep_go" => left[p] > 0

\* A process inside fork() has an EMBRYO of its own.
ForkInv ==
  \A p \in Slots : pc[p] \in {"fork", "forked"} =>
    /\ np[p] \in Slots /\ state[np[p]] = "EMBRYO"
    /\ pc[p] = "forked" => parent[np[p]] = p /\ pc[np[p]] = "forkret"
    /\ \A q \in Slots : pc[q] \in {"fork", "forked"} /\ np[q] = np[p] => q = p

\* init lives for ever and has no parent; nobody is its own parent.
FamilyInv ==
  /\ state[initproc] \in Live /\ pc[initproc] # "exit"
  /\ parent[initproc] = None
  /\ \A p \in Slots : parent[p] # p

\* The inductive invariant.
IInv ==
  /\ TypeOK /\ PcInv /\ TicksInv /\ ForkInv /\ FamilyInv
  /\ RunsOnOneCpu /\ ParentAlive /\ NoMissedWakeup

-----------------------------------------------------------------------------
\* Slots are numbered from initproc on; None and Ticks are not slots.
LEMMA SlotFacts ==
  /\ initproc \in Slots /\ initproc # None
  /\ None \notin Slots /\ Ticks \notin Slots /\ None # Ticks
BY ProcAssumption DEF initproc, None, Ticks, Slots

\* A set of numbers that is not empty has a least element.
LEMMA LeastElement ==
  ASSUME NEW S \in SUBSET Nat, S # {}
  PROVE  \E x \in S : \A y \in S : x <= y
<1> DEFINE Less == {ss \in Nat \X Nat : ss[1] < ss[2]}
<1>1. OpToRel(<, Nat) = Less
  BY Zenon DEF OpToRel
<1>2. IsWellFoundedOn(Less, Nat)
  BY <1>1, NatLessThanWellFounded, Zenon
<1> HIDE DEF Less
<1>3. PICK x \in S : \A y \in S : ~(<<y, x>> \in Less)
  BY <1>2, WFMin, Zenon
<1>4. ASSUME NEW y \in S, ~(x <= y) PROVE FALSE
  <2>1. <<y, x>> \in Nat \X Nat
    BY Zenon
  <2>2. <<y, x>>[1] < <<y, x>>[2]
    BY <1>4
  <2>3. <<y, x>> \in Less
    BY <2>1, <2>2, Zenon DEF Less
  <2> QED
    BY <1>3, <2>3, Zenon
<1> QED
  BY <1>4, Zenon

\* The loops of allocproc, wait and kill stop at the first slot that fits.
LEMMA MinIn ==
  ASSUME NEW S \in SUBSET Slots, S # {}
  PROVE  Min(S) \in S
<1>1. S \in SUBSET Nat
  BY DEF Slots
<1> QED
  BY <1>1, LeastElement, Zenon DEF Min

\* scheduler() gives a process to one processor.
LEMMA RunInv ==
  ASSUME IInv, NEW c \in Cpus, NEW p \in Slots, Run(c, p)
  PROVE  IInv'
<1> USE DEF IInv
<1>1. TypeOK'
  BY SlotFacts, Zenon DEF Run, TypeOK, States, Pcs, procVars, callVars
<1>2. PcInv'
  BY SlotFacts, Zenon DEF Run, PcInv, TypeOK, procVars, callVars
<1>3. TicksInv'
  BY SlotFacts, Zenon DEF Run, TicksInv, PcInv, TypeOK, procVars, callVars
<1>4. ForkInv'
  BY SlotFacts DEF Run, ForkInv, PcInv, TypeOK, procVars, callVars
<1>5. FamilyInv'
  BY SlotFacts
     DEF Run, FamilyInv, PcInv, Live, ForkInv, ParentAlive, TypeOK, procVars,
         callVars
<1>6. RunsOnOneCpu'
  BY SlotFacts DEF Run, RunsOnOneCpu, ForkInv, TypeOK, procVars, callVars
<1>7. ParentAlive'
  BY SlotFacts
     DEF Run, ParentAlive, FamilyInv, PcInv, ForkInv, Live, TypeOK, procVars,
         callVars
<1>8. NoMissedWakeup'
  BY SlotFacts
     DEF Run, NoMissedWakeup, PcInv, TicksInv, ForkInv, FamilyInv, ParentAlive,
         Live, TypeOK, procVars, callVars
<1> QED
  BY <1>1, <1>2, <1>3, <1>4, <1>5, <1>6, <1>7, <1>8, Zenon

\* yield() takes it away again.
LEMMA YieldInv ==
  ASSUME IInv, NEW p \in Slots, Yield(p)
  PROVE  IInv'
<1> USE DEF IInv
<1>1. TypeOK'
  BY SlotFacts, Zenon DEF Yield, TypeOK, States, Pcs, procVars, callVars, sched
<1>2. PcInv'
  BY SlotFacts, Zenon DEF Yield, PcInv, TypeOK, procVars, callVars, sched
<1>3. TicksInv'
  BY SlotFacts, Zenon
     DEF Yield, TicksInv, PcInv, TypeOK, procVars, callVars, sched
<1>4. ForkInv'
  BY SlotFacts DEF Yield, ForkInv, PcInv, TypeOK, procVars, callVars, sched
<1>5. FamilyInv'
  BY SlotFacts
     DEF Yield, FamilyInv, PcInv, Live, ForkInv, ParentAlive, TypeOK, procVars,
         callVars, sched
<1>6. RunsOnOneCpu'
  BY SlotFacts
     DEF Yield, RunsOnOneCpu, ForkInv, TypeOK, procVars, callVars, sched
<1>7. ParentAlive'
  BY SlotFacts
     DEF Yield, ParentAlive, FamilyInv, PcInv, ForkInv, Live, TypeOK, procVars,
         callVars, sched
<1>8. NoMissedWakeup'
  BY SlotFacts
     DEF Yield, NoMissedWakeup, PcInv, TicksInv, ForkInv, FamilyInv,
         ParentAlive, Live, TypeOK, procVars, callVars, sched
<1> QED
  BY <1>1, <1>2, <1>3, <1>4, <1>5, <1>6, <1>7, <1>8, Zenon

\* allocproc() takes a slot that nobody uses.
LEMMA ForkAllocInv ==
  ASSUME IInv, NEW p \in Slots, ForkAlloc(p)
  PROVE  IInv'
<1> USE DEF IInv
<1>1. PICK q \in Slots : /\ state[q] = "UNUSED"
                         /\ state' = [state EXCEPT ![q] = "EMBRYO"]
                         /\ pid' = [pid EXCEPT ![q] = nextpid]
                         /\ np' = [np EXCEPT ![p] = q]
  <2>1. {r \in Slots : state[r] = "UNUSED"} # {}
    BY Zenon DEF ForkAlloc
  <2>2. Min({r \in Slots : state[r] = "UNUSED"})
          \in {r \in Slots : state[r] = "UNUSED"}
    BY <2>1, MinIn, Zenon
  <2> QED
    BY <2>2, Zenon DEF ForkAlloc
<1>2. /\ state[p] = "RUNNING" /\ pc[p] = "user"
      /\ nextpid' = nextpid + 1
      /\ pc' = [pc EXCEPT ![p] = "fork"]
      /\ UNCHANGED <<parent, killed, chan, left, cpu, ptlock, tlock>>
  BY Zenon DEF ForkAlloc, InUser
<1>3. TypeOK'
  BY <1>1, <1>2, SlotFacts DEF TypeOK, States, Pcs
<1>4. PcInv'
  BY <1>1, <1>2, SlotFacts, Zenon DEF PcInv, TypeOK
<1>5. TicksInv'
  BY <1>1, <1>2, SlotFacts, Zenon DEF TicksInv, PcInv, TypeOK
<1>6. ForkInv'
  BY <1>1, <1>2, SlotFacts DEF ForkInv, PcInv, TypeOK
<1>7. FamilyInv'
  BY <1>1, <1>2, SlotFacts
     DEF FamilyInv, PcInv, Live, ForkInv, ParentAlive, TypeOK
<1>8. RunsOnOneCpu'
  BY <1>1, <1>2, SlotFacts DEF RunsOnOneCpu, ForkInv, TypeOK
<1>9. ParentAlive'
  BY <1>1, <1>2, SlotFacts
     DEF ParentAlive, FamilyInv, PcInv, ForkInv, Live, TypeOK
<1>10. NoMissedWakeup'
  BY <1>1, <1>2, SlotFacts
     DEF NoMissedWakeup, PcInv, TicksInv, ForkInv, FamilyInv, ParentAlive,
         Live, TypeOK
<1> QED
  BY <1>3, <1>4, <1>5, <1>6, <1>7, <1>8, <1>9, <1>10, Zenon

\* fork() gives the slot back.
LEMMA ForkFailInv ==
  ASSUME IInv, NEW p \in Slots, ForkFail(p)
  PROVE  IInv'
<1> USE DEF IInv
<1>1. /\ np[p] \in Slots /\ np[p] # p /\ state[np[p]] = "EMBRYO"
      /\ state[p] = "RUNNING" /\ pc[p] = "fork"
  BY Zenon DEF ForkFail, ForkInv
<1>2. /\ state' = [state EXCEPT ![np[p]] = "UNUSED"]
      /\ np' = [np EXCEPT ![p] = None]
      /\ pc' = [pc EXCEPT ![p] = "user"]
      /\ UNCHANGED <<pid, parent, killed, chan, left, cpu, nextpid, ptlock,
                     tlock>>
  BY Zenon DEF ForkFail, procVars
<1>3. TypeOK'
  BY <1>1, <1>2, SlotFacts, Zenon DEF TypeOK, States, Pcs
<1>4. PcInv'
  BY <1>1, <1>2, SlotFacts, Zenon DEF PcInv, TypeOK
<1>5. TicksInv'
  BY <1>1, <1>2, SlotFacts, Zenon DEF TicksInv, PcInv, TypeOK
<1>6. ForkInv'
  BY <1>1, <1>2, SlotFacts DEF ForkInv, PcInv, TypeOK
<1>7. FamilyInv'
  BY <1>1, <1>2, SlotFacts
     DEF FamilyInv, PcInv, Live, ForkInv, ParentAlive, TypeOK
<1>8. RunsOnOneCpu'
  BY <1>1, <1>2, SlotFacts DEF RunsOnOneCpu, ForkInv, TypeOK
<1>9. ParentAlive'
  BY <1>1, <1>2, SlotFacts
     DEF ParentAlive, FamilyInv, PcInv, ForkInv, Live, TypeOK
<1>10. NoMissedWakeup'
  BY <1>1, <1>2, SlotFacts
     DEF NoMissedWakeup, PcInv, TicksInv, ForkInv, FamilyInv, ParentAlive,
         Live, TypeOK
<1> QED
  BY <1>3, <1>4, <1>5, <1>6, <1>7, <1>8, <1>9, <1>10, Zenon

\* fork() makes its caller the parent.
LEMMA ForkCopyInv ==
  ASSUME IInv, NEW p \in Slots, ForkCopy(p)
  PROVE  IInv'
<1> USE DEF IInv
<1>1. /\ np[p] \in Slots /\ np[p] # p /\ state[np[p]] = "EMBRYO"
      /\ state[p] = "RUNNING" /\ pc[p] = "fork"
  BY Zenon DEF ForkCopy, ForkInv
<1>2. /\ parent' = [parent EXCEPT ![np[p]] = p]
      /\ pc' = [pc EXCEPT ![p] = "forked", ![np[p]] = "forkret"]
      /\ UNCHANGED <<state, pid, killed, chan, np, left, cpu, nextpid, ptlock,
                     tlock>>
  BY Zenon DEF ForkCopy, callVars
<1>3. /\ pc' \in [Slots -> Pcs]
      /\ pc'[p] = "forked" /\ pc'[np[p]] = "forkret"
      /\ \A r \in Slots : r # p /\ r # np[p] => pc'[r] = pc[r]
  BY <1>1, <1>2, Zenon DEF TypeOK, Pcs
<1>4. TypeOK'
  BY <1>1, <1>2, <1>3, SlotFacts, Zenon DEF TypeOK, States, Pcs
<1>5. PcInv'
  BY <1>1, <1>2, <1>3, SlotFacts, Zenon DEF PcInv, TypeOK
<1>6. TicksInv'
  BY <1>1, <1>2, <1>3, SlotFacts, Zenon DEF TicksInv, PcInv, TypeOK
<1>7. ForkInv'
  BY <1>1, <1>2, <1>3, SlotFacts DEF ForkInv, PcInv, TypeOK
<1>8. FamilyInv'
  BY <1>1, <1>2, <1>3, SlotFacts
     DEF FamilyInv, PcInv, Live, ForkInv, ParentAlive, TypeOK
<1>9. RunsOnOneCpu'
  BY <1>1, <1>2, <1>3, SlotFacts DEF RunsOnOneCpu, ForkInv, TypeOK
<1>10. ParentAlive'
  BY <1>1, <1>2, <1>3, SlotFacts
     DEF ParentAlive, FamilyInv, PcInv, ForkInv, Live, TypeOK
<1>11. NoMissedWakeup'
  BY <1>1, <1>2, <1>3, SlotFacts
     DEF NoMissedWakeup, PcInv, TicksInv, ForkInv, FamilyInv, ParentAlive,
         Live, TypeOK
<1> QED
  BY <1>4, <1>5, <1>6, <1>7, <1>8, <1>9, <1>10, <1>11, Zenon

\* The child becomes runnable.
LEMMA ForkRunInv ==
  ASSUME IInv, NEW p \in Slots, ForkRun(p)
  PROVE  IInv'
<1> USE DEF IInv
<1>1. /\ np[p] \in Slots /\ np[p] # p /\ state[np[p]] = "EMBRYO"
      /\ state[p] = "RUNNING" /\ pc[p] = "forked"
      /\ parent[np[p]] = p /\ pc[np[p]] = "forkret"
  BY Zenon DEF ForkRun, ForkInv
<1>2. /\ state' = [state EXCEPT ![np[p]] = "RUNNABLE"]
      /\ np' = [np EXCEPT ![p] = None]
      /\ pc' = [pc EXCEPT ![p] = "user"]
      /\ UNCHANGED <<pid, parent, killed, chan, left, cpu, nextpid, ptlock,
                     tlock>>
  BY Zenon DEF ForkRun, procVars
<1>3. TypeOK'
  BY <1>1, <1>2, SlotFacts, Zenon DEF TypeOK, States, Pcs
<1>4. PcInv'
  BY <1>1, <1>2, SlotFacts, Zenon DEF PcInv, TypeOK
<1>5. TicksInv'
  BY <1>1, <1>2, SlotFacts, Zenon DEF TicksInv, PcInv, TypeOK
<1>6. ForkInv'
  BY <1>1, <1>2, SlotFacts DEF ForkInv, PcInv, TypeOK
<1>7. FamilyInv'
  BY <1>1, <1>2, SlotFacts
     DEF FamilyInv, PcInv, Live, ForkInv, ParentAlive, TypeOK
<1>8. RunsOnOneCpu'
  BY <1>1, <1>2, SlotFacts DEF RunsOnOneCpu, ForkInv, TypeOK
<1>9. ParentAlive'
  BY <1>1, <1>2, SlotFacts
     DEF ParentAlive, FamilyInv, PcInv, ForkInv, Live, TypeOK
<1>10. NoMissedWakeup'
  BY <1>1, <1>2, SlotFacts
     DEF NoMissedWakeup, PcInv, TicksInv, ForkInv, FamilyInv, ParentAlive,
         Live, TypeOK
<1> QED
  BY <1>3, <1>4, <1>5, <1>6, <1>7, <1>8, <1>9, <1>10, Zenon

\* exit() begins.
LEMMA ExitInv ==
  ASSUME IInv, NEW p \in Slots, Exit(p)
  PROVE  IInv'
<1> USE DEF IInv
<1>1. TypeOK'
  BY SlotFacts, Zenon DEF Exit, TypeOK, States, Pcs, procVars, callVars
<1>2. PcInv'
  BY SlotFacts, Zenon DEF Exit, PcInv, TypeOK, procVars, callVars
<1>3. TicksInv'
  BY SlotFacts, Zenon DEF Exit, TicksInv, PcInv, TypeOK, procVars, callVars
<1>4. ForkInv'
  BY SlotFacts DEF Exit, ForkInv, PcInv, TypeOK, procVars, callVars
<1>5. FamilyInv'
  BY SlotFacts
     DEF Exit, FamilyInv, PcInv, Live, ForkInv, ParentAlive, TypeOK, procVars,
         callVars
<1>6. RunsOnOneCpu'
  BY SlotFacts DEF Exit, RunsOnOneCpu, ForkInv, TypeOK, procVars, callVars
<1>7. ParentAlive'
  BY SlotFacts, Zenon
     DEF Exit, ParentAlive, FamilyInv, PcInv, ForkInv, Live, TypeOK, procVars,
         callVars
<1>8. NoMissedWakeup'
  BY SlotFacts
     DEF Exit, NoMissedWakeup, PcInv, TicksInv, ForkInv, FamilyInv,
         ParentAlive, Live, TypeOK, procVars, callVars
<1> QED
  BY <1>1, <1>2, <1>3, <1>4, <1>5, <1>6, <1>7, <1>8, Zenon

\* exit() hands the children to init, and wakes it if one is a zombie.
LEMMA ExitZombieInv ==
  ASSUME IInv, NEW p \in Slots, ExitZombie(p)
  PROVE  IInv'
<1> USE DEF IInv
<1>1. /\ state[p] = "RUNNING" /\ pc[p] = "exit" /\ p # initproc
      /\ UNCHANGED <<pid, killed, chan, pc, np, left, nextpid, ptlock, tlock>>
  BY Zenon DEF ExitZombie, callVars, FamilyInv
<1>2. parent' = [q \in Slots |-> IF parent[q] = p THEN initproc ELSE parent[q]]
  BY Zenon DEF ExitZombie
<1>3. cpu' = [c \in Cpus |-> IF cpu[c] = p THEN None ELSE cpu[c]]
  BY Zenon DEF ExitZombie, sched
<1> DEFINE Woken(q) == \/ chan[q] = parent[p]
                       \/ /\ chan[q] = initproc
                          /\ \E r \in Slots : /\ parent[r] = p
                                               /\ state[r] = "ZOMBIE"
<1>4. state' = [q \in Slots |->
                  IF q = p THEN "ZOMBIE"
                  ELSE IF state[q] = "SLEEPING" /\ Woken(q) THEN "RUNNABLE"
                  ELSE state[q]]
  BY Zenon DEF ExitZombie, wakeup1, TypeOK
<1>5. /\ state' \in [Slots -> States] /\ state'[p] = "ZOMBIE"
      /\ \A q \in Slots \ {p} :
           /\ state[q] # "SLEEPING" => state'[q] = state[q]
           /\ state[q] = "SLEEPING" =>
                state'[q] = IF Woken(q) THEN "RUNNABLE" ELSE "SLEEPING"
  BY <1>4, Zenon DEF TypeOK, States
<1> HIDE DEF Woken
<1>6. TypeOK'
  BY <1>1, <1>2, <1>3, <1>5, SlotFacts, Zenon DEF TypeOK, States, Pcs
<1>7. PcInv'
  BY <1>1, <1>2, <1>3, <1>5, SlotFacts, Zenon DEF PcInv, TypeOK
<1>8. TicksInv'
  BY <1>1, <1>2, <1>3, <1>5, SlotFacts, Zenon DEF TicksInv, PcInv, TypeOK
<1>9. ForkInv'
  BY <1>1, <1>2, <1>3, <1>5, SlotFacts DEF ForkInv, PcInv, TypeOK
<1>10. FamilyInv'
  BY <1>1, <1>2, <1>3, <1>5, SlotFacts
     DEF FamilyInv, PcInv, Live, ForkInv, ParentAlive, TypeOK
<1>11. RunsOnOneCpu'
  BY <1>1, <1>2, <1>3, <1>5, SlotFacts DEF RunsOnOneCpu, ForkInv, TypeOK
<1>12. ParentAlive'
  BY <1>1, <1>2, <1>3, <1>5, SlotFacts
     DEF ParentAlive, FamilyInv, PcInv, ForkInv, Live, TypeOK
<1>13. NoMissedWakeup'
  <2> SUFFICES ASSUME NEW s \in Slots, state'[s] = "SLEEPING"
               PROVE  /\ pc'[s] = "wait" =>
                            \A q \in Slots : parent'[q] = s =>
                                              state'[q] # "ZOMBIE"
                      /\ pc'[s] = "sleeping" /\ left'[s] = 0 => tlock' = Ticks
    BY Zenon DEF NoMissedWakeup
  <2>1. s # p /\ state[s] = "SLEEPING" /\ ~Woken(s)
    BY <1>5, Zenon
  <2>2. pc[s] = "sleeping" /\ left[s] = 0 => tlock = Ticks
    BY <2>1, Zenon DEF NoMissedWakeup
  <2>3. ASSUME pc[s] = "wait", NEW q \in Slots, parent'[q] = s,
               state'[q] = "ZOMBIE"
        PROVE  FALSE
    <3>1. chan[s] = s
      BY <2>1, <2>3, Zenon DEF PcInv
    <3>2. s # parent[p]
      BY <2>1, <3>1, Zenon DEF Woken
    <3>3. q # p
      BY <1>2, <2>3, <3>2, Zenon DEF FamilyInv
    <3>4. state[q] = "ZOMBIE"
      BY <1>5, <2>3, <3>3, Zenon
    <3>5. parent[q] # p
      BY <1>2, <2>1, <2>3, <3>1, <3>4, Zenon DEF Woken
    <3>6. parent[q] = s
      BY <1>2, <2>3, <3>5, Zenon
    <3> QED
      BY <2>1, <2>3, <3>4, <3>6, Zenon DEF NoMissedWakeup
  <2> QED
    BY <1>1, <2>2, <2>3, Zenon
<1> QED
  BY <1>6, <1>7, <1>8, <1>9, <1>10, <1>11, <1>12, <1>13, Zenon

\* wait() frees a zombie, which has no children left.
LEMMA WaitReapInv ==
  ASSUME IInv, NEW p \in Slots, WaitReap(p)
  PROVE  IInv'
<1> USE DEF IInv
<1>1. PICK q \in Slots : /\ state[q] = "ZOMBIE"
                         /\ state' = [state EXCEPT ![q] = "UNUSED"]
                         /\ pid' = [pid EXCEPT ![q] = 0]
                         /\ parent' = [parent EXCEPT ![q] = None]
                         /\ killed' = [killed EXCEPT ![q] = FALSE]
  <2>1. Min(Zombies(p)) \in Zombies(p)
    BY MinIn, Zenon DEF WaitReap, Zombies, Children
  <2> QED
    BY <2>1, Zenon DEF WaitReap, Zombies, Children
<1>2. /\ state[p] = "RUNNING" /\ pc[p] \in {"user", "wait"}
      /\ pc' = [pc EXCEPT ![p] = "user"]
      /\ ptlock' = None
      /\ UNCHANGED <<chan, np, left, cpu, nextpid, tlock>>
  BY Zenon DEF WaitReap, Waiting, InUser, callVars
<1>3. TypeOK'
  BY <1>1, <1>2, SlotFacts, Zenon DEF TypeOK, States, Pcs
<1>4. PcInv'
  BY <1>1, <1>2, SlotFacts, Zenon DEF PcInv, TypeOK
<1>5. TicksInv'
  BY <1>1, <1>2, SlotFacts, Zenon DEF TicksInv, PcInv, TypeOK
<1>6. ForkInv'
  BY <1>1, <1>2, SlotFacts DEF ForkInv, PcInv, TypeOK
<1>7. FamilyInv'
  BY <1>1, <1>2, SlotFacts
     DEF FamilyInv, PcInv, Live, ForkInv, ParentAlive, TypeOK
<1>8. RunsOnOneCpu'
  BY <1>1, <1>2, SlotFacts DEF RunsOnOneCpu, ForkInv, TypeOK
<1>9. ParentAlive'
  BY <1>1, <1>2, SlotFacts
     DEF ParentAlive, FamilyInv, PcInv, ForkInv, Live, TypeOK
<1>10. NoMissedWakeup'
  BY <1>1, <1>2, SlotFacts
     DEF NoMissedWakeup, PcInv, TicksInv, ForkInv, FamilyInv, ParentAlive,
         Live, TypeOK
<1> QED
  BY <1>3, <1>4, <1>5, <1>6, <1>7, <1>8, <1>9, <1>10, Zenon

\* wait() returns -1.
LEMMA WaitFailInv ==
  ASSUME IInv, NEW p \in Slots, WaitFail(p)
  PROVE  IInv'
<1> USE DEF IInv
<1>1. /\ state[p] = "RUNNING" /\ pc[p] \in {"user", "wait"}
      /\ pc' = [pc EXCEPT ![p] = "user"]
      /\ ptlock' = None
      /\ UNCHANGED <<state, pid, parent, killed, chan, np, left, cpu, nextpid,
                     tlock>>
  BY Zenon DEF WaitFail, Waiting, InUser, callVars, procVars
<1>2. TypeOK'
  BY <1>1, SlotFacts, Zenon DEF TypeOK, States, Pcs
<1>3. PcInv'
  BY <1>1, SlotFacts, Zenon DEF PcInv, TypeOK
<1>4. TicksInv'
  BY <1>1, SlotFacts, Zenon DEF TicksInv, PcInv, TypeOK
<1>5. ForkInv'
  BY <1>1, SlotFacts DEF ForkInv, PcInv, TypeOK
<1>6. FamilyInv'
  BY <1>1, SlotFacts DEF FamilyInv, PcInv, Live, ForkInv, ParentAlive, TypeOK
<1>7. RunsOnOneCpu'
  BY <1>1, SlotFacts DEF RunsOnOneCpu, ForkInv, TypeOK
<1>8. ParentAlive'
  BY <1>1, SlotFacts, Zenon
     DEF ParentAlive, FamilyInv, PcInv, ForkInv, Live, TypeOK
<1>9. NoMissedWakeup'
  BY <1>1, SlotFacts
     DEF NoMissedWakeup, PcInv, TicksInv, ForkInv, FamilyInv, ParentAlive,
         Live, TypeOK
<1> QED
  BY <1>2, <1>3, <1>4, <1>5, <1>6, <1>7, <1>8, <1>9, Zenon

\* wait() sleeps when no child is a zombie.
LEMMA WaitSleepInv ==
  ASSUME IInv, NEW p \in Slots, WaitSleep(p)
  PROVE  IInv'
<1> USE DEF IInv
<1>1. /\ state[p] = "RUNNING" /\ pc[p] \in {"user", "wait"}
      /\ \A q \in Slots : parent[q] = p => state[q] # "ZOMBIE"
  BY Zenon DEF WaitSleep, Waiting, InUser, Zombies, Children
<1>2. /\ state' = [state EXCEPT ![p] = "SLEEPING"]
      /\ chan' = [chan EXCEPT ![p] = p]
      /\ pc' = [pc EXCEPT ![p] = "wait"]
      /\ ptlock' = None
      /\ cpu' = [c \in Cpus |-> IF cpu[c] = p THEN None ELSE cpu[c]]
      /\ UNCHANGED <<pid, parent, killed, np, left, nextpid, tlock>>
  BY Zenon DEF WaitSleep, sched, procVars, callVars
<1>3. TypeOK'
  BY <1>1, <1>2, SlotFacts, Zenon DEF TypeOK, States, Pcs
<1>4. PcInv'
  BY <1>1, <1>2, SlotFacts, Zenon DEF PcInv, TypeOK
<1>5. TicksInv'
  BY <1>1, <1>2, SlotFacts, Zenon DEF TicksInv, PcInv, TypeOK
<1>6. ForkInv'
  BY <1>1, <1>2, SlotFacts DEF ForkInv, PcInv, TypeOK
<1>7. FamilyInv'
  BY <1>1, <1>2, SlotFacts
     DEF FamilyInv, PcInv, Live, ForkInv, ParentAlive, TypeOK
<1>8. RunsOnOneCpu'
  BY <1>1, <1>2, SlotFacts DEF RunsOnOneCpu, ForkInv, TypeOK
<1>9. ParentAlive'
  BY <1>1, <1>2, SlotFacts
     DEF ParentAlive, FamilyInv, PcInv, ForkInv, Live, TypeOK
<1>10. NoMissedWakeup'
  BY <1>1, <1>2, SlotFacts
     DEF NoMissedWakeup, PcInv, TicksInv, ForkInv, FamilyInv, ParentAlive,
         Live, TypeOK
<1> QED
  BY <1>3, <1>4, <1>5, <1>6, <1>7, <1>8, <1>9, <1>10, Zenon

\* kill() makes a sleeper runnable.
LEMMA KillInv ==
  ASSUME IInv, NEW p \in Slots, NEW k \in KillArgs, Kill(p, k)
  PROVE  IInv'
<1> USE DEF IInv
<1>1. PICK q \in Slots : /\ killed' = [killed EXCEPT ![q] = TRUE]
                         /\ state' = IF state[q] = "SLEEPING"
                                     THEN [state EXCEPT ![q] = "RUNNABLE"]
                                     ELSE state
  <2>1. {r \in Slots : pid[r] = k} # {}
    BY Zenon DEF Kill
  <2>2. Min({r \in Slots : pid[r] = k}) \in Slots
    BY <2>1, MinIn, Zenon
  <2> QED
    BY <2>2, Zenon DEF Kill
<1>2. UNCHANGED <<pid, parent, chan, pc, np, left, cpu, nextpid, ptlock,
                  tlock>>
  BY Zenon DEF Kill, callVars
<1>3. /\ state' \in [Slots -> States]
      /\ \A r \in Slots : 
           \/ state'[r] = state[r]
           \/ state[r] = "SLEEPING" /\ state'[r] = "RUNNABLE"
  <2>1. CASE state[q] = "SLEEPING"
    BY <1>1, <2>1, Zenon DEF TypeOK, States
  <2>2. CASE state[q] # "SLEEPING"
    BY <1>1, <2>2, Zenon DEF TypeOK
  <2> QED
    BY <2>1, <2>2, Zenon
<1>4. TypeOK'
  BY <1>1, <1>2, <1>3, SlotFacts, Zenon DEF TypeOK
<1>5. PcInv'
  BY <1>2, <1>3, SlotFacts, Zenon DEF PcInv, TypeOK
<1>6. TicksInv'
  BY <1>2, <1>3, SlotFacts, Zenon DEF TicksInv, PcInv, TypeOK
<1>7. ForkInv'
  BY <1>2, <1>3, SlotFacts DEF ForkInv, PcInv, TypeOK
<1>8. FamilyInv'
  BY <1>2, <1>3, SlotFacts, Zenon
     DEF FamilyInv, PcInv, Live, ForkInv, ParentAlive, TypeOK
<1>9. RunsOnOneCpu'
  BY <1>2, <1>3, SlotFacts DEF RunsOnOneCpu, ForkInv, TypeOK
<1>10. ParentAlive'
  BY <1>2, <1>3, SlotFacts
     DEF ParentAlive, FamilyInv, PcInv, ForkInv, Live, TypeOK
<1>11. NoMissedWakeup'
  BY <1>2, <1>3, SlotFacts
     DEF NoMissedWakeup, PcInv, TicksInv, ForkInv, FamilyInv, ParentAlive,
         Live, TypeOK
<1> QED
  BY <1>4, <1>5, <1>6, <1>7, <1>8, <1>9, <1>10, <1>11, Zenon

\* sys_sleep() takes tickslock and reads ticks.
LEMMA SleepEnterInv ==
  ASSUME IInv, NEW p \in Slots, NEW k \in 1..MaxSleep, SleepEnter(p, k)
  PROVE  IInv'
<1> USE DEF IInv
<1>1. TypeOK'
  BY SlotFacts DEF SleepEnter, TypeOK, States, Pcs, procVars, callVars, InUser
<1>2. PcInv'
  BY SlotFacts, Zenon DEF SleepEnter, PcInv, TypeOK, procVars, callVars, InUser
<1>3. TicksInv'
  BY SlotFacts, Zenon
     DEF SleepEnter, TicksInv, PcInv, TypeOK, procVars, callVars, InUser
<1>4. ForkInv'
  BY SlotFacts
     DEF SleepEnter, ForkInv, PcInv, TypeOK, procVars, callVars, InUser
<1>5. FamilyInv'
  BY SlotFacts
     DEF SleepEnter, FamilyInv, PcInv, Live, ForkInv, ParentAlive, TypeOK,
         procVars, callVars, InUser
<1>6. RunsOnOneCpu'
  BY SlotFacts
     DEF SleepEnter, RunsOnOneCpu, ForkInv, TypeOK, procVars, callVars, InUser
<1>7. ParentAlive'
  BY SlotFacts, Zenon
     DEF SleepEnter, ParentAlive, FamilyInv, PcInv, ForkInv, Live, TypeOK,
         procVars, callVars, InUser
<1>8. NoMissedWakeup'
  BY SlotFacts
     DEF SleepEnter, NoMissedWakeup, PcInv, TicksInv, ForkInv, FamilyInv,
         ParentAlive, Live, TypeOK, procVars, callVars, InUser
<1> QED
  BY <1>1, <1>2, <1>3, <1>4, <1>5, <1>6, <1>7, <1>8, Zenon

\* sys_sleep() returns and releases tickslock.
LEMMA SleepReturnInv ==
  ASSUME IInv, NEW p \in Slots, SleepReturn(p)
  PROVE  IInv'
<1> USE DEF IInv
<1>1. TypeOK'
  BY SlotFacts, Zenon DEF SleepReturn, TypeOK, States, Pcs, procVars, callVars
<1>2. PcInv'
  BY SlotFacts, Zenon DEF SleepReturn, PcInv, TypeOK, procVars, callVars
<1>3. TicksInv'
  BY SlotFacts, Zenon
     DEF SleepReturn, TicksInv, PcInv, TypeOK, procVars, callVars
<1>4. ForkInv'
  BY SlotFacts DEF SleepReturn, ForkInv, PcInv, TypeOK, procVars, callVars
<1>5. FamilyInv'
  BY SlotFacts
     DEF SleepReturn, FamilyInv, PcInv, Live, ForkInv, ParentAlive, TypeOK,
         procVars, callVars
<1>6. RunsOnOneCpu'
  BY SlotFacts
     DEF SleepReturn, RunsOnOneCpu, ForkInv, TypeOK, procVars, callVars
<1>7. ParentAlive'
  BY SlotFacts, Zenon
     DEF SleepReturn, ParentAlive, FamilyInv, PcInv, ForkInv, Live, TypeOK,
         procVars, callVars
<1>8. NoMissedWakeup'
  BY SlotFacts
     DEF SleepReturn, NoMissedWakeup, PcInv, TicksInv, ForkInv, FamilyInv,
         ParentAlive, Live, TypeOK, procVars, callVars
<1> QED
  BY <1>1, <1>2, <1>3, <1>4, <1>5, <1>6, <1>7, <1>8, Zenon

\* sys_sleep() will sleep: its time is not over, and tickslock is held.
LEMMA SleepTestInv ==
  ASSUME IInv, NEW p \in Slots, SleepTest(p)
  PROVE  IInv'
<1> USE DEF IInv
<1>1. TypeOK'
  BY SlotFacts, Zenon DEF SleepTest, TypeOK, States, Pcs, procVars, callVars
<1>2. PcInv'
  BY SlotFacts, Zenon DEF SleepTest, PcInv, TypeOK, procVars, callVars
<1>3. TicksInv'
  BY SlotFacts, Zenon
     DEF SleepTest, TicksInv, PcInv, TypeOK, procVars, callVars
<1>4. ForkInv'
  BY SlotFacts DEF SleepTest, ForkInv, PcInv, TypeOK, procVars, callVars
<1>5. FamilyInv'
  BY SlotFacts
     DEF SleepTest, FamilyInv, PcInv, Live, ForkInv, ParentAlive, TypeOK,
         procVars, callVars
<1>6. RunsOnOneCpu'
  BY SlotFacts DEF SleepTest, RunsOnOneCpu, ForkInv, TypeOK, procVars, callVars
<1>7. ParentAlive'
  BY SlotFacts, Zenon
     DEF SleepTest, ParentAlive, FamilyInv, PcInv, ForkInv, Live, TypeOK,
         procVars, callVars
<1>8. NoMissedWakeup'
  BY SlotFacts
     DEF SleepTest, NoMissedWakeup, PcInv, TicksInv, ForkInv, FamilyInv,
         ParentAlive, Live, TypeOK, procVars, callVars
<1> QED
  BY <1>1, <1>2, <1>3, <1>4, <1>5, <1>6, <1>7, <1>8, Zenon

\* sleep() releases tickslock in the step in which it sleeps.
LEMMA SleepGoInv ==
  ASSUME IInv, NEW p \in Slots, SleepGo(p)
  PROVE  IInv'
<1> USE DEF IInv
<1>1. TypeOK'
  BY SlotFacts, Zenon
     DEF SleepGo, TypeOK, States, Pcs, procVars, callVars, sched
<1>2. PcInv'
  BY SlotFacts, Zenon DEF SleepGo, PcInv, TypeOK, procVars, callVars, sched
<1>3. TicksInv'
  BY SlotFacts, Zenon
     DEF SleepGo, TicksInv, PcInv, TypeOK, procVars, callVars, sched
<1>4. ForkInv'
  BY SlotFacts DEF SleepGo, ForkInv, PcInv, TypeOK, procVars, callVars, sched
<1>5. FamilyInv'
  BY SlotFacts
     DEF SleepGo, FamilyInv, PcInv, Live, ForkInv, ParentAlive, TypeOK,
         procVars, callVars, sched
<1>6. RunsOnOneCpu'
  BY SlotFacts
     DEF SleepGo, RunsOnOneCpu, ForkInv, TypeOK, procVars, callVars, sched
<1>7. ParentAlive'
  BY SlotFacts
     DEF SleepGo, ParentAlive, FamilyInv, PcInv, ForkInv, Live, TypeOK,
         procVars, callVars, sched
<1>8. NoMissedWakeup'
  BY SlotFacts
     DEF SleepGo, NoMissedWakeup, PcInv, TicksInv, ForkInv, FamilyInv,
         ParentAlive, Live, TypeOK, procVars, callVars, sched
<1> QED
  BY <1>1, <1>2, <1>3, <1>4, <1>5, <1>6, <1>7, <1>8, Zenon

\* sleep() waits for tickslock.
LEMMA SleepSpinInv ==
  ASSUME IInv, NEW p \in Slots, SleepSpin(p)
  PROVE  IInv'
<1> USE DEF IInv
<1>1. TypeOK'
  BY SlotFacts, Zenon DEF SleepSpin, TypeOK, States, Pcs, procVars, callVars
<1>2. PcInv'
  BY SlotFacts, Zenon DEF SleepSpin, PcInv, TypeOK, procVars, callVars
<1>3. TicksInv'
  BY SlotFacts, Zenon
     DEF SleepSpin, TicksInv, PcInv, TypeOK, procVars, callVars
<1>4. ForkInv'
  BY SlotFacts DEF SleepSpin, ForkInv, PcInv, TypeOK, procVars, callVars
<1>5. FamilyInv'
  BY SlotFacts
     DEF SleepSpin, FamilyInv, PcInv, Live, ForkInv, ParentAlive, TypeOK,
         procVars, callVars
<1>6. RunsOnOneCpu'
  BY SlotFacts DEF SleepSpin, RunsOnOneCpu, ForkInv, TypeOK, procVars, callVars
<1>7. ParentAlive'
  BY SlotFacts, Zenon
     DEF SleepSpin, ParentAlive, FamilyInv, PcInv, ForkInv, Live, TypeOK,
         procVars, callVars
<1>8. NoMissedWakeup'
  BY SlotFacts
     DEF SleepSpin, NoMissedWakeup, PcInv, TicksInv, ForkInv, FamilyInv,
         ParentAlive, Live, TypeOK, procVars, callVars
<1> QED
  BY <1>1, <1>2, <1>3, <1>4, <1>5, <1>6, <1>7, <1>8, Zenon

\* sleep() returns with tickslock.
LEMMA SleepAgainInv ==
  ASSUME IInv, NEW p \in Slots, SleepAgain(p)
  PROVE  IInv'
<1> USE DEF IInv
<1>1. TypeOK'
  BY SlotFacts, Zenon DEF SleepAgain, TypeOK, States, Pcs, procVars, callVars
<1>2. PcInv'
  BY SlotFacts, Zenon DEF SleepAgain, PcInv, TypeOK, procVars, callVars
<1>3. TicksInv'
  BY SlotFacts, Zenon
     DEF SleepAgain, TicksInv, PcInv, TypeOK, procVars, callVars
<1>4. ForkInv'
  BY SlotFacts DEF SleepAgain, ForkInv, PcInv, TypeOK, procVars, callVars
<1>5. FamilyInv'
  BY SlotFacts
     DEF SleepAgain, FamilyInv, PcInv, Live, ForkInv, ParentAlive, TypeOK,
         procVars, callVars
<1>6. RunsOnOneCpu'
  BY SlotFacts
     DEF SleepAgain, RunsOnOneCpu, ForkInv, TypeOK, procVars, callVars
<1>7. ParentAlive'
  BY SlotFacts, Zenon
     DEF SleepAgain, ParentAlive, FamilyInv, PcInv, ForkInv, Live, TypeOK,
         procVars, callVars
<1>8. NoMissedWakeup'
  BY SlotFacts
     DEF SleepAgain, NoMissedWakeup, PcInv, TicksInv, ForkInv, FamilyInv,
         ParentAlive, Live, TypeOK, procVars, callVars
<1> QED
  BY <1>1, <1>2, <1>3, <1>4, <1>5, <1>6, <1>7, <1>8, Zenon

\* The timer interrupt counts a tick and holds tickslock.
LEMMA TickInv ==
  ASSUME IInv, Tick
  PROVE  IInv'
<1> USE DEF IInv
<1>1. TypeOK'
  BY SlotFacts DEF Tick, TypeOK, States, Pcs, procVars, callVars
<1>2. PcInv'
  BY SlotFacts, Zenon DEF Tick, PcInv, TypeOK, procVars, callVars
<1>3. TicksInv'
  BY SlotFacts, Zenon DEF Tick, TicksInv, PcInv, TypeOK, procVars, callVars
<1>4. ForkInv'
  BY SlotFacts DEF Tick, ForkInv, PcInv, TypeOK, procVars, callVars
<1>5. FamilyInv'
  BY SlotFacts, Zenon
     DEF Tick, FamilyInv, PcInv, Live, ForkInv, ParentAlive, TypeOK, procVars,
         callVars
<1>6. RunsOnOneCpu'
  BY SlotFacts DEF Tick, RunsOnOneCpu, ForkInv, TypeOK, procVars, callVars
<1>7. ParentAlive'
  BY SlotFacts, Zenon
     DEF Tick, ParentAlive, FamilyInv, PcInv, ForkInv, Live, TypeOK, procVars,
         callVars
<1>8. NoMissedWakeup'
  BY SlotFacts
     DEF Tick, NoMissedWakeup, PcInv, TicksInv, ForkInv, FamilyInv,
         ParentAlive, Live, TypeOK, procVars, callVars
<1> QED
  BY <1>1, <1>2, <1>3, <1>4, <1>5, <1>6, <1>7, <1>8, Zenon

\* The timer interrupt wakes all who sleep on &ticks.
LEMMA TickWakeupInv ==
  ASSUME IInv, TickWakeup
  PROVE  IInv'
<1> USE DEF IInv
<1>1. /\ tlock = Ticks /\ tlock' = None
      /\ UNCHANGED <<pid, parent, killed, chan, pc, np, left, cpu, nextpid,
                     ptlock>>
  BY Zenon DEF TickWakeup, procVars, callVars
<1>2. /\ state' \in [Slots -> States]
      /\ \A q \in Slots :
           state'[q] = IF state[q] = "SLEEPING" /\ chan[q] = Ticks
                       THEN "RUNNABLE" ELSE state[q]
  BY Zenon DEF TickWakeup, wakeup1, TypeOK, States
<1>3. TypeOK'
  BY <1>1, <1>2, SlotFacts, Zenon DEF TypeOK, States, Pcs
<1>4. PcInv'
  BY <1>1, <1>2, SlotFacts, Zenon DEF PcInv, TypeOK
<1>5. TicksInv'
  BY <1>1, <1>2, SlotFacts, Zenon DEF TicksInv, PcInv, TypeOK
<1>6. ForkInv'
  BY <1>1, <1>2, SlotFacts DEF ForkInv, PcInv, TypeOK
<1>7. FamilyInv'
  BY <1>1, <1>2, SlotFacts
     DEF FamilyInv, PcInv, Live, ForkInv, ParentAlive, TypeOK
<1>8. RunsOnOneCpu'
  BY <1>1, <1>2, SlotFacts DEF RunsOnOneCpu, ForkInv, TypeOK
<1>9. ParentAlive'
  BY <1>1, <1>2, SlotFacts
     DEF ParentAlive, FamilyInv, PcInv, ForkInv, Live, TypeOK
<1>10. NoMissedWakeup'
  BY <1>1, <1>2, SlotFacts
     DEF NoMissedWakeup, PcInv, TicksInv, ForkInv, FamilyInv, ParentAlive,
         Live, TypeOK
<1> QED
  BY <1>3, <1>4, <1>5, <1>6, <1>7, <1>8, <1>9, <1>10, Zenon

-----------------------------------------------------------------------------
\* userinit() establishes the invariant.
LEMMA InitInv == Init => IInv
<1> SUFFICES ASSUME Init PROVE IInv
  BY Zenon
<1>1. TypeOK
  BY SlotFacts, Zenon DEF Init, TypeOK, States, Pcs
<1>2. PcInv /\ TicksInv /\ ForkInv
  BY SlotFacts, Zenon DEF Init, PcInv, TicksInv, ForkInv
<1>3. FamilyInv
  BY SlotFacts, Zenon DEF Init, FamilyInv, Live
<1>4. RunsOnOneCpu /\ ParentAlive /\ NoMissedWakeup
  BY SlotFacts, Zenon DEF Init, RunsOnOneCpu, ParentAlive, NoMissedWakeup
<1> QED
  BY <1>1, <1>2, <1>3, <1>4, Zenon DEF IInv

\* Every step keeps the invariant.
LEMMA NextInv == IInv /\ [Next]_vars => IInv'
<1> SUFFICES ASSUME IInv, [Next]_vars PROVE IInv'
  BY Zenon
<1>1. CASE UNCHANGED vars
  BY <1>1
     DEF vars, IInv, TypeOK, PcInv, TicksInv, ForkInv, FamilyInv, RunsOnOneCpu,
         ParentAlive, NoMissedWakeup
<1>2. ASSUME NEW p \in Slots, NEW c \in Cpus, Run(c, p)
      PROVE  IInv'
  BY <1>2, RunInv, Zenon
<1>3. ASSUME NEW p \in Slots, Step(p)
      PROVE  IInv'
  BY <1>3, YieldInv, ForkAllocInv, ForkFailInv, ForkCopyInv, ForkRunInv,
     ExitInv, ExitZombieInv, WaitReapInv, WaitFailInv, WaitSleepInv, KillInv,
     SleepEnterInv, SleepReturnInv, SleepTestInv, SleepGoInv, SleepSpinInv,
     SleepAgainInv, Zenon DEF Step
<1>4. CASE Tick \/ TickWakeup
  BY <1>4, TickInv, TickWakeupInv, Zenon
<1> QED
  BY <1>1, <1>2, <1>3, <1>4, Zenon DEF Next

\* The inductive invariant holds in every reachable state.
LEMMA Invariance == Spec => []IInv
BY InitInv, NextInv, PTL DEF Spec

\* A process runs on exactly one processor while it is RUNNING and on none
\* otherwise.
THEOREM OneCpu == Spec => []RunsOnOneCpu
<1>1. IInv => RunsOnOneCpu
  BY Zenon DEF IInv
<1> QED
  BY <1>1, Invariance, PTL

\* Every process except init has a parent that has not exited.
THEOREM NoOrphans == Spec => []ParentAlive
<1>1. IInv => ParentAlive
  BY Zenon DEF IInv
<1> QED
  BY <1>1, Invariance, PTL

\* No process sleeps on past what it waits for in wait() or sys_sleep().
THEOREM NoLostWakeup == Spec => []NoMissedWakeup
<1>1. IInv => NoMissedWakeup
  BY Zenon DEF IInv
<1> QED
  BY <1>1, Invariance, PTL
=============================================================================
