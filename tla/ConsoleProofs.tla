---------------------------- MODULE ConsoleProofs ---------------------------
(***************************************************************************)
(* Proofs about Console and Spinlock, for every number of processors and    *)
(* processes, every size of the ring and every size of reads.               *)
(***************************************************************************)
EXTENDS Console, NatLemmas

Contexts == Procs \cup Cpus

\* Between pushcli() in acquire() and popcli() in release(), and where the
\* lock is taken.
Locking == {"spin", "got", "critical", "release"}
Held == {"got", "critical", "release"}

Pcs == Locking \cup {"none", "user", "call", "iret", "asleep", "exited"}

TypeOK ==
  /\ cpu \in [Cpus -> [fl : BOOLEAN, ncli : Nat, intena : BOOLEAN]]
  /\ lk \in [locked : BOOLEAN, cpu : Cpus \cup {NoCpu}]
  /\ panicked \in BOOLEAN
  /\ buf \in [0..INPUT_BUF - 1 -> Char]
  /\ r \in 0..WRAP - 1 /\ w \in 0..WRAP - 1 /\ e \in 0..WRAP - 1
  /\ pc \in [Contexts -> Pcs]
  /\ run \in [Cpus -> Procs \cup {NoProc}]
  /\ inTrap \in [Procs -> BOOLEAN] /\ saved \in [Procs -> BOOLEAN]
  /\ killed \in [Procs -> BOOLEAN]

\* The processor's thread is where an interrupt may come.
Open(c) ==
  run[c] = NoProc \/ (~inTrap[run[c]] /\ pc[run[c]] \in {"user", "call"})

\* The state of a processor: fl and ncli, and intena under acquire(), follow
\* from what it executes.
CpuOK(c) ==
  /\ pc[c] \in {"none", "call", "iret"} \cup Locking
  /\ pc[c] \in {"call", "iret"} => ~cpu[c].fl /\ cpu[c].ncli = 0
  /\ pc[c] \in Locking => ~cpu[c].fl /\ cpu[c].ncli = 1 /\ ~cpu[c].intena
  /\ pc[c] # "none" => Open(c)
  /\ pc[c] = "none" /\ Open(c) => cpu[c].fl /\ cpu[c].ncli = 0
  /\ pc[c] = "none" /\ ~Open(c) =>
       /\ ~cpu[c].fl
       /\ IF inTrap[run[c]] THEN cpu[c].ncli = 0
          ELSE cpu[c].ncli = 1 /\ cpu[c].intena

CpuInv == \A c \in Cpus : CpuOK(c)

\* A thread p that waits for a processor has kept in sched() what it needs
\* when it gets one.
ThreadOK(p) ==
  /\ pc[p] \in {"user", "call", "asleep", "exited"} \cup Locking
  /\ inTrap[p] => pc[p] \in {"user", "call"}
  /\ pc[p] \in {"asleep", "exited"} => \A c \in Cpus : run[c] # p
  /\ (\A c \in Cpus : run[c] # p) =>
       /\ pc[p] \in {"user", "call", "asleep", "exited"}
       /\ pc[p] # "exited" => (saved[p] <=> ~inTrap[p])

\* Each thread runs on one processor at most.
ThreadInv ==
  /\ \A c, d \in Cpus : run[c] \in Procs /\ run[c] = run[d] => c = d
  /\ \A p \in Procs : ThreadOK(p)

\* cons.lock: one context holds it, and its processor is noted while the
\* critical section lasts.
LockInv ==
  /\ \A x, y \in Contexts : pc[x] \in Held /\ pc[y] \in Held => x = y
  /\ lk.locked <=> \E x \in Contexts : pc[x] \in Held
  /\ \A c \in Cpus :
       lk.cpu = c <=> \E x \in Contexts : pc[x] = "critical" /\ On(x, c)

\* From position i to position j of the counters.
Dist(i, j) == (j + WRAP - i) % WRAP

\* r, w and e follow each other, at most a ring apart; a full ring is one
\* finished line.
RingInv ==
  /\ Dist(r, w) + Dist(w, e) = Dist(r, e)
  /\ Dist(r, e) <= INPUT_BUF
  /\ Dist(r, e) = INPUT_BUF => w = e
  /\ \A i \in 1..Dist(w, e) : buf[Slot(w + i - 1)] # "newline"

\* The inductive invariant.
IInv ==
  /\ TypeOK /\ CpuInv /\ ThreadInv /\ LockInv /\ RingInv
  /\ NoPanic /\ SleepsForReason

\* A process that is going to sleep is in its critical section, and no line
\* has been finished since its test.
WaitInv ==
  /\ op \in [Procs -> {"none", "read", "write", "sleep"}]
  /\ \A p \in Procs : op[p] = "sleep" => pc[p] = "critical" /\ r = w

CpuState == [fl : BOOLEAN, ncli : Nat, intena : BOOLEAN]

-----------------------------------------------------------------------------
\* pushcli() turns interrupts off and keeps how they were on the first level.
LEMMA PushFirst ==
  ASSUME NEW k \in CpuState, k.ncli = 0
  PROVE  /\ pushcli(k) \in CpuState
         /\ pushcli(k).fl = FALSE /\ pushcli(k).ncli = 1
         /\ pushcli(k).intena = k.fl
BY DEF CpuState, pushcli

LEMMA PushAgain ==
  ASSUME NEW k \in CpuState, k.ncli = 1
  PROVE  /\ pushcli(k) \in CpuState /\ pushcli(k).ncli = 2
         /\ pushcli(k).intena = k.intena
BY DEF CpuState, pushcli

\* One field of a processor's state.
LEMMA FieldFacts ==
  ASSUME NEW k \in CpuState, NEW b \in BOOLEAN
  PROVE  /\ [k EXCEPT !.fl = b] \in CpuState
         /\ [k EXCEPT !.fl = b].fl = b
         /\ [k EXCEPT !.fl = b].ncli = k.ncli
         /\ [k EXCEPT !.fl = b].intena = k.intena
         /\ [k EXCEPT !.intena = b] \in CpuState
         /\ [k EXCEPT !.intena = b].intena = b
         /\ [k EXCEPT !.intena = b].ncli = k.ncli
BY Zenon DEF CpuState

\* popcli() puts them back on the last level.
LEMMA PopFacts ==
  ASSUME NEW k \in CpuState, k.ncli > 0
  PROVE  /\ popcli(k) \in CpuState
         /\ popcli(k).fl <=> k.ncli = 1 /\ k.intena
         /\ popcli(k).ncli = k.ncli - 1
         /\ popcli(k).intena = k.intena
<1>1. k.ncli - 1 \in Nat /\ (k.ncli = 1 /\ k.intena) \in BOOLEAN
  BY DEF CpuState
<1>2. ASSUME NEW a \in Nat, NEW b \in BOOLEAN
      PROVE  [k EXCEPT !.ncli = a, !.fl = b] \in CpuState
  <2>1. [k EXCEPT !.ncli = a] \in CpuState
    BY Zenon DEF CpuState
  <2> QED
    BY <2>1, FieldFacts, Zenon
<1>3. popcli(k) \in CpuState
  BY <1>1, <1>2, Zenon DEF popcli
<1>4. popcli(k).fl <=> k.ncli = 1 /\ k.intena
  BY Zenon DEF CpuState, popcli
<1>5. popcli(k).ncli = k.ncli - 1 /\ popcli(k).intena = k.intena
  BY Zenon DEF CpuState, popcli
<1> QED
  BY <1>3, <1>4, <1>5, Zenon

\* A processor leaves sched() for its idle loop with interrupts on.
LEMMA IdleFacts ==
  ASSUME NEW k \in CpuState, k.ncli = 1
  PROVE  Idle(k) \in CpuState /\ Idle(k).fl = TRUE /\ Idle(k).ncli = 0
<1>1. popcli(k) \in CpuState /\ popcli(k).ncli = 0
  BY PopFacts DEF CpuState
<1> QED
  BY <1>1, FieldFacts, Zenon DEF Idle

\* A processor leaves sched() in a thread with interrupts as that kept them.
LEMMA DispatchFacts ==
  ASSUME NEW k \in CpuState, k.ncli = 1, NEW s \in BOOLEAN
  PROVE  /\ Dispatch(k, s) \in CpuState
         /\ Dispatch(k, s).fl = s /\ Dispatch(k, s).ncli = 0
<1> DEFINE j == [k EXCEPT !.intena = s]
<1>1. j \in CpuState /\ j.ncli = 1 /\ j.intena = s
  BY Zenon DEF CpuState
<1>2. Dispatch(k, s) = popcli(j)
  BY Zenon DEF Dispatch
<1>3. popcli(j) \in CpuState /\ (popcli(j).fl <=> s) /\ popcli(j).ncli = 0
  <2> HIDE DEF j
  <2> QED
    BY <1>1, PopFacts
<1>4. popcli(j).fl \in BOOLEAN
  BY <1>3, Zenon DEF CpuState
<1> QED
  BY <1>2, <1>3, <1>4, Zenon

-----------------------------------------------------------------------------
\* The numbers the arithmetic of the ring is about.
LEMMA WrapFacts ==
  /\ WRAP \in Nat \ {0} /\ INPUT_BUF \in Nat \ {0} /\ INPUT_BUF < WRAP
  /\ WRAP % INPUT_BUF = 0
BY ConsoleAssumption

\* The distance of two counters, wherever they have wrapped.
LEMMA DistIs ==
  ASSUME NEW i \in 0..WRAP - 1, NEW j \in 0..WRAP - 1
  PROVE  Dist(i, j) = IF j >= i THEN j - i ELSE j - i + WRAP
<1>1. CASE j >= i
  <2>1. j + WRAP - i \in Int /\ (j + WRAP - i) - WRAP \in 0..WRAP - 1
    BY <1>1, WrapFacts
  <2>2. (j + WRAP - i) % WRAP = (j + WRAP - i) - WRAP
    BY <2>1, WrapFacts, ModOver, Zenon
  <2> QED
    BY <1>1, <2>2, WrapFacts DEF Dist
<1>2. CASE j < i
  <2>1. j + WRAP - i \in 0..WRAP - 1
    BY <1>2, WrapFacts
  <2>2. (j + WRAP - i) % WRAP = j + WRAP - i
    BY <2>1, WrapFacts, ModBelow, Zenon
  <2> QED
    BY <1>2, <2>2, WrapFacts DEF Dist
<1> QED
  BY <1>1, <1>2

\* A distance is 0 only between equal counters.
LEMMA DistRange ==
  ASSUME NEW i \in 0..WRAP - 1, NEW j \in 0..WRAP - 1
  PROVE  Dist(i, j) \in 0..WRAP - 1 /\ (Dist(i, j) = 0 <=> i = j)
BY DistIs, WrapFacts

\* input.e++ and input.r++.
LEMMA IncIs ==
  ASSUME NEW i \in 0..WRAP - 1
  PROVE  Inc(i) = IF i = WRAP - 1 THEN 0 ELSE i + 1
BY ModNext, WrapFacts DEF Inc

\* input.e--.
LEMMA DecIs ==
  ASSUME NEW i \in 0..WRAP - 1
  PROVE  Dec(i) = IF i = 0 THEN WRAP - 1 ELSE i - 1
<1>1. CASE i = 0
  <2>1. i + WRAP - 1 \in 0..WRAP - 1
    BY <1>1, WrapFacts
  <2> QED
    BY <1>1, <2>1, WrapFacts, ModBelow DEF Dec
<1>2. CASE i # 0
  <2>1. i + WRAP - 1 \in Int /\ (i + WRAP - 1) - WRAP \in 0..WRAP - 1
    BY <1>2, WrapFacts
  <2>2. (i + WRAP - 1) % WRAP = (i + WRAP - 1) - WRAP
    BY <2>1, WrapFacts, ModOver, Zenon
  <2> QED
    BY <1>2, <2>2, WrapFacts DEF Dec
<1> QED
  BY <1>1, <1>2, Zenon

\* A step of a counter stays in range.
LEMMA StepRange ==
  ASSUME NEW i \in 0..WRAP - 1
  PROVE  Inc(i) \in 0..WRAP - 1 /\ Dec(i) \in 0..WRAP - 1
BY IncIs, DecIs, WrapFacts

\* A step forward of the second counter.
LEMMA DistInc ==
  ASSUME NEW i \in 0..WRAP - 1, NEW j \in 0..WRAP - 1, Dist(i, j) < WRAP - 1
  PROVE  Dist(i, Inc(j)) = Dist(i, j) + 1
<1>1. Inc(j) \in 0..WRAP - 1
  BY StepRange, Zenon
<1>2. Dist(i, Inc(j)) = IF Inc(j) >= i THEN Inc(j) - i ELSE Inc(j) - i + WRAP
  BY <1>1, DistIs, Zenon
<1> QED
  BY <1>2, DistIs, IncIs, WrapFacts

\* A step back of the second counter.
LEMMA DistDec ==
  ASSUME NEW i \in 0..WRAP - 1, NEW j \in 0..WRAP - 1, Dist(i, j) > 0
  PROVE  Dist(i, Dec(j)) = Dist(i, j) - 1
<1>1. Dec(j) \in 0..WRAP - 1
  BY StepRange, Zenon
<1>2. Dist(i, Dec(j)) = IF Dec(j) >= i THEN Dec(j) - i ELSE Dec(j) - i + WRAP
  BY <1>1, DistIs, Zenon
<1> QED
  BY <1>2, DistIs, DecIs, WrapFacts

\* A step forward of the first counter.
LEMMA DistTake ==
  ASSUME NEW i \in 0..WRAP - 1, NEW j \in 0..WRAP - 1, Dist(i, j) > 0
  PROVE  Dist(Inc(i), j) = Dist(i, j) - 1
<1>1. Inc(i) \in 0..WRAP - 1
  BY StepRange, Zenon
<1>2. Dist(Inc(i), j) = IF j >= Inc(i) THEN j - Inc(i) ELSE j - Inc(i) + WRAP
  BY <1>1, DistIs, Zenon
<1> QED
  BY <1>2, DistIs, IncIs, WrapFacts

\* The second counter is its distance ahead of the first.
LEMMA DistPlus ==
  ASSUME NEW i \in 0..WRAP - 1, NEW j \in 0..WRAP - 1
  PROVE  (i + Dist(i, j)) % WRAP = j
<1>1. CASE j >= i
  <2>1. i + Dist(i, j) = j
    BY <1>1, DistIs, WrapFacts
  <2> QED
    BY <2>1, WrapFacts, ModBelow, Zenon
<1>2. CASE j < i
  <2>1. Dist(i, j) = j - i + WRAP
    BY <1>2, DistIs
  <2>2. i + Dist(i, j) \in Int /\ (i + Dist(i, j)) - WRAP = j
    BY <2>1, WrapFacts
  <2> QED
    BY <2>2, WrapFacts, ModOver, Zenon
<1> QED
  BY <1>1, <1>2

\* So is its slot, since the size of the ring divides WRAP.
LEMMA SlotAt ==
  ASSUME NEW i \in 0..WRAP - 1, NEW j \in 0..WRAP - 1
  PROVE  Slot(j) = (i + Dist(i, j)) % INPUT_BUF
<1> DEFINE a == i + Dist(i, j)
<1>1. a \in Int
  BY DistRange, WrapFacts
<1>2. a % WRAP = j
  BY DistPlus, Zenon
<1>3. (a % WRAP) % INPUT_BUF = a % INPUT_BUF
  <2> HIDE DEF a
  <2> QED
    BY <1>1, WrapFacts, ModMod, Zenon
<1> QED
  BY <1>2, <1>3, Zenon DEF Slot

\* consoleintr's test for a full ring.
LEMMA FullTest ==
  ASSUME NEW i \in 0..WRAP - 1, NEW j \in 0..WRAP - 1
  PROVE  j = (i + INPUT_BUF) % WRAP <=> Dist(i, j) = INPUT_BUF
<1>1. CASE i + INPUT_BUF < WRAP
  <2>1. i + INPUT_BUF \in 0..WRAP - 1
    BY <1>1, WrapFacts
  <2>2. (i + INPUT_BUF) % WRAP = i + INPUT_BUF
    BY <2>1, WrapFacts, ModBelow, Zenon
  <2> QED
    BY <1>1, <2>2, DistIs, WrapFacts
<1>2. CASE i + INPUT_BUF >= WRAP
  <2>1. i + INPUT_BUF \in Int /\ (i + INPUT_BUF) - WRAP \in 0..WRAP - 1
    BY <1>2, WrapFacts
  <2>2. (i + INPUT_BUF) % WRAP = (i + INPUT_BUF) - WRAP
    BY <2>1, WrapFacts, ModOver, Zenon
  <2> QED
    BY <1>2, <2>2, DistIs, WrapFacts
<1> QED
  BY <1>1, <1>2, WrapFacts

\* kill-line's way back from the second counter to the first.
LEMMA DistBack ==
  ASSUME NEW i \in 0..WRAP - 1, NEW j \in 0..WRAP - 1
  PROVE  (j + WRAP - Dist(i, j)) % WRAP = i
<1>1. CASE j >= i
  <2>1. Dist(i, j) = j - i
    BY <1>1, DistIs, Zenon
  <2>2. j + WRAP - Dist(i, j) \in Int /\ (j + WRAP - Dist(i, j)) - WRAP = i
    BY <2>1, WrapFacts
  <2> QED
    BY <2>2, WrapFacts, ModOver, Zenon
<1>2. CASE j < i
  <2>1. j + WRAP - Dist(i, j) = i
    BY <1>2, DistIs, WrapFacts
  <2> QED
    BY <2>1, WrapFacts, ModBelow, Zenon
<1> QED
  BY <1>1, <1>2

\* Different slots within a ring's length of each other.
LEMMA SlotsDiffer ==
  ASSUME NEW a \in Nat, NEW b \in Nat, a < b, b < a + INPUT_BUF
  PROVE  Slot(a) # Slot(b)
BY ModDistinct, WrapFacts DEF Slot

-----------------------------------------------------------------------------
\* A slot is an index of the ring.
LEMMA SlotRange ==
  ASSUME NEW a \in Nat
  PROVE  Slot(a) \in 0..INPUT_BUF - 1
BY DivMod, WrapFacts DEF Slot

\* A slot comes back after a turn of the counters.
LEMMA SlotWrap ==
  ASSUME NEW a \in Nat
  PROVE  Slot(a + WRAP) = Slot(a)
<1> DEFINE q == WRAP \div INPUT_BUF
<1>1. q \in Int /\ WRAP = INPUT_BUF * q
  BY WrapFacts, DivMod
<1>2. (a + INPUT_BUF * q) % INPUT_BUF = a % INPUT_BUF
  <2>1. a \in Int /\ INPUT_BUF \in Nat \ {0}
    BY WrapFacts
  <2> HIDE DEF q
  <2> QED
    BY <1>1, <2>1, ModShift, Zenon
<1> QED
  BY <1>1, <1>2, Zenon DEF Slot

-----------------------------------------------------------------------------
\* How a processor's state goes with the context x that it executes at l.
Fits(k, l, x) ==
  IF l \in Locking THEN ~k.fl /\ k.ncli = 1 /\ (k.intena <=> x \in Procs)
  ELSE k.ncli = 0 /\ (k.fl <=> x \in Procs)

\* What follows from x executing on c.
LEMMA OnFacts ==
  ASSUME ThreadInv, CpuInv, NEW c \in Cpus, NEW x \in Contexts, On(x, c)
  PROVE  /\ x \in Cpus => x = c /\ pc[c] # "none" /\ Open(c)
         /\ x \in Procs => /\ pc[c] = "none" /\ run[c] = x /\ ~inTrap[x]
                           /\ pc[x] \in {"user", "call"} \cup Locking
         /\ Fits(cpu[c], pc[x], x)
<1>1. CpuOK(c)
  BY Zenon DEF CpuInv
<1>2. CASE x \in Cpus
  <2>1. x = c /\ x \notin Procs /\ pc[c] # "none"
    BY <1>2, ConsoleAssumption, Zenon DEF On
  <2> QED
    BY <1>1, <2>1, Zenon DEF CpuOK, Fits, Locking
<1>3. CASE x \in Procs
  <2>1. x \notin Cpus /\ pc[c] = "none" /\ run[c] = x /\ ~inTrap[x]
    BY <1>3, ConsoleAssumption, Zenon DEF On
  <2>2. pc[x] \in {"user", "call"} \cup Locking
    BY <1>3, <2>1, Zenon DEF ThreadInv, ThreadOK
  <2>3. Open(c) <=> pc[x] \in {"user", "call"}
    BY <1>3, <2>1, ConsoleAssumption, Zenon DEF Open
  <2> QED
    BY <1>1, <1>3, <2>1, <2>2, <2>3, Zenon DEF CpuOK, Fits, Locking
<1> QED
  BY <1>2, <1>3, Zenon DEF Contexts

LEMMA OnFits ==
  ASSUME ThreadInv, CpuInv, NEW c \in Cpus, NEW x \in Contexts, On(x, c)
  PROVE  Fits(cpu[c], pc[x], x)
BY OnFacts, Zenon

\* One context at a time executes on a processor, and a context executes on
\* one processor.
LEMMA OnUnique ==
  ASSUME ThreadInv, NEW c \in Cpus, NEW x \in Contexts, On(x, c)
  PROVE  /\ \A y \in Contexts : On(y, c) => y = x
         /\ \A d \in Cpus : On(x, d) => d = c
BY ConsoleAssumption, Zenon DEF On, ThreadInv

\* A processor the step does not concern.
LEMMA CpuFrame ==
  ASSUME NEW d, CpuOK(d), pc'[d] = pc[d], cpu'[d] = cpu[d], run'[d] = run[d],
         run[d] # NoProc => /\ inTrap'[run[d]] = inTrap[run[d]]
                            /\ pc'[run[d]] = pc[run[d]]
  PROVE  CpuOK(d)'
<1>1. Open(d)' <=> Open(d)
  BY Zenon DEF Open
<1>2. ~Open(d) => inTrap'[run'[d]] = inTrap[run[d]]
  BY Zenon DEF Open
<1> QED
  BY <1>1, <1>2, Zenon DEF CpuOK

\* A thread the step does not concern.
LEMMA ThreadFrame ==
  ASSUME NEW z, ThreadOK(z), pc'[z] = pc[z], inTrap'[z] = inTrap[z],
         saved'[z] = saved[z], \A d \in Cpus : run'[d] = z <=> run[d] = z
  PROVE  ThreadOK(z)'
BY Zenon DEF ThreadOK

\* A step that leaves the lock and its holder alone.
LEMMA LockFrame ==
  ASSUME LockInv, lk' = lk,
         \A y \in Contexts : pc'[y] \in Held <=> pc[y] \in Held,
         \A y \in Contexts : pc'[y] = "critical" <=> pc[y] = "critical",
         \A y \in Contexts, d \in Cpus :
           pc[y] = "critical" => (On(y, d)' <=> On(y, d))
  PROVE  LockInv'
BY Zenon DEF LockInv

\* After a step, x has the lock, or nobody has.
LEMMA LockTaken ==
  ASSUME NEW x \in Contexts, lk'.locked,
         \A y \in Contexts : pc'[y] \in Held <=> y = x,
         \A d \in Cpus : lk'.cpu = d <=> pc'[x] = "critical" /\ On(x, d)'
  PROVE  LockInv'
<1>1. \A y \in Contexts : pc'[y] = "critical" => y = x
  BY Zenon DEF Held
<1> QED
  BY <1>1 DEF LockInv

LEMMA LockFreed ==
  ASSUME ~lk'.locked, \A y \in Contexts : pc'[y] \notin Held,
         \A d \in Cpus : lk'.cpu # d
  PROVE  LockInv'
<1>1. \A y \in Contexts : pc'[y] # "critical"
  BY Zenon DEF Held
<1> QED
  BY <1>1, Zenon DEF LockInv

\* One field of the lock.
LEMMA LockFields ==
  ASSUME NEW k \in [locked : BOOLEAN, cpu : Cpus \cup {NoCpu}],
         NEW b \in BOOLEAN, NEW d \in Cpus \cup {NoCpu}
  PROVE  /\ [k EXCEPT !.locked = b] \in
              [locked : BOOLEAN, cpu : Cpus \cup {NoCpu}]
         /\ [k EXCEPT !.locked = b].locked = b
         /\ [k EXCEPT !.locked = b].cpu = k.cpu
         /\ [k EXCEPT !.cpu = d] \in
              [locked : BOOLEAN, cpu : Cpus \cup {NoCpu}]
         /\ [k EXCEPT !.cpu = d].locked = k.locked
         /\ [k EXCEPT !.cpu = d].cpu = d
BY Zenon

\* The ring does not change.
LEMMA SameRing ==
  ASSUME RingInv, UNCHANGED <<buf, r, w, e>>
  PROVE  RingInv'
BY Zenon DEF RingInv, Dist, Slot

\* A step away from the ring after which nobody else sleeps.
LEMMA RestFrame ==
  ASSUME IInv, UNCHANGED <<buf, r, w, e, panicked>>,
         \A p \in Procs : pc'[p] = "asleep" => pc[p] = "asleep"
  PROVE  RingInv' /\ NoPanic' /\ SleepsForReason'
<1>1. RingInv'
  BY SameRing, Zenon DEF IInv
<1>2. NoPanic'
  BY Zenon DEF IInv, NoPanic
<1>3. SleepsForReason'
  BY Zenon DEF IInv, SleepsForReason, Used
<1> QED
  BY <1>1, <1>2, <1>3, Zenon

\* The context that executes on c goes to l.
LEMMA MoveInv ==
  ASSUME TypeOK, ThreadInv, CpuInv, NEW c \in Cpus, NEW x \in Contexts,
         On(x, c), NEW l \in Pcs, pc' = [pc EXCEPT ![x] = l],
         UNCHANGED <<run, inTrap, saved>>,
         x \in Procs => l \in {"user", "call"} \cup Locking,
         x \in Cpus => l \in {"call", "iret"} \cup Locking,
         \A d \in Cpus \ {c} : cpu'[d] = cpu[d], Fits(cpu'[c], l, x)
  PROVE  /\ pc' \in [Contexts -> Pcs] /\ pc'[x] = l
         /\ \A y \in Contexts \ {x} : pc'[y] = pc[y]
         /\ \A y \in Contexts, d \in Cpus : On(y, d)' <=> On(y, d)
         /\ CpuInv' /\ ThreadInv'
<1>1. pc \in [Contexts -> Pcs] /\ run \in [Cpus -> Procs \cup {NoProc}]
  BY Zenon DEF TypeOK
<1>2. /\ x \in Cpus => x = c /\ pc[c] # "none" /\ Open(c)
      /\ x \in Procs => pc[c] = "none" /\ run[c] = x /\ ~inTrap[x]
  BY OnFacts, Zenon
<1>3. /\ pc' \in [Contexts -> Pcs] /\ pc'[x] = l
      /\ \A y \in Contexts \ {x} : pc'[y] = pc[y]
  BY <1>1, Zenon
<1>4. \A d \in Cpus : pc'[d] = "none" <=> pc[d] = "none"
  BY <1>2, <1>3, Zenon DEF Contexts, Locking
<1>5. \A y \in Contexts, d \in Cpus : On(y, d)' <=> On(y, d)
  BY <1>4, Zenon DEF On
<1>6. ASSUME NEW d \in Cpus \ {c}
      PROVE  CpuOK(d)'
  <2>1. d # x /\ (run[d] # NoProc => run[d] # x)
    BY <1>1, <1>2, ConsoleAssumption DEF ThreadInv, Contexts
  <2>2. pc'[d] = pc[d] /\ (run[d] # NoProc => pc'[run[d]] = pc[run[d]])
    BY <1>1, <1>3, <2>1, Zenon DEF Contexts
  <2> QED
    BY <2>2, CpuFrame, Zenon DEF CpuInv
<1>7. CpuOK(c)'
  <2>1. CASE x \in Cpus
    <3>1. /\ x = c /\ x \notin Procs /\ Open(c)
          /\ run[c] # NoProc => run[c] # x
      BY <1>1, <1>2, <2>1, ConsoleAssumption, Zenon
    <3>2. Open(c)'
      BY <1>1, <1>3, <3>1, Zenon DEF Open, Contexts
    <3> QED
      BY <1>3, <2>1, <3>1, <3>2, Zenon DEF CpuOK, Fits, Locking
  <2>2. CASE x \in Procs
    <3>1. /\ pc'[c] = "none" /\ run'[c] = x /\ ~inTrap'[x]
          /\ x # NoProc
      BY <1>2, <1>4, <2>2, ConsoleAssumption, Zenon
    <3>2. Open(c)' <=> l \in {"user", "call"}
      BY <1>3, <3>1, Zenon DEF Open
    <3> QED
      BY <2>2, <3>1, <3>2, Zenon DEF CpuOK, Fits, Locking
  <2> QED
    BY <2>1, <2>2, Zenon DEF Contexts
<1>8. ASSUME NEW z \in Procs
      PROVE  ThreadOK(z)'
  <2>1. CASE z # x
    BY <1>3, <2>1, ThreadFrame, Zenon DEF ThreadInv, Contexts
  <2>2. CASE z = x
    BY <1>2, <1>3, <2>2, Zenon DEF ThreadOK, Locking
  <2> QED
    BY <2>1, <2>2, Zenon
<1>9. CpuInv'
  BY <1>6, <1>7, Zenon DEF CpuInv
<1>10. ThreadInv'
  BY <1>8, Zenon DEF ThreadInv
<1> QED
  BY <1>3, <1>5, <1>9, <1>10, Zenon

\* A step in which sleepers may be woken: wakeup() and kill().
LEMMA WakeInv ==
  ASSUME IInv, UNCHANGED <<cpu, lk, panicked, run, inTrap, saved>>,
         pc' \in [Contexts -> Pcs],
         \A y \in Contexts : \/ pc'[y] = pc[y]
                             \/ pc[y] = "asleep" /\ pc'[y] = "call",
         killed' \in [Procs -> BOOLEAN],
         buf' \in [0..INPUT_BUF - 1 -> Char],
         r' \in 0..WRAP - 1, w' \in 0..WRAP - 1, e' \in 0..WRAP - 1,
         RingInv', SleepsForReason'
  PROVE  IInv'
<1>1. TypeOK /\ CpuInv /\ ThreadInv /\ LockInv /\ NoPanic
  BY Zenon DEF IInv
<1>2. run \in [Cpus -> Procs \cup {NoProc}]
  BY <1>1, Zenon DEF TypeOK
<1>3. \A c \in Cpus : pc'[c] = pc[c]
  BY <1>1, Zenon DEF CpuInv, CpuOK, Locking, Contexts
<1>4. \A p \in Procs : (\E c \in Cpus : run[c] = p) => pc'[p] = pc[p]
  BY <1>1, Zenon DEF ThreadInv, ThreadOK, Contexts
<1>5. TypeOK'
  BY <1>1, Zenon DEF TypeOK
<1>6. CpuInv'
  <2>1. ASSUME NEW d \in Cpus PROVE CpuOK(d)'
    <3>1. run[d] # NoProc => pc'[run[d]] = pc[run[d]]
      BY <1>2, <1>4, Zenon
    <3> QED
      BY <1>1, <1>3, <3>1, CpuFrame, Zenon DEF CpuInv
  <2> QED
    BY <2>1, Zenon DEF CpuInv
<1>7. ThreadInv'
  <2>1. ASSUME NEW z \in Procs PROVE ThreadOK(z)'
    <3>1. ThreadOK(z) /\ (\/ pc'[z] = pc[z]
                          \/ pc[z] = "asleep" /\ pc'[z] = "call")
      BY <1>1, Zenon DEF ThreadInv, Contexts
    <3> QED
      BY <3>1, Zenon DEF ThreadOK
  <2> QED
    BY <1>1, <2>1, Zenon DEF ThreadInv
<1>8. LockInv'
  <2>1. \A y \in Contexts, d \in Cpus :
          pc[y] = "critical" => (On(y, d)' <=> On(y, d))
    BY <1>3, Zenon DEF On
  <2>2. \A y \in Contexts : /\ pc'[y] \in Held <=> pc[y] \in Held
                            /\ pc'[y] = "critical" <=> pc[y] = "critical"
    BY Zenon DEF Held
  <2> QED
    BY <1>1, <2>1, <2>2, LockFrame, Zenon
<1>9. NoPanic'
  BY <1>1, Zenon DEF NoPanic
<1> QED
  BY <1>5, <1>6, <1>7, <1>8, <1>9, Zenon DEF IInv

\* A step on the ring with the lock held, in which wakeup() may be called.
LEMMA RingStepInv ==
  ASSUME IInv, UNCHANGED <<lockVars, threadVars, killed>>,
         pc' = pc \/ pc' = Wakeup,
         buf' \in [0..INPUT_BUF - 1 -> Char],
         r' \in 0..WRAP - 1, w' \in 0..WRAP - 1, e' \in 0..WRAP - 1,
         RingInv', SleepsForReason'
  PROVE  IInv'
<1>1. UNCHANGED <<cpu, lk, panicked, run, inTrap, saved>>
  BY Zenon DEF lockVars, threadVars
<1>2. pc \in [Contexts -> Pcs] /\ killed' \in [Procs -> BOOLEAN]
  BY Zenon DEF IInv, TypeOK
<1>3. /\ pc' \in [Contexts -> Pcs]
      /\ \A y \in Contexts : \/ pc'[y] = pc[y]
                             \/ pc[y] = "asleep" /\ pc'[y] = "call"
  BY <1>2, Zenon DEF Wakeup, Pcs
<1> QED
  BY <1>1, <1>2, <1>3, WakeInv, Zenon

\* What the conditions and the updates of Type say.
LEMMA TypeRing ==
  ASSUME IInv, NEW c \in Cpus, NEW ch \in Char, Type(c, ch)
  PROVE  /\ UNCHANGED r /\ w' \in 0..WRAP - 1 /\ e' \in 0..WRAP - 1
         /\ Dist(r, e) < INPUT_BUF /\ Dist(w, e) <= Dist(r, e)
         /\ Dist(r, e') = Dist(r, e) + 1 /\ Dist(w, e') = Dist(w, e) + 1
         /\ Slot(e) = Slot(w + Dist(w, e)) /\ Slot(e) \in 0..INPUT_BUF - 1
         /\ buf' = [buf EXCEPT ![Slot(e)] = ch]
         /\ \/ /\ ch \in LineEnds \/ Dist(r, e) + 1 = INPUT_BUF
               /\ w' = e' /\ pc' = Wakeup
            \/ /\ ch \notin LineEnds /\ Dist(r, e) + 1 < INPUT_BUF
               /\ w' = w /\ pc' = pc
<1>1. /\ r \in 0..WRAP - 1 /\ w \in 0..WRAP - 1 /\ e \in 0..WRAP - 1
      /\ RingInv
  BY Zenon DEF IInv, TypeOK
<1>2. /\ r' = r /\ Dist(r, e) < INPUT_BUF
      /\ buf' = [buf EXCEPT ![Slot(e)] = ch]
      /\ e' = Inc(e)
      /\ \/ /\ ch \in LineEnds \/ e' = (r + INPUT_BUF) % WRAP
            /\ w' = e' /\ pc' = Wakeup
         \/ /\ ch \notin LineEnds /\ e' # (r + INPUT_BUF) % WRAP
            /\ w' = w /\ pc' = pc
  BY Zenon DEF Type, Used, Dist
<1>3. /\ Dist(r, e) \in 0..WRAP - 1 /\ Dist(w, e) \in 0..WRAP - 1
      /\ Dist(r, w) \in 0..WRAP - 1
  BY <1>1, DistRange, Zenon
<1>4. Dist(w, e) <= Dist(r, e)
  BY <1>1, <1>3, WrapFacts DEF RingInv
<1>5. e' \in 0..WRAP - 1
  BY <1>1, <1>2, StepRange, Zenon
<1>6. Dist(r, e') = Dist(r, e) + 1 /\ Dist(w, e') = Dist(w, e) + 1
  BY <1>1, <1>2, <1>3, <1>4, DistInc, WrapFacts
<1>7. e' = (r + INPUT_BUF) % WRAP <=> Dist(r, e) + 1 = INPUT_BUF
  BY <1>1, <1>5, <1>6, FullTest, Zenon
<1>8. Slot(e) = Slot(w + Dist(w, e))
  BY <1>1, SlotAt, Zenon DEF Slot
<1>9. Slot(e) \in 0..INPUT_BUF - 1
  BY <1>1, SlotRange, WrapFacts
<1> QED
  BY <1>1, <1>2, <1>3, <1>4, <1>5, <1>6, <1>7, <1>8, <1>9, WrapFacts

\* A typed character keeps the ring in order, and wakes all readers when it
\* finishes a line.
LEMMA TypeInv ==
  ASSUME IInv, NEW c \in Cpus, NEW ch \in Char, Type(c, ch)
  PROVE  IInv'
<1>1. /\ r \in 0..WRAP - 1 /\ w \in 0..WRAP - 1 /\ e \in 0..WRAP - 1
      /\ RingInv /\ buf \in [0..INPUT_BUF - 1 -> Char]
  BY Zenon DEF IInv, TypeOK
<1>2. UNCHANGED <<lockVars, threadVars, killed>>
  BY Zenon DEF Type
<1>3. r' \in 0..WRAP - 1 /\ w' \in 0..WRAP - 1 /\ e' \in 0..WRAP - 1
  BY <1>1, TypeRing, Zenon
<1>4. buf' \in [0..INPUT_BUF - 1 -> Char]
  BY <1>1, TypeRing, Zenon
<1>5. /\ Dist(r, e) \in Nat /\ Dist(w, e) \in Nat /\ Dist(r, w) \in Nat
      /\ Dist(r, w) + Dist(w, e) = Dist(r, e)
  BY <1>1, DistRange DEF RingInv
<1>6. CASE w' = e' /\ pc' = Wakeup
  <2>1. Dist(e', e') = 0
    BY <1>3, DistRange, Zenon
  <2>2. Dist(r', e') <= INPUT_BUF /\ Dist(r', e') \in Nat
    BY <1>5, TypeRing, WrapFacts
  <2>3. RingInv'
    BY <1>6, <2>1, <2>2 DEF RingInv
  <2>4. SleepsForReason'
    BY <1>6, ConsoleAssumption, Zenon
       DEF SleepsForReason, Wakeup, IInv, TypeOK, Contexts
  <2> QED
    BY <1>2, <1>3, <1>4, <1>6, <2>3, <2>4, RingStepInv, Zenon
<1>7. CASE /\ ch \notin LineEnds /\ Dist(r, e) + 1 < INPUT_BUF
           /\ w' = w /\ pc' = pc
  <2>1. /\ Dist(r', w') + Dist(w', e') = Dist(r', e')
        /\ Dist(r', e') < INPUT_BUF /\ Dist(r', e') \in Nat
    BY <1>5, <1>7, TypeRing, WrapFacts
  <2>2. ASSUME NEW i \in 1..Dist(w, e) + 1
        PROVE  buf'[Slot(w + i - 1)] # "newline"
    <3>1. CASE i = Dist(w, e) + 1
      <4>1. w + i - 1 = w + Dist(w, e)
        BY <1>1, <1>5, <3>1
      <4> QED
        BY <1>1, <1>7, <4>1, TypeRing, Zenon DEF LineEnds
    <3>2. CASE i \in 1..Dist(w, e)
      <4>0. Dist(w, e) < INPUT_BUF
        BY <1>5, TypeRing, WrapFacts
      <4>1. /\ w + i - 1 \in Nat /\ w + Dist(w, e) \in Nat
            /\ w + i - 1 < w + Dist(w, e)
            /\ w + Dist(w, e) < w + i - 1 + INPUT_BUF
        BY <1>1, <1>5, <3>2, <4>0, WrapFacts
      <4>2. Slot(w + i - 1) # Slot(e)
        BY <4>1, SlotsDiffer, TypeRing, Zenon
      <4>3. Slot(w + i - 1) \in 0..INPUT_BUF - 1
        BY <4>1, SlotRange, Zenon
      <4>4. buf'[Slot(w + i - 1)] = buf[Slot(w + i - 1)]
        BY <1>1, <4>2, <4>3, TypeRing, Zenon
      <4> QED
        BY <1>1, <3>2, <4>4, Zenon DEF RingInv
    <3> QED
      BY <1>5, <3>1, <3>2
  <2>3. \A i \in 1..Dist(w', e') : buf'[Slot(w' + i - 1)] # "newline"
    BY <1>7, <2>2, TypeRing, Zenon
  <2>4. RingInv'
    BY <2>1, <2>3, WrapFacts DEF RingInv
  <2>5. SleepsForReason'
    BY <1>7, <2>1, TypeRing, Zenon DEF SleepsForReason, IInv, Used, Dist, Type
  <2> QED
    BY <1>2, <1>3, <1>4, <1>7, <2>4, <2>5, RingStepInv, Zenon
<1> QED
  BY <1>6, <1>7, TypeRing, Zenon

\* A step of consoleintr() back to e', with the line from w.
LEMMA EraseInv ==
  ASSUME IInv, NEW c \in Cpus, pc[c] = "critical",
         UNCHANGED <<lockVars, buf, r, w, pc, threadVars, callVars, killed>>,
         e' \in 0..WRAP - 1, NEW k \in 0..Dist(w, e),
         Dist(w, e') = Dist(w, e) - k, Dist(r, e') = Dist(r, e) - k
  PROVE  IInv'
<1>1. /\ r \in 0..WRAP - 1 /\ w \in 0..WRAP - 1 /\ e \in 0..WRAP - 1
      /\ RingInv /\ buf \in [0..INPUT_BUF - 1 -> Char] /\ SleepsForReason
  BY Zenon DEF IInv, TypeOK
<1>2. /\ Dist(r, e) \in Nat /\ Dist(w, e) \in Nat /\ Dist(r, w) \in Nat
      /\ Dist(r, w) + Dist(w, e) = Dist(r, e)
      /\ Dist(r, e) <= INPUT_BUF /\ (Dist(r, e) = INPUT_BUF => w = e)
  BY <1>1, DistRange DEF RingInv
<1>3. /\ Dist(r', w') + Dist(w', e') = Dist(r', e')
      /\ Dist(r', e') <= Dist(r, e)
      /\ 1..Dist(w', e') \subseteq 1..Dist(w, e)
  BY <1>2
<1>4. Dist(r', e') = INPUT_BUF => w' = e'
  <2>1. Dist(r', e') = INPUT_BUF => k = 0 /\ w = e
    BY <1>2, WrapFacts
  <2>2. w = e => Dist(w, e) = 0
    BY <1>1, DistRange, Zenon
  <2>3. w = e => Dist(w, e') = 0
    BY <2>2
  <2> QED
    BY <1>1, <2>1, <2>3, DistRange, Zenon
<1>5. \A i \in 1..Dist(w', e') : buf'[Slot(w' + i - 1)] # "newline"
  BY <1>1, <1>3, Zenon DEF RingInv
<1>6. RingInv'
  BY <1>2, <1>3, <1>4, <1>5, WrapFacts DEF RingInv
<1>7. SleepsForReason'
  <2>1. Used = Dist(r, e) /\ Used' = Dist(r', e')
    BY Zenon DEF Used, Dist
  <2>2. Used < INPUT_BUF => Used' < INPUT_BUF
    BY <1>2, <1>3, <2>1, WrapFacts
  <2> QED
    BY <1>1, <2>2, Zenon DEF SleepsForReason
<1> QED
  BY <1>1, <1>6, <1>7, RingStepInv, Zenon

\* acquire() turns interrupts off, and its processor does not hold the lock.
LEMMA AcquireStartInv ==
  ASSUME IInv, NEW c \in Cpus, NEW x \in Contexts, On(x, c), pc[x] = "call",
         AcquireStart(c), Goto(x, "spin"),
         UNCHANGED <<ringVars, threadVars, callVars, killed>>
  PROVE  IInv'
<1>1. /\ pc' = [pc EXCEPT ![x] = "spin"] /\ lk' = lk
      /\ cpu' = [cpu EXCEPT ![c] = pushcli(cpu[c])]
      /\ panicked' = (panicked \/ holding(c))
      /\ UNCHANGED <<buf, r, w, e, run, inTrap, saved, killed>>
  BY Zenon DEF AcquireStart, Goto, ringVars, threadVars
<1>2. TypeOK /\ CpuInv /\ ThreadInv /\ LockInv
  BY Zenon DEF IInv
<1>3. cpu \in [Cpus -> CpuState] /\ cpu[c] \in CpuState
  BY <1>2, Zenon DEF TypeOK, CpuState
<1>4. Fits(cpu[c], "call", x)
  BY <1>2, OnFacts, Zenon
<1>5. /\ pushcli(cpu[c]) \in CpuState /\ Fits(pushcli(cpu[c]), "spin", x)
  <2>1. cpu[c].ncli = 0 /\ (cpu[c].fl <=> x \in Procs)
    BY <1>4, Zenon DEF Fits, Locking
  <2>2. /\ pushcli(cpu[c]) \in CpuState /\ ~pushcli(cpu[c]).fl
        /\ pushcli(cpu[c]).ncli = 1 /\ pushcli(cpu[c]).intena = cpu[c].fl
    BY <1>3, <2>1, PushFirst, Zenon
  <2> QED
    BY <2>1, <2>2, Zenon DEF Fits, Locking
<1>6. /\ cpu' \in [Cpus -> CpuState] /\ Fits(cpu'[c], "spin", x)
      /\ \A d \in Cpus \ {c} : cpu'[d] = cpu[d]
  BY <1>1, <1>3, <1>5, Zenon
<1>7. /\ pc' \in [Contexts -> Pcs] /\ pc'[x] = "spin"
      /\ \A y \in Contexts \ {x} : pc'[y] = pc[y]
      /\ \A y \in Contexts, d \in Cpus : On(y, d)' <=> On(y, d)
      /\ CpuInv' /\ ThreadInv'
  BY <1>1, <1>2, <1>6, MoveInv, Zenon DEF Pcs, Locking
<1>8. panicked' = panicked
  <2>1. ~holding(c)
    BY <1>2, OnUnique, Zenon DEF holding, LockInv
  <2> QED
    BY <1>1, <1>2, <2>1, Zenon DEF TypeOK
<1>9. TypeOK'
  BY <1>1, <1>2, <1>6, <1>7, <1>8, Zenon DEF TypeOK, CpuState
<1>10. LockInv'
  BY <1>1, <1>2, <1>7, LockFrame, Zenon DEF Held
<1>11. RingInv' /\ NoPanic' /\ SleepsForReason'
  BY <1>1, <1>7, <1>8, RestFrame, Zenon DEF Contexts
<1> QED
  BY <1>7, <1>9, <1>10, <1>11, Zenon DEF IInv

\* xchg takes a free lock.
LEMMA AcquireXchgInv ==
  ASSUME IInv, NEW c \in Cpus, NEW x \in Contexts, On(x, c), pc[x] = "spin",
         AcquireXchg(c), Goto(x, "got"),
         UNCHANGED <<ringVars, threadVars, callVars, killed>>
  PROVE  IInv'
<1>1. /\ pc' = [pc EXCEPT ![x] = "got"] /\ cpu' = cpu /\ panicked' = panicked
      /\ ~lk.locked /\ lk' = [lk EXCEPT !.locked = TRUE]
      /\ UNCHANGED <<buf, r, w, e, run, inTrap, saved, killed>>
  BY Zenon DEF AcquireXchg, Goto, ringVars, threadVars
<1>2. TypeOK /\ CpuInv /\ ThreadInv /\ LockInv
  BY Zenon DEF IInv
<1>3. lk \in [locked : BOOLEAN, cpu : Cpus \cup {NoCpu}]
  BY <1>2, Zenon DEF TypeOK
<1>4. /\ lk' \in [locked : BOOLEAN, cpu : Cpus \cup {NoCpu}]
      /\ lk'.locked /\ lk'.cpu = lk.cpu
  BY <1>1, <1>3, LockFields, Zenon
<1>5. Fits(cpu'[c], "got", x)
  <2>1. Fits(cpu[c], pc[x], x)
    BY <1>2, OnFits, Zenon
  <2> QED
    BY <1>1, <2>1, Zenon DEF Fits, Locking
<1>6. /\ pc' \in [Contexts -> Pcs] /\ pc'[x] = "got"
      /\ \A y \in Contexts \ {x} : pc'[y] = pc[y]
      /\ \A y \in Contexts, d \in Cpus : On(y, d)' <=> On(y, d)
      /\ CpuInv' /\ ThreadInv'
  BY <1>1, <1>2, <1>5, MoveInv, Zenon DEF Pcs, Locking
<1>7. TypeOK'
  BY <1>1, <1>2, <1>4, <1>6, Zenon DEF TypeOK
<1>8. LockInv'
  <2>1. \A y \in Contexts : pc[y] \notin Held
    BY <1>1, <1>2, Zenon DEF LockInv
  <2>2. \A y \in Contexts : pc'[y] \in Held <=> y = x
    BY <1>6, <2>1, Zenon DEF Held
  <2>3. \A y \in Contexts : pc[y] # "critical"
    BY <2>1, Zenon DEF Held
  <2>4. \A d \in Cpus : lk.cpu # d
    BY <1>2, <2>3, Zenon DEF LockInv
  <2> QED
    BY <1>4, <1>6, <2>2, <2>4, LockTaken, Zenon
<1>9. RingInv' /\ NoPanic' /\ SleepsForReason'
  BY <1>1, <1>6, RestFrame, Zenon DEF Contexts
<1> QED
  BY <1>6, <1>7, <1>8, <1>9, Zenon DEF IInv

\* acquire() notes its processor.
LEMMA AcquireOwnInv ==
  ASSUME IInv, NEW c \in Cpus, NEW x \in Contexts, On(x, c), pc[x] = "got",
         AcquireOwn(c), Goto(x, "critical"),
         UNCHANGED <<ringVars, threadVars, callVars, killed>>
  PROVE  IInv'
<1>1. /\ pc' = [pc EXCEPT ![x] = "critical"] /\ cpu' = cpu
      /\ panicked' = panicked /\ lk' = [lk EXCEPT !.cpu = c]
      /\ UNCHANGED <<buf, r, w, e, run, inTrap, saved, killed>>
  BY Zenon DEF AcquireOwn, Goto, ringVars, threadVars
<1>2. TypeOK /\ CpuInv /\ ThreadInv /\ LockInv
  BY Zenon DEF IInv
<1>3. lk \in [locked : BOOLEAN, cpu : Cpus \cup {NoCpu}]
  BY <1>2, Zenon DEF TypeOK
<1>4. /\ lk' \in [locked : BOOLEAN, cpu : Cpus \cup {NoCpu}]
      /\ lk'.locked = lk.locked /\ lk'.cpu = c
  BY <1>1, <1>3, LockFields, Zenon
<1>5. Fits(cpu'[c], "critical", x)
  <2>1. Fits(cpu[c], pc[x], x)
    BY <1>2, OnFits, Zenon
  <2> QED
    BY <1>1, <2>1, Zenon DEF Fits, Locking
<1>6. /\ pc' \in [Contexts -> Pcs] /\ pc'[x] = "critical"
      /\ \A y \in Contexts \ {x} : pc'[y] = pc[y]
      /\ \A y \in Contexts, d \in Cpus : On(y, d)' <=> On(y, d)
      /\ CpuInv' /\ ThreadInv'
  BY <1>1, <1>2, <1>5, MoveInv, Zenon DEF Pcs, Locking
<1>7. TypeOK'
  BY <1>1, <1>2, <1>4, <1>6, Zenon DEF TypeOK
<1>8. LockInv'
  <2>1. lk.locked /\ \A y \in Contexts : pc[y] \in Held => y = x
    BY <1>2, Zenon DEF LockInv, Held
  <2>2. pc'[x] \in Held
    BY <1>6, Zenon DEF Held
  <2>3. \A y \in Contexts : pc'[y] \in Held <=> y = x
    BY <1>6, <2>1, <2>2, Zenon
  <2>4. \A d \in Cpus : On(x, d)' <=> d = c
    BY <1>2, <1>6, OnUnique, Zenon
  <2> QED
    BY <1>4, <1>6, <2>1, <2>3, <2>4, LockTaken, Zenon
<1>9. RingInv' /\ NoPanic' /\ SleepsForReason'
  BY <1>1, <1>6, RestFrame, Zenon DEF Contexts
<1> QED
  BY <1>6, <1>7, <1>8, <1>9, Zenon DEF IInv

\* release() forgets the processor, which holds the lock.
LEMMA LeaveInv ==
  ASSUME IInv, NEW c \in Cpus, NEW x \in Contexts,
         On(x, c), pc[x] = "critical", Leave(x, c),
         UNCHANGED <<threadVars, killed>>, RingInv',
         UNCHANGED <<w, e>>, buf' = buf, r' \in 0..WRAP - 1, r # w \/ r' = r
  PROVE  IInv'
<1>1. /\ pc' = [pc EXCEPT ![x] = "release"] /\ cpu' = cpu
      /\ lk' = [lk EXCEPT !.cpu = NoCpu]
      /\ panicked' = (panicked \/ ~holding(c))
      /\ UNCHANGED <<run, inTrap, saved, killed>>
  BY Zenon DEF Leave, ReleaseStart, Goto, threadVars
<1>2. TypeOK /\ CpuInv /\ ThreadInv /\ LockInv /\ NoPanic /\ SleepsForReason
  BY Zenon DEF IInv
<1>3. lk \in [locked : BOOLEAN, cpu : Cpus \cup {NoCpu}]
  BY <1>2, Zenon DEF TypeOK
<1>4. /\ lk' \in [locked : BOOLEAN, cpu : Cpus \cup {NoCpu}]
      /\ lk'.locked = lk.locked /\ lk'.cpu = NoCpu
  BY <1>1, <1>3, LockFields, Zenon
<1>5. Fits(cpu'[c], "release", x)
  <2>1. Fits(cpu[c], pc[x], x)
    BY <1>2, OnFits, Zenon
  <2> QED
    BY <1>1, <2>1, Zenon DEF Fits, Locking
<1>6. /\ pc' \in [Contexts -> Pcs] /\ pc'[x] = "release"
      /\ \A y \in Contexts \ {x} : pc'[y] = pc[y]
      /\ CpuInv' /\ ThreadInv'
  BY <1>1, <1>2, <1>5, MoveInv, Zenon DEF Pcs, Locking
<1>7. panicked' = panicked
  <2>1. holding(c)
    BY <1>2, Zenon DEF holding, LockInv, Held
  <2> QED
    BY <1>1, <1>2, <2>1, Zenon DEF TypeOK
<1>8. TypeOK'
  BY <1>1, <1>2, <1>4, <1>6, <1>7, Zenon DEF TypeOK
<1>9. LockInv'
  <2>1. lk.locked /\ \A y \in Contexts : pc[y] \in Held => y = x
    BY <1>2, Zenon DEF LockInv, Held
  <2>2. pc'[x] \in Held
    BY <1>6, Zenon DEF Held
  <2>3. \A y \in Contexts : pc'[y] \in Held <=> y = x
    BY <1>6, <2>1, <2>2, Zenon
  <2> QED
    BY <1>4, <1>6, <2>1, <2>3, SpinlockAssumption, LockTaken, Zenon
<1>10. NoPanic'
  BY <1>2, <1>7, Zenon DEF NoPanic
<1>11. SleepsForReason'
  <2>1. \A p \in Procs : pc'[p] = "asleep" => pc[p] = "asleep"
    BY <1>6, Zenon DEF Contexts
  <2> QED
    BY <1>1, <1>2, <2>1, Zenon DEF SleepsForReason, Used
<1> QED
  BY <1>6, <1>8, <1>9, <1>10, <1>11, Zenon DEF IInv

\* release() frees the lock, and popcli() restores the interrupts.
LEMMA ReleaseInv ==
  ASSUME IInv, NEW c \in Cpus, NEW x \in Contexts, Release(x, c)
  PROVE  IInv'
<1> DEFINE l == IF x \in Procs THEN "user" ELSE "iret"
<1>1. /\ On(x, c) /\ pc[x] = "release" /\ pc' = [pc EXCEPT ![x] = l]
      /\ lk' = [lk EXCEPT !.locked = FALSE]
      /\ cpu' = [cpu EXCEPT ![c] = popcli(cpu[c])]
      /\ panicked' = (panicked \/ popcliPanics(cpu[c]))
      /\ UNCHANGED <<buf, r, w, e, run, inTrap, saved, killed>>
  BY Zenon DEF Release, ReleaseEnd, Goto, ringVars, threadVars
<1>2. TypeOK /\ CpuInv /\ ThreadInv /\ LockInv
  BY Zenon DEF IInv
<1>3. cpu \in [Cpus -> CpuState] /\ cpu[c] \in CpuState
  BY <1>2, Zenon DEF TypeOK, CpuState
<1>4. Fits(cpu[c], "release", x)
  BY <1>1, <1>2, OnFacts, Zenon
<1>5. l \in {"user", "iret"} /\ (l = "user" <=> x \in Procs)
  BY Zenon
<1> HIDE DEF l
<1>6. popcli(cpu[c]) \in CpuState /\ Fits(popcli(cpu[c]), l, x)
  BY <1>3, <1>4, <1>5, PopFacts DEF Fits, Locking
<1>7. /\ cpu' \in [Cpus -> CpuState] /\ Fits(cpu'[c], l, x)
      /\ \A d \in Cpus \ {c} : cpu'[d] = cpu[d]
  BY <1>1, <1>3, <1>6, Zenon
<1>8. /\ pc' \in [Contexts -> Pcs] /\ pc'[x] = l
      /\ \A y \in Contexts \ {x} : pc'[y] = pc[y]
      /\ \A y \in Contexts, d \in Cpus : On(y, d)' <=> On(y, d)
      /\ CpuInv' /\ ThreadInv'
  <2>1. /\ l \in Pcs
        /\ x \in Procs => l \in {"user", "call"} \cup Locking
        /\ x \in Cpus => l \in {"call", "iret"} \cup Locking
    BY <1>5, ConsoleAssumption, Zenon DEF Pcs
  <2> QED
    BY <1>1, <1>2, <1>7, <2>1, MoveInv, Zenon
<1>9. panicked' = panicked
  BY <1>1, <1>2, <1>4 DEF Fits, Locking, popcliPanics, TypeOK
<1>10. /\ lk' \in [locked : BOOLEAN, cpu : Cpus \cup {NoCpu}]
       /\ ~lk'.locked /\ lk'.cpu = lk.cpu
  BY <1>1, <1>2, LockFields, Zenon DEF TypeOK
<1>11. TypeOK'
  BY <1>1, <1>2, <1>7, <1>8, <1>9, <1>10, Zenon DEF TypeOK, CpuState
<1>12. LockInv'
  <2>1. \A y \in Contexts : pc[y] \in Held => y = x
    BY <1>1, <1>2, Zenon DEF LockInv, Held
  <2>2. \A y \in Contexts : pc'[y] \notin Held
    BY <1>5, <1>8, <2>1, Zenon DEF Held
  <2>3. \A y \in Contexts : pc[y] # "critical"
    BY <1>1, <2>1, Zenon DEF Held
  <2>4. \A d \in Cpus : lk.cpu # d
    BY <1>2, <2>3, Zenon DEF LockInv
  <2> QED
    BY <1>10, <2>2, <2>4, LockFreed, Zenon
<1>13. RingInv' /\ NoPanic' /\ SleepsForReason'
  BY <1>1, <1>5, <1>8, <1>9, RestFrame, Zenon DEF Contexts
<1> QED
  BY <1>8, <1>11, <1>12, <1>13, Zenon DEF IInv

\* A handler begins or ends on a processor that may be interrupted.
LEMMA HandlerEdge ==
  ASSUME IInv, NEW c \in Cpus, NEW l \in {"none", "call"}, Open(c),
         pc[c] \in {"none", "iret"}, pc' = [pc EXCEPT ![c] = l],
         NEW k \in CpuState, k.ncli = 0, k.fl <=> l = "none",
         cpu' = [cpu EXCEPT ![c] = k],
         UNCHANGED <<lk, panicked, buf, r, w, e, run, inTrap, saved, killed>>
  PROVE  IInv'
<1>1. TypeOK /\ CpuInv /\ ThreadInv /\ LockInv
  BY Zenon DEF IInv
<1>2. /\ pc \in [Contexts -> Pcs] /\ run \in [Cpus -> Procs \cup {NoProc}]
      /\ cpu \in [Cpus -> CpuState]
  BY <1>1, Zenon DEF TypeOK, CpuState
<1>3. /\ cpu' \in [Cpus -> CpuState] /\ cpu'[c] = k
      /\ \A d \in Cpus \ {c} : cpu'[d] = cpu[d]
  BY <1>2, Zenon
<1>4. /\ pc' \in [Contexts -> Pcs] /\ pc'[c] = l
      /\ \A y \in Contexts \ {c} : pc'[y] = pc[y]
  BY <1>2, Zenon DEF Contexts, Pcs
<1>5. \A z \in Procs : pc'[z] = pc[z]
  BY <1>4, ConsoleAssumption, Zenon DEF Contexts
<1>6. \A d \in Cpus : run[d] # NoProc => pc'[run[d]] = pc[run[d]]
  BY <1>2, <1>5, Zenon
<1>7. TypeOK'
  BY <1>1, <1>3, <1>4, Zenon DEF TypeOK, CpuState
<1>8. CpuInv'
  <2>1. CpuOK(c)'
    <3>1. Open(c)'
      BY <1>6, Zenon DEF Open
    <3> QED
      BY <1>3, <1>4, <3>1, Zenon DEF CpuOK, Locking
  <2>2. ASSUME NEW d \in Cpus \ {c} PROVE CpuOK(d)'
    <3>1. CpuOK(d) /\ pc'[d] = pc[d]
      BY <1>1, <1>4, Zenon DEF CpuInv, Contexts
    <3> QED
      BY <1>3, <1>6, <3>1, CpuFrame, Zenon
  <2> QED
    BY <2>1, <2>2, Zenon DEF CpuInv
<1>9. ThreadInv'
  BY <1>1, <1>5, ThreadFrame, Zenon DEF ThreadInv
<1>10. LockInv'
  <2>1. \A y \in Contexts : /\ pc'[y] \in Held <=> pc[y] \in Held
                            /\ pc'[y] = "critical" <=> pc[y] = "critical"
    BY <1>4, Zenon DEF Held
  <2>2. ASSUME NEW y \in Contexts, NEW d \in Cpus, pc[y] = "critical"
        PROVE  On(y, d)' <=> On(y, d)
    <3>1. y # c /\ (y \in Procs => run[c] # y)
      BY <2>2, ConsoleAssumption, Zenon DEF Open
    <3>2. d # c => pc'[d] = pc[d]
      BY <1>4, Zenon DEF Contexts
    <3> QED
      BY <3>1, <3>2, Zenon DEF On
  <2> QED
    BY <1>1, <2>1, <2>2, LockFrame, Zenon
<1>11. RingInv' /\ NoPanic' /\ SleepsForReason'
  BY <1>5, RestFrame, Zenon
<1> QED
  BY <1>7, <1>8, <1>9, <1>10, <1>11, Zenon DEF IInv

\* An interrupt comes only where the interrupted code allows it.
LEMMA InterruptInv ==
  ASSUME IInv, NEW c \in Cpus, Interrupt(c)
  PROVE  IInv'
<1>1. /\ cpu[c].fl /\ pc[c] = "none" /\ pc' = [pc EXCEPT ![c] = "call"]
      /\ cpu' = [cpu EXCEPT ![c] = [cpu[c] EXCEPT !.fl = FALSE]]
      /\ UNCHANGED <<lk, panicked, buf, r, w, e, run, inTrap, saved, killed>>
  BY Zenon DEF Interrupt, Goto, ringVars, threadVars
<1>2. Open(c) /\ cpu[c] \in CpuState /\ cpu[c].ncli = 0
  BY <1>1, Zenon DEF IInv, CpuInv, CpuOK, TypeOK, CpuState
<1> DEFINE k == [cpu[c] EXCEPT !.fl = FALSE]
<1>3. k \in CpuState /\ k.ncli = 0 /\ k.fl = FALSE
  BY <1>2, FieldFacts, Zenon
<1>4. cpu' = [cpu EXCEPT ![c] = k]
  BY <1>1, Zenon
<1> HIDE DEF k
<1> QED
  BY <1>1, <1>2, <1>3, <1>4, HandlerEdge, Zenon

\* The return from the interrupt enables interrupts again.
LEMMA HandlerReturnInv ==
  ASSUME IInv, NEW c \in Cpus, HandlerReturn(c)
  PROVE  IInv'
<1>1. /\ pc[c] = "iret" /\ pc' = [pc EXCEPT ![c] = "none"]
      /\ cpu' = [cpu EXCEPT ![c] = [cpu[c] EXCEPT !.fl = TRUE]]
      /\ UNCHANGED <<lk, panicked, buf, r, w, e, run, inTrap, saved, killed>>
  BY Zenon DEF HandlerReturn, Goto, ringVars, threadVars
<1>2. Open(c) /\ cpu[c] \in CpuState /\ cpu[c].ncli = 0
  BY <1>1, Zenon DEF IInv, CpuInv, CpuOK, TypeOK, CpuState
<1> DEFINE k == [cpu[c] EXCEPT !.fl = TRUE]
<1>3. k \in CpuState /\ k.ncli = 0 /\ k.fl = TRUE
  BY <1>2, FieldFacts, Zenon
<1>4. cpu' = [cpu EXCEPT ![c] = k]
  BY <1>1, Zenon
<1> HIDE DEF k
<1> QED
  BY <1>1, <1>2, <1>3, <1>4, HandlerEdge, Zenon

\* A system call begins.
LEMMA CallInv ==
  ASSUME IInv, NEW c \in Cpus, NEW p \in Procs, NEW o, NEW k, Call(c, p, o, k)
  PROVE  IInv'
<1>1. /\ On(p, c) /\ pc[p] = "user" /\ pc' = [pc EXCEPT ![p] = "call"]
      /\ UNCHANGED <<cpu, lk, panicked, buf, r, w, e, run, inTrap, saved>>
      /\ UNCHANGED killed /\ p \in Contexts
  BY Zenon DEF Call, Goto, lockVars, ringVars, threadVars, Contexts
<1>2. TypeOK /\ CpuInv /\ ThreadInv /\ LockInv
  BY Zenon DEF IInv
<1>3. Fits(cpu'[c], "call", p)
  <2>1. Fits(cpu[c], "user", p)
    BY <1>1, <1>2, OnFacts, Zenon
  <2> QED
    BY <1>1, <2>1, Zenon DEF Fits, Locking
<1>4. /\ pc' \in [Contexts -> Pcs] /\ pc'[p] = "call"
      /\ \A y \in Contexts \ {p} : pc'[y] = pc[y]
      /\ \A y \in Contexts, d \in Cpus : On(y, d)' <=> On(y, d)
      /\ CpuInv' /\ ThreadInv'
  BY <1>1, <1>2, <1>3, MoveInv, Zenon DEF Pcs
<1>5. TypeOK'
  BY <1>1, <1>2, <1>4, Zenon DEF TypeOK
<1>6. LockInv'
  BY <1>1, <1>2, <1>4, LockFrame, Zenon DEF Held
<1>7. RingInv' /\ NoPanic' /\ SleepsForReason'
  BY <1>1, <1>4, RestFrame, Zenon DEF Contexts
<1> QED
  BY <1>4, <1>5, <1>6, <1>7, Zenon DEF IInv

\* What SwitchTo() leaves on the processor.
LEMMA SwitchFacts ==
  ASSUME TypeOK, NEW c \in Cpus, NEW k \in CpuState, k.ncli = 1,
         NEW q \in Procs \cup {NoProc}, SwitchTo(c, k, q)
  PROVE  /\ run' = [run EXCEPT ![c] = q]
         /\ cpu' \in [Cpus -> CpuState]
         /\ cpu'[c].ncli = 0 /\ (cpu'[c].fl <=> q = NoProc \/ saved[q])
         /\ \A d \in Cpus \ {c} : cpu'[d] = cpu[d]
         /\ q \in Procs => /\ pc[q] \notin {"asleep", "exited"}
                           /\ \A d \in Cpus : run[d] # q
<1>1. run' = [run EXCEPT ![c] = q] /\ (q \in Procs => Runnable(q))
  BY Zenon DEF SwitchTo
<1>2. cpu \in [Cpus -> CpuState] /\ saved \in [Procs -> BOOLEAN]
  BY Zenon DEF TypeOK, CpuState
<1> DEFINE j == IF q = NoProc THEN Idle(k) ELSE Dispatch(k, saved[q])
<1>3. j \in CpuState /\ j.ncli = 0 /\ (j.fl <=> q = NoProc \/ saved[q])
  <2>1. CASE q = NoProc
    BY <2>1, IdleFacts, Zenon
  <2>2. CASE q # NoProc
    BY <1>2, <2>2, DispatchFacts, Zenon
  <2> QED
    BY <2>1, <2>2, Zenon
<1>4. cpu' = [cpu EXCEPT ![c] = j]
  BY Zenon DEF SwitchTo
<1> HIDE DEF j
<1> QED
  BY <1>1, <1>2, <1>3, <1>4, Zenon DEF Runnable

\* A thread that leaves its processor for another keeps what it needs.
LEMMA SwitchThreads ==
  ASSUME TypeOK, ThreadInv, NEW c \in Cpus, NEW p \in Procs, run[c] = p,
         NEW q, q # p, run' = [run EXCEPT ![c] = q],
         q \in Procs => /\ pc[q] \notin {"asleep", "exited"}
                        /\ \A d \in Cpus : run[d] # q,
         \A z \in Procs \ {p} : /\ pc'[z] = pc[z] /\ inTrap'[z] = inTrap[z]
                                /\ saved'[z] = saved[z],
         pc'[p] \in {"user", "call", "asleep", "exited"},
         inTrap'[p] => pc'[p] \in {"user", "call"},
         pc'[p] # "exited" => (saved'[p] <=> ~inTrap'[p])
  PROVE  ThreadInv'
<1>1. run \in [Cpus -> Procs \cup {NoProc}]
  BY Zenon DEF TypeOK
<1>2. \A a, d \in Cpus : run'[a] \in Procs /\ run'[a] = run'[d] => a = d
  BY <1>1, Zenon DEF ThreadInv
<1>3. \A d \in Cpus : run'[d] # p
  BY <1>1, Zenon DEF ThreadInv
<1>4. ThreadOK(p)'
  BY <1>3, Zenon DEF ThreadOK
<1>5. ASSUME NEW z \in Procs \ {p}
      PROVE  ThreadOK(z)'
  <2>1. /\ pc'[z] = pc[z] /\ inTrap'[z] = inTrap[z] /\ saved'[z] = saved[z]
        /\ ThreadOK(z)
    BY Zenon DEF ThreadInv
  <2>2. CASE z = q
    <3>1. run'[c] = z
      BY <1>1, <2>2, Zenon
    <3> QED
      BY <2>1, <2>2, <3>1, Zenon DEF ThreadOK
  <2>3. CASE z # q
    <3>1. \A d \in Cpus : run'[d] = z <=> run[d] = z
      BY <1>1, <2>3, Zenon
    <3> QED
      BY <2>1, <3>1, Zenon DEF ThreadOK
  <2> QED
    BY <2>2, <2>3, Zenon
<1> QED
  BY <1>2, <1>4, <1>5, Zenon DEF ThreadInv

\* A switch on c leaves the context in its critical section where it is.
LEMMA SwitchOn ==
  ASSUME TypeOK, ThreadInv, NEW c \in Cpus, NEW q,
         run' = [run EXCEPT ![c] = q],
         q \in Procs => \A d \in Cpus : run[d] # q,
         \A d \in Cpus : pc'[d] = pc[d],
         NEW y \in Contexts, NEW d \in Cpus, pc[y] = "critical",
         y \in Procs => run[c] # y,
         y \in Procs => (inTrap'[y] <=> inTrap[y])
  PROVE  On(y, d)' <=> On(y, d)
<1>1. CASE y \in Procs
  <2>1. y # q
    BY <1>1 DEF ThreadInv, ThreadOK
  <2>2. run'[d] = y <=> run[d] = y
    BY <1>1, <2>1, Zenon DEF TypeOK
  <2> QED
    BY <1>1, <2>2, ConsoleAssumption, Zenon DEF On
<1>2. CASE y \notin Procs
  BY <1>2, Zenon DEF On
<1> QED
  BY <1>1, <1>2, Zenon

\* The processor that switches to q has interrupts as q needs them.
LEMMA SwitchCpus ==
  ASSUME TypeOK, ThreadInv, CpuInv, NEW c \in Cpus, pc[c] = "none",
         NEW q \in Procs \cup {NoProc}, run' = [run EXCEPT ![c] = q],
         cpu'[c].ncli = 0, cpu'[c].fl <=> q = NoProc \/ saved[q],
         \A d \in Cpus \ {c} : cpu'[d] = cpu[d],
         q \in Procs => /\ pc[q] \notin {"asleep", "exited"}
                        /\ \A d \in Cpus : run[d] # q,
         \A d \in Cpus : pc'[d] = pc[d],
         \A z \in Procs : z # run[c] =>
                            pc'[z] = pc[z] /\ inTrap'[z] = inTrap[z]
  PROVE  CpuInv'
<1>1. run \in [Cpus -> Procs \cup {NoProc}]
  BY Zenon DEF TypeOK
<1>2. run'[c] = q /\ \A d \in Cpus \ {c} : run'[d] = run[d]
  BY <1>1, Zenon
<1>3. CpuOK(c)'
  <2>1. CASE q = NoProc
    <3>1. Open(c)' /\ cpu'[c].fl
      BY <1>2, <2>1, Zenon DEF Open
    <3> QED
      BY <3>1, Zenon DEF CpuOK, Locking
  <2>2. CASE q \in Procs
    <3>1. /\ pc[q] \in {"user", "call"} /\ (saved[q] <=> ~inTrap[q])
      BY <2>2, Zenon DEF ThreadInv, ThreadOK
    <3>2. pc'[q] = pc[q] /\ inTrap'[q] = inTrap[q] /\ q # NoProc
      BY <2>2, ConsoleAssumption, Zenon
    <3>3. Open(c)' <=> ~inTrap[q]
      BY <1>2, <3>1, <3>2, Zenon DEF Open
    <3> QED
      BY <1>2, <3>1, <3>2, <3>3, Zenon DEF CpuOK, Locking
  <2> QED
    BY <2>1, <2>2, Zenon
<1>4. ASSUME NEW d \in Cpus \ {c} PROVE CpuOK(d)'
  <2>1. run[d] # NoProc => run[d] \in Procs /\ run[d] # run[c]
    BY <1>1 DEF ThreadInv
  <2>2. run[d] # NoProc => /\ inTrap'[run[d]] = inTrap[run[d]]
                           /\ pc'[run[d]] = pc[run[d]]
    BY <2>1, Zenon
  <2> QED
    BY <1>2, <2>2, CpuFrame, Zenon DEF CpuInv
<1> QED
  BY <1>3, <1>4, Zenon DEF CpuInv

\* The scheduler goes on with a thread that waits for a processor.
LEMMA ScheduleInv ==
  ASSUME IInv, NEW c \in Cpus, NEW q \in Procs, Schedule(c, q)
  PROVE  IInv'
<1>1. /\ run[c] = NoProc /\ pc[c] = "none" /\ SwitchTo(c, pushcli(cpu[c]), q)
      /\ UNCHANGED <<lk, panicked, buf, r, w, e, pc, inTrap, saved, killed>>
  BY Zenon DEF Schedule, ringVars
<1>2. TypeOK /\ CpuInv /\ ThreadInv /\ LockInv
  BY Zenon DEF IInv
<1>3. pushcli(cpu[c]) \in CpuState /\ pushcli(cpu[c]).ncli = 1
  <2>1. cpu[c] \in CpuState
    BY <1>2, Zenon DEF TypeOK, CpuState
  <2>2. cpu[c].ncli = 0
    BY <1>1, <1>2, Zenon DEF CpuInv, CpuOK, Open
  <2> QED
    BY <2>1, <2>2, PushFirst, Zenon
<1>4a. TypeOK /\ pushcli(cpu[c]) \in CpuState /\ pushcli(cpu[c]).ncli = 1
        /\ q \in Procs \cup {NoProc} /\ SwitchTo(c, pushcli(cpu[c]), q)
  BY <1>1, <1>2, <1>3, Zenon
<1>4. /\ run' = [run EXCEPT ![c] = q]
      /\ cpu' \in [Cpus -> CpuState]
      /\ cpu'[c].ncli = 0 /\ (cpu'[c].fl <=> q = NoProc \/ saved[q])
      /\ \A d \in Cpus \ {c} : cpu'[d] = cpu[d]
      /\ q \in Procs => /\ pc[q] \notin {"asleep", "exited"}
                        /\ \A d \in Cpus : run[d] # q
  BY <1>4a, SwitchFacts, Zenon
<1>5. TypeOK'
  BY <1>1, <1>2, <1>4, Zenon DEF TypeOK, CpuState
<1>6. CpuInv'
  BY <1>1, <1>2, <1>4, SwitchCpus, Zenon
<1>7. ThreadInv'
  <2>1. run \in [Cpus -> Procs \cup {NoProc}]
    BY <1>2, Zenon DEF TypeOK
  <2>2. run'[c] = q /\ \A d \in Cpus \ {c} : run'[d] = run[d]
    BY <1>4, <2>1, Zenon
  <2>3. \A a, d \in Cpus : run'[a] \in Procs /\ run'[a] = run'[d] => a = d
    BY <1>2, <1>4, <2>2 DEF ThreadInv
  <2>4. ASSUME NEW z \in Procs \ {q} PROVE ThreadOK(z)'
    <3>1. \A d \in Cpus : run'[d] = z <=> run[d] = z
      BY <1>1, <2>2, ConsoleAssumption, Zenon
    <3> QED
      BY <1>1, <1>2, <3>1, ThreadFrame, Zenon DEF ThreadInv
  <2>5. ThreadOK(q)'
    BY <1>1, <1>2, <1>4, <2>2, Zenon DEF ThreadInv, ThreadOK
  <2> QED
    BY <2>3, <2>4, <2>5, Zenon DEF ThreadInv
<1>8. LockInv'
  <2>1. ASSUME NEW y \in Contexts, NEW d \in Cpus, pc[y] = "critical"
        PROVE  On(y, d)' <=> On(y, d)
    <3>1. y \in Procs => run[c] # y
      BY <1>1, ConsoleAssumption, Zenon
    <3> QED
      BY <1>1, <1>2, <1>4, <2>1, <3>1, SwitchOn, Zenon
  <2> QED
    BY <1>1, <1>2, <2>1, LockFrame, Zenon
<1>9. RingInv' /\ NoPanic' /\ SleepsForReason'
  BY <1>1, RestFrame, Zenon
<1> QED
  BY <1>5, <1>6, <1>7, <1>8, <1>9, Zenon DEF IInv

\* The timer takes the processor from a thread, which keeps its intena.
LEMMA TimerInv ==
  ASSUME IInv, NEW c \in Cpus, NEW p \in Procs,
         NEW q \in (Procs \ {p}) \cup {NoProc}, Timer(c, p, q)
  PROVE  IInv'
<1> DEFINE k == pushcli([cpu[c] EXCEPT !.fl = FALSE])
<1>1. /\ cpu[c].fl /\ pc[c] = "none" /\ run[c] = p
      /\ saved' = [saved EXCEPT ![p] = k.intena]
      /\ panicked' = (panicked \/ schedPanics(k))
      /\ SwitchTo(c, k, q)
      /\ inTrap' = [inTrap EXCEPT ![p] = TRUE]
      /\ UNCHANGED <<lk, buf, r, w, e, pc, killed>>
  BY Zenon DEF Timer, ringVars
<1>2. TypeOK /\ CpuInv /\ ThreadInv /\ LockInv
  BY Zenon DEF IInv
<1>3. Open(c) /\ cpu[c].ncli = 0
  BY <1>1, <1>2, Zenon DEF CpuInv, CpuOK
<1>4. k \in CpuState /\ k.ncli = 1 /\ k.intena = FALSE /\ k.fl = FALSE
  <2>1. cpu[c] \in CpuState
    BY <1>2, Zenon DEF TypeOK, CpuState
  <2> DEFINE j == [cpu[c] EXCEPT !.fl = FALSE]
  <2>2. j \in CpuState /\ j.ncli = 0 /\ j.fl = FALSE
    BY <1>3, <2>1, FieldFacts, Zenon
  <2> HIDE DEF j
  <2>3. /\ pushcli(j) \in CpuState /\ pushcli(j).ncli = 1
        /\ pushcli(j).intena = FALSE /\ pushcli(j).fl = FALSE
    BY <2>2, PushFirst, Zenon
  <2> QED
    BY <2>3, Zenon DEF j
<1> HIDE DEF k
<1>5. q \in Procs \cup {NoProc} /\ q # p
  BY ConsoleAssumption, Zenon
<1>6a. TypeOK /\ k \in CpuState /\ k.ncli = 1
        /\ q \in Procs \cup {NoProc} /\ SwitchTo(c, k, q)
  BY <1>1, <1>2, <1>4, <1>5, Zenon
<1>6. /\ run' = [run EXCEPT ![c] = q]
      /\ cpu' \in [Cpus -> CpuState]
      /\ cpu'[c].ncli = 0 /\ (cpu'[c].fl <=> q = NoProc \/ saved[q])
      /\ \A d \in Cpus \ {c} : cpu'[d] = cpu[d]
      /\ q \in Procs => /\ pc[q] \notin {"asleep", "exited"}
                        /\ \A d \in Cpus : run[d] # q
  BY <1>6a, SwitchFacts, Zenon
<1>7. panicked' = panicked
  BY <1>1, <1>2, <1>4, Zenon DEF schedPanics, TypeOK
<1>8. /\ saved' \in [Procs -> BOOLEAN] /\ inTrap' \in [Procs -> BOOLEAN]
      /\ saved'[p] = FALSE /\ inTrap'[p] = TRUE
      /\ \A z \in Procs \ {p} : inTrap'[z] = inTrap[z] /\ saved'[z] = saved[z]
  BY <1>1, <1>2, <1>4, Zenon DEF TypeOK
<1>9. TypeOK'
  BY <1>1, <1>2, <1>5, <1>6, <1>7, <1>8, Zenon DEF TypeOK, CpuState
<1>10. CpuInv'
  BY <1>1, <1>2, <1>5, <1>6, <1>8, SwitchCpus, Zenon
<1>11. pc[p] \in {"user", "call"}
  BY <1>1, <1>3, ConsoleAssumption, Zenon DEF Open
<1>12. ThreadInv'
  BY <1>1, <1>2, <1>5, <1>6, <1>8, <1>11, SwitchThreads, Zenon
<1>13. LockInv'
  <2>1. ASSUME NEW y \in Contexts, NEW d \in Cpus, pc[y] = "critical"
        PROVE  On(y, d)' <=> On(y, d)
    <3>1. run[c] # y /\ (y \in Procs => (inTrap'[y] <=> inTrap[y]))
      BY <1>1, <1>8, <1>11, <2>1, Zenon
    <3> QED
      BY <1>1, <1>2, <1>6, <2>1, <3>1, SwitchOn, Zenon
  <2> QED
    BY <1>1, <1>2, <2>1, LockFrame, Zenon
<1>14. RingInv' /\ NoPanic' /\ SleepsForReason'
  BY <1>1, <1>7, RestFrame, Zenon
<1> QED
  BY <1>9, <1>10, <1>12, <1>13, <1>14, Zenon DEF IInv

\* consoleread() sleeps and gives the lock and the processor up.
LEMMA SleepInv ==
  ASSUME IInv, WaitInv, NEW c \in Cpus, NEW p \in Procs,
         NEW q \in (Procs \ {p}) \cup {NoProc}, Sleep(c, p, q)
  PROVE  IInv'
<1> DEFINE k == popcli(pushcli(cpu[c]))
<1>1. /\ On(p, c) /\ pc[p] = "critical" /\ r = w
      /\ lk' = [locked |-> FALSE, cpu |-> NoCpu]
      /\ saved' = [saved EXCEPT ![p] = k.intena]
      /\ panicked' = (panicked \/ ~holding(c) \/ schedPanics(k))
      /\ SwitchTo(c, k, q)
      /\ pc' = [pc EXCEPT ![p] = "asleep"]
      /\ UNCHANGED <<buf, r, w, e, inTrap, killed>>
  BY Zenon DEF Sleep, Goto, ringVars, WaitInv
<1>2. /\ TypeOK /\ CpuInv /\ ThreadInv /\ LockInv /\ RingInv /\ NoPanic
      /\ SleepsForReason /\ p \in Contexts
  BY Zenon DEF IInv, Contexts
<1>3. /\ pc[c] = "none" /\ run[c] = p /\ ~inTrap[p]
      /\ Fits(cpu[c], "critical", p)
  BY <1>1, <1>2, OnFacts, Zenon
<1>4. k \in CpuState /\ k.ncli = 1 /\ k.intena = TRUE /\ ~k.fl
  <2>1. cpu[c] \in CpuState
    BY <1>2, Zenon DEF TypeOK, CpuState
  <2>2. cpu[c].ncli = 1 /\ cpu[c].intena = TRUE
    BY <1>3, <2>1, Zenon DEF Fits, Locking, CpuState
  <2>3. /\ pushcli(cpu[c]) \in CpuState /\ pushcli(cpu[c]).ncli = 2
        /\ pushcli(cpu[c]).intena = TRUE
    BY <2>1, <2>2, PushAgain, Zenon
  <2> QED
    BY <2>3, PopFacts
<1> HIDE DEF k
<1>5. q \in Procs \cup {NoProc} /\ q # p
  BY ConsoleAssumption, Zenon
<1>6a. TypeOK /\ k \in CpuState /\ k.ncli = 1
        /\ q \in Procs \cup {NoProc} /\ SwitchTo(c, k, q)
  BY <1>1, <1>2, <1>4, <1>5, Zenon
<1>6. /\ run' = [run EXCEPT ![c] = q]
      /\ cpu' \in [Cpus -> CpuState]
      /\ cpu'[c].ncli = 0 /\ (cpu'[c].fl <=> q = NoProc \/ saved[q])
      /\ \A d \in Cpus \ {c} : cpu'[d] = cpu[d]
      /\ q \in Procs => /\ pc[q] \notin {"asleep", "exited"}
                        /\ \A d \in Cpus : run[d] # q
  BY <1>6a, SwitchFacts, Zenon
<1>7. panicked' = panicked
  <2>1. holding(c)
    BY <1>1, <1>2, Zenon DEF LockInv, holding, Held
  <2> QED
    BY <1>1, <1>2, <1>4, <2>1, Zenon DEF schedPanics, TypeOK
<1>8. /\ pc' \in [Contexts -> Pcs] /\ pc'[p] = "asleep"
      /\ \A y \in Contexts \ {p} : pc'[y] = pc[y]
  BY <1>1, <1>2, Zenon DEF TypeOK, Pcs
<1>9. /\ \A d \in Cpus : pc'[d] = pc[d]
      /\ \A z \in Procs \ {p} : pc'[z] = pc[z]
  BY <1>8, ConsoleAssumption, Zenon DEF Contexts
<1>10. /\ saved' \in [Procs -> BOOLEAN] /\ saved'[p] = TRUE
       /\ \A z \in Procs \ {p} : saved'[z] = saved[z]
  BY <1>1, <1>2, <1>4, Zenon DEF TypeOK
<1>11. TypeOK'
  <2>1. lk' \in [locked : BOOLEAN, cpu : Cpus \cup {NoCpu}]
    BY <1>1, Zenon
  <2>2. run' \in [Cpus -> Procs \cup {NoProc}]
    BY <1>2, <1>5, <1>6, Zenon DEF TypeOK
  <2> QED
    BY <1>1, <1>2, <1>6, <1>7, <1>8, <1>10, <2>1, <2>2, Zenon
       DEF TypeOK, CpuState
<1>12. CpuInv'
  BY <1>1, <1>2, <1>3, <1>5, <1>6, <1>9, SwitchCpus, Zenon
<1>13. ThreadInv'
  <2>1. \A z \in Procs \ {p} : /\ pc'[z] = pc[z] /\ inTrap'[z] = inTrap[z]
                               /\ saved'[z] = saved[z]
    BY <1>1, <1>9, <1>10, Zenon
  <2>2. /\ pc'[p] \in {"user", "call", "asleep", "exited"}
        /\ inTrap'[p] => pc'[p] \in {"user", "call"}
        /\ pc'[p] # "exited" => (saved'[p] <=> ~inTrap'[p])
    BY <1>1, <1>3, <1>8, <1>10, Zenon
  <2> QED
    BY <1>2, <1>3, <1>5, <1>6, <2>1, <2>2, SwitchThreads, Zenon
<1>14. LockInv'
  <2>1. \A y \in Contexts : pc[y] \in Held => y = p
    BY <1>1, <1>2, Zenon DEF LockInv, Held
  <2>2. \A y \in Contexts : pc'[y] \notin Held /\ pc'[y] # "critical"
    BY <1>8, <2>1, Zenon DEF Held
  <2>3. ~lk'.locked /\ lk'.cpu = NoCpu
    BY <1>1, Zenon
  <2> QED
    BY <2>2, <2>3, SpinlockAssumption, Zenon DEF LockInv
<1>15. RingInv' /\ NoPanic'
  BY <1>1, <1>2, <1>7, SameRing DEF NoPanic
<1>16. SleepsForReason'
  <2>1. r \in 0..WRAP - 1 /\ w \in 0..WRAP - 1 /\ e \in 0..WRAP - 1
    BY <1>2, Zenon DEF TypeOK
  <2>2. Dist(r, e) < INPUT_BUF
    BY <1>1, <1>2, <2>1, DistRange, WrapFacts DEF RingInv
  <2>3. Used' < INPUT_BUF
    BY <1>1, <2>2, Zenon DEF Used, Dist
  <2> QED
    BY <1>1, <1>2, <1>9, <2>3, Zenon DEF SleepsForReason
<1> QED
  BY <1>11, <1>12, <1>13, <1>14, <1>15, <1>16, Zenon DEF IInv

\* A killed process gives its processor up for good.
LEMMA ExitInv ==
  ASSUME IInv, NEW c \in Cpus, NEW p \in Procs,
         NEW q \in (Procs \ {p}) \cup {NoProc}, Exit(c, p, q)
  PROVE  IInv'
<1> DEFINE k == pushcli(cpu[c])
<1>1. /\ On(p, c) /\ pc[p] = "user"
      /\ panicked' = (panicked \/ schedPanics(k))
      /\ SwitchTo(c, k, q)
      /\ pc' = [pc EXCEPT ![p] = "exited"]
      /\ UNCHANGED <<lk, buf, r, w, e, inTrap, saved, killed>>
  BY Zenon DEF Exit, Goto, ringVars
<1>2. /\ TypeOK /\ CpuInv /\ ThreadInv /\ LockInv /\ p \in Contexts
  BY Zenon DEF IInv, Contexts
<1>3. pc[c] = "none" /\ run[c] = p /\ ~inTrap[p] /\ Fits(cpu[c], "user", p)
  BY <1>1, <1>2, OnFacts, Zenon
<1>4. k \in CpuState /\ k.ncli = 1 /\ ~k.fl
  <2>1. cpu[c] \in CpuState
    BY <1>2, Zenon DEF TypeOK, CpuState
  <2>2. cpu[c].ncli = 0
    BY <1>3, Zenon DEF Fits, Locking
  <2> QED
    BY <2>1, <2>2, PushFirst, Zenon
<1> HIDE DEF k
<1>5. q \in Procs \cup {NoProc} /\ q # p
  BY ConsoleAssumption, Zenon
<1>6a. TypeOK /\ k \in CpuState /\ k.ncli = 1
        /\ q \in Procs \cup {NoProc} /\ SwitchTo(c, k, q)
  BY <1>1, <1>2, <1>4, <1>5, Zenon
<1>6. /\ run' = [run EXCEPT ![c] = q]
      /\ cpu' \in [Cpus -> CpuState]
      /\ cpu'[c].ncli = 0 /\ (cpu'[c].fl <=> q = NoProc \/ saved[q])
      /\ \A d \in Cpus \ {c} : cpu'[d] = cpu[d]
      /\ q \in Procs => /\ pc[q] \notin {"asleep", "exited"}
                        /\ \A d \in Cpus : run[d] # q
  BY <1>6a, SwitchFacts, Zenon
<1>7. panicked' = panicked
  BY <1>1, <1>2, <1>4, Zenon DEF schedPanics, TypeOK
<1>8. /\ pc' \in [Contexts -> Pcs] /\ pc'[p] = "exited"
      /\ \A y \in Contexts \ {p} : pc'[y] = pc[y]
  BY <1>1, <1>2, Zenon DEF TypeOK, Pcs
<1>9. /\ \A d \in Cpus : pc'[d] = pc[d]
      /\ \A z \in Procs \ {p} : pc'[z] = pc[z]
  BY <1>8, ConsoleAssumption, Zenon DEF Contexts
<1>10. TypeOK'
  <2>1. run' \in [Cpus -> Procs \cup {NoProc}]
    BY <1>2, <1>5, <1>6, Zenon DEF TypeOK
  <2> QED
    BY <1>1, <1>2, <1>6, <1>7, <1>8, <2>1, Zenon DEF TypeOK, CpuState
<1>11. CpuInv'
  BY <1>1, <1>2, <1>3, <1>5, <1>6, <1>9, SwitchCpus, Zenon
<1>12. ThreadInv'
  BY <1>1, <1>2, <1>3, <1>5, <1>6, <1>8, <1>9, SwitchThreads, Zenon
<1>13. LockInv'
  <2>1. \A y \in Contexts : /\ pc'[y] \in Held <=> pc[y] \in Held
                            /\ pc'[y] = "critical" <=> pc[y] = "critical"
    BY <1>1, <1>8, Zenon DEF Held
  <2>2. ASSUME NEW y \in Contexts, NEW d \in Cpus, pc[y] = "critical"
        PROVE  On(y, d)' <=> On(y, d)
    <3>1. run[c] # y
      BY <1>1, <1>3, <2>2, Zenon
    <3> QED
      BY <1>1, <1>2, <1>6, <1>9, <2>2, <3>1, SwitchOn, Zenon
  <2> QED
    BY <1>1, <1>2, <2>1, <2>2, LockFrame, Zenon
<1>14. RingInv' /\ NoPanic' /\ SleepsForReason'
  BY <1>1, <1>7, <1>8, <1>9, RestFrame
<1> QED
  BY <1>10, <1>11, <1>12, <1>13, <1>14, Zenon DEF IInv

\* A preempted thread goes on where it was interrupted.
LEMMA TrapReturnInv ==
  ASSUME IInv, NEW c \in Cpus, NEW p \in Procs, TrapReturn(c, p)
  PROVE  IInv'
<1>1. /\ pc[c] = "none" /\ run[c] = p /\ inTrap[p]
      /\ inTrap' = [inTrap EXCEPT ![p] = FALSE]
      /\ cpu' = [cpu EXCEPT ![c] = [cpu[c] EXCEPT !.fl = TRUE]]
      /\ UNCHANGED <<lk, panicked, buf, r, w, e, pc, run, saved, killed>>
  BY Zenon DEF TrapReturn, ringVars
<1>2. TypeOK /\ CpuInv /\ ThreadInv /\ LockInv
  BY Zenon DEF IInv
<1>3. /\ cpu \in [Cpus -> CpuState] /\ cpu[c] \in CpuState
      /\ inTrap \in [Procs -> BOOLEAN] /\ run \in [Cpus -> Procs \cup {NoProc}]
  BY <1>2, Zenon DEF TypeOK, CpuState
<1>4. /\ cpu' \in [Cpus -> CpuState] /\ cpu'[c].fl = TRUE
      /\ cpu'[c].ncli = cpu[c].ncli
      /\ \A d \in Cpus \ {c} : cpu'[d] = cpu[d]
  <2> DEFINE j == [cpu[c] EXCEPT !.fl = TRUE]
  <2>1. j \in CpuState /\ j.fl = TRUE /\ j.ncli = cpu[c].ncli
    BY <1>3, FieldFacts, Zenon
  <2>2. cpu' = [cpu EXCEPT ![c] = j]
    BY <1>1, Zenon
  <2> HIDE DEF j
  <2> QED
    BY <1>3, <2>1, <2>2, Zenon
<1>5. /\ inTrap' \in [Procs -> BOOLEAN] /\ ~inTrap'[p]
      /\ \A z \in Procs \ {p} : inTrap'[z] = inTrap[z]
  BY <1>1, <1>3, Zenon
<1>6. ThreadOK(p) /\ pc[p] \in {"user", "call"}
  BY <1>1, <1>2, Zenon DEF ThreadInv, ThreadOK
<1>7. TypeOK'
  BY <1>1, <1>2, <1>4, <1>5, Zenon DEF TypeOK, CpuState
<1>8. CpuInv'
  <2>1. CpuOK(c)'
    <3>1. ~Open(c)
      BY <1>1, ConsoleAssumption, Zenon DEF Open
    <3>2. cpu[c].ncli = 0
      BY <1>1, <1>2, <3>1, Zenon DEF CpuInv, CpuOK
    <3>3. Open(c)'
      BY <1>1, <1>5, <1>6, Zenon DEF Open
    <3> QED
      BY <1>1, <1>4, <3>2, <3>3, Zenon DEF CpuOK, Locking
  <2>2. ASSUME NEW d \in Cpus \ {c} PROVE CpuOK(d)'
    <3>1. run[d] # NoProc => run[d] \in Procs \ {p}
      BY <1>1, <1>2, <1>3, Zenon DEF ThreadInv
    <3> QED
      BY <1>1, <1>2, <1>4, <1>5, <3>1, CpuFrame, Zenon DEF CpuInv
  <2> QED
    BY <2>1, <2>2, Zenon DEF CpuInv
<1>9. ThreadInv'
  <2>1. ThreadOK(p)'
    BY <1>1, <1>5, <1>6, Zenon DEF ThreadOK
  <2>2. ASSUME NEW z \in Procs \ {p} PROVE ThreadOK(z)'
    BY <1>1, <1>2, <1>5, ThreadFrame, Zenon DEF ThreadInv
  <2> QED
    BY <1>1, <1>2, <2>1, <2>2, Zenon DEF ThreadInv
<1>10. LockInv'
  <2>1. ASSUME NEW y \in Contexts, NEW d \in Cpus, pc[y] = "critical"
        PROVE  On(y, d)' <=> On(y, d)
    <3>1. y # p
      BY <1>6, <2>1, Zenon
    <3> QED
      BY <1>1, <1>5, <3>1, Zenon DEF On
  <2> QED
    BY <1>1, <1>2, <2>1, LockFrame, Zenon
<1>11. RingInv' /\ NoPanic' /\ SleepsForReason'
  BY <1>1, RestFrame, Zenon
<1> QED
  BY <1>7, <1>8, <1>9, <1>10, <1>11, Zenon DEF IInv

\* kill() makes a sleeper runnable.
LEMMA KillInv ==
  ASSUME IInv, NEW p \in Procs, Kill(p)
  PROVE  IInv'
<1>1. /\ killed' = [killed EXCEPT ![p] = TRUE]
      /\ pc' = IF pc[p] = "asleep" THEN [pc EXCEPT ![p] = "call"] ELSE pc
      /\ UNCHANGED <<cpu, lk, panicked, buf, r, w, e, run, inTrap, saved>>
  BY Zenon DEF Kill, lockVars, ringVars, threadVars
<1>2. /\ pc \in [Contexts -> Pcs] /\ killed \in [Procs -> BOOLEAN]
      /\ buf \in [0..INPUT_BUF - 1 -> Char] /\ RingInv /\ SleepsForReason
      /\ r \in 0..WRAP - 1 /\ w \in 0..WRAP - 1 /\ e \in 0..WRAP - 1
  BY Zenon DEF IInv, TypeOK
<1>3. /\ pc' \in [Contexts -> Pcs] /\ pc'[p] # "asleep"
      /\ \A y \in Contexts : \/ pc'[y] = pc[y]
                             \/ pc[y] = "asleep" /\ pc'[y] = "call"
  BY <1>1, <1>2, Zenon DEF Contexts, Pcs
<1>4. /\ killed' \in [Procs -> BOOLEAN]
      /\ \A z \in Procs \ {p} : killed'[z] = killed[z]
  BY <1>1, <1>2, Zenon
<1>5. RingInv'
  BY <1>1, <1>2, SameRing, Zenon
<1>6. SleepsForReason'
  <2>1. \A z \in Procs : pc'[z] = "asleep" => pc[z] = "asleep"
    BY <1>3, Zenon DEF Contexts
  <2> QED
    BY <1>1, <2>1, RestFrame, Zenon
<1> QED
  BY <1>1, <1>2, <1>3, <1>4, <1>5, <1>6, WakeInv, Zenon

\* consoleintr() erases a character.
LEMMA BackspaceInv ==
  ASSUME IInv, NEW c \in Cpus, Backspace(c)
  PROVE  IInv'
<1>1. /\ r \in 0..WRAP - 1 /\ w \in 0..WRAP - 1 /\ e \in 0..WRAP - 1
      /\ RingInv
  BY Zenon DEF IInv, TypeOK
<1>2. /\ pc[c] = "critical" /\ e # w /\ e' = Dec(e)
      /\ UNCHANGED <<lockVars, buf, r, w, pc, threadVars, callVars, killed>>
  BY Zenon DEF Backspace
<1>3. /\ Dist(w, e) \in Nat /\ Dist(w, e) # 0 /\ Dist(r, w) \in Nat
      /\ Dist(r, w) + Dist(w, e) = Dist(r, e)
  BY <1>1, <1>2, DistRange DEF RingInv
<1>4. 1 \in 0..Dist(w, e) /\ Dist(w, e) > 0 /\ Dist(r, e) > 0
  BY <1>3
<1>5. e' \in 0..WRAP - 1
  BY <1>1, <1>2, StepRange, Zenon
<1>6. Dist(w, e') = Dist(w, e) - 1 /\ Dist(r, e') = Dist(r, e) - 1
  BY <1>1, <1>2, <1>4, DistDec, Zenon
<1> QED
  BY <1>2, <1>4, <1>5, <1>6, EraseInv, Zenon

\* kill-line goes back to w: no newline is in the way.
LEMMA KillLineBack ==
  ASSUME IInv, NEW c \in Cpus, KillLine(c)
  PROVE  e' = w
<1> DEFINE typed == (e + WRAP - w) % WRAP
           stops == {k \in 0..typed :
                       k = typed \/ buf[Slot(e + WRAP - k - 1)] = "newline"}
           back == CHOOSE k \in stops : \A j \in stops : k <= j
<1>1. /\ r \in 0..WRAP - 1 /\ w \in 0..WRAP - 1 /\ e \in 0..WRAP - 1
      /\ RingInv
  BY Zenon DEF IInv, TypeOK
<1>2. typed = Dist(w, e) /\ typed \in Nat /\ typed <= WRAP - 1
  BY <1>1, DistRange, WrapFacts DEF Dist
<1>3. e' = (e + WRAP - back) % WRAP
  BY Zenon DEF KillLine
<1>4. ASSUME NEW k \in 0..typed, k # typed
      PROVE  buf[Slot(e + WRAP - k - 1)] # "newline"
  <2> DEFINE a == w + (typed - k) - 1
  <2>1. a \in Nat /\ typed - k \in 1..typed
    BY <1>1, <1>2, <1>4
  <2>2. e + WRAP - k - 1 = a \/ e + WRAP - k - 1 = a + WRAP
    <3> HIDE DEF typed
    <3>1. typed = IF e >= w THEN e - w ELSE e - w + WRAP
      BY <1>1, <1>2, DistIs, Zenon
    <3> QED
      BY <1>1, <1>2, <3>1, WrapFacts
  <2>3. Slot(e + WRAP - k - 1) = Slot(a)
    <3> HIDE DEF a
    <3> QED
      BY <2>1, <2>2, SlotWrap, Zenon
  <2>4. buf[Slot(a)] # "newline"
    <3> HIDE DEF typed
    <3> QED
      BY <1>1, <1>2, <2>1, Zenon DEF RingInv
  <2> QED
    BY <2>3, <2>4, Zenon
<1>5. stops = {typed}
  <2>1. typed \in stops
    BY <1>2
  <2> HIDE DEF typed
  <2> QED
    BY <1>4, <2>1, Zenon
<1>6. back = typed
  <2>1. \A j \in {typed} : typed <= j
    BY <1>2
  <2> HIDE DEF typed, stops
  <2> QED
    BY <1>5, <2>1, Zenon
<1> HIDE DEF back, typed
<1> QED
  BY <1>1, <1>2, <1>3, <1>6, DistBack, Zenon

\* consoleintr() erases the line.
LEMMA KillLineInv ==
  ASSUME IInv, NEW c \in Cpus, KillLine(c)
  PROVE  IInv'
<1>1. /\ r \in 0..WRAP - 1 /\ w \in 0..WRAP - 1 /\ e \in 0..WRAP - 1
      /\ RingInv
  BY Zenon DEF IInv, TypeOK
<1>2. /\ pc[c] = "critical"
      /\ UNCHANGED <<lockVars, buf, r, w, pc, threadVars, callVars, killed>>
  BY Zenon DEF KillLine
<1>3. e' = w
  BY KillLineBack, Zenon
<1>4. /\ Dist(w, e) \in Nat /\ Dist(w, w) = 0 /\ Dist(r, w) \in Nat
      /\ Dist(r, w) + Dist(w, e) = Dist(r, e)
  BY <1>1, DistRange DEF RingInv
<1>5. /\ Dist(w, e) \in 0..Dist(w, e)
      /\ Dist(w, e') = Dist(w, e) - Dist(w, e)
      /\ Dist(r, e') = Dist(r, e) - Dist(w, e)
  BY <1>3, <1>4
<1> QED
  BY <1>1, <1>2, <1>3, <1>5, EraseInv, Zenon

\* consoleintr() ends.
LEMMA HandlerDoneInv ==
  ASSUME IInv, NEW c \in Cpus, HandlerDone(c)
  PROVE  IInv'
<1>1. /\ pc[c] = "critical" /\ Leave(c, c)
      /\ UNCHANGED <<buf, r, w, e>> /\ UNCHANGED <<threadVars, killed>>
  BY Zenon DEF HandlerDone, ringVars
<1>2. On(c, c) /\ c \in Contexts
  BY <1>1, Zenon DEF On, Contexts
<1>3. RingInv' /\ r' \in 0..WRAP - 1
  BY <1>1, SameRing, Zenon DEF IInv, TypeOK
<1> QED
  BY <1>1, <1>2, <1>3, LeaveInv, Zenon

\* consoleread() is cut short by a kill.
LEMMA ReadKilledInv ==
  ASSUME IInv, NEW c \in Cpus, NEW p \in Procs, ReadKilled(c, p)
  PROVE  IInv'
<1>1. /\ On(p, c) /\ pc[p] = "critical" /\ Leave(p, c) /\ p \in Contexts
      /\ UNCHANGED <<buf, r, w, e>> /\ UNCHANGED <<threadVars, killed>>
  BY Zenon DEF ReadKilled, Reading, ringVars, Contexts
<1>2. RingInv' /\ r' \in 0..WRAP - 1
  BY <1>1, SameRing, Zenon DEF IInv, TypeOK
<1> QED
  BY <1>1, <1>2, LeaveInv, Zenon

\* consolewrite() ends.
LEMMA WriteInv ==
  ASSUME IInv, NEW c \in Cpus, NEW p \in Procs, Write(c, p)
  PROVE  IInv'
<1>1. /\ On(p, c) /\ pc[p] = "critical" /\ Leave(p, c) /\ p \in Contexts
      /\ UNCHANGED <<buf, r, w, e>> /\ UNCHANGED <<threadVars, killed>>
  BY Zenon DEF Write, ringVars, Contexts
<1>2. RingInv' /\ r' \in 0..WRAP - 1
  BY <1>1, SameRing, Zenon DEF IInv, TypeOK
<1> QED
  BY <1>1, <1>2, LeaveInv, Zenon

\* consoleread() takes a character, or leaves an end of file.
LEMMA ReadCharInv ==
  ASSUME IInv, NEW c \in Cpus, NEW p \in Procs, ReadChar(c, p)
  PROVE  IInv'
<1>1. /\ On(p, c) /\ pc[p] = "critical" /\ r # w /\ p \in Contexts
      /\ r' = r \/ r' = Inc(r)
      /\ Leave(p, c) \/ UNCHANGED <<lockVars, pc>>
      /\ UNCHANGED <<buf, w, e>> /\ UNCHANGED <<threadVars, killed>>
  BY Zenon DEF ReadChar, Reading, Contexts
<1>2. /\ r \in 0..WRAP - 1 /\ w \in 0..WRAP - 1 /\ e \in 0..WRAP - 1
      /\ RingInv /\ SleepsForReason /\ buf \in [0..INPUT_BUF - 1 -> Char]
  BY Zenon DEF IInv, TypeOK
<1>3. /\ Dist(w, e) \in Nat /\ Dist(r, w) # 0 /\ Dist(r, w) \in Nat
      /\ Dist(r, w) + Dist(w, e) = Dist(r, e) /\ Dist(r, e) <= INPUT_BUF
  BY <1>1, <1>2, DistRange DEF RingInv
<1>4. r' \in 0..WRAP - 1
  BY <1>1, <1>2, StepRange, Zenon
<1>5. RingInv'
  <2>1. CASE r' = Inc(r)
    <3>1. Dist(r, w) > 0 /\ Dist(r, e) > 0
      BY <1>3
    <3>2. Dist(r', w) = Dist(r, w) - 1 /\ Dist(r', e) = Dist(r, e) - 1
      BY <1>2, <2>1, <3>1, DistTake, Zenon
    <3>3. /\ Dist(r', w) + Dist(w, e) = Dist(r', e) /\ Dist(r', e) <= INPUT_BUF
          /\ Dist(r', e) # INPUT_BUF
      BY <1>3, <3>2, WrapFacts
    <3> QED
      BY <1>1, <1>2, <3>3, Zenon DEF RingInv
  <2>2. CASE r' = r
    BY <1>1, <1>2, <2>2, SameRing, Zenon
  <2> QED
    BY <1>1, <2>1, <2>2, Zenon
<1>6. CASE Leave(p, c)
  BY <1>1, <1>4, <1>5, <1>6, LeaveInv, Zenon
<1>7. CASE UNCHANGED <<lockVars, pc>>
  <2>1. SleepsForReason'
    BY <1>1, <1>2, <1>7, Zenon DEF SleepsForReason
  <2>2. UNCHANGED <<lockVars, threadVars, killed>> /\ pc' = pc
    BY <1>1, <1>7, Zenon
  <2> QED
    BY <1>1, <1>2, <1>4, <1>5, <2>1, <2>2, RingStepInv, Zenon
<1> QED
  BY <1>1, <1>6, <1>7, Zenon

-----------------------------------------------------------------------------
\* The invariant at boot.
LEMMA InitInv == Init => IInv
<1> SUFFICES ASSUME Init PROVE IInv
  BY Zenon
<1>1. /\ cpu = [c \in Cpus |-> [fl |-> TRUE, ncli |-> 0, intena |-> TRUE]]
      /\ lk = [locked |-> FALSE, cpu |-> NoCpu] /\ panicked = FALSE
  BY Zenon DEF Init, LockInit
<1>2. TypeOK
  <2>1. cpu \in [Cpus -> [fl : BOOLEAN, ncli : Nat, intena : BOOLEAN]]
    BY <1>1, Zenon
  <2>2. lk \in [locked : BOOLEAN, cpu : Cpus \cup {NoCpu}]
    BY <1>1, Zenon
  <2>3. buf \in [0..INPUT_BUF - 1 -> Char]
    BY Zenon DEF Init, Char, LineEnds
  <2>4. r \in 0..WRAP - 1 /\ w \in 0..WRAP - 1 /\ e \in 0..WRAP - 1
    BY WrapFacts DEF Init
  <2>5. pc \in [Contexts -> Pcs]
    BY Zenon DEF Init, Contexts, Pcs
  <2> QED
    BY <1>1, <2>1, <2>2, <2>3, <2>4, <2>5, Zenon DEF Init, TypeOK
<1>3. CpuInv /\ ThreadInv
  <2>1. CpuInv
    BY <1>1, ConsoleAssumption, Zenon DEF Init, CpuInv, CpuOK, Open, Locking
  <2>2. ThreadInv
    BY ConsoleAssumption, Zenon DEF Init, ThreadInv, ThreadOK
  <2> QED
    BY <2>1, <2>2, Zenon
<1>4. LockInv
  BY <1>1, SpinlockAssumption, ConsoleAssumption, Zenon
     DEF Init, LockInv, Contexts, Held
<1>5. RingInv
  <2>1. 0 \in 0..WRAP - 1
    BY WrapFacts
  <2>2. Dist(0, 0) = 0
    BY <2>1, DistRange, Zenon
  <2> QED
    BY <2>2, WrapFacts DEF Init, RingInv
<1>6. NoPanic /\ SleepsForReason
  BY <1>1, ConsoleAssumption, Zenon DEF Init, NoPanic, SleepsForReason
<1> QED
  BY <1>2, <1>3, <1>4, <1>5, <1>6, Zenon DEF IInv

\* acquire() in its three steps.
LEMMA AcquireInv ==
  ASSUME IInv, NEW c \in Cpus, NEW x \in Contexts, Acquire(x, c)
  PROVE  IInv'
BY AcquireStartInv, AcquireXchgInv, AcquireOwnInv, Zenon DEF Acquire

\* A step that changes at most the locals of a call.
LEMMA QuietInv ==
  ASSUME IInv, UNCHANGED <<lockVars, ringVars, pc, threadVars, killed>>
  PROVE  IInv'
<1>1. UNCHANGED <<buf, r, w, e>> /\ UNCHANGED <<lockVars, threadVars, killed>>
  BY Zenon DEF ringVars
<1>2. pc' = pc /\ UNCHANGED <<buf, r, w, e, panicked, killed>>
  BY Zenon DEF ringVars, lockVars
<1>3. /\ buf \in [0..INPUT_BUF - 1 -> Char]
      /\ r \in 0..WRAP - 1 /\ w \in 0..WRAP - 1 /\ e \in 0..WRAP - 1
  BY Zenon DEF IInv, TypeOK
<1>4. RingInv' /\ SleepsForReason'
  BY <1>2, RestFrame, Zenon
<1> QED
  BY <1>1, <1>2, <1>3, <1>4, RingStepInv, Zenon

\* Every step keeps the invariant.
LEMMA NextInv == IInv /\ WaitInv /\ [Next]_vars => IInv'
<1> SUFFICES ASSUME IInv, WaitInv, [Next]_vars PROVE IInv'
  BY Zenon
<1>1. CASE UNCHANGED vars
  BY <1>1, QuietInv, Zenon DEF vars
<1>2. ASSUME NEW c \in Cpus, Interrupt(c) \/ Handler(c)
      PROVE  IInv'
  <2>1. c \in Contexts
    BY Zenon DEF Contexts
  <2> QED
    BY <1>2, <2>1, InterruptInv, AcquireInv, ReleaseInv, HandlerReturnInv,
       TypeInv, BackspaceInv, KillLineInv, HandlerDoneInv, Zenon DEF Handler
<1>3. ASSUME NEW c \in Cpus, NEW p \in Procs, Thread(c, p)
      PROVE  IInv'
  <2>1. p \in Contexts
    BY Zenon DEF Contexts
  <2> QED
    BY <1>3, <2>1, AcquireInv, ReleaseInv, ReadCharInv, ReadKilledInv,
       QuietInv, WriteInv, SleepInv, ExitInv, Zenon DEF Thread, ReadWaits
<1>4. ASSUME NEW c \in Cpus, NEW p \in Procs,
             \/ Preempt(c, p) \/ TrapReturn(c, p)
             \/ CallSome(c, p) \/ Schedule(c, p)
      PROVE  IInv'
  BY <1>4, TimerInv, TrapReturnInv, CallInv, ScheduleInv, Zenon
     DEF Preempt, CallSome
<1>5. ASSUME NEW p \in Mortal, Kill(p)
      PROVE  IInv'
  BY <1>5, KillInv, ConsoleAssumption, Zenon
<1> QED
  BY <1>1, <1>2, <1>3, <1>4, <1>5, Zenon DEF Next

\* A step that changes no call and no line keeps WaitInv, if it leaves the
\* processes alone that are going to sleep.
LEMMA WaitFrame ==
  ASSUME WaitInv, UNCHANGED <<op, r, w>>,
         \A p \in Procs : pc[p] = "critical" => pc'[p] = pc[p] \/ op[p] # "sleep"
  PROVE  WaitInv'
BY Zenon DEF WaitInv

\* In the critical section of another context nobody is going to sleep.
LEMMA NobodyWaits ==
  ASSUME IInv, WaitInv, NEW x \in Contexts, pc[x] = "critical",
         x \in Procs => op[x] # "sleep"
  PROVE  \A p \in Procs : op[p] # "sleep"
BY Zenon DEF IInv, WaitInv, LockInv, Held, Contexts

\* Steps of a context that does not sleep move its own pc only.
LEMMA GotoWaits ==
  ASSUME IInv, WaitInv, NEW x \in Contexts, NEW l, pc' = [pc EXCEPT ![x] = l],
         x \in Procs => op[x] # "sleep", UNCHANGED <<op, r, w>>
  PROVE  WaitInv'
<1>1. pc \in [Contexts -> Pcs]
  BY Zenon DEF IInv, TypeOK
<1>2. \A p \in Procs : p # x => pc'[p] = pc[p]
  BY <1>1, Zenon DEF Contexts
<1> QED
  BY <1>2, WaitFrame, Zenon

\* Interrupts and handlers keep WaitInv: the handler does not finish a line
\* while a process that is going to sleep holds the lock.
LEMMA HandlerWaits ==
  ASSUME IInv, WaitInv, NEW c \in Cpus, Interrupt(c) \/ Handler(c)
  PROVE  WaitInv'
<1>0. c \in Contexts /\ c \notin Procs
  BY ConsoleAssumption, Zenon DEF Contexts
<1>1. CASE \/ Interrupt(c) \/ Acquire(c, c) \/ Release(c, c)
           \/ HandlerReturn(c) \/ HandlerDone(c)
  <2>1. /\ \E l : pc' = [pc EXCEPT ![c] = l]
        /\ UNCHANGED <<op, r, w>>
    BY <1>1, Zenon DEF Interrupt, Acquire, Release, HandlerReturn, HandlerDone,
                       Leave, Goto, ringVars, callVars
  <2> QED
    BY <1>0, <2>1, GotoWaits, Zenon
<1>2. CASE Backspace(c) \/ KillLine(c)
  BY <1>2, WaitFrame, Zenon DEF Backspace, KillLine, callVars
<1>3. ASSUME NEW ch \in Char, Type(c, ch) PROVE WaitInv'
  <2>1. \A p \in Procs : op[p] # "sleep"
    BY <1>0, <1>3, NobodyWaits, Zenon DEF Type
  <2> QED
    BY <1>3, <2>1, Zenon DEF Type, callVars, WaitInv
<1> QED
  BY <1>1, <1>2, <1>3, Zenon DEF Handler

\* So do the steps of a call.
LEMMA ThreadWaits ==
  ASSUME IInv, WaitInv, NEW c \in Cpus, NEW p \in Procs, Thread(c, p)
  PROVE  WaitInv'
<1>0. p \in Contexts
  BY Zenon DEF Contexts
<1>1. CASE Acquire(p, c) \/ Release(p, c) \/ ReadKilled(c, p) \/ Write(c, p)
  <2>1. /\ \E l : pc' = [pc EXCEPT ![p] = l]
        /\ pc[p] # "critical" \/ op[p] # "sleep"
        /\ UNCHANGED <<op, r, w>>
    BY <1>1, Zenon DEF Acquire, Release, ReadKilled, Write, Reading, Leave,
                       Goto, ringVars, callVars
  <2> QED
    BY <1>0, <2>1, GotoWaits, Zenon DEF WaitInv
<1>2. CASE ReadChar(c, p)
  <2>1. pc[p] = "critical" /\ op[p] = "read" /\ op' = op
    BY <1>2, Zenon DEF ReadChar, Reading
  <2>2. \A z \in Procs : op[z] # "sleep"
    BY <1>0, <2>1, NobodyWaits, Zenon
  <2> QED
    BY <2>1, <2>2, Zenon DEF WaitInv
<1>3. CASE ReadWaits(c, p)
  BY <1>3, Zenon DEF ReadWaits, Reading, WaitInv, ringVars
<1>4. ASSUME NEW q, Sleep(c, p, q) PROVE WaitInv'
  <2>1. /\ op' = [op EXCEPT ![p] = "read"] /\ pc' = [pc EXCEPT ![p] = "asleep"]
        /\ UNCHANGED <<r, w>>
    BY <1>4, Zenon DEF Sleep, Goto, ringVars
  <2>2. pc \in [Contexts -> Pcs]
    BY Zenon DEF IInv, TypeOK
  <2> QED
    BY <1>0, <2>1, <2>2, Zenon DEF WaitInv, Contexts
<1>5. ASSUME NEW q, Exit(c, p, q) PROVE WaitInv'
  <2>1. /\ pc' = [pc EXCEPT ![p] = "exited"] /\ pc[p] # "critical"
        /\ UNCHANGED <<op, r, w>>
    BY <1>5, Zenon DEF Exit, Goto, ringVars, callVars
  <2> QED
    BY <1>0, <2>1, GotoWaits, Zenon DEF WaitInv
<1> QED
  BY <1>1, <1>2, <1>3, <1>4, <1>5, Zenon DEF Thread

\* And so does every other step.
LEMMA WaitStep == IInv /\ WaitInv /\ [Next]_vars => WaitInv'
<1> SUFFICES ASSUME IInv, WaitInv, [Next]_vars PROVE WaitInv'
  BY Zenon
<1>1. CASE UNCHANGED vars
  BY <1>1, WaitFrame, Zenon DEF vars, ringVars, callVars
<1>2. ASSUME NEW c \in Cpus, NEW p \in Procs,
             Preempt(c, p) \/ TrapReturn(c, p) \/ Schedule(c, p)
      PROVE  WaitInv'
  <2>1. UNCHANGED <<op, r, w>> /\ pc' = pc
    BY <1>2, Zenon DEF Preempt, Timer, TrapReturn, Schedule, ringVars, callVars
  <2> QED
    BY <2>1, WaitFrame, Zenon
<1>3. ASSUME NEW c \in Cpus, NEW p \in Procs, CallSome(c, p)
      PROVE  WaitInv'
  <2>1. PICK o \in {"read", "write"} : \E k : Call(c, p, o, k)
    BY <1>3, Zenon DEF CallSome
  <2>2. /\ op' = [op EXCEPT ![p] = o] /\ pc' = [pc EXCEPT ![p] = "call"]
        /\ UNCHANGED <<r, w>>
    BY <2>1, Zenon DEF Call, Goto, ringVars
  <2>3. pc \in [Contexts -> Pcs]
    BY Zenon DEF IInv, TypeOK
  <2> QED
    BY <2>2, <2>3, Zenon DEF WaitInv, Contexts
<1>4. ASSUME NEW p \in Mortal, Kill(p)
      PROVE  WaitInv'
  <2>1. UNCHANGED <<op, r, w>>
    BY <1>4, Zenon DEF Kill, ringVars, callVars
  <2>2. pc \in [Contexts -> Pcs]
    BY Zenon DEF IInv, TypeOK
  <2>3. \A z \in Procs : pc[z] = "critical" => pc'[z] = pc[z]
    BY <1>4, <2>2, Zenon DEF Kill, Contexts
  <2> QED
    BY <2>1, <2>3, WaitFrame, Zenon
<1> QED
  BY <1>1, <1>2, <1>3, <1>4, HandlerWaits, ThreadWaits, Zenon DEF Next

\* The inductive invariant holds in every state.
LEMMA Invariance == Spec => []IInv
<1>1. Init => WaitInv
  BY Zenon DEF Init, WaitInv
<1> QED
  BY <1>1, InitInv, NextInv, WaitStep, PTL DEF Spec

\* acquire(), release(), pushcli(), popcli() and sched() never panic, whatever
\* processes call the console, are preempted, sleep and are killed on however
\* many processors, with keyboard interrupts in between.
THEOREM LocksNeverPanic == Spec => []NoPanic
<1>1. IInv => NoPanic
  BY Zenon DEF IInv
<1> QED
  BY <1>1, Invariance, PTL

\* pushcli() and popcli(), and the intena that sched() saves and restores,
\* leave interrupts enabled on a processor exactly where the code it executes
\* may be interrupted.
THEOREM InterruptsAreRight == Spec => []InterruptsMatchContext
<1>1. IInv => InterruptsMatchContext
  BY ConsoleAssumption, Zenon
     DEF IInv, CpuInv, CpuOK, Open, Locking, TypeOK, InterruptsMatchContext
<1> QED
  BY <1>1, Invariance, PTL

\* consoleread() sleeps only while consoleintr() can still finish a line and
\* wake it: no wakeup is lost, and no full ring is left without a reader.
THEOREM ReadersSleepForReason == Spec => []SleepsForReason
<1>1. IInv => SleepsForReason
  BY Zenon DEF IInv
<1> QED
  BY <1>1, Invariance, PTL

-----------------------------------------------------------------------------
\* The refinement of LineInput: what the readers may take, and the line that
\* can be edited, as stretches of the ring.
LEMMA RingIs ==
  ASSUME NEW i, NEW j
  PROVE  Ring(i, j) = Window(buf, INPUT_BUF, i, Dist(i, j))
BY Zenon DEF Ring, Window, Dist, Slot

\* The two stretches are sequences of characters as long as the distances
\* between the counters.
LEMMA RingFacts ==
  ASSUME IInv
  PROVE  /\ r \in 0..WRAP - 1 /\ w \in 0..WRAP - 1 /\ e \in 0..WRAP - 1
         /\ IsRing(buf, INPUT_BUF, Char)
         /\ Dist(r, w) \in Nat /\ Dist(w, e) \in Nat /\ Dist(r, e) \in Nat
         /\ Dist(r, w) + Dist(w, e) = Dist(r, e)
         /\ Ring(r, w) \in Seq(Char) /\ Len(Ring(r, w)) = Dist(r, w)
         /\ Ring(w, e) \in Seq(Char) /\ Len(Ring(w, e)) = Dist(w, e)
<1>1. /\ r \in 0..WRAP - 1 /\ w \in 0..WRAP - 1 /\ e \in 0..WRAP - 1
      /\ IsRing(buf, INPUT_BUF, Char) /\ r \in Nat /\ w \in Nat
  BY WrapFacts DEF IInv, TypeOK, IsRing
<1>2. /\ Dist(r, w) \in Nat /\ Dist(w, e) \in Nat /\ Dist(r, e) \in Nat
      /\ Dist(r, w) + Dist(w, e) = Dist(r, e)
  BY <1>1, DistRange DEF IInv, RingInv
<1>3. Ring(r, w) \in Seq(Char) /\ Len(Ring(r, w)) = Dist(r, w)
  BY <1>1, <1>2, RingIs, WindowSeq
<1>4. Ring(w, e) \in Seq(Char) /\ Len(Ring(w, e)) = Dist(w, e)
  BY <1>1, <1>2, RingIs, WindowSeq
<1> QED
  BY <1>1, <1>2, <1>3, <1>4, Zenon

\* The line stands behind the finished input.
LEMMA RingJoin ==
  ASSUME IInv
  PROVE  Ring(r, w) \o Ring(w, e) = Window(buf, INPUT_BUF, r, Dist(r, e))
<1>1. Ring(r, w) = Window(buf, INPUT_BUF, r, Dist(r, w))
  BY RingIs, Zenon
<1>2. Ring(w, e) = Window(buf, INPUT_BUF, w, Dist(w, e))
  BY RingIs, Zenon
<1>3. w = (r + Dist(r, w)) % WRAP /\ r + Dist(r, w) \in Nat /\ r \in Nat
  BY RingFacts, DistPlus
<1>4. Window(buf, INPUT_BUF, w, Dist(w, e))
        = Window(buf, INPUT_BUF, r + Dist(r, w), Dist(w, e))
  BY <1>3, RingFacts, WrapFacts, WindowWrap
<1>5. Cat(Window(buf, INPUT_BUF, r, Dist(r, w)),
             Window(buf, INPUT_BUF, r + Dist(r, w), Dist(w, e)))
        = Window(buf, INPUT_BUF, r, Dist(r, w) + Dist(w, e))
  BY <1>3, RingFacts, WindowConcat
<1>6. Dist(r, w) + Dist(w, e) = Dist(r, e)
  BY RingFacts, Zenon
<1> QED
  BY <1>1, <1>2, <1>4, <1>5, <1>6, Zenon DEF Cat

\* A character that does not finish the line.
LEMMA TypePuts ==
  ASSUME IInv, IInv', NEW c \in Cpus, NEW ch \in Char, Type(c, ch),
         ch \notin LineEnds, Dist(r, e) + 1 < INPUT_BUF, w' = w
  PROVE  Lines!Put(ch)
<1>1. /\ r' = r /\ buf' = Stored(buf, Slot(e), ch)
      /\ Dist(r, e) < INPUT_BUF /\ Dist(w, e) <= Dist(r, e)
      /\ Dist(w, e') = Dist(w, e) + 1 /\ Dist(r, e') = Dist(r, e) + 1
  BY TypeRing, Zenon DEF Stored
<1>2. /\ Slot(e) = (w + Dist(w, e)) % INPUT_BUF
      /\ Slot(e) = (r + Dist(r, e)) % INPUT_BUF
  BY RingFacts, SlotAt, Zenon
<1>3. CanStore(Char, INPUT_BUF, buf, ch, w, Dist(w, e))
  BY <1>1, RingFacts, WrapFacts DEF CanStore
<1>4. CanStore(Char, INPUT_BUF, buf, ch, r, Dist(r, e))
  BY <1>1, RingFacts, WrapFacts DEF CanStore
<1>5. Window(buf', INPUT_BUF, w, Dist(w, e) + 1)
        = Append(Window(buf, INPUT_BUF, w, Dist(w, e)), ch)
  BY <1>1, <1>2, <1>3, WindowAppend
<1>6. Ring(w, e)' = Append(Ring(w, e), ch)
  <2>1. Ring(w, e)' = Window(buf', INPUT_BUF, w, Dist(w, e'))
    BY Zenon DEF Ring, Window, Dist, Slot
  <2> QED
    BY <1>1, <1>5, <2>1, RingIs, Zenon
<1>7. Ring(r, w)' = Ring(r, w)
  <2>1. Ring(r, w)' = Window(buf', INPUT_BUF, r, Dist(r, w))
    BY <1>1, Zenon DEF Ring, Window, Dist, Slot
  <2>2. Dist(r, w) \in 0..Dist(r, e)
    BY RingFacts
  <2>3. Window(buf', INPUT_BUF, r, Dist(r, w))
          = Window(buf, INPUT_BUF, r, Dist(r, w))
    BY <1>1, <1>2, <1>4, <2>2, WindowKeep
  <2> QED
    BY <2>1, <2>3, RingIs, Zenon
<1>8. Len(Ring(r, w)) + Len(Ring(w, e)) < INPUT_BUF
  BY <1>1, RingFacts, Zenon
<1>9. Len(Ring(r, w)') + Len(Ring(w, e)') < INPUT_BUF
  <2>1. Len(Append(Ring(w, e), ch)) = Dist(w, e) + 1
    BY RingFacts
  <2> QED
    BY <1>6, <1>7, <2>1, RingFacts, WrapFacts
<1> QED
  BY <1>6, <1>7, <1>8, <1>9, Zenon DEF Lines!Put, Lines!Room

\* A character that finishes it.
LEMMA TypeFinishes ==
  ASSUME IInv, IInv', NEW c \in Cpus, NEW ch \in Char, Type(c, ch),
         ch \in LineEnds \/ Dist(r, e) + 1 = INPUT_BUF, w' = e'
  PROVE  Lines!Finish(ch)
<1>1. /\ r' = r /\ buf' = Stored(buf, Slot(e), ch)
      /\ Dist(r, e) < INPUT_BUF /\ Dist(r, e') = Dist(r, e) + 1
      /\ e' \in 0..WRAP - 1
  BY TypeRing, Zenon DEF Stored
<1>2. Slot(e) = (r + Dist(r, e)) % INPUT_BUF
  BY RingFacts, SlotAt, Zenon
<1>3. CanStore(Char, INPUT_BUF, buf, ch, r, Dist(r, e))
  BY <1>1, RingFacts, WrapFacts DEF CanStore
<1>4. Window(buf', INPUT_BUF, r, Dist(r, e) + 1)
        = Append(Window(buf, INPUT_BUF, r, Dist(r, e)), ch)
  BY <1>1, <1>2, <1>3, WindowAppend
<1>5. Ring(r, w)' = Append(Ring(r, w) \o Ring(w, e), ch)
  <2>1. Ring(r, w)' = Window(buf', INPUT_BUF, r, Dist(r, e'))
    BY <1>1, Zenon DEF Ring, Window, Dist, Slot
  <2> QED
    BY <1>1, <1>4, <2>1, RingJoin, Zenon
<1>6. Ring(r, w)' = Ring(r, w) \o Append(Ring(w, e), ch)
  <2>1. Added(Cat(Ring(r, w), Ring(w, e)), ch)
          = Cat(Ring(r, w), Added(Ring(w, e), ch))
    BY RingFacts, ConcatAppend
  <2> QED
    BY <1>5, <2>1, Zenon DEF Added, Cat
<1>7. Ring(w, e)' = <<>>
  <2>1. Ring(w, e)' = Window(buf', INPUT_BUF, w', Dist(e', e'))
    BY Zenon DEF Ring, Window, Dist, Slot
  <2>2. Dist(e', e') = 0
    BY <1>1, DistRange, Zenon
  <2> QED
    BY <2>1, <2>2, WindowEmpty, Zenon
<1>8. /\ Len(Ring(r, w)) + Len(Ring(w, e)) < INPUT_BUF
      /\ Len(Ring(r, w)) + Len(Ring(w, e)) = Dist(r, e)
  BY <1>1, RingFacts, Zenon
<1> QED
  BY <1>6, <1>7, <1>8, Zenon DEF Lines!Finish, Lines!Room

\* Erasing a character.
LEMMA BackspaceErases ==
  ASSUME IInv, NEW c \in Cpus, Backspace(c)
  PROVE  Lines!Erase
<1>1. e # w /\ e' = Dec(e) /\ UNCHANGED <<buf, r, w>>
  BY Zenon DEF Backspace
<1>2. Dist(w, e) > 0
  BY <1>1, RingFacts, DistRange
<1>3. Dist(w, e') = Dist(w, e) - 1
  BY <1>1, <1>2, RingFacts, DistDec, Zenon
<1>4. Ring(w, e)' = Window(buf, INPUT_BUF, w, Dist(w, e) - 1)
  <2>1. Ring(w, e)' = Window(buf, INPUT_BUF, w, Dist(w, e'))
    BY <1>1, Zenon DEF Ring, Window, Dist, Slot
  <2> QED
    BY <1>3, <2>1, Zenon
<1>5. Cut(Window(buf, INPUT_BUF, w, Dist(w, e)))
        = Window(buf, INPUT_BUF, w, Dist(w, e) - 1)
  BY <1>2, RingFacts, WindowFront
<1>6. Ring(w, e)' = SubSeq(Ring(w, e), 1, Len(Ring(w, e)) - 1)
  BY <1>4, <1>5, RingIs, Zenon DEF Cut
<1>7. Ring(w, e) # <<>>
  BY <1>2, RingFacts
<1>8. Ring(r, w)' = Ring(r, w)
  BY <1>1, Zenon DEF Ring, Slot
<1> QED
  BY <1>6, <1>7, <1>8, Zenon DEF Lines!Erase

\* Erasing the line, or nothing.
LEMMA KillLineErases ==
  ASSUME IInv, NEW c \in Cpus, KillLine(c)
  PROVE  Lines!EraseLine \/ UNCHANGED <<Ring(r, w), Ring(w, e)>>
<1>1. e' = w /\ UNCHANGED <<buf, r, w>>
  BY KillLineBack, Zenon DEF KillLine
<1>2. Ring(r, w)' = Ring(r, w)
  BY <1>1, Zenon DEF Ring, Slot
<1>3. Ring(w, e)' = <<>>
  <2>1. Ring(w, e)' = Window(buf, INPUT_BUF, w, Dist(w, w))
    BY <1>1, Zenon DEF Ring, Window, Dist, Slot
  <2>2. Dist(w, w) = 0
    BY RingFacts, DistRange, Zenon
  <2> QED
    BY <2>1, <2>2, WindowEmpty, Zenon
<1> QED
  BY <1>2, <1>3, Zenon DEF Lines!EraseLine

\* Reading a character, or leaving an end of file.
LEMMA ReadCharTakes ==
  ASSUME IInv, NEW c \in Cpus, NEW p \in Procs, ReadChar(c, p)
  PROVE  Lines!Take \/ UNCHANGED <<Ring(r, w), Ring(w, e)>>
<1>1. r # w /\ (r' = r \/ r' = Inc(r)) /\ UNCHANGED <<buf, w, e>>
  BY Zenon DEF ReadChar
<1>2. Ring(w, e)' = Ring(w, e)
  BY <1>1, Zenon DEF Ring, Slot
<1>3. CASE r' = r
  <2>1. Ring(r, w)' = Ring(r, w)
    BY <1>1, <1>3, Zenon DEF Ring, Slot
  <2> QED
    BY <1>2, <2>1, Zenon
<1>4. CASE r' = Inc(r)
  <2>0. Dist(r, w) # 0 /\ Dist(r, w) \in Nat /\ r \in Nat
    BY <1>1, RingFacts, DistRange
  <2>1. Dist(r, w) > 0 /\ r + 1 \in Nat /\ Dist(r, w) - 1 \in Nat
    BY <2>0
  <2>2. Dist(r', w) = Dist(r, w) - 1
    BY <1>4, <2>1, RingFacts, DistTake, Zenon
  <2>3. Ring(r, w)' = Window(buf, INPUT_BUF, r', Dist(r, w) - 1)
    <3>1. Ring(r, w)' = Window(buf, INPUT_BUF, r', Dist(r', w))
      BY <1>1, Zenon DEF Ring, Window, Dist, Slot
    <3> QED
      BY <2>2, <3>1, Zenon
  <2>4. r' = (r + 1) % WRAP
    BY <1>4, Zenon DEF Inc
  <2>5. Window(buf, INPUT_BUF, r', Dist(r, w) - 1)
          = Window(buf, INPUT_BUF, r + 1, Dist(r, w) - 1)
    <3> DEFINE d == Dist(r, w) - 1
               a == r + 1
    <3>1. d \in Nat /\ a \in Nat /\ r' = a % WRAP
      BY <2>1, <2>4, Zenon
    <3>0. /\ IsRing(buf, INPUT_BUF, Char)
          /\ WRAP \in Nat \ {0} /\ WRAP % INPUT_BUF = 0
      BY RingFacts, WrapFacts, Zenon
    <3> HIDE DEF d, a
    <3>2. Window(buf, INPUT_BUF, r', d) = Window(buf, INPUT_BUF, a, d)
      BY <3>0, <3>1, WindowWrap
    <3> QED
      BY <3>2, Zenon DEF d, a
  <2>6. Tail(Window(buf, INPUT_BUF, r, Dist(r, w)))
          = Window(buf, INPUT_BUF, r + 1, Dist(r, w) - 1)
    BY <2>1, RingFacts, WindowTail
  <2>7. Ring(r, w)' = Tail(Ring(r, w))
    BY <2>3, <2>5, <2>6, RingIs, Zenon
  <2>8. Ring(r, w) # <<>>
    BY <2>1, RingFacts
  <2> QED
    BY <1>2, <2>7, <2>8, Zenon DEF Lines!Take
<1> QED
  BY <1>1, <1>3, <1>4, Zenon

\* Every step of the console is a step of line input, or none.
LEMMA LinesStep ==
  IInv /\ IInv' /\ [Next]_vars => [Lines!Next]_<<Ring(r, w), Ring(w, e)>>
<1> SUFFICES ASSUME IInv, IInv', [Next]_vars
             PROVE  Lines!Next \/ UNCHANGED <<Ring(r, w), Ring(w, e)>>
  BY Zenon
<1>1. ASSUME UNCHANGED <<buf, r, w, e>>
      PROVE  UNCHANGED <<Ring(r, w), Ring(w, e)>>
  BY <1>1, Zenon DEF Ring, Slot
<1>2. CASE UNCHANGED vars
  BY <1>1, <1>2, Zenon DEF vars, ringVars
<1>3. ASSUME NEW c \in Cpus, NEW ch \in Char, Type(c, ch)
      PROVE  Lines!Next
  BY <1>3, TypeRing, TypePuts, TypeFinishes, Zenon DEF Lines!Next
<1>4. ASSUME NEW c \in Cpus, Interrupt(c) \/ Handler(c)
      PROVE  Lines!Next \/ UNCHANGED <<Ring(r, w), Ring(w, e)>>
  BY <1>1, <1>3, <1>4, BackspaceErases, KillLineErases, Zenon
     DEF Handler, Interrupt, Acquire, Release, HandlerReturn, HandlerDone,
         ringVars, Lines!Next
<1>5. ASSUME NEW c \in Cpus, NEW p \in Procs, Thread(c, p)
      PROVE  Lines!Next \/ UNCHANGED <<Ring(r, w), Ring(w, e)>>
  BY <1>1, <1>5, ReadCharTakes, Zenon
     DEF Thread, Acquire, Release, ReadKilled, ReadWaits, Write, Sleep, Exit,
         ringVars,
         Lines!Next
<1>6. ASSUME NEW c \in Cpus, NEW p \in Procs,
             \/ Preempt(c, p) \/ TrapReturn(c, p)
             \/ CallSome(c, p) \/ Schedule(c, p)
      PROVE  UNCHANGED <<Ring(r, w), Ring(w, e)>>
  BY <1>1, <1>6, Zenon
     DEF Preempt, Timer, TrapReturn, CallSome, Call, Schedule, ringVars
<1>7. ASSUME NEW p \in Mortal, Kill(p)
      PROVE  UNCHANGED <<Ring(r, w), Ring(w, e)>>
  BY <1>1, <1>7, Zenon DEF Kill, ringVars
<1> QED
  BY <1>2, <1>4, <1>5, <1>6, <1>7, Zenon DEF Next

\* consoleintr() and consoleread() implement line input: editing reaches only
\* the unfinished line, and what was finished is read in order, once, whatever
\* processes and processors do and wherever the counters wrap.
THEOREM ConsoleKeepsLines == Spec => KeepsLines
<1>1. Init => Lines!Init
  <2> SUFFICES ASSUME Init PROVE Ring(r, w) = <<>> /\ Ring(w, e) = <<>>
    BY Zenon DEF Lines!Init
  <2>1. 0 \in 0..WRAP - 1 /\ r = 0 /\ w = 0 /\ e = 0
    BY WrapFacts DEF Init
  <2>2. Dist(r, w) = 0 /\ Dist(w, e) = 0
    BY <2>1, DistRange, Zenon
  <2> QED
    BY <2>2, RingIs, WindowEmpty, Zenon
<1> QED
  BY <1>1, Invariance, LinesStep, PTL DEF Spec, KeepsLines, Lines!Spec
=============================================================================
