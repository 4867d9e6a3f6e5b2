----------------------------- MODULE BioProofs ------------------------------
(***************************************************************************)
(* Proofs about Bio and Ide, for every number of processes, buffers, blocks *)
(* and values.                                                              *)
(***************************************************************************)
EXTENDS Bio, FiniteSetTheorems, WellFoundedInduction, TLAPS

Pcs == {"idle", "lock", "read", "read_wait", "held", "write", "write_wait",
        "release"}

\* Where a process has the sleep lock of its buffer, and where it waits in
\* iderw() for the device.
Holding == {"read", "read_wait", "held", "write", "write_wait"}
Waits == {"read_wait", "write_wait"}

Chans == {None} \cup {BufChan(b) : b \in Bufs} \cup {LockChan(b) : b \in Bufs}

TypeOK ==
  /\ flags \in [Bufs -> SUBSET {"VALID", "DIRTY"}]
  /\ blockno \in [Bufs -> Blocks \cup {NoBlock}]
  /\ data \in [Bufs -> Values]
  /\ disk \in [Blocks -> Values]
  /\ idequeue \in Seq(Bufs)
  /\ device \in {"idle", "busy", "intr"}
  /\ pc \in [Procs -> Pcs]
  /\ buf \in [Procs -> Bufs \cup {None}]
  /\ asleep \in [Procs -> Chans]
  /\ refcnt \in [Bufs -> Nat]
  /\ mru \in [Bufs -> Bufs]
  /\ holder \in [Bufs -> Procs \cup {None}]

Users(b) == {p \in Procs : buf[p] = b}

\* References, and the sleep locks.
RefInv ==
  /\ \A b \in Bufs : refcnt[b] = Cardinality(Users(b))
  /\ \A b \in Bufs : refcnt[b] > 0 => blockno[b] \in Blocks
  /\ \A p \in Procs : pc[p] = "idle" <=> buf[p] = None
  /\ \A p \in Procs, b \in Bufs :
       holder[b] = p <=> buf[p] = b /\ pc[p] \in Holding

\* What the flags of a buffer say in every state of its user.
FlagInv ==
  /\ \A b \in Bufs : "DIRTY" \in flags[b] => "VALID" \in flags[b]
  /\ \A p \in Procs :
       /\ pc[p] = "read" => flags[buf[p]] = {}
       /\ pc[p] = "held" => "VALID" \in flags[buf[p]]
       /\ pc[p] = "write" => "DIRTY" \in flags[buf[p]]

Queued(b) == \E i \in DOMAIN idequeue : idequeue[i] = b

\* The queue of the driver: buffers whose users wait, each once.
QueueInv ==
  /\ \A i, j \in DOMAIN idequeue : idequeue[i] = idequeue[j] => i = j
  /\ \A i \in DOMAIN idequeue :
       \E p \in Procs : pc[p] \in Waits /\ buf[p] = idequeue[i]
  /\ \A p \in Procs : pc[p] \in Waits =>
       IF Queued(buf[p])
       THEN flags[buf[p]] = IF pc[p] = "read_wait" THEN {}
                            ELSE {"VALID", "DIRTY"}
       ELSE flags[buf[p]] = {"VALID"}

\* The device works on the first of the queue.
DeviceInv ==
  /\ device = "idle" <=> idequeue = <<>>
  /\ device # "idle" =>
       LET b == idequeue[1]
       IN cmd = [block |-> blockno[b], write |-> "DIRTY" \in flags[b],
                 value |-> data[b]]

\* A sleeping process, and what will wake it.
SleepInv ==
  \A p \in Procs :
    \/ asleep[p] = None
    \/ /\ asleep[p] = BufChan(buf[p]) /\ pc[p] \in Waits /\ Queued(buf[p])
    \/ /\ asleep[p] = LockChan(buf[p]) /\ pc[p] = "lock"
       /\ holder[buf[p]] # None

IInv == TypeOK /\ RefInv /\ FlagInv /\ QueueInv /\ DeviceInv /\ SleepInv

-----------------------------------------------------------------------------
\* Every block is in one buffer at most, and the contents of a clean one, or
\* of one that the device has written, are on the disk.
DataInv ==
  /\ \A b, c \in Bufs :
       blockno[b] = blockno[c] /\ blockno[b] \in Blocks => b = c
  /\ \A b \in Bufs : "VALID" \in flags[b] => blockno[b] \in Blocks
  /\ \A b \in Bufs : flags[b] = {"VALID"} => data[b] = disk[blockno[b]]
  /\ device = "intr" /\ cmd.write => disk[cmd.block] = cmd.value
-----------------------------------------------------------------------------
\* Channels are different from each other.
LEMMA ChanFacts ==
  ASSUME NEW b \in Bufs \cup {None}, NEW c \in Bufs \cup {None}
  PROVE  /\ BufChan(b) = BufChan(c) <=> b = c
         /\ LockChan(b) = LockChan(c) <=> b = c
         /\ BufChan(b) # LockChan(c)
         /\ BufChan(b) # None /\ LockChan(b) # None
BY IdeAssumption, Zenon DEF BufChan, LockChan

\* A set of numbers that is not empty has a least element.
LEMMA LeastElement ==
  ASSUME NEW S \in SUBSET Nat, S # {}
  PROVE  \E x \in S : \A y \in S : x <= y
<1> DEFINE Less == {ss \in Nat \X Nat : ss[1] < ss[2]}
<1>1. OpToRel(<, Nat) = Less
  BY Zenon DEF OpToRel
<1>2. IsWellFoundedOn(Less, Nat)
  BY <1>1, NatLessThanWellFounded, Zenon
<1> HIDE DEF Less
<1>3. PICK x \in S : \A y \in S : ~(<<y, x>> \in Less)
  BY <1>2, WFMin, Zenon
<1>4. ASSUME NEW y \in S, ~(x <= y) PROVE FALSE
  <2>1. <<y, x>> \in Nat \X Nat
    BY Zenon
  <2>2. <<y, x>>[1] < <<y, x>>[2]
    BY <1>4
  <2>3. <<y, x>> \in Less
    BY <2>1, <2>2, Zenon DEF Less
  <2> QED
    BY <1>3, <2>3, Zenon
<1> QED
  BY <1>4, Zenon

\* A set of numbers up to n has a last one.
LEMMA LastElement ==
  ASSUME NEW n \in Nat, NEW S \in SUBSET (1..n), S # {}
  PROVE  \E i \in S : \A j \in S : j <= i
<1> DEFINE T == {k \in Nat : n - k \in S}
<1>1. PICK j \in S : TRUE
  BY Zenon
<1>2. n - j \in Nat /\ n - (n - j) = j
  OBVIOUS
<1>3. T # {} /\ T \subseteq Nat
  BY <1>1, <1>2, Zenon
<1>4. PICK k \in T : \A l \in T : k <= l
  <2> HIDE DEF T
  <2> QED
    BY <1>3, LeastElement, Zenon
<1>5. ASSUME NEW i \in S PROVE i <= n - k
  <2>1. n - i \in Nat /\ n - (n - i) = i
    OBVIOUS
  <2>2. n - i \in T
    BY <2>1, Zenon
  <2>3. k <= n - i
    BY <1>4, <2>2, Zenon
  <2> QED
    BY <1>4, <2>3
<1> QED
  BY <1>4, <1>5, Zenon

\* bget() recycles a buffer that nobody uses and that is clean.
LEMMA RecycleFacts ==
  ASSUME TypeOK, Unused # {}
  PROVE  LET b == mru[CHOOSE i \in Unused : \A j \in Unused : j <= i]
         IN b \in Bufs /\ refcnt[b] = 0 /\ "DIRTY" \notin flags[b]
<1>1. Unused \in SUBSET (1..NBUF) /\ NBUF \in Nat
  BY IdeAssumption, Zenon DEF Unused, Bufs
<1>2. \E i \in Unused : \A j \in Unused : j <= i
  BY <1>1, LastElement, Zenon
<1> DEFINE i == CHOOSE i \in Unused : \A j \in Unused : j <= i
<1>3. i \in Unused
  BY <1>2, Zenon
<1> HIDE DEF i
<1>4. mru[i] \in Bufs /\ refcnt[mru[i]] = 0 /\ "DIRTY" \notin flags[mru[i]]
  BY <1>3, Zenon DEF Unused, TypeOK
<1> QED
  BY <1>4, Zenon DEF i

\* The users of a buffer.
LEMMA UsersFacts ==
  ASSUME RefInv, NEW b \in Bufs
  PROVE  /\ IsFiniteSet(Users(b)) /\ refcnt[b] = Cardinality(Users(b))
         /\ refcnt[b] = 0 => \A p \in Procs : buf[p] # b
<1>1. IsFiniteSet(Users(b))
  BY IdeAssumption, FS_Subset, Zenon DEF Users
<1>2. refcnt[b] = 0 => Users(b) = {}
  BY <1>1, FS_EmptySet, Zenon DEF RefInv
<1> QED
  BY <1>1, <1>2, Zenon DEF RefInv, Users

\* A process begins to use buffer b.
LEMMA UsersTake ==
  ASSUME TypeOK, RefInv, NEW p \in Procs, NEW b \in Bufs, buf[p] = None,
         buf' = [buf EXCEPT ![p] = b]
  PROVE  /\ Cardinality(Users(b)') = Cardinality(Users(b)) + 1
         /\ \A c \in Bufs \ {b} : Users(c)' = Users(c)
<1>1. None \notin Bufs
  BY IdeAssumption, Zenon
<1>2. \A q \in Procs : buf'[q] = IF q = p THEN b ELSE buf[q]
  BY Zenon DEF TypeOK
<1>3. Users(b)' = Users(b) \cup {p} /\ p \notin Users(b)
  BY <1>1, <1>2, Zenon DEF Users
<1>4. \A c \in Bufs \ {b} : Users(c)' = Users(c)
  BY <1>1, <1>2, Zenon DEF Users
<1>5. Cardinality(Users(b) \cup {p}) = Cardinality(Users(b)) + 1
  BY <1>3, UsersFacts, FS_AddElement, Zenon
<1> QED
  BY <1>3, <1>4, <1>5, Zenon

\* A process stops using its buffer.
LEMMA UsersDrop ==
  ASSUME TypeOK, RefInv, NEW p \in Procs, NEW b \in Bufs, buf[p] = b,
         buf' = [buf EXCEPT ![p] = None]
  PROVE  /\ Cardinality(Users(b)') = Cardinality(Users(b)) - 1
         /\ Cardinality(Users(b)) > 0
         /\ \A c \in Bufs \ {b} : Users(c)' = Users(c)
<1>1. None \notin Bufs
  BY IdeAssumption, Zenon
<1>2. \A q \in Procs : buf'[q] = IF q = p THEN None ELSE buf[q]
  BY Zenon DEF TypeOK
<1>3. Users(b)' = Users(b) \ {p} /\ p \in Users(b)
  BY <1>1, <1>2, Zenon DEF Users
<1>4. \A c \in Bufs \ {b} : Users(c)' = Users(c)
  BY <1>1, <1>2, Zenon DEF Users
<1>5. Cardinality(Users(b) \ {p}) = Cardinality(Users(b)) - 1
  BY <1>3, UsersFacts, FS_RemoveElement, Zenon
<1>6. Cardinality(Users(b)) \in Nat /\ Cardinality(Users(b)) # 0
  BY <1>3, UsersFacts, FS_CardinalityType, FS_EmptySet, Zenon
<1> QED
  BY <1>3, <1>4, <1>5, <1>6

\* A process that holds the lock of its buffer uses it, and alone.
LEMMA HolderFacts ==
  ASSUME IInv, NEW p \in Procs, pc[p] \in Holding
  PROVE  /\ buf[p] \in Bufs /\ holder[buf[p]] = p /\ blockno[buf[p]] \in Blocks
         /\ \A q \in Procs \ {p} : pc[q] \in Holding => buf[q] # buf[p]
<1>1. buf[p] \in Bufs
  BY DEF IInv, TypeOK, RefInv, Holding
<1>2. holder[buf[p]] = p
  BY <1>1, Zenon DEF IInv, RefInv
<1>3. \A q \in Procs \ {p} : pc[q] \in Holding => buf[q] # buf[p]
  BY <1>1, <1>2, Zenon DEF IInv, RefInv
<1>4. refcnt[buf[p]] # 0 /\ refcnt[buf[p]] \in Nat
  BY <1>1, UsersFacts, Zenon DEF IInv, TypeOK
<1>5. blockno[buf[p]] \in Blocks
  BY <1>1, <1>4 DEF IInv, RefInv
<1> QED
  BY <1>1, <1>2, <1>3, <1>5, Zenon

\* A step that moves no reference keeps the references and the locks in order.
LEMMA RefFrame ==
  ASSUME RefInv, UNCHANGED <<refcnt, blockno, buf>>,
         \A q \in Procs : pc'[q] = "idle" <=> pc[q] = "idle",
         \A q \in Procs, c \in Bufs :
           holder'[c] = q <=> buf'[q] = c /\ pc'[q] \in Holding
  PROVE  RefInv'
<1>1. \A c \in Bufs : refcnt'[c] = Cardinality(Users(c)')
  <2>1. \A c \in Bufs : Users(c)' = Users(c)
    BY Zenon DEF Users
  <2>2. \A c \in Bufs : refcnt[c] = Cardinality(Users(c))
    BY Zenon DEF RefInv
  <2> QED
    BY <2>1, <2>2
<1>2. \A c \in Bufs : refcnt'[c] > 0 => blockno'[c] \in Blocks
  BY Zenon DEF RefInv
<1>3. \A q \in Procs : pc'[q] = "idle" <=> buf'[q] = None
  BY Zenon DEF RefInv
<1> QED
  BY <1>1, <1>2, <1>3, Zenon DEF RefInv

\* A step of a process that keeps its lock, or has none.
LEMMA RefSame ==
  ASSUME RefInv, UNCHANGED <<refcnt, blockno, buf, holder>>,
         \A q \in Procs : /\ pc'[q] = "idle" <=> pc[q] = "idle"
                          /\ pc'[q] \in Holding <=> pc[q] \in Holding
  PROVE  RefInv'
<1>1. \A q \in Procs, c \in Bufs :
        holder'[c] = q <=> buf'[q] = c /\ pc'[q] \in Holding
  BY Zenon DEF RefInv
<1> QED
  BY <1>1, RefFrame, Zenon

\* A step that leaves the processes and their buffers alone.
LEMMA ProcFrame ==
  ASSUME RefInv, FlagInv, QueueInv,
         UNCHANGED <<flags, blockno, idequeue, pc, buf, refcnt, holder>>
  PROVE  RefInv' /\ FlagInv' /\ QueueInv'
<1>1. RefInv'
  BY RefSame, Zenon
<1>2. FlagInv'
  BY Zenon DEF FlagInv
<1>3. QueueInv'
  BY Zenon DEF QueueInv, Queued
<1> QED
  BY <1>1, <1>2, <1>3, Zenon

\* A step of a process that does not sleep leaves the sleepers alone.
LEMMA SleepFrame ==
  ASSUME SleepInv, NEW p \in Procs, UNCHANGED <<idequeue, holder>>,
         asleep'[p] = None,
         \A q \in Procs \ {p} : /\ asleep'[q] = asleep[q]
                                /\ pc'[q] = pc[q] /\ buf'[q] = buf[q]
  PROVE  SleepInv'
BY DEF SleepInv, Queued

\* A step of a process outside iderw() leaves the queue in order.
LEMMA QueueFrame ==
  ASSUME QueueInv, NEW p \in Procs, idequeue' = idequeue,
         \A q \in Procs \ {p} : pc'[q] = pc[q] /\ buf'[q] = buf[q],
         pc[p] \notin Waits, pc'[p] \notin Waits,
         \A q \in Procs \ {p} :
           pc[q] \in Waits => flags'[buf[q]] = flags[buf[q]]
  PROVE  QueueInv'
BY DEF QueueInv, Queued

\* The device goes on with a buffer that does not change.
LEMMA DeviceFrame ==
  ASSUME DeviceInv, UNCHANGED <<idequeue, device, cmd>>,
         idequeue # <<>> =>
           /\ blockno'[idequeue[1]] = blockno[idequeue[1]]
           /\ flags'[idequeue[1]] = flags[idequeue[1]]
           /\ data'[idequeue[1]] = data[idequeue[1]]
  PROVE  DeviceInv'
BY Zenon DEF DeviceInv

\* The first buffer of the queue has a user who waits.
LEMMA FirstFacts ==
  ASSUME IInv, idequeue # <<>>
  PROVE  /\ 1 \in DOMAIN idequeue /\ idequeue[1] \in Bufs
         /\ Head(idequeue) = idequeue[1]
         /\ \E p \in Procs : pc[p] \in Waits /\ buf[p] = idequeue[1]
<1>1. idequeue \in Seq(Bufs)
  BY Zenon DEF IInv, TypeOK
<1>2. 1 \in DOMAIN idequeue /\ idequeue[1] \in Bufs
  BY <1>1
<1>3. Head(idequeue) = idequeue[1]
  BY <1>1
<1> QED
  BY <1>2, <1>3, Zenon DEF IInv, QueueInv

-----------------------------------------------------------------------------
\* bget() takes a reference to a cached block.
LEMMA BgetCachedInv ==
  ASSUME IInv, NEW p \in Procs, NEW k \in Blocks, BgetCached(p, k)
  PROVE  IInv'
<1>1. PICK b \in Bufs : /\ blockno[b] = k
                        /\ refcnt' = [refcnt EXCEPT ![b] = @ + 1]
                        /\ buf' = [buf EXCEPT ![p] = b]
  BY Zenon DEF BgetCached, Cached
<1>2. /\ pc[p] = "idle" /\ pc' = [pc EXCEPT ![p] = "lock"]
      /\ UNCHANGED <<flags, blockno, data, idequeue, device, cmd, disk, asleep,
                     mru, holder>>
  BY Zenon DEF BgetCached, ideVars
<1>3. buf[p] = None
  BY <1>2, Zenon DEF IInv, RefInv
<1>4. /\ pc'[p] = "lock" /\ buf'[p] = b
      /\ \A q \in Procs \ {p} : pc'[q] = pc[q] /\ buf'[q] = buf[q]
  BY <1>1, <1>2, Zenon DEF IInv, TypeOK
<1>5. TypeOK'
  BY <1>1, <1>2 DEF IInv, TypeOK, Pcs
<1>6. RefInv'
  <2>1. \A c \in Bufs : refcnt'[c] = Cardinality(Users(c)')
    <3>1. /\ Cardinality(Users(b)') = Cardinality(Users(b)) + 1
          /\ \A c \in Bufs \ {b} : Users(c)' = Users(c)
      BY <1>1, <1>3, UsersTake, Zenon DEF IInv
    <3>2. /\ refcnt'[b] = refcnt[b] + 1
          /\ \A c \in Bufs \ {b} : refcnt'[c] = refcnt[c]
      BY <1>1, Zenon DEF IInv, TypeOK
    <3> QED
      BY <3>1, <3>2 DEF IInv, RefInv
  <2>2. \A c \in Bufs : refcnt'[c] > 0 => blockno'[c] \in Blocks
    BY <1>1, <1>2 DEF IInv, TypeOK, RefInv
  <2>3. \A q \in Procs : pc'[q] = "idle" <=> buf'[q] = None
    BY <1>4, IdeAssumption DEF IInv, RefInv
  <2>4. \A q \in Procs, c \in Bufs :
          holder'[c] = q <=> buf'[q] = c /\ pc'[q] \in Holding
    BY <1>2, <1>3, <1>4, IdeAssumption DEF IInv, RefInv, Holding
  <2> QED
    BY <2>1, <2>2, <2>3, <2>4, Zenon DEF RefInv
<1>7. FlagInv'
  BY <1>2, <1>4 DEF IInv, FlagInv
<1>8. QueueInv'
  BY <1>2, <1>4, QueueFrame, Zenon DEF IInv, Waits
<1>9. DeviceInv'
  BY <1>2, DeviceFrame, Zenon DEF IInv
<1>10. SleepInv'
  <2>1. asleep[p] = None
    BY <1>2, Zenon DEF IInv, SleepInv, Waits
  <2> QED
    BY <1>2, <1>4, <2>1, SleepFrame, Zenon DEF IInv
<1> QED
  BY <1>5, <1>6, <1>7, <1>8, <1>9, <1>10, Zenon DEF IInv

\* bget() recycles a buffer, which nobody uses.
LEMMA BgetRecycleInv ==
  ASSUME IInv, NEW p \in Procs, NEW k \in Blocks, BgetRecycle(p, k)
  PROVE  IInv'
<1>1. PICK b \in Bufs : /\ refcnt[b] = 0
                        /\ blockno' = [blockno EXCEPT ![b] = k]
                        /\ flags' = [flags EXCEPT ![b] = {}]
                        /\ refcnt' = [refcnt EXCEPT ![b] = 1]
                        /\ buf' = [buf EXCEPT ![p] = b]
  BY RecycleFacts, Zenon DEF BgetRecycle, IInv
<1>2. /\ pc[p] = "idle" /\ pc' = [pc EXCEPT ![p] = "lock"]
      /\ UNCHANGED <<data, idequeue, device, cmd, disk, asleep, mru, holder>>
  BY Zenon DEF BgetRecycle
<1>3. buf[p] = None /\ \A q \in Procs : buf[q] # b
  BY <1>1, <1>2, UsersFacts, Zenon DEF IInv, RefInv
<1>4. /\ pc'[p] = "lock" /\ buf'[p] = b
      /\ \A q \in Procs \ {p} : pc'[q] = pc[q] /\ buf'[q] = buf[q]
  BY <1>1, <1>2, Zenon DEF IInv, TypeOK
<1>5. /\ flags'[b] = {}
      /\ \A c \in Bufs \ {b} : flags'[c] = flags[c] /\ blockno'[c] = blockno[c]
  BY <1>1, Zenon DEF IInv, TypeOK
<1>6. TypeOK'
  BY <1>1, <1>2, Zenon DEF IInv, TypeOK, Pcs
<1>7. RefInv'
  <2>1. \A c \in Bufs : refcnt'[c] = Cardinality(Users(c)')
    <3>1. /\ Cardinality(Users(b)') = Cardinality(Users(b)) + 1
          /\ \A c \in Bufs \ {b} : Users(c)' = Users(c)
      BY <1>1, <1>3, UsersTake, Zenon DEF IInv
    <3>2. /\ refcnt'[b] = refcnt[b] + 1
          /\ \A c \in Bufs \ {b} : refcnt'[c] = refcnt[c]
      BY <1>1 DEF IInv, TypeOK
    <3> QED
      BY <3>1, <3>2 DEF IInv, RefInv
  <2>2. \A c \in Bufs : refcnt'[c] > 0 => blockno'[c] \in Blocks
    BY <1>1 DEF IInv, TypeOK, RefInv
  <2>3. \A q \in Procs : pc'[q] = "idle" <=> buf'[q] = None
    BY <1>4, IdeAssumption DEF IInv, RefInv
  <2>4. \A q \in Procs, c \in Bufs :
          holder'[c] = q <=> buf'[q] = c /\ pc'[q] \in Holding
    BY <1>2, <1>3, <1>4, IdeAssumption DEF IInv, RefInv, Holding
  <2> QED
    BY <2>1, <2>2, <2>3, <2>4, Zenon DEF RefInv
<1>8. FlagInv'
  <2>1. \A q \in Procs \ {p} : pc[q] # "idle" => flags'[buf[q]] = flags[buf[q]]
    BY <1>3, <1>5 DEF IInv, TypeOK, RefInv
  <2> QED
    BY <1>4, <1>5, <2>1 DEF IInv, FlagInv
<1>9. QueueInv'
  <2>1. \A q \in Procs \ {p} :
          pc[q] \in Waits => flags'[buf[q]] = flags[buf[q]]
    BY <1>3, <1>5 DEF IInv, TypeOK, RefInv, Waits
  <2> QED
    BY <1>2, <1>4, <2>1, QueueFrame, Zenon DEF IInv, Waits
<1>10. DeviceInv'
  <2>1. idequeue # <<>> => idequeue[1] \in Bufs \ {b}
    BY <1>3, FirstFacts, Zenon
  <2> QED
    BY <1>2, <1>5, <2>1, DeviceFrame, Zenon DEF IInv
<1>11. SleepInv'
  <2>1. asleep[p] = None
    BY <1>2, Zenon DEF IInv, SleepInv, Waits
  <2> QED
    BY <1>2, <1>4, <2>1, SleepFrame, Zenon DEF IInv
<1> QED
  BY <1>6, <1>7, <1>8, <1>9, <1>10, <1>11, Zenon DEF IInv

\* acquiresleep() takes a free lock, or sleeps while another holds it.
LEMMA AcquiresleepInv ==
  ASSUME IInv, NEW p \in Procs, acquiresleep(p)
  PROVE  IInv'
<1>1. /\ pc[p] = "lock" /\ asleep[p] = None
      /\ UNCHANGED <<flags, blockno, data, idequeue, device, cmd, disk, buf,
                     refcnt, mru>>
  BY Zenon DEF acquiresleep, ideVars
<1>2. buf[p] \in Bufs
  BY <1>1 DEF IInv, TypeOK, RefInv
<1>3. CASE holder[buf[p]] = None
  <2>1. /\ holder' = [holder EXCEPT ![buf[p]] = p] /\ asleep' = asleep
        /\ pc' = [pc EXCEPT ![p] = IF "VALID" \in flags[buf[p]] THEN "held"
                                   ELSE "read"]
    BY <1>3, Zenon DEF acquiresleep
  <2>2. /\ pc'[p] \in {"held", "read"}
        /\ pc'[p] = "held" <=> "VALID" \in flags[buf[p]]
        /\ \A q \in Procs \ {p} : pc'[q] = pc[q]
    BY <2>1, Zenon DEF IInv, TypeOK
  <2>3. /\ holder'[buf[p]] = p
        /\ \A c \in Bufs \ {buf[p]} : holder'[c] = holder[c]
    BY <1>2, <2>1, Zenon DEF IInv, TypeOK
  <2>4. TypeOK'
    BY <1>1, <1>2, <2>1, Zenon DEF IInv, TypeOK, Pcs
  <2>5. RefInv'
    <3>1. \A q \in Procs, c \in Bufs :
            holder'[c] = q <=> buf'[q] = c /\ pc'[q] \in Holding
      BY <1>1, <1>3, <2>2, <2>3, IdeAssumption DEF IInv, RefInv, Holding
    <3>2. \A q \in Procs : pc'[q] = "idle" <=> pc[q] = "idle"
      BY <1>1, <2>2, Zenon
    <3> QED
      BY <1>1, <3>1, <3>2, RefFrame, Zenon DEF IInv
  <2>6. FlagInv'
    <3>1. "VALID" \notin flags[buf[p]] => flags[buf[p]] = {}
      BY <1>2 DEF IInv, TypeOK, FlagInv
    <3> QED
      BY <1>1, <2>2, <3>1 DEF IInv, FlagInv
  <2>7. QueueInv'
    BY <1>1, <2>2, QueueFrame, Zenon DEF IInv, Waits
  <2>8. DeviceInv'
    BY <1>1, DeviceFrame, Zenon DEF IInv
  <2>9. SleepInv'
    <3>1. \A q \in Procs \ {p} : pc[q] = "lock" => buf[q] \in Bufs
      BY DEF IInv, TypeOK, RefInv
    <3>2. \A c \in Bufs : holder[c] # None => holder'[c] # None
      BY <1>2, <2>3, IdeAssumption, Zenon
    <3> QED
      BY <1>1, <2>1, <2>2, <3>1, <3>2, Zenon DEF IInv, SleepInv, Queued
  <2> QED
    BY <2>4, <2>5, <2>6, <2>7, <2>8, <2>9, Zenon DEF IInv
<1>4. CASE holder[buf[p]] # None
  <2>1. /\ asleep' = [asleep EXCEPT ![p] = LockChan(buf[p])]
        /\ UNCHANGED <<holder, pc>>
    BY <1>4, Zenon DEF acquiresleep
  <2>2. TypeOK'
    BY <1>1, <1>2, <2>1, Zenon DEF IInv, TypeOK, Chans
  <2>3. RefInv' /\ FlagInv' /\ QueueInv'
    BY <1>1, <2>1, ProcFrame, Zenon DEF IInv
  <2>4. DeviceInv'
    BY <1>1, DeviceFrame, Zenon DEF IInv
  <2>5. SleepInv'
    BY <1>1, <1>4, <2>1, Zenon DEF IInv, TypeOK, SleepInv, Queued
  <2> QED
    BY <2>2, <2>3, <2>4, <2>5, Zenon DEF IInv
<1> QED
  BY <1>3, <1>4, Zenon

\* iderw() queues the buffer, and starts the device if it is alone.
LEMMA IderwInv ==
  ASSUME IInv, NEW p \in Procs, iderw(p), UNCHANGED cacheVars
  PROVE  IInv'
<1> DEFINE b == buf[p]
<1>1. /\ pc[p] \in {"read", "write"}
      /\ idequeue' = Append(idequeue, b)
      /\ IF idequeue = <<>> THEN idestart(b) ELSE UNCHANGED <<device, cmd>>
      /\ asleep' = [asleep EXCEPT ![p] = BufChan(b)]
      /\ pc' = [pc EXCEPT ![p] = IF pc[p] = "read" THEN "read_wait"
                                 ELSE "write_wait"]
      /\ UNCHANGED <<flags, blockno, data, disk, buf, refcnt, mru, holder>>
  BY Zenon DEF iderw, cacheVars, IInv, TypeOK
<1>2. b \in Bufs /\ \A q \in Procs \ {p} : pc[q] \in Holding => buf[q] # b
  BY <1>1, HolderFacts, Zenon DEF Holding
<1>3. /\ pc'[p] \in Waits /\ (pc'[p] = "read_wait" <=> pc[p] = "read")
      /\ \A q \in Procs \ {p} : pc'[q] = pc[q]
  BY <1>1, Zenon DEF IInv, TypeOK, Waits
<1>4. /\ idequeue \in Seq(Bufs) /\ idequeue' \in Seq(Bufs)
      /\ Len(idequeue) \in Nat /\ Len(idequeue') = Len(idequeue) + 1
      /\ \A i \in 1..Len(idequeue) : idequeue'[i] = idequeue[i]
      /\ idequeue'[Len(idequeue) + 1] = b
      /\ DOMAIN idequeue = 1..Len(idequeue)
      /\ DOMAIN idequeue' = 1..Len(idequeue) + 1
  <2>1. idequeue \in Seq(Bufs)
    BY Zenon DEF IInv, TypeOK
  <2> HIDE DEF b
  <2> QED
    BY <1>1, <1>2, <2>1
<1>5. /\ \A c \in Bufs : Queued(c)' <=> Queued(c) \/ c = b
      /\ ~Queued(b)
  <2>1. ~Queued(b)
    <3>1. ASSUME NEW i \in DOMAIN idequeue, idequeue[i] = b PROVE FALSE
      BY <1>1, <1>2, <3>1 DEF IInv, QueueInv, Holding, Waits
    <3> QED
      BY <3>1, Zenon DEF Queued
  <2>2. \A c \in Bufs : Queued(c)' <=> Queued(c) \/ c = b
    <3> HIDE DEF b
    <3> QED
      BY <1>4 DEF Queued
  <2> QED
    BY <2>1, <2>2, Zenon
<1>6. TypeOK'
  <2>1. device' \in {"idle", "busy", "intr"}
    BY <1>1, Zenon DEF IInv, TypeOK, idestart
  <2> QED
    BY <1>1, <1>2, <1>4, <2>1, Zenon DEF IInv, TypeOK, Pcs, Chans
<1>7. RefInv'
  <2>1. \A q \in Procs : /\ pc'[q] = "idle" <=> pc[q] = "idle"
                         /\ pc'[q] \in Holding <=> pc[q] \in Holding
    BY <1>1, <1>3, Zenon DEF Holding, Waits
  <2> QED
    BY <1>1, <2>1, RefSame, Zenon DEF IInv
<1>8. FlagInv'
  BY <1>1, <1>3, Zenon DEF IInv, FlagInv, Waits
<1>9. QueueInv'
  <2>1. \A i, j \in DOMAIN idequeue' : idequeue'[i] = idequeue'[j] => i = j
    BY <1>4, <1>5 DEF IInv, QueueInv, Queued
  <2>2. \A i \in DOMAIN idequeue' :
          \E q \in Procs : pc'[q] \in Waits /\ buf'[q] = idequeue'[i]
    <3>1. ASSUME NEW i \in 1..Len(idequeue)
          PROVE  \E q \in Procs : pc'[q] \in Waits /\ buf'[q] = idequeue'[i]
      BY <1>1, <1>3, <1>4 DEF IInv, QueueInv, Waits
    <3> QED
      BY <1>1, <1>3, <1>4, <3>1
  <2>3. ASSUME NEW q \in Procs, pc'[q] \in Waits
        PROVE  IF Queued(buf[q])'
               THEN flags[buf[q]] = IF pc'[q] = "read_wait" THEN {}
                                    ELSE {"VALID", "DIRTY"}
               ELSE flags[buf[q]] = {"VALID"}
    <3>1. CASE q = p
      <4>1. pc[p] = "write" => flags[b] = {"VALID", "DIRTY"}
        BY <1>2 DEF IInv, FlagInv, TypeOK
      <4> QED
        BY <1>1, <1>2, <1>3, <1>5, <3>1, <4>1, Zenon DEF IInv, FlagInv
    <3>2. CASE q # p
      <4>1. pc[q] = pc'[q] /\ pc[q] \in Waits /\ pc[q] \in Holding
        BY <1>3, <2>3, <3>2, Zenon DEF Waits, Holding
      <4>2. buf[q] \in Bufs /\ buf[q] # b
        BY <1>2, <3>2, <4>1, HolderFacts, Zenon
      <4>3. Queued(buf[q])' <=> Queued(buf[q])
        BY <1>1, <1>5, <4>2, Zenon DEF Queued
      <4> QED
        BY <4>1, <4>3, Zenon DEF IInv, QueueInv
    <3> QED
      BY <3>1, <3>2, Zenon
  <2> QED
    BY <1>1, <2>1, <2>2, <2>3, Zenon DEF QueueInv, Queued
<1>10. DeviceInv'
  <2>1. idequeue' # <<>>
    BY <1>4
  <2>2. CASE idequeue = <<>>
    <3>1. idequeue'[1] = b /\ device' = "busy"
      BY <1>1, <1>4, <2>2 DEF idestart
    <3> QED
      BY <1>1, <2>1, <2>2, <3>1, Zenon DEF DeviceInv, idestart
  <2>3. CASE idequeue # <<>>
    <3>1. idequeue'[1] = idequeue[1]
      BY <1>4, <2>3
    <3> QED
      BY <1>1, <2>1, <2>3, <3>1, Zenon DEF IInv, DeviceInv
  <2> QED
    BY <2>2, <2>3, Zenon
<1>11. SleepInv'
  <2>1. ASSUME NEW q \in Procs \ {p}, Queued(buf[q]), buf[q] \in Bufs
        PROVE  Queued(buf[q])'
    BY <1>1, <1>5, <2>1, Zenon DEF Queued
  <2>2. Queued(buf[p])'
    BY <1>1, <1>2, <1>5, Zenon DEF Queued
  <2>3. /\ asleep'[p] = BufChan(buf'[p])
        /\ \A q \in Procs \ {p} : asleep'[q] = asleep[q]
    BY <1>1, Zenon DEF IInv, TypeOK
  <2>4. \A q \in Procs : pc[q] \in Waits => buf[q] \in Bufs
    BY DEF IInv, TypeOK, RefInv, Waits
  <2> QED
    BY <1>1, <1>3, <2>1, <2>2, <2>3, <2>4 DEF IInv, SleepInv
<1> QED
  BY <1>6, <1>7, <1>8, <1>9, <1>10, <1>11, Zenon DEF IInv

\* iderw() returns when the buffer is valid and clean, or sleeps again while
\* it is queued.
LEMMA IderwTestInv ==
  ASSUME IInv, NEW p \in Procs, iderwTest(p), UNCHANGED cacheVars
  PROVE  IInv'
<1>1. /\ pc[p] \in Waits /\ asleep[p] = None
      /\ UNCHANGED <<flags, blockno, data, idequeue, device, cmd, disk, buf,
                     refcnt, mru, holder>>
  BY Zenon DEF iderwTest, ideVars, cacheVars, Waits
<1>2. buf[p] \in Bufs
  BY <1>1 DEF IInv, TypeOK, RefInv, Waits
<1>3. DeviceInv'
  BY <1>1, DeviceFrame, Zenon DEF IInv
<1>4. CASE flags[buf[p]] = {"VALID"}
  <2>1. pc' = [pc EXCEPT ![p] = "held"] /\ asleep' = asleep
    BY <1>4, Zenon DEF iderwTest
  <2>2. pc'[p] = "held" /\ \A q \in Procs \ {p} : pc'[q] = pc[q]
    BY <2>1, Zenon DEF IInv, TypeOK
  <2>3. TypeOK'
    BY <1>1, <2>1, Zenon DEF IInv, TypeOK, Pcs
  <2>4. RefInv'
    <3>1. \A q \in Procs : /\ pc'[q] = "idle" <=> pc[q] = "idle"
                           /\ pc'[q] \in Holding <=> pc[q] \in Holding
      BY <1>1, <2>2, Zenon DEF Holding, Waits
    <3> QED
      BY <1>1, <3>1, RefSame, Zenon DEF IInv
  <2>5. FlagInv'
    BY <1>1, <1>4, <2>2, Zenon DEF IInv, FlagInv
  <2>6. QueueInv'
    <3>1. ~Queued(buf[p])
      BY <1>1, <1>4 DEF IInv, QueueInv, Waits
    <3>2. \A i \in DOMAIN idequeue : idequeue[i] # buf[p]
      BY <3>1, Zenon DEF Queued
    <3> QED
      BY <1>1, <2>2, <3>2 DEF IInv, QueueInv, Queued, Waits
  <2>7. SleepInv'
    BY <1>1, <2>1, <2>2, SleepFrame, Zenon DEF IInv
  <2> QED
    BY <1>3, <2>3, <2>4, <2>5, <2>6, <2>7, Zenon DEF IInv
<1>5. CASE flags[buf[p]] # {"VALID"}
  <2>1. asleep' = [asleep EXCEPT ![p] = BufChan(buf[p])] /\ pc' = pc
    BY <1>5, Zenon DEF iderwTest
  <2>2. TypeOK'
    BY <1>1, <1>2, <2>1, Zenon DEF IInv, TypeOK, Chans
  <2>3. RefInv' /\ FlagInv' /\ QueueInv'
    BY <1>1, <2>1, ProcFrame, Zenon DEF IInv
  <2>4. SleepInv'
    <3>1. Queued(buf[p])
      BY <1>1, <1>5, Zenon DEF IInv, QueueInv
    <3> QED
      BY <1>1, <2>1, <3>1, Zenon DEF IInv, TypeOK, SleepInv, Queued
  <2> QED
    BY <1>3, <2>2, <2>3, <2>4, Zenon DEF IInv
<1> QED
  BY <1>4, <1>5, Zenon

\* A process changes the buffer that it holds, and marks it dirty.
LEMMA ChangeInv ==
  ASSUME IInv, NEW p \in Procs, pc[p] = "held", NEW v \in Values,
         data' = [data EXCEPT ![buf[p]] = v],
         flags' = [flags EXCEPT ![buf[p]] = @ \cup {"DIRTY"}],
         NEW l \in {"held", "write"}, pc' = [pc EXCEPT ![p] = l],
         UNCHANGED <<blockno, idequeue, device, cmd, disk, buf, asleep, refcnt,
                     mru, holder>>
  PROVE  IInv'
<1> DEFINE b == buf[p]
<1>1. /\ b \in Bufs /\ "VALID" \in flags[b]
      /\ \A q \in Procs \ {p} : pc[q] \in Holding => buf[q] # b
  BY HolderFacts, Zenon DEF IInv, FlagInv, Holding
<1>2. pc'[p] = l /\ \A q \in Procs \ {p} : pc'[q] = pc[q]
  BY Zenon DEF IInv, TypeOK
<1>3. /\ flags'[b] = {"VALID", "DIRTY"}
      /\ \A c \in Bufs \ {b} : flags'[c] = flags[c] /\ data'[c] = data[c]
  <2>1. /\ flags'[b] = flags[b] \cup {"DIRTY"}
        /\ flags[b] \subseteq {"VALID", "DIRTY"}
    BY <1>1, Zenon DEF IInv, TypeOK
  <2>2. flags'[b] = {"VALID", "DIRTY"}
    BY <1>1, <2>1, Zenon
  <2> QED
    BY <1>1, <2>2, Zenon DEF IInv, TypeOK
<1>4. TypeOK'
  BY <1>1, Zenon DEF IInv, TypeOK, Pcs
<1>5. RefInv'
  <2>1. \A q \in Procs : /\ pc'[q] = "idle" <=> pc[q] = "idle"
                         /\ pc'[q] \in Holding <=> pc[q] \in Holding
    BY <1>2, Zenon DEF Holding
  <2> QED
    BY <2>1, RefSame, Zenon DEF IInv
<1>6. \A q \in Procs \ {p} :
        pc[q] \in Holding => flags'[buf[q]] = flags[buf[q]]
  BY <1>1, <1>3, HolderFacts, Zenon
<1>7. FlagInv'
  BY <1>2, <1>3, <1>6 DEF IInv, FlagInv, Holding
<1>8. QueueInv'
  BY <1>2, <1>6, QueueFrame, Zenon DEF IInv, Waits, Holding
<1>9. DeviceInv'
  <2>1. idequeue # <<>> => idequeue[1] \in Bufs \ {b}
    BY <1>1, FirstFacts, Zenon DEF Waits, Holding
  <2> QED
    BY <1>3, <2>1, DeviceFrame, Zenon DEF IInv
<1>10. SleepInv'
  <2>1. asleep[p] = None
    BY Zenon DEF IInv, SleepInv, Waits
  <2> QED
    BY <1>2, <2>1, SleepFrame, Zenon DEF IInv
<1> QED
  BY <1>4, <1>5, <1>7, <1>8, <1>9, <1>10, Zenon DEF IInv

\* releasesleep() wakes all who wait for the lock.
LEMMA ReleasesleepInv ==
  ASSUME IInv, NEW p \in Procs, releasesleep(p)
  PROVE  IInv'
<1> DEFINE b == buf[p]
<1>1. /\ pc[p] = "held"
      /\ holder' = [holder EXCEPT ![b] = None]
      /\ asleep' = wakeup(LockChan(b))
      /\ pc' = [pc EXCEPT ![p] = "release"]
      /\ UNCHANGED <<flags, blockno, data, idequeue, device, cmd, disk, buf,
                     refcnt, mru>>
  BY Zenon DEF releasesleep, ideVars
<1>2. b \in Bufs /\ holder[b] = p
  BY <1>1, HolderFacts, Zenon DEF Holding
<1>3. pc'[p] = "release" /\ \A q \in Procs \ {p} : pc'[q] = pc[q]
  BY <1>1, Zenon DEF IInv, TypeOK
<1>4. holder'[b] = None /\ \A c \in Bufs \ {b} : holder'[c] = holder[c]
  BY <1>1, <1>2, Zenon DEF IInv, TypeOK
<1>5. \A q \in Procs :
        asleep'[q] = IF asleep[q] = LockChan(b) THEN None ELSE asleep[q]
  BY <1>1, Zenon DEF wakeup
<1>6. TypeOK'
  <2>1. asleep' \in [Procs -> Chans]
    BY <1>1, Zenon DEF wakeup, IInv, TypeOK, Chans
  <2> QED
    BY <1>1, <1>2, <2>1, Zenon DEF IInv, TypeOK, Pcs
<1>7. RefInv'
  <2>1. \A q \in Procs, c \in Bufs :
          holder'[c] = q <=> buf'[q] = c /\ pc'[q] \in Holding
    BY <1>1, <1>2, <1>3, <1>4, IdeAssumption
       DEF IInv, RefInv, Holding
  <2>2. \A q \in Procs : pc'[q] = "idle" <=> pc[q] = "idle"
    BY <1>1, <1>3, Zenon
  <2> QED
    BY <1>1, <2>1, <2>2, RefFrame, Zenon DEF IInv
<1>8. FlagInv'
  BY <1>1, <1>3, Zenon DEF IInv, FlagInv
<1>9. QueueInv'
  BY <1>1, <1>3, QueueFrame, Zenon DEF IInv, Waits
<1>10. DeviceInv'
  BY <1>1, DeviceFrame, Zenon DEF IInv
<1>11. SleepInv'
  <2>1. \A q \in Procs : pc[q] \in {"lock"} \cup Waits => buf[q] \in Bufs
    BY DEF IInv, TypeOK, RefInv, Waits
  <2>2. \A c \in Bufs : LockChan(c) = LockChan(b) => c = b
    BY <1>2, ChanFacts, Zenon
  <2> QED
    BY <1>1, <1>2, <1>3, <1>4, <1>5, <2>1, <2>2
       DEF IInv, SleepInv, Queued, Waits
<1> QED
  BY <1>6, <1>7, <1>8, <1>9, <1>10, <1>11, Zenon DEF IInv

\* brelse() drops its reference.
LEMMA BrelseInv ==
  ASSUME IInv, NEW p \in Procs, brelse(p)
  PROVE  IInv'
<1>0. PICK b \in Bufs : b = buf[p]
  BY DEF brelse, IInv, TypeOK, RefInv
<1>1. /\ pc[p] = "release"
      /\ refcnt' = [refcnt EXCEPT ![b] = @ - 1]
      /\ mru' = mru \/ mru' = MoveToFront(b)
      /\ pc' = [pc EXCEPT ![p] = "idle"]
      /\ buf' = [buf EXCEPT ![p] = None]
      /\ UNCHANGED <<flags, blockno, data, idequeue, device, cmd, disk, asleep,
                     holder>>
  BY <1>0, Zenon DEF brelse, ideVars
<1>2. /\ pc'[p] = "idle" /\ buf'[p] = None
      /\ \A q \in Procs \ {p} : pc'[q] = pc[q] /\ buf'[q] = buf[q]
  BY <1>1, Zenon DEF IInv, TypeOK
<1>3. /\ Cardinality(Users(b)') = Cardinality(Users(b)) - 1
      /\ Cardinality(Users(b)) > 0
      /\ \A c \in Bufs \ {b} : Users(c)' = Users(c)
  <2>1. TypeOK /\ RefInv /\ buf[p] = b /\ buf' = [buf EXCEPT ![p] = None]
    BY <1>0, <1>1, Zenon DEF IInv
  <2> QED
    BY <2>1, UsersDrop, Zenon
<1>4. /\ refcnt'[b] = refcnt[b] - 1 /\ refcnt[b] > 0 /\ refcnt[b] \in Nat
      /\ \A c \in Bufs \ {b} : refcnt'[c] = refcnt[c]
  BY <1>1, <1>3 DEF IInv, TypeOK, RefInv
<1>5. TypeOK'
  <2>1. mru' \in [Bufs -> Bufs]
    <3>1. MoveToFront(b) \in [Bufs -> Bufs]
      <4>1. \A i \in Bufs : i # 1 => i - 1 \in Bufs
        BY IdeAssumption DEF Bufs
      <4> QED
        BY <4>1, Zenon DEF MoveToFront, IInv, TypeOK
    <3> QED
      BY <1>1, <3>1, Zenon DEF IInv, TypeOK
  <2>2. refcnt' \in [Bufs -> Nat]
    BY <1>1, <1>4 DEF IInv, TypeOK
  <2> QED
    BY <1>1, <2>1, <2>2, Zenon DEF IInv, TypeOK, Pcs
<1>6. RefInv'
  <2>1. \A c \in Bufs : refcnt'[c] = Cardinality(Users(c)')
    <3>1. \A c \in Bufs : refcnt[c] = Cardinality(Users(c))
      BY Zenon DEF IInv, RefInv
    <3>2. refcnt'[b] = Cardinality(Users(b)')
      BY <1>3, <1>4, <3>1, Zenon
    <3>3. ASSUME NEW c \in Bufs \ {b}
          PROVE  refcnt'[c] = Cardinality(Users(c)')
      <4>1. Users(c)' = Users(c)
        BY <1>3, Zenon
      <4> QED
        BY <1>4, <3>1, <4>1, Zenon
    <3> QED
      BY <3>2, <3>3, Zenon
  <2>2. \A c \in Bufs : refcnt'[c] > 0 => blockno'[c] \in Blocks
    BY <1>1, <1>4, Zenon DEF IInv, RefInv
  <2>3. \A q \in Procs : pc'[q] = "idle" <=> buf'[q] = None
    BY <1>2, Zenon DEF IInv, RefInv
  <2>4. \A q \in Procs, c \in Bufs :
          holder'[c] = q <=> buf'[q] = c /\ pc'[q] \in Holding
    BY <1>1, <1>2, IdeAssumption DEF IInv, RefInv, Holding
  <2> QED
    BY <2>1, <2>2, <2>3, <2>4, Zenon DEF RefInv
<1>7. FlagInv'
  BY <1>1, <1>2, Zenon DEF IInv, FlagInv
<1>8. QueueInv'
  BY <1>1, <1>2, QueueFrame, Zenon DEF IInv, Waits
<1>9. DeviceInv'
  BY <1>1, DeviceFrame, Zenon DEF IInv
<1>10. SleepInv'
  <2>1. asleep[p] = None
    BY <1>1, Zenon DEF IInv, SleepInv, Waits
  <2> QED
    BY <1>1, <1>2, <2>1, SleepFrame, Zenon DEF IInv
<1> QED
  BY <1>5, <1>6, <1>7, <1>8, <1>9, <1>10, Zenon DEF IInv

\* The device finishes its command.
LEMMA DeviceDoneInv ==
  ASSUME IInv, DeviceDone, UNCHANGED cacheVars
  PROVE  IInv'
<1>1. /\ device = "busy" /\ device' = "intr"
      /\ disk' = IF cmd.write THEN [disk EXCEPT ![cmd.block] = cmd.value]
                 ELSE disk
      /\ UNCHANGED <<flags, blockno, data, idequeue, cmd, pc, buf, asleep,
                     refcnt, mru, holder>>
  BY Zenon DEF DeviceDone, cacheVars
<1>2. idequeue # <<>> /\ cmd.value \in Values
  <2>1. idequeue # <<>>
    BY <1>1, Zenon DEF IInv, DeviceInv
  <2> QED
    BY <1>1, <2>1, FirstFacts DEF IInv, DeviceInv, TypeOK
<1>3. TypeOK'
  <2>1. disk' \in [Blocks -> Values]
    BY <1>1, <1>2, Zenon DEF IInv, TypeOK
  <2> QED
    BY <1>1, <2>1, Zenon DEF IInv, TypeOK
<1>4. RefInv' /\ FlagInv' /\ QueueInv'
  BY <1>1, ProcFrame, Zenon DEF IInv
<1>5. DeviceInv'
  BY <1>1, <1>2, Zenon DEF IInv, DeviceInv
<1>6. SleepInv'
  BY <1>1, Zenon DEF IInv, SleepInv, Queued
<1> QED
  BY <1>3, <1>4, <1>5, <1>6, Zenon DEF IInv

\* What ideintr() finds: the first of the queue, whose user waits for it.
LEMMA IntrFacts ==
  ASSUME IInv, ideintr
  PROVE  /\ idequeue \in Seq(Bufs) /\ idequeue # <<>> /\ device = "intr"
         /\ Head(idequeue) = idequeue[1] /\ idequeue[1] \in Bufs
         /\ idequeue' \in Seq(Bufs) /\ Len(idequeue') = Len(idequeue) - 1
         /\ DOMAIN idequeue = 1..Len(idequeue) /\ Len(idequeue) \in Nat
         /\ DOMAIN idequeue' = 1..Len(idequeue) - 1
         /\ \A i \in 1..Len(idequeue) - 1 : idequeue'[i] = idequeue[i + 1]
         /\ \A c \in Bufs : Queued(c)' <=> Queued(c) /\ c # idequeue[1]
<1>1. idequeue \in Seq(Bufs) /\ idequeue # <<>> /\ device = "intr"
  BY Zenon DEF IInv, TypeOK, ideintr
<1>2. Head(idequeue) = idequeue[1] /\ idequeue[1] \in Bufs
  BY <1>1
<1>3. idequeue' = Tail(idequeue)
  BY Zenon DEF ideintr
<1>4. /\ idequeue' \in Seq(Bufs) /\ Len(idequeue') = Len(idequeue) - 1
      /\ DOMAIN idequeue = 1..Len(idequeue) /\ Len(idequeue) \in Nat
      /\ DOMAIN idequeue' = 1..Len(idequeue) - 1
      /\ \A i \in 1..Len(idequeue) - 1 : idequeue'[i] = idequeue[i + 1]
  BY <1>1, <1>3
<1>5. \A i, j \in DOMAIN idequeue : idequeue[i] = idequeue[j] => i = j
  BY Zenon DEF IInv, QueueInv
<1>6. ASSUME NEW c \in Bufs
      PROVE  Queued(c)' <=> Queued(c) /\ c # idequeue[1]
  <2>1. ASSUME NEW i \in DOMAIN idequeue', idequeue'[i] = c
        PROVE  Queued(c) /\ c # idequeue[1]
    <3>1. i + 1 \in DOMAIN idequeue /\ idequeue[i + 1] = c /\ i + 1 # 1
          /\ 1 \in DOMAIN idequeue
      BY <1>4, <2>1
    <3> QED
      BY <1>5, <3>1, Zenon DEF Queued
  <2>2. ASSUME NEW i \in DOMAIN idequeue, idequeue[i] = c, c # idequeue[1]
        PROVE  Queued(c)'
    <3>1. i - 1 \in DOMAIN idequeue' /\ (i - 1) + 1 = i
      BY <1>4, <2>2
    <3>2. idequeue'[i - 1] = c
      BY <1>4, <2>2, <3>1, Zenon
    <3> QED
      BY <3>1, <3>2, Zenon DEF Queued
  <2> QED
    BY <2>1, <2>2, Zenon DEF Queued
<1> QED
  BY <1>1, <1>2, <1>4, <1>6, Zenon

\* ideintr() finishes a request, wakes its process and starts the next.
LEMMA IdeintrInv ==
  ASSUME IInv, ideintr, UNCHANGED cacheVars
  PROVE  IInv'
<1> DEFINE b == idequeue[1]
<1>1. /\ UNCHANGED <<blockno, disk, pc, buf, refcnt, mru, holder>>
      /\ flags' = [flags EXCEPT ![b] = (@ \cup {"VALID"}) \ {"DIRTY"}]
      /\ asleep' = wakeup(BufChan(b))
      /\ data' = data \/ data' = [data EXCEPT ![b] = disk[cmd.block]]
      /\ idequeue' = Tail(idequeue)
      /\ IF idequeue' # <<>> THEN idestart(Head(idequeue'))
                             ELSE device' = "idle" /\ cmd' = None
  BY IntrFacts, Zenon DEF ideintr, ideintrWith, cacheVars
<1>2. PICK p \in Procs : pc[p] \in Waits /\ buf[p] = b
  BY IntrFacts, FirstFacts, Zenon
<1>3. /\ b \in Bufs /\ blockno[b] \in Blocks
      /\ \A q \in Procs \ {p} : pc[q] \in Holding => buf[q] # b
  BY <1>2, HolderFacts DEF Waits, Holding
<1>4. flags'[b] = {"VALID"} /\ \A c \in Bufs \ {b} : flags'[c] = flags[c]
  <2>1. flags[b] \subseteq {"VALID", "DIRTY"}
        /\ flags'[b] = (flags[b] \cup {"VALID"}) \ {"DIRTY"}
    BY <1>1, <1>3, Zenon DEF IInv, TypeOK
  <2> QED
    BY <1>1, <1>3, <2>1 DEF IInv, TypeOK
<1>5. \A c \in Bufs \ {b} : data'[c] = data[c]
  BY <1>1, <1>3, Zenon DEF IInv, TypeOK
<1>6. \A q \in Procs :
        asleep'[q] = IF asleep[q] = BufChan(b) THEN None ELSE asleep[q]
  BY <1>1, Zenon DEF wakeup
<1>7. \A q \in Procs : pc[q] \in Waits => buf[q] \in Bufs
  BY HolderFacts, Zenon DEF Waits, Holding
<1>8. TypeOK'
  <2>1. asleep' \in [Procs -> Chans]
    BY <1>1, Zenon DEF wakeup, IInv, TypeOK, Chans
  <2>2. data' \in [Bufs -> Values]
    <3>1. cmd.block = blockno[b]
      BY IntrFacts DEF IInv, DeviceInv
    <3> QED
      BY <1>1, <1>3, <3>1, Zenon DEF IInv, TypeOK
  <2>3. flags' \in [Bufs -> SUBSET {"VALID", "DIRTY"}]
    BY <1>1, <1>3, <1>4, Zenon DEF IInv, TypeOK
  <2>4. device' \in {"idle", "busy", "intr"}
    BY <1>1, Zenon DEF idestart
  <2> QED
    BY <1>1, <2>1, <2>2, <2>3, <2>4, IntrFacts, Zenon DEF IInv, TypeOK
<1>9. RefInv'
  BY <1>1, RefSame, Zenon DEF IInv
<1>10. FlagInv'
  <2>1. \A q \in Procs \ {p} :
          pc[q] \in Holding => flags'[buf[q]] = flags[buf[q]]
    BY <1>3, <1>4, HolderFacts, Zenon
  <2>2. \A c \in Bufs : "DIRTY" \in flags'[c] => "VALID" \in flags'[c]
    BY <1>4, Zenon DEF IInv, FlagInv
  <2>3. pc[p] # "read" /\ pc[p] # "held" /\ pc[p] # "write"
    BY <1>2, Zenon DEF Waits
  <2>4. \A q \in Procs \ {p} :
          /\ pc[q] = "read" => flags'[buf[q]] = {}
          /\ pc[q] = "held" => "VALID" \in flags'[buf[q]]
          /\ pc[q] = "write" => "DIRTY" \in flags'[buf[q]]
    BY <2>1, Zenon DEF IInv, FlagInv, Holding
  <2> QED
    BY <1>1, <2>2, <2>3, <2>4, Zenon DEF FlagInv
<1>11. QueueInv'
  <2>1. \A i, j \in DOMAIN idequeue' : idequeue'[i] = idequeue'[j] => i = j
    <3>1. ASSUME NEW i \in DOMAIN idequeue', NEW j \in DOMAIN idequeue',
                 idequeue'[i] = idequeue'[j]
          PROVE  i = j
      <4>1. /\ i + 1 \in DOMAIN idequeue /\ j + 1 \in DOMAIN idequeue
            /\ idequeue[i + 1] = idequeue[j + 1] /\ i \in Int /\ j \in Int
        BY <3>1, IntrFacts
      <4>2. i + 1 = j + 1
        BY <4>1, Zenon DEF IInv, QueueInv
      <4> QED
        BY <4>1, <4>2
    <3> QED
      BY <3>1, Zenon
  <2>2. ASSUME NEW i \in DOMAIN idequeue'
        PROVE  \E q \in Procs : pc'[q] \in Waits /\ buf'[q] = idequeue'[i]
    <3>1. i + 1 \in DOMAIN idequeue /\ idequeue'[i] = idequeue[i + 1]
      BY IntrFacts
    <3> QED
      BY <1>1, <3>1, Zenon DEF IInv, QueueInv
  <2>3. ASSUME NEW q \in Procs, pc[q] \in Waits
        PROVE  IF Queued(buf[q])'
               THEN flags'[buf[q]] = IF pc[q] = "read_wait" THEN {}
                                     ELSE {"VALID", "DIRTY"}
               ELSE flags'[buf[q]] = {"VALID"}
    <3>1. buf[q] \in Bufs /\ pc[q] \in Holding
      BY <1>7, <2>3, Zenon DEF Waits, Holding
    <3>2. Queued(buf[q])' <=> Queued(buf[q]) /\ buf[q] # b
      BY <1>1, <3>1, IntrFacts, Zenon DEF Queued
    <3>3. CASE buf[q] = b
      BY <1>4, <3>2, <3>3, Zenon
    <3>4. CASE buf[q] # b
      BY <1>4, <2>3, <3>1, <3>2, <3>4, Zenon DEF IInv, QueueInv
    <3> QED
      BY <3>3, <3>4, Zenon
  <2> QED
    BY <1>1, <2>1, <2>2, <2>3 DEF QueueInv, Queued
<1>12. DeviceInv'
  <2>1. CASE idequeue' = <<>>
    BY <1>1, <2>1, Zenon DEF DeviceInv
  <2>2. CASE idequeue' # <<>>
    <3>1. /\ Head(idequeue') = idequeue'[1] /\ idequeue'[1] = idequeue[2]
          /\ 1 \in DOMAIN idequeue /\ 2 \in DOMAIN idequeue
          /\ idequeue[2] \in Bufs
      BY <2>2, IntrFacts
    <3>2. idequeue[2] # b
      BY <3>1 DEF IInv, QueueInv
    <3>3. device' = "busy" /\ cmd' = [block |-> blockno[idequeue[2]],
             write |-> "DIRTY" \in flags[idequeue[2]],
             value |-> data[idequeue[2]]]
      BY <1>1, <2>2, <3>1, Zenon DEF idestart
    <3> QED
      BY <1>1, <1>4, <1>5, <2>2, <3>1, <3>2, <3>3 DEF DeviceInv
  <2> QED
    BY <2>1, <2>2, Zenon
<1>13. SleepInv'
  <2>1. ASSUME NEW q \in Procs, asleep[q] = BufChan(buf[q]), pc[q] \in Waits,
               Queued(buf[q]), asleep'[q] # None
        PROVE  Queued(buf[q])'
    <3>1. buf[q] # b
      BY <1>6, <2>1, Zenon
    <3> QED
      BY <1>1, <1>7, <2>1, <3>1, IntrFacts, Zenon DEF Queued
  <2> QED
    BY <1>1, <1>6, <2>1, Zenon DEF IInv, SleepInv
<1> QED
  BY <1>8, <1>9, <1>10, <1>11, <1>12, <1>13, Zenon DEF IInv

-----------------------------------------------------------------------------
\* The boot of the kernel: no buffer is in use.
LEMMA InitInv ==
  ASSUME Init
  PROVE  IInv
<1>1. TypeOK
  <2>1. flags \in [Bufs -> SUBSET {"VALID", "DIRTY"}] /\ idequeue \in Seq(Bufs)
    BY DEF Init, IdeInit
  <2>2. /\ blockno \in [Bufs -> Blocks \cup {NoBlock}]
        /\ data \in [Bufs -> Values] /\ disk \in [Blocks -> Values]
        /\ device \in {"idle", "busy", "intr"}
    BY Zenon DEF Init, IdeInit
  <2>3. /\ pc \in [Procs -> Pcs] /\ buf \in [Procs -> Bufs \cup {None}]
        /\ asleep \in [Procs -> Chans] /\ refcnt \in [Bufs -> Nat]
        /\ holder \in [Bufs -> Procs \cup {None}]
    BY Zenon DEF Init, Pcs, Chans
  <2>4. mru \in [Bufs -> Bufs]
    <3>1. \A i \in Bufs : NBUF + 1 - i \in Bufs
      BY IdeAssumption DEF Bufs
    <3> QED
      BY <3>1, Zenon DEF Init
  <2> QED
    BY <2>1, <2>2, <2>3, <2>4, Zenon DEF TypeOK
<1>2. RefInv
  <2>1. \A b \in Bufs : Users(b) = {}
    BY IdeAssumption, Zenon DEF Init, Users
  <2>2. \A b \in Bufs : refcnt[b] = 0 /\ Cardinality(Users(b)) = 0
    BY <2>1, FS_EmptySet, Zenon DEF Init
  <2>3. \A b \in Bufs : holder[b] = None
    BY Zenon DEF Init
  <2>4. \A p \in Procs : pc[p] = "idle" /\ buf[p] = None
    BY Zenon DEF Init
  <2> QED
    BY <2>2, <2>3, <2>4, IdeAssumption DEF RefInv
<1>3. FlagInv /\ QueueInv /\ SleepInv
  <2>1. \A p \in Procs : pc[p] = "idle" /\ asleep[p] = None
    BY Zenon DEF Init
  <2>2. \A b \in Bufs : flags[b] = {}
    BY Zenon DEF Init, IdeInit
  <2>3. idequeue = <<>> /\ DOMAIN idequeue = {}
    BY DEF Init, IdeInit
  <2> QED
    BY <2>1, <2>2, <2>3, Zenon DEF FlagInv, QueueInv, SleepInv, Waits
<1>4. DeviceInv
  BY Zenon DEF Init, IdeInit, DeviceInv
<1> QED
  BY <1>1, <1>2, <1>3, <1>4, Zenon DEF IInv

\* What the invariant does not speak of may change.
LEMMA StutterInv ==
  ASSUME IInv, UNCHANGED <<ideVars, pc, buf, asleep, refcnt, mru, holder>>
  PROVE  IInv'
<1>1. UNCHANGED <<flags, blockno, data, idequeue, device, cmd, disk, pc, buf,
                  asleep, refcnt, mru, holder>>
  BY Zenon DEF ideVars
<1>2. TypeOK'
  BY <1>1, Zenon DEF IInv, TypeOK
<1>3. RefInv' /\ FlagInv' /\ QueueInv'
  BY <1>1, ProcFrame, Zenon DEF IInv
<1>4. DeviceInv'
  BY <1>1, DeviceFrame, Zenon DEF IInv
<1>5. SleepInv'
  BY <1>1, Zenon DEF IInv, SleepInv, Queued
<1> QED
  BY <1>2, <1>3, <1>4, <1>5, Zenon DEF IInv

\* Every step keeps the invariant.
LEMMA NextInv ==
  ASSUME IInv, [Next]_vars
  PROVE  IInv'
<1>1. CASE UNCHANGED vars
  BY <1>1, StutterInv, Zenon DEF vars
<1>2. ASSUME NEW p \in Procs, NEW k \in Blocks, BgetCached(p, k) PROVE IInv'
  BY <1>2, BgetCachedInv, Zenon
<1>3. ASSUME NEW p \in Procs, NEW k \in Blocks, BgetRecycle(p, k) PROVE IInv'
  BY <1>3, BgetRecycleInv, Zenon
<1>4. ASSUME NEW p \in Procs, NEW k \in Blocks, BgetPanic(p, k) PROVE IInv'
  BY <1>4, StutterInv, Zenon DEF BgetPanic
<1>5. ASSUME NEW p \in Procs, acquiresleep(p) PROVE IInv'
  BY <1>5, AcquiresleepInv, Zenon
<1>6. ASSUME NEW p \in Procs, iderw(p), UNCHANGED cacheVars PROVE IInv'
  BY <1>6, IderwInv, Zenon
<1>7. ASSUME NEW p \in Procs, iderwTest(p), UNCHANGED cacheVars PROVE IInv'
  BY <1>7, IderwTestInv, Zenon
<1>8. ASSUME NEW p \in Procs, NEW v \in Values, bwrite(p, v) PROVE IInv'
  <2>1. pc[p] = "held" /\ "write" \in {"held", "write"}
    BY <1>8, Zenon DEF bwrite
  <2> QED
    BY <1>8, <2>1, ChangeInv, Zenon DEF bwrite
<1>9. ASSUME NEW p \in Procs, NEW v \in Values, log_write(p, v) PROVE IInv'
  <2>1. pc[p] = "held" /\ pc' = [pc EXCEPT ![p] = "held"]
    BY <1>9, Zenon DEF log_write, IInv, TypeOK
  <2> QED
    BY <1>9, <2>1, ChangeInv, Zenon DEF log_write
<1>10. ASSUME NEW p \in Procs, releasesleep(p) PROVE IInv'
  BY <1>10, ReleasesleepInv, Zenon
<1>11. ASSUME NEW p \in Procs, brelse(p) PROVE IInv'
  BY <1>11, BrelseInv, Zenon
<1>12. CASE DeviceDone /\ UNCHANGED cacheVars
  BY <1>12, DeviceDoneInv, Zenon
<1>13. CASE ideintr /\ UNCHANGED cacheVars
  BY <1>13, IdeintrInv, Zenon
<1> QED
  BY <1>1, <1>2, <1>3, <1>4, <1>5, <1>6, <1>7, <1>8, <1>9, <1>10, <1>11,
     <1>12, <1>13, Zenon DEF Next

\* IInv is an invariant of the cache and the driver.
LEMMA Invariance == Spec => []IInv
<1>1. Init => IInv
  BY InitInv, Zenon
<1>2. IInv /\ [Next]_vars => IInv'
  BY NextInv, Zenon
<1> QED
  BY <1>1, <1>2, PTL DEF Spec

\* A process sleeps in iderw() only while the driver has its buffer and the
\* device works on the first of the queue, and in acquiresleep() only while
\* another process holds the lock.
THEOREM NoLostWakeup == Spec => []SleepsForReason
<1>1. ASSUME IInv PROVE SleepsForReason
  <2>1. ASSUME NEW p \in Procs, asleep[p] = BufChan(buf[p])
        PROVE  /\ \E i \in DOMAIN idequeue : idequeue[i] = buf[p]
               /\ device # "idle"
               /\ LET b == Head(idequeue)
                  IN cmd = [block |-> blockno[b],
                            write |-> "DIRTY" \in flags[b], value |-> data[b]]
    <3>1. buf[p] \in Bufs \cup {None}
      BY <1>1, Zenon DEF IInv, TypeOK
    <3>2. asleep[p] # None /\ asleep[p] # LockChan(buf[p])
      BY <2>1, <3>1, ChanFacts, Zenon
    <3>3. Queued(buf[p])
      BY <1>1, <3>2, Zenon DEF IInv, SleepInv
    <3>4. idequeue \in Seq(Bufs) /\ idequeue # <<>>
      BY <1>1, <3>3 DEF IInv, TypeOK, Queued
    <3>5. Head(idequeue) = idequeue[1] /\ device # "idle"
      BY <1>1, <3>4 DEF IInv, DeviceInv
    <3> QED
      BY <1>1, <3>3, <3>5, Zenon DEF IInv, DeviceInv, Queued
  <2>2. ASSUME NEW p \in Procs, asleep[p] = LockChan(buf[p])
        PROVE  holder[buf[p]] \notin {None, p}
    <3>1. buf[p] \in Bufs \cup {None}
      BY <1>1, Zenon DEF IInv, TypeOK
    <3>2. asleep[p] # None /\ asleep[p] # BufChan(buf[p])
      BY <2>2, <3>1, ChanFacts, Zenon
    <3>3. pc[p] = "lock" /\ holder[buf[p]] # None
      BY <1>1, <3>2, Zenon DEF IInv, SleepInv
    <3> QED
      BY <1>1, <3>1, <3>3 DEF IInv, RefInv, Holding
  <2> QED
    BY <2>1, <2>2, Zenon DEF SleepsForReason
<1> QED
  BY <1>1, Invariance, PTL

-----------------------------------------------------------------------------
\* DataInv holds of every run without read errors.
LEMMA DataFrame ==
  ASSUME DataInv, UNCHANGED <<flags, blockno, data, disk>>,
         UNCHANGED <<device, cmd>> \/ device' # "intr"
  PROVE  DataInv'
BY Zenon DEF DataInv

\* A recycled buffer is neither valid nor of another buffer's block.
LEMMA DataRecycle ==
  ASSUME IInv, DataInv, NEW p \in Procs, NEW k \in Blocks, BgetRecycle(p, k)
  PROVE  DataInv'
<1>1. PICK b \in Bufs : /\ blockno' = [blockno EXCEPT ![b] = k]
                        /\ flags' = [flags EXCEPT ![b] = {}]
                        /\ \A c \in Bufs : blockno[c] # k
                        /\ UNCHANGED <<data, disk, device, cmd>>
  BY RecycleFacts, Zenon DEF BgetRecycle, Cached, IInv
<1>2. /\ blockno'[b] = k /\ flags'[b] = {}
      /\ \A c \in Bufs \ {b} : blockno'[c] = blockno[c] /\ flags'[c] = flags[c]
  BY <1>1, Zenon DEF IInv, TypeOK
<1>3. \A c, d \in Bufs :
        blockno'[c] = blockno'[d] /\ blockno'[c] \in Blocks => c = d
  BY <1>1, <1>2 DEF DataInv
<1>4. \A c \in Bufs : "VALID" \in flags'[c] => c # b
  BY <1>2, Zenon
<1>5. {"VALID"} # {}
  BY Zenon
<1> QED
  BY <1>1, <1>2, <1>3, <1>4, <1>5 DEF DataInv

\* A changed buffer is dirty, so that it may differ from the disk.
LEMMA DataChange ==
  ASSUME IInv, DataInv, NEW p \in Procs, pc[p] = "held", NEW v \in Values,
         data' = [data EXCEPT ![buf[p]] = v],
         flags' = [flags EXCEPT ![buf[p]] = @ \cup {"DIRTY"}],
         UNCHANGED <<blockno, disk, device, cmd>>
  PROVE  DataInv'
<1> DEFINE b == buf[p]
<1>1. b \in Bufs /\ blockno[b] \in Blocks
  BY HolderFacts, Zenon DEF Holding
<1>2. /\ "DIRTY" \in flags'[b] /\ flags'[b] # {"VALID"}
      /\ \A c \in Bufs \ {b} : flags'[c] = flags[c] /\ data'[c] = data[c]
  BY <1>1, Zenon DEF IInv, TypeOK
<1> QED
  BY <1>1, <1>2, Zenon DEF DataInv

\* The block that the device works on.
LEMMA CmdFacts ==
  ASSUME IInv, device # "idle"
  PROVE  /\ idequeue # <<>> /\ idequeue[1] \in Bufs
         /\ cmd.block = blockno[idequeue[1]] /\ cmd.block \in Blocks
         /\ cmd.write <=> "DIRTY" \in flags[idequeue[1]]
         /\ cmd.value = data[idequeue[1]]
<1>1. idequeue # <<>>
  BY Zenon DEF IInv, DeviceInv
<1>2. PICK p \in Procs : pc[p] \in Waits /\ buf[p] = idequeue[1]
  BY <1>1, FirstFacts, Zenon
<1>3. idequeue[1] \in Bufs /\ blockno[idequeue[1]] \in Blocks
  BY <1>2, HolderFacts, Zenon DEF Waits, Holding
<1>4. cmd = [block |-> blockno[idequeue[1]],
             write |-> "DIRTY" \in flags[idequeue[1]],
             value |-> data[idequeue[1]]]
  BY Zenon DEF IInv, DeviceInv
<1> QED
  BY <1>1, <1>3, <1>4, Zenon

\* The device writes the block of a buffer that is dirty.
LEMMA DataDone ==
  ASSUME IInv, DataInv, DeviceDone
  PROVE  DataInv'
<1> DEFINE b == idequeue[1]
<1>1. /\ device # "idle" /\ device' = "intr"
      /\ disk' = IF cmd.write THEN [disk EXCEPT ![cmd.block] = cmd.value]
                 ELSE disk
      /\ UNCHANGED <<flags, blockno, data, cmd>>
  BY Zenon DEF DeviceDone
<1>2. /\ b \in Bufs /\ cmd.block = blockno[b] /\ cmd.block \in Blocks
      /\ cmd.write <=> "DIRTY" \in flags[b]
  BY <1>1, CmdFacts, Zenon
<1>3. CASE cmd.write
  <2>1. /\ disk'[cmd.block] = cmd.value
        /\ \A k \in Blocks \ {cmd.block} : disk'[k] = disk[k]
    BY <1>1, <1>2, <1>3, Zenon DEF IInv, TypeOK
  <2>2. ASSUME NEW c \in Bufs, flags[c] = {"VALID"}
        PROVE  data[c] = disk'[blockno[c]]
    <3>1. c # b /\ blockno[c] \in Blocks
      BY <1>2, <1>3, <2>2 DEF DataInv
    <3>2. blockno[c] # cmd.block
      BY <1>2, <3>1, Zenon DEF DataInv
    <3> QED
      BY <2>1, <2>2, <3>1, <3>2, Zenon DEF DataInv
  <2> QED
    BY <1>1, <2>1, <2>2, Zenon DEF DataInv
<1>4. CASE ~cmd.write
  BY <1>1, <1>4, Zenon DEF DataInv
<1> QED
  BY <1>3, <1>4, Zenon

\* What ideintr() leaves in the buffer is what the disk has.
LEMMA IntrData ==
  ASSUME ReadErrors = FALSE, IInv, DataInv, ideintr
  PROVE  /\ UNCHANGED <<blockno, disk>> /\ device' # "intr"
         /\ idequeue[1] \in Bufs /\ blockno[idequeue[1]] \in Blocks
         /\ flags'[idequeue[1]] = {"VALID"}
         /\ data'[idequeue[1]] = disk[blockno[idequeue[1]]]
         /\ "VALID" \in flags[idequeue[1]] => data' = data
         /\ \A c \in Bufs \ {idequeue[1]} :
              flags'[c] = flags[c] /\ data'[c] = data[c]
<1> DEFINE b == idequeue[1]
<1>1. /\ device = "intr" /\ UNCHANGED <<blockno, disk>>
      /\ flags' = [flags EXCEPT ![b] = (@ \cup {"VALID"}) \ {"DIRTY"}]
      /\ data' = IF "DIRTY" \in flags[b] THEN data
                 ELSE [data EXCEPT ![b] = disk[cmd.block]]
      /\ device' # "intr"
  BY IntrFacts, Zenon DEF ideintr, ideintrWith, idestart
<1>2. /\ b \in Bufs /\ cmd.block = blockno[b] /\ cmd.block \in Blocks
      /\ cmd.write <=> "DIRTY" \in flags[b]
      /\ cmd.value = data[b]
  BY <1>1, CmdFacts, Zenon
<1>3. flags'[b] = {"VALID"} /\ \A c \in Bufs \ {b} : flags'[c] = flags[c]
  <2>1. flags[b] \subseteq {"VALID", "DIRTY"}
        /\ flags'[b] = (flags[b] \cup {"VALID"}) \ {"DIRTY"}
    BY <1>1, <1>2, Zenon DEF IInv, TypeOK
  <2> QED
    BY <1>1, <1>2, <2>1, Zenon DEF IInv, TypeOK
<1>4. data'[b] = disk[blockno[b]] /\ \A c \in Bufs \ {b} : data'[c] = data[c]
  BY <1>1, <1>2, Zenon DEF IInv, TypeOK, DataInv
<1>5. "VALID" \in flags[b] => "DIRTY" \in flags[b]
  <2>1. PICK p \in Procs : pc[p] \in Waits /\ buf[p] = b
    BY IntrFacts, FirstFacts, Zenon
  <2>2. Queued(b)
    BY IntrFacts DEF Queued
  <2> QED
    BY <2>1, <2>2, Zenon DEF IInv, QueueInv
<1> QED
  BY <1>1, <1>2, <1>3, <1>4, <1>5, Zenon

\* Every step keeps the contents right.
LEMMA DataNext ==
  ASSUME ReadErrors = FALSE, IInv, DataInv, [Next]_vars
  PROVE  DataInv'
<1>1. CASE UNCHANGED vars
  BY <1>1, DataFrame, Zenon DEF vars, ideVars
<1>2. ASSUME NEW p \in Procs, NEW k \in Blocks, BgetCached(p, k) PROVE DataInv'
  BY <1>2, DataFrame, Zenon DEF BgetCached, ideVars
<1>3. ASSUME NEW p \in Procs, NEW k \in Blocks, BgetRecycle(p, k)
      PROVE  DataInv'
  BY <1>3, DataRecycle, Zenon
<1>4. ASSUME NEW p \in Procs, NEW k \in Blocks, BgetPanic(p, k) PROVE DataInv'
  BY <1>4, DataFrame, Zenon DEF BgetPanic, ideVars
<1>5. ASSUME NEW p \in Procs, acquiresleep(p) PROVE DataInv'
  BY <1>5, DataFrame, Zenon DEF acquiresleep, ideVars
<1>6. ASSUME NEW p \in Procs, iderw(p) PROVE DataInv'
  BY <1>6, DataFrame, Zenon DEF iderw, idestart
<1>7. ASSUME NEW p \in Procs, iderwTest(p) PROVE DataInv'
  BY <1>7, DataFrame, Zenon DEF iderwTest, ideVars
<1>8. ASSUME NEW p \in Procs, NEW v \in Values, bwrite(p, v) PROVE DataInv'
  BY <1>8, DataChange, Zenon DEF bwrite
<1>9. ASSUME NEW p \in Procs, NEW v \in Values, log_write(p, v) PROVE DataInv'
  BY <1>9, DataChange, Zenon DEF log_write
<1>10. ASSUME NEW p \in Procs, releasesleep(p) PROVE DataInv'
  BY <1>10, DataFrame, Zenon DEF releasesleep, ideVars
<1>11. ASSUME NEW p \in Procs, brelse(p) PROVE DataInv'
  BY <1>11, DataFrame, Zenon DEF brelse, ideVars
<1>12. CASE DeviceDone
  BY <1>12, DataDone, Zenon
<1>13. CASE ideintr
  <2> DEFINE b == idequeue[1]
  <2>1. /\ UNCHANGED <<blockno, disk>> /\ device' # "intr"
        /\ b \in Bufs /\ blockno[b] \in Blocks /\ data'[b] = disk[blockno[b]]
        /\ \A c \in Bufs \ {b} : flags'[c] = flags[c] /\ data'[c] = data[c]
    BY <1>13, IntrData, Zenon
  <2> HIDE DEF b
  <2> QED
    BY <2>1 DEF DataInv
<1> QED
  BY <1>1, <1>2, <1>3, <1>4, <1>5, <1>6, <1>7, <1>8, <1>9, <1>10, <1>11,
     <1>12, <1>13, Zenon DEF Next

\* At boot no buffer has a block.
LEMMA DataInit ==
  ASSUME Init
  PROVE  DataInv
<1>1. /\ \A b \in Bufs : blockno[b] = NoBlock /\ flags[b] = {}
      /\ device = "idle"
  BY Zenon DEF Init, IdeInit
<1>2. {"VALID"} # {}
  BY Zenon
<1> QED
  BY <1>1, <1>2, IdeAssumption, Zenon DEF DataInv

-----------------------------------------------------------------------------
\* The abstract store of blocks.  Owner[k] is the process that holds block k,
\* and the value of a block is in the valid buffer of it, or on the disk.
Owns == {"held", "write", "write_wait"}

ValueOf(f, bn, d, dk, k) ==
  IF \E b \in {c \in Bufs : bn[c] = k} : "VALID" \in f[b]
    THEN d[CHOOSE b \in {c \in Bufs : bn[c] = k} : "VALID" \in f[b]] ELSE dk[k]

\* The value of a block, when it is in one buffer at most.
LEMMA ValueOfFacts ==
  ASSUME NEW f, NEW bn, NEW d, NEW dk, NEW k \in Blocks,
         \A b, c \in Bufs : bn[b] = bn[c] /\ bn[b] \in Blocks => b = c
  PROVE  /\ \A b \in Bufs : bn[b] = k /\ "VALID" \in f[b]
                              => ValueOf(f, bn, d, dk, k) = d[b]
         /\ (\A b \in Bufs : bn[b] = k => "VALID" \notin f[b])
              => ValueOf(f, bn, d, dk, k) = dk[k]
<1> DEFINE S == {c \in Bufs : bn[c] = k}
           x == CHOOSE b \in S : "VALID" \in f[b]
<1>1. ASSUME NEW b \in Bufs, bn[b] = k, "VALID" \in f[b]
      PROVE  ValueOf(f, bn, d, dk, k) = d[b]
  <2>1. \E c \in S : "VALID" \in f[c]
    BY <1>1, Zenon
  <2>2. x \in S
    BY <2>1, Zenon
  <2>3. x = b
    BY <1>1, <2>2, Zenon
  <2> QED
    BY <2>1, <2>3, Zenon DEF ValueOf
<1>2. (\A b \in Bufs : bn[b] = k => "VALID" \notin f[b])
        => ValueOf(f, bn, d, dk, k) = dk[k]
  BY Zenon DEF ValueOf
<1> QED
  BY <1>1, <1>2, Zenon

\* The value of a block in the abstract store.
LEMMA ValueFacts ==
  ASSUME DataInv
  PROVE  /\ Value = [k \in Blocks |-> Value[k]]
         /\ \A b \in Bufs, k \in Blocks :
              blockno[b] = k /\ "VALID" \in flags[b] => Value[k] = data[b]
         /\ \A k \in Blocks :
              (\A b \in Bufs : blockno[b] = k => "VALID" \notin flags[b])
                => Value[k] = disk[k]
<1>1. Value = [k \in Blocks |-> ValueOf(flags, blockno, data, disk, k)]
  BY Zenon DEF Value, Cached, ValueOf
<1>2. \A b, c \in Bufs :
        blockno[b] = blockno[c] /\ blockno[b] \in Blocks => b = c
  BY Zenon DEF DataInv
<1> QED
  BY <1>1, <1>2, ValueOfFacts

\* The same after a step.
LEMMA ValueFactsNext ==
  ASSUME DataInv'
  PROVE  /\ Value' = [k \in Blocks |-> Value'[k]]
         /\ \A b \in Bufs, k \in Blocks :
              blockno'[b] = k /\ "VALID" \in flags'[b] => Value'[k] = data'[b]
         /\ \A k \in Blocks :
              (\A b \in Bufs : blockno'[b] = k => "VALID" \notin flags'[b])
                => Value'[k] = disk'[k]
<1>1. Value' = [k \in Blocks |-> ValueOf(flags', blockno', data', disk', k)]
  BY Zenon DEF Value, Cached, ValueOf
<1>2. \A b, c \in Bufs :
        blockno'[b] = blockno'[c] /\ blockno'[b] \in Blocks => b = c
  BY Zenon DEF DataInv
<1> QED
  BY <1>1, <1>2, ValueOfFacts

\* The owner of a block in the abstract store.
LEMMA OwnerFacts ==
  ASSUME IInv, DataInv
  PROVE  /\ Owner = [k \in Blocks |-> Owner[k]]
         /\ \A k \in Blocks : Owner[k] \in Procs \cup {None}
         /\ \A k \in Blocks, p \in Procs :
              Owner[k] = p <=> pc[p] \in Owns /\ blockno[buf[p]] = k
<1>1. ASSUME NEW k \in Blocks, NEW p \in Procs, NEW q \in Procs,
             Holds(p, k), Holds(q, k)
      PROVE  p = q
  <2>1. /\ pc[p] \in Holding /\ pc[q] \in Holding
        /\ blockno[buf[p]] = k /\ blockno[buf[q]] = k
    BY <1>1, Zenon DEF Holds, Holding
  <2>2. buf[p] \in Bufs /\ buf[q] \in Bufs
    BY <2>1, HolderFacts, Zenon
  <2>3. buf[p] = buf[q]
    BY <2>1, <2>2 DEF DataInv
  <2> QED
    BY <2>1, <2>2, <2>3 DEF IInv, RefInv
<1>2. ASSUME NEW k \in Blocks
      PROVE  /\ Owner[k] \in Procs \cup {None}
             /\ \A p \in Procs : Owner[k] = p <=> Holds(p, k)
  <2>1. CASE \E p \in Procs : Holds(p, k)
    <3>1. Owner[k] = CHOOSE p \in Procs : Holds(p, k)
      BY <2>1, Zenon DEF Owner
    <3>2. Owner[k] \in Procs /\ Holds(Owner[k], k)
      BY <2>1, <3>1, Zenon
    <3> QED
      BY <1>1, <3>2, Zenon
  <2>2. CASE ~\E p \in Procs : Holds(p, k)
    BY <2>2, IdeAssumption, Zenon DEF Owner
  <2> QED
    BY <2>1, <2>2, Zenon
<1>3. Owner = [k \in Blocks |-> Owner[k]]
  BY Zenon DEF Owner
<1> QED
  BY <1>2, <1>3, Zenon DEF Holds, Owns

\* The same after a step.
LEMMA OwnerFactsNext ==
  ASSUME IInv', DataInv'
  PROVE  /\ Owner' = [k \in Blocks |-> Owner'[k]]
         /\ \A k \in Blocks : Owner'[k] \in Procs \cup {None}
         /\ \A k \in Blocks, p \in Procs :
              Owner'[k] = p <=> pc'[p] \in Owns /\ blockno'[buf'[p]] = k
<1>1. ASSUME NEW k \in Blocks, NEW p \in Procs, NEW q \in Procs,
             Holds(p, k)', Holds(q, k)'
      PROVE  p = q
  <2>1. /\ pc'[p] \in Holding /\ pc'[q] \in Holding
        /\ blockno'[buf'[p]] = k /\ blockno'[buf'[q]] = k
    BY <1>1, Zenon DEF Holds, Holding
  <2>2. buf'[p] \in Bufs /\ buf'[q] \in Bufs
    BY <2>1 DEF IInv, TypeOK, RefInv, Holding
  <2>3. buf'[p] = buf'[q]
    BY <2>1, <2>2 DEF DataInv
  <2> QED
    BY <2>1, <2>2, <2>3 DEF IInv, RefInv
<1>2. ASSUME NEW k \in Blocks
      PROVE  /\ Owner'[k] \in Procs \cup {None}
             /\ \A p \in Procs : Owner'[k] = p <=> Holds(p, k)'
  <2>1. CASE \E p \in Procs : Holds(p, k)'
    <3>1. Owner'[k] = CHOOSE p \in Procs : Holds(p, k)'
      BY <2>1, Zenon DEF Owner, Holds
    <3>2. PICK p \in Procs : Owner'[k] = p /\ Holds(p, k)'
      BY <2>1, <3>1, Zenon DEF Holds
    <3> QED
      BY <1>1, <3>2, Zenon
  <2>2. CASE ~\E p \in Procs : Holds(p, k)'
    BY <2>2, IdeAssumption, Zenon DEF Owner, Holds
  <2> QED
    BY <2>1, <2>2, Zenon
<1>3. Owner' = [k \in Blocks |-> Owner'[k]]
  BY Zenon DEF Owner
<1> QED
  BY <1>2, <1>3, Zenon DEF Holds, Owns

RInv == IInv /\ DataInv

\* The block and the contents of a process that has a block.
LEMMA OwnsFacts ==
  ASSUME RInv, NEW p \in Procs, pc[p] \in Owns
  PROVE  /\ buf[p] \in Bufs /\ blockno[buf[p]] \in Blocks
         /\ "VALID" \in flags[buf[p]]
         /\ Owner[blockno[buf[p]]] = p
<1>1. buf[p] \in Bufs /\ blockno[buf[p]] \in Blocks
  BY HolderFacts, Zenon DEF RInv, Owns, Holding
<1>2. "VALID" \in flags[buf[p]]
  BY <1>1 DEF RInv, IInv, FlagInv, QueueInv, Owns, Waits
<1> QED
  BY <1>1, <1>2, OwnerFacts DEF RInv

\* A block that nobody takes or gives back keeps its owner.
LEMMA OwnerSame ==
  ASSUME RInv, RInv', NEW k \in Blocks,
         \A p \in Procs : pc'[p] \in Owns /\ blockno'[buf'[p]] = k
                            <=> pc[p] \in Owns /\ blockno[buf[p]] = k
  PROVE  Owner'[k] = Owner[k]
<1>1. \A p \in Procs : Owner'[k] = p <=> Owner[k] = p
  BY OwnerFacts, OwnerFactsNext DEF RInv
<1> QED
  BY <1>1, OwnerFacts, OwnerFactsNext DEF RInv

\* A step that changes no value and no process's block is none of the store.
LEMMA StoreStutter ==
  ASSUME RInv, RInv', \A k \in Blocks : Value'[k] = Value[k],
         \A p \in Procs :
           /\ pc'[p] \in Owns <=> pc[p] \in Owns
           /\ pc[p] \in Owns => /\ blockno'[buf'[p]] = blockno[buf[p]]
                                /\ data'[buf'[p]] = data[buf[p]]
  PROVE  UNCHANGED B!vars
<1>1. Value' = Value
  BY ValueFacts, ValueFactsNext, Zenon DEF RInv
<1>2. \A k \in Blocks : Owner'[k] = Owner[k]
  BY OwnerSame, Zenon
<1>3. Owner' = Owner
  BY <1>2, OwnerFacts, OwnerFactsNext, Zenon DEF RInv
<1>4. View' = View
  BY Zenon DEF View, Owns
<1> QED
  BY <1>1, <1>3, <1>4, Zenon DEF B!vars

\* Values change only with the buffers and the disk.
LEMMA ValueFrame ==
  ASSUME UNCHANGED <<flags, blockno, data, disk>>
  PROVE  Value' = Value
BY Zenon DEF Value, Cached

\* A process gets a block.
LEMMA StoreTake ==
  ASSUME RInv, RInv', NEW p \in Procs, pc[p] \notin Owns, buf[p] \in Bufs,
         "VALID" \in flags[buf[p]], pc' = [pc EXCEPT ![p] = "held"],
         UNCHANGED <<flags, blockno, data, disk, buf>>
  PROVE  B!Next
<1>1. PICK k \in Blocks : k = blockno[buf[p]]
  BY Zenon DEF RInv, DataInv
<1>2. pc'[p] = "held" /\ \A q \in Procs \ {p} : pc'[q] = pc[q]
  BY Zenon DEF RInv, IInv, TypeOK
<1>3. Value' = Value /\ Value[k] = data[buf[p]]
  BY <1>1, ValueFrame, ValueFacts, Zenon DEF RInv
<1>4. Owner'[k] = p /\ \A j \in Blocks : Owner[j] # p
  BY <1>1, <1>2, OwnerFacts, OwnerFactsNext DEF RInv, Owns
<1>5. Owner[k] = None
  <2>1. ASSUME NEW q \in Procs, Owner[k] = q PROVE FALSE
    <3>1. q # p /\ pc[q] \in Owns /\ blockno[buf[q]] = k
      BY <1>4, <2>1, OwnerFacts, Zenon DEF RInv
    <3>2. Owner'[k] = q
      BY <1>2, <3>1, OwnerFactsNext DEF RInv
    <3> QED
      BY <1>4, <3>1, <3>2, Zenon
  <2> QED
    BY <2>1, OwnerFacts, Zenon DEF RInv
<1>6. \A j \in Blocks \ {k} : Owner'[j] = Owner[j]
  BY <1>1, <1>2, OwnerSame, Zenon
<1>7. Owner' = [Owner EXCEPT ![k] = p]
  BY <1>4, <1>6, OwnerFacts, OwnerFactsNext DEF RInv
<1>8. View' = [View EXCEPT ![p] = Value[k]]
  BY <1>2, <1>3, Zenon DEF View
<1>9. B!Take(p, k)
  BY <1>3, <1>4, <1>5, <1>7, <1>8, Zenon DEF B!Take
<1> QED
  BY <1>9, Zenon DEF B!Next

\* A process changes its block.
LEMMA StoreChange ==
  ASSUME RInv, RInv', NEW p \in Procs, pc[p] = "held", NEW v \in Values,
         data' = [data EXCEPT ![buf[p]] = v],
         flags' = [flags EXCEPT ![buf[p]] = @ \cup {"DIRTY"}],
         NEW l \in {"held", "write"}, pc' = [pc EXCEPT ![p] = l],
         UNCHANGED <<blockno, disk, buf>>
  PROVE  B!Next
<1>1. PICK b \in Bufs, k \in Blocks : b = buf[p] /\ k = blockno[b]
  BY OwnsFacts, Zenon DEF Owns
<1>2. pc'[p] \in Owns /\ \A q \in Procs \ {p} : pc'[q] = pc[q]
  BY Zenon DEF RInv, IInv, TypeOK, Owns
<1>3. /\ data'[b] = v /\ "VALID" \in flags'[b] /\ "VALID" \in flags[b]
      /\ \A c \in Bufs \ {b} : data'[c] = data[c] /\ flags'[c] = flags[c]
  BY <1>1, OwnsFacts DEF RInv, IInv, TypeOK, Owns
<1>4. Owner[k] = p
  BY <1>1, OwnsFacts, Zenon DEF Owns
<1>5. Owner' = Owner
  <2>1. \A j \in Blocks : Owner'[j] = Owner[j]
    BY <1>2, OwnerSame, Zenon DEF Owns
  <2> QED
    BY <2>1, OwnerFacts, OwnerFactsNext DEF RInv
<1>6. Value' = [Value EXCEPT ![k] = v]
  <2>1. Value'[k] = v
    BY <1>1, <1>3, ValueFactsNext DEF RInv
  <2>2. ASSUME NEW j \in Blocks \ {k} PROVE Value'[j] = Value[j]
    <3>1. CASE \E c \in Bufs : blockno[c] = j /\ "VALID" \in flags[c]
      <4>1. PICK c \in Bufs \ {b} : blockno[c] = j /\ "VALID" \in flags[c]
        BY <1>1, <3>1, Zenon
      <4> QED
        BY <1>3, <4>1, ValueFacts, ValueFactsNext DEF RInv
    <3>2. CASE \A c \in Bufs : blockno[c] = j => "VALID" \notin flags[c]
      <4>1. \A c \in Bufs : blockno'[c] = j => "VALID" \notin flags'[c]
        BY <1>1, <1>3, <3>2, Zenon
      <4> QED
        BY <3>2, <4>1, ValueFacts, ValueFactsNext, Zenon DEF RInv
    <3> QED
      BY <3>1, <3>2, Zenon
  <2> QED
    BY <2>1, <2>2, ValueFacts, ValueFactsNext DEF RInv
<1>7. View' = [View EXCEPT ![p] = v]
  <2>1. ASSUME NEW q \in Procs \ {p}, pc[q] \in Owns
        PROVE  data'[buf'[q]] = data[buf[q]]
    <3>1. buf[q] \in Bufs /\ buf[q] # b
      BY <1>1, <1>4, <2>1, OwnsFacts, Zenon
    <3> QED
      BY <1>3, <3>1, Zenon
  <2>2. \A q \in Procs \ {p} : View'[q] = View[q]
    BY <1>2, <2>1, Zenon DEF View, Owns
  <2>3. View'[p] = v
    BY <1>1, <1>2, <1>3, Zenon DEF View, Owns
  <2>4. View = [q \in Procs |-> View[q]] /\ View' = [q \in Procs |-> View'[q]]
    BY DEF View
  <2> QED
    BY <2>2, <2>3, <2>4, Zenon
<1>8. B!Change(p, k, v)
  BY <1>4, <1>5, <1>6, <1>7, Zenon DEF B!Change
<1> QED
  BY <1>8, Zenon DEF B!Next

\* A process gives its block back.
LEMMA StoreReturn ==
  ASSUME RInv, RInv', NEW p \in Procs, pc[p] = "held",
         pc' = [pc EXCEPT ![p] = "release"],
         UNCHANGED <<flags, blockno, data, disk, buf>>
  PROVE  B!Next
<1>1. PICK k \in Blocks : k = blockno[buf[p]] /\ Owner[k] = p
  BY OwnsFacts, Zenon DEF Owns
<1>2. pc'[p] = "release" /\ \A q \in Procs \ {p} : pc'[q] = pc[q]
  BY Zenon DEF RInv, IInv, TypeOK
<1>3. Value' = Value
  BY ValueFrame, Zenon
<1>4. Owner'[k] = None
  <2>1. ASSUME NEW q \in Procs, Owner'[k] = q PROVE FALSE
    <3>1. q # p /\ pc[q] \in Owns /\ blockno[buf[q]] = k
      BY <1>2, <2>1, OwnerFactsNext DEF RInv, Owns
    <3>2. Owner[k] = q
      BY <3>1, OwnerFacts, Zenon DEF RInv
    <3> QED
      BY <1>1, <3>1, <3>2, Zenon
  <2> QED
    BY <2>1, OwnerFactsNext, Zenon DEF RInv
<1>5. \A j \in Blocks \ {k} : Owner'[j] = Owner[j]
  BY <1>1, <1>2, OwnerSame DEF Owns
<1>6. Owner' = [Owner EXCEPT ![k] = None]
  BY <1>4, <1>5, OwnerFacts, OwnerFactsNext, Zenon DEF RInv
<1>7. View' = [View EXCEPT ![p] = None]
  BY <1>2, Zenon DEF View
<1>8. B!Return(p, k)
  BY <1>1, <1>3, <1>6, <1>7, Zenon DEF B!Return
<1> QED
  BY <1>8, Zenon DEF B!Next

\* bget() evicts a buffer that is clean, and that nobody uses.
LEMMA StoreRecycle ==
  ASSUME RInv, RInv', NEW p \in Procs, NEW k \in Blocks, BgetRecycle(p, k)
  PROVE  UNCHANGED B!vars
<1>1. PICK b \in Bufs : /\ refcnt[b] = 0 /\ "DIRTY" \notin flags[b]
                        /\ blockno' = [blockno EXCEPT ![b] = k]
                        /\ flags' = [flags EXCEPT ![b] = {}]
                        /\ pc[p] = "idle" /\ pc' = [pc EXCEPT ![p] = "lock"]
                        /\ buf' = [buf EXCEPT ![p] = b]
                        /\ \A c \in Bufs : blockno[c] # k
                        /\ UNCHANGED <<data, disk>>
  BY RecycleFacts, Zenon DEF BgetRecycle, Cached, RInv, IInv
<1>2. /\ blockno'[b] = k /\ flags'[b] = {}
      /\ \A c \in Bufs \ {b} : blockno'[c] = blockno[c] /\ flags'[c] = flags[c]
  BY <1>1, Zenon DEF RInv, IInv, TypeOK
<1>3. /\ pc'[p] = "lock"
      /\ \A q \in Procs \ {p} : pc'[q] = pc[q] /\ buf'[q] = buf[q]
  BY <1>1, Zenon DEF RInv, IInv, TypeOK
<1>4. \A q \in Procs : buf[q] # b
  <2>1. Cardinality(Users(b)) = 0
    BY <1>1, Zenon DEF RInv, IInv, RefInv
  <2>2. Users(b) = {}
    BY <2>1, UsersFacts, FS_EmptySet, Zenon DEF RInv, IInv
  <2> QED
    BY <2>2, Zenon DEF Users
<1>5. ASSUME NEW j \in Blocks PROVE Value'[j] = Value[j]
  <2>1. CASE \E c \in Bufs \ {b} : blockno[c] = j /\ "VALID" \in flags[c]
    <3>1. PICK c \in Bufs \ {b} : blockno[c] = j /\ "VALID" \in flags[c]
      BY <2>1, Zenon
    <3> QED
      BY <1>1, <1>2, <3>1, ValueFacts, ValueFactsNext DEF RInv
  <2>2. CASE \A c \in Bufs \ {b} : blockno[c] = j => "VALID" \notin flags[c]
    <3>1. \A c \in Bufs : blockno'[c] = j => "VALID" \notin flags'[c]
      BY <1>2, <2>2, Zenon
    <3>2. Value'[j] = disk[j]
      BY <1>1, <3>1, ValueFactsNext, Zenon DEF RInv
    <3>3. CASE blockno[b] = j /\ "VALID" \in flags[b]
      <4>1. flags[b] = {"VALID"}
        BY <1>1, <3>3 DEF RInv, IInv, TypeOK
      <4>2. Value[j] = data[b] /\ data[b] = disk[j]
        BY <3>3, <4>1, ValueFacts, Zenon DEF RInv, DataInv
      <4> QED
        BY <3>2, <4>2, Zenon
    <3>4. CASE ~(blockno[b] = j /\ "VALID" \in flags[b])
      <4>1. \A c \in Bufs : blockno[c] = j => "VALID" \notin flags[c]
        BY <2>2, <3>4, Zenon
      <4> QED
        BY <3>2, <4>1, ValueFacts, Zenon DEF RInv
    <3> QED
      BY <3>3, <3>4, Zenon
  <2> QED
    BY <2>1, <2>2, Zenon
<1>6. ASSUME NEW q \in Procs
      PROVE  /\ pc'[q] \in Owns <=> pc[q] \in Owns
             /\ pc[q] \in Owns => /\ blockno'[buf'[q]] = blockno[buf[q]]
                                  /\ data'[buf'[q]] = data[buf[q]]
  <2>1. pc[q] \in Owns => buf[q] \in Bufs \ {b} /\ q # p
    BY <1>1, <1>4, OwnsFacts, Zenon DEF Owns
  <2> QED
    BY <1>1, <1>2, <1>3, <2>1, Zenon DEF Owns
<1> QED
  BY <1>5, <1>6, StoreStutter, Zenon

\* The device writes the block of a dirty buffer to the disk.
LEMMA StoreDone ==
  ASSUME RInv, RInv', DeviceDone
  PROVE  UNCHANGED B!vars
<1> DEFINE b == idequeue[1]
<1>1. /\ device # "idle"
      /\ disk' = IF cmd.write THEN [disk EXCEPT ![cmd.block] = cmd.value]
                 ELSE disk
      /\ UNCHANGED <<flags, blockno, data, pc, buf>>
  BY Zenon DEF DeviceDone
<1>2. /\ b \in Bufs /\ cmd.block = blockno[b] /\ cmd.block \in Blocks
      /\ cmd.write => "VALID" \in flags[b]
  BY <1>1, CmdFacts, Zenon DEF RInv, IInv, FlagInv
<1>3. \A k \in Blocks : 
        disk'[k] # disk[k] => k = blockno[b] /\ "VALID" \in flags[b]
  BY <1>1, <1>2, Zenon DEF RInv, IInv, TypeOK
<1>4. ASSUME NEW k \in Blocks PROVE Value'[k] = Value[k]
  <2>1. CASE \E c \in Bufs : blockno[c] = k /\ "VALID" \in flags[c]
    BY <1>1, <2>1, ValueFacts, ValueFactsNext DEF RInv
  <2>2. CASE \A c \in Bufs : blockno[c] = k => "VALID" \notin flags[c]
    <3>1. disk'[k] = disk[k]
      BY <1>2, <1>3, <2>2, Zenon
    <3> QED
      BY <1>1, <2>2, <3>1, ValueFacts, ValueFactsNext, Zenon DEF RInv
  <2> QED
    BY <2>1, <2>2, Zenon
<1> QED
  BY <1>1, <1>4, StoreStutter, Zenon

\* ideintr() makes a buffer valid with what the disk has, or clean.
LEMMA StoreIntr ==
  ASSUME ReadErrors = FALSE, RInv, RInv', ideintr
  PROVE  UNCHANGED B!vars
<1>1. PICK b \in Bufs :
        /\ UNCHANGED <<blockno, disk>> /\ blockno[b] \in Blocks
        /\ "VALID" \in flags'[b] /\ data'[b] = disk[blockno[b]]
        /\ "VALID" \in flags[b] => data' = data
        /\ \A c \in Bufs \ {b} : flags'[c] = flags[c] /\ data'[c] = data[c]
  BY IntrData, Zenon DEF RInv
<1>2. UNCHANGED <<pc, buf>>
  BY Zenon DEF ideintr
<1>3. ASSUME NEW k \in Blocks PROVE Value'[k] = Value[k]
  <2>1. CASE k = blockno[b] /\ "VALID" \in flags[b]
    BY <1>1, <2>1, ValueFacts, ValueFactsNext DEF RInv
  <2>2. CASE k = blockno[b] /\ "VALID" \notin flags[b]
    <3>1. \A c \in Bufs : blockno[c] = k => "VALID" \notin flags[c]
      BY <2>2, Zenon DEF RInv, DataInv
    <3>2. Value[k] = disk[k]
      BY <3>1, ValueFacts, Zenon DEF RInv
    <3>3. Value'[k] = data'[b]
      BY <1>1, <2>2, ValueFactsNext, Zenon DEF RInv
    <3> QED
      BY <1>1, <2>2, <3>2, <3>3, Zenon
  <2>3. CASE k # blockno[b]
    <3>1. CASE \E c \in Bufs : blockno[c] = k /\ "VALID" \in flags[c]
      <4>1. PICK c \in Bufs \ {b} : blockno[c] = k /\ "VALID" \in flags[c]
        BY <2>3, <3>1, Zenon
      <4> QED
        BY <1>1, <4>1, ValueFacts, ValueFactsNext DEF RInv
    <3>2. CASE \A c \in Bufs : blockno[c] = k => "VALID" \notin flags[c]
      <4>1. \A c \in Bufs : blockno'[c] = k => "VALID" \notin flags'[c]
        BY <1>1, <2>3, <3>2, Zenon
      <4> QED
        BY <1>1, <3>2, <4>1, ValueFacts, ValueFactsNext, Zenon DEF RInv
    <3> QED
      BY <3>1, <3>2, Zenon
  <2> QED
    BY <2>1, <2>2, <2>3, Zenon
<1>4. \A q \in Procs : pc[q] \in Owns => data'[buf[q]] = data[buf[q]]
  BY <1>1, OwnsFacts, Zenon
<1> QED
  BY <1>1, <1>2, <1>3, <1>4, StoreStutter, Zenon

\* A process goes on outside of the states in which it has a block, or
\* inside of them.
LEMMA StoreMove ==
  ASSUME RInv, RInv', NEW p \in Procs, NEW l \in Pcs,
         l \in Owns <=> pc[p] \in Owns, pc' = [pc EXCEPT ![p] = l],
         \A q \in Procs : pc[q] \in Owns => buf'[q] = buf[q],
         UNCHANGED <<flags, blockno, data, disk>>
  PROVE  UNCHANGED B!vars
<1>1. pc'[p] = l /\ \A q \in Procs \ {p} : pc'[q] = pc[q]
  BY Zenon DEF RInv, IInv, TypeOK
<1>2. \A k \in Blocks : Value'[k] = Value[k]
  BY ValueFrame, Zenon
<1> QED
  BY <1>1, <1>2, StoreStutter, Zenon

\* Every step of the cache is a step of the store, or none of it.
LEMMA StoreStep ==
  ASSUME ReadErrors = FALSE, RInv, RInv', [Next]_vars
  PROVE  [B!Next]_B!vars
<1> DEFINE Goal == B!Next \/ UNCHANGED B!vars
<1> SUFFICES Goal
  BY Zenon
<1> HIDE DEF Goal
<1>1. ASSUME UNCHANGED <<flags, blockno, data, disk, pc, buf>> PROVE Goal
  <2>1. \A k \in Blocks : Value'[k] = Value[k]
    BY <1>1, ValueFrame, Zenon
  <2> QED
    BY <1>1, <2>1, StoreStutter, Zenon DEF Goal
<1>2. ASSUME NEW p \in Procs, NEW k \in Blocks, BgetCached(p, k) PROVE Goal
  <2>1. /\ pc[p] = "idle" /\ pc' = [pc EXCEPT ![p] = "lock"]
        /\ \A q \in Procs \ {p} : buf'[q] = buf[q]
        /\ UNCHANGED <<flags, blockno, data, disk>>
    BY <1>2, Zenon DEF BgetCached, ideVars, RInv, IInv, TypeOK
  <2>2. /\ "lock" \in Pcs /\ "lock" \notin Owns /\ pc[p] \notin Owns
        /\ \A q \in Procs : pc[q] \in Owns => buf'[q] = buf[q]
    BY <2>1, Zenon DEF Pcs, Owns
  <2> QED
    BY <2>1, <2>2, StoreMove, Zenon DEF Goal
<1>3. ASSUME NEW p \in Procs, NEW k \in Blocks, BgetRecycle(p, k) PROVE Goal
  BY <1>3, StoreRecycle, Zenon DEF Goal
<1>4. ASSUME NEW p \in Procs, acquiresleep(p) PROVE Goal
  <2>1. /\ pc[p] = "lock" /\ pc[p] \notin Owns
        /\ UNCHANGED <<flags, blockno, data, disk, buf>>
    BY <1>4, Zenon DEF acquiresleep, ideVars, Owns
  <2>2. CASE holder[buf[p]] # None
    BY <1>1, <1>4, <2>1, <2>2, Zenon DEF acquiresleep
  <2>3. CASE holder[buf[p]] = None /\ "VALID" \in flags[buf[p]]
    <3>1. pc' = [pc EXCEPT ![p] = "held"] /\ buf[p] \in Bufs
      BY <1>4, <2>1, <2>3 DEF acquiresleep, RInv, IInv, TypeOK, RefInv
    <3> QED
      BY <2>1, <2>3, <3>1, StoreTake, Zenon DEF Goal
  <2>4. CASE holder[buf[p]] = None /\ "VALID" \notin flags[buf[p]]
    <3>1. /\ pc' = [pc EXCEPT ![p] = "read"]
          /\ "read" \in Pcs
          /\ "read" \notin Owns
      BY <1>4, <2>4, Zenon DEF acquiresleep, Pcs, Owns
    <3> QED
      BY <2>1, <3>1, StoreMove, Zenon DEF Goal
  <2> QED
    BY <2>2, <2>3, <2>4, Zenon
<1>5. ASSUME NEW p \in Procs, iderw(p) PROVE Goal
  <2>1. /\ pc[p] \in {"read", "write"}
        /\ pc' = [pc EXCEPT ![p] = IF pc[p] = "read" THEN "read_wait"
                                   ELSE "write_wait"]
        /\ UNCHANGED <<flags, blockno, data, disk, buf>>
    BY <1>5, Zenon DEF iderw
  <2>2. PICK l \in Pcs : /\ pc' = [pc EXCEPT ![p] = l]
                         /\ l \in Owns <=> pc[p] \in Owns
    BY <2>1, Zenon DEF Pcs, Owns
  <2> QED
    BY <2>1, <2>2, StoreMove, Zenon DEF Goal
<1>6. ASSUME NEW p \in Procs, iderwTest(p) PROVE Goal
  <2>1. pc[p] \in Waits /\ UNCHANGED <<flags, blockno, data, disk, buf>>
    BY <1>6, Zenon DEF iderwTest, ideVars, Waits
  <2>2. CASE flags[buf[p]] # {"VALID"}
    BY <1>1, <1>6, <2>1, <2>2, Zenon DEF iderwTest
  <2>3. CASE flags[buf[p]] = {"VALID"} /\ pc[p] = "read_wait"
    <3>1. /\ pc' = [pc EXCEPT ![p] = "held"] /\ pc[p] \notin Owns
          /\ buf[p] \in Bufs /\ "VALID" \in flags[buf[p]]
      BY <1>6, <2>3, HolderFacts, Zenon DEF iderwTest, RInv, Owns, Holding
    <3> QED
      BY <2>1, <3>1, StoreTake, Zenon DEF Goal
  <2>4. CASE flags[buf[p]] = {"VALID"} /\ pc[p] = "write_wait"
    <3>1. /\ pc' = [pc EXCEPT ![p] = "held"] /\ "held" \in Pcs
          /\ "held" \in Owns /\ pc[p] \in Owns
      BY <1>6, <2>4, Zenon DEF iderwTest, Pcs, Owns
    <3> QED
      BY <2>1, <3>1, StoreMove, Zenon DEF Goal
  <2> QED
    BY <2>1, <2>2, <2>3, <2>4, Zenon DEF Waits
<1>7. ASSUME NEW p \in Procs, NEW v \in Values, bwrite(p, v) PROVE Goal
  <2>1. /\ pc[p] = "held" /\ "write" \in {"held", "write"}
        /\ data' = [data EXCEPT ![buf[p]] = v]
        /\ flags' = [flags EXCEPT ![buf[p]] = @ \cup {"DIRTY"}]
        /\ pc' = [pc EXCEPT ![p] = "write"]
        /\ UNCHANGED <<blockno, disk, buf>>
    BY <1>7, Zenon DEF bwrite
  <2> QED
    BY <2>1, StoreChange, Zenon DEF Goal
<1>8. ASSUME NEW p \in Procs, NEW v \in Values, log_write(p, v) PROVE Goal
  <2>1. /\ pc[p] = "held" /\ "held" \in {"held", "write"}
        /\ data' = [data EXCEPT ![buf[p]] = v]
        /\ flags' = [flags EXCEPT ![buf[p]] = @ \cup {"DIRTY"}]
        /\ pc' = [pc EXCEPT ![p] = "held"]
        /\ UNCHANGED <<blockno, disk, buf>>
    BY <1>8, Zenon DEF log_write, RInv, IInv, TypeOK
  <2> QED
    BY <2>1, StoreChange, Zenon DEF Goal
<1>9. ASSUME NEW p \in Procs, releasesleep(p) PROVE Goal
  BY <1>9, StoreReturn, Zenon DEF releasesleep, ideVars, Goal
<1>10. ASSUME NEW p \in Procs, brelse(p) PROVE Goal
  <2>1. /\ pc[p] = "release" /\ pc' = [pc EXCEPT ![p] = "idle"]
        /\ \A q \in Procs \ {p} : buf'[q] = buf[q]
        /\ UNCHANGED <<flags, blockno, data, disk>>
    BY <1>10, Zenon DEF brelse, ideVars, RInv, IInv, TypeOK
  <2>2. /\ "idle" \in Pcs /\ "idle" \notin Owns /\ pc[p] \notin Owns
        /\ \A q \in Procs : pc[q] \in Owns => buf'[q] = buf[q]
    BY <2>1, Zenon DEF Pcs, Owns
  <2> QED
    BY <2>1, <2>2, StoreMove, Zenon DEF Goal
<1>11. CASE DeviceDone
  BY <1>11, StoreDone, Zenon DEF Goal
<1>12. CASE ideintr
  BY <1>12, StoreIntr, Zenon DEF Goal
<1>13. ASSUME NEW p \in Procs, NEW k \in Blocks, BgetPanic(p, k) PROVE Goal
  BY <1>1, <1>13, Zenon DEF BgetPanic, ideVars
<1>14. CASE UNCHANGED vars
  BY <1>1, <1>14, Zenon DEF vars, ideVars
<1> QED
  BY <1>2, <1>3, <1>4, <1>5, <1>6, <1>7, <1>8, <1>9, <1>10, <1>11, <1>12,
     <1>13, <1>14 DEF Next

\* The initial states are initial states of the store.
LEMMA StoreInit ==
  ASSUME Init
  PROVE  B!Init
<1>1. /\ \A b \in Bufs : flags[b] = {} /\ disk \in [Blocks -> Values]
      /\ \A p \in Procs : pc[p] = "idle"
  BY Zenon DEF Init, IdeInit
<1>2. Value \in [Blocks -> Values]
  <2>1. \A k \in Blocks : ~\E b \in Cached(k) : "VALID" \in flags[b]
    BY <1>1, Zenon DEF Cached
  <2>2. disk \in [Blocks -> Values]
    BY Zenon DEF Init, IdeInit
  <2> QED
    BY <2>1, <2>2, Zenon DEF Value
<1>3. Owner = [k \in Blocks |-> None]
  BY <1>1, Zenon DEF Owner, Holds
<1>4. View = [p \in Procs |-> None]
  BY <1>1, Zenon DEF View
<1> QED
  BY <1>2, <1>3, <1>4, Zenon DEF B!Init

\* Without read errors of the device the buffer cache is a store of blocks:
\* a process that has a block has it alone, and finds in it what was last
\* stored there, through any sequence of bget(), evictions, pinned buffers,
\* and requests that the driver has queued.
THEOREM CacheStoresBlocks ==
  ASSUME ReadErrors = FALSE
  PROVE  Spec => StoresBlocks
<1>1. Init => RInv
  BY InitInv, DataInit, Zenon DEF RInv
<1>2. RInv /\ [Next]_vars => RInv'
  BY NextInv, DataNext, Zenon DEF RInv
<1>3. Init => B!Init
  BY StoreInit, Zenon
<1>4. RInv /\ RInv' /\ [Next]_vars => [B!Next]_B!vars
  BY StoreStep, Zenon
<1> QED
  BY <1>1, <1>2, <1>3, <1>4, PTL DEF Spec, StoresBlocks, B!Spec

=============================================================================
