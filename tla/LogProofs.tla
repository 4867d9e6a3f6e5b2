----------------------------- MODULE LogProofs -----------------------------
(***************************************************************************)
(* Proofs about Log, for every number of processes, blocks and values and   *)
(* every size of the log.                                                   *)
(***************************************************************************)
EXTENDS Log, FiniteSetTheorems, TLAPS

Distinct(s) == \A i, j \in DOMAIN s : s[i] = s[j] => i = j

\* Processes between begin_op and end_op.
Ops == {p \in Procs : pc[p] \in {"op", "log_write"}}

\* The log slots that begin_op reserved and that no append has used up yet.
Credits ==
  {c \in Ops \X (1..MAXOPBLOCKS) :
     \/ c[2] > Cardinality(wrote[c[1]])
     \/ /\ c[2] = Cardinality(wrote[c[1]])
        /\ ~(held[c[1]] \subseteq Logged(lh))}

\* Which operations run, and what each of them holds and has logged.
OpsInv ==
  /\ outstanding = Cardinality(Ops)
  /\ \A p \in Procs :
       /\ IsFiniteSet(wrote[p])
       /\ pc[p] # "log_write" => held[p] = {}
       /\ pc[p] = "log_write" => \E b \in Blocks : held[p] = {b}
       /\ p \notin Ops => wrote[p] = {}
       /\ held[p] \subseteq wrote[p]
       /\ wrote[p] \ held[p] \subseteq Logged(lh)
       /\ Cardinality(wrote[p]) <= OPBLOCKS
  /\ \A p, q \in Procs : p # q => held[p] \cap held[q] = {}

\* begin_op's test keeps room for every block that running operations may add.
SpaceInv == Len(lh) + Cardinality(Credits) <= LOGSIZE

\* The phase of commit or recovery, and the two headers in it.
PhaseInv ==
  /\ phase \in {"write_log", "write_head", "done"} => committing
  /\ phase \in {"idle", "read_head"} => ~committing
  /\ phase # "idle" => Ops = {}
  /\ phase \in {"idle", "write_log", "write_head", "done"} => head = <<>>
  /\ phase \in {"install", "clear"} => head = lh
  /\ phase \in {"done", "read_head"} => lh = <<>>
  /\ phase = "idle" /\ Ops = {} => lh = <<>>
  /\ phase \in {"write_log", "install"} => tail < Len(lh)
  /\ phase = "write_head" => Len(lh) > 0

\* What the log, the cache and the disk hold for the blocks being committed.
DataInv ==
  /\ phase = "write_log" => \A i \in 1..tail : logblk[i] = cache[lh[i]]
  /\ phase = "write_head" => \A i \in DOMAIN lh : logblk[i] = cache[lh[i]]
  /\ phase = "install" =>
       /\ \A i \in 1..tail : disk[lh[i]] = logblk[i]
       /\ committing => \A i \in DOMAIN lh : cache[lh[i]] = logblk[i]
  /\ phase = "clear" => \A i \in DOMAIN lh : disk[lh[i]] = logblk[i]

\* Which blocks are pinned; all others agree with the disk.
CacheInv ==
  /\ Recovering => cache = disk /\ dirty = {}
  /\ phase \in {"idle", "write_log", "write_head"} => dirty = Logged(lh)
  /\ phase = "install" /\ committing =>
       dirty = {lh[i] : i \in (tail + 1)..Len(lh)}
  /\ phase \in {"clear", "done"} => dirty = {}
  /\ CleanMatchesDisk

\* The inductive invariant.
IInv ==
  /\ TypeOK
  /\ Distinct(lh) /\ Distinct(head)
  /\ OpsInv
  /\ SpaceInv
  /\ PhaseInv
  /\ DataInv
  /\ CacheInv

-----------------------------------------------------------------------------
\* Appending a block adds it to the set of logged blocks.
LEMMA LoggedAppend ==
  ASSUME NEW s \in Seq(Blocks), NEW b \in Blocks
  PROVE  Logged(Append(s, b)) = Logged(s) \cup {b}
<1>1. DOMAIN Append(s, b) = DOMAIN s \cup {Len(s) + 1}
  OBVIOUS
<1>2. \A i \in DOMAIN s : Append(s, b)[i] = s[i]
  OBVIOUS
<1>3. Append(s, b)[Len(s) + 1] = b
  OBVIOUS
<1> QED
  BY <1>1, <1>2, <1>3, Zenon DEF Logged

\* An empty header logs nothing.
LEMMA LoggedEmpty == Logged(<<>>) = {}
BY DEF Logged

\* Appending a block that is not logged yet keeps the slots distinct.
LEMMA DistinctAppend ==
  ASSUME NEW s \in Seq(Blocks), NEW b \in Blocks, Distinct(s), b \notin Logged(s)
  PROVE  Distinct(Append(s, b))
BY DEF Distinct, Logged

\* Reservations of a finite set of operations number at most MAXOPBLOCKS each.
LEMMA CreditsBound ==
  ASSUME NEW O \in SUBSET Procs, NEW C \in SUBSET (O \X (1..MAXOPBLOCKS))
  PROVE  /\ IsFiniteSet(O)
         /\ IsFiniteSet(C)
         /\ Cardinality(C) \in Nat
         /\ Cardinality(O) \in Nat
         /\ Cardinality(C) <= Cardinality(O) * MAXOPBLOCKS
<1>1. IsFiniteSet(O) /\ Cardinality(O) \in Nat
  BY FS_Subset, FS_CardinalityType, LogAssumption, Zenon
<1>2. IsFiniteSet(1..MAXOPBLOCKS) /\ Cardinality(1..MAXOPBLOCKS) = MAXOPBLOCKS
  BY FS_Interval, LogAssumption
<1>3. /\ IsFiniteSet(O \X (1..MAXOPBLOCKS))
      /\ Cardinality(O \X (1..MAXOPBLOCKS)) = Cardinality(O) * MAXOPBLOCKS
  BY <1>1, <1>2, FS_Product, Zenon
<1> QED
  BY <1>1, <1>3, FS_Subset, FS_CardinalityType, Zenon

\* initlog() establishes the invariant.
LEMMA InitInv == Init => IInv
<1> SUFFICES ASSUME Init PROVE IInv
  BY Zenon
<1>1. TypeOK
  <2>1. committing \in BOOLEAN
    BY Zenon DEF Init
  <2>2. logblk \in [1..LOGSIZE -> Vals]
    BY Zenon DEF Init
  <2>3. head \in Seq(Blocks) /\ Len(head) <= LOGSIZE
    BY LogAssumption DEF Init
  <2>4. lh \in Seq(Blocks) /\ Len(lh) <= LOGSIZE
    BY LogAssumption DEF Init
  <2>5. tail \in 0..LOGSIZE
    BY LogAssumption DEF Init
  <2> QED
    BY <2>1, <2>2, <2>3, <2>4, <2>5, Zenon DEF Init, TypeOK, Pcs, Phases
<1>2. Ops = {} /\ Credits = {}
  BY Zenon DEF Init, Ops, Credits
<1>3. OpsInv
  BY <1>2, FS_EmptySet, LoggedEmpty, LogAssumption DEF Init, OpsInv
<1>4. SpaceInv
  BY <1>2, FS_EmptySet, LogAssumption DEF Init, SpaceInv
<1>5. PhaseInv /\ DataInv /\ CacheInv
  BY <1>2, Zenon
     DEF Init, PhaseInv, DataInv, CacheInv, CleanMatchesDisk, Recovering
<1>6. Distinct(lh) /\ Distinct(head)
  BY DEF Init, Distinct
<1> QED
  BY <1>1, <1>3, <1>4, <1>5, <1>6, Zenon DEF IInv

-----------------------------------------------------------------------------
\* The steps of commit and recovery find no operation running and start none.
LEMMA NoOpsStep ==
  ASSUME IInv, phase # "idle", UNCHANGED opVars,
         lh' \in Seq(Blocks), Len(lh') <= LOGSIZE
  PROVE  Ops' = {} /\ OpsInv' /\ SpaceInv'
<1>1. Ops = {} /\ Ops' = {}
  BY Zenon DEF IInv, PhaseInv, Ops, opVars
<1>2. OpsInv'
  BY <1>1, Zenon DEF IInv, OpsInv, opVars
<1>3. Credits' = {}
  BY <1>1, Zenon DEF Credits
<1>4. SpaceInv'
  BY <1>3, FS_EmptySet DEF SpaceInv
<1> QED
  BY <1>1, <1>2, <1>4, Zenon

\* write_log() preserves it: one more log block equals the cache.
LEMMA WriteLogStep == IInv /\ WriteLog => IInv'
<1> SUFFICES ASSUME IInv, WriteLog PROVE IInv'
  BY Zenon
<1> USE DEF IInv, WriteLog
<1>1. tail < Len(lh) /\ tail \in Nat /\ Len(lh) \in Nat /\ tail + 1 \in 1..LOGSIZE
  BY LogAssumption DEF PhaseInv, TypeOK
<1>2. lh[tail + 1] \in Blocks
  BY <1>1 DEF TypeOK
<1>3. TypeOK'
  BY <1>1, <1>2, LogAssumption DEF TypeOK, opVars, Phases
<1>4. Ops' = {} /\ OpsInv' /\ SpaceInv'
  BY NoOpsStep, Zenon DEF TypeOK
<1>5. PhaseInv'
  BY <1>1, <1>4 DEF PhaseInv
<1>6. DataInv'
  <2>1. \A i \in 1..(tail + 1) : logblk'[i] = cache[lh[i]]
    BY <1>1 DEF DataInv, TypeOK
  <2>2. tail + 1 = Len(lh) => DOMAIN lh = 1..(tail + 1)
    BY <1>1 DEF TypeOK
  <2> QED
    BY <2>1, <2>2 DEF DataInv, TypeOK
<1>7. CacheInv'
  BY Zenon DEF CacheInv, CleanMatchesDisk, Recovering, opVars, PhaseInv
<1> QED
  BY <1>3, <1>4, <1>5, <1>6, <1>7, Zenon DEF Distinct

\* write_head(), the commit point, preserves it: the log is complete.
LEMMA WriteHeadStep == IInv /\ WriteHead => IInv'
<1> SUFFICES ASSUME IInv, WriteHead PROVE IInv'
  BY Zenon
<1> USE DEF IInv, WriteHead
<1>2. dirty = {lh[i] : i \in 1..Len(lh)}
  <2>1. DOMAIN lh = 1..Len(lh)
    BY DEF TypeOK
  <2> QED
    BY <2>1, Zenon DEF CacheInv, Logged
<1>3. TypeOK'
  BY LogAssumption DEF TypeOK, opVars, Phases
<1>4. Ops' = {} /\ OpsInv' /\ SpaceInv'
  BY NoOpsStep, Zenon DEF TypeOK
<1>5. PhaseInv'
  BY <1>4, Zenon DEF PhaseInv
<1>6. DataInv'
  BY DEF DataInv, TypeOK
<1>7. CacheInv'
  BY <1>2 DEF CacheInv, CleanMatchesDisk, Recovering, opVars, PhaseInv, TypeOK
<1> QED
  BY <1>3, <1>4, <1>5, <1>6, <1>7, Zenon DEF Distinct

\* install_trans() preserves it: one more home block equals its log block.
LEMMA InstallTransStep == IInv /\ InstallTrans => IInv'
<1> SUFFICES ASSUME IInv, InstallTrans PROVE IInv'
  BY Zenon
<1> USE DEF IInv, InstallTrans
<1>1. /\ tail < Len(lh) /\ tail \in Nat /\ Len(lh) \in Nat
      /\ tail + 1 \in 1..LOGSIZE
  BY LogAssumption DEF PhaseInv, TypeOK
<1>2. lh[tail + 1] \in Blocks /\ logblk[tail + 1] \in Vals
  BY <1>1 DEF TypeOK
<1>3. TypeOK'
  BY <1>1, <1>2, LogAssumption DEF TypeOK, opVars, Phases
<1>4. Ops' = {} /\ OpsInv' /\ SpaceInv'
  BY NoOpsStep, Zenon DEF TypeOK
<1>5. PhaseInv'
  BY <1>1, <1>4 DEF PhaseInv
<1>6. DataInv'
  <2>1. \A i \in 1..(tail + 1) : disk'[lh[i]] = logblk[i]
    BY <1>1, <1>2 DEF DataInv, TypeOK, Distinct
  <2>2. committing => \A i \in DOMAIN lh : cache'[lh[i]] = logblk[i]
    BY <1>1, <1>2 DEF DataInv, TypeOK, Distinct
  <2> QED
    BY <1>1, <2>1, <2>2 DEF DataInv
<1>7. CacheInv'
  <2>1. CleanMatchesDisk'
    BY <1>2, Zenon DEF CacheInv, CleanMatchesDisk, TypeOK, opVars
  <2>2. Recovering' => cache' = disk' /\ dirty' = {}
    BY Zenon DEF CacheInv, Recovering
  <2>3. committing => dirty' = {lh[i] : i \in (tail + 2)..Len(lh)}
    <3> SUFFICES ASSUME committing
                 PROVE  dirty' = {lh[i] : i \in (tail + 2)..Len(lh)}
      BY Zenon
    <3>1. dirty = {lh[i] : i \in (tail + 1)..Len(lh)}
      BY Zenon DEF CacheInv
    <3>2. \A i \in (tail + 1)..Len(lh) : lh[i] = lh[tail + 1] <=> i = tail + 1
      BY <1>1 DEF Distinct
    <3>3. \A i : i \in (tail + 2)..Len(lh) <=>
                 i \in (tail + 1)..Len(lh) /\ i # tail + 1
      BY <1>1
    <3> QED
      BY <3>1, <3>2, <3>3, Zenon
  <2>4. tail + 1 = Len(lh) => dirty' = {}
    <3>1. tail + 1 = Len(lh) => (tail + 2)..Len(lh) = {}
      BY <1>1
    <3> QED
      BY <3>1, <2>2, <2>3, Zenon DEF Recovering
  <2>5. tail' + 1 = tail + 2
    BY <1>1
  <2> QED
    BY <2>1, <2>2, <2>3, <2>4, <2>5 DEF CacheInv
<1> QED
  BY <1>3, <1>4, <1>5, <1>6, <1>7, Zenon DEF Distinct

\* Clearing the header preserves it: every block has been installed.
LEMMA ClearHeadStep == IInv /\ ClearHead => IInv'
<1> SUFFICES ASSUME IInv, ClearHead PROVE IInv'
  BY Zenon
<1> USE DEF IInv, ClearHead
<1>1. lh' \in Seq(Blocks) /\ Len(lh') = 0 /\ Len(lh') <= LOGSIZE
  BY LogAssumption
<1>3. TypeOK'
  <2>1. tail' \in 0..LOGSIZE
    BY LogAssumption
  <2> QED
    BY <1>1, <2>1, Zenon DEF TypeOK, opVars, Phases
<1>4. Ops' = {} /\ OpsInv' /\ SpaceInv'
  BY <1>1, NoOpsStep, Zenon
<1>5. PhaseInv'
  BY <1>4, Zenon DEF PhaseInv
<1>6. DataInv'
  BY Zenon DEF DataInv
<1>7. CacheInv'
  BY LoggedEmpty, Zenon DEF CacheInv, CleanMatchesDisk, Recovering, opVars, PhaseInv
<1>8. Distinct(lh') /\ Distinct(head')
  BY DEF Distinct
<1> QED
  BY <1>3, <1>4, <1>5, <1>6, <1>7, <1>8, Zenon

\* read_head() in recovery preserves it.
LEMMA ReadHeadStep == IInv /\ ReadHead => IInv'
<1> SUFFICES ASSUME IInv, ReadHead PROVE IInv'
  BY Zenon
<1> USE DEF IInv, ReadHead
<1>3. TypeOK'
  <2>1. tail' \in 0..LOGSIZE
    BY LogAssumption
  <2> QED
    BY <2>1, Zenon DEF TypeOK, opVars, diskVars, Phases
<1>4. Ops' = {} /\ OpsInv' /\ SpaceInv'
  BY NoOpsStep, Zenon DEF TypeOK
<1>5. PhaseInv'
  <2>1. head # <<>> => 0 < Len(head)
    BY DEF TypeOK
  <2> QED
    BY <1>4, <2>1, Zenon DEF PhaseInv, diskVars
<1>6. DataInv'
  BY DEF DataInv, PhaseInv
<1>7. CacheInv'
  BY Zenon
     DEF CacheInv, CleanMatchesDisk, Recovering, opVars, diskVars, PhaseInv
<1> QED
  BY <1>3, <1>4, <1>5, <1>6, <1>7, Zenon DEF Distinct, diskVars

\* A crash preserves it: what the invariant says of the disk survives.
LEMMA CrashStep == IInv /\ Crash => IInv'
<1> SUFFICES ASSUME IInv, Crash PROVE IInv'
  BY Zenon
<1> USE DEF IInv, Crash
<1>1. lh' \in Seq(Blocks) /\ Len(lh') = 0 /\ Len(lh') <= LOGSIZE
  BY LogAssumption
<1>2. Ops' = {} /\ Credits' = {}
  BY Zenon DEF Ops, Credits
<1>3. TypeOK'
  <2>1. tail' \in 0..LOGSIZE
    BY LogAssumption
  <2>2. committing' \in BOOLEAN
    BY Zenon
  <2> QED
    BY <1>1, <2>1, <2>2, Zenon DEF TypeOK, diskVars, Phases, Pcs
<1>4. OpsInv'
  BY <1>2, FS_EmptySet, LogAssumption DEF OpsInv
<1>5. SpaceInv'
  BY <1>1, <1>2, FS_EmptySet, LogAssumption DEF SpaceInv
<1>6. PhaseInv' /\ DataInv' /\ CacheInv'
  BY <1>2, Zenon
     DEF PhaseInv, DataInv, CacheInv, CleanMatchesDisk, Recovering, diskVars
<1>7. Distinct(lh') /\ Distinct(head')
  BY DEF Distinct, diskVars
<1> QED
  BY <1>3, <1>4, <1>5, <1>6, <1>7, Zenon

-----------------------------------------------------------------------------
\* begin_op() preserves it.
LEMMA BeginOpStep ==
  ASSUME IInv, NEW p \in Procs, BeginOp(p)
  PROVE  IInv'
<1> USE DEF IInv, BeginOp
<1>1. phase = "idle" /\ phase' = "idle"
  BY Zenon DEF Recovering
<1>2. Ops' = Ops \cup {p} /\ p \notin Ops /\ Ops \in SUBSET Procs
  BY Zenon DEF Ops, TypeOK
<1>3. IsFiniteSet(Ops) /\ Cardinality(Ops') = outstanding'
  BY <1>2, CreditsBound, FS_Subset, FS_AddElement, LogAssumption, Zenon
     DEF OpsInv
<1>4. TypeOK'
  BY DEF TypeOK, diskVars, Pcs
<1>5. OpsInv'
  BY <1>2, <1>3, Zenon DEF OpsInv, TypeOK
<1>6. SpaceInv'
  <2>1. Credits' \in SUBSET (Ops' \X (1..MAXOPBLOCKS)) /\ Ops' \in SUBSET Procs
    BY <1>2, Zenon DEF Credits
  <2>2. Cardinality(Credits') \in Nat /\ Cardinality(Credits') <= outstanding' * MAXOPBLOCKS
    BY <2>1, <1>3, CreditsBound, Zenon
  <2>3. Len(lh) \in Nat /\ outstanding' * MAXOPBLOCKS \in Nat
    BY LogAssumption DEF TypeOK
  <2>4. Len(lh) + outstanding' * MAXOPBLOCKS <= LOGSIZE
    BY <2>3, LogAssumption DEF NoSpace, TypeOK
  <2> QED
    BY <2>2, <2>3, <2>4, LogAssumption DEF SpaceInv
<1>7. PhaseInv'
  BY <1>1, <1>2, Zenon DEF PhaseInv, diskVars
<1>8. DataInv' /\ CacheInv'
  BY <1>1, Zenon DEF DataInv, CacheInv, CleanMatchesDisk, Recovering, diskVars
<1> QED
  BY <1>4, <1>5, <1>6, <1>7, <1>8, Zenon DEF Distinct, diskVars

\* begin_op() that has to sleep preserves it.
LEMMA BeginOpSleepStep ==
  ASSUME IInv, NEW p \in Procs, BeginOpSleep(p)
  PROVE  IInv'
<1> USE DEF IInv, BeginOpSleep
<1>1. Ops' = Ops
  BY Zenon DEF Ops, TypeOK
<1>2. Credits' = Credits
  BY <1>1, Zenon DEF Credits
<1>3. TypeOK'
  BY Zenon DEF TypeOK, diskVars, Pcs
<1>4. OpsInv'
  BY <1>1, Zenon DEF OpsInv, TypeOK
<1>5. SpaceInv'
  BY <1>2, Zenon DEF SpaceInv
<1>6. PhaseInv' /\ DataInv' /\ CacheInv'
  BY <1>1 DEF PhaseInv, DataInv, CacheInv, CleanMatchesDisk, Recovering, diskVars
<1> QED
  BY <1>3, <1>4, <1>5, <1>6, Zenon DEF Distinct, diskVars

\* The end of a commit preserves it.
LEMMA EndCommitStep ==
  ASSUME IInv, NEW p \in Procs, EndCommit(p)
  PROVE  IInv'
<1> USE DEF IInv, EndCommit
<1>1. Ops' = Ops
  BY Zenon DEF Ops, TypeOK, WakeAll
<1>2. Credits' = Credits
  BY <1>1, Zenon DEF Credits
<1>3. TypeOK'
  <2>1. committing' \in BOOLEAN
    BY Zenon
  <2> QED
    BY <2>1, Zenon DEF TypeOK, diskVars, Pcs, Phases, WakeAll
<1>4. OpsInv'
  BY <1>1, Zenon DEF OpsInv, TypeOK, WakeAll
<1>5. SpaceInv'
  BY <1>2, Zenon DEF SpaceInv
<1>6. PhaseInv' /\ DataInv' /\ CacheInv'
  BY <1>1, LoggedEmpty, Zenon
  DEF PhaseInv, DataInv, CacheInv, CleanMatchesDisk, Recovering, diskVars
<1> QED
  BY <1>3, <1>4, <1>5, <1>6, Zenon DEF Distinct, diskVars

\* end_op() that leaves operations running preserves it.
LEMMA EndOpStep ==
  ASSUME IInv, NEW p \in Procs, EndOp(p)
  PROVE  IInv'
<1> USE DEF IInv, EndOp
<1>1. phase = "idle" /\ phase' = "idle"
  BY Zenon DEF PhaseInv, Ops
<1>2. Ops' = Ops \ {p} /\ p \in Ops /\ Ops \in SUBSET Procs
  BY Zenon DEF Ops, TypeOK, WakeAll
<1>3. IsFiniteSet(Ops) /\ Cardinality(Ops') = outstanding'
  BY <1>2, FS_Subset, FS_RemoveElement, LogAssumption, Zenon DEF OpsInv
<1>4. TypeOK'
  BY DEF TypeOK, diskVars, Pcs, WakeAll
<1>5. OpsInv'
  <2>1. IsFiniteSet({}) /\ Cardinality({}) = 0
    BY FS_EmptySet, Zenon
  <2> QED
    BY <1>2, <1>3, <2>1, LogAssumption DEF OpsInv, TypeOK, WakeAll
<1>6. SpaceInv'
  <2>1. Credits' \subseteq Credits
    BY <1>2, Zenon DEF Credits, TypeOK
  <2>2. IsFiniteSet(Credits) /\ Cardinality(Credits) \in Nat
    BY <1>2, CreditsBound, Zenon DEF Credits
  <2>3. Cardinality(Credits') <= Cardinality(Credits) /\ Cardinality(Credits') \in Nat
    BY <2>1, <2>2, FS_Subset, FS_CardinalityType, Zenon
  <2> QED
    BY <2>2, <2>3, LogAssumption DEF SpaceInv, TypeOK
<1>7. PhaseInv'
  <2>1. outstanding' # 0
    BY DEF TypeOK
  <2>2. Ops' # {}
    BY <1>3, <2>1, FS_EmptySet, Zenon
  <2> QED
    BY <1>1, <2>2, Zenon DEF PhaseInv, diskVars
<1>8. DataInv' /\ CacheInv'
  BY <1>1, Zenon DEF DataInv, CacheInv, CleanMatchesDisk, Recovering, diskVars
<1> QED
  BY <1>4, <1>5, <1>6, <1>7, <1>8, Zenon DEF Distinct, diskVars

\* The end_op() that starts a commit preserves it: nobody else is in progress.
LEMMA EndOpLastStep ==
  ASSUME IInv, NEW p \in Procs, EndOpLast(p)
  PROVE  IInv'
<1> USE DEF IInv, EndOpLast
<1>1. phase = "idle" /\ phase' \in {"done", "write_log"} /\ committing'
  BY Zenon DEF PhaseInv, Ops
<1>2. Ops' = Ops \ {p} /\ p \in Ops /\ Ops \in SUBSET Procs
  BY Zenon DEF Ops, TypeOK
<1>3. IsFiniteSet(Ops') /\ Cardinality(Ops') = 0
  <2>1. IsFiniteSet(Ops) /\ Cardinality(Ops) = 1
    BY <1>2, FS_Subset, LogAssumption, Zenon DEF OpsInv
  <2>2. IsFiniteSet(Ops \ {p}) /\ Cardinality(Ops \ {p}) = 1 - 1
    BY <1>2, <2>1, FS_RemoveElement, Zenon
  <2> QED
    BY <1>2, <2>2
<1>4. Ops' = {} /\ Credits' = {}
  BY <1>3, FS_EmptySet, Zenon DEF Credits
<1>5. TypeOK'
  <2>1. committing' \in BOOLEAN /\ tail' \in 0..LOGSIZE
    BY LogAssumption
  <2> QED
    BY <2>1, <1>1, Zenon DEF TypeOK, diskVars, Pcs, Phases
<1>6. OpsInv'
  <2>1. IsFiniteSet({}) /\ Cardinality({}) = 0
    BY FS_EmptySet, Zenon
  <2>2. \A q \in Procs : pc'[q] # "log_write" /\ held'[q] = {} /\ wrote'[q] = {}
    <3>1. \A q \in Procs : q # p => q \notin Ops
      BY <1>2, <1>4, Zenon
    <3> QED
      BY <3>1, Zenon DEF OpsInv, TypeOK, Ops
  <2> QED
    BY <1>4, <2>1, <2>2, LogAssumption DEF OpsInv
<1>7. SpaceInv'
  BY <1>4, FS_EmptySet DEF SpaceInv, TypeOK
<1>8. PhaseInv'
  <2>1. lh # <<>> => 0 < Len(lh)
    BY DEF TypeOK
  <2> QED
    BY <1>1, <1>4, <2>1, Zenon DEF PhaseInv, diskVars
<1>9. DataInv'
  BY <1>1 DEF DataInv, diskVars
<1>10. CacheInv'
  <2>1. lh = <<>> => dirty = {}
    BY <1>1, LoggedEmpty, Zenon DEF CacheInv
  <2> QED
    BY <1>1, <2>1, Zenon DEF CacheInv, CleanMatchesDisk, Recovering, diskVars
<1> QED
  BY <1>5, <1>6, <1>7, <1>8, <1>9, <1>10, Zenon DEF Distinct, diskVars

\* The unlocked part of log_write() reserves nothing new.
LEMMA LogWriteCredits ==
  ASSUME IInv, NEW p \in Procs, NEW b \in Blocks, NEW v \in Vals,
         LogWrite(p, b, v)
  PROVE  Credits' \subseteq Credits
<1> USE DEF IInv, LogWrite
<1>1. Ops' = Ops /\ Ops \in SUBSET Procs /\ held[p] = {}
  BY Zenon DEF Ops, TypeOK, OpsInv
<1>2. /\ Cardinality(wrote[p]) \in Nat
      /\ Cardinality(wrote[p] \cup {b}) =
           IF b \in wrote[p] THEN Cardinality(wrote[p])
                             ELSE Cardinality(wrote[p]) + 1
  BY FS_AddElement, FS_CardinalityType, Zenon DEF OpsInv
<1> SUFFICES ASSUME NEW c \in Credits' PROVE c \in Credits
  BY Zenon
<1>3. c[1] \in Ops /\ c[2] \in 1..MAXOPBLOCKS /\ c \in Ops \X (1..MAXOPBLOCKS)
  BY <1>1, Zenon DEF Credits
<1>4. CASE c[1] # p
  BY <1>1, <1>3, <1>4, Zenon DEF Credits, TypeOK
<1>5. CASE c[1] = p /\ b \in wrote[p]
  <2>1. b \in Logged(lh)
    BY <1>1, <1>5, Zenon DEF OpsInv
  <2> QED
    BY <1>2, <1>3, <1>5, <2>1, Zenon DEF Credits, TypeOK
<1>6. CASE c[1] = p /\ b \notin wrote[p]
  <2>1. c[2] >= Cardinality(wrote[p]) + 1
    BY <1>2, <1>3, <1>6 DEF Credits, TypeOK
  <2> QED
    BY <1>2, <1>3, <1>6, <2>1 DEF Credits
<1> QED
  BY <1>4, <1>5, <1>6, Zenon

\* The unlocked part of log_write() preserves it.
LEMMA LogWriteStep ==
  ASSUME IInv, NEW p \in Procs, NEW b \in Blocks, NEW v \in Vals,
         LogWrite(p, b, v)
  PROVE  IInv'
<1> USE DEF IInv, LogWrite
<1>1. phase = "idle" /\ phase' = "idle" /\ held[p] = {}
  BY Zenon DEF PhaseInv, Ops, OpsInv
<1>2. Ops' = Ops /\ p \in Ops /\ Ops \in SUBSET Procs
  BY Zenon DEF Ops, TypeOK
<1>3. /\ IsFiniteSet(wrote[p]) /\ IsFiniteSet(wrote[p] \cup {b})
      /\ Cardinality(wrote[p]) \in Nat
      /\ Cardinality(wrote[p] \cup {b}) =
           IF b \in wrote[p] THEN Cardinality(wrote[p])
                             ELSE Cardinality(wrote[p]) + 1
  BY FS_AddElement, FS_CardinalityType, Zenon DEF OpsInv
<1>4. TypeOK'
  BY Zenon DEF TypeOK, diskVars, Pcs
<1>5. OpsInv'
  <2>1. wrote[p] \subseteq Logged(lh)
    BY <1>1, Zenon DEF OpsInv
  <2>2. \A q \in Procs :
          /\ IsFiniteSet(wrote'[q])
          /\ Cardinality(wrote'[q]) <= OPBLOCKS
    BY <1>3, Zenon DEF OpsInv, TypeOK
  <2>3. \A q \in Procs :
          /\ pc'[q] # "log_write" => held'[q] = {}
          /\ pc'[q] = "log_write" => \E c \in Blocks : held'[q] = {c}
    BY Zenon DEF OpsInv, TypeOK
  <2>4. \A q \in Procs :
          /\ q \notin Ops' => wrote'[q] = {}
          /\ held'[q] \subseteq wrote'[q]
          /\ wrote'[q] \ held'[q] \subseteq Logged(lh)
    BY <1>2, <2>1, Zenon DEF OpsInv, TypeOK
  <2>5. \A q, r \in Procs : q # r => held'[q] \cap held'[r] = {}
    BY DEF OpsInv, TypeOK
  <2> QED
    BY <1>2, <2>2, <2>3, <2>4, <2>5, Zenon DEF OpsInv
<1>6. SpaceInv'
  <2>1. Credits' \subseteq Credits
    BY LogWriteCredits, Zenon
  <2>2. IsFiniteSet(Credits) /\ Cardinality(Credits) \in Nat
    BY <1>2, CreditsBound, Zenon DEF Credits
  <2>3. Cardinality(Credits') <= Cardinality(Credits) /\ Cardinality(Credits') \in Nat
    BY <2>1, <2>2, FS_Subset, FS_CardinalityType, Zenon
  <2> QED
    BY <2>2, <2>3, LogAssumption DEF SpaceInv, TypeOK
<1>7. PhaseInv'
  BY <1>1, <1>2, Zenon DEF PhaseInv, diskVars
<1>8. DataInv'
  BY <1>1, Zenon DEF DataInv
<1>9. CacheInv'
  <2>1. CleanMatchesDisk'
    BY <1>1, Zenon DEF CacheInv, CleanMatchesDisk, diskVars, TypeOK
  <2> QED
    BY <1>1, <2>1, Zenon DEF CacheInv, Recovering
<1> QED
  BY <1>4, <1>5, <1>6, <1>7, <1>8, <1>9, Zenon DEF Distinct, diskVars

\* The part of log_write() under log.lock adds a block to the log only if it
\* uses up a reservation for it.
LEMMA LogWriteLockedCredits ==
  ASSUME IInv, NEW p \in Procs, LogWriteLocked(p)
  PROVE  /\ Credits' \subseteq Credits
         /\ \/ lh' = lh
            \/ /\ Len(lh') = Len(lh) + 1
               /\ \E n \in 1..OPBLOCKS : <<p, n>> \in Credits \ Credits'
<1> USE DEF IInv, LogWriteLocked
<1>1. Ops' = Ops /\ p \in Ops
  BY Zenon DEF Ops, TypeOK
<1>2. PICK b \in Blocks : held[p] = {b}
  BY Zenon DEF OpsInv
<1>3. lh' = IF b \in Logged(lh) THEN lh ELSE Append(lh, b)
  BY <1>2, Zenon
<1>4. /\ Logged(lh') = Logged(lh) \cup {b}
      /\ b \notin Logged(lh) => Len(lh') = Len(lh) + 1
  BY <1>3, LoggedAppend DEF TypeOK
<1>5. Credits' \subseteq Credits
  BY <1>1, <1>4 DEF Credits, TypeOK
<1>6. CASE b \in Logged(lh)
  BY <1>3, <1>5, <1>6, Zenon
<1>7. CASE b \notin Logged(lh)
  <2> DEFINE n == Cardinality(wrote[p])
  <2>1. b \in wrote[p] /\ IsFiniteSet(wrote[p]) /\ n <= OPBLOCKS
    BY <1>2, Zenon DEF OpsInv
  <2>2. n \in Nat /\ n # 0
    BY <2>1, FS_CardinalityType, FS_EmptySet, Zenon
  <2>3. n \in 1..MAXOPBLOCKS /\ n \in 1..OPBLOCKS
    BY <2>1, <2>2, LogAssumption
  <2>4. <<p, n>> \in Credits
    BY <1>1, <1>2, <1>7, <2>3, Zenon DEF Credits
  <2>5. <<p, n>> \notin Credits'
    BY <2>2 DEF Credits, TypeOK
  <2> QED
    BY <1>4, <1>5, <1>7, <2>3, <2>4, <2>5, Zenon
<1> QED
  BY <1>6, <1>7, Zenon

\* The part of log_write() under log.lock preserves it: a block is absorbed
\* or gets a new slot.
LEMMA LogWriteLockedStep ==
  ASSUME IInv, NEW p \in Procs, LogWriteLocked(p)
  PROVE  IInv'
<1> USE DEF IInv, LogWriteLocked
<1>1. phase = "idle" /\ phase' = "idle"
  BY Zenon DEF PhaseInv, Ops
<1>2. Ops' = Ops /\ p \in Ops /\ Ops \in SUBSET Procs
  BY Zenon DEF Ops, TypeOK
<1>3. PICK b \in Blocks : held[p] = {b}
  BY Zenon DEF OpsInv
<1>4. lh' = IF b \in Logged(lh) THEN lh ELSE Append(lh, b)
  BY <1>3, Zenon
<1>5. /\ Logged(lh') = Logged(lh) \cup {b}
      /\ lh' \in Seq(Blocks)
      /\ Len(lh') = IF b \in Logged(lh) THEN Len(lh) ELSE Len(lh) + 1
      /\ Distinct(lh')
  BY <1>4, LoggedAppend, DistinctAppend DEF TypeOK
<1>6. OpsInv'
  <2>1. \A q \in Procs :
          /\ pc'[q] # "log_write" => held'[q] = {}
          /\ pc'[q] = "log_write" => \E c \in Blocks : held'[q] = {c}
    BY Zenon DEF OpsInv, TypeOK
  <2>2. \A q \in Procs :
          /\ held'[q] \subseteq wrote[q]
          /\ wrote[q] \ held'[q] \subseteq Logged(lh')
    BY <1>3, <1>5, Zenon DEF OpsInv, TypeOK
  <2>3. \A q, r \in Procs : q # r => held'[q] \cap held'[r] = {}
    BY DEF OpsInv, TypeOK
  <2> QED
    BY <1>2, <2>1, <2>2, <2>3, Zenon DEF OpsInv
<1>7. SpaceInv' /\ Len(lh') <= LOGSIZE
  <2>1. IsFiniteSet(Credits) /\ Cardinality(Credits) \in Nat
    BY <1>2, CreditsBound, Zenon DEF Credits
  <2>2. Credits' \subseteq Credits
    BY LogWriteLockedCredits, Zenon
  <2>3. IsFiniteSet(Credits') /\ Cardinality(Credits') \in Nat
        /\ Cardinality(Credits') <= Cardinality(Credits)
    BY <2>1, <2>2, FS_Subset, FS_CardinalityType, Zenon
  <2>4. CASE lh' = lh
    BY <2>1, <2>3, <2>4, LogAssumption DEF SpaceInv, TypeOK
  <2>5. ASSUME NEW c \in Credits, c \notin Credits', Len(lh') = Len(lh) + 1
        PROVE  SpaceInv' /\ Len(lh') <= LOGSIZE
    <3>1. Credits' \subseteq Credits \ {c}
      BY <2>2, <2>5, Zenon
    <3>2. /\ IsFiniteSet(Credits \ {c})
          /\ Cardinality(Credits \ {c}) = Cardinality(Credits) - 1
      BY <2>1, FS_RemoveElement, Zenon
    <3>3. Cardinality(Credits') <= Cardinality(Credits) - 1
      BY <3>1, <3>2, FS_Subset
    <3> QED
      BY <2>1, <2>3, <2>5, <3>3, LogAssumption DEF SpaceInv, TypeOK
  <2> QED
    BY <2>4, <2>5, LogWriteLockedCredits, Zenon
<1>8. TypeOK'
  BY <1>5, <1>7, Zenon DEF TypeOK, diskVars, Pcs
<1>9. PhaseInv'
  BY <1>1, <1>2, Zenon DEF PhaseInv, diskVars
<1>10. DataInv'
  BY <1>1, Zenon DEF DataInv
<1>11. CacheInv'
  <2>1. dirty' = Logged(lh')
    BY <1>1, <1>3, <1>5, Zenon DEF CacheInv
  <2>2. CleanMatchesDisk'
    BY Zenon DEF CacheInv, CleanMatchesDisk, diskVars, TypeOK
  <2> QED
    BY <1>1, <2>1, <2>2, Zenon DEF CacheInv, Recovering
<1> QED
  BY <1>5, <1>6, <1>7, <1>8, <1>9, <1>10, <1>11, Zenon DEF Distinct, diskVars

-----------------------------------------------------------------------------
\* Steps that change nothing preserve it.
LEMMA StutterStep == IInv /\ UNCHANGED vars => IInv'
<1> SUFFICES ASSUME IInv, UNCHANGED vars PROVE IInv'
  BY Zenon
<1> USE DEF IInv, vars
<1>1. Ops' = Ops
  BY Zenon DEF Ops
<1>2. Credits' = Credits
  BY <1>1, Zenon DEF Credits
<1>3. TypeOK' /\ PhaseInv' /\ DataInv'
  BY <1>1, Zenon DEF TypeOK, PhaseInv, DataInv
<1>4. OpsInv' /\ SpaceInv'
  BY <1>1, <1>2, Zenon DEF OpsInv, SpaceInv
<1>5. CacheInv'
  BY Zenon DEF CacheInv, CleanMatchesDisk, Recovering
<1> QED
  BY <1>3, <1>4, <1>5, Zenon DEF Distinct

\* The invariant is inductive.
LEMMA NextInv == IInv /\ [Next]_vars => IInv'
BY BeginOpStep, BeginOpSleepStep, LogWriteStep, LogWriteLockedStep, EndOpStep,
   EndOpLastStep, EndCommitStep, WriteLogStep, WriteHeadStep,
   InstallTransStep, ClearHeadStep, ReadHeadStep, CrashStep, StutterStep,
   Zenon DEF Next, Commit

\* The inductive invariant of the log holds in every reachable state.
THEOREM LogInvariant == Spec => []IInv
BY InitInv, NextInv, PTL DEF Spec

\* The buffers and headers of log.c stay within their bounds; in particular
\* log.lh.n never passes LOGSIZE although log_write tests it before locking.
THEOREM TypeCorrect == Spec => []TypeOK
<1>1. IInv => TypeOK
  BY Zenon DEF IInv
<1> QED
  BY <1>1, LogInvariant, PTL

\* Recycling a clean buffer never loses an update.
THEOREM CleanBuffers == Spec => []CleanMatchesDisk
<1>1. IInv => CleanMatchesDisk
  BY Zenon DEF IInv, CacheInv
<1> QED
  BY <1>1, LogInvariant, PTL

\* end_op never commits part of a running system call.
THEOREM CommitBetweenOps == Spec => []CommitOnlyIdle
<1>1. IInv => CommitOnlyIdle
  BY Zenon DEF IInv, PhaseInv, CommitOnlyIdle, Ops
<1> QED
  BY <1>1, LogInvariant, PTL

\* When no operation runs and no commit is under way the disk is up to date.
THEOREM IdleIsDurable == Spec => []QuiescentDurable
<1>1. IInv => QuiescentDurable
  <2> SUFFICES ASSUME IInv, phase = "idle", outstanding = 0
               PROVE  disk = cache /\ head = <<>>
    BY Zenon DEF QuiescentDurable
  <2> USE DEF IInv
  <2>1. Ops = {}
    <3>1. IsFiniteSet(Ops)
      BY FS_Subset, LogAssumption, Zenon DEF Ops
    <3> QED
      BY <3>1, FS_EmptySet, Zenon DEF OpsInv
  <2>2. lh = <<>> /\ head = <<>> /\ dirty = {}
    BY <2>1, LoggedEmpty, Zenon DEF PhaseInv, CacheInv
  <2>3. \A p \in Procs : held[p] = {}
    BY <2>1, Zenon DEF OpsInv, Ops
  <2>4. \A b \in Blocks : cache[b] = disk[b]
    BY <2>2, <2>3, Zenon DEF CacheInv, CleanMatchesDisk
  <2> QED
    BY <2>2, <2>4 DEF TypeOK
<1> QED
  BY <1>1, LogInvariant, PTL

-----------------------------------------------------------------------------
\* The reservations an operation has left, once it has used n of them.
LEMMA SlotsCardinality ==
  ASSUME NEW p, NEW n \in Nat, n <= MAXOPBLOCKS
  PROVE  LET S == {p} \X ((n + 1)..MAXOPBLOCKS)
         IN  IsFiniteSet(S) /\ Cardinality(S) = MAXOPBLOCKS - n
<1> DEFINE a == n + 1
           I == a..MAXOPBLOCKS
<1>1. a \in Int /\ MAXOPBLOCKS \in Int
  BY LogAssumption
<1>2. IsFiniteSet(I) /\ Cardinality(I) = IF a > MAXOPBLOCKS THEN 0
                                         ELSE MAXOPBLOCKS - a + 1
  <2> HIDE DEF a
  <2> QED
    BY <1>1, FS_Interval, Zenon
<1>3. Cardinality(I) = MAXOPBLOCKS - n
  BY <1>1, <1>2
<1>4. IsFiniteSet({p}) /\ Cardinality({p}) = 1
  BY FS_Singleton, Zenon
<1>5. IsFiniteSet({p} \X I) /\ Cardinality({p} \X I) = 1 * (MAXOPBLOCKS - n)
  <2> HIDE DEF I
  <2> QED
    BY <1>2, <1>3, <1>4, FS_Product
<1>6. 1 * (MAXOPBLOCKS - n) = MAXOPBLOCKS - n
  BY <1>1
<1> QED
  BY <1>5, <1>6, Zenon

\* A running operation still has the slots it reserved and has not written.
LEMMA RunningOpHasRoom ==
  ASSUME IInv, NEW p \in Procs, pc[p] = "op"
  PROVE  /\ Cardinality(wrote[p]) \in Nat
         /\ Cardinality(wrote[p]) <= OPBLOCKS
         /\ Len(lh) \in Nat
         /\ Len(lh) + (MAXOPBLOCKS - Cardinality(wrote[p])) <= LOGSIZE
<1> USE DEF IInv
<1> DEFINE n == Cardinality(wrote[p])
           Mine == {p} \X ((n + 1)..MAXOPBLOCKS)
<1>1. n \in Nat /\ n <= OPBLOCKS
  BY FS_CardinalityType, Zenon DEF OpsInv
<1>2. n <= MAXOPBLOCKS /\ MAXOPBLOCKS \in Nat /\ LOGSIZE \in Nat
  BY <1>1, LogAssumption
<1>5. IsFiniteSet(Mine) /\ Cardinality(Mine) = MAXOPBLOCKS - n
  BY <1>1, <1>2, SlotsCardinality, Zenon
<1>6. Mine \subseteq Credits
  BY <1>1, <1>2 DEF Credits, Ops
<1>7. IsFiniteSet(Credits) /\ Cardinality(Credits) \in Nat
  BY CreditsBound, Zenon DEF Credits, Ops
<1>8. Cardinality(Mine) <= Cardinality(Credits)
  BY <1>6, <1>7, FS_Subset, Zenon
<1>9. Len(lh) \in Nat /\ Len(lh) + Cardinality(Credits) <= LOGSIZE
  BY DEF SpaceInv, TypeOK
<1> HIDE DEF n, Mine
<1>10. Len(lh) + (MAXOPBLOCKS - n) <= LOGSIZE
  BY <1>1, <1>2, <1>5, <1>7, <1>8, <1>9
<1> QED
  BY <1>1, <1>9, <1>10, Zenon DEF n

\* The blocks that running operations may still add to the log.
Unwritten == {c \in Credits : c[2] <= OPBLOCKS}

\* While an operation runs, the log has room for all of them and for one more:
\* log_write makes its tests even when it is going to absorb the block.
RoomInv == Ops # {} => Len(lh) + Cardinality(Unwritten) + 2 <= Size

\* They number at most OPBLOCKS for each operation.
LEMMA UnwrittenBound ==
  ASSUME NEW O \in SUBSET Procs, NEW C \in SUBSET (O \X (1..OPBLOCKS))
  PROVE  /\ IsFiniteSet(C)
         /\ Cardinality(C) \in Nat
         /\ Cardinality(C) <= Cardinality(O) * OPBLOCKS
<1>1. IsFiniteSet(O) /\ Cardinality(O) \in Nat
  BY FS_Subset, FS_CardinalityType, LogAssumption, Zenon
<1>2. IsFiniteSet(1..OPBLOCKS) /\ Cardinality(1..OPBLOCKS) = OPBLOCKS
  BY FS_Interval, LogAssumption
<1>3. /\ IsFiniteSet(O \X (1..OPBLOCKS))
      /\ Cardinality(O \X (1..OPBLOCKS)) = Cardinality(O) * OPBLOCKS
  BY <1>1, <1>2, FS_Product, Zenon
<1> QED
  BY <1>1, <1>3, FS_Subset, FS_CardinalityType, Zenon

\* Every step but begin_op() that leaves an operation running keeps the log, or
\* adds a block that was accounted for.
LEMMA RunningSteps ==
  ASSUME IInv, [Next]_vars, Ops' # {}, \A p \in Procs : ~BeginOp(p)
  PROVE  /\ Ops # {}
         /\ Credits' \subseteq Credits
         /\ \/ lh' = lh
            \/ /\ Len(lh') = Len(lh) + 1
               /\ \E p \in Procs, n \in 1..OPBLOCKS : <<p, n>> \in Credits \ Credits'
<1> DEFINE Good == /\ Ops # {}
                   /\ Credits' \subseteq Credits
                   /\ \/ lh' = lh
                      \/ /\ Len(lh') = Len(lh) + 1
                         /\ \E p \in Procs, n \in 1..OPBLOCKS :
                              <<p, n>> \in Credits \ Credits'
<1> SUFFICES Good
  BY Zenon
<1>1. ASSUME NEW p \in Procs, BeginOpSleep(p) \/ EndOp(p) PROVE Good
  <2>1. Ops' \subseteq Ops /\ lh' = lh
    BY <1>1, Zenon DEF Ops, BeginOpSleep, EndOp, WakeAll, IInv, TypeOK
  <2>2. Credits' \subseteq Credits
    BY <1>1, <2>1, Zenon DEF Credits, BeginOpSleep, EndOp, IInv, TypeOK, Ops, WakeAll
  <2> QED
    BY <2>1, <2>2, Zenon
<1>2. ASSUME NEW p \in Procs, NEW b \in Blocks, NEW v \in Vals, LogWrite(p, b, v)
      PROVE  Good
  BY <1>2, LogWriteCredits, Zenon DEF Ops, LogWrite
<1>3. ASSUME NEW p \in Procs, LogWriteLocked(p) PROVE Good
  BY <1>3, LogWriteLockedCredits, Zenon DEF Ops, LogWriteLocked
<1>4. ASSUME NEW p \in Procs, EndOpLast(p) PROVE Good
  <2>1. IsFiniteSet(Ops) /\ Cardinality(Ops) = 1 /\ p \in Ops
    BY <1>4, FS_Subset, LogAssumption, Zenon DEF OpsInv, IInv, Ops, EndOpLast
  <2>2. Ops' = Ops \ {p}
    BY <1>4, Zenon DEF Ops, EndOpLast, IInv, TypeOK
  <2>3. Cardinality(Ops') = 0 /\ IsFiniteSet(Ops')
    BY <2>1, <2>2, FS_RemoveElement
  <2> QED
    BY <2>3, FS_EmptySet, Zenon
<1>5. ASSUME Commit \/ ReadHead \/ Crash PROVE Good
  <2>1. Ops' = {}
    BY <1>5, Zenon
       DEF Commit, WriteLog, WriteHead, InstallTrans, ClearHead, ReadHead, Crash,
           Ops, opVars, IInv, PhaseInv
  <2> QED
    BY <2>1, Zenon
<1>6. ASSUME NEW p \in Procs, EndCommit(p) PROVE Good
  <2>1. Ops' = {}
    BY <1>6, Zenon DEF EndCommit, Ops, WakeAll, IInv, PhaseInv, TypeOK
  <2> QED
    BY <2>1, Zenon
<1>7. ASSUME UNCHANGED vars PROVE Good
  BY <1>7, Zenon DEF vars, Ops, Credits
<1> HIDE DEF Good
<1> QED
  BY <1>1, <1>2, <1>3, <1>4, <1>5, <1>6, <1>7, Zenon DEF Next

\* begin_op() leaves room: it lets a second operation in only if the log has
\* MAXOPBLOCKS > OPBLOCKS slots for each, and the first one finds it empty.
LEMMA BeginOpRoom ==
  ASSUME IInv, NEW p \in Procs, BeginOp(p),
         OPBLOCKS < MAXOPBLOCKS, OPBLOCKS + 2 <= Size, LOGSIZE <= Size
  PROVE  RoomInv'
<1> USE DEF IInv
<1> DEFINE k == outstanding
           n == Len(lh)
           u == Cardinality(Unwritten')
<1>1. k \in Nat /\ n \in Nat /\ k = Cardinality(Ops) /\ lh' = lh
  <2>1. n \in Nat
    BY DEF TypeOK
  <2> QED
    BY <2>1, Zenon DEF TypeOK, OpsInv, BeginOp
<1>2. Cardinality(Ops') = k + 1 /\ Ops' \in SUBSET Procs
  <2>1. Ops' = Ops \cup {p} /\ p \notin Ops /\ Ops \in SUBSET Procs
    BY Zenon DEF Ops, TypeOK, BeginOp
  <2> QED
    BY <2>1, <1>1, FS_Subset, FS_AddElement, LogAssumption, Zenon
<1>3. Unwritten' \in SUBSET (Ops' \X (1..OPBLOCKS))
  BY LogAssumption DEF Unwritten, Credits
<1>4. u \in Nat /\ u <= (k + 1) * OPBLOCKS
  BY <1>2, <1>3, UnwrittenBound, Zenon
<1>5. n + (k + 1) * MAXOPBLOCKS <= LOGSIZE
  BY <1>1, LogAssumption DEF BeginOp, NoSpace
<1>6. k = 0 => n = 0
  <2>1. Ops \in SUBSET Procs /\ IsFiniteSet(Ops)
    BY FS_Subset, LogAssumption, Zenon DEF Ops
  <2>2. k = 0 => Ops = {}
    BY <1>1, <2>1, FS_EmptySet, Zenon
  <2>3. phase = "idle"
    BY Zenon DEF BeginOp, Recovering
  <2>4. Ops = {} => lh = <<>>
    BY <2>3, Zenon DEF PhaseInv
  <2> QED
    BY <2>2, <2>4
<1> HIDE DEF k, n, u
<1>7. n + u + 2 <= Size
  <2>1. OPBLOCKS \in Nat /\ MAXOPBLOCKS \in Nat /\ LOGSIZE \in Nat /\ Size \in Nat
    BY LogAssumption
  <2>2. CASE k = 0
    BY <1>1, <1>4, <1>6, <2>1, <2>2
  <2>3. CASE k # 0
    <3>1. (k + 1) * OPBLOCKS + (k + 1) <= (k + 1) * MAXOPBLOCKS
      BY <1>1, <2>1
    <3> DEFINE x == (k + 1) * OPBLOCKS
               y == (k + 1) * MAXOPBLOCKS
    <3>2. x \in Nat /\ y \in Nat
      BY <1>1, <2>1
    <3>3. u <= x /\ n + y <= LOGSIZE /\ x + (k + 1) <= y
      BY <1>4, <1>5, <3>1
    <3> HIDE DEF x, y
    <3> QED
      BY <1>1, <1>4, <2>1, <2>3, <3>2, <3>3
  <2> QED
    BY <2>2, <2>3
<1> QED
  BY <1>1, <1>7 DEF RoomInv, n, u

\* Every step keeps the room.
LEMMA RoomStep ==
  ASSUME IInv, RoomInv, [Next]_vars,
         OPBLOCKS < MAXOPBLOCKS, OPBLOCKS + 2 <= Size, LOGSIZE <= Size
  PROVE  RoomInv'
<1>1. CASE \E p \in Procs : BeginOp(p)
  BY <1>1, BeginOpRoom, Zenon
<1>2. CASE Ops' = {}
  BY <1>2, Zenon DEF RoomInv
<1>3. ASSUME Ops' # {}, \A p \in Procs : ~BeginOp(p)
      PROVE  RoomInv'
  <2>1. /\ Ops # {}
        /\ Credits' \subseteq Credits
        /\ \/ lh' = lh
           \/ /\ Len(lh') = Len(lh) + 1
              /\ \E p \in Procs, n \in 1..OPBLOCKS : <<p, n>> \in Credits \ Credits'
    BY <1>3, RunningSteps, Zenon
  <2>2. Len(lh) \in Nat /\ Size \in Nat /\ OPBLOCKS \in Nat
    BY LogAssumption DEF IInv, TypeOK
  <2>3. Unwritten' \subseteq Unwritten
    BY <2>1, Zenon DEF Unwritten
  <2>4. IsFiniteSet(Unwritten) /\ Cardinality(Unwritten) \in Nat
    <3>1. Ops \in SUBSET Procs /\ Credits \in SUBSET (Ops \X (1..MAXOPBLOCKS))
      BY Zenon DEF Ops, Credits
    <3>2. IsFiniteSet(Credits)
      BY <3>1, CreditsBound, Zenon
    <3>3. Unwritten \subseteq Credits
      BY Zenon DEF Unwritten
    <3> QED
      BY <3>2, <3>3, FS_Subset, FS_CardinalityType, Zenon
  <2>5. Cardinality(Unwritten') \in Nat /\ Cardinality(Unwritten') <= Cardinality(Unwritten)
    BY <2>3, <2>4, FS_Subset, FS_CardinalityType, Zenon
  <2>6. Len(lh) + Cardinality(Unwritten) + 2 <= Size
    BY <2>1, Zenon DEF RoomInv
  <2>7. CASE lh' = lh
    BY <2>2, <2>4, <2>5, <2>6, <2>7 DEF RoomInv
  <2>8. ASSUME NEW p \in Procs, NEW n \in 1..OPBLOCKS,
               <<p, n>> \in Credits, <<p, n>> \notin Credits', Len(lh') = Len(lh) + 1
        PROVE  RoomInv'
    <3>1. n <= OPBLOCKS
      BY <2>2
    <3>2. <<p, n>> \in Unwritten /\ <<p, n>> \notin Unwritten'
      BY <2>8, <3>1 DEF Unwritten
    <3>3. Unwritten' \subseteq Unwritten \ {<<p, n>>}
      BY <2>3, <3>2, Zenon
    <3>4. /\ IsFiniteSet(Unwritten \ {<<p, n>>})
          /\ Cardinality(Unwritten \ {<<p, n>>}) = Cardinality(Unwritten) - 1
      BY <2>4, <3>2, FS_RemoveElement, Zenon
    <3>5. Cardinality(Unwritten') <= Cardinality(Unwritten) - 1
      BY <3>3, <3>4, FS_Subset, Zenon
    <3> QED
      BY <2>2, <2>4, <2>5, <2>6, <2>8, <3>5 DEF RoomInv
  <2> QED
    BY <2>1, <2>7, <2>8, Zenon
<1> QED
  BY <1>1, <1>2, <1>3, Zenon

\* If every operation writes fewer blocks than begin_op reserves for it and the
\* log is as large as mkfs makes it (log.size = LOGSIZE) or larger, log_write
\* never panics, although the header takes one of the log's blocks.
THEOREM NoLogPanic ==
  ASSUME OPBLOCKS < MAXOPBLOCKS, OPBLOCKS + 2 <= Size, LOGSIZE <= Size
  PROVE  Spec => []NoPanic
<1>1. Init => RoomInv
  BY Zenon DEF Init, RoomInv, Ops
<1>2. IInv /\ RoomInv /\ [Next]_vars => RoomInv'
  BY RoomStep, Zenon
<1>3. IInv /\ RoomInv => NoPanic
  <2> SUFFICES ASSUME IInv, RoomInv, NEW p \in Procs, pc[p] = "op"
               PROVE  LogWritable
    BY Zenon DEF NoPanic
  <2>1. Len(lh) < LOGSIZE
    BY RunningOpHasRoom, LogAssumption
  <2>2. Len(lh) + Cardinality(Unwritten) + 2 <= Size
    BY Zenon DEF RoomInv, Ops
  <2>3. Len(lh) \in Nat /\ Cardinality(Unwritten) \in Nat
    <3>1. Ops \in SUBSET Procs /\ Unwritten \in SUBSET (Ops \X (1..MAXOPBLOCKS))
      BY Zenon DEF Ops, Unwritten, Credits
    <3>2. Len(lh) \in Nat
      BY DEF IInv, TypeOK
    <3> QED
      BY <3>1, <3>2, CreditsBound, Zenon
  <2> QED
    BY <2>1, <2>2, <2>3, LogAssumption DEF LogWritable
<1> QED
  BY <1>1, <1>2, <1>3, LogInvariant, PTL DEF Spec

\* With a log of LOGSIZE data blocks beside its header, an operation may use
\* every block that begin_op reserved for it.
THEOREM ReservationSuffices ==
  ASSUME Size > LOGSIZE
  PROVE  Spec => []ReservedSpace
<1>1. IInv => ReservedSpace
  <2> SUFFICES ASSUME IInv, NEW p \in Procs, pc[p] = "op",
                      Cardinality(wrote[p]) < OPBLOCKS
               PROVE  LogWritable
    BY Zenon DEF ReservedSpace
  <2> QED
    BY RunningOpHasRoom, LogAssumption DEF LogWritable
<1> QED
  BY <1>1, LogInvariant, PTL

-----------------------------------------------------------------------------
\* Replaying a log gives a logged block the contents of its slot ...
LEMMA OverlayAt ==
  ASSUME NEW h, NEW l, NEW d, Distinct(h), NEW i \in DOMAIN h, h[i] \in Blocks
  PROVE  Overlay(h, l, d)[h[i]] = l[i]
<1> DEFINE j == CHOOSE k \in DOMAIN h : h[k] = h[i]
<1>1. j \in DOMAIN h /\ h[j] = h[i]
  BY Zenon
<1>2. j = i
  BY <1>1, Zenon DEF Distinct
<1>3. h[i] \in Logged(h)
  BY Zenon DEF Logged
<1> QED
  BY <1>2, <1>3, Zenon DEF Overlay

\* ... leaves every other block alone ...
LEMMA OverlayElse ==
  ASSUME NEW h, NEW l, NEW d, NEW b \in Blocks, b \notin Logged(h)
  PROVE  Overlay(h, l, d)[b] = d[b]
BY Zenon DEF Overlay

\* ... and does nothing if the log is empty.
LEMMA OverlayEmpty ==
  ASSUME NEW l, NEW d \in [Blocks -> Vals]
  PROVE  Overlay(<<>>, l, d) = d
BY LoggedEmpty, Zenon DEF Overlay

\* Two overlays agree when they agree on logged and on other blocks.
LEMMA OverlayIs ==
  ASSUME NEW h \in Seq(Blocks), NEW l, NEW d, NEW c \in [Blocks -> Vals], Distinct(h),
         \A i \in DOMAIN h : c[h[i]] = l[i],
         \A b \in Blocks : b \notin Logged(h) => c[b] = d[b]
  PROVE  Overlay(h, l, d) = c
<1>1. ASSUME NEW b \in Blocks PROVE Overlay(h, l, d)[b] = c[b]
  <2>1. CASE b \in Logged(h)
    <3>1. PICK i \in DOMAIN h : b = h[i]
      BY <2>1, Zenon DEF Logged
    <3> QED
      BY <3>1, OverlayAt
  <2>2. CASE b \notin Logged(h)
    BY <2>2, OverlayElse
  <2> QED
    BY <2>1, <2>2, Zenon
<1>2. Overlay(h, l, d) = [b \in Blocks |-> Overlay(h, l, d)[b]]
  BY DEF Overlay
<1> QED
  BY <1>1, <1>2, Zenon

\* Installing a block does not change what a crash would leave.
LEMMA InstallKeepsDurable ==
  ASSUME IInv, InstallTrans
  PROVE  Durable' = Durable
<1> USE DEF IInv, InstallTrans
<1>1. tail < Len(lh) /\ tail \in Nat /\ Len(lh) \in Nat
  BY LogAssumption DEF PhaseInv, TypeOK
<1>2. lh[tail + 1] \in Logged(head)
  BY <1>1 DEF Logged, TypeOK, PhaseInv
<1>3. \A b \in Blocks : b \notin Logged(head) => disk'[b] = disk[b]
  BY <1>2, Zenon DEF TypeOK
<1>4. logblk' = logblk /\ head' = head
  BY Zenon
<1> HIDE DEF InstallTrans
<1> QED
  BY <1>3, <1>4 DEF Durable, Overlay

\* Writing the header makes all of the transaction durable at once.
LEMMA CommitIsAtomic ==
  ASSUME IInv, WriteHead
  PROVE  Durable' = cache
<1> USE DEF IInv, WriteHead
<1>1. \A b \in Blocks : b \notin Logged(lh) => cache[b] = disk[b]
  <2>1. \A p \in Procs : held[p] = {}
    BY Zenon DEF PhaseInv, OpsInv, Ops
  <2> QED
    BY <2>1, Zenon DEF CacheInv, CleanMatchesDisk
<1>2. \A i \in DOMAIN lh : cache[lh[i]] = logblk[i]
  BY Zenon DEF DataInv
<1>3. Overlay(lh, logblk, disk) = cache
  <2>1. lh \in Seq(Blocks) /\ cache \in [Blocks -> Vals] /\ Distinct(lh)
    BY Zenon DEF TypeOK
  <2> HIDE DEF IInv, WriteHead
  <2> QED
    BY <1>1, <1>2, <2>1, OverlayIs
<1> QED
  BY <1>3, Zenon DEF Durable

\* Clearing the header does not change what a crash would leave.
LEMMA ClearKeepsDurable ==
  ASSUME IInv, ClearHead
  PROVE  Durable' = Durable /\ Durable = disk
<1> USE DEF IInv, ClearHead
<1>1. Overlay(lh, logblk, disk) = disk
  <2>1. lh \in Seq(Blocks) /\ disk \in [Blocks -> Vals] /\ Distinct(lh)
    BY Zenon DEF TypeOK
  <2>2. \A i \in DOMAIN lh : disk[lh[i]] = logblk[i]
    BY Zenon DEF DataInv
  <2> HIDE DEF IInv, ClearHead
  <2> QED
    BY <2>1, <2>2, OverlayIs, Zenon
<1>2. Overlay(<<>>, logblk, disk) = disk
  BY OverlayEmpty, Zenon DEF TypeOK
<1> QED
  BY <1>1, <1>2, Zenon DEF Durable, PhaseInv

\* Initial states of the log are initial states of the atomic disk.
LEMMA RefinementInit == Init => Abs!Init
<1> SUFFICES ASSUME Init PROVE Abs!Init
  BY Zenon
<1>1. Durable = disk
  BY OverlayEmpty, Zenon DEF Init, Durable
<1>2. Pending = Durable
  BY Zenon DEF Init, Pending, Recovering
<1> QED
  BY <1>1, <1>2, Zenon DEF Init, Abs!Init

\* Every step of the log is a step of the atomic disk, or changes none of it.
LEMMA RefinementStep ==
  ASSUME IInv, [Next]_vars
  PROVE  [Abs!Next]_(Abs!vars)
<1> USE DEF Abs!vars, Abs!Next
<1>1. ASSUME NEW p \in Procs, BeginOp(p) PROVE Abs!Begin
  BY <1>1, Zenon DEF BeginOp, Abs!Begin, Durable, Pending, Recovering, diskVars
<1>2. ASSUME NEW p \in Procs, BeginOpSleep(p) PROVE UNCHANGED Abs!vars
  BY <1>2, Zenon DEF BeginOpSleep, Durable, Pending, Recovering, diskVars
<1>3. ASSUME NEW p \in Procs, NEW b \in Blocks, NEW v \in Vals, LogWrite(p, b, v)
      PROVE  Abs!Write(b, v)
  <2>1. phase = "idle" /\ phase' = "idle"
    BY <1>3, Zenon DEF LogWrite, IInv, PhaseInv, Ops
  <2> QED
    BY <1>3, <2>1
    DEF LogWrite, Abs!Write, Durable, Pending, Recovering, diskVars, IInv, TypeOK
<1>4. ASSUME NEW p \in Procs, LogWriteLocked(p) PROVE UNCHANGED Abs!vars
  BY <1>4, Zenon DEF LogWriteLocked, Durable, Pending, Recovering, diskVars
<1>5. ASSUME NEW p \in Procs, EndOp(p) PROVE Abs!End
  BY <1>5 DEF EndOp, Abs!End, Durable, Pending, Recovering, diskVars, IInv, TypeOK
<1>6. ASSUME NEW p \in Procs, EndOpLast(p) PROVE Abs!End
  <2>1. phase = "idle" /\ committing'
    BY <1>6, Zenon DEF EndOpLast, IInv, PhaseInv, Ops
  <2> QED
    BY <1>6, <2>1 DEF EndOpLast, Abs!End, Durable, Pending, Recovering, diskVars
<1>7. ASSUME NEW p \in Procs, EndCommit(p) PROVE UNCHANGED Abs!vars
  BY <1>7, Zenon
     DEF EndCommit, Durable, Pending, Recovering, diskVars, IInv, PhaseInv
<1>8. ASSUME WriteLog PROVE UNCHANGED Abs!vars
  <2>1. committing /\ committing' /\ head = <<>> /\ head' = <<>>
    BY <1>8, Zenon DEF WriteLog, IInv, PhaseInv
  <2>2. disk' = disk /\ cache' = cache /\ outstanding' = outstanding
    BY <1>8, Zenon DEF WriteLog, opVars
  <2>3. Durable' = Durable
    BY <2>1, <2>2, OverlayEmpty, Zenon DEF Durable, IInv, TypeOK
  <2> QED
    BY <2>1, <2>2, <2>3, Zenon DEF Pending, Recovering
<1>9. ASSUME WriteHead PROVE Abs!Commit
  <2>1. Durable' = cache
    BY <1>9, CommitIsAtomic, Zenon
  <2>2. committing /\ committing' /\ Ops = {}
    BY <1>9, Zenon DEF WriteHead, IInv, PhaseInv
  <2>3. outstanding = 0
    BY <2>2, FS_EmptySet, Zenon DEF IInv, OpsInv
  <2> QED
    BY <1>9, <2>1, <2>2, <2>3, Zenon
       DEF WriteHead, opVars, Abs!Commit, Pending, Recovering
<1>10. ASSUME InstallTrans PROVE UNCHANGED Abs!vars
  <2>1. Durable' = Durable /\ outstanding' = outstanding
    BY <1>10, InstallKeepsDurable, Zenon DEF InstallTrans, opVars
  <2>2. committing' = committing /\ (phase # "idle") /\ (phase' # "idle")
    BY <1>10, Zenon DEF InstallTrans
  <2>3. committing => cache' = cache
    <3>1. tail < Len(lh) /\ tail \in Nat /\ Len(lh) \in Nat
      BY <1>10, LogAssumption DEF InstallTrans, IInv, PhaseInv, TypeOK
    <3>2. committing => cache[lh[tail + 1]] = logblk[tail + 1]
      BY <1>10, <3>1 DEF InstallTrans, IInv, DataInv, TypeOK
    <3> QED
      BY <1>10, <3>2, Zenon DEF InstallTrans, IInv, TypeOK
  <2> QED
    BY <2>1, <2>2, <2>3, Zenon DEF Pending, Recovering
<1>11. ASSUME ClearHead PROVE UNCHANGED Abs!vars
  <2>1. Durable' = Durable /\ Durable = disk
    BY <1>11, ClearKeepsDurable, Zenon
  <2>2. ~committing => cache = disk
    BY <1>11, Zenon DEF ClearHead, IInv, CacheInv, Recovering
  <2> QED
    BY <1>11, <2>1, <2>2, Zenon DEF ClearHead, opVars, Pending, Recovering
<1>12. ASSUME ReadHead PROVE UNCHANGED Abs!vars
  BY <1>12, Zenon
     DEF ReadHead, IInv, PhaseInv, Durable, Pending, Recovering, diskVars,
         opVars
<1>13. ASSUME Crash PROVE Abs!Crash
  BY <1>13, Zenon DEF Crash, Abs!Crash, Durable, Pending, Recovering, diskVars
<1>14. ASSUME UNCHANGED vars PROVE UNCHANGED Abs!vars
  BY <1>14, Zenon DEF vars, Durable, Pending, Recovering
<1> QED
  BY <1>1, <1>2, <1>3, <1>4, <1>5, <1>6, <1>7, <1>8, <1>9, <1>10, <1>11, <1>12,
     <1>13, <1>14 DEF Next, Commit

\* The log of log.c implements the atomic disk: whatever the interleaving of
\* operations and wherever the machine crashes, recovery finds exactly the
\* state of the last group commit.
THEOREM LogRefinesAtomicDisk == Spec => AtomicCommit
<1>1. Init => Abs!Init
  BY RefinementInit, Zenon
<1>2. IInv /\ [Next]_vars => [Abs!Next]_(Abs!vars)
  BY RefinementStep, Zenon
<1> QED
  BY <1>1, <1>2, LogInvariant, PTL DEF Spec, AtomicCommit, Abs!Spec
=============================================================================
