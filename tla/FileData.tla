------------------------------ MODULE FileData ------------------------------
(***************************************************************************)
(* File contents and open files: block allocation, bmap, itrunc, readi and  *)
(* writei of fs.c, the file table of file.c, and the calls of sysfile.c on  *)
(* descriptors.  Inodes are given; module FileSys says when they are freed. *)
(* The disk is first one that mkfs has written (module Mkfs); the root      *)
(* directory keeps its blocks, for FileSys to work on.                      *)
(*                                                                          *)
(* A block is BSIZE cells, each a byte or a block number; a byte is the     *)
(* inode it was written to.  writei copies one block per step and itrunc      *)
(* frees one block per step, so that calls on other inodes come between;    *)
(* what else is done under an inode's lock is one step.                     *)
(***************************************************************************)
EXTENDS Integers, Sequences, FiniteSets, FiniteSetsExt

CONSTANTS
  Procs, Inodes,
  Root, DIRENT,              \* the root directory, cells in one of its entries
  Images,                    \* the files given to mkfs: inode and size of each
  NBLOCKS, BSIZE,            \* data blocks, cells in a block
  NDIRECT, NINDIRECT,        \* blocks listed in addrs, and in the indirect block
  MAXOPBLOCKS,               \* blocks that one transaction may log
  NFILE, NOFILE,             \* open files, descriptors of a process
  MaxRefs,                   \* bound on the descriptors of all processes
  ReadCounts, WriteCounts,   \* counts given to read and write
  Junk                       \* stands for what a free block holds

MAXFILE == NDIRECT + NINDIRECT
Blocks == 1..NBLOCKS
NoBlock == 0
NoFile == 0
None == 0          \* no inode, or nobody
Zeros == [k \in 0..BSIZE - 1 |-> 0]

ASSUME FileDataAssumption ==
  /\ NBLOCKS \in Nat /\ BSIZE \in Nat \ {0} /\ NDIRECT \in Nat
  /\ NINDIRECT \in 1..BSIZE
  /\ MAXOPBLOCKS \in Nat /\ MAXOPBLOCKS >= 6
  /\ None \notin Procs
  /\ NFILE \in Nat /\ NOFILE \in Nat /\ MaxRefs \in Nat
  /\ ReadCounts \subseteq Nat /\ WriteCounts \subseteq Nat
  /\ Inodes \cap (0..NBLOCKS) = {}
  /\ Root \in Inodes /\ DIRENT \in 1..BSIZE
  /\ \A files \in Images : \A k \in DOMAIN files :
       files[k].ip \in Inodes \ {Root} /\ files[k].size \in 0..MAXFILE * BSIZE

VARIABLES
  used,      \* the bitmap: blocks in use
  disk,      \* contents of the data blocks
  ino,       \* struct inode in memory: size and addrs
  dino,      \* struct dinode on disk
  lock,      \* owner of each inode's lock
  file,      \* ftable.file
  ofile,     \* ofile[p][fd]
  th         \* the call each process is in, with its locals

vars == <<used, disk, ino, dino, lock, file, ofile, th>>

EmptyInode == [size |-> 0, addrs |-> [k \in 0..NDIRECT |-> NoBlock]]
FreeFile == [ref |-> 0, off |-> 0, ip |-> None]
Idle == [pc |-> "user", f |-> NoFile, ip |-> None, n |-> 0, done |-> 0,
         off |-> 0, n1 |-> 0, tot |-> 0, logged |-> {}]

Files == Inodes \ {Root}

Host == INSTANCE Mkfs

\* The disk is an image of mkfs (what its free blocks hold does not matter);
\* nothing is open.
Init ==
  /\ \E files \in Images :
       LET img == Host!mkfs(files)
       IN /\ used = img.used
          /\ disk = [b \in Blocks |-> IF b \in img.used THEN img.disk[b]
                                      ELSE [k \in 0..BSIZE - 1 |-> Junk]]
          /\ ino = [i \in Inodes |-> IF i \in DOMAIN img.din THEN img.din[i]
                                     ELSE EmptyInode]
  /\ dino = ino
  /\ lock = [i \in Inodes |-> None]
  /\ file = [f \in 1..NFILE |-> FreeFile]
  /\ ofile = [p \in Procs |-> [d \in 0..NOFILE - 1 |-> NoFile]]
  /\ th = [p \in Procs |-> Idle]

-----------------------------------------------------------------------------
(* Blocks.  s is the state that an operation under an inode's lock works    *)
(* on: the bitmap, the disk, the inode's addrs, the blocks logged so far,   *)
(* and the block number returned.                                           *)

\* Each block of the bitmap covers one data block: the worst case for the log.
BBLOCK(b) == <<"bitmap", b>>
Data(b) == <<"data", b>>

\* Variant: balloc() that does not mark the block it returns.
ballocUnmarked(s) ==
  LET b == Min(Blocks \ s.used)
  IN [s EXCEPT !.b = b, !.disk[b] = Zeros, !.logged = @ \cup {BBLOCK(b), Data(b)}]

\* balloc(): the first free block, zeroed.
balloc(s) ==
  LET b == Min(Blocks \ s.used)
  IN [s EXCEPT !.used = @ \cup {b}, !.b = b, !.disk[b] = Zeros,
               !.logged = @ \cup {BBLOCK(b), Data(b)}]

\* bmap(): the block that holds block bn of the file, allocated if missing.
bmapDirect(s, k) ==
  IF s.addrs[k] # NoBlock THEN [s EXCEPT !.b = s.addrs[k]]
  ELSE LET t == balloc(s) IN [t EXCEPT !.addrs[k] = t.b]

bmap(s, bn) ==
  IF bn < NDIRECT THEN bmapDirect(s, bn)
  ELSE LET t == bmapDirect(s, NDIRECT)
           k == bn - NDIRECT
       IN IF t.disk[t.b][k] # NoBlock THEN [t EXCEPT !.b = t.disk[t.b][k]]
          ELSE LET u == balloc(t)
               IN [u EXCEPT !.disk[t.b][k] = u.b, !.logged = @ \cup {Data(t.b)}]

\* The block that holds block bn of inode i, if there is one.
Mapped(i, bn) ==
  IF bn < NDIRECT THEN ino[i].addrs[bn]
  ELSE IF ino[i].addrs[NDIRECT] = NoBlock THEN NoBlock
       ELSE disk[ino[i].addrs[NDIRECT]][bn - NDIRECT]

-----------------------------------------------------------------------------
(* The file table and descriptors. *)

FreeFds(p) == {d \in DOMAIN ofile[p] : ofile[p][d] = NoFile}
FreeFiles == {f \in DOMAIN file : file[f].ref = 0}
\* The bound on descriptors, for calls that make one.
WithinRefs == MapThenSumSet(LAMBDA f : file'[f].ref, DOMAIN file) <= MaxRefs
Held(i) == \E f \in DOMAIN file : file[f].ref > 0 /\ file[f].ip = i

\* sys_open() of inode i: filealloc() and fdalloc().  An inode that is being
\* freed has no name.
Open(p, i) ==
  /\ th[p].pc = "user" /\ lock[i] = None
  /\ FreeFds(p) # {} /\ FreeFiles # {}
  /\ file' = [file EXCEPT ![Min(FreeFiles)] = [ref |-> 1, off |-> 0, ip |-> i]]
  /\ ofile' = [ofile EXCEPT ![p][Min(FreeFds(p))] = Min(FreeFiles)]
  /\ WithinRefs
  /\ UNCHANGED <<used, disk, ino, dino, lock, th>>

\* sys_dup(): filedup() for another descriptor of the same process.
Dup(p, fd) ==
  /\ th[p].pc = "user" /\ ofile[p][fd] # NoFile /\ FreeFds(p) # {}
  /\ ofile' = [ofile EXCEPT ![p][Min(FreeFds(p))] = ofile[p][fd]]
  /\ file' = [file EXCEPT ![ofile[p][fd]].ref = @ + 1]
  /\ WithinRefs
  /\ UNCHANGED <<used, disk, ino, dino, lock, th>>

\* fork(): the child q shares its parent's open files and their offsets.
Fork(p, q) ==
  /\ th[p].pc = "user" /\ th[q].pc = "user"
  /\ FreeFds(q) = DOMAIN ofile[q]
  /\ ofile' = [ofile EXCEPT ![q] = ofile[p]]
  /\ file' = [f \in DOMAIN file |->
                [file[f] EXCEPT !.ref = @ + Cardinality({d \in DOMAIN ofile[p] : ofile[p][d] = f})]]
  /\ WithinRefs
  /\ UNCHANGED <<used, disk, ino, dino, lock, th>>

\* sys_close(), and each close of exit(): fileclose() frees the entry with
\* its last reference.
Close(p, fd) ==
  LET f == ofile[p][fd] IN
  /\ th[p].pc = "user" /\ f # NoFile
  /\ ofile' = [ofile EXCEPT ![p][fd] = NoFile]
  /\ file' = [file EXCEPT ![f] = IF @.ref > 1 THEN [@ EXCEPT !.ref = @ - 1] ELSE FreeFile]
  /\ UNCHANGED <<used, disk, ino, dino, lock, th>>

\* fileread() with readi(): the count is cut at the end of the file.
Read(p, fd, n) ==
  LET f == ofile[p][fd]  i == file[f].ip
      left == ino[i].size - file[f].off IN
  /\ th[p].pc = "user" /\ f # NoFile
  /\ lock[i] = None /\ left > 0
  /\ file' = [file EXCEPT ![f].off = @ + Min({n, left})]
  /\ UNCHANGED <<used, disk, ino, dino, lock, ofile, th>>

-----------------------------------------------------------------------------
(* filewrite(): one transaction for each chunk. *)


\* The variable max of filewrite().
MaxChunk == ((MAXOPBLOCKS - 1 - 1 - 2) \div 2) * BSIZE

\* One iteration of filewrite()'s loop up to the copying: begin_op(), ilock()
\* and the tests of writei().
Chunk(p, f, n, done) ==
  LET i == file[f].ip
      off == file[f].off
      n1 == Min({n - done, MaxChunk}) IN
  /\ lock[i] = None
  /\ IF off > ino[i].size \/ off + n1 > MAXFILE * BSIZE
       THEN th' = [th EXCEPT ![p] = Idle] /\ UNCHANGED lock
       ELSE /\ lock' = [lock EXCEPT ![i] = p]
            /\ th' = [th EXCEPT ![p] = [pc |-> "block", f |-> f, ip |-> i, n |-> n, done |-> done,
                                        off |-> off, n1 |-> n1, tot |-> 0, logged |-> {}]]
  /\ UNCHANGED <<used, disk, ino, dino, file, ofile>>

\* sys_write() up to the first chunk, and filewrite() between chunks.
Write(p, fd, n) ==
  th[p].pc = "user" /\ ofile[p][fd] # NoFile /\ Chunk(p, ofile[p][fd], n, 0)
NextChunk(p) ==
  th[p].pc = "chunk" /\ Chunk(p, th[p].f, th[p].n, th[p].done)

\* Variant: writei() that stores each block from its start.
WriteBlockAtStart(p) ==
  LET t == th[p]
      m == Min({t.n1 - t.tot, BSIZE - (t.off % BSIZE)})
      s == bmap([used |-> used, disk |-> disk, addrs |-> ino[t.ip].addrs,
                 logged |-> t.logged, b |-> NoBlock], t.off \div BSIZE) IN
  /\ t.pc = "block" /\ t.tot < t.n1
  /\ used' = s.used
  /\ disk' = [s.disk EXCEPT ![s.b] = [k \in DOMAIN @ |-> IF k < m THEN t.ip ELSE @[k]]]
  /\ ino' = [ino EXCEPT ![t.ip].addrs = s.addrs]
  /\ th' = [th EXCEPT ![p] = [@ EXCEPT !.tot = @ + m, !.off = @ + m,
                                       !.logged = s.logged \cup {Data(s.b)}]]
  /\ UNCHANGED <<dino, lock, file, ofile>>

\* One iteration of writei().
WriteBlock(p) ==
  LET t == th[p]
      m == Min({t.n1 - t.tot, BSIZE - (t.off % BSIZE)})
      s == bmap([used |-> used, disk |-> disk, addrs |-> ino[t.ip].addrs,
                 logged |-> t.logged, b |-> NoBlock], t.off \div BSIZE)
      at == t.off % BSIZE IN
  /\ t.pc = "block" /\ t.tot < t.n1
  /\ used' = s.used
  /\ disk' = [s.disk EXCEPT ![s.b] =
                [k \in DOMAIN @ |-> IF at <= k /\ k < at + m THEN t.ip ELSE @[k]]]
  /\ ino' = [ino EXCEPT ![t.ip].addrs = s.addrs]
  /\ th' = [th EXCEPT ![p] = [@ EXCEPT !.tot = @ + m, !.off = @ + m,
                                       !.logged = s.logged \cup {Data(s.b)}]]
  /\ UNCHANGED <<dino, lock, file, ofile>>

\* The end of writei() and of the loop body of filewrite().
WriteEnd(p) ==
  LET t == th[p]
      grown == [ino[t.ip] EXCEPT !.size = t.off]
      grows == t.off > ino[t.ip].size IN
  /\ t.pc = "block" /\ t.tot = t.n1
  /\ ino' = IF grows THEN [ino EXCEPT ![t.ip] = grown] ELSE ino
  /\ dino' = IF grows THEN [dino EXCEPT ![t.ip] = grown] ELSE dino
  /\ file' = [file EXCEPT ![t.f].off = @ + t.n1]
  /\ lock' = [lock EXCEPT ![t.ip] = None]
  /\ th' = [th EXCEPT ![p] =
              IF t.done + t.n1 = t.n THEN Idle
              ELSE [Idle EXCEPT !.pc = "chunk", !.f = t.f, !.n = t.n, !.done = t.done + t.n1]]
  /\ UNCHANGED <<used, disk, ofile>>

-----------------------------------------------------------------------------
\* iput() of an inode without links and references starts itrunc().
Trunc(p, i) ==
  /\ th[p].pc = "user" /\ lock[i] = None /\ ~Held(i) /\ ino[i].size > 0
  /\ lock' = [lock EXCEPT ![i] = p]
  /\ th' = [th EXCEPT ![p] = [Idle EXCEPT !.pc = "trunc", !.ip = i]]
  /\ UNCHANGED <<used, disk, ino, dino, file, ofile>>

\* bfree() leaves the contents of the block; nothing may depend on them, so
\* they become junk.
Free(S) == [b \in Blocks |-> IF b \in S THEN [k \in 0..BSIZE - 1 |-> Junk] ELSE disk[b]]

\* One iteration of the loops of itrunc(): th.tot is i, or NDIRECT + j.
TruncBlock(p) ==
  LET t == th[p]  b == Mapped(t.ip, t.tot) IN
  /\ t.pc = "trunc" /\ t.tot < MAXFILE
  /\ used' = used \ {b}
  /\ disk' = Free({b})
  /\ ino' = IF t.tot < NDIRECT THEN [ino EXCEPT ![t.ip].addrs[t.tot] = NoBlock] ELSE ino
  /\ th' = [th EXCEPT ![p].tot = @ + 1]
  /\ UNCHANGED <<dino, lock, file, ofile>>

\* Variant: itrunc() that forgets the indirect block itself.
TruncEndKeepsIndirect(p) ==
  LET i == th[p].ip IN
  /\ th[p].pc = "trunc" /\ th[p].tot = MAXFILE
  /\ ino' = [ino EXCEPT ![i] = EmptyInode]
  /\ dino' = [dino EXCEPT ![i] = EmptyInode]
  /\ lock' = [lock EXCEPT ![i] = None]
  /\ th' = [th EXCEPT ![p] = Idle]
  /\ UNCHANGED <<used, disk, file, ofile>>

\* The end of itrunc(): the indirect block, the size, iupdate().
TruncEnd(p) ==
  LET i == th[p].ip IN
  /\ th[p].pc = "trunc" /\ th[p].tot = MAXFILE
  /\ used' = used \ {ino[i].addrs[NDIRECT]}
  /\ disk' = Free({ino[i].addrs[NDIRECT]})
  /\ ino' = [ino EXCEPT ![i] = EmptyInode]
  /\ dino' = [dino EXCEPT ![i] = EmptyInode]
  /\ lock' = [lock EXCEPT ![i] = None]
  /\ th' = [th EXCEPT ![p] = Idle]
  /\ UNCHANGED <<file, ofile>>

Next ==
  \E p \in Procs :
    \/ \E i \in Files : Open(p, i) \/ Trunc(p, i)
    \/ \E fd \in 0..NOFILE - 1 :
         \/ Dup(p, fd) \/ Close(p, fd)
         \/ \E n \in ReadCounts : Read(p, fd, n)
         \/ \E n \in WriteCounts : Write(p, fd, n)
    \/ \E q \in Procs \ {p} : Fork(p, q)
    \/ NextChunk(p) \/ WriteBlock(p) \/ WriteEnd(p)
    \/ TruncBlock(p) \/ TruncEnd(p)

Spec == Init /\ [][Next]_vars

-----------------------------------------------------------------------------
\* The entries of i's block list that are in use; itrunc() has freed those
\* before its position.
Freeing(i) == {p \in Procs : th[p].pc = "trunc" /\ th[p].ip = i}
InUse(i) ==
  {bn \in 0..MAXFILE - 1 : /\ Mapped(i, bn) # NoBlock
                           /\ \A p \in Freeing(i) : bn >= th[p].tot}
\* The bitmap, first the one mkfs wrote, says exactly which blocks the inodes
\* use, no block is in two places, and an inode that is not locked has been
\* saved with its blocks, though writei() calls iupdate() only when the file
\* grows.
BlocksAccounted ==
  LET direct == UNION {{<<i, bn, Mapped(i, bn)>> : bn \in InUse(i)} : i \in Inodes}
      indirect == {<<i, -1, ino[i].addrs[NDIRECT]>> :
                     i \in {j \in Inodes : ino[j].addrs[NDIRECT] # NoBlock}}
      all == direct \cup indirect
  IN /\ used = {r[3] : r \in all}
     /\ Cardinality(used) = Cardinality(all)
     /\ \A i \in Inodes : lock[i] = None => dino[i] = ino[i]


\* Nobody moves the offset of an open file, shared or not, while a chunk is
\* written through it; and when writei() is done the bytes it was given are in
\* the file's blocks from that offset on.
BytesWritten ==
  \A p \in Procs : th[p].pc = "block" =>
    /\ file[th[p].f].off = th[p].off - th[p].tot
    /\ th[p].tot = th[p].n1 =>
         \A k \in th[p].off - th[p].n1..th[p].off - 1 :
           disk[Mapped(th[p].ip, k \div BSIZE)][k % BSIZE] = th[p].ip

Contents(i) ==
  IF Freeing(i) # {} THEN <<>>
  ELSE [k \in 1..ino[i].size |-> disk[Mapped(i, (k - 1) \div BSIZE)][(k - 1) % BSIZE]]

ByteFile == INSTANCE ByteFiles
  WITH MaxRun <- MaxChunk, bytes <- [i \in Files |-> Contents(i)]

\* The file layer implements files of bytes.
StoresBytes == ByteFile!Spec
=============================================================================
