-------------------------------- MODULE Mkfs --------------------------------
(***************************************************************************)
(* The disk image that mkfs.c writes: a root directory and the given files, *)
(* in blocks taken in order.  An image is a record of the first block not   *)
(* taken, the inodes and the data blocks, numbered from 1 (nmeta in the     *)
(* source); the blocks before them, the superblock, the log and the inode   *)
(* blocks, are not part of it.  Every function takes the image to write on. *)
(***************************************************************************)
EXTENDS Integers, Sequences, SequencesExt

CONSTANTS
  BSIZE, NDIRECT, NINDIRECT, NBLOCKS,
  Root,        \* the root directory
  DIRENT       \* cells in a directory entry

NoInode == [size |-> 0, addrs |-> [k \in 0..NDIRECT |-> 0]]

\* The image before the root directory: no inodes, every block zero.
Blank ==
  [freeblock |-> 1, din |-> <<>>,
   disk |-> [b \in 1..NBLOCKS |-> [k \in 0..BSIZE - 1 |-> 0]]]

\* ialloc(): inode i, empty.
ialloc(img, i) ==
  [img EXCEPT !.din = [j \in DOMAIN @ \cup {i} |-> IF j = i THEN NoInode ELSE @[j]]]

\* The block that addrs[k] of inode i names, taken if there is none.
Listed(img, i, k) ==
  IF img.din[i].addrs[k] # 0 THEN img
  ELSE [img EXCEPT !.din[i].addrs[k] = img.freeblock, !.freeblock = @ + 1]

\* The image in which inode i has its block fbn.
WithBlock(img, i, fbn) ==
  IF fbn < NDIRECT THEN Listed(img, i, fbn)
  ELSE LET s == Listed(img, i, NDIRECT)
           indirect == s.din[i].addrs[NDIRECT]
       IN IF s.disk[indirect][fbn - NDIRECT] # 0 THEN s
          ELSE [s EXCEPT !.disk[indirect][fbn - NDIRECT] = s.freeblock,
                         !.freeblock = @ + 1]

\* One cell more for inode i, as iappend() copies it.
Cell(img, i) ==
  LET off == img.din[i].size
      fbn == off \div BSIZE
      s == WithBlock(img, i, fbn)
      x == IF fbn < NDIRECT THEN s.din[i].addrs[fbn]
           ELSE s.disk[s.din[i].addrs[NDIRECT]][fbn - NDIRECT]
  IN [s EXCEPT !.disk[x][off % BSIZE] = i, !.din[i].size = off + 1]

\* iappend(): n cells of inode i.
iappend(img, i, n) == FoldLeft(LAMBDA s, k : Cell(s, i), img, [k \in 1..n |-> k])

\* One iteration of main()'s loop over the files: the inode, its entry in the
\* root directory, its contents.
AddFile(img, f) ==
  iappend(iappend(ialloc(img, f.ip), Root, DIRENT), f.ip, f.size)

\* balloc(): the blocks marked in the bitmap.
balloc(used) == 1..used - 1

\* main(): the root directory with . and .., the files, the size of the root
\* directory, always one block more than those it fills, and the bitmap.
mkfs(files) ==
  LET root == iappend(ialloc(Blank, Root), Root, 2 * DIRENT)
      img == FoldLeft(AddFile, root, files)
      off == ((img.din[Root].size \div BSIZE) + 1) * BSIZE
  IN [disk |-> img.disk, used |-> balloc(img.freeblock),
      din |-> [img.din EXCEPT ![Root].size = off]]
=============================================================================
