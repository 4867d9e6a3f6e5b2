----------------------------- MODULE MCFileData -----------------------------
(* Instances of FileData for TLC: blocks of two cells, one direct block and *)
(* one indirect one to a file, chunks of one block.                         *)
EXTENDS FileData, TLC

\* One file, in a direct and an indirect block, made by mkfs.
MCImages == {<<[ip |-> i, size |-> 3]>> : i \in Files}

Symmetry == Permutations(Procs) \cup Permutations(Files)
=============================================================================
