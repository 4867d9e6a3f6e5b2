------------------------------- MODULE MCWmap -------------------------------
(* Instances of Wmap for TLC: pages of 2 bytes, 4 of them in the WMAP area, *)
(* 2 to a page table.                                                       *)
EXTENDS Wmap

\* MAP_FIXED requests, also ones that end beyond KERNBASE.
AnyFixed == (WMAPBASE..KERNBASE) \X (1..4)

\* TLC does not go on from a state in which an entry names a wrong frame.
FramesKnown == ~wild /\ ~split
=============================================================================
