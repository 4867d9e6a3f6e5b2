------------------------------ MODULE MCUmalloc -----------------------------
(* Instances of Umalloc for TLC. *)
EXTENDS Umalloc
=============================================================================
