------------------------------- MODULE MCUvm --------------------------------
(* Instances of Uvm for TLC. *)
EXTENDS Uvm
=============================================================================
