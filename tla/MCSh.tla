-------------------------------- MODULE MCSh ---------------------------------
(* Instances of Sh for TLC. *)
EXTENDS Sh

\* Every kind of command, alone and inside others.
MCLines == {
  <<>>, <<"a">>, <<"a", "&">>, <<"(">>, <<"<", "a">>, <<"a", ">", "a">>,
  <<"a", "|", "a", "|", "a">>,
  <<"(", "a", "|", "a", ")", "|", "a">>,
  <<"(", "a", "&", ")", "|", "a">>,
  <<"a", "&", ";", "a", "|", "a">>,
  <<"(", "a", ";", "a", ")", "|", "a", ">", "a">>,
  <<"a", "<", "a", "|", "(", "a", ";", "a", ")">> }
=============================================================================
