---------------------------- MODULE MCGowinLink ----------------------------
(***************************************************************************)
(* Instances of GowinLink: blocks of two bytes, one of which looks like a  *)
(* control byte of the protocol.                                           *)
(***************************************************************************)
EXTENDS GowinLink

MCDefault == <<"#", "x">>
MCZero == <<"x", "x">>
Reread == {<<"READ_EDID", 1>>}
NoRequests == {}

=============================================================================
