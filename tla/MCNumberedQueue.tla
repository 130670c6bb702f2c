--------------------------- MODULE MCNumberedQueue ---------------------------
(***************************************************************************)
(* Instances of NumberedQueue for TLC.                                     *)
(***************************************************************************)
EXTENDS NumberedQueue

MCEntries == [id : 1..MaxSent, msg : Messages]

=============================================================================
