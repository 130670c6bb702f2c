----------------------------- MODULE MCUsbBoards -----------------------------
(***************************************************************************)
(* Instances of UsbBoards for TLC: every constant is a bound or a set of   *)
(* hubs, given in the configurations.                                      *)
(***************************************************************************)
EXTENDS UsbBoards

=============================================================================
