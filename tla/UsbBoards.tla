------------------------------ MODULE UsbBoards ------------------------------
(***************************************************************************)
(* The initialisation of the USB hubs on the two boards: the same program, *)
(* built for one of them (i2c_master_initialize_usb looks at the name of   *)
(* the board).                                                             *)
(***************************************************************************)
EXTENDS UsbGaia, UsbZeus

VARIABLE board  \* BOARD_GetName: "Gaia300D" or "Zeus300S"

vars == <<board, gaiaVars, zeusVars>>

Init ==
  /\ board \in {"Gaia300D", "Zeus300S"}
  /\ GaiaInit /\ ZeusInit

InitializeUsb ==
  \/ board = "Gaia300D" /\ Step /\ UNCHANGED zeusVars
  \/ board = "Zeus300S" /\ ZeusStep /\ UNCHANGED gaiaVars

Next ==
  /\ UNCHANGED board
  /\ \/ board = "Gaia300D" /\ GaiaNext /\ UNCHANGED zeusVars
     \/ board = "Zeus300S" /\ ZeusNext /\ UNCHANGED gaiaVars

Spec == Init /\ [][Next]_vars

(* The routines are straight-line code of the only thread: they go on. No  *)
(* fairness for the hubs, the cables or the operator.                      *)
FairSpec == Spec /\ WF_vars(UNCHANGED board /\ InitializeUsb)

(* Type correctness.                                                       *)
TypeOK ==
  /\ GaiaTypeOK
  /\ index \in 1..(Len(Pages) + 1) /\ zTimeout \in 0..Tries

(* The initialisation ends on either board, though a hub never answers and *)
(* whatever is lost on the bus: the watchdog's deadline aside, the device  *)
(* reaches the loop in which its host finds it.                            *)
InitEnds ==
  []<>(IF board = "Gaia300D" THEN AtRest ELSE zPc = "rest")

=============================================================================
