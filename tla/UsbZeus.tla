------------------------------- MODULE UsbZeus -------------------------------
(***************************************************************************)
(* The USB5807C hub and the Si5341 clock generator of the Zeus board       *)
(* (_initialize_usb_zeus in bootloader_usb_helpers.c, usb5807c.c,          *)
(* si5341.c). The clock generator can be reached only once the hub runs.   *)
(* Its registers are in pages; the driver remembers the page it selected   *)
(* last and selects another only when a register of the table needs it.    *)
(*                                                                         *)
(* The bootloader tries the initialisation several times, the application  *)
(* once. The memory of the driver starts over with each program, the clock *)
(* generator keeps its page. The chips and the bus are external; a         *)
(* transfer that is lost has no effect and is reported to the driver.      *)
(***************************************************************************)
EXTENDS Integers, Sequences, FiniteSets

CONSTANTS
  Tries,        \* timeout in main() of the bootloader
  ZeusMaxLost,  \* bound on the transfers lost
  ZeusReboots   \* bound on the restarts of the processor

ASSUME ZeusAssumption == {Tries, ZeusMaxLost, ZeusReboots} \subseteq Nat

VARIABLES
  zStage,    \* the program that runs: "boot" or "app"
  zPc,       \* where the initialisation is
  zTimeout,  \* retries left in the bootloader
  zHub,      \* the hub
  zResult,   \* what the last try returned, or 1: none
  index,     \* i of si5341_dump_initial_regmap
  page,      \* _ctxt.page of si5341.c
  chipPage,  \* the page the clock generator is on
  written,   \* history: the page on which each entry was written, or -1
  dumpLost,  \* history: transfers lost while the table was written
  zLost, zReboots  \* what the bounds count

zCounts == <<zLost, zReboots>>
clockVars == <<index, page, chipPage, written, dumpLost>>
zeusVars == <<zStage, zPc, zTimeout, zHub, zResult, clockVars, zCounts>>

(* The pages of si5341_revd_registers in its order: every register of the  *)
(* preamble and the postamble, and one for each run of registers on the    *)
(* same page in between.                                                   *)
Preamble == <<11, 11, 5, 5, 9, 11>>
Registers == <<0, 1, 2, 3, 8, 9, 10, 11>>
Postamble == <<0, 11, 11>>
Pages == Preamble \o Registers \o Postamble

HeldHub == [reset |-> TRUE, awake |-> FALSE, attached |-> FALSE,
            upstream |-> 0]
Entries == 1..Len(Pages)
NoneWritten == [i \in Entries |-> -1]

ZeusInit ==
  /\ zStage = "boot" /\ zPc = "reset" /\ zTimeout = Tries
  /\ zHub = HeldHub /\ zResult = 1
  /\ index = 1 /\ page = 0 /\ chipPage = 0 /\ written = NoneWritten
  /\ dumpLost = 0 /\ zLost = 0 /\ zReboots = 0

-----------------------------------------------------------------------------
(* Reset low and high again; the hub may need longer to come up than the   *)
(* routine waits, or never come up.                                        *)
ResetHub ==
  /\ zPc = "reset" /\ zPc' = "attach"
  /\ \E awake \in BOOLEAN :
       zHub' = [HeldHub EXCEPT !.reset = FALSE, !.awake = awake]
  /\ UNCHANGED <<zStage, zTimeout, zResult, clockVars, zCounts>>

WakeHub ==
  /\ ~zHub.reset /\ ~zHub.awake
  /\ zHub' = [zHub EXCEPT !.awake = TRUE]
  /\ UNCHANGED <<zStage, zPc, zTimeout, zResult, clockVars, zCounts>>

(* Fault: the retries are not counted.                                     *)
ReturnFrom_Forever(value) ==
  /\ zResult' = value
  /\ UNCHANGED zTimeout
  /\ zPc' = IF value < 0 /\ zStage = "boot" THEN "reset" ELSE "rest"

(* main() tries again after a failure, Tries times; i2c_master_initialize_ *)
(* usb does not look at the result.                                        *)
ReturnFrom(value) ==
  /\ zResult' = value
  /\ IF value < 0 /\ zStage = "boot" /\ zTimeout > 0
     THEN zPc' = "reset" /\ zTimeout' = zTimeout - 1
     ELSE zPc' = "rest" /\ UNCHANGED zTimeout

(* An access to a register of the hub succeeds when all its transfers do   *)
(* (_usb5807c_write_config_reg, _usb5807c_read_config_reg).                *)
HubAccess(ok) ==
  \/ ok /\ zHub.awake /\ UNCHANGED zLost
  \/ ~ok /\ ~zHub.awake /\ UNCHANGED zLost
  \/ ~ok /\ zHub.awake /\ zLost < ZeusMaxLost /\ zLost' = zLost + 1

(* Fault: the result of an access is not looked at.                        *)
Checked_Ignored(at, next, after) ==
  /\ zPc = at /\ zPc' = next
  /\ \E ok \in BOOLEAN :
       HubAccess(ok) /\ zHub' = IF ok THEN after ELSE zHub
  /\ UNCHANGED <<zStage, zTimeout, zResult, clockVars, zReboots>>

(* One of the accesses whose failure ends the routine.                     *)
Checked(at, next, after) ==
  /\ zPc = at
  /\ \E ok \in BOOLEAN :
       /\ HubAccess(ok)
       /\ IF ok THEN zPc' = next /\ zHub' = after
                     /\ UNCHANGED <<zTimeout, zResult>>
          ELSE ReturnFrom(-1) /\ UNCHANGED zHub
  /\ UNCHANGED <<zStage, clockVars, zReboots>>

EnableRuntime == Checked("attach", "upstream",
                         [zHub EXCEPT !.attached = TRUE])
SetUpstreamPort == Checked("upstream", "id", [zHub EXCEPT !.upstream = 1])

(* The vendor id and the revision are only logged.                         *)
RetrieveId == Checked("id", "clock", zHub)

-----------------------------------------------------------------------------
(* The clock generator.                                                    *)

StartDump ==
  /\ zPc = "clock" /\ zPc' = "dump"
  /\ index' = 1 /\ written' = NoneWritten /\ dumpLost' = 0
  /\ UNCHANGED <<zStage, zTimeout, zHub, zResult, page, chipPage, zCounts>>

(* A transfer of the driver, and whether the chip took it.                 *)
ClockTransfer(ok) ==
  \/ ok /\ zHub.attached /\ UNCHANGED <<dumpLost, zLost>>
  \/ /\ ~ok /\ zLost < ZeusMaxLost
     /\ zLost' = zLost + 1 /\ dumpLost' = dumpLost + 1

(* Fault: the page is remembered before the transfer is looked at.         *)
SelectPage_Early(ok) ==
  /\ page' = Pages[index]
  /\ chipPage' = IF ok THEN Pages[index] ELSE chipPage

(* Selecting a page: it is remembered when the chip took it.               *)
SelectPage(ok) ==
  IF ok THEN page' = Pages[index] /\ chipPage' = Pages[index]
  ELSE UNCHANGED <<page, chipPage>>

NextEntry == index' = index + 1

(* _si5341_i2c_write: a register on another page takes two transfers, and  *)
(* is given up when the first of them fails.                               *)
SwapPage ==
  /\ zPc = "dump" /\ index \in Entries /\ page # Pages[index]
  /\ \E ok \in BOOLEAN :
       /\ ClockTransfer(ok) /\ SelectPage(ok)
       /\ IF ok THEN zPc' = "data" /\ UNCHANGED index
          ELSE zPc' = zPc /\ NextEntry
  /\ UNCHANGED <<zStage, zTimeout, zHub, zResult, written, zReboots>>

(* The entry of the table is written, on the page the chip is on; an error *)
(* is logged and the next entry follows.                                   *)
WriteEntry ==
  /\ zPc \in {"dump", "data"} /\ index \in Entries
  /\ zPc = "dump" => page = Pages[index]
  /\ zPc' = "dump" /\ NextEntry
  /\ \E ok \in BOOLEAN :
       /\ ClockTransfer(ok)
       /\ written' = IF ok THEN [written EXCEPT ![index] = chipPage]
                     ELSE written
  /\ UNCHANGED <<zStage, zTimeout, zHub, zResult, page, chipPage, zReboots>>

EndOfDump ==
  /\ zPc = "dump" /\ index \notin Entries
  /\ ReturnFrom(0)
  /\ UNCHANGED <<zStage, zHub, clockVars, zCounts>>

-----------------------------------------------------------------------------
(* The pins hold the hub in reset (BOARD_SetupUSB5807CPins).               *)
ZeusStart ==
  /\ zHub' = HeldHub
  /\ zPc' = "reset" /\ zTimeout' = Tries /\ zResult' = 1 /\ page' = 0
  /\ index' = 1 /\ written' = NoneWritten /\ dumpLost' = 0

(* The bootloader starts the application, whatever became of the hub.      *)
ZeusApplication ==
  /\ zPc = "rest" /\ zStage = "boot" /\ zStage' = "app"
  /\ ZeusStart
  /\ UNCHANGED <<chipPage, zCounts>>

ZeusReboot ==
  /\ zReboots < ZeusReboots /\ zReboots' = zReboots + 1
  /\ zStage' \in {"boot", zStage}
  /\ ZeusStart
  /\ UNCHANGED <<chipPage, zLost>>

(* The application initialises hub and clocks again after a standby; its   *)
(* memory is as it was.                                                    *)
ZeusRecover ==
  /\ zPc = "rest" /\ zStage = "app" /\ zReboots < ZeusReboots
  /\ zReboots' = zReboots + 1
  /\ zPc' = "reset" /\ zResult' = 1
  /\ UNCHANGED <<zStage, zTimeout, zHub, clockVars, zLost>>

ZeusStep == ResetHub \/ EnableRuntime \/ SetUpstreamPort \/ RetrieveId
            \/ StartDump \/ SwapPage \/ WriteEntry \/ EndOfDump

ZeusNext == ZeusStep \/ WakeHub \/ ZeusApplication \/ ZeusReboot
            \/ ZeusRecover

-----------------------------------------------------------------------------

(* A register of the table is written on its own page or not at all, and   *)
(* each transfer that is lost costs at most one register, whatever page    *)
(* the generator was left on by an earlier program (_si5341_i2c_write).    *)
(* It holds for ZeusMaxLost below six: where all six registers of the      *)
(* preamble are lost after a restart, the first page is never selected and *)
(* its registers go to whatever page the generator is on.                  *)
Missing == {i \in 1..(index - 1) : written[i] = -1}
EntriesOnTheirPage ==
  /\ \A i \in Entries : written[i] \in {-1, Pages[i]}
  /\ Cardinality(Missing) <= dumpLost

(* When the initialisation returns success the hub is attached, with its   *)
(* upstream port set, and the whole table has been gone through            *)
(* (_initialize_usb_zeus).                                                 *)
SuccessMeansReady ==
  zPc = "rest" /\ zResult = 0 =>
    zHub.attached /\ zHub.upstream = 1 /\ index = Len(Pages) + 1


=============================================================================
