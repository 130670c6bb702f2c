------------------------------- MODULE UsbGaia -------------------------------
(***************************************************************************)
(* The two USB7206C hubs of the Gaia board. Both leave reset with the same *)
(* I2C address on the same bus, so the initialisation                      *)
(* (bootloader_usb_helpers.c) takes hub 1 first and moves it to another    *)
(* address, and then hub 0. The driver (usb7206c.c) has one context, whose *)
(* slave address every transfer uses, and looks at no result except that   *)
(* of the last transfer of a read.                                         *)
(*                                                                         *)
(* A routine is the sequence of its steps, most of them bus transfers:     *)
(* writing a register loads a command block into the hub and then runs it. *)
(* The bootloader initialises both hubs, the application does so again,    *)
(* and once more when it recovers from standby, this time without putting  *)
(* both hubs in reset first. The hubs and the bus are external.            *)
(***************************************************************************)
EXTENDS Integers, Sequences

CONSTANTS
  Retries,       \* timeout, the retries of the first read
  SlowHubs,      \* the hubs that may be silent for any time after a reset
  MaxLost,       \* bound on the transfers lost
  MaxReboots,    \* bound on the restarts of the processor
  MaxRecoveries, \* bound on the recoveries from standby
  MaxPlugs       \* bound on the changes of a cable

ASSUME GaiaAssumption ==
  /\ Retries \in Nat /\ SlowHubs \subseteq 0..1
  /\ {MaxLost, MaxReboots, MaxRecoveries, MaxPlugs} \subseteq Nat

VARIABLES
  stage,       \* the program that runs: "boot" or "app"
  current,     \* the hub under initialisation, or NoHub
  todo,        \* what is left of the running routine
  slave,       \* _usb7206c_ctxt.i2c_transfer.slaveAddress
  timeout,     \* the retries left, one more before the first read
  upstream,    \* upstream_cable_usb0, upstream_cable_usb1
  noCable,     \* the pins UsbUp0_nVbus and UsbUp1_nVbus
  hub,         \* the hubs
  result,      \* history: what the initialisation of a hub returned
  lost,        \* history: transfers lost in the initialisation of a hub
  deputy,      \* history: the other hub answered in place of one that was
               \* not up, and was taken for it
  faults, reboots, recoveries, plugs  \* what the bounds count

counts == <<faults, reboots, recoveries, plugs>>
gaiaVars == <<stage, current, todo, slave, timeout, upstream, noCable, hub,
              result, lost, deputy, counts>>

Hubs == 0..1
NoHub == 2
None == 1         \* no result yet
Original == "2D"  \* USB7206C_I2C_ADDR
New == "2E"       \* USB7206C_USBHUB1_NEW_I2C_ADDR

InReset == [reset |-> TRUE, awake |-> FALSE, running |-> FALSE,
            primary |-> Original, secondary |-> "2C", usb2 |-> 0, usb3 |-> 0,
            i2s |-> "on", block |-> <<"read", "none">>]

-----------------------------------------------------------------------------
(* The routines as sequences of steps. A step is its name, followed by     *)
(* what it needs.                                                          *)

RunAccess == <<<<"run">>>>
(* Load the command block, then the command to run it.                     *)
WriteReg(reg, value) == <<<<"load", reg, value>>>> \o RunAccess
(* Also point at the answer in the hub's memory and fetch it: only the     *)
(* result of the last transfer is looked at.                               *)
ReadReg(reg) == <<<<"load", "read", reg>>>> \o RunAccess
                \o <<<<"point">>, <<"fetch">>>>
(* enable_runtime_with_smbus                                               *)
Attach == <<<<"attach">>>>

RetrieveRevision == <<<<"load", "read", "revision">>>> \o RunAccess
                    \o <<<<"point">>, <<"revision">>>>
Identify == ReadReg("id") \o ReadReg("vid")
(* The driver hands over the address 0 for the value: what is written is   *)
(* the first byte of the vector table, zero in every build.                *)
DisableI2s == WriteReg("i2s", "off")
SetGeneric(reg, value) == WriteReg(reg, value)
Flex(value) == SetGeneric("usb2", value) \o SetGeneric("usb3", value)
GetGeneric(reg) == ReadReg(reg)
GetPrimary == ReadReg("primary")
SetAddress(reg, address) == WriteReg(reg, address)

(* _initialize_usb0_gaia                                                   *)
InitializeUsb0 ==
  <<<<"hold", 0>>, <<"context", Original>>, <<"release", 0>>>>
  \o RetrieveRevision \o Identify \o DisableI2s \o Attach \o <<<<"cable", 0>>>>

(* _initialize_usb1_gaia                                                   *)
InitializeUsb1 ==
  <<<<"hold", 1>>, <<"context", Original>>, <<"release", 1>>>>
  \o RetrieveRevision \o Identify \o DisableI2s
  \o Flex(1) \o GetGeneric("bcd")
  \o GetPrimary \o SetAddress("primary", New)
  \o <<<<"context", New>>>>
  \o GetPrimary \o SetAddress("secondary", "none")
  \o Attach \o <<<<"cable", 1>>>>

Initialize(h) == IF h = 0 THEN InitializeUsb0 ELSE InitializeUsb1

(* Fault: hub 0 is initialised first.                                      *)
FirstHub_Zero == 0

(* usb1 comes first because its address gets adjusted.                     *)
FirstHub == 1
OtherHub == 1 - FirstHub

(* The part of _detect_cable_change_gaia for one cable; with the cable     *)
(* gone both halves of the hub are switched, and then VBUS is toggled.     *)
Detect(h) == <<<<"compare", h>>>>
CableGone(h) == Flex(IF h = 0 THEN 1 ELSE 0)
DetectCableChange == Detect(0) \o Detect(1)

-----------------------------------------------------------------------------
(* The pins put both hubs in reset (BOARD_SetupUsbPins).                   *)
SetupUsbPins == hub' = [h \in Hubs |-> InReset]

StartInit ==
  /\ current' = FirstHub /\ todo' = Initialize(FirstHub)
  /\ timeout' = Retries + 1
  /\ result' = [h \in Hubs |-> None]
  /\ lost' = [h \in Hubs |-> 0] /\ deputy' = FALSE

StaticData == slave' = Original /\ upstream' = [h \in Hubs |-> FALSE]

GaiaInit ==
  /\ stage = "boot" /\ current = FirstHub /\ todo = Initialize(FirstHub)
  /\ slave = Original /\ timeout = Retries + 1
  /\ upstream = [h \in Hubs |-> FALSE] /\ noCable \in [Hubs -> BOOLEAN]
  /\ hub = [h \in Hubs |-> InReset]
  /\ result = [h \in Hubs |-> None] /\ lost = [h \in Hubs |-> 0]
  /\ deputy = FALSE /\ faults = 0 /\ reboots = 0 /\ recoveries = 0 /\ plugs = 0

-----------------------------------------------------------------------------
(* The bus. A transfer reaches every hub that is out of reset, awake and   *)
(* has the context's address. If there is none, or the transfer is lost,   *)
(* the master sees a NAK.                                                  *)

Listens(k) == ~hub[k].reset /\ hub[k].awake /\ slave = hub[k].primary
Answered == \E k \in Hubs : Listens(k)

(* What a transfer does to a hub that takes it.                            *)
Run(k) ==
  LET reg == k.block[1] IN
  IF reg = "read" THEN k ELSE [k EXCEPT ![reg] = k.block[2]]

Take(k, step) ==
  CASE step[1] = "load" -> [k EXCEPT !.block = <<step[2], step[3]>>]
    [] step[1] = "run" -> Run(k)
    [] step[1] = "attach" -> [k EXCEPT !.running = TRUE]
    [] OTHER -> k

Transfers == {"load", "run", "point", "fetch", "attach"}

Transferred(step) ==
  /\ hub' = [k \in Hubs |-> IF Listens(k) THEN Take(hub[k], step) ELSE hub[k]]
  /\ UNCHANGED <<lost, faults>>

LoseTransfer ==
  /\ faults < MaxLost /\ faults' = faults + 1
  /\ lost' = [lost EXCEPT ![IF current \in Hubs THEN current ELSE 0] = @ + 1]
  /\ UNCHANGED hub

(* Errors of all of these are checked with status < 0, which no error of   *)
(* the bus driver is; a fetch that fails only leaves a value unknown that  *)
(* is logged.                                                              *)
Transfer ==
  /\ todo # <<>> /\ Head(todo)[1] \in Transfers
  /\ Transferred(Head(todo)) \/ LoseTransfer
  /\ todo' = Tail(todo)
  /\ UNCHANGED <<stage, current, slave, timeout, upstream, noCable, result,
                 deputy, reboots, recoveries, plugs>>

(* The routine returns; the other hub's follows, or the loop.              *)
Return(value) ==
  /\ result' = [result EXCEPT ![current] = value]
  /\ IF current = FirstHub
     THEN /\ current' = OtherHub /\ todo' = Initialize(OtherHub)
     ELSE /\ current' = NoHub /\ todo' = <<>>
  /\ timeout' = Retries + 1

(* The revision is read again while that fails. The retries are counted    *)
(* after the read: the read that exhausts them is not looked at.           *)

(* Fault: a retry is not counted.                                          *)
CountRetry_Never == timeout' = Retries

CountRetry == timeout' = timeout - 1

(* Fault: the count is not compared with zero.                             *)
Exhausted_Never == FALSE

Exhausted == timeout = 0

Revision ==
  /\ todo # <<>> /\ Head(todo)[1] = "revision"
  /\ UNCHANGED <<stage, slave, upstream, noCable, reboots, recoveries, plugs>>
  /\ \E answered \in BOOLEAN :
       /\ \/ answered = Answered /\ Transferred(Head(todo))
          \/ ~answered /\ LoseTransfer
       /\ deputy' = (deputy \/ (answered /\ ~Listens(current)))
       /\ IF Exhausted THEN Return(-1)
          ELSE /\ CountRetry /\ UNCHANGED <<current, result>>
               /\ todo' = IF answered THEN Tail(todo)
                          ELSE RetrieveRevision \o Tail(todo)

Hold ==
  /\ todo # <<>> /\ Head(todo)[1] = "hold"
  /\ hub' = [hub EXCEPT ![Head(todo)[2]] = InReset]
  /\ todo' = Tail(todo)
  /\ UNCHANGED <<stage, current, slave, timeout, upstream, noCable, result,
                 lost, deputy, counts>>

(* usb7206c_init_ctxt                                                      *)
InitCtxt ==
  /\ todo # <<>> /\ Head(todo)[1] = "context"
  /\ slave' = Head(todo)[2]
  /\ todo' = Tail(todo)
  /\ UNCHANGED <<stage, current, timeout, upstream, noCable, hub, result,
                 lost, deputy, counts>>

Release ==
  /\ todo # <<>> /\ Head(todo)[1] = "release"
  /\ \E awake \in BOOLEAN :
       /\ awake \/ Head(todo)[2] \in SlowHubs
       /\ hub' = [hub EXCEPT ![Head(todo)[2]].reset = FALSE,
                             ![Head(todo)[2]].awake = awake]
  /\ todo' = Tail(todo)
  /\ UNCHANGED <<stage, current, slave, timeout, upstream, noCable, result,
                 lost, deputy, counts>>

(* The cable is read last and the routine returns 0.                       *)
ReadCable ==
  /\ todo # <<>> /\ Head(todo)[1] = "cable"
  /\ upstream' = [upstream EXCEPT ![Head(todo)[2]] = noCable[Head(todo)[2]]]
  /\ Return(0)
  /\ UNCHANGED <<stage, slave, noCable, hub, lost, deputy, counts>>

(* The pin is compared, and read again when it differs.                    *)
Compare ==
  /\ todo # <<>> /\ Head(todo)[1] = "compare"
  /\ LET h == Head(todo)[2] IN
     todo' = (IF noCable[h] = upstream[h] THEN <<>> ELSE <<<<"adopt", h>>>>)
             \o Tail(todo)
  /\ UNCHANGED <<stage, current, slave, timeout, upstream, noCable, hub,
                 result, lost, deputy, counts>>

Adopt ==
  /\ todo # <<>> /\ Head(todo)[1] = "adopt"
  /\ LET h == Head(todo)[2] IN
     /\ upstream' = [upstream EXCEPT ![h] = noCable[h]]
     /\ todo' = (IF noCable[h] THEN CableGone(h) ELSE <<>>) \o Tail(todo)
  /\ UNCHANGED <<stage, current, slave, timeout, noCable, hub, result, lost,
                 deputy, counts>>

-----------------------------------------------------------------------------
AtRest == current = NoHub /\ todo = <<>>

(* One pass of the application's main loop, as far as the hubs see it.     *)
MainLoop ==
  /\ AtRest /\ stage = "app"
  /\ todo' = DetectCableChange
  /\ UNCHANGED <<stage, current, slave, timeout, upstream, noCable, hub,
                 result, lost, deputy, counts>>

(* The bootloader starts the application, which sets up its pins and then  *)
(* initialises the hubs again (i2c_master_initialize_usb).                 *)
StartApplication ==
  /\ AtRest /\ stage = "boot"
  /\ stage' = "app"
  /\ SetupUsbPins /\ StaticData /\ StartInit
  /\ UNCHANGED <<noCable, counts>>

(* The application recovers from standby; the pins stay as they are.       *)
RecoverFromStandby ==
  /\ AtRest /\ stage = "app" /\ recoveries < MaxRecoveries
  /\ recoveries' = recoveries + 1
  /\ StartInit
  /\ UNCHANGED <<stage, slave, upstream, noCable, hub, faults, reboots, plugs>>

(* The processor is reset, or the application leaves its loop and runs     *)
(* again: the pins and static data are set up from the start.              *)
Reboot ==
  /\ reboots < MaxReboots /\ reboots' = reboots + 1
  /\ stage' \in {"boot", stage}
  /\ SetupUsbPins /\ StaticData /\ StartInit
  /\ UNCHANGED <<noCable, faults, recoveries, plugs>>

(* A hub that was slow to come out of reset is up.                         *)
Wake(h) ==
  /\ ~hub[h].reset /\ ~hub[h].awake
  /\ hub' = [hub EXCEPT ![h].awake = TRUE]
  /\ UNCHANGED <<stage, current, todo, slave, timeout, upstream, noCable,
                 result, lost, deputy, counts>>

Plug(h) ==
  /\ plugs < MaxPlugs /\ plugs' = plugs + 1
  /\ noCable' = [noCable EXCEPT ![h] = ~@]
  /\ UNCHANGED <<stage, current, todo, slave, timeout, upstream, hub, result,
                 lost, deputy, faults, reboots, recoveries>>

Step == Transfer \/ Revision \/ Hold \/ InitCtxt \/ Release \/ ReadCable
        \/ Compare \/ Adopt

GaiaNext ==
  \/ Step \/ MainLoop \/ StartApplication \/ RecoverFromStandby \/ Reboot
  \/ \E h \in Hubs : Wake(h) \/ Plug(h)

-----------------------------------------------------------------------------

GaiaTypeOK ==
  /\ stage \in {"boot", "app"} /\ current \in 0..2
  /\ slave \in {Original, New}
  /\ timeout \in 0..(Retries + 1)
  /\ \A h \in Hubs : hub[h].primary \in {Original, New} /\ hub[h].usb2 \in 0..1

(* Whenever the initialisation of both hubs succeeded and nothing was lost *)
(* on the bus, hub 1 has the new address and hub 0 the original one, and   *)
(* each holds its own configuration: what is sent to the address both of   *)
(* them start with never stays in the wrong one, however long either takes *)
(* to come up and wherever a restart interrupts (_initialize_usb1_gaia,    *)
(* _initialize_usb0_gaia). Later writes on a change of a cable go to one   *)
(* hub and switch both of its halves (_detect_cable_change_gaia). After a  *)
(* standby hub 0 is not in reset when hub 1 is waited for, and may answer  *)
(* in its place: this is not claimed where that happened (deputy, see      *)
(* WaitedForHub).                                                          *)
Configured(h) ==
  ~hub[h].reset /\ hub[h].running /\ hub[h].i2s = "off"
Hub0Own == hub[0].primary = Original /\ hub[0].secondary = "2C"
           /\ hub[0].usb2 = hub[0].usb3
Hub1Own == hub[1].primary = New /\ hub[1].secondary = "none"
           /\ hub[1].usb2 = 1 /\ hub[1].usb3 = 1
ToldApart == recoveries = 0 \/ ~deputy
ConfiguredApart ==
  AtRest /\ ToldApart /\ lost[1] = 0 /\ result[1] = 0 =>
    /\ Configured(1) /\ Hub1Own
    /\ lost[0] = 0 /\ result[0] = 0 => Configured(0) /\ Hub0Own

(* The driver waits until the hub answers ("USB1 - waiting for hub to      *)
(* answer", the loop around usb7206c_retrieve_revision): when the          *)
(* initialisation of a hub has succeeded and no transfer was lost, that    *)
(* hub was awake to hear it.  The code does not keep this (README,         *)
(* findings).                                                              *)
WaitedForHub ==
  \A h \in Hubs : result[h] = 0 /\ lost[h] = 0 => hub[h].awake

=============================================================================
