------------------------------- MODULE SpiQueue -------------------------------
(***************************************************************************)
(* The SPI command queue of the application (spi_master.c): the I2C        *)
(* interrupt puts commands in its slots, the main loop executes them.  The *)
(* main loop is pc; the interrupt may run between any two of its steps.    *)
(* What a command does to the flash is left to the modules that extend     *)
(* this one: here a command is an entry of a slot that is executed.        *)
(***************************************************************************)
EXTENDS Integers

CONSTANTS
  Length,     \* SPI_MSG_QUEUE_LENGTH
  Entries,    \* what a slot may hold
  Empty       \* SPI_NO_CMD

VARIABLES
  slots,      \* SPI_MSG_QUEUE
  msgIndex,   \* MsgIndex
  prevIndex,  \* prevIndex of spi_queue_process
  scan,       \* i of the loop that looks for the lowest occupied slot
  muxOn,      \* SpiMuxSelected, and the mux it stands for
  pc          \* where the main loop is

main == <<msgIndex, prevIndex, scan, muxOn, pc>>
queueVars == <<slots, main>>

Slots == 0..(Length - 1)
Steps == {"loop", "next", "scan", "run", "exec", "release"}

ASSUME LengthAssumption == Length \in Nat \ {0}
ASSUME EmptyAssumption == Empty \notin Entries

Occupied == {i \in Slots : slots[i] # Empty}
Current == slots[msgIndex]
Full == Occupied = Slots

QueueInit ==
  /\ slots = [i \in Slots |-> Empty]
  /\ msgIndex = 0
  /\ prevIndex = 0
  /\ scan = 0
  /\ muxOn = FALSE
  /\ pc = "loop"

-----------------------------------------------------------------------------
(* The I2C interrupt: spi_queue_msg_param.                                 *)

IsFirstFree(i) == i \notin Occupied /\ \A j \in 0..(i - 1) : j \in Occupied

(* Fault: a command goes to the slot after the one served last, taken or   *)
(* not.                                                                    *)
Accept_Fault(e) ==
  /\ slots' = [slots EXCEPT ![(msgIndex + 1) % Length] = e]
  /\ UNCHANGED main

Accept(e) ==
  /\ \E i \in Slots : IsFirstFree(i) /\ slots' = [slots EXCEPT ![i] = e]
  /\ UNCHANGED main

Drop == Full /\ UNCHANGED queueVars

-----------------------------------------------------------------------------
(* The main loop: spi_master_update and spi_queue_process.                 *)

(* Fault: the mux is left to the queue when nothing waits.                 *)
Poll_Fault ==
  /\ pc = "loop"
  /\ Occupied # {}
  /\ muxOn' = TRUE
  /\ pc' = "next"
  /\ UNCHANGED <<slots, msgIndex, prevIndex, scan>>

Poll ==
  /\ pc = "loop"
  /\ IF Occupied # {}
     THEN muxOn' = TRUE /\ pc' = "next"
     ELSE muxOn /\ muxOn' = FALSE /\ pc' = "loop"
  /\ UNCHANGED <<slots, msgIndex, prevIndex, scan>>

(* Fault: the slot after the last one is not told from slot 0.             *)
SelectNext_Fault ==
  /\ pc = "next"
  /\ msgIndex' = prevIndex + 1
  /\ pc' = IF prevIndex + 1 \in Occupied THEN "run" ELSE "scan"
  /\ scan' = 0
  /\ UNCHANGED <<slots, prevIndex, muxOn>>

SelectNext ==
  /\ pc = "next"
  /\ IF prevIndex < Length - 1 /\ prevIndex + 1 \in Occupied
     THEN msgIndex' = prevIndex + 1 /\ pc' = "run"
     ELSE msgIndex' = 0 /\ pc' = "scan"
  /\ scan' = 0
  /\ UNCHANGED <<slots, prevIndex, muxOn>>

Scan ==
  /\ pc = "scan"
  /\ msgIndex' = IF scan \in Occupied THEN scan ELSE msgIndex
  /\ IF scan \in Occupied \/ scan = Length - 1
     THEN scan' = 0 /\ pc' = "run"
     ELSE scan' = scan + 1 /\ pc' = "scan"
  /\ UNCHANGED <<slots, prevIndex, muxOn>>

Run ==
  /\ pc = "run"
  /\ prevIndex' = msgIndex
  /\ pc' = IF Current = Empty THEN "loop" ELSE "exec"
  /\ UNCHANGED <<slots, msgIndex, scan, muxOn>>

(* The last step of the command; the slot is freed after it.               *)
Execute ==
  /\ pc = "exec"
  /\ pc' = "release"
  /\ UNCHANGED <<slots, msgIndex, prevIndex, scan, muxOn>>

Release ==
  /\ pc = "release"
  /\ slots' = [slots EXCEPT ![msgIndex] = Empty]
  /\ pc' = "loop"
  /\ UNCHANGED <<msgIndex, prevIndex, scan, muxOn>>

(* spi_master_setup, at every start of the application.                    *)
Setup ==
  /\ slots' = [i \in Slots |-> Empty]
  /\ msgIndex' = 0
  /\ prevIndex' = 0
  /\ scan' = 0
  /\ muxOn' = FALSE
  /\ pc' = "loop"

Select == Poll \/ SelectNext \/ Scan \/ Run

-----------------------------------------------------------------------------

(* Type correctness of the queue; a command that runs is in its slot.      *)
QueueTypeOK ==
  /\ slots \in [Slots -> Entries \cup {Empty}]
  /\ msgIndex \in Slots /\ prevIndex \in Slots /\ scan \in Slots
  /\ muxOn \in BOOLEAN
  /\ pc \in Steps
  /\ pc \in {"exec", "release"} => Current # Empty

=============================================================================
