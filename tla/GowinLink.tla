------------------------------ MODULE GowinLink ------------------------------
(***************************************************************************)
(* The link between the GPMCU application and the Gowin FPGA: the command  *)
(* queue and reply decoder of gowin_protocol.c, the UART interrupt that    *)
(* feeds its ring buffer, the part of the main loop that drives it, and    *)
(* the two ways around the queue (I2C register 0x40 and the recovery from  *)
(* standby).                                                               *)
(*                                                                         *)
(* The main loop is pc; an interrupt may run between any two of its steps. *)
(* The FPGA is external: it executes the commands it receives in order and *)
(* answers whenever it likes, so every reply may also come after the       *)
(* timeout.                                                                *)
(***************************************************************************)
EXTENDS Integers, Sequences

CONSTANTS
  QueueSize,     \* GOWIN_MSG_QUEUE_SIZE
  ReplyTimeout,  \* GOWIN_REPLY_TIMEOUT, in polls of the main loop
  DataLen,       \* GOWIN_EDID_BYTE_LENGTH
  BufSize,       \* FPGA_MSGBUF_SIZE
  RingSize,      \* GOWIN_RXBUF_SIZE
  FloodLimit,    \* FIFO overruns after which the UART is disabled
  RecoverDelay,  \* autorecoverDelay, in iterations of the main loop
  Default,       \* the EDID or DPCD block of the data map at start-up
  Zero,          \* the blocks read back into, and the FPGA's own, at start-up
  Requests,      \* read and write commands the main CPU may ask for
  DirectCmds,    \* commands that may be written to I2C register 0x40
  Env,           \* what the FPGA and the link may do beyond answering
  MaxAsks,       \* bound on requests and direct commands in a behaviour
  MaxFaults      \* bound on losses, overruns and wake-up messages

Bytes == {"$", "#", "ack", "nack", "x"}   \* "x": every other byte
Blocks == [1..DataLen -> Bytes]
Kinds == {"edid", "dpcd"}
Indexes == 0..2
Slots == 0..(QueueSize - 1)

ReadCmd == [edid |-> "READ_EDID", dpcd |-> "READ_DPCD"]
WriteCmd == [edid |-> "WRITE_EDID", dpcd |-> "WRITE_DPCD"]
DataCmds == {ReadCmd[k] : k \in Kinds} \cup {WriteCmd[k] : k \in Kinds}
StandbyCmds == {"SET_STANDBY_ON", "SET_STANDBY_OFF"}
RegCmds == {"READ_ETH_STATUS", "READ_BL_CURRENT"}
SingleBytes == {"ACK", "NACK"}
Cmds == DataCmds \cup StandbyCmds \cup RegCmds \cup SingleBytes \cup {"PIO"}
NoCmd == "NO_GOWIN_CMD"

Reading == {"READING_EDID", "READING_DPCD", "READING_1BYTE", "READING_2BYTE"}
States == Reading \cup
  {"START", "STOP", "WAIT_EDID", "WAIT_DPCD", "WRITE_ACK", "WAIT_ACK"}

(* "loss": commands and bytes are lost; "wakeup": the FPGA sends WAKE_UP;  *)
(* "flood": it sends without end, the receive FIFO overruns;               *)
(* "nack": a command is refused.                                           *)
EnvChoices == {"loss", "wakeup", "flood", "nack"}

ASSUME SizeAssumption ==
  /\ QueueSize \in Nat /\ QueueSize >= 7
  /\ ReplyTimeout \in Nat
  /\ DataLen \in Nat \ {0}
  /\ BufSize \in Nat /\ BufSize > DataLen /\ BufSize > 3
  /\ RingSize \in Nat \ {0}
  /\ FloodLimit \in Nat
  /\ RecoverDelay \in Nat \ {0}
  /\ MaxAsks \in Nat /\ MaxFaults \in Nat
ASSUME DataAssumption ==
  /\ Default \in Blocks /\ Zero \in Blocks
  /\ Requests \subseteq DataCmds \X Indexes
  /\ DirectCmds \subseteq Cmds
  /\ Env \subseteq EnvChoices

VARIABLES
  queue,         \* GOWIN_MSG_QUEUE
  MsgIndex,      \* the slot sent last
  idx,           \* EdidIndex and DpcdIndex
  State,         \* GOWIN_DATA.State
  WaitForReply,  \* GOWIN_DATA.WaitForReply
  RxBusy,        \* GOWIN_DATA.RxBusy
  buf,           \* GOWIN_DATA.MsgBuf up to MsgBufWr
  TimeoutCount,  \* GOWIN_DATA.TimeoutCount
  MsgCount,      \* GOWIN_DATA.MsgCount
  verify,        \* GOWIN_DATA.verifyReadBack
  mem,           \* Main.Edid and Main.Dpcd
  reg,           \* EthernetStatusBits and PanelCurrent, as last received
  lowPower,      \* Main.Diagnostics.InLowPowerMode
  delay,         \* autorecoverDelay
  ring,          \* UART_DATA[UART2] between RxBufRd and RxBufWr
  pc,            \* where the main loop is
  ret,           \* return value of GOWIN_Protocol
  overruns,      \* cnt of BOARD_GOWIN_FLEXCOMM_IRQ
  uartOn,        \* USART1 has not been disabled
  inbox,         \* external: commands on their way to the FPGA
  wire,          \* external: bytes on their way to the GPMCU
  fpga,          \* external: the FPGA's EDID and DPCD
  asks,          \* requests and direct commands so far
  faults,        \* faults so far
  sent,          \* the slot's command has been sent (history)
  waited,        \* polls since a command was last sent (history)
  bypassed,      \* a command went around a queued one (history)
  disturbed      \* a fault, a refusal or a timeout occurred (history)

queueVars == <<queue, MsgIndex, idx>>
protoVars == <<State, WaitForReply, RxBusy, buf, TimeoutCount>>
dataVars == <<mem, reg>>
powerVars == <<lowPower, delay>>
uartVars == <<ring, overruns, uartOn>>
fpgaVars == <<inbox, wire, fpga>>
ghostVars == <<asks, faults, sent, waited, bypassed, disturbed>>
vars == <<queueVars, protoVars, MsgCount, verify, dataVars, powerVars, uartVars,
          pc, ret, fpgaVars, ghostVars>>

Msg(c, p) == [cmd |-> c, param |-> p]
Empty == Msg(NoCmd, 0)
Full == \A i \in Slots : queue[i].cmd # NoCmd
Drained == \A i \in Slots : queue[i].cmd = NoCmd

(* The lowest slot for which Test holds.                                   *)
Lowest(S) == CHOOSE i \in S : \A j \in S : i <= j

(* What main() queues before its loop: the panel settings, then            *)
(* GOWIN_Edid_Initialize(true).                                            *)
Startup ==
  <<Msg("PIO", 0), Msg("PIO", 0), Msg("PIO", 0),
    Msg("WRITE_EDID", 0), Msg("WRITE_DPCD", 0),
    Msg("READ_EDID", 2), Msg("READ_DPCD", 2)>>

Init ==
  /\ queue = [i \in Slots |-> IF i < 7 THEN Startup[i + 1] ELSE Empty]
  /\ MsgIndex = 0 /\ idx = [k \in Kinds |-> 0]
  /\ State = "START" /\ WaitForReply = FALSE /\ RxBusy = FALSE
  /\ buf = <<>> /\ TimeoutCount = 0 /\ MsgCount = 0 /\ verify = TRUE
  /\ mem = [k \in Kinds |-> [i \in Indexes |-> IF i = 0 THEN Default ELSE Zero]]
  /\ reg = [c \in RegCmds |-> <<>>]
  /\ lowPower = FALSE /\ delay = RecoverDelay
  /\ ring = <<>> /\ overruns = 0 /\ uartOn = TRUE
  /\ pc = "main" /\ ret = "NONE"
  /\ inbox = <<>> /\ wire = <<>> /\ fpga = [k \in Kinds |-> Zero]
  /\ asks = 0 /\ faults = 0
  /\ sent = [i \in Slots |-> FALSE]
  /\ waited = 0 /\ bypassed = FALSE /\ disturbed = FALSE

(***************************************************************************)
(* GOWIN_TX_SendMsg(c): from the queue, from the I2C interrupt, or from    *)
(* the recovery out of standby.                                            *)
(***************************************************************************)
(* The state that receives the reply of a command with a reply of its own. *)
ReplyState ==
  [READ_EDID |-> "WAIT_EDID", READ_DPCD |-> "WAIT_DPCD",
   WRITE_EDID |-> "WRITE_ACK", WRITE_DPCD |-> "WRITE_ACK",
   READ_ETH_STATUS |-> "READING_1BYTE", READ_BL_CURRENT |-> "READING_2BYTE"]

(* Fault: commands answered by a plain acknowledge not waited for.         *)
StateAfterSend_NoAckWait(c) ==
  IF c \in DOMAIN ReplyState THEN ReplyState[c] ELSE "START"

StateAfterSend(c) ==
  IF c \in DOMAIN ReplyState THEN ReplyState[c] ELSE "WAIT_ACK"

(* Fault: leaving standby forgotten.                                       *)
LowPowerAfter_Sticky(c) == lowPower \/ c = "SET_STANDBY_ON"

LowPowerAfter(c) ==
  c = "SET_STANDBY_ON" \/ (lowPower /\ c # "SET_STANDBY_OFF")

(* A write command carries the block its index selects when it is sent.    *)
Payload(c) ==
  IF c = "WRITE_EDID" THEN mem["edid"][idx["edid"]]
  ELSE IF c = "WRITE_DPCD" THEN mem["dpcd"][idx["dpcd"]]
  ELSE <<>>

(* The START byte of a register reply is expected, not searched for.       *)
TX_SendMsg(c) ==
  IF c \in SingleBytes
    THEN UNCHANGED <<protoVars, lowPower, inbox, waited>>
    ELSE /\ WaitForReply' = TRUE
         /\ inbox' = Append(inbox, [cmd |-> c, data |-> Payload(c)])
         /\ State' = StateAfterSend(c)
         /\ lowPower' = LowPowerAfter(c)
         /\ waited' = 0
         /\ IF c \in RegCmds
              THEN RxBusy' = TRUE /\ buf' = <<>> /\ TimeoutCount' = 0
              ELSE UNCHANGED <<RxBusy, buf, TimeoutCount>>

(***************************************************************************)
(* GOWIN_State_Machine: one byte of the ring buffer.                       *)
(***************************************************************************)
(* Fault: the end of the message buffer not looked at.                     *)
Room_Unchecked == TRUE

(* AddRx2Buffer: whether the write pointer can move on.                    *)
Room == Len(buf) < BufSize - 1

StartByte == RxBusy' = TRUE /\ buf' = <<>> /\ TimeoutCount' = 0

(* The main loop releases a message before it polls again, so the early    *)
(* return for an unread one is never taken.                                *)
Fetch ==
  /\ pc = "drain" /\ ret = "NONE" /\ ring # <<>> /\ MsgCount = 0
  /\ ring' = Tail(ring)
  /\ UNCHANGED <<queueVars, verify, powerVars, overruns, uartOn, pc, fpgaVars,
                 ghostVars>>

(* GOWIN_WAIT_FOR_EDID, GOWIN_WAIT_FOR_DPCD                                *)
RxWaitData ==
  /\ Fetch /\ State \in {"WAIT_EDID", "WAIT_DPCD"}
  /\ IF Head(ring) = "$"
       THEN /\ StartByte
            /\ State' = IF State = "WAIT_EDID" THEN "READING_EDID"
                                               ELSE "READING_DPCD"
       ELSE UNCHANGED <<State, RxBusy, buf, TimeoutCount>>
  /\ UNCHANGED <<WaitForReply, MsgCount, dataVars, ret>>

(* GOWIN_WAIT_FOR_EDID_WRITE_ACK: everything but an acknowledge is dropped *)
RxWriteAck ==
  /\ Fetch /\ State = "WRITE_ACK"
  /\ IF Head(ring) = "ack"
       THEN State' = "START" /\ RxBusy' = FALSE
       ELSE UNCHANGED <<State, RxBusy>>
  /\ UNCHANGED <<WaitForReply, buf, TimeoutCount, MsgCount, dataVars, ret>>

ReplySize(s) ==
  IF s = "READING_1BYTE" THEN 2
  ELSE IF s = "READING_2BYTE" THEN 3
  ELSE DataLen

(* store_edid_data, store_dpcd_data, or a register of the data map.         *)
Deliver(data) ==
  \/ /\ State = "READING_EDID" /\ reg' = reg
     /\ mem' = [mem EXCEPT !["edid"] = [@ EXCEPT ![idx["edid"]] = data]]
  \/ /\ State = "READING_DPCD" /\ reg' = reg
     /\ mem' = [mem EXCEPT !["dpcd"] = [@ EXCEPT ![idx["dpcd"]] = data]]
  \/ /\ State = "READING_1BYTE" /\ mem' = mem
     /\ reg' = [reg EXCEPT !["READ_ETH_STATUS"] = Tail(data)]
  \/ /\ State = "READING_2BYTE" /\ mem' = mem
     /\ reg' = [reg EXCEPT !["READ_BL_CURRENT"] = Tail(data)]

(* process_rx_data_character: data has no stop byte, its length ends it.   *)
RxData ==
  LET data == Append(buf, Head(ring)) IN
  /\ Fetch /\ State \in Reading
  /\ buf' = data
  /\ IF Len(data) >= ReplySize(State)
       THEN /\ MsgCount' = MsgCount + 1
            /\ State' = "START" /\ RxBusy' = FALSE
            /\ ret' = "NEW_MSG"
            /\ Deliver(data)
       ELSE UNCHANGED <<MsgCount, State, RxBusy, ret, dataVars>>
  /\ UNCHANGED <<WaitForReply, TimeoutCount>>

(* GOWIN_WAIT_FOR_ACK, GOWIN_WAIT_FOR_START: process_rx_character          *)
RxCommand ==
  /\ Fetch /\ State \in {"START", "WAIT_ACK"}
  /\ \/ Head(ring) = "$" /\ StartByte /\ State' = "STOP" /\ ret' = ret
     \/ /\ Head(ring) = "ack" /\ State' = "START" /\ ret' = ret
        /\ UNCHANGED <<RxBusy, buf, TimeoutCount>>
     \/ /\ Head(ring) = "nack" /\ State' = "START" /\ ret' = "ERROR"
        /\ UNCHANGED <<RxBusy, buf, TimeoutCount>>
     \/ /\ Head(ring) \in {"#", "x"}
        /\ UNCHANGED <<State, RxBusy, buf, TimeoutCount, ret>>
  /\ UNCHANGED <<WaitForReply, MsgCount, dataVars>>

(* GOWIN_WAIT_FOR_STOP                                                     *)
RxStop ==
  /\ Fetch /\ State = "STOP"
  /\ \/ /\ Head(ring) = "$"
        /\ UNCHANGED <<State, WaitForReply, RxBusy, buf, MsgCount, ret>>
     \/ /\ Head(ring) = "#" /\ buf' = buf
        /\ MsgCount' = MsgCount + 1 /\ ret' = "NEW_MSG"
        /\ State' = "START" /\ RxBusy' = FALSE /\ WaitForReply' = FALSE
     \/ /\ Head(ring) \notin {"$", "#"}
        /\ buf' = Append(buf, Head(ring))
        /\ State' = IF Room THEN "STOP" ELSE "START"
        /\ UNCHANGED <<WaitForReply, RxBusy, MsgCount, ret>>
  /\ UNCHANGED <<TimeoutCount, dataVars>>

(***************************************************************************)
(* The rest of GOWIN_Protocol, once the ring buffer is empty or a byte     *)
(* ended the loop.                                                         *)
(***************************************************************************)
LoopDone == pc = "drain" /\ (ring = <<>> \/ ret # "NONE")

(* Fault: the decoder left where it was.                                   *)
ReplyTimedOut_KeepsState ==
  /\ LoopDone /\ State # "START" /\ TimeoutCount > ReplyTimeout
  /\ TimeoutCount' = 0
  /\ RxBusy' = FALSE /\ WaitForReply' = FALSE
  /\ ret' = "TIMEOUT" /\ pc' = "after" /\ disturbed' = TRUE
  /\ UNCHANGED <<queueVars, State, buf, MsgCount, verify, dataVars, powerVars,
                 uartVars, fpgaVars, asks, faults, sent, waited, bypassed>>

ReplyTimedOut ==
  /\ LoopDone /\ State # "START" /\ TimeoutCount > ReplyTimeout
  /\ TimeoutCount' = 0
  /\ State' = "START" /\ RxBusy' = FALSE /\ WaitForReply' = FALSE
  /\ ret' = "TIMEOUT" /\ pc' = "after" /\ disturbed' = TRUE
  /\ UNCHANGED <<queueVars, buf, MsgCount, verify, dataVars, powerVars, uartVars,
                 fpgaVars, asks, faults, sent, waited, bypassed>>

StillWaiting ==
  /\ LoopDone /\ State # "START" /\ TimeoutCount <= ReplyTimeout
  /\ TimeoutCount' = TimeoutCount + 1
  /\ waited' = IF waited > ReplyTimeout THEN waited ELSE waited + 1
  /\ pc' = "after"
  /\ UNCHANGED <<queueVars, State, WaitForReply, RxBusy, buf, MsgCount, verify,
                 dataVars, powerVars, uartVars, ret, fpgaVars, asks, faults, sent,
                 bypassed, disturbed>>

(* The reply has come: the slot sent last is free again.                   *)
ReleaseSlot ==
  /\ LoopDone /\ State = "START" /\ WaitForReply
  /\ WaitForReply' = FALSE
  /\ queue' = [queue EXCEPT ![MsgIndex].cmd = NoCmd]
  /\ pc' = "after"
  /\ UNCHANGED <<MsgIndex, idx, State, RxBusy, buf, TimeoutCount, MsgCount, verify,
                 dataVars, powerVars, uartVars, ret, fpgaVars, ghostVars>>

(* Fault: the index of the block not taken from the queue.                 *)
IndexOf_Stale(m, k) == idx[k]

IndexOf(m, k) == IF m.cmd \in {ReadCmd[k], WriteCmd[k]} THEN m.param ELSE idx[k]

(* GOWIN_Process_Queue up to the transmission.                             *)
ProcessQueue ==
  /\ LoopDone /\ State = "START" /\ ~WaitForReply
  /\ IF Drained
       THEN pc' = "after" /\ UNCHANGED <<MsgIndex, idx>>
       ELSE LET next == Lowest({i \in Slots : queue[i].cmd # NoCmd}) IN
            /\ MsgIndex' = next
            /\ idx' = [k \in Kinds |-> IndexOf(queue[next], k)]
            /\ pc' = "send"
  /\ UNCHANGED <<queue, protoVars, MsgCount, verify, dataVars, powerVars, uartVars,
                 ret, fpgaVars, ghostVars>>

SendQueued ==
  /\ pc = "send" /\ pc' = "after"
  /\ TX_SendMsg(queue[MsgIndex].cmd)
  /\ sent' = [sent EXCEPT ![MsgIndex] = TRUE]
  /\ UNCHANGED <<queueVars, MsgCount, verify, dataVars, delay, uartVars, ret, wire,
                 fpga, asks, faults, bypassed, disturbed>>

(***************************************************************************)
(* The main loop around it.                                                *)
(***************************************************************************)
Poll ==
  /\ pc = "main" /\ pc' = "drain"
  /\ UNCHANGED <<queueVars, protoVars, MsgCount, verify, dataVars, powerVars,
                 uartVars, ret, fpgaVars, ghostVars>>

(* Fault: the first message taken for the last one.                        *)
VerifyDue_AnyMessage == MsgCount > 0

VerifyDue == MsgCount > 0 /\ (Drained \/ ret = "TIMEOUT")

(* After GOWIN_Protocol: a timeout empties the queue, a message is released *)
(* unread, and the last one of the queue ends the verification of the      *)
(* start-up data; then _handle_gpio_request, whose way out of standby is   *)
(* sent past the queue.                                                    *)
EndOfLoop ==
  /\ pc = "after" /\ pc' = "main" /\ ret' = "NONE"
  /\ IF ret = "TIMEOUT"
       THEN /\ queue' = [i \in Slots |-> Empty] /\ MsgIndex' = 0
            /\ sent' = [i \in Slots |-> FALSE]
       ELSE UNCHANGED <<queue, MsgIndex, sent>>
  /\ MsgCount' = 0
  /\ verify' = (verify /\ ~VerifyDue)
  /\ IF lowPower /\ delay = 1
       THEN TX_SendMsg("SET_STANDBY_OFF") /\ bypassed' = TRUE
       ELSE UNCHANGED <<protoVars, lowPower, inbox, waited, bypassed>>
  /\ delay' = IF ~lowPower THEN delay
              ELSE IF delay = 1 THEN RecoverDelay ELSE delay - 1
  /\ UNCHANGED <<idx, dataVars, uartVars, wire, fpga, asks, faults, disturbed>>

(* Fault: the first slot never considered.                                 *)
NewId_SkipsFirst ==
  LET free == {i \in Slots \ {0} : queue[i].cmd = NoCmd}
  IN  IF free = {} THEN MsgIndex ELSE Lowest(free)

(* GOWIN_Queue_Tx_Msg_Index: the first free slot, or the one sent last.    *)
NewId ==
  LET free == {i \in Slots : queue[i].cmd = NoCmd}
  IN  IF free = {} THEN MsgIndex ELSE Lowest(free)

(* comm_handler: a request of the main CPU to read or write a block.       *)
Request(c, i) ==
  /\ pc = "main" /\ asks < MaxAsks
  /\ asks' = asks + 1
  /\ queue' = [queue EXCEPT ![NewId] = Msg(c, i)]
  /\ sent' = [sent EXCEPT ![NewId] = FALSE]
  /\ bypassed' = (bypassed \/ Full)
  /\ UNCHANGED <<MsgIndex, idx, protoVars, MsgCount, verify, dataVars, powerVars,
                 uartVars, pc, ret, fpgaVars, faults, waited, disturbed>>

(***************************************************************************)
(* Interrupts.                                                             *)
(***************************************************************************)
(* BOARD_GOWIN_FLEXCOMM_IRQ.  The write pointer is never checked against   *)
(* the read pointer: catching up with it makes the buffer look empty.  On  *)
(* a FIFO overrun the log message itself reads a byte, and repeated        *)
(* overruns disable the UART.                                              *)
GowinIrq(overrun) ==
  /\ uartOn /\ wire # <<>>
  /\ overrun => "flood" \in Env /\ faults < MaxFaults
  /\ ring' = IF Len(ring) + 1 = RingSize THEN <<>> ELSE Append(ring, Head(wire))
  /\ IF overrun
       THEN /\ overruns' = overruns + 1
            /\ uartOn' = (overruns' < FloodLimit)
            /\ wire' = IF uartOn' /\ Len(wire) > 1 THEN Tail(Tail(wire))
                                                   ELSE Tail(wire)
            /\ faults' = faults + 1 /\ disturbed' = TRUE
       ELSE /\ wire' = Tail(wire)
            /\ disturbed' = (disturbed \/ Len(ring) + 1 = RingSize)
            /\ UNCHANGED <<overruns, uartOn, faults>>
  /\ UNCHANGED <<queueVars, protoVars, MsgCount, verify, dataVars, powerVars, pc,
                 ret, inbox, fpga, asks, sent, waited, bypassed>>

(* byteWritebyId(0x40, c) in the I2C slave callback.                       *)
Direct(c) ==
  /\ asks < MaxAsks
  /\ asks' = asks + 1 /\ bypassed' = TRUE
  /\ TX_SendMsg(c)
  /\ UNCHANGED <<queueVars, MsgCount, verify, dataVars, delay, uartVars, pc, ret,
                 wire, fpga, faults, sent, disturbed>>

(***************************************************************************)
(* External: the FPGA and the line.                                        *)
(***************************************************************************)
Answer(c) ==
  IF c = "READ_EDID" THEN <<"$">> \o fpga["edid"]
  ELSE IF c = "READ_DPCD" THEN <<"$">> \o fpga["dpcd"]
  ELSE IF c = "READ_ETH_STATUS" THEN <<"$", "x">>
  ELSE IF c = "READ_BL_CURRENT" THEN <<"$", "x", "x">>
  ELSE <<"ack">>

Execute(refuse) ==
  LET c == Head(inbox).cmd IN
  /\ inbox # <<>> /\ inbox' = Tail(inbox)
  /\ refuse => c = "PIO" /\ "nack" \in Env
  /\ wire' = wire \o (IF refuse THEN <<"nack">> ELSE Answer(c))
  /\ fpga' = [k \in Kinds |-> IF c = WriteCmd[k] THEN Head(inbox).data ELSE fpga[k]]
  /\ UNCHANGED <<queueVars, protoVars, MsgCount, verify, dataVars, powerVars,
                 uartVars, pc, ret, ghostVars>>

Fault(kind) ==
  /\ kind \in Env /\ faults < MaxFaults
  /\ faults' = faults + 1 /\ disturbed' = TRUE
  /\ UNCHANGED <<queueVars, protoVars, MsgCount, verify, dataVars, powerVars,
                 uartVars, pc, ret, fpga, asks, sent, waited, bypassed>>

LoseCommand == Fault("loss") /\ inbox # <<>> /\ inbox' = Tail(inbox) /\ wire' = wire
LoseByte == Fault("loss") /\ wire # <<>> /\ wire' = Tail(wire) /\ inbox' = inbox
Babble ==
  /\ Fault("flood") /\ inbox' = inbox
  /\ wire' = wire \o <<"$">> \o [i \in 1..(BufSize + 1) |-> "x"]
WakeUp == Fault("wakeup") /\ wire' = wire \o <<"$", "x", "#">> /\ inbox' = inbox

MainLoop ==
  \/ Poll
  \/ RxWaitData \/ RxWriteAck \/ RxData \/ RxCommand \/ RxStop
  \/ ReplyTimedOut \/ StillWaiting \/ ReleaseSlot \/ ProcessQueue \/ SendQueued
  \/ EndOfLoop

Next ==
  \/ MainLoop
  \/ \E r \in Requests : Request(r[1], r[2])
  \/ \E overrun \in BOOLEAN : GowinIrq(overrun)
  \/ \E c \in DirectCmds : Direct(c)
  \/ \E refuse \in BOOLEAN : Execute(refuse)
  \/ LoseCommand \/ LoseByte \/ Babble \/ WakeUp

Spec == Init /\ [][Next]_vars

(* Interrupts are short and the main loop keeps running between them.      *)
FairSpec == Spec /\ WF_vars(MainLoop)

QueueTypes ==
  /\ queue \in [Slots -> [cmd : Cmds \cup {NoCmd}, param : Indexes]]
  /\ MsgIndex \in Slots
  /\ idx \in [Kinds -> Indexes]
  /\ sent \in [Slots -> BOOLEAN]

(* The message buffer is never written past its end.                       *)
DecoderTypes ==
  /\ State \in States
  /\ WaitForReply \in BOOLEAN
  /\ RxBusy \in BOOLEAN
  /\ buf \in Seq(Bytes)
  /\ Len(buf) <= BufSize
  /\ State = "STOP" => Len(buf) < BufSize
  /\ State \in Reading => Len(buf) < ReplySize(State)
  /\ TimeoutCount \in 0..(ReplyTimeout + 1)
  /\ waited \in 0..(ReplyTimeout + 1)

(* A write command on its way carries a block.                             *)
Commands ==
  {m \in [cmd : Cmds, data : Blocks \cup {<<>>}] :
     m.cmd \in {WriteCmd[k] : k \in Kinds} => m.data \in Blocks}

DataTypes ==
  /\ mem \in [Kinds -> [Indexes -> Blocks]]
  /\ reg \in [RegCmds -> Seq(Bytes)]
  /\ fpga \in [Kinds -> Blocks]
  /\ inbox \in Seq(Commands)

LineTypes ==
  /\ wire \in Seq(Bytes)
  /\ ring \in Seq(Bytes)
  /\ Len(ring) < RingSize
  /\ overruns \in Nat
  /\ uartOn \in BOOLEAN

LoopTypes ==
  /\ pc \in {"main", "drain", "send", "after"}
  /\ ret \in {"NONE", "NEW_MSG", "ERROR", "TIMEOUT"}
  /\ MsgCount \in 0..1
  /\ verify \in BOOLEAN
  /\ lowPower \in BOOLEAN
  /\ delay \in 1..RecoverDelay
  /\ asks \in 0..MaxAsks
  /\ faults \in 0..MaxFaults
  /\ bypassed \in BOOLEAN
  /\ disturbed \in BOOLEAN

TypeOK == QueueTypes /\ DecoderTypes /\ DataTypes /\ LineTypes /\ LoopTypes

(***************************************************************************)
(* Properties                                                              *)
(***************************************************************************)
(* As long as every command goes through a queue with room for it, a       *)
(* queued command leaves its slot only after it was sent, or when a        *)
(* timeout empties the queue (gowin_protocol.c, "queue up messages for     *)
(* TX").                                                                   *)
QueuedIsSent ==
  [][\A i \in Slots :
       /\ ~bypassed' /\ ret # "TIMEOUT"
       /\ queue[i].cmd # NoCmd /\ queue'[i].cmd = NoCmd
       => sent[i]]_vars

(* On an undisturbed link a slot is released, and the next command can go  *)
(* out, only when the FPGA has nothing left to say to the last one.        *)
OneAtATime ==
  [][~bypassed /\ ~disturbed /\ queue' # queue /\ asks' = asks =>
       inbox = <<>> /\ wire = <<>> /\ ring = <<>>]_vars

(* On an undisturbed link a readback puts the FPGA's block, whole, into    *)
(* the entry of the data map that was asked for.                           *)
ReadbackIntact ==
  [][~bypassed /\ ~disturbed =>
       \A k \in Kinds, i \in Indexes :
         mem'[k][i] # mem[k][i] =>
           mem'[k][i] = fpga[k] /\ queue[MsgIndex] = Msg(ReadCmd[k], i)]_vars

(* With no request of the main CPU in between, the start-up verification   *)
(* compares blocks that the FPGA has been given and has handed back.       *)
StartupVerified ==
  [][verify /\ ~verify' /\ ~disturbed /\ asks = 0 =>
       \A k \in Kinds : mem[k][0] = Default /\ mem[k][2] = Default]_vars

(* Whatever the FPGA does or fails to do, once requests stop the queue is  *)
(* empty, the decoder ready and the main CPU out of standby: no reply and  *)
(* no confirmation is waited for without end.                              *)
Settles == <>[](Drained /\ State = "START" /\ ~WaitForReply /\ ~lowPower)

(* "No Reply from Gowin" (application/main.c:382): a timeout is reported   *)
(* only when the last command has been waited on for the whole timeout.    *)
(* The code does not keep this (README, findings).                         *)
TimeoutMeansSilence ==
  [][ret # "TIMEOUT" /\ ret' = "TIMEOUT" => waited > ReplyTimeout]_vars

=============================================================================
