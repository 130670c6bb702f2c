------------------------------ MODULE MainCpuLink ------------------------------
(***************************************************************************)
(* The application's link to the main CPU: the serial line (UartProtocol), *)
(* the command handlers (comm.c, comm_run.c) over the data map             *)
(* (data_map.c), the second CPU of the Gaia board and the I2C interrupt,   *)
(* which runs the same write handlers, and the restart of the application. *)
(*                                                                         *)
(* The main loop takes a character, handles a message or makes one step of *)
(* a partition switch at a time; interrupts come in between.  The main CPU *)
(* and its line are external: characters are lost or changed.              *)
(***************************************************************************)
EXTENDS UartProtocol, FiniteSets

CONSTANTS
  Size,        \* EDID_SIZE, of one block of EDID or DPCD
  Half,        \* 128: the unit of the offset of an array command
  Messages,    \* what the main CPU may send: address, command, data
  I2cWrites,   \* the partition requests that may come over I2C
  Garble,      \* what a character may be changed into
  SecondCpu,   \* the board has a second CPU (BOARD_GAIA)
  MaxSent,     \* bound on the messages
  MaxFaults    \* bound on faults of the line, I2C requests and intrusions

VARIABLES
  line,        \* the characters of the current frame that are still to come
  sent,        \* history: the messages that were sent
  hurt,        \* history: the frames that were cut or changed on the line
  handled,     \* history: the frames that were handled, with what was read
  faults,      \* what MaxFaults counts
  pc,          \* where the main loop is
  edid, dpcd,  \* Main.Edid and Main.Dpcd
  test,        \* Main.Debug: the test byte and the test integer
  request,     \* application_request in shared RAM
  part,        \* Main.PartitionInfo.part
  ctxPart,     \* bctxt.part of flash_helper.c
  flashPart,   \* the partition in the context stored in flash
  running,     \* the partition the application was linked for
  runout,      \* WatchDogRunout or ReconfigureGowin: the main loop ends
  reply,       \* the last reply
  acked,       \* history: the frames of the writes that were acknowledged
               \* since the data map was initialised
  raced,       \* history: an I2C request came in the middle of a switch
  intruded,    \* history: the second CPU made the handler run
  astray       \* history: the application was started again although flash
               \* names the other partition

wireVars == <<line, sent, hurt>>
blocks == <<edid, dpcd>>
switchVars == <<part, ctxPart, flashPart>>
registers == <<test, request, switchVars, running, runout>>
hist == <<handled, faults, acked, raced, intruded, astray>>
vars == <<protocolVars, wireVars, pc, blocks, registers, reply, hist>>

DEVICE_ADDRESS == 16
NACK == 0
ReadByte == 16            \* CMD_READ_BYTE
WriteByte == 17
Read4Byte == 20
Write4Byte == 21
ReadArray == 24
WriteArray == 25
Edids == 33..35           \* CMD_ID_EDID1..3
Dpcds == 36..38
BootLog == 160
Versions == 0..1          \* CMD_ID_GITBOOTVER, CMD_ID_GITAPPVER
VersionSize == 4          \* stands for GITVERSION_SIZE
RequestId == 48           \* 0x30
UPDATE == 1
Partition(r) == r - 2     \* BOOT_PARTITION_0 and BOOT_PARTITION_1
PartitionRequests == {2, 3}
StructSize == 3 * Size    \* IdentifierMaxLength of Edid and of Dpcd
Word == 65536             \* stands for the 2^32 of unsigned int
Unknown == 256            \* a byte that was never written

ASSUME LinkAssumption ==
  /\ Size = 2 * Half /\ Half \in Nat \ {0}
  /\ I2cWrites \subseteq PartitionRequests

(* What comes over the line are bytes.                                     *)
ASSUME ByteAssumption ==
  /\ \A m \in Messages : m \in Seq(Byte)
  /\ Garble \subseteq Byte

-----------------------------------------------------------------------------
(* Replies are made in the message buffer; f is the buffer after it.       *)

Answer(f, n) == buf' = f /\ reply' = [i \in 1..n |-> f[i - 1]]
Silent == UNCHANGED <<buf, reply>>

(* "PROTO_TX_SendMsg(UART1, RxBuf - 1, 1)"                                 *)
AnswerBefore == reply' = <<Unknown>> /\ UNCHANGED buf

(* An error reply: the command becomes NACK.                               *)
Nack(code) == Answer([buf EXCEPT ![1] = NACK, ![2] = code], 3)

Cmd == buf[1]
Id == buf[2]
Len3 == buf[4]            \* the length of an array command
KeepRegisters == UNCHANGED registers
KeepData == UNCHANGED <<blocks, acked>>

-----------------------------------------------------------------------------
(* Byte commands: byteReadbyId, byteWritebyId.                             *)

(* The registers that are kept elsewhere read as 0 here.                   *)
ByteOf(id) ==
  CASE id = 3 -> test[1]
    [] id = 9 -> part
    [] id = RequestId -> request
    [] id \in 0..7 \cup {49, 50, 65} \cup 80..83 -> 0
    [] OTHER -> 255

ByteRead ==
  /\ LET value == ByteOf(Id) IN
       IF value = 255 THEN AnswerBefore ELSE Answer([buf EXCEPT ![2] = value], 3)
  /\ KeepRegisters /\ KeepData /\ pc' = "loop"

(* Fault: the partition in use is not looked at.                           *)
SwitchWanted_Fault(data) == data \in PartitionRequests

(* sharedram_bootloader_request_write finds out that the other partition   *)
(* is wanted.                                                              *)
SwitchWanted(data) ==
  (part = 0 /\ data = 3) \/ (part = 1 /\ data = 2)

Other(p) == IF p = 0 THEN 1 ELSE 0

Written(ok) == Answer([buf EXCEPT ![2] = IF ok THEN 1 ELSE 0], 3)

ByteWrite ==
  LET data == buf[3] IN
  /\ test' = IF Id = 3 THEN [test EXCEPT ![1] = data] ELSE test
  /\ request' = IF Id = RequestId /\ data <= 3 THEN data ELSE request
  /\ runout' = (runout \/ Id \in {49, 65})       \* 0x31, 0x41
  /\ IF Id = RequestId /\ data <= 3 /\ SwitchWanted(data)
     THEN pc' = "swap" /\ Silent
     ELSE /\ pc' = "loop"
          /\ Written(Id \in {3, 49, 50, 64, 65, 80} \/ (Id = RequestId /\ data <= 3))
  /\ UNCHANGED <<switchVars, running>> /\ KeepData

(* 4-byte commands: c4ByteRead, c4ByteWrite.                               *)
FourBytesOf(id) ==
  CASE id = 170 -> [i \in 2..5 |-> test[i]]
    [] id = 9 -> [i \in 2..5 |-> IF i = 5 THEN part ELSE 0]
    [] OTHER -> [i \in 2..5 |-> 0]

FourByteRead ==
  /\ IF Id \in 0..9 \cup {16, 170} \cup 32..43
     THEN Answer([i \in DOMAIN buf |-> IF i \in 2..5 THEN FourBytesOf(Id)[i] ELSE buf[i]],
                 6)
     ELSE AnswerBefore
  /\ KeepRegisters /\ KeepData /\ pc' = "loop"

FourByteWrite ==
  /\ test' = IF Id = 170
             THEN [i \in 1..5 |-> IF i = 1 THEN test[1] ELSE buf[i + 1]]
             ELSE test
  /\ Written(Id = 170)
  /\ UNCHANGED <<request, switchVars, running, runout>>
  /\ KeepData /\ pc' = "loop"

-----------------------------------------------------------------------------
(* Array commands: cArrayRead, cArrayWrite.  A block is an array of cells  *)
(* in one of two structures of three blocks.                               *)

BlockOf(id) == (id - 33) % 3
(* Fault: the third block is one block too low.                            *)
Target_Fault(id, off) == off * Half + (IF BlockOf(id) = 0 THEN 0 ELSE Size)

Target(id, off) == off * Half + BlockOf(id) * Size

(* The room of the item is computed before or after the offset is scaled;  *)
(* it is unsigned.                                                         *)
Room(id, off) ==
  (Size - (IF BlockOf(id) = 0 THEN off * Half ELSE off)) % Word

(* Fault: only the item is checked.                                        *)
FitsWrite_Fault(id, off, n) == n <= Room(id, off)

FitsWrite(id, off, n) ==
  Target(id, off) + n <= StructSize /\ n <= Room(id, off)
FitsRead(id, off, n) ==
  Target(id, off) + n <= StructSize /\ n <= Size

(* The reply to a read of n bytes, which start where the identifier was.   *)
AnswerBytes(n, bytes) ==
  Answer([i \in DOMAIN buf |->
            IF i - 2 \in 0..(n - 1) THEN bytes[i - 2] ELSE buf[i]], n + 2)

(* The two git versions follow each other in VersionInfo, one byte before  *)
(* its end.                                                                *)
FitsVersion(id, off, n) ==
  id * VersionSize + off + n <= 2 * VersionSize + 1 /\ n <= VersionSize

(* Text whose content nothing depends on.                                  *)
Zeros == [i \in 0..(BufSize - 1) |-> 0]

(* All three DPCD blocks are read from the EDID array.                     *)
ArrayReadReply ==
  LET stored == [i \in 0..(Len3 - 1) |-> edid[Target(Id, buf[3]) + i]]
  IN CASE Id \in Edids \cup Dpcds /\ FitsRead(Id, buf[3], Len3) ->
            AnswerBytes(Len3, stored)
       [] Id \in Versions /\ FitsVersion(Id, buf[3], Len3) ->
            AnswerBytes(Len3, Zeros)
       [] Id \notin Edids \cup Dpcds \cup Versions -> Answer([buf EXCEPT ![2] = 0], 3)
       [] OTHER -> Answer(buf, 2)

(* sharedram_log_read; what it copies is not looked at here.               *)
LogRead == IF buf[3] < 32 THEN AnswerBytes(Len3, Zeros) ELSE Nack(3)

ArrayRead(len) ==
  /\ IF len # 5 THEN Nack(1) ELSE IF Id = BootLog THEN LogRead ELSE ArrayReadReply
  /\ KeepRegisters /\ KeepData /\ pc' = "loop"

Cells(from, n) == from..(from + n - 1)

(* Only the first DPCD block is written to the DPCD array.                 *)
Overwrite(inDpcd, to, n) ==
  LET new(old) == [c \in DOMAIN old \cup Cells(to, n) |->
                     IF c \in Cells(to, n) THEN buf[c - to + 5] ELSE old[c]]
  IN IF inDpcd THEN dpcd' = new(dpcd) /\ UNCHANGED edid
               ELSE edid' = new(edid) /\ UNCHANGED dpcd

ArrayWrite(len) ==
  /\ IF len < 5 \/ len < Len3
     THEN Nack(1) /\ KeepData
     ELSE IF Id \notin Edids \cup Dpcds
     THEN Answer(buf, 2) /\ KeepData
     ELSE IF FitsWrite(Id, buf[3], Len3)
     THEN /\ Overwrite(Id = 36, Target(Id, buf[3]), Len3)
          /\ Answer([buf EXCEPT ![2] = 1], 3)
          /\ acked' = Append(acked, frame)
     ELSE Answer([buf EXCEPT ![2] = 0], 3) /\ KeepData
  /\ KeepRegisters /\ pc' = "loop"

-----------------------------------------------------------------------------
(* comm_handler and Run_CommHandler for the message in the buffer.  A byte *)
(* command for EDID or DPCD goes to the Gowin queue and is not answered.   *)

Ignored ==
  /\ buf[0] # DEVICE_ADDRESS \/ (Cmd \in {ReadByte, WriteByte} /\ Id \in Edids \cup Dpcds)
  /\ Silent /\ KeepRegisters /\ KeepData /\ pc' = "loop"

Refused(len) ==
  /\ \/ (Cmd = WriteByte /\ len # 4) \/ (Cmd = Write4Byte /\ len # 7)
     \/ Cmd \notin {ReadByte, WriteByte, Read4Byte, Write4Byte, ReadArray, WriteArray}
  /\ Nack(IF Cmd \in {WriteByte, Write4Byte} THEN 1 ELSE Id)
  /\ KeepRegisters /\ KeepData /\ pc' = "loop"

CommHandler(len) ==
  \/ Ignored
  \/ /\ buf[0] = DEVICE_ADDRESS
     /\ \/ Refused(len)
        \/ Cmd = ReadByte /\ Id \notin Edids \cup Dpcds /\ ByteRead
        \/ Cmd = WriteByte /\ len = 4 /\ Id \notin Edids \cup Dpcds /\ ByteWrite
        \/ Cmd = Read4Byte /\ FourByteRead
        \/ Cmd = Write4Byte /\ len = 7 /\ FourByteWrite
        \/ Cmd = ReadArray /\ ArrayRead(len)
        \/ Cmd = WriteArray /\ ArrayWrite(len)

KeepDecoder == UNCHANGED <<unread, overrun, decoder>>

(* Fault: the message stays in the buffer.                                 *)
Handle_Fault ==
  /\ pc = "loop" /\ msgCount > 0
  /\ CommHandler(msgLen)
  /\ handled' = Append(handled, [frame |-> frame, body |-> [i \in 1..msgLen |-> buf[i - 1]]])
  /\ UNCHANGED <<unread, overrun, decoder, wireVars, faults, raced, intruded, astray>>

(* The main loop has decoded a message.                                    *)
Handle ==
  /\ pc = "loop" /\ msgCount > 0
  /\ CommHandler(msgLen)
  /\ msgCount' = 0
  /\ handled' = Append(handled, [frame |-> frame, body |-> [i \in 1..msgLen |-> buf[i - 1]]])
  /\ UNCHANGED <<unread, overrun, receiving, wr, offset, checksum, prev, msgLen,
                 frame, wireVars, faults, raced, intruded, astray>>

-----------------------------------------------------------------------------
(* switch_boot_partition, in the main loop: the context is swapped, its    *)
(* area erased, then written and read back.  A write to an area that is    *)
(* not blank fails, or leaves a context that is neither the old nor the    *)
(* new one.                                                                *)

Blank == 2
Bad == 3

Swap ==
  /\ pc = "swap" /\ pc' = "erase"
  /\ ctxPart' = Other(ctxPart)
  /\ Silent /\ UNCHANGED <<flashPart, part>>

EraseContext ==
  /\ pc = "erase" /\ pc' = "write"
  /\ flashPart' = Blank
  /\ Silent /\ UNCHANGED <<ctxPart, part>>

WriteContext ==
  /\ pc = "write" /\ pc' = "assign"
  /\ \/ flashPart = Blank /\ flashPart' = ctxPart /\ UNCHANGED ctxPart
     \/ flashPart # Blank /\ UNCHANGED <<flashPart, ctxPart>>
     \/ flashPart # Blank /\ flashPart' = Bad /\ ctxPart' = Bad
  /\ Silent /\ UNCHANGED part

Assign ==
  /\ pc = "assign" /\ pc' = "loop"
  /\ part' = ctxPart
  /\ Written(TRUE)
  /\ UNCHANGED <<ctxPart, flashPart>>

SwitchPartition ==
  /\ Swap \/ EraseContext \/ WriteContext \/ Assign
  /\ KeepDecoder /\ UNCHANGED <<wireVars, test, request, running, runout>>
  /\ UNCHANGED <<blocks, hist>>

(* The same request over I2C, in the interrupt.                            *)
I2cRequest(r) ==
  /\ faults < MaxFaults /\ faults' = faults + 1
  /\ request' = r
  /\ IF SwitchWanted(r)
     THEN ctxPart' = Other(ctxPart) /\ flashPart' = ctxPart' /\ part' = ctxPart'
     ELSE UNCHANGED switchVars
  /\ raced' = (raced \/ pc # "loop")
  /\ KeepDecoder /\ Silent
  /\ UNCHANGED <<wireVars, pc, blocks, test, running, runout, handled, acked,
                 intruded, astray>>

-----------------------------------------------------------------------------
(* The second CPU (Gaia).  Its characters are received like those of the   *)
(* first one (BOARD_CPU2_FLEXCOMM_IRQ), but its entry of COMM_DATA is all  *)
(* zero: its message is stored from address 0 on.  That faults and starts  *)
(* the application again, or does nothing, or what is read back there      *)
(* completes a message; comm_handler then looks at the buffer of the first *)
(* CPU.                                                                    *)
FromSecondCpu == SecondCpu /\ faults < MaxFaults /\ faults' = faults + 1

SecondCpuMessage ==
  /\ pc = "loop" /\ msgCount = 0
  /\ FromSecondCpu
  /\ CommHandler(msgLen)
  /\ intruded' = TRUE
  /\ KeepDecoder
  /\ UNCHANGED <<wireVars, handled, raced, astray>>

(* initialize_global_data_map.                                             *)
InitialBlocks == [c \in 0..(StructSize - 1) |-> 0]

InitializeDataMap ==
  /\ test' = <<0, 0, 0, 0, 0>> /\ runout' = FALSE
  /\ edid' = InitialBlocks /\ dpcd' = InitialBlocks
  /\ ctxPart' = flashPart

(* main: the partition of the program counter overrides the one from flash. *)
PartOfPc == part' = running'

(* The end of main, or a fault: ResetISR starts the same application again *)
(* unless an update was asked for.                                         *)
Restart ==
  /\ pc = "loop"
  /\ (runout /\ UNCHANGED faults) \/ (~runout /\ FromSecondCpu)
  /\ ProtocolReset /\ InitializeDataMap
  /\ IF request = UPDATE
     THEN /\ running' = IF flashPart \in 0..1 THEN flashPart ELSE running
          /\ request' = 0 /\ UNCHANGED astray
     ELSE /\ astray' = (astray \/ flashPart # running)
          /\ UNCHANGED <<running, request>>
  /\ PartOfPc
  /\ acked' = <<>>
  /\ hurt' = hurt \cup (1..Len(sent) \ {handled[k].frame : k \in DOMAIN handled})
  /\ line' = <<>>
  /\ UNCHANGED <<sent, pc, flashPart, reply, handled, raced, intruded>>

-----------------------------------------------------------------------------
(* The main CPU and the line.                                              *)

KeepApplication == UNCHANGED <<pc, blocks, registers, reply, handled, acked,
                               raced, intruded, astray>>

Send(m) ==
  /\ line = <<>> /\ Len(sent) < MaxSent
  /\ sent' = Append(sent, m)
  /\ line' = Encode(m)
  /\ UNCHANGED <<protocolVars, hurt, faults>> /\ KeepApplication

Arrive ==
  /\ line # <<>>
  /\ Receive([char |-> Head(line), frame |-> Len(sent)])
  /\ line' = Tail(line)
  /\ UNCHANGED <<sent, hurt, faults>> /\ KeepApplication

Harm ==
  /\ line # <<>> /\ faults < MaxFaults /\ faults' = faults + 1
  /\ \/ line' = Tail(line)
     \/ \E c \in Garble \ {Head(line)} : line' = <<c>> \o Tail(line)
  /\ hurt' = hurt \cup {Len(sent)}
  /\ UNCHANGED <<protocolVars, sent>> /\ KeepApplication

-----------------------------------------------------------------------------

Init ==
  /\ ProtocolInit
  /\ line = <<>> /\ sent = <<>> /\ hurt = {} /\ handled = <<>> /\ faults = 0
  /\ pc = "loop"
  /\ edid = InitialBlocks /\ dpcd = InitialBlocks
  /\ test = <<0, 0, 0, 0, 0>> /\ request = 0
  /\ running = 0 /\ part = 0 /\ ctxPart = 0 /\ flashPart = 0
  /\ runout = FALSE /\ reply = <<>>
  /\ acked = <<>>
  /\ raced = FALSE /\ intruded = FALSE /\ astray = FALSE

Protocol == pc = "loop" /\ Decode /\ UNCHANGED <<wireVars, faults>> /\ KeepApplication

Next ==
  \/ \E m \in Messages : Send(m)
  \/ Arrive \/ Harm
  \/ Protocol \/ Handle \/ SwitchPartition \/ SecondCpuMessage \/ Restart
  \/ \E r \in I2cWrites : I2cRequest(r)

Spec == Init /\ [][Next]_vars

-----------------------------------------------------------------------------

(* Type correctness of the link.                                           *)
TypeOK ==
  /\ ProtocolTypeOK
  /\ pc \in {"loop", "swap", "erase", "write", "assign"}
  /\ request \in 0..3 /\ {part, ctxPart, flashPart} \subseteq 0..3
  /\ test \in [1..5 -> Byte]

(* An array write never leaves the structure it is checked against, with   *)
(* whatever offset and length it comes (cArrayWrite).                      *)
InsideStruct ==
  DOMAIN edid = 0..(StructSize - 1) /\ DOMAIN dpcd = 0..(StructSize - 1)

(* Frames that were not touched on the line are handled exactly as sent    *)
(* and once, whatever became of the frames before them.                    *)
Fits(m) == Len(m) + 1 < BufSize
Counts(n) == Cardinality({k \in DOMAIN handled : handled[k].frame = n})
DeliveredIntact ==
  ~overrun /\ ~intruded =>
    /\ \A k \in DOMAIN handled :
         handled[k].frame \notin hurt => handled[k].body = sent[handled[k].frame]
    /\ line = <<>> /\ unread = <<>> /\ msgCount = 0 =>
         \A n \in DOMAIN sent \ hurt : Fits(sent[n]) => Counts(n) = 1

(* The line and the decoder implement the channel: no message is handled   *)
(* before an earlier one, and none that was not touched on the line is     *)
(* changed or handled twice, at any time and not only on a quiet line.     *)
Deliveries ==
  [k \in DOMAIN handled |->
     [message |-> handled[k].frame, intact |-> handled[k].body = sent[handled[k].frame]]]
Channel == INSTANCE MessageChannel WITH
  sent <- Len(sent), damaged <- hurt, delivered <- Deliveries,
  broken <- (overrun \/ intruded)
ChannelSpec == Channel!Spec

(* Of a write as the main CPU sent it: where its block is kept, with the   *)
(* offset, the cell of a byte it carries, and whether the byte is there.   *)
Place(m) == BlockOf(m[3]) * Size + m[4] * Half
BytesOf(m) == {i \in 1..m[5] : 5 + i <= Len(m)}
CellOf(m, i) == Place(m) + i - 1
InDpcd(m) == m[3] = 36
InMemory(m, i) == (IF InDpcd(m) THEN dpcd ELSE edid)[CellOf(m, i)] = m[5 + i]

(* The write w claims the cell of the byte, also when it carries fewer     *)
(* bytes than it says and leaves there what was in the buffer.             *)
Takes(w, m, i) ==
  InDpcd(w) = InDpcd(m) /\ CellOf(m, i) \in Cells(Place(w), w[5])
WritesAfter(k) == {sent[acked[l]] : l \in (k + 1)..Len(acked)}

(* Every byte of a write that was acknowledged is in memory as the main    *)
(* CPU sent it until a later acknowledged write claims its cell: no write  *)
(* reaches a cell its block, offset and length do not give, whatever came  *)
(* before it in the buffer.  (Cells are shared: DPCD 2 and 3 are kept with *)
(* EDID 2 and 3, and a block may reach into the next, see BlocksApart.     *)
(* Claimed unless a damaged message passed the checksum or the second CPU  *)
(* made the handler run.)                                                  *)
AsSent == \A k \in DOMAIN handled : handled[k].body = sent[handled[k].frame]
AckedHeld ==
  AsSent /\ ~intruded =>
    \A k \in DOMAIN acked : LET m == sent[acked[k]] IN
      \A i \in BytesOf(m) : InMemory(m, i) \/ \E w \in WritesAfter(k) : Takes(w, m, i)

(* "item in struct" (comm_run.c): only a later write of the same block     *)
(* takes the place of what was acknowledged.  The code does not keep this  *)
(* (README, findings).                                                     *)
BlocksApart ==
  AsSent /\ ~intruded =>
    \A k \in DOMAIN acked : LET m == sent[acked[k]] IN
      \A i \in BytesOf(m) :
        InMemory(m, i) \/ \E w \in WritesAfter(k) : w[3] = m[3] /\ Takes(w, m, i)

(* Between switches the flash, the context in RAM and the data map name    *)
(* the same partition, and it is the one asked for last (raced: an I2C     *)
(* request in between; astray: the finding of AskedIsStored).              *)
FlashInSync ==
  pc = "loop" /\ ~raced /\ ~astray =>
    /\ flashPart = part /\ ctxPart = part
    /\ request \in PartitionRequests => flashPart = Partition(request)

(* "Keep flash memory in sync and check if change is needed": the          *)
(* partition asked for is the one in flash.                                *)
AskedIsStored ==
  pc = "loop" /\ request \in PartitionRequests => flashPart = Partition(request)

=============================================================================
