-------------------------------- MODULE Commp --------------------------------
(***************************************************************************)
(* The COMMP transfer between flash_tool on the main CPU and the GPMCU     *)
(* bootloader: commp.c and commp_parser.c at both ends of a serial line.   *)
(* A ROM or an SPI partition is written block by block, each block         *)
(* acknowledged by number, and closed by the crc of the whole image; an    *)
(* SPI partition can be read back the same way.                            *)
(*                                                                         *)
(* One tool process runs at a time; it gives up at the first surprise and  *)
(* the operator starts it again.  The device never times out.  The line    *)
(* may lose, damage, cut or join packets, and an answer may come after the *)
(* tool has stopped waiting for it.                                        *)
(***************************************************************************)
EXTENDS Integers, Sequences

CONSTANTS
  RomImages,   \* application binaries the operator flashes
  SpiImages,   \* FPGA bit files the operator flashes
  NBlocks,     \* DATA packets of a binary
  FullBlocks,  \* those of COMMP_DATA_SIZE bytes; a shorter one may follow
  LongRest,    \* the shorter one has 256 bytes or more
  Junk,        \* bytes the line or the flash has damaged
  FF,          \* a block of erased flash
  Hole,        \* a block of the read-back file that was never received
  None,
  Targets,     \* what the operator flashes
  Sources,     \* what the operator reads back
  Prepare,     \* the operator runs setrom or wipespi before each transfer
  LineSize,    \* packets on their way to the device
  Env,         \* faults that may occur
  MaxFaults    \* bound on the faults of a behaviour

SpiRoms == {"spi0", "spi1"}
Roms == {"rom"} \cup SpiRoms
Images == RomImages \cup SpiImages
ImagesFor(r) == IF r = "rom" THEN RomImages ELSE SpiImages
Faults == {"lose", "garble", "cut", "merge", "slow", "reset", "write"}

ASSUME SizeAssumption ==
  /\ NBlocks \in Nat \ {0} /\ NBlocks < 65536   \* blocknr is a uint16_t
  /\ FullBlocks \in {NBlocks - 1, NBlocks}
  /\ LongRest \in BOOLEAN /\ (LongRest => FullBlocks < NBlocks)
  /\ LineSize \in Nat \ {0} /\ MaxFaults \in Nat
ASSUME ChoiceAssumption ==
  /\ RomImages \cap SpiImages = {}
  /\ Targets \subseteq Roms /\ Sources \subseteq SpiRoms
  /\ Prepare \in BOOLEAN /\ Env \subseteq Faults
ASSUME NamesAssumption == None \notin Roms /\ Junk # Hole

VARIABLES
  hpc,       \* the call of flash_tool that waits, or "idle"
  job,       \* what the running or last process was asked to do
  blk,       \* blocknr of the host
  got,       \* the read-back file
  result,    \* how the last process ended
  dpc,       \* where the device is: in comm_protocol_run, in
             \* comm_protocol_retrieve_binary or storing the context
  ctxt,      \* run_transfer_ctxt
  rnr,       \* last_blocknr of comm_protocol_retrieve_binary
  flash,     \* contents of each area, from its start
  offset,    \* farea->offset of each area, in blocks
  romArea,   \* area of sdriver: "rom", or "backup" after a context store
  spiArea,   \* area of the SPI flash driver
  entry,     \* image whose crc the context in RAM holds, by target
  bootinfo,  \* the crc of the ROM in the stored boot context
  spiCopy,   \* the SPI context stored at the end of each SPI partition
  toDev,     \* external: packets on the line to the device
  toHost,    \* external: packets on the line to the host
  faults,    \* faults so far
  late,      \* an answer may still come that nobody waits for (history)
  cutShort   \* the device was reset before it stored (history)

hostVars == <<hpc, job, blk, got, result>>
flashVars == <<flash, offset, romArea, spiArea>>
ctxVars == <<entry, bootinfo, spiCopy>>
devVars == <<dpc, ctxt, rnr, flashVars, ctxVars>>
vars == <<hostVars, devVars, toDev, toHost, faults, late, cutShort>>

Block(i, k) == <<i, k>>
Image(i) == [k \in 1..NBlocks |-> Block(i, k)]
Blocks == {Block(i, k) : i \in Images, k \in 1..NBlocks}
Garbage == <<Junk, 0>>
Rubble == <<Junk, -1>>    \* what is at a block's place after bytes before it
                          \* were lost: parts of two blocks, or old content
Erased == <<FF, 0>>
Missing == <<Hole, 0>>
NoEntry == <<>>           \* MAGIC_CRC
Unknown == <<Garbage>>    \* an entry of a context that was never written
Areas == Roms \cup {"backup"}

(* The packets; a crc is the image it was computed over.                   *)
Packet(op, rom, nr, data) == [op |-> op, rom |-> rom, nr |-> nr, data |-> data]
Cmd(op) == Packet(op, None, 0, <<>>)
For(op, rom) == Packet(op, rom, 0, <<>>)
Data(n, b) == Packet("DATA", None, n, <<b>>)
Ack(n) == Packet("ACK", None, n, <<>>)
Crc(c) == Packet("CRC", None, 0, c)
Noise == Cmd("JUNK")
Ops == {"WRQ", "RRQ", "DATA", "ACK", "ERR", "CRC", "INFO", "END", "SPI_END",
        "WIPE", "SET", "JUNK"}

(* _clear_transfer_ctxt and _reset_transfer_ctxt.                          *)
Clear == [inProgress |-> FALSE, last |-> 0, part |-> None]
Reset(c) == [c EXCEPT !.inProgress = FALSE, !.last = 0]

NoJob == [kind |-> "flash", rom |-> None, image |-> None]

(* The context of an SPI partition that cannot be read: only the first     *)
(* entry is initialised.                                                   *)
ErasedCopy == [r \in SpiRoms |-> Unknown]
NewSpi == [ErasedCopy EXCEPT !.spi0 = NoEntry]
LoadSpi(copy) == IF copy = ErasedCopy THEN NewSpi ELSE copy
Context(rom, spi) == [r \in Roms |-> IF r = "rom" THEN rom ELSE spi[r]]

Init ==
  /\ hpc = "idle" /\ job = NoJob /\ blk = 0 /\ got = <<>> /\ result = "none"
  /\ dpc = "run" /\ ctxt = Clear /\ rnr = 0
  /\ flash = [a \in Areas |-> <<>>] /\ offset = [a \in Areas |-> 0]
  /\ romArea = "rom" /\ spiArea = "spi1"     \* as _initialize_spi_info leaves it
  /\ entry = Context(NoEntry, NewSpi)
  /\ bootinfo = NoEntry /\ spiCopy = [a \in SpiRoms |-> ErasedCopy]
  /\ toDev = <<>> /\ toHost = <<>>
  /\ faults = 0 /\ late = FALSE /\ cutShort = FALSE

-----------------------------------------------------------------------------
(* The line.                                                               *)

Send(p) == toDev' = IF Len(toDev) < LineSize THEN Append(toDev, p) ELSE toDev
Take == toDev # <<>> /\ toDev' = Tail(toDev)
Packet1 == Head(toDev)
Reply(p) == toHost' = Append(toHost, p)
Silent == UNCHANGED toHost

(* Nothing that could bring an answer is on the line.                      *)
Quiet == toDev = <<>> /\ toHost = <<>>

(* Something is on its way to the device that it will answer.              *)
Pending ==
  \E n \in 1..Len(toDev) :
    toDev[n].op \notin {"END", "SPI_END", "SET", "WIPE", "ERR", "JUNK"}
      \/ dpc = "retrieve"

-----------------------------------------------------------------------------
(* flash_tool.                                                             *)

(* The process ends: comm_protocol_close.                                  *)
Exit(r) == hpc' = "idle" /\ result' = r

(* A process starts when the device is done with the one before, unless it *)
(* is slow.  Opening the port discards what arrived while it was closed.   *)
Fault(kind) == kind \in Env /\ faults < MaxFaults /\ faults' = faults + 1
OpenPort ==
  /\ toHost' = <<>> /\ late' = Pending
  /\ \/ toDev = <<>> /\ dpc # "store" /\ UNCHANGED faults
     \/ (toDev # <<>> \/ dpc = "store") /\ Fault("slow")

(* The operator starts a transfer with a process of its own for setrom,    *)
(* wipespi or setspi.  Like every command but those that begin as "info"   *)
(* does, it asks for the boot information first.                           *)
Prepared(kind) == Prepare \/ kind = "read"
Start(kind, r, i) ==
  /\ hpc = "idle"
  /\ job' = [kind |-> kind, rom |-> r, image |-> i]
  /\ result' = "none" /\ blk' = 0 /\ got' = <<>>
  /\ cutShort' = FALSE /\ OpenPort
  /\ IF Prepared(kind) THEN hpc' = "prepare" /\ Send(Cmd("INFO"))
                          ELSE hpc' = "open" /\ UNCHANGED toDev
  /\ UNCHANGED devVars
StartFlash(r, i) == Start("flash", r, i)
StartRead(r) == Start("read", r, None)
Preparation ==
  IF job.kind = "flash" /\ job.rom \in SpiRoms THEN "WIPE" ELSE "SET"

(* The transfer process: main() asks for the boot information first, but   *)
(* only for a ROM and only to write.                                       *)
Open ==
  /\ hpc = "open" /\ OpenPort
  /\ IF job.kind = "read" THEN hpc' = "read" /\ Send(For("RRQ", job.rom))
     ELSE IF job.rom = "rom" THEN hpc' = "info" /\ Send(Cmd("INFO"))
     ELSE hpc' = "wrq" /\ Send(For("WRQ", job.rom))
  /\ UNCHANGED <<job, blk, got, result, devVars, cutShort>>

(* comm_protocol_read_data returns a packet, or -1 after its timeout.      *)
Hear == toHost # <<>> /\ toHost' = Tail(toHost)
Heard == Head(toHost)
TimedOut == Quiet /\ UNCHANGED <<toHost, faults, late>>

(* The answer is on its way, but too late.                                 *)
TimedOutEarly ==
  /\ Fault("slow") /\ late' = TRUE
  /\ toHost = <<>> /\ ~Quiet
  /\ UNCHANGED toHost
GaveUp == TimedOut \/ TimedOutEarly

(* _send_cmd "info": whatever came back, or nothing, the tool goes on.     *)
InfoDone ==
  /\ hpc \in {"prepare", "info"}
  /\ \/ Hear /\ UNCHANGED <<faults, late>>
     \/ GaveUp
  /\ IF hpc = "prepare" THEN hpc' = "open" /\ Send(For(Preparation, job.rom))
                        ELSE hpc' = "wrq" /\ Send(For("WRQ", job.rom))
  /\ UNCHANGED <<job, blk, got, result, devVars, cutShort>>

(* _ack_phandler.                                                          *)
AckOf(p, n) == p.op = "ACK" /\ p.nr = n

(* The next block, or the crc after the last.                              *)
SendNext(k) ==
  IF k <= NBlocks
  THEN hpc' = "data" /\ blk' = k /\ Send(Data(k, Block(job.image, k)))
  ELSE hpc' = "crc" /\ blk' = blk /\ Send(Crc(Image(job.image)))

(* The answer to WRQ: any ACK will do, its number is not looked at.        *)
WrqAnswered ==
  /\ hpc = "wrq" /\ Hear
  /\ IF Heard.op = "ACK" THEN SendNext(1) /\ UNCHANGED result
     ELSE Exit("failed") /\ UNCHANGED <<blk, toDev>>
  /\ UNCHANGED <<job, got, devVars, faults, late, cutShort>>

(* The answer to a block: _ack_phandler wants the number just sent, and    *)
(* _err_phandler always fails.  Any other packet is answered with an ERR,  *)
(* except in the code for the shorter last block.                          *)
DataAnswered ==
  /\ hpc = "data" /\ Hear
  /\ \/ AckOf(Heard, blk) /\ SendNext(blk + 1) /\ UNCHANGED result
     \/ /\ Heard.op \in {"ACK", "ERR"} /\ ~AckOf(Heard, blk)
        /\ Exit("failed") /\ UNCHANGED <<blk, toDev>>
     \/ /\ Heard.op \notin {"ACK", "ERR"}
        /\ Exit("failed") /\ UNCHANGED blk
        /\ IF blk <= FullBlocks THEN Send(Cmd("ERR")) ELSE UNCHANGED toDev
  /\ UNCHANGED <<job, got, devVars, faults, late, cutShort>>

(* The "dummy ack read": any packet ends the transfer.  Only SPIFLASH0 is  *)
(* closed with COMMP_CMD_SPI_END.                                          *)
CrcAnswered ==
  /\ hpc = "crc" /\ Hear
  /\ Send(Cmd(IF job.rom = "spi0" THEN "SPI_END" ELSE "END"))
  /\ Exit("ok")
  /\ UNCHANGED <<job, blk, got, devVars, faults, late, cutShort>>

TransferTimeout ==
  /\ hpc \in {"wrq", "data", "crc"}
  /\ GaveUp /\ Exit("failed")
  /\ UNCHANGED <<job, blk, got, devVars, toDev, cutShort>>

(* _read_back_rom asks for the blocks one by one and takes the error of    *)
(* one block for a block of the file.                                      *)
NextRead(b) ==
  /\ got' = Append(got, b) /\ blk' = blk + 1
  /\ IF blk + 1 = NBlocks THEN Exit("read") ELSE UNCHANGED <<hpc, result>>

(* comm_protocol_read_binary: everything up to a DATA header is flushed,   *)
(* the number in the header is only printed.                               *)
ReadBlock ==
  /\ hpc = "read" /\ Hear
  /\ IF Heard.op = "DATA" THEN NextRead(Heard.data[1]) /\ Send(Ack(blk))
     ELSE UNCHANGED <<hpc, result, got, blk, toDev>>
  /\ UNCHANGED <<job, devVars, faults, late, cutShort>>

ReadTimeout ==
  /\ hpc = "read" /\ GaveUp /\ NextRead(Missing)
  /\ UNCHANGED <<job, devVars, toDev, cutShort>>

HostStep ==
  \/ Open \/ InfoDone \/ WrqAnswered \/ DataAnswered \/ CrcAnswered
  \/ TransferTimeout \/ ReadBlock \/ ReadTimeout

-----------------------------------------------------------------------------
(* The device: comm_protocol_run handles one packet after the other.       *)

Arrives(op) == dpc = "run" /\ Take /\ Packet1.op = op

(* A packet that does not parse: comm_protocol_run returns                 *)
(* COMMP_CMD_ERROR, main() calls it again, and it clears the context.      *)
Refuse ==
  /\ ctxt' = Clear
  /\ Silent /\ UNCHANGED <<dpc, rnr, flashVars, ctxVars>>

(* A driver writes as many bytes as the packet has and moves its offset by *)
(* them: what follows a block that came short is not at its place.         *)
CameShort(a, k) == k <= Len(flash[a]) /\ flash[a][k] = Rubble
Shifted(a) == \E k \in 1..offset[a] : CameShort(a, k)
Misplaced(a, b) == b = Rubble \/ Shifted(a)

(* Flash is programmed at the offset; what was not erased is spoilt.       *)
Put(content, at, b) ==
  IF at = Len(content) THEN Append(content, b) ELSE [content EXCEPT ![at + 1] = b]
Programmed(a, b) ==
  Put(flash[a], offset[a],
      IF Misplaced(a, b) THEN Rubble
      ELSE IF offset[a] = Len(flash[a]) THEN b ELSE Garbage)

Driver(rom) == IF rom \in SpiRoms THEN spiArea ELSE romArea

(* The storage operations: erase an area, and flush, which returns to its  *)
(* start.                                                                  *)
EraseArea(a) == flash' = [flash EXCEPT ![a] = <<>>]
Flush(a) == offset' = [offset EXCEPT ![a] = 0]

(* COMMP_WRQ: _wrq_phandler erases a ROM, whatever area is selected, and   *)
(* no SPI partition; then the run flushes the storage and answers.         *)
DevWrq ==
  /\ Arrives("WRQ")
  /\ \/ ctxt.inProgress /\ Refuse
     \/ /\ ~ctxt.inProgress
        /\ ctxt' = [ctxt EXCEPT !.inProgress = TRUE, !.part = Packet1.rom]
        /\ LET a == Driver(Packet1.rom)
           IN /\ IF Packet1.rom = "rom" THEN EraseArea(a) ELSE UNCHANGED flash
              /\ Flush(a)
        /\ Reply(Ack(ctxt.last))
        /\ UNCHANGED <<dpc, rnr, romArea, spiArea, ctxVars>>

(* COMMP_DATA: only the block after the last one, of a transfer.  A block   *)
(* that came short is stored and acknowledged like any other; internal     *)
(* flash may refuse what is not aligned any more.                          *)
DataExpected == ctxt.inProgress /\ Packet1.nr = ctxt.last + 1
DevData ==
  /\ Arrives("DATA")
  /\ \/ ~DataExpected /\ Refuse
     \/ DataExpected /\ ctxt.part \notin SpiRoms
        /\ Misplaced(romArea, Packet1.data[1]) /\ Refuse
     \/ /\ DataExpected
        /\ LET a == Driver(ctxt.part)
           IN /\ flash' = [flash EXCEPT ![a] = Programmed(a, Packet1.data[1])]
              /\ offset' = [offset EXCEPT ![a] = @ + 1]
        /\ ctxt' = [ctxt EXCEPT !.last = Packet1.nr]
        /\ Reply(Ack(Packet1.nr))
        /\ UNCHANGED <<dpc, rnr, romArea, spiArea, ctxVars>>

(* The storage refuses the block: the run ends with an error.              *)
DevDataFails_Acked ==
  /\ Fault("write") /\ Arrives("DATA") /\ DataExpected
  /\ ctxt' = [ctxt EXCEPT !.last = Packet1.nr] /\ Reply(Ack(Packet1.nr))
  /\ UNCHANGED <<dpc, rnr, flashVars, ctxVars>>
DevDataFails ==
  /\ Fault("write")
  /\ Arrives("DATA") /\ DataExpected
  /\ Refuse

(* COMMP_CMD_CRC, for a transfer in progress or not.  A ROM is compared    *)
(* over the area selected, which matches no image when it is the backup of *)
(* the boot context, and its entry is set before the comparison; an SPI    *)
(* partition is compared over what was received and its entry set after.   *)
(* The answer leaves before the context is stored.                         *)
(* _crc_spi_flash_storage keeps the number of bytes after the last full    *)
(* block in a uint8_t: of 256 and more it leaves some out.  (The crc moves *)
(* the offset of an SPI area; every transfer begins with a flush, so that  *)
(* no step depends on it.)                                                 *)
CrcRom ==
  LET matches == romArea = "rom" /\ flash.rom = Packet1.data
  IN /\ Flush(romArea)
     /\ entry' = [entry EXCEPT !.rom = flash[romArea]]
     /\ \/ matches /\ Reply(Ack(ctxt.last)) /\ dpc' = "store" /\ UNCHANGED ctxt
        \/ ~matches /\ ctxt' = Clear /\ Silent /\ UNCHANGED dpc
SpiCrc(received) ==
  IF LongRest /\ Len(received) > FullBlocks
  THEN Append(SubSeq(received, 1, FullBlocks), Garbage) ELSE received
CrcSpi_Unchecked ==
  /\ Flush(spiArea)
  /\ entry' = [entry EXCEPT ![ctxt.part] = Packet1.data]
  /\ Reply(Ack(ctxt.last)) /\ dpc' = "store" /\ UNCHANGED ctxt
CrcSpi ==
  LET received == SubSeq(flash[spiArea], 1, offset[spiArea])
      matches == SpiCrc(received) = Packet1.data
  IN /\ Flush(spiArea)
     /\ \/ /\ matches /\ entry' = [entry EXCEPT ![ctxt.part] = received]
           /\ Reply(Ack(ctxt.last)) /\ dpc' = "store" /\ UNCHANGED ctxt
        \/ ~matches /\ ctxt' = Clear /\ Silent /\ UNCHANGED <<dpc, entry>>
DevCrc ==
  /\ Arrives("CRC")
  /\ IF ctxt.part \in SpiRoms THEN CrcSpi ELSE CrcRom
  /\ UNCHANGED <<rnr, flash, romArea, spiArea, bootinfo, spiCopy>>

(* Both copies of the SPI context take the entries in RAM.                 *)
StoreSpiContext == spiCopy' = [a \in SpiRoms |-> [r \in SpiRoms |-> entry[r]]]

(* What main() does with COMMP_CMD_CRC and COMMP_CMD_WRITE_SPI_CTXT.  The  *)
(* driver stays on the area it wrote last.                                 *)
Store ==
  /\ dpc = "store" /\ dpc' = "run" /\ ctxt' = Clear
  /\ IF ctxt.part \in SpiRoms
     THEN /\ StoreSpiContext
          /\ spiArea' = "spi1" /\ UNCHANGED <<flash, romArea, bootinfo>>
     ELSE /\ bootinfo' = entry.rom
          /\ romArea' = "backup" /\ flash' = [flash EXCEPT !.backup = Unknown]
          /\ UNCHANGED <<spiArea, spiCopy>>
  /\ UNCHANGED <<rnr, offset, entry, toDev, toHost>>

(* A command resets the context and is handled by main().                  *)
Command(op) == Arrives(op) /\ ctxt' = Clear /\ UNCHANGED <<dpc, rnr>>

DevInfo ==
  /\ Command("INFO") /\ Reply(Cmd("INFO"))
  /\ UNCHANGED <<flashVars, ctxVars>>

(* COMMP_CMD_END selects the partition that was written.                   *)
DevEnd ==
  /\ \/ Command("END") /\ romArea' = "rom"
     \/ Command("SPI_END") /\ UNCHANGED romArea
  /\ Silent /\ UNCHANGED <<flash, offset, spiArea, ctxVars>>

(* COMMP_CMD_SET_ROM0/1 and COMMP_CMD_SET_SPI0/1.                          *)
DevSet ==
  /\ Command("SET")
  /\ IF Packet1.rom = "rom" THEN romArea' = "rom" /\ UNCHANGED spiArea
     ELSE spiArea' = Packet1.rom /\ UNCHANGED romArea
  /\ Silent /\ UNCHANGED <<flash, offset, ctxVars>>

(* COMMP_CMD_ERASE_SPI0/1: the whole partition, with its context copy.     *)
DevWipe ==
  /\ Command("WIPE")
  /\ LET a == Packet1.rom
     IN /\ spiArea' = a
        /\ EraseArea(a) /\ Flush(a)
        /\ entry' = [entry EXCEPT ![a] = NoEntry]
        /\ spiCopy' = [spiCopy EXCEPT ![a] = ErasedCopy]
  /\ Silent /\ UNCHANGED <<romArea, bootinfo>>

(* An acknowledgement of the last block is read and ignored; nothing else  *)
(* that is left parses.                                                    *)
DevOther ==
  \/ /\ Arrives("ACK")
     /\ IF ctxt.inProgress /\ Packet1.nr = ctxt.last
        THEN UNCHANGED <<devVars, toHost>> ELSE Refuse
  \/ (Arrives("ERR") \/ Arrives("JUNK")) /\ Refuse

(* COMMP_RRQ: comm_protocol_retrieve_binary always reads the SPI flash,    *)
(* from the start of the selected area.  The name is compared without its  *)
(* terminator, so that spi1 may be taken for spi0; only part_nr shows it.  *)
At(content, n) == IF n < Len(content) THEN content[n + 1] ELSE Erased
SendBlock(n) == rnr' = n /\ Reply(Data(n, At(flash[spiArea], offset'[spiArea] - 1)))
Named(rom) == IF rom = "spi1" THEN SpiRoms ELSE {rom}
DevRrq_NoFlush ==
  /\ Arrives("RRQ")
  /\ \/ ctxt.inProgress /\ Refuse
     \/ /\ ~ctxt.inProgress
        /\ ctxt' = [ctxt EXCEPT !.part = Packet1.rom] /\ dpc' = "retrieve"
        /\ offset' = [offset EXCEPT ![spiArea] = @ + 1] /\ SendBlock(0)
        /\ UNCHANGED <<flash, romArea, spiArea, ctxVars>>
DevRrq ==
  /\ Arrives("RRQ")
  /\ \/ ctxt.inProgress /\ Refuse
     \/ /\ ~ctxt.inProgress
        /\ \E r \in Named(Packet1.rom) : ctxt' = [ctxt EXCEPT !.part = r]
        /\ dpc' = "retrieve"
        /\ offset' = [offset EXCEPT ![spiArea] = 1] /\ SendBlock(0)
        /\ UNCHANGED <<flash, romArea, spiArea, ctxVars>>

(* Back to comm_protocol_run, which ignores the result and flushes.        *)
EndRetrieve ==
  /\ dpc' = "run" /\ rnr' = 0
  /\ Flush(spiArea)

(* While the read-back runs every packet is an answer to the last block.   *)
(* An image of one block has no full ones.                                 *)
RetrieveAcked_OneMore ==
  /\ AckOf(Packet1, rnr)
  /\ IF rnr + 1 <= NBlocks
     THEN /\ offset' = [offset EXCEPT ![spiArea] = @ + 1] /\ SendBlock(rnr + 1)
          /\ UNCHANGED dpc
     ELSE EndRetrieve /\ Reply(Cmd("SPI_END"))
RetrieveAcked ==
  /\ AckOf(Packet1, rnr)
  /\ IF rnr + 1 < NBlocks
     THEN /\ offset' = [offset EXCEPT ![spiArea] = @ + 1] /\ SendBlock(rnr + 1)
          /\ UNCHANGED dpc
     ELSE EndRetrieve /\ Reply(Cmd("SPI_END"))
RetrieveAborted_Waits ==
  ~AckOf(Packet1, rnr) /\ UNCHANGED <<dpc, rnr, offset>> /\ Silent
RetrieveAborted ==
  /\ ~AckOf(Packet1, rnr)
  /\ EndRetrieve
  /\ IF Packet1.op \notin {"ACK", "ERR"} /\ NBlocks > 1 /\ rnr < FullBlocks
     THEN Reply(Cmd("ERR")) ELSE Silent
Retrieve ==
  /\ dpc = "retrieve" /\ Take
  /\ RetrieveAcked \/ RetrieveAborted
  /\ UNCHANGED <<ctxt, flash, romArea, spiArea, ctxVars>>

DevHandles ==
  DevWrq \/ DevData \/ DevCrc \/ Store \/ DevInfo \/ DevEnd \/ DevSet
    \/ DevWipe \/ DevOther \/ DevRrq \/ Retrieve
DevStep == DevHandles /\ UNCHANGED <<hostVars, faults, late, cutShort>>
DevFails == DevDataFails /\ UNCHANGED <<hostVars, late, cutShort>>

-----------------------------------------------------------------------------
(* Faults.                                                                 *)

OnLine == UNCHANGED <<hostVars, devVars, late, cutShort>>

Lose ==
  /\ Fault("lose") /\ OnLine
  /\ \/ Take /\ UNCHANGED toHost
     \/ Hear /\ UNCHANGED toDev

(* Damage leaves a packet recognisable or does not.  A damaged crc is that *)
(* of nothing that can be in flash.                                        *)
With(p, b) ==
  {Noise} \cup (IF p.op = "DATA" THEN {[p EXCEPT !.data = <<b>>]}
               ELSE IF p.op = "CRC" THEN {[p EXCEPT !.data = <<Missing>>]} ELSE {})
Spoilt(p) == With(p, Garbage)

(* A packet that lost bytes is only shorter: there is no length in it.     *)
(* (The tool waits for the rest of a short block, and takes it as lost.)   *)
Shortened(p) == With(p, Rubble)
Damaged(p) == Spoilt(p) \cup Shortened(p)
Garble ==
  /\ Fault("garble") /\ OnLine
  /\ \/ /\ toDev # <<>>
        /\ \E p \in Damaged(Head(toDev)) : toDev' = <<p>> \o Tail(toDev)
        /\ UNCHANGED toHost
     \/ /\ toHost # <<>>
        /\ \E p \in Spoilt(Head(toHost)) : toHost' = <<p>> \o Tail(toHost)
        /\ UNCHANGED toDev

(* The idle line ends a packet: a pause in a packet makes two of it, two   *)
(* packets that wait for the device are read as one, up to the size of the *)
(* largest, which a full block has.                                        *)
Cut ==
  /\ Fault("cut") /\ OnLine
  /\ toDev # <<>>
  /\ \E p \in Shortened(Head(toDev)) : toDev' = <<p, Noise>> \o Tail(toDev)
  /\ UNCHANGED toHost
Merge ==
  /\ Fault("merge") /\ OnLine
  /\ Len(toDev) > 1
  /\ LET p == Head(toDev)
     IN /\ p.op = "DATA" => p.nr > FullBlocks
        /\ toDev' = <<IF p.op = "DATA" THEN [p EXCEPT !.data = <<Rubble>>] ELSE p>>
                       \o Tail(Tail(toDev))
  /\ UNCHANGED toHost

(* The device restarts and stays in the bootloader.                        *)
Restart ==
  /\ Fault("reset")
  /\ dpc' = "run" /\ ctxt' = Clear /\ rnr' = 0 /\ toDev' = <<>>
  /\ offset' = [a \in Areas |-> 0] /\ romArea' = "rom" /\ spiArea' = "spi1"
  /\ entry' = Context(bootinfo, LoadSpi(spiCopy.spi0))
  /\ cutShort' = (cutShort \/ dpc = "store")
  /\ UNCHANGED <<hostVars, flash, bootinfo, spiCopy, toHost, late>>

LineFault == Lose \/ Garble \/ Cut \/ Merge

Next ==
  \/ \E r \in Targets : \E i \in ImagesFor(r) : StartFlash(r, i)
  \/ \E r \in Sources : StartRead(r)
  \/ HostStep \/ DevStep \/ DevFails \/ LineFault \/ Restart

(* The tool's calls return, the device keeps handling packets, and the     *)
(* operator does not stop flashing.                                        *)
Fairness ==
  /\ WF_vars(HostStep) /\ WF_vars(DevStep)
  /\ SF_vars(\E r \in Targets : \E i \in ImagesFor(r) : StartFlash(r, i))
Spec == Init /\ [][Next]_vars /\ Fairness

-----------------------------------------------------------------------------
(* Properties.                                                             *)

Stuff == Blocks \cup {Garbage, Rubble}
Contents == Seq(Stuff)
Packets == [op : Ops, rom : Roms \cup {None}, nr : Nat, data : Seq(Stuff \cup {Erased, Missing})]

(* The types of the variables.                                             *)
TypeOK ==
  /\ hpc \in {"idle", "prepare", "open", "info", "wrq", "data", "crc", "read"}
  /\ job \in [kind : {"flash", "read"}, rom : Roms \cup {None}, image : Images \cup {None}]
  /\ blk \in 0..NBlocks
  /\ got \in Seq(Stuff \cup {Erased, Missing})
  /\ result \in {"none", "ok", "failed", "read"}
  /\ dpc \in {"run", "retrieve", "store"}
  /\ ctxt \in [inProgress : BOOLEAN, last : 0..NBlocks, part : Roms \cup {None}]
  /\ rnr \in 0..(NBlocks - 1)
  /\ flash \in [Areas -> Contents] /\ offset \in [Areas -> Nat]
  /\ romArea \in {"rom", "backup"} /\ spiArea \in SpiRoms
  /\ entry \in [Roms -> Contents] /\ bootinfo \in Contents
  /\ spiCopy \in [SpiRoms -> [SpiRoms -> Contents]]
  /\ toDev \in Seq(Packets) /\ toHost \in Seq(Packets)
  /\ faults \in 0..MaxFaults /\ late \in BOOLEAN /\ cutShort \in BOOLEAN

Holds(a, i) == flash[a] = Image(i)
Vouched(rom, i) ==
  IF rom = "rom" THEN bootinfo = Image(i)
  ELSE \A a \in SpiRoms : spiCopy[a][rom] = Image(i)

(* No FPGA bit file lies in the application ROM: a write request that was  *)
(* lost while a late one for the ROM was answered would leave it there.    *)
Unmixed == \A i \in SpiImages : ~Holds("rom", i)

(* When flash_tool reports success the device holds the image, and its     *)
(* stored context vouches for it, or is about to, or the device was reset  *)
(* in between -- although the tool checks neither the acknowledgement of   *)
(* its write request nor the answer to the crc.  (Of a port that was       *)
(* opened on a quiet line and never gave up on an answer that then came,   *)
(* and while the ROM holds no FPGA image: with it the crc of a transfer    *)
(* the device has forgotten is compared, whatever it was for.)             *)
OkMeansWritten ==
  result = "ok" /\ ~late /\ Unmixed =>
    /\ IF job.rom = "rom" THEN Holds("rom", job.image)
       ELSE \E a \in SpiRoms : Holds(a, job.image)
    /\ \/ Vouched(job.rom, job.image)
       \/ dpc = "store" /\ entry[job.rom] = Image(job.image)
       \/ cutShort

(* Every block before the one the tool is sending is in flash at its       *)
(* place, as sent or as the line damaged it, up to the first that came     *)
(* short: the acknowledged prefix has no hole and nothing of another image.*)
(* From a short one on the code still acknowledges, but what it stores is  *)
(* shifted (commp_parser.c:205, storage_spi_flash.c:139); that only the    *)
(* crc finds, see OkMeansWritten.                                          *)
InPlace(a, k) ==
  k <= Len(flash[a]) /\ flash[a][k] \in {Block(job.image, k), Garbage}
AckedIsStored ==
  hpc \in {"data", "crc"} /\ ~late =>
    LET n == IF hpc = "crc" THEN NBlocks ELSE blk - 1
    IN \E a \in Areas : \A k \in 1..n :
         InPlace(a, k) \/ \E j \in 1..k : CameShort(a, j)

(* A file that was read back without a missing block is the content of a   *)
(* partition, block for block, although the tool looks at no block number. *)
ReadBackFaithful ==
  result = "read" /\ ~late /\ (\A k \in DOMAIN got : got[k] # Missing) =>
    \E a \in SpiRoms : \A k \in DOMAIN got :
      got[k] \in {At(flash[a], k - 1), Garbage}

(* Whatever an abandoned transfer or read-back left behind, repeating the  *)
(* procedure succeeds in the end.  (The procedure begins with setrom or    *)
(* wipespi, Prepare: a transfer alone may find a partition that was not    *)
(* erased, or the backup selected, and fail for ever.)                     *)
Recovers == []<>(result = "ok")

(* "-g <0,1> Indicates binary firmware file is for Gowin(SPI flash)        *)
(* partition write nr" (src/tools/README.md): a successful transfer for an *)
(* SPI partition has written that partition.  The code does not keep this  *)
(* (README, findings).                                                     *)
NamedPartitionWritten ==
  result = "ok" /\ job.rom \in SpiRoms => Holds(job.rom, job.image)

(* "the idea is to only check the supplied file length" (storage_spi_      *)
(* flash.c): when nothing went wrong and the partition holds the image,    *)
(* the tool is not left waiting for the answer to its crc.                 *)
IntactImageAccepted ==
  hpc = "crc" /\ job.rom \in SpiRoms /\ faults = 0 /\ Quiet /\ dpc = "run" =>
    \A a \in SpiRoms : ~Holds(a, job.image)

=============================================================================
