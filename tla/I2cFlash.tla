------------------------------- MODULE I2cFlash -------------------------------
(***************************************************************************)
(* The Gowin flash as the application serves it over I2C: the flash_tool   *)
(* on the main CPU (comm_i2c_gpmcu.c), the I2C slave callback              *)
(* (i2c_slave.c) with the decoder of flash commands (byteWrite2SPI of      *)
(* comm_run.c), the SPI command queue (SpiQueue), the flash driver         *)
(* (is25xp.c) and the watchdog interrupt that may end the main loop.       *)
(*                                                                         *)
(* Three actors interleave: the tool, whose transfers arrive in chunks of  *)
(* the size the callback asked for; the interrupts; and the main loop.     *)
(* The flash itself and the I2C peripheral driver are external.            *)
(***************************************************************************)
EXTENDS SpiQueue, Sequences, FiniteSets

CONSTANTS
  Last,        \* index of the last page of an image
  Span,        \* how many pages an erase command erases
  EraseCount,  \* the tool erases blocks 0..EraseCount
  Images,      \* the images the tool may be asked to program
  Data,        \* what pages may hold
  Singles,     \* transfers the operator may make on its own
  Backlog,     \* the tool goes on while the queue holds at most so many
  MaxSessions, \* bound on the sessions of the tool
  MaxFaults    \* bound on aborted sessions, lost and single transfers

VARIABLES
  expected,    \* expectedBytes of the callback
  remaining,   \* remainingbytes of byteWrite2SPI
  prevCmd,     \* _prevCmd of byteWrite2SPI
  address,     \* _AddressBuf[1..2]: a page or MORE_BYTE_MARKER
  pageTx,      \* g_SlaveTxPageSize
  completion,  \* g_SlaveCompletionFlag
  txBuf,       \* the page that is being sent from g_slave_buff
  txLeft,      \* the parts of it that were not fetched yet (txSize)
  i2cOn,       \* the slave answers to its addresses
  wire,        \* the chunks of the tool's transfer that did not arrive yet
  step,        \* how far the running command is
  lastWasWrite,\* priv.lastwaswrite
  spiPage,     \* Main.Debug.SpiFlashPage
  flash,       \* content of the flash
  wip,         \* the flash is busy
  asleep,      \* the flash is in deep power-down
  wdogOff,     \* Main.Diagnostics.WatchDogDisabled
  nvicOn,      \* the watchdog interrupt is enabled
  runout,      \* Main.Diagnostics.WatchDogRunout
  mainLoop,    \* g_main_loop
  host,        \* the tool
  sessions, faults,  \* what the bounds count
  handed,      \* history: pages handed over for programming
  answered,    \* history: the last READ that was sent has been executed, and
               \* no command that changes the flash waited any more
  stale,       \* history: a page was fetched before its READ was executed
  backlog,     \* history: a transfer was sent while commands waited
  disturbed,   \* history: a session was cut short, a transfer of it lost, or
               \* the flash put to sleep
  clashed      \* history: the busy flash was given a command to program,
               \* erase or read

isr == <<expected, remaining, prevCmd, address, pageTx>>
tx == <<txBuf, txLeft>>
device == <<lastWasWrite, spiPage, flash, wip, asleep>>
wdog == <<wdogOff, nvicOn, runout, mainLoop, i2cOn>>
bounds == <<sessions, faults>>
hist == <<handed, answered, stale, backlog, disturbed, clashed>>
slaveVars == <<isr, tx, completion, wire>>
vars == <<queueVars, slaveVars, step, device, wdog, host, bounds, hist>>

ImagePages == 0..Last
Elsewhere == -1           \* every page outside the modelled ones
Pages == 0..(Span["BER64"] * (EraseCount + 1) - 1)
Addresses == Pages \cup {Elsewhere}
Marker == 48830           \* MORE_BYTE_MARKER in both bytes, 0xbebe
PageLimit == 12288        \* 0x3000: from here a page starts like a register
EraseCmds == {"SE", "SE_", "BER32", "BER64"}
TwoByteCmds == EraseCmds \cup {"READ", "VERBOSE"}   \* two more bytes follow
PlainCmds == {"RDSR", "RDID", "CER", "DP", "RDP"}
Changing == EraseCmds \cup {"CER", "PP"}
Cmds == TwoByteCmds \cup PlainCmds \cup {"PP"}
NoCmd == "NO_CMD"
Contents == Data \cup {"erased", "mixed"}
Torn == "torn"            \* half the old page, half the new one
Noise == "noise"          \* what a busy or sleeping flash answers
FlashMessages == [cmd : Cmds, page : Addresses, data : Data \cup {"none"}]

ASSUME FlashAssumption == Entries = FlashMessages

(* The tool erases more than it programs.  The file is shorter than 3 MB   *)
(* (a partition has 256 kB): the first byte of a page is no register and   *)
(* not the identifier 0x50, and the two bytes of a command, or the marker, *)
(* are no page of the image.                                               *)
ASSUME ImageAssumption ==
  /\ Last \in Nat /\ EraseCount \in Nat
  /\ Span \in [EraseCmds -> Nat \ {0}]
  /\ Last < Span["BER64"] * (EraseCount + 1)
  /\ Span["BER64"] * (EraseCount + 1) <= PageLimit
  /\ Images \subseteq [ImagePages -> Data]
  /\ {Torn, Noise} \cap Data = {}

Message(c, p, d) == [cmd |-> c, page |-> p, data |-> d]

-----------------------------------------------------------------------------
(* The transfers of the tool, as the chunks the slave splits them into.    *)
(* A page of data is one chunk.                                            *)

CmdChunk(c) == [kind |-> "cmd", cmd |-> c]
AddrChunk(p) == [kind |-> "addr", page |-> p]
DataChunk(d) == [kind |-> "data", data |-> d]
RegChunk(r) == [kind |-> "reg", reg |-> r]
PageAccess(on) == [kind |-> "access", on |-> on]

WithAddress(c, p) == <<CmdChunk(c), AddrChunk(p)>>

Registers == {"runout", "wdogOff", "wdogOn"}

(* What the operator may send: i2c_spi_flash_cmd, whose PP is a session of *)
(* its own, i2c_spi_flash_erase64k, and a write to a register.             *)
ASSUME OperatorAssumption ==
  Singles \subseteq
    {<<CmdChunk(c)>> : c \in PlainCmds \cup EraseCmds}
      \cup {WithAddress(c, p) : c \in {"READ", "VERBOSE", "BER64"}, p \in Pages}
      \cup {<<RegChunk(r)>> : r \in Registers}

-----------------------------------------------------------------------------
(* byteWrite2SPI of comm_run.c: a command and what follows it.             *)

KeepParser == UNCHANGED <<remaining, prevCmd, address>>
KeepQueue == UNCHANGED queueVars

(* Fault: the decoder tells the callback what to expect and forgets it.    *)
Await_Fault(n) == expected' = n /\ UNCHANGED remaining

(* How many bytes the decoder awaits; it returns the number to the callback. *)
Await(n) == remaining' = n /\ expected' = n

(* Fault: the 64k erase is missing among the commands that are queued.     *)
QueueParam_Fault(m) ==
  IF m.cmd \in Cmds \ {"BER64"} THEN Accept(m) \/ Drop ELSE KeepQueue

(* spi_queue_msg_param, which knows its commands and has room or not.      *)
QueueParam(m) == IF m.cmd \in Cmds THEN Accept(m) \/ Drop ELSE KeepQueue

FirstPart(c) ==
  IF c \in TwoByteCmds \cup {"PP"}
  THEN /\ Await(2)
       /\ prevCmd' = c
       /\ address' = IF c = "PP" THEN Marker ELSE address
       /\ KeepQueue
  ELSE /\ QueueParam(Message(c, 0, "none"))
       /\ expected' = remaining
       /\ KeepParser

(* Two bytes are taken for an address and 256 for a page, whatever they    *)
(* were meant to be.                                                       *)
PageOf(chunk) == IF chunk.kind = "addr" THEN chunk.page ELSE Elsewhere
DataOf(chunk) == IF chunk.kind = "data" THEN chunk.data ELSE "none"

(* Fault: the two bytes after PP are forgotten when the page arrives.      *)
TargetOf_Fault(chunk) == PageOf(chunk)

TargetOf(chunk) == IF prevCmd = "PP" THEN address ELSE PageOf(chunk)

SecondPart(chunk) ==
  IF prevCmd = "PP" /\ address = Marker
  THEN /\ address' = PageOf(chunk)
       /\ Await(256)
       /\ UNCHANGED prevCmd
       /\ KeepQueue
  ELSE /\ QueueParam(Message(prevCmd, TargetOf(chunk), DataOf(chunk)))
       /\ address' = TargetOf(chunk)
       /\ prevCmd' = NoCmd
       /\ Await(0)

ByteWrite2SPI(chunk) ==
  IF chunk.kind # "cmd" /\ prevCmd = NoCmd
  THEN expected' = 0 /\ KeepParser /\ KeepQueue
  ELSE IF remaining > 0
       THEN SecondPart(chunk)
       ELSE FirstPart(IF chunk.kind = "cmd" THEN chunk.cmd ELSE "other")

-----------------------------------------------------------------------------
(* i2c_slave_callback.  A chunk is completed by its last byte, and only    *)
(* when no part of a page is left to be fetched.                           *)

(* byteWritebyId.                                                          *)
WriteById(r) ==
  /\ runout' = (runout \/ r = "runout")
  /\ wdogOff' = IF r = "runout" THEN wdogOff ELSE r = "wdogOff"
  /\ nvicOn' = IF r = "runout" THEN nvicOn ELSE r = "wdogOn"
  /\ UNCHANGED <<mainLoop, i2cOn>>

(* A page of data that nobody awaits is read as 128 commands: one of them  *)
(* at most means something here.                                           *)
Misread(chunk) ==
  /\ chunk.kind = "data"
  /\ \E c \in PlainCmds \cup {"other"} : QueueParam(Message(c, 0, "none"))
  /\ KeepParser /\ UNCHANGED expected

(* The completion event of a write to 0x60.                                *)
Complete(chunk) ==
  \/ /\ expected > 0 \/ chunk.kind = "cmd"
     /\ ByteWrite2SPI(chunk)
     /\ UNCHANGED wdog
  \/ /\ expected = 0 /\ chunk.kind = "reg"
     /\ WriteById(chunk.reg)
     /\ KeepParser /\ KeepQueue /\ UNCHANGED expected
  \/ /\ expected = 0 /\ chunk.kind = "addr"       \* no register has this number
     /\ KeepParser /\ KeepQueue /\ UNCHANGED <<expected, wdog>>
  \/ expected = 0 /\ Misread(chunk) /\ UNCHANGED wdog

(* Too few bytes for the page that is awaited stay in the buffer until the *)
(* next address match; nobody misses them.                                 *)
TooFew(chunk) == expected = 256 /\ chunk.kind # "data"

ReceiveCommand(chunk) ==
  /\ chunk.kind # "access"
  /\ IF txLeft = 0 /\ ~TooFew(chunk)
     THEN Complete(chunk) /\ completion' = TRUE
     ELSE /\ completion' = (completion \/ expected > 0)
          /\ KeepParser /\ KeepQueue /\ UNCHANGED <<expected, wdog>>
  /\ UNCHANGED pageTx

(* A write to 0x61.                                                        *)
ReceiveAccess(chunk) ==
  /\ chunk.kind = "access"
  /\ pageTx' = IF txLeft = 0 THEN chunk.on ELSE pageTx
  /\ completion' = (completion \/ txLeft = 0)
  /\ KeepParser /\ KeepQueue /\ UNCHANGED <<expected, wdog>>

ReceiveChunk ==
  /\ wire # <<>>
  /\ ReceiveCommand(Head(wire)) \/ ReceiveAccess(Head(wire))
  /\ wire' = Tail(wire)
  /\ UNCHANGED <<tx, step, device, host, bounds, hist>>

(* i2c_update: nothing completed for 0x1FFFF iterations.  The handles are  *)
(* created again; the statics of the callback and the decoder stay.  It    *)
(* may come in the middle of a page that the tool fetches slowly, or       *)
(* between the address and the first bytes of a transfer: the rest of it   *)
(* is not acknowledged and lost.                                           *)
SlaveTimeout ==
  /\ pc = "loop" /\ mainLoop
  /\ ~completion
  /\ completion' = TRUE /\ txLeft' = 0
  /\ IF wire = <<>>
     THEN UNCHANGED <<wire, host, faults>>
     ELSE /\ faults < MaxFaults /\ faults' = faults + 1
          /\ wire' = <<>> /\ host' = [host EXCEPT !.nak = TRUE]
  /\ disturbed' = (disturbed \/ host.pc = "fetch" \/ wire # <<>>)
  /\ UNCHANGED <<queueVars, isr, txBuf, step, device, wdog, sessions, handed,
                 answered, stale, backlog, clashed>>

-----------------------------------------------------------------------------
(* The flash (external): it executes what it is told unless it is busy or  *)
(* asleep.                                                                 *)

Ready == ~wip /\ ~asleep
Clash == clashed' = (clashed \/ wip)

ErasedBy(c, p) ==
  IF p = Elsewhere THEN {}
  ELSE {q \in Pages : q \div Span[c] = p \div Span[c]}

Wipe(ps) ==
  flash' = IF Ready THEN [p \in Pages |-> IF p \in ps THEN "erased" ELSE flash[p]]
           ELSE flash

Programmed(old, d) == IF old \in {"erased", d} THEN d ELSE "mixed"

FlashDone ==
  /\ wip
  /\ wip' = FALSE
  /\ UNCHANGED <<queueVars, slaveVars, step, lastWasWrite, spiPage, flash,
                 asleep, wdog, host, bounds, hist>>

-----------------------------------------------------------------------------
(* is25xp.c and the switch of spi_queue_process: the steps of the command  *)
(* in the slot that runs.                                                  *)

Cmd == Current.cmd
Page == Current.page
At(s) == pc = "exec" /\ step = s
KeepWire == UNCHANGED <<slaveVars, i2cOn, nvicOn, runout, mainLoop, host, bounds>>
Finish == Execute /\ step' = "start"

(* Fault: a page is programmed without waiting for the page before it.     *)
MustWait_Fault ==
  Cmd \in EraseCmds \cup {"CER"} \/ (Cmd = "READ" /\ lastWasWrite)

(* Every command that changes the flash first waits for the one before it; *)
(* a read waits after a page was programmed.                               *)
MustWait ==
  Cmd \in EraseCmds \cup {"PP", "CER"} \/ (Cmd = "READ" /\ lastWasWrite)

Start ==
  /\ At("start")
  /\ step' = IF MustWait THEN "wait" ELSE "issue"
  /\ wdogOff' = (wdogOff \/ Cmd = "CER")
  /\ UNCHANGED <<queueVars, device, hist>>
  /\ KeepWire

(* is25xp_waitwritecomplete: no timeout.  What a sleeping flash answers is *)
(* not defined.                                                            *)
Wait ==
  /\ pc = "exec" /\ step \in {"wait", "settle"}
  /\ ~wip
  /\ lastWasWrite' = FALSE
  /\ IF step = "wait"
     THEN /\ step' = "issue"
          /\ UNCHANGED <<queueVars, wdogOff>>
     ELSE /\ Finish
          /\ wdogOff' = (wdogOff /\ Cmd # "CER")
  /\ UNCHANGED <<spiPage, flash, wip, asleep, hist>>
  /\ KeepWire

(* is25xp_pagewrite.                                                       *)
PageWrite ==
  /\ At("issue") /\ Cmd = "PP"
  /\ flash' = IF Ready /\ Page \in Pages
              THEN [flash EXCEPT ![Page] = Programmed(@, Current.data)]
              ELSE flash
  /\ wip' = (wip \/ ~asleep)
  /\ lastWasWrite' = TRUE
  /\ Clash
  /\ Finish
  /\ UNCHANGED <<spiPage, asleep, wdogOff, handed, answered, stale, backlog,
                 disturbed>>
  /\ KeepWire

(* is25xp_sectorerase, is25xp_erase of one sector, is25xp_bulkerase: they  *)
(* wait once more before they return.                                      *)
Erase ==
  /\ At("issue") /\ Cmd \in EraseCmds \cup {"CER"}
  /\ Wipe(IF Cmd = "CER" THEN Pages ELSE ErasedBy(Cmd, Page))
  /\ wip' = (wip \/ ~asleep)
  /\ lastWasWrite' = (lastWasWrite \/ Cmd # "CER")
  /\ Clash
  /\ step' = "settle"
  /\ UNCHANGED <<queueVars, spiPage, asleep, wdogOff, handed, answered, stale,
                 backlog, disturbed>>
  /\ KeepWire

(* is25xp_read copies the page while the interrupt may send it.            *)
ReadFlash ==
  /\ At("issue") /\ Cmd = "READ"
  /\ spiPage' = Torn
  /\ Clash
  /\ step' = "copy"
  /\ UNCHANGED <<queueVars, answered>>

(* The end of spi_read_page.                                               *)
CopyPage ==
  /\ At("copy")
  /\ spiPage' = IF Ready /\ Page \in Pages THEN flash[Page] ELSE Noise
  /\ answered' = /\ host.pc = "fetch" /\ host.i = Page
                  /\ \A i \in Occupied : slots[i].cmd \notin Changing
  /\ Finish
  /\ UNCHANGED clashed

ReadPage ==
  /\ ReadFlash \/ CopyPage
  /\ UNCHANGED <<lastWasWrite, flash, wip, asleep, wdogOff, handed, stale,
                 backlog, disturbed>>
  /\ KeepWire

(* RDSR, RDID and VERBOSE change nothing here.                             *)
Plain ==
  /\ At("issue") /\ Cmd \in {"RDSR", "RDID", "VERBOSE"}
  /\ Finish
  /\ UNCHANGED <<device, wdogOff, hist>>
  /\ KeepWire

(* is25xp_PowerDown, is25xp_ReleasePowerDownGetDeviceID.                   *)
PowerMode ==
  /\ At("issue") /\ Cmd \in {"DP", "RDP"}
  /\ asleep' = (Cmd = "DP" /\ (asleep \/ ~wip))
  /\ disturbed' = (disturbed \/ Cmd = "DP")
  /\ Finish
  /\ UNCHANGED <<lastWasWrite, spiPage, flash, wip, wdogOff, handed, answered,
                 stale, backlog, clashed>>
  /\ KeepWire

FlashCommand == Start \/ Wait \/ PageWrite \/ Erase \/ ReadPage \/ Plain
                \/ PowerMode

QueueStep ==
  /\ (mainLoop \/ pc # "loop") /\ (Select \/ Release)
  /\ UNCHANGED <<slaveVars, step, device, wdog, host, bounds, hist>>

-----------------------------------------------------------------------------
(* WDT_BOD_IRQHandler: the main loop did not refresh the watchdog for four *)
(* seconds, because a whole-chip erase takes longer or it was asked to.    *)
(* The handler ends the main loop on the warning flag even where it has    *)
(* just found the watchdog disabled.                                       *)

Starved ==
  \/ runout
  \/ pc = "exec" /\ step = "settle" /\ Cmd = "CER" /\ wip
  \/ pc = "exec" /\ step \in {"wait", "settle"} /\ asleep

(* i2c_slave_disable.                                                      *)
SlaveDisable == i2cOn' = FALSE /\ wire' = <<>>

WatchdogIrq ==
  /\ mainLoop /\ nvicOn /\ Starved
  /\ mainLoop' = FALSE
  /\ SlaveDisable
  /\ host' = [host EXCEPT !.nak = @ \/ host.busy]
  /\ disturbed' = TRUE
  /\ UNCHANGED <<queueVars, isr, completion, tx, step, device, wdogOff,
                 nvicOn, runout, bounds, handed, answered, stale, backlog,
                 clashed>>

(* The end of main and the next start of the application.  The boot takes  *)
(* longer than a page program.                                             *)
Restart ==
  /\ ~mainLoop /\ pc = "loop"
  /\ Setup
  /\ expected' = 0 /\ remaining' = 0 /\ prevCmd' = NoCmd /\ address' = 0
  /\ pageTx' = FALSE /\ completion' = TRUE /\ txLeft' = 0
  /\ step' = "start"
  /\ lastWasWrite' = FALSE /\ spiPage' = Noise /\ wip' = FALSE
  /\ wdogOff' = FALSE /\ nvicOn' = TRUE /\ runout' = FALSE
  /\ mainLoop' = TRUE /\ i2cOn' = TRUE
  /\ UNCHANGED <<txBuf, wire, flash, asleep, host, bounds, hist>>

-----------------------------------------------------------------------------
(* The tool: comm_i2c_gpmcu.c.                                             *)

Idle == host.pc = "idle"

Begin(first) ==
  /\ Idle /\ sessions < MaxSessions
  /\ sessions' = sessions + 1
  /\ host' = [host EXCEPT !.pc = first, !.good = TRUE, !.result = "none"]
  /\ UNCHANGED <<queueVars, slaveVars, step, device, wdog, faults, hist>>

(* i2c_spi_flash_program and i2c_isp_flash_calculate_crc of the same file. *)
StartProgram == Begin("page_on")
StartCrc == Begin("crc_on")

(* A transfer of the operator: i2c_spi_flash_cmd and register writes.  The *)
(* tool sends two bytes for all commands but READ and VERBOSE, also for    *)
(* the erase commands the device awaits an address for.                    *)
Single ==
  /\ Idle /\ i2cOn /\ faults < MaxFaults
  /\ faults' = faults + 1
  /\ \E chunks \in Singles :
       /\ wire' = chunks
       /\ disturbed' = (disturbed \/ chunks[1] \in {CmdChunk(c) : c \in EraseCmds})
  /\ completion' = FALSE
  /\ host' = [host EXCEPT !.pc = "single", !.busy = TRUE, !.result = "none"]
  /\ UNCHANGED <<queueVars, isr, tx, step, device, wdog, sessions,
                 handed, answered, stale, backlog, clashed>>

Chunks ==
  CASE host.pc \in {"page_on", "crc_on"} -> <<PageAccess(TRUE)>>
    [] host.pc \in {"page_off", "crc_off"} -> <<PageAccess(FALSE)>>
    [] host.pc \in {"quiet", "loud"} -> WithAddress("VERBOSE", 0)
    [] host.pc = "erase" -> WithAddress("BER64", host.i * Span["BER64"])
    [] host.pc = "pp" -> WithAddress("PP", host.i)
    [] host.pc = "ppdata" -> <<DataChunk(host.img[host.i])>>
    [] host.pc = "read" -> WithAddress("READ", host.i)

Writes == {"page_on", "page_off", "crc_on", "crc_off", "quiet", "loud",
           "erase", "pp", "ppdata", "read"}

Send ==
  /\ host.pc \in Writes /\ ~host.busy
  /\ Cardinality(Occupied) <= Backlog
  /\ wire' = IF i2cOn THEN Chunks ELSE <<>>
  /\ completion' = (completion /\ ~i2cOn)
  /\ host' = [host EXCEPT !.busy = TRUE, !.nak = ~i2cOn]
  /\ handed' = IF host.pc = "ppdata"
               THEN handed \cup {<<host.i, host.img[host.i]>>} ELSE handed
  /\ answered' = (answered /\ host.pc # "read")
  /\ backlog' = \/ backlog
                 \/ (host.pc \in {"erase", "pp", "ppdata"} /\ Occupied # {})
  /\ UNCHANGED <<queueVars, isr, tx, step, device, wdog, bounds, stale,
                 disturbed, clashed>>

Goto(to, k) == [host EXCEPT !.pc = to, !.i = k, !.busy = FALSE, !.nak = FALSE]
End(r) == [Goto("idle", 0) EXCEPT !.result = r, !.part = 1, !.failed = FALSE]

(* Only a page that was not accepted stops the tool.                       *)
Return ==
  /\ host.busy /\ wire = <<>>
  /\ host' =
       CASE host.pc = "page_on" -> Goto("erase", 0)
         [] host.pc = "erase" -> IF host.i < EraseCount
                                 THEN Goto("erase", host.i + 1)
                                 ELSE Goto("pp", 0)
         [] host.pc = "pp" -> [Goto("ppdata", host.i) EXCEPT !.failed = host.nak]
         [] host.pc = "ppdata" -> IF host.failed \/ host.nak THEN End("failed")
                                  ELSE IF host.i < Last THEN Goto("pp", host.i + 1)
                                  ELSE Goto("page_off", 0)
         [] host.pc = "page_off" -> End("programmed")
         [] host.pc = "crc_on" -> Goto("quiet", 0)
         [] host.pc = "quiet" -> Goto("read", 0)
         [] host.pc = "read" -> [Goto("fetch", host.i) EXCEPT !.part = 1]
         [] host.pc = "loud" -> Goto("crc_off", 0)
         [] host.pc = "crc_off" -> End(IF host.good THEN "match" ELSE "nomatch")
         [] host.pc = "single" -> End("none")
  /\ UNCHANGED <<queueVars, slaveVars, step, device, wdog, bounds, hist>>

(* Fault: only the last page decides.                                      *)
Verdict_Fault(same) == same

(* One page that differs is enough for the CRC to differ.                  *)
Verdict(same) == host.good /\ same

(* The transmit event of the callback: where no part of a page is left it  *)
(* copies a page.                                                          *)
TransmitEvent(fresh, got) ==
  /\ txLeft' = IF got /\ fresh THEN 1 ELSE IF got THEN 0 ELSE txLeft
  /\ txBuf' = IF got /\ fresh THEN spiPage ELSE txBuf
  /\ completion' = (~i2cOn \/ txLeft' = 0)
  /\ stale' = (stale \/ (fresh /\ ~answered))

(* i2c_spi_flash_readback_page: the page comes in parts.  Where nothing is *)
(* sent the CRC cannot match.                                              *)
Fetch ==
  /\ host.pc = "fetch"
  /\ LET fresh == i2cOn /\ txLeft = 0
         sent1 == IF fresh THEN [page |-> spiPage, part |-> 1]
                  ELSE [page |-> txBuf, part |-> 2]
         got == i2cOn /\ (pageTx \/ txLeft > 0)
         same == got /\ sent1 = [page |-> host.img[host.i], part |-> host.part]
         next == IF host.part = 1 THEN [host EXCEPT !.part = 2]
                 ELSE IF host.i < Last THEN Goto("read", host.i + 1)
                 ELSE [Goto("loud", 0) EXCEPT !.part = 1]
     IN /\ TransmitEvent(fresh, got)
        /\ host' = [next EXCEPT !.good = Verdict(same)]
  /\ UNCHANGED <<queueVars, isr, wire, step, device, wdog, bounds, handed,
                 answered, backlog, disturbed, clashed>>

(* The tool dies: it is interrupted, or reads past the end of its file.    *)
Abort ==
  /\ faults < MaxFaults
  /\ ~Idle /\ ~host.busy
  /\ faults' = faults + 1
  /\ host' = End("none")
  /\ disturbed' = TRUE
  /\ UNCHANGED <<queueVars, slaveVars, step, device, wdog, sessions, handed,
                 answered, stale, backlog, clashed>>

-----------------------------------------------------------------------------

Init ==
  /\ QueueInit
  /\ expected = 0 /\ remaining = 0 /\ prevCmd = NoCmd /\ address = 0
  /\ pageTx = FALSE /\ completion = TRUE /\ txBuf = Noise /\ txLeft = 0
  /\ wire = <<>> /\ step = "start"
  /\ lastWasWrite = FALSE /\ spiPage = Noise
  /\ flash = [p \in Pages |-> "mixed"]
  /\ wip = FALSE /\ asleep = FALSE
  /\ wdogOff = FALSE /\ nvicOn = TRUE /\ runout = FALSE
  /\ mainLoop = TRUE /\ i2cOn = TRUE
  /\ \E image \in Images :
       host = [pc |-> "idle", i |-> 0, part |-> 1, img |-> image,
               busy |-> FALSE, nak |-> FALSE, failed |-> FALSE,
               good |-> TRUE, result |-> "none"]
  /\ sessions = 0 /\ faults = 0
  /\ handed = {} /\ answered = FALSE /\ stale = FALSE /\ backlog = FALSE
  /\ disturbed = FALSE /\ clashed = FALSE

MainLoop == QueueStep \/ FlashCommand \/ Restart
Interrupt == ReceiveChunk \/ WatchdogIrq
Tool == StartProgram \/ StartCrc \/ Single \/ Send \/ Return \/ Fetch \/ Abort

Next == MainLoop \/ Interrupt \/ SlaveTimeout \/ FlashDone \/ Tool

Spec == Init /\ [][Next]_vars

(* The main loop runs, interrupts are taken, the flash ends what it does.  *)
FairSpec ==
  Spec /\ WF_vars(MainLoop) /\ WF_vars(ReceiveChunk) /\ WF_vars(FlashDone)

-----------------------------------------------------------------------------

(* Type correctness of the gateway.                                        *)
TypeOK ==
  /\ QueueTypeOK
  /\ expected \in {0, 2, 256} /\ remaining \in {0, 2, 256}
  /\ prevCmd \in Cmds \cup {NoCmd} /\ address \in Addresses \cup {Marker}
  /\ txLeft \in 0..1 /\ step \in {"start", "wait", "issue", "settle", "copy"}
  /\ flash \in [Pages -> Contents] /\ spiPage \in Contents \cup {Torn, Noise}

(* The decoder's count and the callback's, kept in two modules, agree, and *)
(* a command is pending exactly while they are not zero.                   *)
InStep == expected = remaining /\ (expected > 0 <=> prevCmd # NoCmd)

(* A page waits in the queue only for the address the tool sent it for,    *)
(* unless a session was cut short between address and page, or one of      *)
(* them was lost.                                                          *)
PagesAsSent ==
  disturbed \/ \A i \in Occupied : slots[i].cmd = "PP" =>
                 <<slots[i].page, slots[i].data>> \in handed

(* The busy flash is never told to program, erase or read.                 *)
NeverClashes == ~clashed

(* When the tool reports that the image was programmed, the queue kept up  *)
(* and no session was disturbed, the flash holds the image.                *)
ProgrammedIsWritten ==
  (host.result = "programmed" /\ ~backlog /\ ~disturbed /\ Occupied = {})
    => \A p \in ImagePages : flash[p] = host.img[p]

(* The report of the tool ("Complete cycle of erase and write a binary     *)
(* firmware file", "return a non-negative on success", comm_i2c_gpmcu.c)   *)
(* holds without a look at what happened to the transfers of an            *)
(* undisturbed queue.  The code does not keep this: the result of an erase *)
(* is logged only, and the pages are programmed over what was there        *)
(* (README, findings).                                                     *)
ReportedIsWritten ==
  (host.result = "programmed" /\ ~backlog /\ Occupied = {})
    => \A p \in ImagePages : flash[p] = host.img[p]

(* When the tool reports matching CRCs, the flash held the image, whatever *)
(* happened in earlier sessions, as long as each page was fetched after    *)
(* its READ was executed, and the READ after the commands before it: the   *)
(* queue may serve it first.                                               *)
MatchMeansWritten ==
  (host.result = "match" /\ ~stale)
    => \A p \in ImagePages : flash[p] = host.img[p]

(* The FPGA gets its flash back: the mux returns unless the flash was put  *)
(* to sleep, where the driver may wait for ever.                           *)
MuxReturned == muxOn ~> (~muxOn \/ asleep)

=============================================================================
