# A TLA+ verification of the LPC55S69 GPMCU firmware

The GPMCU is the system controller of a display platform (Zeus, Gaia). An NXP LPC55S69 holds a
bootloader and two copies of an application. The bootloader decides at every reset which
application runs, and lets a host program, `flash_tool`, rewrite the application partitions and the
SPI flash of a Gowin FPGA. The application serves a main CPU over UART and I2C, and drives the
FPGA over a second UART. Over I2C it lets `flash_tool` reach the FPGA's SPI flash while it runs, and
it is itself the master of USB hubs and a clock generator.

This directory holds TLA+ modules for the parts of that system whose correctness depends on order,
failure or time, configurations that check them with TLC, and proofs checked by TLAPS. All paths
below are relative to the repository's `src/`.

1. [The system](#1-the-system) — components, state, operations, hard behaviours, properties
2. [Modules](#2-modules) — what each module models, and how state and actions match the code
3. [Runs](#3-runs) — what each run asks, its bounds, and what it shows
4. [Fairness](#4-fairness)
5. [Proofs](#5-proofs)
6. [Findings](#6-findings)
7. [What is not modelled](#7-what-is-not-modelled)
8. [Plan](#8-plan)

## 1. The system

```
   host PC / main CPU                     GPMCU                                 board
  ┌───────────────┐  COMMP, UART  ┌──────────────────────┐   jump   ┌──────────────────────────┐
  │  flash_tool   │──────────────▶│      bootloader      │─────────▶│       application        │
  └───────────────┘◀──────────────│  command loop        │◀─────────│  main loop + interrupts  │
                                  │  boot context ×2     │  reset   │  boot context (repair,   │
  ┌───────────────┐               │  SPI context ×2      │          │  switch), requests in    │
  │   main CPU    │  UART1, I2C   └──┬───────────────┬───┘          │  shared RAM              │
  │  flash_tool   │─────────────────────────────────────────────────▶  data map, SPI queue     │
  └───────────────┘                  ▼               │              │  Gowin queue and decoder │
                         internal flash, SPI flash   │              └──┬──────────┬─────────┬──┘
                                   ▲                 │       I2C master│     UART2▼         │SPI
                                   │                 └────────▶ USB hubs, clock   Gowin FPGA│
                                   └───────────────── mux (FPGA or GPMCU) ◀────────────────┘
```

| component (source) | state it keeps | operations | interacts with |
|---|---|---|---|
| bootloader core (`bootloader/main.c`, `bootloader_helpers.c`) | boot context in two flash areas and in RAM, partition states, `force_bootloader`, `sdriver` | recover the context, validate partitions, select, serve commands, commit, jump, reset | COMMP (commands), storage drivers, shared RAM, application (by jump and reset) |
| application flash helper (`application/flash_helper.c`) | its copy of the boot context | verify and fix a partition, switch the boot partition | the same flash areas as the bootloader; called from the main loop and the I2C interrupt |
| shared RAM (`memory_map.*`, `comm/comm.c`) | `application_request`, `reboot_counter`, logs | write, read, wipe a request | application writes, bootloader reads |
| COMMP, host (`drivers/interfaces/commp*.c`, `tools/flash_tool.c`, `tools/comm_serial.c`) | block number, file | prepare, write request, blocks, crc, end; read back | a serial line |
| COMMP, device (`commp*.c`, `commp_uart.c`) | `run_transfer_ctxt`, storage offset | a handler per opcode, `retrieve_binary` | storage drivers, both contexts |
| SPI context (`bootloader_spi_helpers.c`) | crc of each FPGA image, at the end of each SPI partition | retrieve, initialise, store, wipe | COMMP |
| storage drivers (`storage_flash.c`, `storage_spi_flash.c`) | area, offset | erase, write, flush, read, crc | flash |
| Gowin link (`comm/gowin_protocol.c`) | message queue, decoder state, reply timeout | queue, send, decode, time out, verify at start-up | interrupt, main loop, I2C command, data map, FPGA |
| main CPU link (`comm/protocol.c`, `comm.c`) | ring, decoder, message buffer | receive, decode, dispatch, answer | data map, Gowin link |
| commands and data map (`run/comm_run.c`, `data_map.c`) | `Main`, EDID and DPCD blocks | read and write by identifier | main CPU link, I2C slave, Gowin link, SPI queue |
| SPI queue (`spi/spi_master.c`) | message slots, progress | queue, process | I2C interrupt fills, main loop empties |
| I2C slave (`i2c/i2c_slave.c`) | expected bytes, buffers, busy counter | transfer callback, update | data map, SPI queue |
| SPI flash access (`devices/is25xp.c`, `application/spi_flash_helper.c`) | `lastwaswrite`, watchdog disabled | program, erase, bulk erase, read, power down, release | SPI queue, watchdog, I2C reads of a page |
| I2C master, USB hubs, clock (`bootloader_usb_helpers.c`, `usb7206c.c`, `usb5807c.c`, `si5341.c`) | slave address, page selected last, cable state | initialise, move to another address, follow the cables | bootloader and application run the same code; the chips keep their state |
| main loop (`application/main.c`) | UART rings, standby and watchdog flags | poll each part in turn, watch the cables, feed the watchdog | everything |

**What is hard.** Power may fail between, or inside, any two flash operations; two copies of a
context are written one after the other. The host gives up and starts again while the device is
still in the old transfer; no packet is ever repeated. One reply counter serves every kind of
wait. Interrupts fill queues and rings the main loop empties, and some commands are executed in
the interrupt. A transaction over I2C is cut into chunks by what the callback expects next, and two
modules keep that expectation. Two hubs answer at one address, and no driver checks a write. `PROJECT.json` lists these hazards one by one with the line where each bites.

**What makes each part correct.**

* Bootloader: whatever happens, one boot context can be read; an update is old or new, never a
  mixture; the last good image is not given up before there is another; control passes to whole
  images only; the device can always be reached again; a stored crc vouches for what the host sent.
* COMMP: success means written; an acknowledged block is in flash, at its place; a file read back
  is the content of the flash; whatever was abandoned, repeating the procedure works.
* Gowin link: a queued command is sent before its slot is released; one command is out at a time;
  a readback is whole and lands where it was asked for; the start-up comparison compares blocks
  that have come back; the link always comes to rest; a timeout means silence.
* Main CPU link: a frame the line left alone is handled once and as sent, whatever became of the
  others; no write leaves its array or undoes an acknowledged one; the partition in flash is the
  one asked for.
* SPI queue: a pool of commands; none is lost, run twice, given another's parameters, or refused
  while a slot is free.
* Flash over I2C: a busy flash is never given a command it would ignore; a page is programmed where
  it was meant; what the tool reports as programmed or matching is in the flash; the FPGA gets its
  flash back.
* USB hubs, clock: two hubs that start with one address end up apart, each with its own
  configuration; registers are written on their own page; the initialisation ends, and its
  success means something.

## 2. Modules

| module | models |
|---|---|
| `BootRecord` | values: contents of partitions, boot contexts, their crcs, validation, swap |
| `Bootloader` | the boot flow over power losses, host commands and the running application |
| `BootloaderProofs` | `TypeCorrect`, `ContextKept` |
| `BootloaderCommitProofs` | `CommitReplicates`, `CrcsFromHost`, `AutoBootWhole`, `LastGoodKept`, `UpdateIsAtomic` |
| `MCBootloader` | symmetry for four configurations |
| `GowinLink` | Gowin queue, transmitter, interrupt and ring, decoder, timeout, part of the main loop |
| `GowinLinkProofs` | `TypeCorrect`, `QueuedCommandSent`, `CommandsOneAtATime`, `ReadbacksIntact`, `StartupCompared` |
| `MCGowinLink` | block contents and requests for one configuration |
| `Commp` | a COMMP transfer, both ends, over a faulty line |
| `CommpProofs` | `TypeCorrect`, `AckedStored`, `OkIsWritten`, `ReadBackTrue` |
| `MCCommp` | symmetry for two configurations |
| `CommandPool` | abstract: what a queue of commands promises |
| `SpiQueue` | slots, the interrupt that fills them, the round of the main loop that empties them |
| `NumberedQueue` | `SpiQueue` with numbered commands, and its mapping to `CommandPool` |
| `NumberedQueueProofs` | `QueueTypeCorrect`, `QueueIsPool` |
| `MCNumberedQueue` | entries for one configuration |
| `I2cFlash` | `SpiQueue` with the I2C callback and decoder before it, the flash driver behind it, the tool and the watchdog around it |
| `I2cFlashProofs` | `TypeCorrect`, `BusyFlashSpared`, `CountsAgree`, `PagesSent`, `ProgrammedWritten`, `MatchWritten` |
| `MCI2cFlash` | the image, the operator's own transfers and the sizes for one configuration |
| `MessageChannel` | abstract: what the line from the main CPU promises the command handlers |
| `UartProtocol` | interrupt, ring, decoder and encoder of the line to the main CPU |
| `MainCpuLink` | `UartProtocol` with dispatch, command handlers, data map, I2C writes, partition switch, restart, and the mapping to `MessageChannel` |
| `MainCpuLinkProofs` | `TypeCorrect`, `StructKept`, `SwitchedInSync`, `AckedStored`, `DeliveredAsSent`, `LinkIsChannel`, `PromiseKept` |
| `MCMainCpuLink` | messages for two configurations |
| `UsbGaia`, `UsbZeus` | the hubs of the Gaia board; hub and clock generator of the Zeus board |
| `UsbBoards`, `MCUsbBoards` | the program built for one board or the other |
| `UsbProofs` | `TypeCorrect`, `SuccessReady`, `EntriesPaged`, `HubsApart` |

`I2cFlash` and `NumberedQueue` extend the same `SpiQueue`: what is shown of the slots in one is the
code the other runs. `UsbBoards` composes its two modules as alternatives, as the code does.
`MainCpuLink` and `Bootloader` share the stored partition: `MainCpuLink` has what a request does while
the application runs, `Bootloader` what the next boot makes of it.

Operators whose name has an underscore and whose comment begins with *Fault* (`RecoveryJob_FromRam`,
`Room_Unchecked`, ...) are no part of any specification. Each is a definition of the model as a
plausible mistake would have it; with it in place the property paired with it in `PROJECT.json`
under `mutants` is violated, which shows that the property depends on that code.

### `BootRecord`, `Bootloader`

A crc is modelled as the content it was computed over, so equal crcs mean equal contents. A
partition holds `[img, n, intact]`: how many blocks of which image, and whether all arrived intact.
A context area holds a context, or is `Blank` (verifies as erased), or `Torn` (crc does not match).

| variable | code |
|---|---|
| `flash`, `approm` | areas `bootinfo`, `bootinfob`; the two application areas |
| `ram`, `backup`, `seen`, `force` | `_bctxt`, `_bctxt_backup`, locals of `_initialize_bootinfo`, `force_bootloader` |
| `pstate`, `area`, `inprog`, `blk` | `pstate_0/1`, the area `sdriver` is on, `run_transfer_ctxt` |
| `request` | `_gdata.application_request` |
| `running`, `mainPart` | the partition whose code runs; `Main.PartitionInfo.part`, filled from the program counter |
| `job`, `half` | the `_bootloader_store_ctxt` calls not yet finished; erased but not programmed |
| `pc` | which code runs |
| `provisioned`, `agreed`, `hadGood`, `powerLosses` | history for the properties |

A store of a context is two steps, `EraseStep` and `ProgramStep`, and power may be lost before,
between and, with `"torn"`, in the middle of them; what the code does next waits until its stores
are done. `ReadBootinfo`, `ReadBackup`, `Reconcile` are the three parts of `_initialize_bootinfo`
(the second restore of `bootinfo`, which the code issues because its RAM copy is not refreshed, is
kept). `Select` is the rest of `main` before the loop. `WriteRequest`, `DataBlock`, `CrcCommand`,
`AbortTransfer`, `EndCommand`, `SetRom`, `BootCommand`, `ResetCommand` are the command loop.
`VerifyPartition(0)` and `(1)` are `init_flash`, `RequestWrite` the main CPU's request with
`switch_boot_partition`. An application that leaves its loop is started again without the bootloader
(`AppRestart`, `ResetISR`) unless an update was asked for; `AppReset` is the reset into the
bootloader, by `ResetISR` or the watchdog.

The host is the environment. `Env` says what it does beyond a plain update: boot at will, choose
partitions, leave out `COMMP_CMD_END`, deliver wrong bytes.

### `GowinLink`

| variable | code |
|---|---|
| `queue`, `MsgIndex`, `idx` | `GOWIN_MSG_QUEUE`, its index, `EdidIndex` and `DpcdIndex` |
| `State`, `WaitForReply`, `RxBusy`, `buf`, `TimeoutCount`, `MsgCount`, `verify` | `GOWIN_DATA` |
| `mem`, `reg`, `lowPower`, `delay` | the part of `Main` and of `main.c` the link reads and writes |
| `ring`, `overruns`, `uartOn` | `UART_DATA[UART2]`, the overrun count, the UART's enable |
| `pc`, `ret` | where the main loop is, what `GOWIN_Protocol` returned |
| `inbox`, `wire`, `fpga` | external: both directions of the line, the FPGA's own blocks |
| `sent`, `waited`, `bypassed`, `disturbed` | history for the properties |

`Poll` enters `GOWIN_Protocol`; `RxWaitData` … `RxStop` take one byte each from the ring, by decoder
state; `ReplyTimedOut`, `StillWaiting`, `ReleaseSlot` are what follows the loop over the ring;
`ProcessQueue` and `SendQueued` are `GOWIN_Process_Queue`; `EndOfLoop` is the main loop's reaction
(empty the queue on a timeout, compare the blocks at start-up, recover from standby). `GowinIrq`
may run between any two of these steps, and so may `Direct`, a command written to I2C register 0x40,
which is sent at once from the I2C interrupt. `Execute` is the FPGA taking a command, changing its
blocks and answering; `Answer` gives the bytes. A byte is one of the two framing characters, the
two acknowledgements, or any other.

### `Commp`

| variable | code |
|---|---|
| `hpc`, `job`, `blk`, `got`, `result` | the call `flash_tool` waits in, its arguments, `blocknr`, the read-back file, the outcome |
| `dpc`, `ctxt`, `rnr` | where the device is, `run_transfer_ctxt`, the block number of `retrieve_binary` |
| `flash`, `offset`, `romArea`, `spiArea` | storage: contents, offsets, the areas the two drivers are on |
| `entry`, `bootinfo`, `spiCopy` | crcs in RAM, in the stored boot context, in the two stored SPI contexts |
| `toDev`, `toHost` | external: packets on the line |
| `late`, `cutShort`, `faults` | history for the properties, bound |

The host's actions are the points at which the tool has sent a packet and waits: `Start` and
`InfoDone` (a process of its own for `setrom` or `wipespi`, which asks for the boot information
first, as every command does that is not itself an `info`), `Open`, `WrqAnswered`, `DataAnswered`,
`CrcAnswered`, `TransferTimeout`, `ReadBlock`, `ReadTimeout`. The device has one action per packet
handler, each with what `comm_protocol_run` and `main` do after it: `DevWrq`, `DevData`, `DevCrc`,
`Store`, `DevInfo`, `DevEnd`, `DevSet`, `DevWipe`, `DevRrq`, `Retrieve`, `DevOther`, and
`DevDataFails` for a storage that refuses a block. `Lose`, `Garble`, `Cut`, `Merge` are the line,
`Restart` the device. A packet is the unit: cutting or joining packets (the device ends a packet
where the line goes idle) is modelled by what the parser then sees. A packet that lost bytes on the way has no length that
would tell: it is stored as short as it came and acknowledged, and what follows it in the area lies
shifted. `Rubble` stands for such a block and everything after it (`CameShort`, `Shifted`, `Put`);
internal flash may refuse to program at an offset that is no longer aligned. `LongRest` says whether the
last, shorter block of an image has 256 bytes or more, which the crc over the SPI flash tells apart.

### `CommandPool`, `SpiQueue`, `NumberedQueue`

| variable | code |
|---|---|
| `slots`, `msgIndex`, `prevIndex` | `SPI_MSG_QUEUE`, `MsgIndex`, `prevIndex` of `spi_queue_process` |
| `scan`, `pc` | `i` of the search loop, where the main loop is |
| `muxOn` | `SpiMuxSelected` and the mux |
| `sent`, `executed`, `refused` | history: number of the last command, what was run, what found no slot |

`Accept` and `Drop` are `spi_queue_msg_param` in the interrupt: the lowest free slot, or none. `Poll`,
`SelectNext`, `Scan`, `Run`, `Execute`, `Release` are one step each of `spi_master_update` and
`spi_queue_process`, so that the interrupt can fill a slot between any two, the one the search has
just passed included. `Setup` is the restart. `CommandPool` knows no slots: commands are taken while
fewer than `Capacity` wait, run in any order, each once, and leave after they ran. A slot is released some steps
after its command was executed, and a restart empties the queue in between.

### `I2cFlash`

| variable | code |
|---|---|
| `expected`, `remaining`, `prevCmd`, `address` | `expectedBytes` of the callback; `remainingbytes`, `_prevCmd`, `_AddressBuf` of `byteWrite2SPI` |
| `pageTx`, `completion`, `txBuf`, `txLeft`, `i2cOn` | `g_SlaveTxPageSize`, `g_SlaveCompletionFlag`, the page being sent, what is left of it, the slave's enable |
| `wire`, `host` | external: chunks of the current transfer; the tool and where it is |
| `step`, `lastWasWrite`, `spiPage` | the driver's progress in a command, `priv.lastwaswrite`, `Main.Debug.SpiFlashPage` |
| `flash`, `wip`, `asleep` | external: the flash chip |
| `wdogOff`, `nvicOn`, `runout`, `mainLoop` | `WatchDogDisabled`, the interrupt's enable, `WatchDogRunout`, `g_main_loop` |
| `handed`, `answered`, `stale`, `backlog`, `disturbed`, `clashed` | history for the properties |

`ReceiveChunk` is the slave callback with everything it calls, taken as one interrupt: a first byte
(`FirstPart`), the rest of a command (`SecondPart`), a register write, or bytes misread because
something else was expected. `SlaveTimeout` is `i2c_update`: it may come while a page is fetched
slowly, or after the address of a transfer has matched and before its first bytes have come, which loses the transfer. `Start`, `Wait`, `PageWrite`, `Erase`,
`ReadPage`, `Plain`, `PowerMode` are the commands of `is25xp.c` in the steps between which time passes;
`FlashDone` ends what the chip does. `WatchdogIrq` and `Restart` are the interrupt and what follows it.
`StartProgram`, `StartCrc`, `Send`, `Return`, `Fetch` are `comm_i2c_gpmcu.c`; `Single` is a transfer the
operator makes by hand, `Abort` a session cut short.

### `MessageChannel`, `UartProtocol`, `MainCpuLink`

| variable | code |
|---|---|
| `unread`, `overrun` | the ring between `RxBufRd` and `RxBufWr`; whether the interrupt wrote over it |
| `receiving`, `buf`, `wr`, `offset`, `checksum`, `prev`, `msgLen`, `msgCount` | `State`, `MsgBuf`, `MsgBufWr`, the locals and fields of the decoder |
| `edid`, `dpcd`, `test`, `request`, `part` | `Main.Edid`, `Main.Dpcd`, the debug registers, `application_request`, `Main.PartitionInfo.part` |
| `ctxPart`, `flashPart`, `running`, `runout` | `bctxt.part`, the stored partition, the one linked for, the flags that end the loop |
| `pc`, `reply` | the main loop, with the steps of a partition switch; the last reply |
| `line`, `sent`, `hurt` | external: the main CPU and its line |
| `handled`, `acked`, `raced`, `intruded`, `astray` | history for the properties |

A character carries the number of its frame, which no action looks at. The decoder takes one character
per step, with the escape, the checksum over all characters but the last and the test of the buffer's
end in the order of the code. A message is dispatched as a whole; a partition switch is several steps
(erase, write, data map), as the I2C interrupt runs the same handlers in between. The encoder
is a function on sequences, and the decoder undoes it (`DeliveredIntact`, proved as `DeliveredAsSent`).

`DeliveredIntact` speaks of a line that has come to rest. `MessageChannel` says what holds at every step: it counts the
messages sent, keeps the set of the damaged ones and the sequence of the delivered ones, and has no bytes, no ring and no
decoder. `MainCpuLink` implements it (`ChannelSpec`) with `hurt` for the damaged messages and `handled`, each entry with its
number and whether it equals what was sent, for the delivered ones.

### `UsbGaia`, `UsbZeus`, `UsbBoards`

A routine is the sequence of its bus transfers; `todo` is what is left of it, and one step performs
one transfer, which may be lost without effect. The hub (external) has its two addresses, a command
block that is first loaded and then run, and its settings; it answers at whatever address it holds, so
that a transfer may reach none, one or both. On the Zeus board `page` is the driver's memory of the
clock generator's page and `chipPage` the truth; `Pages` lists the pages of the register table in
order. A restart keeps the chips and clears the driver. The history variable `deputy` of `UsbGaia` says that in this
initialisation the other hub answered in place of one that was not up.

## 3. Runs

| run | question | result |
|---|---|---|
| `bootloader_update` | updates of either partition, damaged and abandoned, and one power loss anywhere, tearing what it meets: a context survives, an update is atomic, both copies equal after a commit, stored crcs from the host, only whole images started by the bootloader itself; without the loss a good image is always left | holds |
| `bootloader_operator` | boot, set and unended transfers at will, requests of the main CPU: the device can be reached again as long as the stored context vouches for whole images | holds |
| `bootloader_trapped` | can the device always be reached again? | violated, finding 1 |
| `bootloader_stale` | is a good image left after one power loss and a later update? | violated, finding 2 |
| `gowin_link` | start-up, a readback, an I2C command and one fault: sent before released, one at a time, readbacks whole, comparison valid; and the link comes to rest | holds |
| `commp_line` | two faults of seven kinds: success means written, acknowledged means stored (up to the first block that came short), read-back faithful; repeating recovers | holds |
| `commp_rest` | is an image that arrived intact accepted? | violated, finding 3 |
| `spi_queue` | are slots, rounds and late release a pool of commands? | holds |
| `i2c_flash` | programming and checking an image over I2C, with the operator's own commands, lost transfers, cut sessions and the watchdog: no clash, pages as sent, reports true, mux returned | holds |
| `cpu_link` | messages over a bad line and a small ring, with I2C requests, a second CPU, restarts: intact frames handled as sent, once; the link is a `MessageChannel`; writes inside their structure, and kept until a later write claims the cell; flash in step | holds |
| `cpu_asked` | is the partition asked for the one in flash? | violated, finding 4 |
| `usb_init` | both boards, restarts, standby, lost transfers, slow and silent hubs: configured apart (unless after a standby one hub answered for the other), registers on their page, success means ready, the initialisation ends | holds |

**Bounds, and why they are enough.**

* *Bootloader.* One power loss in `bootloader_update`, two images, two blocks. The partitions are two in
  the code; two images make "old" and "new" differ; two blocks make a partial image possible,
  which the validation must refuse and which, once booted, hangs. The two runs with liveness have one image and no
  losses, as what the device comes back from there is the operator. Two losses break `UpdateAtomic` (section 6), so one is the bound under which it
  is claimed and proved; `ContextSurvives`, `CommitReplicated`, `StoredCrcFromHost` are proved for every number of
  losses. Images are interchangeable, hence the symmetry, which is used without liveness only.
* *Gowin.* Blocks have two bytes instead of 256, one equal to a control byte so that data
  can be mistaken for framing; the message buffer is just longer than a block and the ring just
  longer than that, so both are filled. Seven slots are what start-up needs, so one more command
  finds the queue full. `ReplyTimeout` is 0, so that the second poll that ends inside a
  reply times out, which puts a timeout at every possible place. One request and one fault per
  behaviour, a flood that disables the UART among them: the hazards are pairs (a command and a
  reply, a fault and a wait).
* *Commp.* An image has two blocks, the second shorter, because the code treats the shorter last
  block apart; a block number off by one, a hole and a shift all show with two. Two images per
  target, so that one left over from an earlier transfer can be mistaken for another. Two faults of
  any of seven kinds: one to make the tool give up, one to meet its successor. The line holds three
  packets, as many as pile up when a tool is started before the device is done with the last one.
* *SPI queue.* Three slots and five commands: the round wraps, a slot is filled behind and before the
  search, a full queue refuses, and a slot is used twice. The refinement is proved for every length.
* *Flash over I2C.* Two slots, so that one command waits behind another and a third is refused. An image of
  two pages in one erase block of two pages: an erase reaches a page already written. Two sessions, so
  that one follows another that was cut short, and one fault, which is one of: an abort, a lost
  transfer, a transfer by hand (bulk erase, sector erase, power-down, watchdog disabled).
* *Main CPU link.* Blocks of four bytes with halves of two, so that offsets, halves and lengths at
  the edge all occur; a buffer of ten characters and a ring of fourteen, so that the longest messages fill the first
  and two messages overrun the second. Bytes keep their 256 values; the messages hold the three
  reserved ones. Among the writes is one that runs from the later half of EDID 2 into EDID 3, one to DPCD 2, which is
  kept where EDID 2 is, and one that carries fewer bytes than it says. Two messages and one fault; the finding needs three messages and none.
* *USB.* One retry after the first read, one loss on the Gaia board, two on the Zeus board, one restart, standby and
  cable change each. Both hubs of the Gaia board may stay silent for any time. A lost transfer to
  the clock generator costs one register as long as not all six transfers of the preamble are lost
  after a restart; two is below that, and the comment of `EntriesOnTheirPage` states the bound.

What the runs claim under a condition: `QueuedIsSent`, `OneAtATime` and `ReadbackIntact` only until
a command goes around the queue (`bypassed`), as a reply to such a command releases whatever slot
`MsgIndex` is on. The three safety properties of `Commp` only for a port opened on a quiet line
(`late`): an answer that arrives after the tool has given up is taken for the answer to the next
request; `OkMeansWritten` also only while no FPGA image is in the application ROM (`Unmixed`). `AutoBootRunsWholeImage` leaves out boots the host commands, for which the code only asks
that one partition has ever been flashed; and it is claimed where a partial or corrupted image cannot be in
the table (finding 1 and `StoredCrcFromHost` below it). `ServesUnlessMisled` has that as its condition. `DeliveredIntact` until the ring is written over (`overrun`) or the second CPU makes
the handler run (`intruded`), and `ChannelSpec` from then on only the order, which stays; `FlashInSync` without an I2C request inside a switch (`raced`) and
without finding 4 (`astray`). `PagesAsSent` and `ProgrammedIsWritten` without a session cut short or a transfer lost (`disturbed`), the
latter with a queue that kept up (`backlog`), as the tool never learns that a command was refused;
`MatchMeansWritten` if every page was fetched after its `READ` was executed, and the `READ` after every command
before it that changes the flash (`stale`): the tool waits a fixed time, and the queue does not keep the order. `ConfiguredApart` where nothing was lost on the bus in the last initialisation, as no lost write is noticed, and not where after a
standby hub 0 answered in place of a silent hub 1 (`deputy`; without a standby the reset lines see to that). `AckedIsStored` up to the
first block that came short, and `AckedHeld` until a damaged message passes the checksum or the second CPU makes the handler run.
These conditions are part of what the checks show, not a convenience: the models reach the
states outside them (`Unmixed` with more faults than the run has), and TLC finds the property violated there.

## 4. Fairness

* `Bootloader!FairSpec` — weak fairness of `BootProgress`: boot code is a straight line without waits,
  so a started recovery, validation or store ends. Weak fairness of `WatchdogReset`: the watchdog is
  armed before the jump and nothing feeds it while an application hangs. The host and the power are
  not fair.
* `GowinLink!FairSpec` — weak fairness of the main loop: interrupts are short, and the UART that
  would keep interrupting is disabled after a number of overruns. Neither the FPGA nor its
  interrupt is fair: `Settles` holds even when the FPGA never answers.
* `I2cFlash!FairSpec` — weak fairness of the main loop, of the interrupt for a chunk that has arrived, and of the
  chip ending a program or an erase. The tool, the watchdog and the I2C timeout are not fair.
  `MuxReturned` leaves out a flash that was put to sleep, for which the driver may wait for ever.
* `UsbBoards!FairSpec` — weak fairness of the initialisation, straight-line code of the only thread. Hubs,
  cables and operator are not fair: `InitEnds` holds though a hub never answers.
* `Commp!Fairness` — weak fairness of the tool's steps, since each of its calls returns after its timeout,
  and of the device's, which handles packets in an endless loop; strong fairness of the operator
  starting another flash, as the documented answer to a failed one is to repeat it. Faults are not
  fair and are finitely many.

## 5. Proofs

TLAPS checks thirty-five theorems, for every value of the constants that satisfies the modules' named
assumptions. Most of these say that the markers (`Magic`, `Blank`, `Torn`, ...) are not
contents, that sizes and bounds are natural numbers, that the Gowin message buffer is longer than a
block, that the Gowin queue has room for the start-up commands, that an empty slot is no entry
and that what comes over a line are bytes. Those that say more are named with the theorems that
need them; TLC evaluates all of them in its runs.

**`BootloaderProofs!TypeCorrect`** — `Spec => []TypeOK`. It is more than types: `apps[]` is indexed by
a partition that starts as `APP_PARTITION_NONE`, -1, so the loop and the jump must only be reached with
`ram.part` in range. `TypeOK` is not inductive for that reason. `IInvType` adds `StoredOK` (what is
in flash, or about to be, is a proper context whose partition is known once one was chosen), `RamOK`
(the same of the copies in RAM, by stage) and `SeenOK` (what the recovery knows of an area is still
true of it).

**`BootloaderProofs!ContextKept`** — with a host that ends its transfers, `Spec => []ContextSurvives`:
no number of power losses, each tearing what it meets, destroys both boot contexts. A power loss
can hit a recovery that repairs what an earlier power loss left, so the invariant has to speak of
pending work: `CopiesOK` says that while a store is pending the *other* area is readable, that
areas are wiped only if the device was never provisioned, and that every area is readable or about
to be written once the boot has decided; `RecoveryOK` says what the recovery's flags imply about
flash at each of its stages.

**`BootloaderCommitProofs!CommitReplicates`** — with a host that ends its transfers, a commit that has run to
its end leaves the same context in both areas and in RAM. `CommitOK` says how far the two stores have
come whenever `sdriver` is on the backup area, which in the command loop is only so after a commit.

**`BootloaderCommitProofs!CrcsFromHost`, `AutoBootWhole`** — with a host that neither picks partitions nor
sends a boot command, `[]StoredCrcFromHost` and `AutoBootRunsWholeImage` for any number of power
losses. `TableOK` is the reason: every table in flash, in a pending store, in the backup and in RAM is
vouched for entry by entry, with one exception, the entry of the partition being written while the
command loop runs. A stored crc of a refused image (section 6, `StoredCrcFromHost`) is what happens when the operator changes that partition. It also
covers the application's repair, which stores the crc of whatever it runs from: it can only be
running from a whole image.

**`BootloaderCommitProofs!LastGoodKept`** — for the same host, if it also ends its transfers: while power
holds, any number of updates, refused, damaged or abandoned ones included, leaves a partition
that fits the table in force. The invariant follows the device through its boots: `QuietBoot` says that
nothing is left for the recovery to decide, so `main` works with the table in flash; `QuietApp` that
the application changes the current partition and no entry; `QuietLoop` that the partition not being
written fits *every* readable copy at every step of the two stores. Finding 2 is the first power loss.

**`BootloaderCommitProofs!UpdateIsAtomic`** — for the same host and at most one power loss, at any step and
tearing what it meets, a boot decides with a table that was in force or was being stored. Before the
loss every readable copy holds such a table (`WholeOK`). After it, the recovery only has to carry one of them
through its stages, and `RecoverOK` says where that one is: in `bootinfo`, in the backup as long as
`bootinfo` was not accepted, and in the pending restore in between. `FreshOK` covers the formatting of
an erased area: an empty table is stored only while there is nothing else, or is overwritten from the backup. It is
used with what the other proofs know of the same states (`CopiesOK`, `RecoveryOK`, `CommitOK`, `QuietBoot`). The
bound is needed in one lemma, `AtomicPowerLoss`, and not for want of an argument: see section 6.

**`GowinLinkProofs!TypeCorrect`** — in particular, the decoder never writes past the message buffer,
whatever the FPGA sends, and the bounded ring stays within its size.

**`GowinLinkProofs!QueuedCommandSent`** — no slot is released before its command was sent, unless a
timeout empties the queue or a command went around it. The code releases the slot `MsgIndex` points
at when *any* reply has been handled; `SlotsOK` says why that is the right one: while a reply is
awaited, the slot under `MsgIndex` holds a command and that command was sent.

**`GowinLinkProofs!CommandsOneAtATime`, `ReadbacksIntact`** — on a link where nothing was lost or damaged and no
command went around the queue, for every length of block, ring and buffer. Neither is a property of one step:
that the decoder is at the end of an answer when it releases the slot depends on every byte since
the command went out. `TurnInv` therefore says, for each state of the decoder, what is still
on its way: command, ring and wire together are exactly the rest of one answer, the block's
bytes among them, and nothing else (`Idle`, `Asked`, `Answering`, `Answered`). `IndexInv` is about the
index under which the block is filed.

**`GowinLinkProofs!StartupCompared`** — for every queue: nothing in the code waits for the start-up
commands before the comparison, except that it comes when the queue is empty. `OrderInv` says that
the slots still in use are the last ones of the start-up list, in its order, as slots are served
lowest first, and `EffectInv` what a finished write has done to the FPGA, and a finished read to the data map.

**`CommpProofs!TypeCorrect`, `AckedStored`, `OkIsWritten`, `ReadBackTrue`** — for images of any number of blocks and any number of
faults of every kind. The tool repeats nothing, numbers are checked on one side only, and the tool ignores
several answers, and a block that came short is acknowledged like any other; what makes it work is that the two sides take turns. `TurnInv` says so: until an
answer comes late, what the tool waits for is in exactly one place, on the line, with the device, or on its way
back. `SessionInv` rests on it (the acknowledged blocks lie in one area, in place up to the first that came short and none intact
behind it, and the device, if it knows of a
transfer, knows of this one), and on that `OkInv` (an accepted crc was computed over the whole image) and
`ReadInv` (what a read-back collected is the beginning of one area). The first attempt at `OkIsWritten`
failed for a reason: with an FPGA image in the *application ROM* the property is false, which needs five
faults and so does not show in a run of two (see the smaller observations). `OkMeansWritten` now has
that condition, `Unmixed`; TLC finds the violation without it on `NBlocks` 1, `Prepare` FALSE, five faults of
the kinds `lose`, `slow`, `reset`.

**`NumberedQueueProofs!QueueTypeCorrect`, `QueueIsPool`** — for every length of the queue and all commands:
`NumberedQueue` implements `CommandPool`. The refinement mapping sends the slots to the set of
commands in them; the invariant it needs says that no number is in two slots, that no command waits that was executed
except the one under `MsgIndex` before its release, and that the slot the main loop
works on is not touched by the interrupt.

**`I2cFlashProofs!BusyFlashSpared`** — for every queue and image, any number of sessions and faults: the
flash is not told to program, erase or read while it is busy. `FlashInv` says that a busy flash is
remembered in `lastwaswrite` or is being waited for, and that what is about to be sent without a wait was
preceded by one.

**`I2cFlashProofs!CountsAgree`** — the counts of the callback and of the decoder, kept in two modules,
never part, whatever is cut short, timed out or started again.

**`I2cFlashProofs!TypeCorrect`, `PagesSent`** — for every image and queue: a page in the queue is for the address it was
sent with. Command, address and data arrive in chunks of their own, and the decoder remembers the
first while it waits for the next; `SentInv` says that of an undisturbed session it knows exactly as much as the
tool has sent, and that no page is left half fetched, as the callback would then take nothing in.

**`I2cFlashProofs!ProgrammedWritten`** — a session that ends undisturbed has programmed its image.
`ProgramInv` says for each point of the session how far the flash is (`Reached`: so many blocks erased, so
many pages written) and that at most one command waits, the one that takes it to the next point.
`ImageAssumption` is what this needs of the tool's arithmetic: the erased blocks cover the image, and no
page of it has bytes the callback takes for something else (a register from 0x30, the identifier 0x50, the marker
0xBEBE), which holds below 3 MB, and a partition has 256 kB; `OperatorAssumption` lists what the
tool lets an operator send by hand.

**`I2cFlashProofs!MatchWritten`** — what the tool reports to match is in the flash, whatever earlier sessions left in the
queue and in the decoder. `VerdictInv` says at each point of a CRC session which pages have been compared
(`Compared`), that they are still in the flash and that nothing waits that could change it (`Held`, `Quiet`). That this
stays so needs `WireInv`: a session that was cut short may have left half an erase or half a page in the
decoder, and the chunks of a CRC session must not complete it. They do not: a command byte that meets a pending command
is taken for bytes of an address outside the image, and afterwards the address has nothing to complete (`Mild`).
The proof was first tried without the last part of `stale`; TLC showed why that fails (see the smaller observations).

**`MainCpuLinkProofs!TypeCorrect`, `StructKept`** — whatever bytes come over the line, no array write leaves its
structure. The premise `BufferHoldsArray` is that the message buffer holds 261 bytes, since a length is a byte; it
has 550 in the code. (TLC's buffer of ten is smaller, and there the messages are short.)

**`MainCpuLinkProofs!SwitchedInSync`** — `SwitchInv` follows the partition through the steps of a switch: which of flash,
context and data map are ahead of the others at each, until an I2C request comes in between.

**`MainCpuLinkProofs!AckedStored`** — for all messages, those included that run into another block or share its cells: a byte of
an acknowledged write stays as it was sent until a later acknowledged write claims its cell. `HeldInv` says
so of every acknowledged write and every byte it carries, as long as every message handled was one that was sent; the cells a write
changes are those its block, offset and length give (`Target` and `Place` agree), and no two cells of one write are the same.
`FrameInv` says that every character in the ring and every message handled belongs to a frame.

**`MainCpuLinkProofs!DeliveredAsSent`** (`DeliveredIntact`) — for messages of any content, length and number, any ring and
any faults. `Tracked` follows each frame that is not touched on the line through its life: it waits, in one piece, on the
line and in the ring (`Waiting`); the decoder has stored its first `k` bytes with their sum, and exactly
what `Rest` says is to come after `k` bytes is still to come (`Reading`); it is the message in the buffer (`Decoded`); it had no
room (`Dropped`); or it was handled, once (`Done`). The frames before it do not matter because a start byte
begins a message from any state of the decoder, and no other byte of a frame is one (`RestPlain`, `EscapedPlain`): what a cut
frame leaves behind is skipped or ended there. Sums, frames and remainders are functions computed step by step over the
message. That they exist, are unique and are bytes is an induction, which the provers do not do by themselves: `Least` takes it from
the well-foundedness of the finite sets of numbers, and `UpTo`, `StepByStep` and `SameSteps` make it usable. Besides `BufferHoldsArray` the theorem needs
`MessagesLong`: every message has an address and a command, as the decoder drops shorter ones (`wr >= 3` with the checksum).

**`MainCpuLinkProofs!LinkIsChannel`** (`ChannelSpec`) — with the same two premises, `MainCpuLink` implements `MessageChannel`
under the refinement mapping `Channel`. The main CPU's `Send` is the channel's, `Handle` is `Deliver`, a fault of the line is `Damage`, a
ring that is written over or a second CPU is `Break`; the decoder, the handlers' other work and the I2C interrupt are stutters, and a
restart is a `Damage` of everything not handled yet. Three arguments carry it. `Deliver` may not go back in the order: `OrderInv` says that the frames in
the ring come in the order in which they were sent, behind the one in the decoder, and that one behind those handled. An intact message is
delivered as it was sent and not again: that is `Tracked`, from `DeliveredAsSent`. `Damage` may hit only what is not delivered: a fault
takes or changes a character that is still on the line, and a frame with a character there cannot be `Done`.

**`MainCpuLinkProofs!PromiseKept`** — the reader's side of the same: at every moment, the messages handled so far are in the order
sent, also after the ring was written over, and the intact ones are as sent and there once.

**`UsbProofs!TypeCorrect`** — the steps a routine has left are always steps of some routine (`todo` is a sequence
over `Steps`), whatever cables, standbys and restarts add to them; so a hub only ever holds an address
and settings some routine has for it, although two hubs listen at one address.

**`UsbProofs!SuccessReady`** — for any number of lost transfers and restarts; the initialisation has no
success that skips the hub.

**`UsbProofs!EntriesPaged`** — `PageInv`: the driver's memory of the page is right, or it is still the 0 a restart
left, in which case every register it tried so far was lost. All registers of the preamble are on
other pages, so the next one makes it select a page. The premise `PreambleHeard` (fewer than six
transfers lost) is what that argument needs. Without it the property fails: the driver then writes the registers of page 0 to
whatever page the chip is on.

**`UsbProofs!HubsApart`** (`ConfiguredApart`) — any number of retries, losses, restarts, standbys and cable changes. `ApartInv`
says, for each part of a routine that may be left to do (`ToOriginal` ... `ToCable`, `Starting` ... `Looping`), what the
hub it is for looks like and which address the driver uses, provided that nothing was lost and nothing failed so far
(`Sure`); and that hub 1 is done, at its new address, from the moment hub 0 is begun. About the other hub it says
nothing while hub 1 is initialised: it may be in any state a restart or a standby left it in, take every
command meant for hub 1 and even change its address, as it is held in reset before its own turn. So
the order of the two routines is what the argument rests on. The lemmas `Reading1`, `Writing1` and `Attached` say what one
transfer does within a read, a write or an attach, `HimselfAwake` that an answer at the original address is the hub's own, `Told`
when it is. Either hub may be silent for any time, and there is no premise: until the first standby hub 0 is held
in reset while hub 1 is waited for (`HeldInReset`), so nobody else can answer. After a standby it is not, and the property
leaves out the initialisations in which hub 0 did answer for hub 1 (`deputy`); TLC refutes it without that condition.

Each proof has one lemma per action (or group of actions that leave the invariant's variables
alone), lemmas about contexts, sequences and the lowest slot below them, and a short temporal step.

**Only model-checked:**

* All liveness (`ServesUnlessMisled`, `Settles`, `Recovers`, `MuxReturned`, `InitEnds`), which needs fairness.
* The runs that expect a violation: what they show is a counterexample.

## 6. Findings

A run of the check shows each of these:

1. `application/flash_helper.c:80` (`bootloader_trapped`): the application repairs the crc of the partition the stored
   context names ("only fix own partition"), which after a request of the main CPU (`comm.c:97`) is not the one it runs
   from. A transfer to partition 0 is abandoned; partition 1 is flashed and booted by the host; the main CPU requests
   partition 0, the application restarts, and stores the crc of the partial image. From then on every boot finds
   both partitions valid and starts the partial image, which the watchdog ends: no command loop is reached again.
2. `bootloader/main.c:152` (`bootloader_stale`): after a power loss between the two stores of a commit both
   contexts have good crcs but differ, and no branch repairs the older. During the next commit the
   older is for a moment the only one, and may name no valid image.
3. `drivers/interfaces/storage_spi_flash.c:197` (`commp_rest`): the length of the last block is kept in a byte,
   so an image whose last block has 256 bytes or more is refused although it arrived intact.
4. `application/comm/comm.c:97` (`cpu_asked`): whether a partition request needs a switch is decided from a
   register that every start fills from the program counter. A request repeated after a restart
   turns the stored partition back, and is acknowledged.

The modules state seven more, with the instance of the module on which TLC refutes the property;
the comments of their definitions say so:

* `Bootloader!StoredCrcFromHost` (`commp.c:296`; one image, one block, no power loss, `Env` {"setrom", "corrupt"}; holds in
  `bootloader_update`, without `"setrom"`): `COMMP_CMD_CRC` stores the computed crc in the table in RAM before it compares it. After a
  corrupted transfer to one partition, `SET_ROM` and a good transfer to the other, the commit also makes the corrupted
  image valid ("it contains the CRC that was received from the hostmachine", `bootloader/README.md:96`). `AlwaysServes`
  is refuted by the same instance: the device boots that image for ever.
* `GowinLink!TimeoutMeansSilence` (`gowin_protocol.c:455`; `ReplyTimeout` 3, `QueueSize` 10, no faults): the timeout counter is
  not reset when a command is sent, so waits add up, and "No Reply from Gowin" is reported of an FPGA that
  answers everything.
* `Commp!NamedPartitionWritten` (`commp.c:249`; `Targets` both SPI partitions, `Prepare` FALSE): a write request for an SPI
  partition selects the driver but not the area; the documented command for partition 0, on a fresh
  bootloader, writes partition 1.
* `NumberedQueue!OrderKept` (`spi_master.c:343` "try to maintain order of commands"; `Length` 3, four commands): a command
  takes the first free slot while the round goes on, so that a later one may be served first.
* `MainCpuLink!BlocksApart` (`comm_run.c:692` "item in struct"; `Messages` ← `MCOverlaps`): only a later write of the same block
  should replace what was acknowledged. The space left in a block is computed before the
  offset is scaled (644), so an acknowledged write to a later half runs into the next block; and writes to DPCD 2 and 3 go to the
  EDID (666), where they replace EDID 2 and 3.
* `I2cFlash!ReportedIsWritten` (`comm_i2c_gpmcu.c:235`; `Singles` {}, one session, one fault): a transfer that is
  held up after its address long enough is lost to the slave's timeout (`i2c_slave.c:330`). Of an erase the tool only logs the
  result: it programs the pages over what was there and returns success.
* `UsbGaia!WaitedForHub` (`bootloader_usb_helpers.c:150`; the constants of `usb_init`): after a standby hub 0 may answer at the
  address where hub 1 is waited for, and the driver goes on with a hub 1 that is not up. The commands for hub 1 then go to hub 0, its new address included,
  and `ConfiguredApart` without `ToldApart` is refuted the same way.

And one bound: with two power losses TLC refutes `Bootloader!UpdateAtomic` (`MaxPowerLosses` 2). An update is cut
off when `bootinfo` is erased; the next boot stores an *empty* table there before it looks at the
backup (`main.c:103`); a second loss before the backup is restored leaves that table readable, and the boot after it
takes it for the device's own: the images in both partitions count as never flashed, although
the backup still names them.

And one interleaving, for which `FlashInSync` carries its condition: while the main loop stores partition 1,
an I2C request for partition 0 that arrives after the store and before `Main.PartitionInfo.part` is
assigned compares with the old partition, finds nothing to do and is acknowledged.

Smaller observations made on the way, none of which a run claims:

* Bootloader. The restored `bootinfo` is not read back into RAM (`main.c:146`), so the boot after a
  recovery works with what the damaged area held. `COMMP_CMD_END` is commented as leading to a reboot,
  but does not. A write request erases the partition chosen earlier, whatever ROM it names. The two copies
  differ after one power loss, and stay so. The commit leaves `sdriver` on the backup area: a tool
  that then omits `COMMP_CMD_END` overwrites the backup (`"noend"`).
* Gowin. A reply to a command from I2C register 0x40 clears the slot of an unsent queued command. A full
  queue overwrites the slot in flight. Slots are served lowest first, so a readback of block 0 asked for by
  the main CPU early enough overtakes the start-up writes. The header says five pending messages,
  the code has ten. The overrun warning tests the flags of the other UART (`gowin_protocol.c:413`).
* COMMP. A data packet that lost bytes on the line is stored and acknowledged, the offset moves by the short length (`storage_spi_flash.c:139`), and
  what follows is shifted; the tool learns of it from the crc at the end. The tool checks neither the number of the acknowledgement of its write request nor the
  type of the answer to the crc. A read-back ignores block numbers. A packet of under four bytes makes the
  data length wrap (`commp_parser.c:206`); opcode 8 indexes past the handler table
  (`commp_parser.c:437`). The crc's answer leaves before the contexts are stored. A write request for the ROM that is
  answered late, followed by one for an SPI partition that is lost, puts the FPGA image into the ROM; if the device is
  reset within a later transfer of that image to the SPI flash, its crc is compared with the ROM and accepted. The tool
  reports success and the SPI flash holds half an image. It takes five faults.
* Main CPU link. An array write is acknowledged with fewer bytes than it announces, as its length is compared with that of the whole message
  (`comm_run.c:631`); what was in the buffer behind it is stored with it. On the Gaia board the message of the
  second CPU makes the handler read the buffer of the first, and an old message is carried out again.
* Flash over I2C. A tool that stops between a page's address and its data leaves the callback expecting 256
  bytes; a page whose address has the bytes of `MORE_BYTE_MARKER` is taken for one whose
  address is still to come: page 48830 of the flash's 65536, so only an image of more than 12 MB meets it. A command that meets a pending erase completes it, for page 0x50xx,
  and the address left over is taken for a register write if its first byte is one (0x30 to 0x41). A page fetched in part stays
  so. Slots are served in rounds, so a `READ` can be executed before a whole-chip erase that was sent earlier: the pages of a
  one-page image then match, and are erased afterwards (TLC: `Length` 5, `Backlog` 4, `Last` 0).
  `EraseCount` blocks asked for are `EraseCount + 1` erased. A watchdog warning ends the main loop even
  where the handler has just found the watchdog disabled for a bulk erase.
* USB. If all six transfers of the clock's preamble are lost after a restart, the registers of page 0 are written to
  the page the clock generator was left on, as the driver starts from page 0 without selecting it (`si5341.c`). Every error of a write to the USB7206C is missed (`status < 0` is never true). `set_i2s_audio_disabled`
  passes the address 0 for the value. The retry loop tests `timeout--` after the read.

## 7. What is not modelled

* The logger (it ends when its region is full and nothing depends on it), `tmds181.c` (single registers,
  no state), vector tables and sections, pin configuration: no decision in them depends on order. The vendor's SDK and the native
  tests are no part of the system.
* `BOARD_App(De)InitI2CMASTERPeripherals` is called but defined nowhere in the repository, so the
  transition of the I2C master between the programs is left out.
* An I2C transfer that never ends: the driver is built with `I2C_RETRY_TIMES` 0 and waits for ever on a
  bus that hangs (`fsl_i2c.h:36`). `UsbBoards` has lost transfers and silent hubs, which are reported.
* In the modelled parts: logging, versions and the text commands; flash page addressing; the error
  codes of the flash controller, of which only "the block was refused" is kept (`DevDataFails`); `_bctxt_in_Flash`
  (the copy shown and sent on request); the Gowin message counters; damage to a packet header that turns it into another
  valid packet; the UDP transport and the `-c` commands for the running application; reads of registers and of the EDID
  over I2C; the log readers but for the length of their answer; fan, GPIO and power sequencing; the unchecked write of
  the emulated EEPROM.
* `Bootloader` sees a transfer as blocks that arrive in order, right or wrong; how they get
  there is `Commp`. `Commp` sees the boot context as one crc per partition; how it survives is
  `Bootloader`. The two share the contract that a crc matches exactly when the content does.
* `reboot_counter` is not counted in `Bootloader`: an application that leaves its loop may restart or reset the
  device at any time, which covers every value of the counter.
* The application's stores of the boot context are one job at a time in `Bootloader`; that the I2C interrupt can
  come inside one is in `MainCpuLink`.
* Four hazards are listed without a property, each with its reason. Three because the code does go wrong there and
  the properties except the case by name or TLC refutes them without it (section 6): the I2C request in the middle of a
  partition switch (`raced`), the reset between the answer to the crc and the store (`cutShort`), and the area a write
  request does not select (`NamedPartitionWritten`). One because of the model: the two copies of the SPI context are
  stored in one step in `Commp`. What the storage does with a length that has wrapped is left out too: it depends on
  memory the model does not have.

## 8. Plan

1. **Boot flow** — `BootRecord`, `Bootloader`, proofs. *Done.* To come: an
   abstract specification of an atomic, replicated table, which the boot flow implements with one power loss.
2. **Gowin link** — `GowinLink`, proofs of all its safety properties. *Done.*
3. **COMMP transfer** — `Commp`, proofs of all its safety properties. *Done.* To come: an abstract
   transfer (an image is written as a whole or the attempt fails) that `Commp` implements on a quiet line; the store
   of the SPI context in two steps with a reset between them.
4. **Main CPU link** — `MessageChannel`, `UartProtocol`, `MainCpuLink`, proofs of all their safety properties and of the refinement. *Done.* To come: register reads over I2C.
5. **SPI queue, flash over I2C** — `CommandPool`, `SpiQueue`, `NumberedQueue`, `I2cFlash`, proofs of all their safety properties. *Done.*
6. **USB hubs and clock** — `UsbGaia`, `UsbZeus`, `UsbBoards`, proofs. *Done.*
7. **Main loop and watchdog** — the log readers, standby and cable detection of the HDMI side.
