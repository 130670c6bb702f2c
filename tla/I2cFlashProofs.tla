---------------------------- MODULE I2cFlashProofs ----------------------------
(***************************************************************************)
(* The flash gateway for every size of the queue, every image and any      *)
(* number of sessions and faults: the busy flash is never given a command  *)
(* it would ignore, the I2C callback and the decoder of flash commands     *)
(* agree on what comes next, the types, the pages that wait are the pages  *)
(* that were sent, what was reported programmed was programmed, and what   *)
(* was reported to match was there.                                        *)
(***************************************************************************)
EXTENDS I2cFlash, SequenceTheorems, TLAPS

-----------------------------------------------------------------------------
(* The busy flash.                                                         *)

(* The main loop executes what is in a slot; what it has begun it ends     *)
(* before it goes on.                                                      *)
Executing ==
  /\ slots = [i \in Slots |-> slots[i]]
  /\ msgIndex \in Slots
  /\ pc = "exec" => slots[msgIndex] # Empty
  /\ step # "start" => pc = "exec"

(* A busy flash is remembered in lastwaswrite, or is being waited for.     *)
BusyKnown == wip => lastWasWrite \/ step = "settle"

(* Commands that a busy flash ignores.                                     *)
Guarded == EraseCmds \cup {"PP", "CER", "READ"}

(* Whoever is about to send such a command has seen the flash ready.       *)
IssueReady == step = "issue" /\ Cmd \in Guarded => ~wip

FlashInv == Executing /\ BusyKnown /\ IssueReady /\ ~clashed

LEMMA FlashInvInit == Init => FlashInv
  BY LengthAssumption
  DEF Init, QueueInit, FlashInv, Executing, BusyKnown, IssueReady, Slots

(* What the interrupt and the tool leave alone.                            *)
SlotsKept ==
  /\ slots' = [i \in Slots |-> slots'[i]]
  /\ \A i \in Slots : slots[i] # Empty => slots'[i] = slots[i]

(* Nobody but the main loop touches the slot that is executed.             *)
LEMMA OthersKeep ==
  ASSUME FlashInv, SlotsKept,
         UNCHANGED <<main, step, lastWasWrite, clashed>>, wip' => wip
  PROVE  FlashInv'
  BY DEF FlashInv, Executing, BusyKnown, IssueReady, SlotsKept, Cmd, Current,
         main

LEMMA QueueUnchanged ==
  ASSUME Executing, UNCHANGED queueVars
  PROVE  SlotsKept /\ UNCHANGED main
  BY DEF Executing, SlotsKept, queueVars

LEMMA ParamKeepsSlots ==
  ASSUME Executing, NEW m, QueueParam(m)
  PROVE  SlotsKept /\ UNCHANGED main
  <1>1. CASE UNCHANGED queueVars
    BY <1>1, QueueUnchanged
  <1>2. CASE Accept(m)
    BY <1>2 DEF Accept, IsFirstFree, Occupied, Executing, SlotsKept
  <1> QED BY <1>1, <1>2 DEF QueueParam, Drop, KeepQueue

(* Whatever arrives over I2C, at most a free slot is filled.               *)
LEMMA ReceiveKeepsSlots ==
  ASSUME Executing, ReceiveChunk
  PROVE  SlotsKept /\ UNCHANGED main
  <1> DEFINE chunk == Head(wire)
  <1>1. CASE KeepQueue
    BY <1>1, QueueUnchanged DEF KeepQueue
  <1>2. CASE \E m : QueueParam(m)
    BY <1>2, ParamKeepsSlots
  <1>3. FirstPart(IF chunk.kind = "cmd" THEN chunk.cmd ELSE "other")
          => KeepQueue \/ \E m : QueueParam(m)
    BY DEF FirstPart
  <1>4. SecondPart(chunk) => KeepQueue \/ \E m : QueueParam(m)
    BY DEF SecondPart
  <1>5. ByteWrite2SPI(chunk) => KeepQueue \/ \E m : QueueParam(m)
    BY <1>3, <1>4 DEF ByteWrite2SPI
  <1>6. Complete(chunk) => KeepQueue \/ \E m : QueueParam(m)
    BY <1>5 DEF Complete, Misread
  <1> QED
    BY <1>1, <1>2, <1>6 DEF ReceiveChunk, ReceiveCommand, ReceiveAccess

(* The round of the main loop, between two commands.                       *)
LEMMA QueueStepKeeps ==
  ASSUME FlashInv, QueueStep
  PROVE  FlashInv'
  <1> USE DEF FlashInv, Executing, BusyKnown, IssueReady, QueueStep
  <1>1. CASE Poll
    BY <1>1 DEF Poll, device, hist
  <1>2. CASE SelectNext
    BY <1>2, LengthAssumption DEF SelectNext, Occupied, Slots, device, hist
  <1>3. CASE Scan
    BY <1>3 DEF Scan, Occupied, device, hist
  <1>4. CASE Run
    BY <1>4 DEF Run, Current, device, hist
  <1>5. CASE Release
    BY <1>5 DEF Release, device, hist
  <1> QED BY <1>1, <1>2, <1>3, <1>4, <1>5 DEF Select

(* The steps of a command: one that could clash waits first, unless it     *)
(* reads and nothing was written.                                          *)
LEMMA CommandKeeps ==
  ASSUME FlashInv, FlashCommand
  PROVE  FlashInv'
  <1> USE DEF FlashInv, Executing, BusyKnown, IssueReady
  <1>1. CASE Start
    BY <1>1 DEF Start, At, MustWait, Guarded, Cmd, Current, queueVars, main,
                device, hist
  <1>2. CASE Wait
    BY <1>2 DEF Wait, Finish, Execute, queueVars, main, Cmd, Current, hist
  <1>3. CASE PageWrite
    BY <1>3 DEF PageWrite, At, Finish, Execute, Guarded, Clash
  <1>4. CASE Erase
    BY <1>4 DEF Erase, At, Guarded, Clash, queueVars, main
  <1>5. CASE ReadPage
    <2>1. CASE ReadFlash
      BY <1>5, <2>1 DEF ReadPage, ReadFlash, At, Guarded, Clash, queueVars, main
    <2>2. CASE CopyPage
      BY <1>5, <2>2 DEF ReadPage, CopyPage, At, Finish, Execute
    <2> QED BY <1>5, <2>1, <2>2 DEF ReadPage
  <1>6. CASE Plain
    BY <1>6 DEF Plain, At, Finish, Execute, device, hist
  <1>7. CASE PowerMode
    BY <1>7 DEF PowerMode, At, Finish, Execute
  <1> QED
    BY <1>1, <1>2, <1>3, <1>4, <1>5, <1>6, <1>7 DEF FlashCommand

LEMMA FlashInvNext == FlashInv /\ [Next]_vars => FlashInv'
  <1> SUFFICES ASSUME FlashInv, [Next]_vars PROVE FlashInv'
    OBVIOUS
  <1>1. CASE QueueStep
    BY <1>1, QueueStepKeeps
  <1>2. CASE FlashCommand
    BY <1>2, CommandKeeps
  <1>3. CASE Restart
    BY <1>3, LengthAssumption
    DEF Restart, Setup, FlashInv, Executing, BusyKnown, IssueReady, Slots, hist
  <1>4. CASE ReceiveChunk
    <2>1. SlotsKept /\ UNCHANGED main
      BY <1>4, ReceiveKeepsSlots DEF FlashInv
    <2> QED
      BY <1>4, <2>1, OthersKeep DEF ReceiveChunk, device, hist
  <1>5. CASE UNCHANGED <<queueVars, step, lastWasWrite, clashed>> /\ (wip' => wip)
    BY <1>5, QueueUnchanged, OthersKeep DEF FlashInv, queueVars
  <1>6. CASE WatchdogIrq \/ SlaveTimeout \/ FlashDone
    BY <1>5, <1>6 DEF WatchdogIrq, SlaveTimeout, FlashDone, device, hist
  <1>7. CASE Tool
    BY <1>5, <1>7
    DEF Tool, StartProgram, StartCrc, Begin, Single, Send, Return, Fetch, Abort,
        device, hist
  <1>8. CASE UNCHANGED vars
    BY <1>5, <1>8 DEF vars, device, hist
  <1> QED
    BY <1>1, <1>2, <1>3, <1>4, <1>6, <1>7, <1>8
    DEF Next, MainLoop, Interrupt

(* The busy flash is never told to program, erase or read, whatever comes  *)
(* over I2C, whatever waits in the queue and whenever the watchdog ends    *)
(* the main loop: the waits of is25xp.c and lastwaswrite are enough.       *)
THEOREM BusyFlashSpared == Spec => []NeverClashes
  <1>1. FlashInv => NeverClashes
    BY DEF FlashInv, NeverClashes
  <1> QED BY <1>1, FlashInvInit, FlashInvNext, PTL DEF Spec

-----------------------------------------------------------------------------
(* The callback and the decoder.                                           *)

CountsInv == InStep /\ expected \in {0, 2, 256}

LEMMA ByteWriteInStep ==
  ASSUME CountsInv, NEW chunk, expected > 0 \/ chunk.kind = "cmd",
         ByteWrite2SPI(chunk)
  PROVE  CountsInv'
  <1> USE DEF CountsInv, InStep
  <1>1. CASE expected > 0
    BY <1>1 DEF ByteWrite2SPI, SecondPart, Await
  <1>2. CASE expected = 0
    BY <1>2 DEF ByteWrite2SPI, FirstPart, Await, KeepParser, TwoByteCmds,
                EraseCmds, NoCmd
  <1> QED BY <1>1, <1>2

LEMMA ReceiveInStep ==
  ASSUME CountsInv, ReceiveChunk
  PROVE  CountsInv'
  <1> DEFINE chunk == Head(wire)
  <1>1. CASE UNCHANGED <<expected, remaining, prevCmd>>
    BY <1>1 DEF CountsInv, InStep
  <1>2. Complete(chunk) => CountsInv'
    BY <1>1, ByteWriteInStep DEF Complete, Misread, KeepParser
  <1> QED
    BY <1>1, <1>2 DEF ReceiveChunk, ReceiveCommand, ReceiveAccess, KeepParser

LEMMA CountsNext == CountsInv /\ [Next]_vars => CountsInv'
  <1> SUFFICES ASSUME CountsInv, [Next]_vars PROVE CountsInv'
    OBVIOUS
  <1>1. CASE UNCHANGED isr
    BY <1>1 DEF CountsInv, InStep, isr
  <1>2. CASE ReceiveChunk
    BY <1>2, ReceiveInStep
  <1>3. CASE Restart
    BY <1>3 DEF Restart, CountsInv, InStep
  <1>4. CASE FlashCommand \/ QueueStep \/ WatchdogIrq
    BY <1>1, <1>4
    DEF FlashCommand, Start, Wait, PageWrite, Erase, ReadPage, Plain, PowerMode,
        KeepWire, QueueStep, WatchdogIrq, slaveVars
  <1>5. CASE SlaveTimeout \/ FlashDone \/ Tool
    BY <1>1, <1>5
    DEF SlaveTimeout, FlashDone, Tool, StartProgram, StartCrc, Begin, Single,
        Send, Return, Fetch, Abort, slaveVars
  <1>6. CASE UNCHANGED vars
    BY <1>1, <1>6 DEF vars, slaveVars
  <1> QED
    BY <1>2, <1>3, <1>4, <1>5, <1>6 DEF Next, MainLoop, Interrupt

(* expectedBytes of the callback and remainingbytes of the decoder never   *)
(* part, whatever is sent, cut short, timed out or started again: no bytes *)
(* are taken for the rest of a command that the decoder has forgotten.     *)
THEOREM CountsAgree == Spec => []InStep
  <1>1. Init => CountsInv
    BY DEF Init, CountsInv, InStep
  <1>2. CountsInv => InStep
    BY DEF CountsInv
  <1> QED BY <1>1, <1>2, CountsNext, PTL DEF Spec

-----------------------------------------------------------------------------
(* The transfers of the tool, chunk by chunk.                              *)
ChunkSet ==
  [kind : {"cmd"}, cmd : Cmds] \cup [kind : {"addr"}, page : Pages]
    \cup [kind : {"data"}, data : Data] \cup [kind : {"reg"}, reg : Registers]
    \cup [kind : {"access"}, on : BOOLEAN]

Sendings == Writes \cup {"single"}

(* Where the tool is and what it counts: its transfers are under way only  *)
(* while it is busy.                                                       *)
HostType ==
  /\ host \in [pc : Writes \cup {"idle", "single", "fetch"}, i : Nat, part : {1, 2},
               img : Images, busy : BOOLEAN, nak : BOOLEAN, failed : BOOLEAN,
               good : BOOLEAN, result : {"none", "failed", "programmed", "match", "nomatch"}]
  /\ host.pc = "erase" => host.i <= EraseCount
  /\ host.pc \in {"pp", "ppdata", "read", "fetch"} => host.i <= Last
  /\ host.pc \in {"idle", "page_on", "crc_on", "quiet"} => host.i = 0
  /\ host.busy => host.pc \in Sendings
  /\ host.pc = "single" => host.busy
  /\ wire # <<>> => host.busy

(* The decoder awaits two bytes or a page, as the pending command wants;   *)
(* its address is the marker until the page number has come.               *)
DecoderType ==
  /\ InStep
  /\ expected \in {0, 2, 256} /\ address \in Pages \cup {Elsewhere, Marker}
  /\ prevCmd \in TwoByteCmds \cup {"PP", NoCmd}
  /\ prevCmd \in TwoByteCmds => expected = 2
  /\ prevCmd = "PP" => IF address = Marker THEN expected = 2 ELSE expected = 256

(* The queue, and the step of the command that runs.                       *)
SlotType ==
  /\ QueueTypeOK
  /\ step # "start" => pc = "exec"
  /\ step = "copy" => Cmd = "READ"
  /\ \A i \in Occupied : slots[i].cmd = "PP" => slots[i].data \in Data

(* The wire, the flash and the two ends of the main loop.                  *)
DeviceType ==
  /\ wire \in Seq(ChunkSet)
  /\ txLeft \in 0..1 /\ step \in {"start", "wait", "issue", "settle", "copy"}
  /\ flash \in [Pages -> Contents] /\ spiPage \in Contents \cup {Torn, Noise}
  /\ pageTx \in BOOLEAN /\ wip \in BOOLEAN /\ asleep \in BOOLEAN
  /\ i2cOn \in BOOLEAN /\ mainLoop \in BOOLEAN

TypeInv == HostType /\ DecoderType /\ SlotType /\ DeviceType

(* What the decoder remembers: nothing, a command whose address is         *)
(* missing, or the address of a page whose data are missing.               *)
Rest == prevCmd = NoCmd
Half(c) == prevCmd = c /\ (c = "PP" => address = Marker)
Loaded(p) == prevCmd = "PP" /\ address = p

(* A command on its way to the decoder.                                    *)
Command(c, p) ==
  \/ wire = WithAddress(c, p) /\ Rest
  \/ wire = <<AddrChunk(p)>> /\ Half(c)
  \/ wire = <<>> /\ IF c = "PP" THEN Loaded(p) ELSE Rest

(* Of an undisturbed session the decoder knows exactly as much as the tool *)
(* has sent.                                                               *)
InTransfer ==
  IF host.pc = "ppdata"
  THEN \/ wire = <<>> /\ ~host.busy /\ Loaded(host.i)
       \/ wire = <<DataChunk(host.img[host.i])>> /\ Loaded(host.i)
          /\ <<host.i, host.img[host.i]>> \in handed
       \/ wire = <<>> /\ host.busy /\ Rest
  ELSE IF host.pc = "pp" /\ host.busy THEN Command("PP", host.i)
  ELSE \/ wire = <<>> /\ Rest
       \/ \E c \in PlainCmds : wire = <<CmdChunk(c)>> /\ Rest
       \/ \E r \in Registers : wire = <<RegChunk(r)>> /\ Rest
       \/ \E b \in BOOLEAN : wire = <<PageAccess(b)>> /\ Rest
       \/ \E c \in TwoByteCmds, p \in Pages : Command(c, p)

(* No part of a page is left to be fetched while the tool sends: the       *)
(* callback would take nothing in.                                         *)
Undisturbed ==
  /\ mainLoop /\ i2cOn
  /\ txLeft = 1 => host.pc = "fetch" /\ host.part = 2
  /\ host.pc = "fetch" /\ host.part = 2 /\ txLeft = 0 => ~pageTx
  /\ InTransfer

(* The invariant of PagesAsSent.                                           *)
SentInv == PagesAsSent /\ (~disturbed => Undisturbed)

(* The sizes of image and blocks.                                          *)
LEMMA SpanFacts ==
  /\ Span["BER64"] \in Nat \ {0} /\ EraseCount \in Nat /\ Last \in Nat
  /\ Pages \subseteq Nat /\ ImagePages \subseteq Pages /\ 0 \in Pages
  /\ Elsewhere \notin Pages /\ Marker \notin Pages \cup {Elsewhere}
  <1>1. /\ Span["BER64"] \in Nat \ {0} /\ EraseCount \in Nat /\ Last \in Nat
        /\ Last < Span["BER64"] * (EraseCount + 1)
        /\ Span["BER64"] * (EraseCount + 1) <= PageLimit
    BY ImageAssumption DEF EraseCmds
  <1> DEFINE N == Span["BER64"] * (EraseCount + 1)
  <1>2. N \in Nat /\ Last < N /\ N <= PageLimit
    BY <1>1
  <1> HIDE DEF N
  <1>3. Pages = 0..(N - 1)
    BY DEF Pages, N
  <1> QED BY <1>1, <1>2, <1>3 DEF ImagePages, Elsewhere, Marker, PageLimit

LEMMA ErasedPage ==
  ASSUME NEW i \in 0..EraseCount
  PROVE  i * Span["BER64"] \in Pages
  <1> DEFINE S == Span["BER64"]
  <1>1. S \in Nat \ {0} /\ EraseCount \in Nat
    BY SpanFacts
  <1> HIDE DEF S
  <1>2. i * S <= EraseCount * S /\ i * S \in Nat /\ EraseCount * S \in Nat
    BY <1>1
  <1>3. S * (EraseCount + 1) = EraseCount * S + S
    BY <1>1
  <1>4. i * S \in 0..(S * (EraseCount + 1) - 1)
    BY <1>1, <1>2, <1>3
  <1> QED BY <1>4 DEF Pages, S

LEMMA ChunkTypes ==
  /\ \A c \in Cmds : CmdChunk(c) \in ChunkSet
  /\ \A p \in Pages : AddrChunk(p) \in ChunkSet
  /\ \A d \in Data : DataChunk(d) \in ChunkSet
  /\ \A r \in Registers : RegChunk(r) \in ChunkSet
  /\ \A b \in BOOLEAN : PageAccess(b) \in ChunkSet
  BY DEF CmdChunk, AddrChunk, DataChunk, RegChunk, PageAccess, ChunkSet

LEMMA CommandType ==
  ASSUME NEW c \in Cmds, NEW p \in Pages
  PROVE  WithAddress(c, p) \in Seq(ChunkSet) /\ WithAddress(c, p) # <<>>
  BY ChunkTypes DEF WithAddress

LEMMA SinglesType ==
  ASSUME NEW chunks \in Singles
  PROVE  chunks \in Seq(ChunkSet)
  <1>1. CASE \E c \in PlainCmds \cup EraseCmds : chunks = <<CmdChunk(c)>>
    <2>1. PICK c \in PlainCmds \cup EraseCmds : chunks = <<CmdChunk(c)>>
      BY <1>1
    <2>2. CmdChunk(c) \in ChunkSet
      BY ChunkTypes DEF Cmds, TwoByteCmds
    <2> QED BY <2>1, <2>2
  <1>2. CASE \E c \in {"READ", "VERBOSE", "BER64"}, p \in Pages : chunks = WithAddress(c, p)
    BY <1>2, CommandType DEF Cmds, TwoByteCmds, EraseCmds
  <1>3. CASE \E r \in Registers : chunks = <<RegChunk(r)>>
    BY <1>3, ChunkTypes
  <1> QED BY <1>1, <1>2, <1>3, OperatorAssumption

LEMMA ChunksType ==
  ASSUME HostType, host.pc \in Writes
  PROVE  Chunks \in Seq(ChunkSet)
  <1> USE DEF HostType
  <1>1. CASE host.pc \in {"page_on", "crc_on", "page_off", "crc_off"}
    <2>1. Chunks \in {<<PageAccess(TRUE)>>, <<PageAccess(FALSE)>>}
      BY <1>1 DEF Chunks
    <2>2. PageAccess(TRUE) \in ChunkSet /\ PageAccess(FALSE) \in ChunkSet
      BY ChunkTypes
    <2>3. \A x \in ChunkSet : <<x>> \in Seq(ChunkSet)
      OBVIOUS
    <2> QED BY <2>1, <2>2, <2>3
  <1>2. CASE host.pc \in {"quiet", "loud"}
    <2>1. Chunks = WithAddress("VERBOSE", 0)
      BY <1>2 DEF Chunks
    <2> QED BY <2>1, CommandType, SpanFacts DEF Cmds, TwoByteCmds
  <1>3. CASE host.pc = "erase"
    <2>1. Chunks = WithAddress("BER64", host.i * Span["BER64"])
      BY <1>3 DEF Chunks
    <2>2. host.i \in 0..EraseCount
      BY <1>3, SpanFacts
    <2> QED BY <2>1, <2>2, CommandType, ErasedPage DEF Cmds, TwoByteCmds, EraseCmds
  <1>4. CASE host.pc \in {"pp", "read"}
    <2>1. Chunks \in {WithAddress("PP", host.i), WithAddress("READ", host.i)}
      BY <1>4 DEF Chunks
    <2>2. host.i \in Pages
      BY <1>4, SpanFacts DEF ImagePages
    <2>3. "PP" \in Cmds /\ "READ" \in Cmds
      BY DEF Cmds, TwoByteCmds
    <2>4. /\ WithAddress("PP", host.i) \in Seq(ChunkSet)
          /\ WithAddress("READ", host.i) \in Seq(ChunkSet)
      BY <2>2, <2>3, CommandType
    <2> QED BY <2>1, <2>4
  <1>5. CASE host.pc = "ppdata"
    <2>1. Chunks = <<DataChunk(host.img[host.i])>>
      BY <1>5 DEF Chunks
    <2>2. host.i \in ImagePages /\ host.img \in [ImagePages -> Data]
      BY <1>5, SpanFacts, ImageAssumption DEF ImagePages
    <2> QED BY <2>1, <2>2, ChunkTypes
  <1> QED BY <1>1, <1>2, <1>3, <1>4, <1>5 DEF Writes

LEMMA SlotKept == SlotType /\ UNCHANGED <<queueVars, step>> => SlotType'
  BY DEF SlotType, QueueTypeOK, queueVars, main, Current, Cmd, Occupied

LEMMA DecoderKept == DecoderType /\ UNCHANGED isr => DecoderType'
  BY DEF DecoderType, InStep, isr

LEMMA HostKept == HostType /\ UNCHANGED host /\ wire' \in {wire, Tail(wire), <<>>}
                  /\ (wire = <<>> => wire' = <<>>) => HostType'
  BY DEF HostType

LEMMA DeviceKept == DeviceType /\ UNCHANGED <<wire, tx, pageTx, step, device, wdog>> => DeviceType'
  BY DEF DeviceType, tx, device, wdog

LEMMA QueueStepType ==
  ASSUME TypeInv, QueueStep
  PROVE  TypeInv'
  <1>1. UNCHANGED <<isr, tx, wire, step, device, wdog, host>> /\ (Select \/ Release)
    BY DEF QueueStep, slaveVars
  <1>2. HostType' /\ DecoderType' /\ DeviceType'
    BY <1>1, HostKept, DecoderKept, DeviceKept DEF TypeInv, isr
  <1>3. SlotType'
    <2>1. SlotType /\ UNCHANGED step
      BY <1>1 DEF TypeInv
    <2> USE DEF SlotType, QueueTypeOK, Steps
    <2>2. CASE Poll
      BY <2>1, <2>2 DEF Poll, Occupied, Current
    <2>3. CASE SelectNext
      BY <2>1, <2>3, LengthAssumption DEF SelectNext, Occupied, Slots, Current
    <2>4. CASE Scan
      BY <2>1, <2>4, LengthAssumption DEF Scan, Occupied, Slots, Current
    <2>5. CASE Run
      BY <2>1, <2>5 DEF Run, Current, Occupied
    <2>6. CASE Release
      BY <2>1, <2>6 DEF Release, Current, Occupied
    <2> QED BY <1>1, <2>2, <2>3, <2>4, <2>5, <2>6 DEF Select
  <1> QED BY <1>2, <1>3 DEF TypeInv

LEMMA FinishSlot ==
  ASSUME SlotType, Finish
  PROVE  SlotType'
  BY DEF SlotType, QueueTypeOK, Finish, Execute, Steps, Current, Occupied

LEMMA StepSlot ==
  ASSUME SlotType, UNCHANGED queueVars, pc = "exec", step' = "copy" => Cmd = "READ"
  PROVE  SlotType'
  BY DEF SlotType, QueueTypeOK, queueVars, main, Current, Cmd, Occupied

LEMMA ProgramType ==
  ASSUME SlotType, DeviceType, At("issue"), Cmd = "PP", Page \in Pages
  PROVE  [flash EXCEPT ![Page] = Programmed(@, Current.data)] \in [Pages -> Contents]
  <1>1. Current.data \in Data
    BY EmptyAssumption DEF SlotType, QueueTypeOK, At, Occupied, Current, Cmd
  <1> QED BY <1>1 DEF DeviceType, Programmed, Contents

LEMMA FlashCommandType ==
  ASSUME TypeInv, FlashCommand
  PROVE  TypeInv'
  <1>1. HostType' /\ DecoderType'
    BY HostKept, DecoderKept
    DEF FlashCommand, Start, Wait, PageWrite, Erase, ReadPage, Plain, PowerMode,
        KeepWire, TypeInv, slaveVars
  <1>2. SlotType'
    BY FinishSlot, StepSlot
    DEF FlashCommand, Start, Wait, PageWrite, Erase, ReadPage, ReadFlash, CopyPage, Plain,
        PowerMode, At, TypeInv
  <1>3. DeviceType'
    <2> USE DEF TypeInv
    <2>1. KeepWire
      BY DEF FlashCommand, Start, Wait, PageWrite, Erase, ReadPage, Plain, PowerMode
    <2>2. UNCHANGED <<wire, txLeft, pageTx, i2cOn, mainLoop>>
      BY <2>1 DEF KeepWire, slaveVars, tx, isr
    <2>3. CASE Start
      BY <2>2, <2>3 DEF Start, DeviceType, device
    <2>4. CASE Wait
      BY <2>2, <2>4 DEF Wait, Finish, DeviceType
    <2>5. CASE PageWrite
      <3>1. flash' \in [Pages -> Contents]
        BY <2>5, ProgramType DEF PageWrite, DeviceType
      <3> QED BY <2>2, <2>5, <3>1 DEF PageWrite, Finish, DeviceType
    <2>6. CASE Erase
      <3>1. flash' \in [Pages -> Contents]
        BY <2>6 DEF Erase, Wipe, DeviceType, Contents
      <3> QED BY <2>2, <2>6, <3>1 DEF Erase, DeviceType
    <2>7. CASE ReadPage
      BY <2>2, <2>7 DEF ReadPage, ReadFlash, CopyPage, Finish, DeviceType
    <2>8. CASE Plain
      BY <2>2, <2>8 DEF Plain, Finish, DeviceType, device
    <2>9. CASE PowerMode
      BY <2>2, <2>9 DEF PowerMode, Finish, DeviceType
    <2> QED
      BY <2>3, <2>4, <2>5, <2>6, <2>7, <2>8, <2>9 DEF FlashCommand
  <1> QED BY <1>1, <1>2, <1>3 DEF TypeInv

LEMMA ParamType ==
  ASSUME SlotType, UNCHANGED step,
         NEW m \in FlashMessages, m.cmd = "PP" => m.data \in Data, QueueParam(m)
  PROVE  SlotType'
  <1>1. CASE UNCHANGED queueVars
    BY <1>1, SlotKept
  <1>2. CASE Accept(m)
    <2>1. UNCHANGED main
      BY <1>2 DEF Accept
    <2>2. PICK i \in Slots : IsFirstFree(i) /\ slots' = [slots EXCEPT ![i] = m]
      BY <1>2 DEF Accept
    <2>3. m # Empty /\ m \in Entries
      BY EmptyAssumption, FlashAssumption
    <2>4. slots' \in [Slots -> Entries \cup {Empty}]
      BY <2>2, <2>3 DEF SlotType, QueueTypeOK
    <2>5. \A j \in Slots : slots'[j] = IF j = i THEN m ELSE slots[j]
      BY <2>2 DEF SlotType, QueueTypeOK
    <2> QED
      <3>1. SlotType'
        <4>1. pc = "exec" => msgIndex # i
          BY <2>2 DEF IsFirstFree, SlotType, QueueTypeOK, Current, Occupied
        <4>2. pc' = pc /\ msgIndex' = msgIndex
          BY <2>1 DEF main
        <4>3. step' = "copy" => Cmd' = "READ"
          BY <2>5, <4>1, <4>2 DEF SlotType, QueueTypeOK, Cmd, Current
        <4> QED
          BY <2>1, <2>3, <2>4, <2>5, <4>3 DEF SlotType, QueueTypeOK, main, Current, Occupied
      <3> QED BY <3>1
  <1> QED BY <1>1, <1>2 DEF QueueParam, Drop, KeepQueue

LEMMA PlainParamType ==
  ASSUME SlotType, UNCHANGED step, NEW c \in {"RDSR", "RDID", "CER", "DP", "RDP", "other"},
         QueueParam(Message(c, 0, "none"))
  PROVE  SlotType'
  <1>1. CASE c = "other"
    <2>1. c \notin Cmds
      BY <1>1 DEF Cmds, TwoByteCmds, EraseCmds, PlainCmds
    <2>2. KeepQueue
      BY <2>1 DEF QueueParam, Message
    <2> QED BY <2>2, SlotKept DEF KeepQueue
  <1>2. CASE c # "other"
    <2>1. Message(c, 0, "none") \in FlashMessages
      BY <1>2, SpanFacts DEF Message, FlashMessages, Cmds, PlainCmds, Addresses
    <2>2. Message(c, 0, "none").cmd # "PP"
      BY DEF Message
    <2> QED BY <2>1, <2>2, ParamType
  <1> QED BY <1>1, <1>2

LEMMA ByteWriteType ==
  ASSUME SlotType, DecoderType, UNCHANGED step, NEW chunk \in ChunkSet,
         ~TooFew(chunk), expected > 0 \/ chunk.kind = "cmd", ByteWrite2SPI(chunk)
  PROVE  SlotType' /\ DecoderType'
  <1>1. CASE expected = 0
    <2>1. chunk.kind = "cmd" /\ FirstPart(chunk.cmd) /\ prevCmd = NoCmd /\ remaining = 0
      BY <1>1 DEF ByteWrite2SPI, DecoderType, InStep
    <2>2. chunk.cmd \in Cmds
      BY <2>1 DEF ChunkSet
    <2>3. CASE chunk.cmd \in TwoByteCmds \cup {"PP"}
      <3>1. KeepQueue /\ DecoderType'
        BY <1>1, <2>1, <2>3, SpanFacts
        DEF FirstPart, Await, DecoderType, InStep, NoCmd, TwoByteCmds, EraseCmds
      <3> QED BY <3>1, SlotKept DEF KeepQueue
    <2>4. CASE chunk.cmd \notin TwoByteCmds \cup {"PP"}
      <3>1. /\ QueueParam(Message(chunk.cmd, 0, "none"))
            /\ expected' = remaining /\ KeepParser
        BY <2>1, <2>4 DEF FirstPart
      <3>2. DecoderType'
        BY <1>1, <2>1, <3>1 DEF KeepParser, DecoderType, InStep
      <3>3. chunk.cmd \in PlainCmds
        BY <2>2, <2>4 DEF Cmds
      <3> QED BY <3>1, <3>2, <3>3, PlainParamType DEF PlainCmds
    <2> QED BY <2>3, <2>4
  <1>2. CASE expected > 0
    <2>1. SecondPart(chunk) /\ prevCmd # NoCmd
      BY <1>2 DEF ByteWrite2SPI, DecoderType, InStep
    <2>2. PageOf(chunk) \in Pages \cup {Elsewhere} /\ DataOf(chunk) \in Data \cup {"none"}
      BY DEF PageOf, DataOf, ChunkSet
    <2>3. CASE prevCmd = "PP" /\ address = Marker
      <3>1. KeepQueue /\ DecoderType'
        BY <2>1, <2>2, <2>3, SpanFacts
        DEF SecondPart, Await, DecoderType, InStep, NoCmd, TwoByteCmds, EraseCmds
      <3> QED BY <3>1, SlotKept DEF KeepQueue
    <2>4. CASE ~(prevCmd = "PP" /\ address = Marker)
      <3>1. /\ QueueParam(Message(prevCmd, TargetOf(chunk), DataOf(chunk)))
            /\ address' = TargetOf(chunk) /\ prevCmd' = NoCmd /\ Await(0)
        BY <2>1, <2>4 DEF SecondPart
      <3>2. TargetOf(chunk) \in Pages \cup {Elsewhere}
        BY <2>2, <2>4 DEF TargetOf, DecoderType
      <3>3. DecoderType'
        BY <3>1, <3>2 DEF Await, DecoderType, InStep, NoCmd, TwoByteCmds, EraseCmds
      <3>4. prevCmd = "PP" => DataOf(chunk) \in Data
        BY <2>4 DEF TooFew, DecoderType, DataOf, ChunkSet
      <3>5. Message(prevCmd, TargetOf(chunk), DataOf(chunk)) \in FlashMessages
        BY <2>1, <2>2, <3>2 DEF Message, FlashMessages, DecoderType, Cmds, Addresses
      <3>6. Message(prevCmd, TargetOf(chunk), DataOf(chunk)).cmd = "PP"
              => Message(prevCmd, TargetOf(chunk), DataOf(chunk)).data \in Data
        BY <3>4 DEF Message
      <3> QED BY <3>1, <3>3, <3>5, <3>6, ParamType
    <2> QED BY <2>3, <2>4
  <1> QED BY <1>1, <1>2 DEF DecoderType

LEMMA ReceiveType ==
  ASSUME TypeInv, ReceiveChunk
  PROVE  TypeInv'
  <1> DEFINE chunk == Head(wire)
  <1> USE DEF TypeInv
  <1>1. wire # <<>> /\ chunk \in ChunkSet /\ wire' = Tail(wire) /\ Tail(wire) \in Seq(ChunkSet)
    BY HeadTailProperties DEF ReceiveChunk, DeviceType
  <1>2. UNCHANGED <<tx, step, device, host>>
    BY DEF ReceiveChunk
  <1>3. HostType'
    BY <1>1, <1>2, HostKept DEF ReceiveChunk
  <1>4. /\ pageTx' \in BOOLEAN /\ i2cOn' = i2cOn /\ mainLoop' = mainLoop
    BY <1>1 DEF ReceiveChunk, ReceiveCommand, ReceiveAccess, Complete, WriteById, DeviceType,
                ChunkSet, wdog
  <1>5. DeviceType'
    BY <1>1, <1>2, <1>4 DEF DeviceType, device, tx
  <1>6. CASE KeepQueue /\ KeepParser /\ UNCHANGED expected
    <2>1. DecoderType'
      BY <1>6 DEF KeepParser, DecoderType, InStep
    <2> QED BY <1>2, <1>3, <1>5, <1>6, <2>1, SlotKept DEF KeepQueue
  <1>7. CASE ~TooFew(chunk) /\ Complete(chunk)
    <2>1. CASE (expected > 0 \/ chunk.kind = "cmd") /\ ByteWrite2SPI(chunk)
      BY <1>1, <1>2, <1>3, <1>5, <1>7, <2>1, ByteWriteType
    <2>2. CASE Misread(chunk)
      <3>1. DecoderType'
        BY <2>2 DEF Misread, KeepParser, DecoderType, InStep
      <3>2. SlotType'
        BY <1>2, <2>2, PlainParamType DEF Misread, PlainCmds
      <3> QED BY <1>3, <1>5, <3>1, <3>2
    <2> QED BY <1>6, <1>7, <2>1, <2>2 DEF Complete
  <1> QED BY <1>6, <1>7 DEF ReceiveChunk, ReceiveCommand, ReceiveAccess

LEMMA TypeInvInit == Init => TypeInv
  <1> SUFFICES ASSUME Init PROVE TypeInv
    OBVIOUS
  <1>1. HostType
    BY DEF Init, HostType
  <1>2. DecoderType
    BY SpanFacts DEF Init, DecoderType, InStep, NoCmd, TwoByteCmds, EraseCmds
  <1>3. SlotType
    <2>1. 0 \in Slots
      BY LengthAssumption DEF Slots
    <2>2. QueueInit /\ step = "start"
      BY DEF Init
    <2> QED BY <2>1, <2>2 DEF SlotType, QueueInit, QueueTypeOK, Steps, Occupied
  <1>4. DeviceType
    <2>1. wire = <<>> /\ flash = [p \in Pages |-> "mixed"]
      BY DEF Init
    <2>2. wire \in Seq(ChunkSet) /\ flash \in [Pages -> Contents]
      BY <2>1 DEF Contents
    <2>3. txLeft \in 0..1 /\ step \in {"start", "wait", "issue", "settle", "copy"}
            /\ spiPage \in Contents \cup {Torn, Noise}
      BY DEF Init
    <2>4. /\ pageTx \in BOOLEAN /\ wip \in BOOLEAN /\ asleep \in BOOLEAN
          /\ i2cOn \in BOOLEAN /\ mainLoop \in BOOLEAN
      BY DEF Init
    <2> QED BY <2>2, <2>3, <2>4 DEF DeviceType
  <1> QED BY <1>1, <1>2, <1>3, <1>4 DEF TypeInv

LEMMA RestartType ==
  ASSUME TypeInv, Restart
  PROVE  TypeInv'
  <1>1. HostType'
    BY HostKept DEF Restart, TypeInv
  <1>2. DecoderType'
    BY SpanFacts DEF Restart, DecoderType, InStep, NoCmd, TwoByteCmds, EraseCmds
  <1>3. SlotType'
    <2>1. 0 \in Slots
      BY LengthAssumption DEF Slots
    <2>2. Setup /\ step' = "start"
      BY DEF Restart
    <2> QED BY <2>1, <2>2 DEF SlotType, Setup, QueueTypeOK, Steps, Occupied
  <1>4. DeviceType'
    <2>1. DeviceType /\ UNCHANGED <<wire, flash, asleep>>
      BY DEF Restart, TypeInv
    <2>2. /\ txLeft' = 0 /\ step' = "start" /\ spiPage' = Noise /\ pageTx' = FALSE
          /\ wip' = FALSE /\ i2cOn' = TRUE /\ mainLoop' = TRUE
      BY DEF Restart
    <2>3. wire' \in Seq(ChunkSet) /\ flash' \in [Pages -> Contents] /\ asleep' \in BOOLEAN
      BY <2>1 DEF DeviceType
    <2>4. txLeft' \in 0..1 /\ step' \in {"start", "wait", "issue", "settle", "copy"}
            /\ spiPage' \in Contents \cup {Torn, Noise}
      BY <2>2
    <2>5. /\ pageTx' \in BOOLEAN /\ wip' \in BOOLEAN
          /\ i2cOn' \in BOOLEAN /\ mainLoop' \in BOOLEAN
      BY <2>2
    <2> QED BY <2>3, <2>4, <2>5 DEF DeviceType
  <1> QED BY <1>1, <1>2, <1>3, <1>4 DEF TypeInv

LEMMA OtherInterruptType ==
  ASSUME TypeInv, WatchdogIrq \/ SlaveTimeout \/ FlashDone
  PROVE  TypeInv'
  <1> USE DEF TypeInv
  <1>1. SlotType' /\ DecoderType'
    BY SlotKept, DecoderKept DEF WatchdogIrq, SlaveTimeout, FlashDone, slaveVars
  <1>2. CASE WatchdogIrq
    <2>1. wire' = <<>> /\ host' = [host EXCEPT !.nak = @ \/ host.busy]
      BY <1>2 DEF WatchdogIrq, SlaveDisable
    <2>2. HostType'
      BY <2>1 DEF HostType
    <2>3. DeviceType'
      <3>1. UNCHANGED <<txLeft, step, flash, spiPage, pageTx, wip, asleep>>
        BY <1>2 DEF WatchdogIrq, isr, tx, device
      <3>2. i2cOn' = FALSE /\ mainLoop' = FALSE /\ wire' \in Seq(ChunkSet)
        BY <1>2, <2>1 DEF WatchdogIrq, SlaveDisable
      <3> QED BY <3>1, <3>2 DEF DeviceType
    <2> QED BY <1>1, <2>2, <2>3
  <1>3. CASE SlaveTimeout \/ FlashDone
    <2>1. HostType'
      <3>1. CASE UNCHANGED <<wire, host>>
        BY <3>1, HostKept
      <3>2. CASE wire' = <<>> /\ host' = [host EXCEPT !.nak = TRUE]
        BY <3>2 DEF HostType
      <3> QED BY <1>3, <3>1, <3>2 DEF SlaveTimeout, FlashDone, slaveVars
    <2>2. DeviceType'
      <3>1. /\ UNCHANGED <<step, flash, spiPage, pageTx, asleep, i2cOn, mainLoop>>
            /\ wire' \in {wire, <<>>}
        BY <1>3 DEF SlaveTimeout, FlashDone, isr, device, wdog, slaveVars
      <3>2. txLeft' \in {0, txLeft} /\ wip' \in {FALSE, wip}
        BY <1>3 DEF SlaveTimeout, FlashDone, tx, device, slaveVars
      <3>3. txLeft' \in 0..1
        BY <3>2 DEF DeviceType
      <3>4. wip' \in BOOLEAN
        BY <3>2 DEF DeviceType
      <3>5. wire \in Seq(ChunkSet) /\ <<>> \in Seq(ChunkSet)
        BY DEF DeviceType
      <3>6. DeviceType /\ txLeft' \in 0..1 /\ wip' \in BOOLEAN /\ wire' \in Seq(ChunkSet)
              /\ UNCHANGED <<step, flash, spiPage, pageTx, asleep, i2cOn, mainLoop>>
        BY <3>1, <3>3, <3>4, <3>5
      <3> QED BY <3>6 DEF DeviceType
    <2> QED BY <1>1, <2>1, <2>2
  <1> QED BY <1>2, <1>3

LEMMA FetchType ==
  ASSUME TypeInv, Fetch
  PROVE  TypeInv'
  <1> USE DEF TypeInv
  <1>1. UNCHANGED <<queueVars, isr, wire, step, device, wdog>> /\ host.pc = "fetch" /\ txLeft' \in 0..1
    BY DEF Fetch, TransmitEvent, DeviceType
  <1>2. SlotType' /\ DecoderType'
    BY <1>1, SlotKept, DecoderKept
  <1>3. DeviceType'
    BY <1>1 DEF DeviceType, isr, device, wdog
  <1>4. HostType'
    <2>1. PICK next, b : /\ next \in {[host EXCEPT !.part = 2],
                                     [Goto("loud", 0) EXCEPT !.part = 1]}
                                   \cup (IF host.i < Last THEN {Goto("read", host.i + 1)} ELSE {})
                        /\ b \in BOOLEAN /\ host' = [next EXCEPT !.good = b]
      <3>1. \A same \in BOOLEAN : Verdict(same) \in BOOLEAN
        BY DEF Verdict, HostType
      <3> QED BY <3>1 DEF Fetch
    <2>2. wire = <<>>
      BY <1>1 DEF HostType, Sendings, Writes
    <2>3. wire' = <<>>
      BY <1>1, <2>2
    <2>4. CASE next = [host EXCEPT !.part = 2]
      BY <1>1, <2>1, <2>3, <2>4 DEF HostType
    <2>5. CASE next = [Goto("loud", 0) EXCEPT !.part = 1]
      BY <1>1, <2>1, <2>3, <2>5 DEF HostType, Goto, Writes
    <2>6. CASE host.i < Last /\ next = Goto("read", host.i + 1)
      <3>1. host.i \in Nat /\ host.i + 1 <= Last /\ host.i + 1 \in Nat
        BY <2>6, SpanFacts DEF HostType
      <3> QED BY <1>1, <2>1, <2>3, <2>6, <3>1 DEF HostType, Goto, Writes
    <2> QED BY <2>1, <2>4, <2>5, <2>6
  <1> QED BY <1>2, <1>3, <1>4

LEMMA EndType ==
  ASSUME HostType, wire' = <<>>,
         NEW r \in {"none", "failed", "programmed", "match", "nomatch"}, host' = End(r)
  PROVE  HostType'
  BY DEF HostType, End, Goto, Writes

LEMMA GotoType ==
  ASSUME HostType, wire' = <<>>, NEW pc_ \in Writes, NEW k \in Nat, host' = Goto(pc_, k),
         pc_ = "erase" => k <= EraseCount,
         pc_ \in {"pp", "ppdata", "read"} => k <= Last,
         pc_ \in {"page_on", "crc_on", "quiet"} => k = 0
  PROVE  HostType'
  BY DEF HostType, Goto, Writes

LEMMA ReturnHost ==
  ASSUME HostType, Return
  PROVE  HostType'
  <1>1. wire' = <<>> /\ host.busy /\ host.pc \in Sendings
    BY DEF Return, slaveVars, HostType
  <1> USE SpanFacts
  <1>2. CASE host.pc = "page_on"
    <2>1. host' = Goto("erase", 0)
      BY <1>2 DEF Return
    <2> QED BY <1>1, <2>1, GotoType DEF Writes
  <1>3. CASE host.pc = "erase"
    <2>1. \/ host' = Goto("erase", host.i + 1) /\ host.i < EraseCount
          \/ host' = Goto("pp", 0)
      BY <1>3 DEF Return
    <2>2. host.i \in Nat
      BY DEF HostType
    <2>3. CASE host' = Goto("erase", host.i + 1) /\ host.i < EraseCount
      BY <1>1, <2>2, <2>3, GotoType DEF Writes
    <2>4. CASE host' = Goto("pp", 0)
      BY <1>1, <2>4, GotoType DEF Writes
    <2> QED BY <2>1, <2>3, <2>4
  <1>4. CASE host.pc = "pp"
    <2>1. host' = [Goto("ppdata", host.i) EXCEPT !.failed = host.nak]
      BY <1>4 DEF Return
    <2> QED BY <1>1, <1>4, <2>1 DEF HostType, Goto, Writes
  <1>5. CASE host.pc = "ppdata"
    <2>1. \/ host' = End("failed")
          \/ host' = Goto("pp", host.i + 1) /\ host.i < Last
          \/ host' = Goto("page_off", 0)
      BY <1>5 DEF Return
    <2>2. host.i \in Nat
      BY DEF HostType
    <2>3. CASE host' = End("failed")
      BY <1>1, <2>3, EndType
    <2>4. CASE host' = Goto("pp", host.i + 1) /\ host.i < Last
      BY <1>1, <2>2, <2>4, GotoType DEF Writes
    <2>5. CASE host' = Goto("page_off", 0)
      BY <1>1, <2>5, GotoType DEF Writes
    <2> QED BY <2>1, <2>3, <2>4, <2>5
  <1>6. CASE host.pc = "page_off"
    <2>1. host' = End("programmed")
      BY <1>6 DEF Return
    <2> QED BY <1>1, <2>1, EndType
  <1>7. CASE host.pc \in {"crc_on", "quiet"}
    <2>1. host' = Goto("quiet", 0) \/ host' = Goto("read", 0)
      BY <1>7 DEF Return
    <2>2. CASE host' = Goto("quiet", 0)
      BY <1>1, <2>2, GotoType DEF Writes
    <2>3. CASE host' = Goto("read", 0)
      BY <1>1, <2>3, GotoType DEF Writes
    <2> QED BY <2>1, <2>2, <2>3
  <1>8. CASE host.pc = "read"
    <2>1. host' = [Goto("fetch", host.i) EXCEPT !.part = 1]
      BY <1>8 DEF Return
    <2> QED BY <1>1, <1>8, <2>1 DEF HostType, Goto
  <1>9. CASE host.pc = "loud"
    <2>1. host' = Goto("crc_off", 0)
      BY <1>9 DEF Return
    <2> QED BY <1>1, <2>1, GotoType DEF Writes
  <1>10. CASE host.pc \in {"crc_off", "single"}
    <2>1. \E r \in {"match", "nomatch", "none"} : host' = End(r)
      BY <1>10 DEF Return
    <2> QED BY <1>1, <2>1, EndType
  <1> QED
    BY <1>1, <1>2, <1>3, <1>4, <1>5, <1>6, <1>7, <1>8, <1>9, <1>10 DEF Writes, Sendings

LEMMA ToolType ==
  ASSUME TypeInv, Tool
  PROVE  TypeInv'
  <1> USE DEF TypeInv
  <1>1. CASE Fetch
    BY <1>1, FetchType
  <1>2. CASE ~Fetch
    <2>1. UNCHANGED <<queueVars, step, isr, device, tx, wdog>>
      BY <1>2 DEF Tool, StartProgram, StartCrc, Begin, Single, Send, Return, Abort, slaveVars
    <2>2. SlotType' /\ DecoderType'
      BY <2>1, SlotKept, DecoderKept
    <2>3. wire' \in Seq(ChunkSet)
      <3>1. CASE Single
        BY <3>1, SinglesType DEF Single
      <3>2. CASE Send
        BY <3>2, ChunksType DEF Send
      <3>3. CASE UNCHANGED wire
        BY <3>3 DEF DeviceType
      <3> QED
        BY <1>2, <3>1, <3>2, <3>3 DEF Tool, StartProgram, StartCrc, Begin, Return, Abort, slaveVars
    <2>4. DeviceType'
      BY <2>1, <2>3 DEF DeviceType, device, tx, wdog, isr
    <2>5. HostType'
      <3>1. CASE StartProgram \/ StartCrc
        BY <3>1 DEF StartProgram, StartCrc, Begin, Idle, HostType, Writes, Sendings, slaveVars
      <3>2. CASE Single
        BY <3>2 DEF Single, Idle, HostType, Writes, Sendings
      <3>3. CASE Send
        BY <3>3 DEF Send, HostType, Sendings
      <3>4. CASE Return
        BY <3>4, ReturnHost
      <3>5. CASE Abort
        <4>1. wire' = <<>>
          BY <3>5 DEF Abort, HostType, slaveVars
        <4> QED BY <3>5, <4>1, EndType DEF Abort
      <3> QED BY <1>2, <3>1, <3>2, <3>3, <3>4, <3>5 DEF Tool
    <2> QED BY <2>2, <2>4, <2>5
  <1> QED BY <1>1, <1>2

LEMMA TypeInvNext == TypeInv /\ [Next]_vars => TypeInv'
  <1> SUFFICES ASSUME TypeInv, [Next]_vars PROVE TypeInv'
    OBVIOUS
  <1>1. CASE UNCHANGED vars
    <2>1. UNCHANGED <<queueVars, isr, tx, wire, step, device, wdog, host>>
      BY <1>1 DEF vars, slaveVars
    <2> QED BY <2>1, SlotKept, DecoderKept, HostKept, DeviceKept DEF TypeInv, isr
  <1> QED
    BY <1>1, QueueStepType, FlashCommandType, RestartType, ReceiveType,
       OtherInterruptType, ToolType
    DEF Next, MainLoop, Interrupt

(* Type correctness, for every image and queue, and any number of sessions *)
(* and faults.                                                             *)
THEOREM TypeCorrect == Spec => []TypeOK
  <1>1. TypeInv => TypeOK
    BY DEF TypeInv, TypeOK, SlotType, DecoderType, DeviceType, InStep, Addresses, Cmds
  <1> QED BY <1>1, TypeInvInit, TypeInvNext, PTL DEF Spec

LEMMA ParamSent ==
  ASSUME SlotType, PagesAsSent, ~disturbed,
         NEW m \in FlashMessages, m.cmd = "PP" => <<m.page, m.data>> \in handed,
         QueueParam(m), UNCHANGED <<handed, disturbed>>
  PROVE  PagesAsSent'
  <1>1. CASE UNCHANGED queueVars
    BY <1>1 DEF queueVars, PagesAsSent, Occupied
  <1>2. CASE Accept(m)
    <2>1. PICK i \in Slots : slots' = [slots EXCEPT ![i] = m]
      BY <1>2 DEF Accept
    <2>2. \A j \in Slots : slots'[j] = IF j = i THEN m ELSE slots[j]
      BY <2>1 DEF SlotType, QueueTypeOK
    <2> QED BY <2>2 DEF PagesAsSent, Occupied
  <1> QED BY <1>1, <1>2 DEF QueueParam, Drop, KeepQueue

(* A slot is filled, or the queue stays as it is.                          *)
LEMMA QueueSent ==
  ASSUME PagesAsSent, UNCHANGED slots, handed \subseteq handed', disturbed => disturbed'
  PROVE  PagesAsSent'
  BY DEF PagesAsSent, Occupied

LEMMA WireFacts ==
  /\ \A x : <<x>> # <<>> /\ Head(<<x>>) = x /\ Tail(<<x>>) = <<>>
  /\ \A x, y : /\ <<x, y>> # <<>> /\ Head(<<x, y>>) = x /\ Tail(<<x, y>>) = <<y>>
              /\ <<x, y>> # <<x>> /\ <<x, y>>[1] = x
  OBVIOUS

LEMMA IdleRests ==
  ASSUME HostType, InTransfer, wire = <<>>,
         ~(host.pc = "ppdata" /\ ~host.busy), ~(host.pc = "pp" /\ host.busy)
  PROVE  Rest
  <1>1. \A c \in TwoByteCmds, p \in Pages : Command(c, p) => Rest
    BY WireFacts DEF Command, WithAddress, TwoByteCmds, EraseCmds
  <1> QED BY <1>1, WireFacts DEF InTransfer

(* What the decoder does with the chunk it awaits.                         *)
LEMMA CmdArrives ==
  ASSUME TypeInv, Rest, txLeft = 0, ReceiveChunk,
         NEW c \in Cmds, Head(wire) = CmdChunk(c)
  PROVE  /\ c \in TwoByteCmds \cup {"PP"} => Half(c)' /\ KeepQueue
         /\ c \in PlainCmds => Rest' /\ QueueParam(Message(c, 0, "none"))
         /\ UNCHANGED i2cOn /\ UNCHANGED mainLoop
  <1>1. expected = 0 /\ remaining = 0 /\ prevCmd = NoCmd
    BY DEF Rest, TypeInv, DecoderType, InStep
  <1>2. Complete(CmdChunk(c))
    BY <1>1 DEF ReceiveChunk, ReceiveCommand, ReceiveAccess, CmdChunk, TooFew
  <1>3. FirstPart(c) /\ UNCHANGED wdog
    BY <1>1, <1>2 DEF Complete, Misread, ByteWrite2SPI, CmdChunk
  <1>4. c \in PlainCmds => c \notin TwoByteCmds \cup {"PP"}
    BY DEF PlainCmds, TwoByteCmds, EraseCmds
  <1> QED BY <1>1, <1>3, <1>4 DEF FirstPart, Half, Rest, KeepParser, wdog

LEMMA AddrArrives ==
  ASSUME TypeInv, txLeft = 0, ReceiveChunk, NEW c \in TwoByteCmds \cup {"PP"}, Half(c),
         NEW p \in Pages, Head(wire) = AddrChunk(p)
  PROVE  /\ IF c = "PP" THEN Loaded(p)' /\ KeepQueue
            ELSE Rest' /\ QueueParam(Message(c, p, "none"))
         /\ UNCHANGED i2cOn /\ UNCHANGED mainLoop
  <1>1. expected = 2 /\ remaining = 2 /\ prevCmd = c /\ prevCmd # NoCmd
    BY DEF Half, TypeInv, DecoderType, InStep, TwoByteCmds, EraseCmds, NoCmd
  <1>2. Complete(AddrChunk(p))
    BY <1>1 DEF ReceiveChunk, ReceiveCommand, ReceiveAccess, AddrChunk, TooFew
  <1>3. SecondPart(AddrChunk(p)) /\ UNCHANGED wdog
    BY <1>1, <1>2 DEF Complete, Misread, ByteWrite2SPI, AddrChunk
  <1>4. PageOf(AddrChunk(p)) = p /\ DataOf(AddrChunk(p)) = "none"
    BY DEF PageOf, DataOf, AddrChunk
  <1>5. CASE c = "PP"
    BY <1>1, <1>3, <1>4, <1>5 DEF SecondPart, Half, Loaded, wdog
  <1>6. CASE c # "PP"
    BY <1>1, <1>3, <1>4, <1>6 DEF SecondPart, Half, Rest, TargetOf, wdog
  <1> QED BY <1>5, <1>6

LEMMA DataArrives ==
  ASSUME TypeInv, txLeft = 0, ReceiveChunk, NEW p \in Pages, Loaded(p),
         NEW d \in Data, Head(wire) = DataChunk(d)
  PROVE  /\ Rest' /\ QueueParam(Message("PP", p, d))
         /\ UNCHANGED i2cOn /\ UNCHANGED mainLoop
  <1>1. expected = 256 /\ remaining = 256 /\ prevCmd = "PP" /\ address = p /\ p # Marker
    BY SpanFacts DEF Loaded, TypeInv, DecoderType, InStep
  <1>2. Complete(DataChunk(d))
    BY <1>1 DEF ReceiveChunk, ReceiveCommand, ReceiveAccess, DataChunk, TooFew
  <1>3. SecondPart(DataChunk(d)) /\ UNCHANGED wdog
    BY <1>1, <1>2 DEF Complete, Misread, ByteWrite2SPI, DataChunk, NoCmd
  <1>4. DataOf(DataChunk(d)) = d
    BY DEF DataOf, DataChunk
  <1> QED BY <1>1, <1>3, <1>4 DEF SecondPart, Rest, TargetOf, wdog

LEMMA OtherArrives ==
  ASSUME TypeInv, Rest, txLeft = 0, ReceiveChunk,
         Head(wire).kind \in {"reg", "access"}
  PROVE  /\ Rest' /\ KeepQueue /\ UNCHANGED i2cOn /\ UNCHANGED mainLoop
  <1>1. expected = 0 /\ prevCmd = NoCmd
    BY DEF Rest, TypeInv, DecoderType, InStep
  <1>2. CASE Head(wire).kind = "access"
    BY <1>1, <1>2 DEF ReceiveChunk, ReceiveCommand, ReceiveAccess, KeepParser, Rest, wdog
  <1>3. CASE Head(wire).kind = "reg"
    <2>1. Complete(Head(wire))
      BY <1>1, <1>3 DEF ReceiveChunk, ReceiveCommand, ReceiveAccess, TooFew
    <2> QED
      BY <1>1, <1>3, <2>1 DEF Complete, Misread, WriteById, KeepParser, Rest
  <1> QED BY <1>2, <1>3

(* Every action keeps it: the callback, the main loop, the timeout and the *)
(* tool.                                                                   *)
LEMMA ReceiveSent ==
  ASSUME TypeInv, SentInv, ~disturbed, ReceiveChunk
  PROVE  SentInv'
  <1>1. UNCHANGED <<host, handed, disturbed, txLeft>> /\ wire # <<>> /\ wire' = Tail(wire)
    BY DEF ReceiveChunk, tx, hist
  <1>2. host.busy /\ host.pc # "fetch" /\ Undisturbed /\ InTransfer /\ PagesAsSent
    BY <1>1 DEF SentInv, Undisturbed, TypeInv, HostType, Sendings, Writes
  <1>3. txLeft = 0
    BY <1>2 DEF Undisturbed, TypeInv, DeviceType
  <1>4. SUFFICES PagesAsSent' /\ InTransfer' /\ UNCHANGED i2cOn /\ UNCHANGED mainLoop
    BY <1>1, <1>2, <1>3 DEF SentInv, Undisturbed
  <1>5. ASSUME KeepQueue PROVE PagesAsSent'
    BY <1>1, <1>2, <1>5, QueueSent DEF KeepQueue, queueVars
  <1>6. ASSUME NEW c \in Cmds \ {"PP"}, NEW p \in Pages, QueueParam(Message(c, p, "none"))
        PROVE  PagesAsSent'
    <2>1. Message(c, p, "none") \in FlashMessages /\ Message(c, p, "none").cmd # "PP"
      BY DEF Message, FlashMessages, Addresses
    <2> QED BY <1>1, <1>2, <1>6, <2>1, ParamSent DEF TypeInv
  (* What is left of a command and its address. *)
  <1>7. ASSUME NEW c \in TwoByteCmds \cup {"PP"}, NEW p \in Pages, Command(c, p)
        PROVE  /\ PagesAsSent' /\ Command(c, p)'
               /\ UNCHANGED i2cOn /\ UNCHANGED mainLoop
    <2>1. c \in Cmds
      BY DEF Cmds
    <2>2. CASE wire = WithAddress(c, p) /\ Rest
      <3>1. Head(wire) = CmdChunk(c) /\ wire' = <<AddrChunk(p)>>
        BY <1>1, <2>2, WireFacts DEF WithAddress
      <3>2. Half(c)' /\ KeepQueue /\ UNCHANGED i2cOn /\ UNCHANGED mainLoop
        BY <1>3, <2>1, <2>2, <3>1, CmdArrives
      <3> QED BY <1>5, <3>1, <3>2 DEF Command
    <2>3. CASE wire = <<AddrChunk(p)>> /\ Half(c)
      <3>1. Head(wire) = AddrChunk(p) /\ wire' = <<>>
        BY <1>1, <2>3, WireFacts
      <3>2. /\ IF c = "PP" THEN Loaded(p)' /\ KeepQueue
               ELSE Rest' /\ QueueParam(Message(c, p, "none"))
            /\ UNCHANGED i2cOn /\ UNCHANGED mainLoop
        BY <1>3, <2>3, <3>1, AddrArrives
      <3> QED BY <1>5, <1>6, <2>1, <3>1, <3>2 DEF Command
    <2> QED BY <1>1, <1>7, <2>2, <2>3 DEF Command
  <1>8. CASE host.pc = "ppdata"
    <2>1. /\ wire = <<DataChunk(host.img[host.i])>> /\ Loaded(host.i)
          /\ <<host.i, host.img[host.i]>> \in handed
      BY <1>1, <1>2, <1>8 DEF InTransfer
    <2>2. host.i \in Pages /\ host.img[host.i] \in Data
      BY <1>8, SpanFacts, ImageAssumption DEF TypeInv, HostType, ImagePages
    <2> DEFINE m == Message("PP", host.i, host.img[host.i])
    <2>3. Head(wire) = DataChunk(host.img[host.i]) /\ wire' = <<>>
      BY <1>1, <2>1, WireFacts
    <2>4. Rest' /\ QueueParam(m) /\ UNCHANGED i2cOn /\ UNCHANGED mainLoop
      BY <1>3, <2>1, <2>2, <2>3, DataArrives
    <2>5. m \in FlashMessages /\ <<m.page, m.data>> \in handed
      BY <2>1, <2>2 DEF Message, FlashMessages, Addresses, Cmds
    <2>6. PagesAsSent'
      BY <1>1, <1>2, <2>4, <2>5, ParamSent DEF TypeInv
    <2> QED BY <1>1, <1>2, <1>8, <2>3, <2>4, <2>6 DEF InTransfer
  <1>9. CASE host.pc = "pp"
    <2>1. Command("PP", host.i) /\ host.i \in Pages
      BY <1>2, <1>9, SpanFacts DEF InTransfer, TypeInv, HostType, ImagePages
    <2> QED BY <1>1, <1>2, <1>7, <1>9, <2>1 DEF InTransfer
  <1>10. CASE host.pc \notin {"ppdata", "pp"}
    <2>1. CASE \E c \in TwoByteCmds, p \in Pages : Command(c, p)
      BY <1>1, <1>7, <1>10, <2>1 DEF InTransfer
    <2>2. CASE \E c \in PlainCmds : wire = <<CmdChunk(c)>> /\ Rest
      <3>1. PICK c \in PlainCmds : wire = <<CmdChunk(c)>> /\ Rest
        BY <2>2
      <3>2. c \in Cmds \ {"PP"} /\ 0 \in Pages
        BY SpanFacts DEF Cmds, PlainCmds
      <3>3. Head(wire) = CmdChunk(c) /\ wire' = <<>>
        BY <1>1, <3>1, WireFacts
      <3>4. /\ Rest' /\ QueueParam(Message(c, 0, "none"))
            /\ UNCHANGED i2cOn /\ UNCHANGED mainLoop
        BY <1>3, <3>1, <3>2, <3>3, CmdArrives
      <3> QED BY <1>1, <1>6, <1>10, <3>2, <3>3, <3>4 DEF InTransfer
    <2>3. CASE \/ \E r \in Registers : wire = <<RegChunk(r)>> /\ Rest
               \/ \E b \in BOOLEAN : wire = <<PageAccess(b)>> /\ Rest
      <3>1. Head(wire).kind \in {"reg", "access"} /\ wire' = <<>> /\ Rest
        BY <1>1, <2>3, WireFacts DEF RegChunk, PageAccess
      <3>2. Rest' /\ KeepQueue /\ UNCHANGED i2cOn /\ UNCHANGED mainLoop
        BY <1>3, <3>1, OtherArrives
      <3> QED BY <1>1, <1>5, <1>10, <3>1, <3>2 DEF InTransfer
    <2> QED BY <1>1, <1>2, <1>10, <2>1, <2>2, <2>3 DEF InTransfer
  <1> QED BY <1>8, <1>9, <1>10

LEMMA SentKept ==
  ASSUME SentInv, UNCHANGED <<slots, isr, wire, txLeft, host, i2cOn, mainLoop, handed>>,
         disturbed => disturbed'
  PROVE  SentInv'
  <1>1. PagesAsSent'
    BY QueueSent DEF SentInv
  <1>2. ASSUME Undisturbed PROVE Undisturbed'
    <2>1. UNCHANGED <<prevCmd, address, pageTx, wire, txLeft, host, i2cOn, mainLoop, handed>>
      BY DEF isr
    <2> QED
      BY <1>2, <2>1 DEF Undisturbed, InTransfer, Command, Rest, Half, Loaded
  <1> QED BY <1>1, <1>2 DEF SentInv

LEMMA CommandSent ==
  ASSUME TypeInv, SentInv, FlashCommand \/ QueueStep \/ FlashDone
  PROVE  SentInv'
  <1>1. UNCHANGED <<isr, wire, txLeft, host, i2cOn, mainLoop, handed>> /\ (disturbed => disturbed')
    <2>1. CASE FlashCommand
      <3>1. KeepWire
        BY <2>1 DEF FlashCommand, Start, Wait, PageWrite, Erase, ReadPage, Plain, PowerMode
      <3>2. UNCHANGED handed /\ (disturbed => disturbed')
        <4>1. CASE PowerMode
          BY <4>1 DEF PowerMode
        <4>2. CASE ~PowerMode
          <5>1. UNCHANGED handed
            BY <2>1, <4>2 DEF FlashCommand, Start, Wait, PageWrite, Erase, ReadPage, Plain, hist
          <5>2. UNCHANGED disturbed
            BY <2>1, <4>2 DEF FlashCommand, Start, Wait, PageWrite, Erase, ReadPage, Plain, hist
          <5> QED BY <5>1, <5>2
        <4> QED BY <4>1, <4>2
      <3> QED BY <3>1, <3>2 DEF KeepWire, slaveVars, tx
    <2>2. CASE QueueStep \/ FlashDone
      BY <2>2 DEF QueueStep, FlashDone, slaveVars, tx, wdog, hist
    <2> QED BY <2>1, <2>2
  <1>2. CASE UNCHANGED slots
    BY <1>1, <1>2, SentKept
  <1>3. CASE Release
    <2>1. \A j \in Slots : slots'[j] \in {slots[j], Empty}
      BY <1>3 DEF Release, TypeInv, SlotType, QueueTypeOK
    <2>2. PagesAsSent'
      BY <1>1, <2>1 DEF SentInv, PagesAsSent, Occupied
    <2>3. UNCHANGED <<prevCmd, address, pageTx, wire, txLeft, host, i2cOn, mainLoop, handed>>
      BY <1>1 DEF isr
    <2>4. Undisturbed => Undisturbed'
      BY <2>3 DEF Undisturbed, InTransfer, Command, Rest, Half, Loaded
    <2> QED BY <1>1, <2>2, <2>4 DEF SentInv
  <1>4. FlashCommand => UNCHANGED slots
    BY DEF FlashCommand, Start, Wait, PageWrite, Erase, ReadPage, ReadFlash, CopyPage, Plain,
           PowerMode, Finish, Execute, queueVars
  <1>5. QueueStep => UNCHANGED slots \/ Release
    BY DEF QueueStep, Select, Poll, SelectNext, Scan, Run
  <1> QED BY <1>2, <1>3, <1>4, <1>5 DEF FlashDone, queueVars

LEMMA DisturbedSent == disturbed' => SentInv'
  BY DEF SentInv, PagesAsSent

LEMMA TimeoutSent ==
  ASSUME SentInv, SlaveTimeout
  PROVE  SentInv'
  <1>1. CASE disturbed'
    BY <1>1, DisturbedSent
  <1>2. CASE ~disturbed'
    <2>1. ~disturbed /\ host.pc # "fetch" /\ txLeft' = 0
          /\ UNCHANGED <<prevCmd, address, pageTx, wire, host, i2cOn, mainLoop, handed, slots>>
      BY <1>2 DEF SlaveTimeout, isr, wdog, queueVars
    <2>2. PagesAsSent'
      BY <1>2, <2>1, QueueSent DEF SentInv
    <2>3. Undisturbed'
      BY <2>1 DEF SentInv, Undisturbed, InTransfer, Command, Rest, Half, Loaded
    <2> QED BY <2>2, <2>3 DEF SentInv
  <1> QED BY <1>1, <1>2

LEMMA BeginSent ==
  ASSUME TypeInv, SentInv, ~disturbed, StartProgram \/ StartCrc
  PROVE  SentInv'
  <1>1. PICK first \in {"page_on", "crc_on"} :
          host' = [host EXCEPT !.pc = first, !.good = TRUE, !.result = "none"]
    BY DEF StartProgram, StartCrc, Begin
  <1>2. /\ host.pc = "idle"
        /\ UNCHANGED <<prevCmd, address, pageTx, wire, txLeft, i2cOn, mainLoop, handed, slots, disturbed>>
    BY DEF StartProgram, StartCrc, Begin, Idle, slaveVars, isr, tx, wdog, hist, queueVars
  <1>3. host'.pc = first /\ host'.busy = host.busy
    BY <1>1 DEF TypeInv, HostType
  <1>4. ~host.busy /\ wire = <<>>
    BY <1>2 DEF TypeInv, HostType, Sendings, Writes
  <1>5. Rest
    BY <1>2, <1>4, IdleRests DEF SentInv, Undisturbed, TypeInv
  <1>6. InTransfer'
    BY <1>2, <1>3, <1>4, <1>5 DEF InTransfer, Rest
  <1>7. PagesAsSent'
    BY <1>2, QueueSent DEF SentInv
  <1> QED BY <1>1, <1>2, <1>3, <1>6, <1>7 DEF SentInv, Undisturbed

LEMMA SingleSent ==
  ASSUME TypeInv, SentInv, ~disturbed, Single
  PROVE  SentInv'
  <1>1. PICK chunks \in Singles :
          /\ wire' = chunks
          /\ disturbed' = (disturbed \/ chunks[1] \in {CmdChunk(c) : c \in EraseCmds})
    BY DEF Single
  <1>2. /\ host.pc = "idle" /\ host' = [host EXCEPT !.pc = "single", !.busy = TRUE, !.result = "none"]
        /\ UNCHANGED <<prevCmd, address, pageTx, txLeft, i2cOn, mainLoop, handed, slots>>
    BY DEF Single, Idle, isr, tx, wdog, queueVars
  <1>3. host'.pc = "single" /\ ~host.busy /\ wire = <<>>
    BY <1>2 DEF TypeInv, HostType, Sendings, Writes
  <1>4. Rest
    BY <1>2, <1>3, IdleRests DEF SentInv, Undisturbed, TypeInv
  <1>5. CASE disturbed'
    BY <1>5, DisturbedSent
  <1>6. CASE ~disturbed'
    <2>1. \A c \in EraseCmds : chunks # <<CmdChunk(c)>>
      <3>1. \A x : <<x>>[1] = x
        OBVIOUS
      <3> QED BY <1>1, <1>6, <3>1
    <2>2. \/ \E c \in PlainCmds : chunks = <<CmdChunk(c)>>
          \/ \E c \in TwoByteCmds, p \in Pages : chunks = WithAddress(c, p)
          \/ \E r \in Registers : chunks = <<RegChunk(r)>>
      BY <2>1, OperatorAssumption DEF TwoByteCmds, EraseCmds
    <2>3. InTransfer'
      BY <1>1, <1>2, <1>3, <1>4, <2>2 DEF InTransfer, Rest, Command
    <2>4. PagesAsSent'
      BY <1>2, <1>6, <1>1, QueueSent DEF SentInv
    <2> QED BY <1>1, <1>2, <1>3, <1>6, <2>3, <2>4 DEF SentInv, Undisturbed
  <1> QED BY <1>5, <1>6

LEMMA SendSent ==
  ASSUME TypeInv, SentInv, ~disturbed, Send
  PROVE  SentInv'
  <1>1. /\ host.pc \in Writes /\ ~host.busy /\ wire = <<>>
        /\ host' = [host EXCEPT !.busy = TRUE, !.nak = ~i2cOn]
        /\ UNCHANGED <<prevCmd, address, pageTx, txLeft, i2cOn, mainLoop, slots, disturbed>>
    BY DEF Send, TypeInv, HostType, isr, tx, wdog, queueVars
  <1>2. i2cOn /\ Undisturbed /\ PagesAsSent /\ InTransfer
    BY DEF SentInv, Undisturbed
  <1>3. wire' = Chunks /\ handed \subseteq handed'
    BY <1>2 DEF Send
  <1>4. host'.pc = host.pc /\ host'.i = host.i /\ host'.img = host.img /\ host'.busy
    BY <1>1 DEF TypeInv, HostType
  <1>5. PagesAsSent'
    BY <1>1, <1>2, <1>3, QueueSent
  <1>6. InTransfer'
    <2>1. CASE host.pc = "ppdata"
      <3>1. Chunks = <<DataChunk(host.img[host.i])>>
        BY <2>1 DEF Chunks
      <3>2. Loaded(host.i)'
        BY <1>1, <1>2, <1>4, <2>1, WireFacts DEF InTransfer, Loaded
      <3>3. <<host.i, host.img[host.i]>> \in handed'
        BY <2>1 DEF Send
      <3> QED BY <1>3, <1>4, <2>1, <3>1, <3>2, <3>3 DEF InTransfer, Loaded
    <2>2. CASE host.pc # "ppdata"
      <3>1. Rest'
        BY <1>1, <1>2, <2>2, IdleRests DEF TypeInv, Rest
      <3>2. CASE host.pc \in {"page_on", "crc_on", "page_off", "crc_off"}
        <4>1. \E b \in BOOLEAN : Chunks = <<PageAccess(b)>>
          BY <3>2 DEF Chunks
        <4> QED BY <1>3, <1>4, <3>1, <3>2, <4>1 DEF InTransfer
      <3>3. CASE host.pc = "pp"
        <4>1. Chunks = WithAddress("PP", host.i)
          BY <3>3 DEF Chunks
        <4> QED BY <1>3, <1>4, <3>1, <3>3, <4>1 DEF InTransfer, Command, Rest
      <3>4. CASE host.pc \in {"quiet", "loud", "erase", "read"}
        <4>1. PICK c \in TwoByteCmds, p \in Pages : Chunks = WithAddress(c, p)
          <5>1. CASE host.pc \in {"quiet", "loud"}
            BY <5>1, SpanFacts DEF Chunks, TwoByteCmds
          <5>2. CASE host.pc = "erase"
            <6>1. host.i \in 0..EraseCount
              BY <5>2, SpanFacts DEF TypeInv, HostType
            <6> QED BY <5>2, <6>1, ErasedPage DEF Chunks, TwoByteCmds, EraseCmds
          <5>3. CASE host.pc = "read"
            <6>1. host.i \in Pages
              BY <5>3, SpanFacts DEF TypeInv, HostType, ImagePages
            <6> QED BY <5>3, <6>1 DEF Chunks, TwoByteCmds
          <5> QED BY <3>4, <5>1, <5>2, <5>3
        <4>2. Command(c, p)'
          BY <1>3, <3>1, <4>1 DEF Command, Rest
        <4> QED BY <1>4, <3>4, <4>2 DEF InTransfer
      <3> QED BY <1>1, <2>2, <3>2, <3>3, <3>4 DEF Writes
    <2> QED BY <2>1, <2>2
  <1>7. Undisturbed'
    BY <1>1, <1>2, <1>6, <1>4 DEF Undisturbed, Writes
  <1> QED BY <1>5, <1>7 DEF SentInv

LEMMA ReturnSent ==
  ASSUME TypeInv, SentInv, ~disturbed, Return
  PROVE  SentInv'
  <1>1. /\ host.busy /\ wire = <<>> /\ host.pc \in Sendings
        /\ UNCHANGED <<prevCmd, address, pageTx, wire, txLeft, i2cOn, mainLoop, handed, slots, disturbed>>
    BY DEF Return, TypeInv, HostType, slaveVars, isr, tx, wdog, hist, queueVars
  <1>2. Undisturbed /\ PagesAsSent /\ InTransfer
    BY DEF SentInv, Undisturbed
  <1>3. PagesAsSent'
    BY <1>1, <1>2, QueueSent
  <1>4. txLeft' # 1
    BY <1>1, <1>2 DEF Undisturbed, Sendings, Writes
  <1>5. host'.pc = "fetch" => host'.part = 1
    BY <1>1 DEF Return, Goto, End, Sendings, Writes
  <1>6. InTransfer'
    <2>1. CASE host.pc = "pp"
      <3>1. Loaded(host.i)
        BY <1>1, <1>2, <2>1, WireFacts DEF InTransfer, Command, WithAddress
      <3>2. host' = [Goto("ppdata", host.i) EXCEPT !.failed = host.nak]
        BY <2>1 DEF Return
      <3>3. host'.pc = "ppdata" /\ ~host'.busy /\ host'.i = host.i
        BY <3>2 DEF Goto, TypeInv, HostType
      <3> QED BY <1>1, <3>1, <3>3 DEF InTransfer, Loaded
    <2>2. CASE host.pc # "pp"
      <3>1. Rest
        BY <1>1, <1>2, <2>2, IdleRests DEF TypeInv
      <3>2. host'.pc # "ppdata" /\ (host'.pc = "pp" => ~host'.busy)
        BY <1>1, <2>2 DEF Return, Goto, End, Sendings, Writes, TypeInv, HostType
      <3> QED BY <1>1, <3>1, <3>2 DEF InTransfer, Rest
    <2> QED BY <2>1, <2>2
  <1> QED BY <1>1, <1>2, <1>3, <1>4, <1>5, <1>6 DEF SentInv, Undisturbed

LEMMA FetchSent ==
  ASSUME TypeInv, SentInv, ~disturbed, Fetch
  PROVE  SentInv'
  <1>1. /\ host.pc = "fetch" /\ ~host.busy /\ wire = <<>>
        /\ UNCHANGED <<prevCmd, address, pageTx, wire, i2cOn, mainLoop, handed, slots, disturbed>>
    BY DEF Fetch, TypeInv, HostType, Sendings, Writes, isr, wdog, queueVars
  <1>2. Undisturbed /\ PagesAsSent /\ InTransfer /\ i2cOn
    BY DEF SentInv, Undisturbed
  <1>3. PagesAsSent'
    BY <1>1, <1>2, QueueSent
  <1>4. Rest
    BY <1>1, <1>2, IdleRests DEF TypeInv
  <1>5. CASE host.part = 1
    <2>1. host'.pc = "fetch" /\ host'.part = 2
      BY <1>1, <1>5 DEF Fetch, TypeInv, HostType
    <2>2. txLeft = 0
      BY <1>1, <1>2, <1>5 DEF Undisturbed, TypeInv, DeviceType
    <2>3. txLeft' = IF pageTx THEN 1 ELSE 0
      BY <1>2, <2>2 DEF Fetch, TransmitEvent
    <2>4. InTransfer'
      BY <1>1, <1>4, <2>1 DEF InTransfer, Rest
    <2> QED BY <1>1, <1>2, <1>3, <2>1, <2>3, <2>4 DEF SentInv, Undisturbed
  <1>6. CASE host.part = 2
    <2>1. host'.pc \in {"read", "loud"} /\ ~host'.busy
      BY <1>1, <1>6 DEF Fetch, TypeInv, HostType, Goto
    <2>2. txLeft' = 0
      BY <1>1, <1>2, <1>6 DEF Fetch, TransmitEvent, Undisturbed, TypeInv, DeviceType
    <2>3. InTransfer'
      BY <1>1, <1>4, <2>1 DEF InTransfer, Rest
    <2> QED BY <1>1, <1>2, <1>3, <2>1, <2>2, <2>3 DEF SentInv, Undisturbed
  <1> QED BY <1>5, <1>6 DEF TypeInv, HostType

(* What disturbed a session or overtook the queue is not forgotten.        *)
LEMMA HistoryGrows ==
  [Next]_vars => (disturbed => disturbed') /\ (backlog => backlog') /\ (stale => stale')
  <1>1. [Next]_vars /\ disturbed => disturbed'
    BY DEF Next, MainLoop, Interrupt, FlashCommand, Start, Wait, PageWrite, Erase,
                  ReadPage, ReadFlash, CopyPage, Plain, PowerMode, QueueStep, Restart,
                  ReceiveChunk, WatchdogIrq, SlaveTimeout, FlashDone, Tool, StartProgram,
                  StartCrc, Begin, Single, Send, Return, Fetch, Abort, vars, hist
  <1>2. [Next]_vars /\ backlog => backlog'
    BY DEF Next, MainLoop, Interrupt, FlashCommand, Start, Wait, PageWrite, Erase,
                  ReadPage, ReadFlash, CopyPage, Plain, PowerMode, QueueStep, Restart,
                  ReceiveChunk, WatchdogIrq, SlaveTimeout, FlashDone, Tool, StartProgram,
                  StartCrc, Begin, Single, Send, Return, Fetch, Abort, vars, hist
  <1>3. [Next]_vars /\ stale => stale'
    BY DEF Next, MainLoop, Interrupt, FlashCommand, Start, Wait, PageWrite, Erase,
                  ReadPage, ReadFlash, CopyPage, Plain, PowerMode, QueueStep, Restart,
                  ReceiveChunk, WatchdogIrq, SlaveTimeout, FlashDone, Tool, StartProgram,
                  StartCrc, Begin, Single, Send, Return, Fetch, TransmitEvent, Abort, vars, hist
  <1> QED BY <1>1, <1>2, <1>3

LEMMA SentInvNext == TypeInv /\ SentInv /\ [Next]_vars => SentInv'
  <1> SUFFICES ASSUME TypeInv, SentInv, [Next]_vars PROVE SentInv'
    OBVIOUS
  <1>1. CASE disturbed
    <2>1. disturbed'
      BY <1>1, HistoryGrows
    <2> QED BY <2>1, DisturbedSent
  <1>2. CASE ~disturbed
    <2>1. CASE UNCHANGED vars
      BY <2>1, SentKept DEF vars, slaveVars, tx, wdog, hist, queueVars
    <2>2. CASE WatchdogIrq \/ Abort
      BY <2>2, DisturbedSent DEF WatchdogIrq, Abort
    <2>3. ~Restart
      BY <1>2 DEF Restart, SentInv, Undisturbed
    <2> QED
      BY <1>2, <2>1, <2>2, <2>3, CommandSent, ReceiveSent, TimeoutSent, BeginSent, SingleSent,
         SendSent, ReturnSent, FetchSent
      DEF Next, MainLoop, Interrupt, Tool
  <1> QED BY <1>1, <1>2

(* A page waits in the queue only for the address the tool sent it for:    *)
(* commands, addresses and data that arrive in transfers of their own are  *)
(* put together as they were sent, whatever interrupts the main loop and   *)
(* however long the queue is.                                              *)
THEOREM PagesSent == Spec => []PagesAsSent
  <1>1. Init => SentInv
    BY WireFacts DEF Init, QueueInit, SentInv, PagesAsSent, Occupied, Undisturbed, InTransfer, Rest
  <1>2. SentInv => PagesAsSent
    BY DEF SentInv
  <1> QED BY <1>1, <1>2, TypeInvInit, TypeInvNext, SentInvNext, PTL DEF Spec

-----------------------------------------------------------------------------
(* The program session: how far the flash has come.                        *)
Block == Span["BER64"]

(* Blocks before e are erased, pages before k written.                     *)
Reached(e, k) ==
  \A q \in ImagePages :
    /\ q < k => flash[q] = host.img[q]
    /\ q >= k /\ q \div Block < e => flash[q] = "erased"

(* The flash has taken the command that runs.                              *)
Issued == pc = "release" \/ (pc = "exec" /\ step = "settle")

(* Nothing waits.                                                          *)
Clear(e, k) == Occupied = {} /\ Reached(e, k)

(* Nothing waits but m: with it the flash gets from one point of the       *)
(* session to the next.                                                    *)
Doing(m, e, k, e2, k2) ==
  /\ \A j \in Occupied : slots[j] = m
  /\ \A i, j \in Occupied : i = j
  /\ IF Occupied = {} \/ Issued THEN Reached(e2, k2) ELSE Reached(e, k)

Erasing(i) == Doing(Message("BER64", i * Block, "none"), i, 0, i + 1, 0)
Programming(i) ==
  Doing(Message("PP", i, host.img[i]), EraseCount + 1, i, EraseCount + 1, i + 1)

(* The transfer of the tool is under way, or has arrived.                  *)
Arriving == host.busy /\ wire # <<>>
Arrived == host.busy /\ wire = <<>>

(* What the tool does tells what the queue holds and how far the flash is. *)
SessionParts ==
  /\ host.pc = "erase" =>
       /\ ~host.busy /\ host.i > 0 => Erasing(host.i - 1)
       /\ Arriving => Clear(host.i, 0)
       /\ Arrived => Erasing(host.i)
       /\ host.busy => Command("BER64", host.i * Block)
  /\ host.pc = "page_off" => wire \in {<<>>, <<PageAccess(FALSE)>>}
  /\ host.pc = "pp" /\ ~host.busy =>
       IF host.i = 0 THEN Erasing(EraseCount) ELSE Programming(host.i - 1)
  /\ (host.pc = "pp" /\ host.busy) \/ (host.pc = "ppdata" /\ ~Arrived)
       => Clear(EraseCount + 1, host.i)
  /\ host.pc = "ppdata" /\ Arrived => Programming(host.i)
  /\ host.pc = "page_off" \/ host.result = "programmed" => Programming(Last)
  /\ host.result = "programmed" => host.pc = "idle"

(* Only the operator puts the flash to sleep.                              *)
Awake == disturbed \/ ~asleep
(* The invariant of ProgrammedIsWritten.                                   *)
ProgramInv == ~disturbed /\ ~backlog => SessionParts

(* Every page of an image lies in a block that the tool erases.            *)
LEMMA BlockFacts ==
  /\ Block \in Nat \ {0}
  /\ \A i \in 0..EraseCount : (i * Block) \div Block = i
  /\ \A q \in Pages : q \div Block \in Nat /\ q \div Block < EraseCount + 1
  <1>1. Block \in Nat \ {0} /\ EraseCount \in Nat
    BY SpanFacts DEF Block
  <1>2. ASSUME NEW i \in 0..EraseCount PROVE (i * Block) \div Block = i
    BY <1>1
  <1>3. ASSUME NEW q \in Pages PROVE q \div Block \in Nat /\ q \div Block < EraseCount + 1
    <2>1. q \in Nat /\ q < Block * (EraseCount + 1)
      BY <1>1 DEF Pages, Block
    <2> QED BY <1>1, <2>1
  <1> QED BY <1>1, <1>2, <1>3

(* An erase command takes the flash past its block, a page program past    *)
(* its page, which was erased.                                             *)
LEMMA EraseReaches ==
  ASSUME TypeInv, FlashInv, ~asleep, NEW i \in 0..EraseCount, UNCHANGED host,
         Erase, Current = Message("BER64", i * Block, "none"), Reached(i, 0)
  PROVE  Reached(i + 1, 0)'
  <1>1. Cmd = "BER64" /\ Page = i * Block /\ Page \in Pages
    BY ErasedPage DEF Cmd, Page, Message, Block
  <1>2. ~wip
    BY <1>1 DEF Erase, At, FlashInv, IssueReady, Guarded, EraseCmds
  <1>3. flash' = [q \in Pages |-> IF q \in ErasedBy("BER64", Page) THEN "erased" ELSE flash[q]]
    BY <1>1, <1>2 DEF Erase, Wipe, Ready
  <1>4. \A q \in Pages : q \in ErasedBy("BER64", Page) <=> q \div Block = i
    BY <1>1, BlockFacts, SpanFacts DEF ErasedBy, Block
  <1>5. ASSUME NEW q \in ImagePages
        PROVE /\ ~(q < 0)
              /\ q \div Block < i + 1 => flash'[q] = "erased"
    <2>1. q \in Pages /\ q \in Nat /\ q \div Block \in Nat
      BY SpanFacts, BlockFacts DEF ImagePages
    <2> QED BY <1>3, <1>4, <2>1 DEF Reached
  <1> QED BY <1>5 DEF Reached

LEMMA WriteReaches ==
  ASSUME TypeInv, FlashInv, ~asleep, NEW i \in ImagePages, UNCHANGED host,
         PageWrite, Current = Message("PP", i, host.img[i]), Reached(EraseCount + 1, i)
  PROVE  Reached(EraseCount + 1, i + 1)'
  <1>1. Cmd = "PP" /\ Page = i /\ Current.data = host.img[i] /\ i \in Pages /\ i \in Nat
    BY SpanFacts DEF Cmd, Page, Message, ImagePages
  <1>2. ~wip
    BY <1>1 DEF PageWrite, At, FlashInv, IssueReady, Guarded
  <1>3. flash' = [flash EXCEPT ![i] = Programmed(@, host.img[i])]
    BY <1>1, <1>2 DEF PageWrite, Ready
  <1>4. flash[i] = "erased"
    BY <1>1, BlockFacts DEF Reached
  <1>5. \A q \in Pages : flash'[q] = IF q = i THEN host.img[i] ELSE flash[q]
    BY <1>1, <1>3, <1>4 DEF Programmed, TypeInv, DeviceType
  <1>6. ASSUME NEW q \in ImagePages
        PROVE /\ q < i + 1 => flash'[q] = host.img[q]
              /\ q >= i + 1 /\ q \div Block < EraseCount + 1 => flash'[q] = "erased"
    <2>1. q \in Pages /\ q \in Nat
      BY SpanFacts DEF ImagePages
    <2> QED BY <1>1, <1>5, <2>1 DEF Reached
  <1> QED BY <1>6 DEF Reached

(* What neither touches the flash nor the queue stays where it is.         *)
LEMMA ReachedKept ==
  ASSUME NEW e, NEW k, Reached(e, k), UNCHANGED <<flash, host>>
  PROVE  Reached(e, k)'
  BY DEF Reached

LEMMA DoingKept ==
  ASSUME NEW m, NEW e, NEW k, NEW e2, NEW k2, Doing(m, e, k, e2, k2),
         UNCHANGED <<slots, pc, step, flash>>, host'.img = host.img
  PROVE  Doing(m, e, k, e2, k2)'
  BY DEF Doing, Reached, Issued, Occupied

(* The main loop works on the one command there is.                        *)
LEMMA DoingMain ==
  ASSUME TypeInv, NEW m, m.cmd \in {"BER64", "PP"}, NEW e, NEW k, NEW e2, NEW k2,
         Doing(m, e, k, e2, k2), UNCHANGED host,
         Current = m /\ (Erase \/ PageWrite) /\ Reached(e, k) => Reached(e2, k2)',
         FlashCommand \/ QueueStep
  PROVE  Doing(m, e, k, e2, k2)'
  <1>1. CASE FlashCommand
    <2>1. pc = "exec"
      BY <1>1 DEF FlashCommand, Start, Wait, PageWrite, Erase, ReadPage, ReadFlash, CopyPage,
                  Plain, PowerMode, At
    <2>2. msgIndex \in Occupied
      BY <2>1 DEF TypeInv, SlotType, QueueTypeOK, Occupied, Current
    <2>3. Current = m /\ Cmd = m.cmd
      BY <2>2 DEF Doing, Current, Cmd
    <2>4. UNCHANGED slots
      BY <1>1 DEF FlashCommand, Start, Wait, PageWrite, Erase, ReadPage, ReadFlash, CopyPage,
                  Plain, PowerMode, Finish, Execute, queueVars
    <2>5. Occupied' = Occupied
      BY <2>4 DEF Occupied
    <2>6. IF Issued' THEN Reached(e2, k2)' ELSE Reached(e, k)'
      <3>1. CASE Start
        BY <2>1, <2>2, <3>1, ReachedKept DEF Start, At, Doing, Issued, queueVars, main, device
      <3>2. CASE Wait
        BY <2>1, <2>2, <3>2, ReachedKept DEF Wait, Finish, Execute, Doing, Issued, queueVars, main
      <3>3. CASE PageWrite
        BY <2>1, <2>2, <2>3, <3>3 DEF PageWrite, At, Finish, Execute, Doing, Issued
      <3>4. CASE Erase
        BY <2>1, <2>2, <2>3, <3>4 DEF Erase, At, Doing, Issued, queueVars, main
      <3>5. CASE ReadPage
        <4>1. Cmd = "READ"
          BY <3>5 DEF ReadPage, ReadFlash, CopyPage, At, TypeInv, SlotType
        <4> QED BY <2>3, <4>1
      <3>6. ~Plain /\ ~PowerMode
        BY <2>3 DEF Plain, PowerMode
      <3> QED BY <1>1, <3>1, <3>2, <3>3, <3>4, <3>5, <3>6 DEF FlashCommand
    <2> QED BY <2>2, <2>4, <2>5, <2>6 DEF Doing
  <1>2. CASE QueueStep
    <2>1. UNCHANGED <<flash, step>>
      BY <1>2 DEF QueueStep, device
    <2>2. Reached(e, k)' = Reached(e, k) /\ Reached(e2, k2)' = Reached(e2, k2)
      BY <2>1 DEF Reached
    <2>3. CASE Select
      <3>1. UNCHANGED slots /\ Occupied' = Occupied /\ pc # "exec" /\ pc # "release"
            /\ pc' # "release"
        BY <2>3 DEF Select, Poll, SelectNext, Scan, Run, Occupied
      <3>2. ~Issued /\ ~Issued'
        BY <2>1, <3>1 DEF Issued, TypeInv, SlotType
      <3> QED BY <2>2, <3>1, <3>2 DEF Doing
    <2>4. CASE Release
      <3>1. pc = "release" /\ msgIndex \in Occupied
        BY <2>4 DEF Release, TypeInv, SlotType, QueueTypeOK, Occupied, Current
      <3>2. \A j \in Slots : slots'[j] = IF j = msgIndex THEN Empty ELSE slots[j]
        BY <2>4 DEF Release, TypeInv, SlotType, QueueTypeOK
      <3>3. Occupied' = {}
        BY <3>1, <3>2 DEF Doing, Occupied
      <3> QED BY <2>2, <3>1, <3>3 DEF Doing, Issued
    <2> QED BY <1>2, <2>3, <2>4 DEF QueueStep
  <1> QED BY <1>1, <1>2

(* A command arrives at an empty queue.                                    *)
LEMMA DoingAccepted ==
  ASSUME TypeInv, NEW m \in FlashMessages, NEW e, NEW k, NEW e2, NEW k2, Clear(e, k),
         QueueParam(m), UNCHANGED <<flash, host, step>>
  PROVE  Doing(m, e, k, e2, k2)'
  <1>1. ~Full /\ m \in Entries /\ m # Empty /\ m.cmd \in Cmds
    BY LengthAssumption, FlashAssumption, EmptyAssumption DEF Clear, Full, Slots, FlashMessages
  <1>2. Accept(m)
    BY <1>1 DEF QueueParam, Drop
  <1>3. PICK i \in Slots : slots' = [slots EXCEPT ![i] = m]
    BY <1>2 DEF Accept
  <1>4. \A j \in Slots : slots'[j] = IF j = i THEN m ELSE slots[j]
    BY <1>3 DEF TypeInv, SlotType, QueueTypeOK
  <1>5. Occupied' = {i} /\ slots'[i] = m
    BY <1>1, <1>4 DEF Clear, Occupied
  <1>6. ~Issued'
    <2>1. pc # "exec" /\ pc # "release"
      BY DEF Clear, TypeInv, SlotType, QueueTypeOK, Occupied, Current
    <2> QED BY <1>2, <2>1 DEF Accept, main, Issued
  <1>7. Reached(e, k)'
    BY ReachedKept DEF Clear
  <1> QED BY <1>5, <1>6, <1>7 DEF Doing

LEMMA ClearKept ==
  ASSUME NEW e, NEW k, Clear(e, k), UNCHANGED <<slots, flash>>, host'.img = host.img
  PROVE  Clear(e, k)'
  BY DEF Clear, Reached, Occupied

LEMMA ClearMain ==
  ASSUME TypeInv, NEW e, NEW k, Clear(e, k), FlashCommand \/ QueueStep, UNCHANGED host
  PROVE  Clear(e, k)'
  <1>1. pc # "exec" /\ pc # "release"
    BY DEF Clear, TypeInv, SlotType, QueueTypeOK, Occupied, Current
  <1>2. ~FlashCommand /\ QueueStep
    BY <1>1 DEF FlashCommand, Start, Wait, PageWrite, Erase, ReadPage, ReadFlash, CopyPage,
                Plain, PowerMode, At
  <1>3. UNCHANGED <<slots, flash>>
    BY <1>1, <1>2 DEF QueueStep, Select, Poll, SelectNext, Scan, Run, Release, device
  <1> QED BY <1>3, ClearKept

LEMMA DoneIsClear ==
  ASSUME NEW m, NEW e, NEW k, NEW e2, NEW k2, Doing(m, e, k, e2, k2), Occupied = {}
  PROVE  Clear(e2, k2)
  BY DEF Doing, Clear

SessionFrame == <<slots, pc, step, flash, host, wire, prevCmd, address>>

LEMMA StagesKept ==
  ASSUME UNCHANGED <<slots, pc, step, flash>>, host'.img = host.img
  PROVE  /\ \A i : Erasing(i) => Erasing(i)'
         /\ \A i : Programming(i) => Programming(i)'
         /\ \A e, k : Clear(e, k) => Clear(e, k)'
  <1>1. ASSUME NEW i, Erasing(i) PROVE Erasing(i)'
    <2>1. Doing(Message("BER64", i * Block, "none"), i, 0, i + 1, 0)
      BY <1>1 DEF Erasing
    <2>2. Doing(Message("BER64", i * Block, "none"), i, 0, i + 1, 0)'
      BY <2>1, DoingKept
    <2> QED BY <2>2 DEF Erasing, Message, Block
  <1>2. ASSUME NEW i, Programming(i) PROVE Programming(i)'
    <2>1. PICK m : m = Message("PP", i, host.img[i])
      OBVIOUS
    <2>2. Doing(m, EraseCount + 1, i, EraseCount + 1, i + 1)
      BY <1>2, <2>1 DEF Programming
    <2>3. Doing(m, EraseCount + 1, i, EraseCount + 1, i + 1)'
      BY <2>2, DoingKept
    <2>4. m = Message("PP", i, host'.img[i])
      BY <2>1
    <2> QED BY <2>3, <2>4 DEF Programming, Message
  <1>3. ASSUME NEW e, NEW k, Clear(e, k) PROVE Clear(e, k)'
    BY <1>3, ClearKept
  <1> QED BY <1>1, <1>2, <1>3

LEMMA SessionKept ==
  ASSUME SessionParts, UNCHANGED SessionFrame
  PROVE  SessionParts'
  <1>1. UNCHANGED <<slots, pc, step, flash, host, wire, prevCmd, address>>
    BY DEF SessionFrame
  <1>2. /\ \A i : Erasing(i) => Erasing(i)'
        /\ \A i : Programming(i) => Programming(i)'
        /\ \A e, k : Clear(e, k) => Clear(e, k)'
    BY <1>1, StagesKept
  <1>3. \A c, p : Command(c, p)' = Command(c, p)
    BY <1>1 DEF Command, Rest, Half, Loaded
  <1> QED
    BY <1>1, <1>2, <1>3 DEF SessionParts, Arriving, Arrived

LEMMA ErasingMain ==
  ASSUME TypeInv, FlashInv, ~asleep, FlashCommand \/ QueueStep, UNCHANGED host,
         NEW i \in 0..EraseCount, Erasing(i)
  PROVE  Erasing(i)'
  <1> DEFINE m == Message("BER64", i * Block, "none")
  <1>1. m.cmd = "BER64"
    BY DEF Message
  <1>2. Current = m /\ (Erase \/ PageWrite) /\ Reached(i, 0) => Reached(i + 1, 0)'
    BY EraseReaches DEF PageWrite, Cmd, Message
  <1> HIDE DEF m
  <1>3. Doing(m, i, 0, i + 1, 0)
    BY DEF Erasing, m
  <1>4. Doing(m, i, 0, i + 1, 0)'
    BY <1>1, <1>2, <1>3, DoingMain
  <1> QED BY <1>4 DEF Erasing, m

LEMMA ProgrammingMain ==
  ASSUME TypeInv, FlashInv, ~asleep, FlashCommand \/ QueueStep, UNCHANGED host,
         NEW i \in ImagePages, Programming(i)
  PROVE  Programming(i)'
  <1>1. PICK m : m = Message("PP", i, host.img[i])
    OBVIOUS
  <1>2. m.cmd = "PP"
    BY <1>1 DEF Message
  <1>3. Current = m /\ (Erase \/ PageWrite) /\ Reached(EraseCount + 1, i)
          => Reached(EraseCount + 1, i + 1)'
    BY <1>1, <1>2, WriteReaches DEF Erase, Cmd, EraseCmds
  <1>4. Doing(m, EraseCount + 1, i, EraseCount + 1, i + 1)
    BY <1>1 DEF Programming
  <1>5. Doing(m, EraseCount + 1, i, EraseCount + 1, i + 1)'
    BY <1>2, <1>3, <1>4, DoingMain
  <1> QED BY <1>1, <1>5 DEF Programming

(* The main loop brings the flash to the next point.                       *)
LEMMA MainProgram ==
  ASSUME TypeInv, FlashInv, ~asleep, SessionParts, FlashCommand \/ QueueStep
  PROVE  SessionParts'
  <1>1. UNCHANGED <<host, wire, prevCmd, address>>
    BY DEF FlashCommand, Start, Wait, PageWrite, Erase, ReadPage, Plain,
           PowerMode, KeepWire, QueueStep, slaveVars, isr
  <1>2. /\ EraseCount \in Nat /\ Last \in Nat /\ host.i \in Nat
        /\ host.pc = "erase" => host.i <= EraseCount
        /\ host.pc \in {"pp", "ppdata"} => host.i <= Last
    BY SpanFacts DEF TypeInv, HostType
  <1>3. \A i \in 0..EraseCount : Erasing(i) => Erasing(i)'
    BY <1>1, ErasingMain
  <1>4. \A i \in ImagePages : Programming(i) => Programming(i)'
    BY <1>1, ProgrammingMain
  <1>5. \A e, k \in Nat : Clear(e, k) => Clear(e, k)'
    BY <1>1, ClearMain
  <1>6. /\ host.pc = "erase" => host.i \in 0..EraseCount
        /\ host.pc = "erase" /\ host.i > 0 => host.i - 1 \in 0..EraseCount
        /\ host.pc \in {"pp", "ppdata"} => host.i \in ImagePages
        /\ host.pc = "pp" /\ host.i # 0 => host.i - 1 \in ImagePages
        /\ Last \in ImagePages /\ EraseCount \in 0..EraseCount
        /\ EraseCount + 1 \in Nat /\ 0 \in Nat
    BY <1>2 DEF ImagePages
  <1> QED
    BY <1>1, <1>2, <1>3, <1>4, <1>5, <1>6
    DEF SessionParts, Arriving, Arrived, Command, Rest, Half, Loaded

(* The interrupt queues the command of the transfer.                       *)
LEMMA ReceiveProgram ==
  ASSUME TypeInv, SentInv, SessionParts, ~disturbed, ReceiveChunk
  PROVE  SessionParts'
  <1>1. /\ UNCHANGED <<host, txLeft, step, flash>> /\ wire # <<>> /\ wire' = Tail(wire)
        /\ host.busy /\ host.pc # "fetch" /\ host.pc # "idle" /\ host.i \in Nat
    BY DEF ReceiveChunk, tx, device, TypeInv, HostType, Sendings, Writes
  <1>2. txLeft = 0 /\ InTransfer
    BY <1>1 DEF SentInv, Undisturbed, TypeInv, DeviceType
  <1>3. KeepQueue => \A e, k : Clear(e, k) => Clear(e, k)'
    BY <1>1, ClearKept DEF KeepQueue, queueVars
  <1>4. CASE host.pc = "erase"
    <2>1. host.i \in 0..EraseCount /\ host.i * Block \in Pages
      BY <1>1, <1>4, SpanFacts, ErasedPage DEF TypeInv, HostType, Block
    <2>2. PICK p \in Pages : p = host.i * Block
      BY <2>1
    <2>3. Command("BER64", p) /\ Clear(host.i, 0)
      BY <1>1, <1>4, <2>2 DEF SessionParts, Arriving
    <2>4. "BER64" \in TwoByteCmds /\ "BER64" \in Cmds /\ "BER64" # "PP"
      BY DEF TwoByteCmds, EraseCmds, Cmds
    <2>5. CASE wire = WithAddress("BER64", p) /\ Rest
      <3>1. Head(wire) = CmdChunk("BER64") /\ wire' = <<AddrChunk(p)>>
        BY <1>1, <2>5, WireFacts DEF WithAddress
      <3>2. Half("BER64")' /\ KeepQueue
        BY <1>2, <2>4, <2>5, <3>1, CmdArrives
      <3>3. Clear(host.i, 0)'
        BY <1>1, <1>3, <2>3, <3>2
      <3>4. Command("BER64", p)'
        BY <3>1, <3>2 DEF Command
      <3> QED
        BY <1>1, <1>4, <2>2, <3>1, <3>3, <3>4, WireFacts DEF SessionParts, Arriving, Arrived
    <2>6. CASE wire = <<AddrChunk(p)>> /\ Half("BER64")
      <3>1. Head(wire) = AddrChunk(p) /\ wire' = <<>>
        BY <1>1, <2>6, WireFacts
      <3>2. Rest' /\ QueueParam(Message("BER64", p, "none"))
        BY <1>2, <2>4, <2>6, <3>1, AddrArrives
      <3>3. Message("BER64", p, "none") \in FlashMessages
        BY <2>4 DEF Message, FlashMessages, Addresses
      <3>4. Doing(Message("BER64", p, "none"), host.i, 0, host.i + 1, 0)'
        BY <1>1, <2>3, <3>2, <3>3, DoingAccepted
      <3>5. Erasing(host.i)'
        BY <1>1, <2>2, <3>4 DEF Erasing
      <3>6. Command("BER64", p)'
        BY <2>4, <3>1, <3>2 DEF Command
      <3> QED
        BY <1>1, <1>4, <2>2, <3>1, <3>5, <3>6 DEF SessionParts, Arriving, Arrived
    <2> QED BY <1>1, <2>3, <2>5, <2>6 DEF Command
  <1>5. CASE host.pc = "pp"
    <2>1. PICK p \in Pages : p = host.i
      BY <1>5, SpanFacts DEF TypeInv, HostType, ImagePages
    <2>2. Command("PP", p) /\ Clear(EraseCount + 1, host.i)
      BY <1>1, <1>2, <1>5, <2>1 DEF InTransfer, SessionParts
    <2>3. KeepQueue
      <3>1. CASE wire = WithAddress("PP", p) /\ Rest
        <4>1. Head(wire) = CmdChunk("PP")
          BY <3>1, WireFacts DEF WithAddress
        <4> QED BY <1>2, <3>1, <4>1, CmdArrives DEF Cmds
      <3>2. CASE wire = <<AddrChunk(p)>> /\ Half("PP")
        <4>1. Head(wire) = AddrChunk(p)
          BY <3>2, WireFacts
        <4> QED BY <1>2, <3>2, <4>1, AddrArrives
      <3> QED BY <1>1, <2>2, <3>1, <3>2 DEF Command
    <2>4. Clear(EraseCount + 1, host.i)'
      BY <1>1, <1>3, <2>2, <2>3
    <2> QED BY <1>1, <1>5, <2>4 DEF SessionParts
  <1>6. CASE host.pc = "ppdata"
    <2>1. wire = <<DataChunk(host.img[host.i])>> /\ Loaded(host.i)
      BY <1>1, <1>2, <1>6 DEF InTransfer
    <2>2. PICK p \in Pages, d \in Data : p = host.i /\ d = host.img[host.i]
      BY <1>6, SpanFacts, ImageAssumption DEF TypeInv, HostType, ImagePages
    <2>3. Head(wire) = DataChunk(d) /\ wire' = <<>>
      BY <1>1, <2>1, <2>2, WireFacts
    <2>4. QueueParam(Message("PP", p, d))
      BY <1>2, <2>1, <2>2, <2>3, DataArrives
    <2>5. Message("PP", p, d) \in FlashMessages
      BY DEF Message, FlashMessages, Addresses, Cmds
    <2>6. Clear(EraseCount + 1, p)
      BY <1>1, <1>6, <2>2 DEF SessionParts, Arrived
    <2>7. Doing(Message("PP", p, d), EraseCount + 1, p, EraseCount + 1, p + 1)'
      BY <1>1, <2>4, <2>5, <2>6, DoingAccepted
    <2>8. Programming(host.i)'
      BY <1>1, <2>2, <2>7 DEF Programming
    <2> QED BY <1>1, <1>6, <2>3, <2>8 DEF SessionParts, Arrived
  <1>7. CASE host.pc = "page_off"
    <2>1. wire = <<PageAccess(FALSE)>> /\ Programming(Last)
      BY <1>1, <1>7 DEF SessionParts
    <2>2. Head(wire) = PageAccess(FALSE) /\ wire' = <<>>
      BY <1>1, <2>1, WireFacts
    <2>3. KeepQueue
      BY <2>2 DEF ReceiveChunk, ReceiveCommand, ReceiveAccess, PageAccess
    <2>4. Programming(Last)'
      BY <1>1, <2>1, <2>3, DoingKept DEF Programming, KeepQueue, queueVars, main
    <2> QED BY <1>1, <1>7, <2>2, <2>4 DEF SessionParts
  <1>8. CASE host.pc \notin {"erase", "pp", "ppdata", "page_off"}
    BY <1>1, <1>8 DEF SessionParts
  <1> QED BY <1>4, <1>5, <1>6, <1>7, <1>8

(* The tool sends the next command to an empty queue, or there is a        *)
(* backlog.                                                                *)
LEMMA SendProgram ==
  ASSUME TypeInv, SentInv, SessionParts, ~disturbed, Send, ~backlog'
  PROVE  SessionParts'
  <1>1. /\ host.pc \in Writes /\ ~host.busy /\ wire = <<>> /\ i2cOn
        /\ host' = [host EXCEPT !.busy = TRUE, !.nak = ~i2cOn]
        /\ UNCHANGED <<prevCmd, address, slots, pc, step, flash>>
    BY DEF Send, TypeInv, HostType, SentInv, Undisturbed, isr, device, queueVars, main
  <1>2. /\ wire' = Chunks
        /\ host.pc \in {"erase", "pp", "ppdata"} => Occupied = {}
    BY <1>1 DEF Send
  <1>3. /\ host'.pc = host.pc /\ host'.i = host.i /\ host'.img = host.img /\ host'.busy
        /\ host'.result = host.result
    BY <1>1 DEF TypeInv, HostType
  <1>4. PICK j : j = host.i /\ j \in Nat
    BY DEF TypeInv, HostType
  <1>5. /\ \A i : Programming(i) => Programming(i)'
        /\ \A e, k : Clear(e, k) => Clear(e, k)'
    BY <1>1, <1>3, StagesKept
  <1>6. host.result # "programmed"
    BY <1>1 DEF SessionParts, Writes
  <1>7. j > 0 => j - 1 + 1 = j
    BY <1>4
  <1>8. CASE host.pc = "erase"
    <2>1. Clear(j, 0)
      <3>1. CASE j > 0
        <4>1. Erasing(j - 1)
          BY <1>1, <1>4, <1>8, <3>1 DEF SessionParts
        <4>2. Clear(j - 1 + 1, 0)
          BY <1>2, <1>8, <4>1, DoneIsClear DEF Erasing
        <4> QED BY <1>7, <3>1, <4>2
      <3>2. CASE j = 0
        <4>1. \A q \in ImagePages : ~(q < 0) /\ ~(q \div Block < 0)
          BY SpanFacts, BlockFacts DEF ImagePages
        <4> QED BY <1>2, <1>8, <3>2, <4>1 DEF Clear, Reached
      <3> QED BY <1>4, <3>1, <3>2
    <2>2. Clear(j, 0)'
      BY <1>5, <2>1
    <2>3. Rest
      BY <1>1, <1>8, IdleRests DEF SentInv, Undisturbed, TypeInv
    <2>4. Chunks = WithAddress("BER64", j * Block)
      BY <1>4, <1>8 DEF Chunks, Block
    <2>5. Command("BER64", j * Block)'
      BY <1>1, <1>2, <2>3, <2>4 DEF Command, Rest, WithAddress, CmdChunk, AddrChunk
    <2>6. wire' # <<>>
      BY <1>2, <2>4, WireFacts DEF WithAddress
    <2> QED BY <1>3, <1>4, <1>6, <1>8, <2>2, <2>5, <2>6 DEF SessionParts, Arriving, Arrived
  <1>9. CASE host.pc = "pp"
    <2>1. Clear(EraseCount + 1, j)
      <3>1. CASE j = 0
        <4>1. Erasing(EraseCount)
          BY <1>1, <1>4, <1>9, <3>1 DEF SessionParts
        <4> QED BY <1>2, <1>9, <3>1, <4>1, DoneIsClear DEF Erasing
      <3>2. CASE j # 0
        <4>1. Programming(j - 1)
          BY <1>1, <1>4, <1>9, <3>2 DEF SessionParts
        <4>2. Clear(EraseCount + 1, j - 1 + 1)
          BY <1>2, <1>9, <4>1, DoneIsClear DEF Programming
        <4> QED BY <1>4, <1>7, <3>2, <4>2
      <3> QED BY <3>1, <3>2
    <2>2. Clear(EraseCount + 1, j)'
      BY <1>5, <2>1
    <2> QED BY <1>3, <1>4, <1>6, <1>9, <2>2 DEF SessionParts
  <1>10. CASE host.pc = "ppdata"
    <2>1. Clear(EraseCount + 1, j)
      BY <1>1, <1>4, <1>10 DEF SessionParts, Arrived
    <2>2. Clear(EraseCount + 1, j)'
      BY <1>5, <2>1
    <2>3. Chunks = <<DataChunk(host.img[host.i])>>
      BY <1>10 DEF Chunks
    <2>4. wire' # <<>>
      BY <1>2, <2>3, WireFacts
    <2> QED BY <1>3, <1>4, <1>6, <1>10, <2>2, <2>4 DEF SessionParts, Arrived
  <1>11. CASE host.pc = "page_off"
    <2>1. Programming(Last)'
      BY <1>5, <1>11 DEF SessionParts
    <2>2. Chunks = <<PageAccess(FALSE)>>
      BY <1>11 DEF Chunks
    <2> QED BY <1>2, <1>3, <1>6, <1>11, <2>1, <2>2 DEF SessionParts
  <1>12. CASE host.pc \notin {"erase", "pp", "ppdata", "page_off"}
    BY <1>3, <1>6, <1>12 DEF SessionParts
  <1> QED BY <1>8, <1>9, <1>10, <1>11, <1>12

(* The transfer is over: the next one belongs to the next block or page.   *)
LEMMA ReturnProgram ==
  ASSUME TypeInv, SessionParts, Return
  PROVE  SessionParts'
  <1>1. /\ host.busy /\ wire = <<>> /\ host.pc \in Sendings /\ wire' = <<>>
        /\ UNCHANGED <<slots, pc, step, flash>>
        /\ EraseCount \in Nat /\ Last \in Nat
    BY SpanFacts DEF Return, TypeInv, HostType, slaveVars, queueVars, main, device
  <1>2. host'.img = host.img /\ ~host'.busy
    BY <1>1 DEF Return, Goto, End, TypeInv, HostType, Sendings, Writes
  <1>3. /\ \A i : Erasing(i) => Erasing(i)'
        /\ \A i : Programming(i) => Programming(i)'
        /\ \A e, k : Clear(e, k) => Clear(e, k)'
    BY <1>1, <1>2, StagesKept
  <1>4. PICK j : j = host.i /\ j \in Nat
    BY DEF TypeInv, HostType
  <1>5. host.result # "programmed" /\ j + 1 - 1 = j /\ j + 1 > 0
    BY <1>1, <1>4 DEF SessionParts, Sendings, Writes
  <1>6. CASE host.pc = "erase"
    <2>1. Erasing(j)'
      BY <1>1, <1>3, <1>4, <1>6 DEF SessionParts, Arrived
    <2>2. CASE host.i < EraseCount
      <3>1. host' = Goto("erase", host.i + 1)
        BY <1>6, <2>2 DEF Return
      <3>2. host'.pc = "erase" /\ host'.i = j + 1 /\ host'.result # "programmed"
        BY <1>4, <1>5, <3>1 DEF Goto, TypeInv, HostType
      <3>3. host'.i - 1 = j
        BY <1>4, <3>2
      <3> QED BY <1>2, <2>1, <3>2, <3>3 DEF SessionParts, Arriving, Arrived
    <2>3. CASE ~(host.i < EraseCount)
      <3>1. host' = Goto("pp", 0) /\ j = EraseCount
        BY <1>1, <1>4, <1>6, <2>3 DEF Return, TypeInv, HostType
      <3>2. host'.pc = "pp" /\ host'.i = 0 /\ host'.result # "programmed"
        BY <1>5, <3>1 DEF Goto, TypeInv, HostType
      <3> QED BY <1>2, <2>1, <3>1, <3>2 DEF SessionParts
    <2> QED BY <2>2, <2>3
  <1>7. CASE host.pc = "pp"
    <2>1. host' = [Goto("ppdata", host.i) EXCEPT !.failed = host.nak]
      BY <1>7 DEF Return
    <2>2. host'.pc = "ppdata" /\ host'.i = j /\ host'.result # "programmed"
      BY <1>4, <1>5, <2>1 DEF Goto, TypeInv, HostType
    <2>3. Clear(EraseCount + 1, j)'
      BY <1>1, <1>3, <1>4, <1>7 DEF SessionParts
    <2> QED BY <1>2, <2>2, <2>3 DEF SessionParts, Arrived
  <1>8. CASE host.pc = "ppdata"
    <2>1. Programming(j)' /\ j <= Last
      BY <1>1, <1>3, <1>4, <1>8 DEF SessionParts, Arrived, TypeInv, HostType
    <2>2. CASE host' = End("failed")
      <3>1. host'.pc = "idle" /\ host'.result = "failed"
        BY <2>2 DEF End, Goto, TypeInv, HostType
      <3> QED BY <3>1 DEF SessionParts
    <2>3. CASE host' = Goto("pp", host.i + 1)
      <3>1. host'.pc = "pp" /\ host'.i = j + 1 /\ host'.result # "programmed"
        BY <1>4, <1>5, <2>3 DEF Goto, TypeInv, HostType
      <3>2. host'.i - 1 = j /\ host'.i # 0
        BY <1>4, <3>1
      <3> QED BY <1>2, <2>1, <3>1, <3>2 DEF SessionParts
    <2>4. CASE host' = Goto("page_off", 0) /\ ~(host.i < Last)
      <3>1. host'.pc = "page_off" /\ host'.result # "programmed"
        BY <1>5, <2>4 DEF Goto, TypeInv, HostType
      <3>2. j = Last
        BY <1>1, <1>4, <2>1, <2>4
      <3> QED BY <1>1, <2>1, <3>1, <3>2 DEF SessionParts
    <2> QED BY <1>8, <2>2, <2>3, <2>4 DEF Return
  <1>9. CASE host.pc = "page_off"
    <2>1. host' = End("programmed")
      BY <1>9 DEF Return
    <2>2. host'.pc = "idle"
      BY <2>1 DEF End, Goto, TypeInv, HostType
    <2>3. Programming(Last)'
      BY <1>3, <1>9 DEF SessionParts
    <2> QED BY <2>2, <2>3 DEF SessionParts
  <1>10. CASE host.pc \notin {"erase", "pp", "ppdata", "page_off"}
    <2>1. /\ host'.pc \in {"erase", "quiet", "read", "fetch", "crc_off", "idle"}
          /\ host'.pc = "erase" => host'.i = 0
          /\ host'.result # "programmed"
      BY <1>1, <1>5, <1>10 DEF Return, Goto, End, TypeInv, HostType, Sendings, Writes
    <2>2. host'.i > 0 => host'.pc # "erase"
      BY <2>1
    <2> QED BY <1>2, <2>1, <2>2 DEF SessionParts, Arriving, Arrived
  <1> QED BY <1>6, <1>7, <1>8, <1>9, <1>10

(* The CRC session and the operator do not program.                        *)
LEMMA OtherToolProgram ==
  ASSUME TypeInv, SessionParts, StartProgram \/ StartCrc \/ Single \/ Fetch
  PROVE  SessionParts'
  <1>1. /\ host'.pc \in {"page_on", "crc_on", "single", "fetch", "read", "loud"}
        /\ host'.result # "programmed"
    <2>1. CASE Fetch
      BY <2>1 DEF Fetch, Goto, TypeInv, HostType, SessionParts
    <2>2. CASE StartProgram \/ StartCrc \/ Single
      BY <2>2 DEF StartProgram, StartCrc, Begin, Single, TypeInv, HostType
    <2> QED BY <2>1, <2>2
  <1> QED BY <1>1 DEF SessionParts

LEMMA AwakeNext == Awake /\ SentInv /\ [Next]_vars => Awake'
  <1> SUFFICES ASSUME Awake, SentInv, [Next]_vars, ~disturbed' PROVE ~asleep'
    BY DEF Awake
  <1>1. ~disturbed
    BY HistoryGrows
  <1>2. CASE PowerMode
    BY <1>2 DEF PowerMode
  <1>3. CASE UNCHANGED asleep
    BY <1>1, <1>3 DEF Awake
  <1>4. CASE FlashCommand /\ ~PowerMode
    BY <1>3, <1>4 DEF FlashCommand, Start, Wait, PageWrite, Erase, ReadPage, Plain, device
  <1>5. CASE QueueStep \/ Restart \/ Interrupt \/ SlaveTimeout \/ FlashDone
    BY <1>3, <1>5 DEF QueueStep, Restart, Interrupt, ReceiveChunk, WatchdogIrq,
                      SlaveTimeout, FlashDone, device
  <1>6. CASE Tool
    BY <1>3, <1>6 DEF Tool, StartProgram, StartCrc, Begin, Single, Send, Return, Fetch, Abort, device
  <1> QED
    BY <1>2, <1>3, <1>4, <1>5, <1>6 DEF Next, MainLoop, vars, device

LEMMA ProgramInvNext ==
  TypeInv /\ SentInv /\ FlashInv /\ Awake /\ ProgramInv /\ [Next]_vars => ProgramInv'
  <1> SUFFICES ASSUME TypeInv, SentInv, FlashInv, Awake, ProgramInv, [Next]_vars,
                      ~disturbed', ~backlog'
               PROVE  SessionParts'
    BY DEF ProgramInv
  <1>1. ~disturbed
    BY HistoryGrows
  <1>2. ~backlog
    BY HistoryGrows
  <1>3. SessionParts /\ ~asleep /\ ~Restart /\ ~WatchdogIrq /\ ~Abort
    BY <1>1, <1>2 DEF ProgramInv, Awake, Restart, WatchdogIrq, Abort, SentInv, Undisturbed
  <1>4. CASE UNCHANGED SessionFrame
    BY <1>3, <1>4, SessionKept
  <1>5. CASE UNCHANGED vars \/ SlaveTimeout \/ FlashDone
    <2>1. UNCHANGED SessionFrame
      BY <1>5 DEF SlaveTimeout, FlashDone, vars, SessionFrame, queueVars, main, isr,
                  slaveVars, device
    <2> QED BY <1>4, <2>1
  <1> QED
    BY <1>1, <1>3, <1>5, MainProgram, ReceiveProgram, SendProgram, ReturnProgram, OtherToolProgram
    DEF Next, MainLoop, Interrupt, Tool

(* A tool that reports the image programmed has programmed it: once the    *)
(* queue is empty every page of the image is in the flash, erased before   *)
(* and written once, provided that no transfer was sent while commands     *)
(* waited, none was lost and no session was cut short.                     *)
THEOREM ProgrammedWritten == Spec => []ProgrammedIsWritten
  <1>1. Init => SentInv /\ Awake /\ ProgramInv
    BY WireFacts
    DEF Init, QueueInit, SentInv, PagesAsSent, Occupied, Undisturbed, InTransfer, Rest, Awake,
        ProgramInv, SessionParts
  <1>2. ProgramInv => ProgrammedIsWritten
    <2> SUFFICES ASSUME ProgramInv, host.result = "programmed", ~backlog, ~disturbed,
                        Occupied = {}, NEW p \in ImagePages
                 PROVE  flash[p] = host.img[p]
      BY DEF ProgrammedIsWritten
    <2>1. Programming(Last)
      BY DEF ProgramInv, SessionParts
    <2>2. Reached(EraseCount + 1, Last + 1)
      BY <2>1 DEF Programming, Doing
    <2>3. p < Last + 1
      BY SpanFacts DEF ImagePages
    <2> QED BY <2>2, <2>3 DEF Reached
  <1> QED
    BY <1>1, <1>2, TypeInvInit, TypeInvNext, SentInvNext, FlashInvInit, FlashInvNext,
       AwakeNext, ProgramInvNext, PTL DEF Spec

-----------------------------------------------------------------------------
(* What is reported to match.                                              *)

(* A command that leaves the modelled pages as they are.                   *)
Harmless(m) == m.cmd \notin Changing \/ (m.cmd # "CER" /\ m.page = Elsewhere)
Quiet == \A i \in Occupied : Harmless(slots[i])

(* The first k pages are in the flash, and nothing waits that could change *)
(* them.                                                                   *)
Held(k) == Quiet /\ \A p \in ImagePages : p < k => flash[p] = host.img[p]

Comparing == {"crc_on", "quiet", "read", "fetch", "loud", "crc_off"}
ReadOnly == {"VERBOSE", "READ"}

(* A CRC session sends nothing harmful, and what it sends does not complete *)
(* a command left over from an earlier session: the command byte alone has  *)
(* completed or spoilt it before the address arrives.                       *)
Mild ==
  \/ wire = <<>>
  \/ \E b \in BOOLEAN : wire = <<PageAccess(b)>>
  \/ \E c \in ReadOnly, p \in Pages : wire = WithAddress(c, p)
  \/ /\ \E p \in Pages : wire = <<AddrChunk(p)>>
     /\ prevCmd \in ReadOnly \cup {NoCmd} \/ expected = 256 \/ txLeft # 0

(* The slave is off between the end of the main loop and the next start;   *)
(* a READ under way was not answered before it was sent.                   *)
WireInv ==
  /\ ~mainLoop => ~i2cOn /\ wire = <<>>
  /\ host.pc \in Comparing => Mild
  /\ host.pc = "read" /\ host.busy => ~answered
  /\ host.result = "match" => Idle

(* How much of the image has been compared.                                *)
Compared ==
  /\ host.pc \in {"read", "fetch"} /\ host.i > 0 => Held(host.i)
  /\ host.pc = "fetch" /\ answered
       => Quiet /\ spiPage \in {flash[host.i], Torn, Noise}
  /\ host.pc = "fetch" /\ host.part = 2 => Held(host.i + 1)
  /\ host.pc \in {"loud", "crc_off"} => Held(Last + 1)

(* The invariant of MatchMeansWritten.                                     *)
VerdictInv ==
  ~stale => /\ host.good => Compared
            /\ host.result = "match" => Held(Last + 1)

LEMMA QuietAccepts ==
  ASSUME SlotType, Quiet, NEW m, Harmless(m), QueueParam(m)
  PROVE  Quiet'
  <1>1. CASE UNCHANGED queueVars
    BY <1>1 DEF queueVars, Quiet, Occupied
  <1>2. CASE Accept(m)
    <2>1. PICK i \in Slots : slots' = [slots EXCEPT ![i] = m]
      BY <1>2 DEF Accept
    <2>2. \A j \in Slots : slots'[j] = IF j = i THEN m ELSE slots[j]
      BY <2>1 DEF SlotType, QueueTypeOK
    <2> QED BY <2>2 DEF Quiet, Occupied
  <1> QED BY <1>1, <1>2 DEF QueueParam, Drop, KeepQueue

(* The chunks of a CRC session, in whatever state a session before it has  *)
(* left the decoder.                                                       *)
LEMMA MildArrives ==
  ASSUME TypeInv, Mild, ReceiveChunk
  PROVE  Mild' /\ (Quiet => Quiet')
  <1>1. wire # <<>> /\ wire' = Tail(wire) /\ UNCHANGED txLeft
    BY DEF ReceiveChunk, tx
  <1>2. KeepQueue => (Quiet => Quiet')
    BY DEF KeepQueue, queueVars, Quiet, Occupied
  <1>3. /\ InStep /\ expected \in {0, 2, 256} /\ txLeft \in 0..1
        /\ prevCmd \in TwoByteCmds \cup {"PP", NoCmd}
        /\ prevCmd = "PP" /\ address # Marker => expected = 256
    BY DEF TypeInv, DecoderType, DeviceType
  <1>4. ASSUME Head(wire).kind # "access", txLeft # 0 \/ TooFew(Head(wire))
        PROVE  KeepQueue /\ UNCHANGED <<prevCmd, expected>>
    BY <1>3, <1>4 DEF ReceiveChunk, ReceiveCommand, ReceiveAccess, KeepParser
  <1>5. ReadOnly \subseteq TwoByteCmds /\ ReadOnly \subseteq Cmds /\ "PP" \notin ReadOnly
    BY DEF ReadOnly, TwoByteCmds, Cmds
  <1>6. CASE \E b \in BOOLEAN : wire = <<PageAccess(b)>>
    <2>1. PICK b \in BOOLEAN : wire = <<PageAccess(b)>>
      BY <1>6
    <2>2. Head(wire) = PageAccess(b) /\ wire' = <<>>
      BY <1>1, <2>1, WireFacts
    <2>3. KeepQueue
      BY <2>2 DEF ReceiveChunk, ReceiveCommand, ReceiveAccess, PageAccess
    <2> QED BY <1>2, <2>2, <2>3 DEF Mild
  <1>7. CASE \E c \in ReadOnly, p \in Pages : wire = WithAddress(c, p)
    <2>1. PICK c \in ReadOnly, p \in Pages : wire = WithAddress(c, p)
      BY <1>7
    <2>2. Head(wire) = CmdChunk(c) /\ wire' = <<AddrChunk(p)>>
      BY <1>1, <2>1, WireFacts DEF WithAddress
    <2>3. CmdChunk(c).kind = "cmd" /\ CmdChunk(c).cmd = c
      BY DEF CmdChunk
    <2>4. SUFFICES /\ prevCmd' \in ReadOnly \cup {NoCmd} \/ expected' = 256 \/ txLeft' # 0
                   /\ Quiet => Quiet'
      BY <2>2 DEF Mild
    <2>5. CASE txLeft # 0 \/ expected = 256
      BY <1>1, <1>2, <1>4, <2>2, <2>3, <2>5 DEF TooFew
    <2>6. CASE txLeft = 0 /\ expected = 0
      <3>1. Rest
        BY <1>3, <2>6 DEF InStep, Rest
      <3>2. Half(c)' /\ KeepQueue
        BY <1>5, <2>2, <2>6, <3>1, CmdArrives
      <3> QED BY <1>2, <3>2 DEF Half
    <2>7. CASE txLeft = 0 /\ expected = 2
      <3>1. Complete(CmdChunk(c))
        BY <2>2, <2>3, <2>7 DEF ReceiveChunk, ReceiveCommand, ReceiveAccess, TooFew
      <3>2. SecondPart(CmdChunk(c)) /\ prevCmd # NoCmd
        BY <1>3, <2>3, <2>7, <3>1 DEF Complete, Misread, ByteWrite2SPI, InStep
      <3>3. PageOf(CmdChunk(c)) = Elsewhere
        BY <2>3 DEF PageOf
      <3>4. CASE prevCmd = "PP"
        BY <1>2, <1>3, <2>7, <3>2, <3>4 DEF SecondPart, Await
      <3>5. CASE prevCmd # "PP"
        <4>1. /\ QueueParam(Message(prevCmd, Elsewhere, DataOf(CmdChunk(c))))
              /\ prevCmd' = NoCmd
          BY <3>2, <3>3, <3>5 DEF SecondPart, TargetOf
        <4>2. Harmless(Message(prevCmd, Elsewhere, DataOf(CmdChunk(c))))
          BY <1>3, <3>2, <3>5 DEF Harmless, Message, TwoByteCmds, EraseCmds
        <4> QED BY <4>1, <4>2, QuietAccepts DEF TypeInv
      <3> QED BY <3>4, <3>5
    <2> QED BY <1>3, <2>5, <2>6, <2>7
  <1>8. CASE \E p \in Pages : wire = <<AddrChunk(p)>>
    <2>1. PICK p \in Pages : wire = <<AddrChunk(p)>>
      BY <1>8
    <2>2. Head(wire) = AddrChunk(p) /\ wire' = <<>>
      BY <1>1, <2>1, WireFacts
    <2>3. AddrChunk(p).kind = "addr"
      BY DEF AddrChunk
    <2>4. Mild'
      BY <2>2 DEF Mild
    <2>5. CASE txLeft # 0 \/ expected = 256
      BY <1>2, <1>4, <2>2, <2>3, <2>4, <2>5 DEF TooFew
    <2>6. CASE txLeft = 0 /\ prevCmd \in ReadOnly
      <3>1. Half(prevCmd) /\ prevCmd # "PP"
        BY <1>5, <2>6 DEF Half
      <3>2. QueueParam(Message(prevCmd, p, "none"))
        BY <1>5, <2>2, <2>6, <3>1, AddrArrives
      <3>3. Harmless(Message(prevCmd, p, "none"))
        BY <2>6 DEF Harmless, Message, ReadOnly, Changing, EraseCmds
      <3> QED BY <2>4, <3>2, <3>3, QuietAccepts DEF TypeInv
    <2>7. CASE txLeft = 0 /\ prevCmd = NoCmd
      <3>1. expected = 0
        BY <1>3, <2>7 DEF InStep
      <3>2. Complete(AddrChunk(p))
        BY <2>2, <2>3, <2>7, <3>1 DEF ReceiveChunk, ReceiveCommand, ReceiveAccess, TooFew
      <3>3. KeepQueue
        BY <2>3, <3>1, <3>2 DEF Complete, Misread
      <3> QED BY <1>2, <2>4, <3>3
    <2>8. prevCmd \in ReadOnly \cup {NoCmd} \/ expected = 256 \/ txLeft # 0
      BY <2>1, WireFacts DEF Mild, PageAccess, AddrChunk, WithAddress
    <2> QED BY <1>3, <2>5, <2>6, <2>7, <2>8
  <1> QED BY <1>1, <1>6, <1>7, <1>8 DEF Mild

(* With nothing harmful in the queue the main loop leaves the flash alone. *)
LEMMA QuietMain ==
  ASSUME TypeInv, FlashInv, Quiet, QueueStep \/ FlashCommand
  PROVE  Quiet' /\ flash' = flash
  <1>1. CASE QueueStep
    <2>1. \A i \in Slots : slots'[i] \in {slots[i], Empty}
      BY <1>1 DEF QueueStep, Select, Poll, SelectNext, Scan, Run, Release, TypeInv,
                  SlotType, QueueTypeOK
    <2> QED BY <1>1, <2>1 DEF QueueStep, device, Quiet, Occupied
  <1>2. CASE FlashCommand
    <2>1. UNCHANGED slots
      BY <1>2 DEF FlashCommand, Start, Wait, PageWrite, Erase, ReadPage, ReadFlash, CopyPage,
                  Plain, PowerMode, Finish, Execute, queueVars
    <2>2. pc = "exec" => Harmless(Current)
      BY DEF FlashInv, Executing, Quiet, Occupied, Current
    <2>3. Elsewhere \notin Pages /\ flash \in [Pages -> Contents]
      BY SpanFacts DEF TypeInv, DeviceType
    <2> SUFFICES flash' = flash
      BY <2>1 DEF Quiet, Occupied
    <2>4. CASE PageWrite
      BY <2>2, <2>3, <2>4 DEF PageWrite, At, Harmless, Changing, Page, Cmd
    <2>5. CASE Erase
      <3>1. Cmd \in EraseCmds \cup {"CER"} /\ Harmless(Current)
        BY <2>2, <2>5 DEF Erase, At
      <3>2. Cmd # "CER" /\ Page = Elsewhere
        BY <3>1 DEF Harmless, Changing, Cmd, Page
      <3>3. Wipe({})
        BY <2>5, <3>2 DEF Erase, ErasedBy
      <3>4. [p \in Pages |-> IF p \in {} THEN "erased" ELSE flash[p]] = flash
        BY <2>3
      <3> QED BY <3>3, <3>4 DEF Wipe
    <2>6. CASE ~PageWrite /\ ~Erase
      BY <1>2, <2>6 DEF FlashCommand, Start, Wait, ReadPage, Plain, PowerMode, device
    <2> QED BY <2>4, <2>5, <2>6
  <1> QED BY <1>1, <1>2

(* Where the tool is and what it has compared.                             *)
Verdicts == <<host.pc, host.i, host.part, host.img, host.good, host.result>>

LEMMA VerdictKept ==
  ASSUME VerdictInv, UNCHANGED Verdicts, Quiet => Quiet' /\ flash' = flash,
         answered' => answered, spiPage' \in {spiPage, Torn, Noise}, stale => stale'
  PROVE  VerdictInv'
  <1>1. \A k : Held(k) => Held(k)'
    BY DEF Held, Verdicts
  <1>2. Compared => Compared'
    BY <1>1 DEF Compared, Verdicts
  <1> QED BY <1>1, <1>2 DEF VerdictInv, Verdicts

LEMMA CommandVerdict ==
  ASSUME TypeInv, FlashInv, VerdictInv, FlashCommand
  PROVE  VerdictInv'
  <1>1. Quiet => Quiet' /\ flash' = flash
    BY QuietMain
  <1>2. UNCHANGED <<host, stale>>
    BY DEF FlashCommand, Start, Wait, PageWrite, Erase, ReadPage, Plain, PowerMode, KeepWire, hist
  <1>3. CASE ~CopyPage
    <2>1. answered' = answered /\ spiPage' \in {spiPage, Torn}
      BY <1>3 DEF FlashCommand, Start, Wait, PageWrite, Erase, ReadPage, ReadFlash, Plain,
                  PowerMode, device, hist
    <2> QED BY <1>1, <1>2, <2>1, VerdictKept DEF Verdicts
  <1>4. CASE CopyPage
    <2>1. \A k : Held(k) => Held(k)'
      BY <1>1, <1>2 DEF Held
    <2>2. UNCHANGED <<slots, flash>>
      BY <1>4 DEF CopyPage, At, Finish, Execute, FlashCommand, Start, Wait, PageWrite, Erase,
                  ReadPage, ReadFlash, Plain, PowerMode, device
    <2>3. answered' => Quiet' /\ spiPage' \in {flash'[host'.i], Torn, Noise}
      BY <1>2, <1>4, <2>2 DEF CopyPage, Quiet, Harmless, Occupied
    <2>4. Compared => Compared'
      BY <1>2, <2>1, <2>3 DEF Compared
    <2> QED BY <1>2, <2>1, <2>4 DEF VerdictInv
  <1> QED BY <1>3, <1>4

LEMMA ReturnVerdict ==
  ASSUME TypeInv, WireInv, VerdictInv, Return
  PROVE  VerdictInv'
  <1>1. /\ host.busy /\ host.pc \in Sendings
        /\ UNCHANGED <<slots, flash, answered, stale>>
    BY DEF Return, TypeInv, HostType, queueVars, device, hist
  <1>2. host'.img = host.img /\ host.result # "match" /\ Last \in Nat
    BY <1>1, SpanFacts DEF Return, Goto, End, TypeInv, HostType, WireInv, Idle, Sendings, Writes
  <1>3. \A k : Held(k) => Held(k)'
    BY <1>1, <1>2 DEF Held, Quiet, Occupied
  <1>4. SUFFICES ASSUME ~stale
                 PROVE  /\ host'.good => Compared'
                        /\ host'.result = "match" => Held(Last + 1)'
    BY <1>1 DEF VerdictInv
  <1>5. CASE host.pc \in {"crc_on", "quiet"}
    <2>1. host' = Goto("quiet", 0) \/ host' = Goto("read", 0)
      BY <1>5 DEF Return
    <2>2. host'.pc \in {"quiet", "read"} /\ host'.i = 0 /\ host'.result # "match"
      BY <1>2, <2>1 DEF Goto, TypeInv, HostType
    <2> QED BY <2>2 DEF Compared
  <1>6. CASE host.pc = "read"
    <2>1. host' = [Goto("fetch", host.i) EXCEPT !.part = 1]
      BY <1>6 DEF Return
    <2>2. /\ host'.pc = "fetch" /\ host'.i = host.i /\ host'.part = 1
          /\ host'.result # "match" /\ host'.good = host.good
      BY <1>2, <2>1 DEF Goto, TypeInv, HostType
    <2>3. ~answered'
      BY <1>1, <1>6 DEF WireInv
    <2>4. PICK j : j = host.i
      OBVIOUS
    <2>5. host.good /\ j > 0 => Held(j)'
      BY <1>3, <1>4, <1>6, <2>4 DEF VerdictInv, Compared
    <2> QED BY <2>2, <2>3, <2>4, <2>5 DEF Compared
  <1>7. CASE host.pc = "loud"
    <2>1. host' = Goto("crc_off", 0)
      BY <1>7 DEF Return
    <2>2. host'.pc = "crc_off" /\ host'.result # "match" /\ host'.good = host.good
      BY <1>2, <2>1 DEF Goto, TypeInv, HostType
    <2>3. host.good => Held(Last + 1)'
      BY <1>3, <1>4, <1>7 DEF VerdictInv, Compared
    <2> QED BY <2>2, <2>3 DEF Compared
  <1>8. CASE host.pc = "crc_off"
    <2>1. host' = End(IF host.good THEN "match" ELSE "nomatch")
      BY <1>8 DEF Return
    <2>2. host'.pc = "idle" /\ host'.result = IF host.good THEN "match" ELSE "nomatch"
      BY <2>1 DEF End, Goto, TypeInv, HostType
    <2>3. host.good => Held(Last + 1)'
      BY <1>3, <1>4, <1>8 DEF VerdictInv, Compared
    <2> QED BY <2>2, <2>3 DEF Compared
  <1>9. CASE host.pc \notin Comparing
    <2>1. host'.pc \in {"erase", "pp", "ppdata", "page_off", "idle"} /\ host'.result # "match"
      BY <1>1, <1>2, <1>9
      DEF Return, Goto, End, TypeInv, HostType, Sendings, Writes, Comparing
    <2> QED BY <2>1 DEF Compared
  <1> QED BY <1>1, <1>5, <1>6, <1>7, <1>8, <1>9 DEF Comparing, Sendings, Writes

LEMMA FetchVerdict ==
  ASSUME TypeInv, WireInv, VerdictInv, Fetch
  PROVE  VerdictInv'
  <1> DEFINE fresh == i2cOn /\ txLeft = 0
             sent == IF fresh THEN [page |-> spiPage, part |-> 1]
                     ELSE [page |-> txBuf, part |-> 2]
             got == i2cOn /\ (pageTx \/ txLeft > 0)
             same == got /\ sent = [page |-> host.img[host.i], part |-> host.part]
             next == IF host.part = 1 THEN [host EXCEPT !.part = 2]
                     ELSE IF host.i < Last THEN Goto("read", host.i + 1)
                     ELSE [Goto("loud", 0) EXCEPT !.part = 1]
  <1>1. /\ host.pc = "fetch" /\ host' = [next EXCEPT !.good = Verdict(same)]
        /\ stale' = (stale \/ (fresh /\ ~answered))
        /\ UNCHANGED <<slots, flash, spiPage, answered>>
    BY DEF Fetch, TransmitEvent, queueVars, device
  <1>2. PICK j : j = host.i /\ j \in Nat /\ j <= Last /\ j \in ImagePages /\ Last \in Nat
    BY <1>1, SpanFacts DEF TypeInv, HostType, ImagePages
  <1>3. sent.part = (IF fresh THEN 1 ELSE 2) /\ (fresh => sent.page = spiPage)
    OBVIOUS
  <1>4. same => sent.page = host.img[host.i] /\ sent.part = host.part
    OBVIOUS
  <1> HIDE DEF fresh, sent, got, same
  <1>5. /\ host'.img = host.img /\ host'.good = (host.good /\ same) /\ host'.result = host.result
        /\ host.part = 1 => host'.pc = "fetch" /\ host'.i = j /\ host'.part = 2
        /\ host.part # 1 /\ j < Last => host'.pc = "read" /\ host'.i = j + 1
        /\ host.part # 1 /\ ~(j < Last) => host'.pc = "loud"
    BY <1>1, <1>2 DEF Verdict, Goto, TypeInv, HostType
  <1> HIDE DEF next
  <1>6. \A k : Held(k) => Held(k)'
    BY <1>1, <1>5 DEF Held, Quiet, Occupied
  <1>7. host'.result # "match"
    BY <1>1, <1>5 DEF WireInv, Idle
  <1>8. SUFFICES ASSUME ~stale', host'.good PROVE Compared'
    BY <1>7 DEF VerdictInv
  <1>9. Compared /\ same /\ host.good
    BY <1>1, <1>5, <1>8 DEF VerdictInv
  <1>10. CASE host.part = 1
    <2>1. answered /\ spiPage = host.img[j]
      <3>1. fresh /\ sent.page = spiPage /\ sent.page = host.img[j]
        BY <1>2, <1>3, <1>4, <1>9, <1>10
      <3>2. ~(stale \/ (fresh /\ ~answered))
        BY <1>1, <1>8
      <3> QED BY <3>1, <3>2
    <2>2. host.img[j] \in Data /\ Torn \notin Data /\ Noise \notin Data
      BY <1>2, ImageAssumption DEF TypeInv, HostType
    <2>3. Quiet /\ flash[j] = host.img[j]
      BY <1>1, <1>2, <1>9, <2>1, <2>2 DEF Compared
    <2>4. \A p \in ImagePages : p < j => flash[p] = host.img[p]
      <3>1. CASE j = 0
        BY <3>1 DEF ImagePages
      <3>2. CASE j > 0
        BY <1>1, <1>2, <1>9, <3>2 DEF Compared, Held
      <3> QED BY <1>2, <3>1, <3>2
    <2>5. Held(j + 1)
      <3>1. \A p \in ImagePages : p < j + 1 => p < j \/ p = j
        BY <1>2 DEF ImagePages
      <3> QED BY <2>3, <2>4, <3>1 DEF Held
    <2>6. Held(j)
      BY <2>3, <2>4 DEF Held
    <2>7. Held(j)' /\ Held(j + 1)'
      BY <1>6, <2>5, <2>6
    <2>8. Quiet' /\ spiPage' \in {flash'[j], Torn, Noise}
      BY <1>1, <2>1, <2>3, <2>7 DEF Held
    <2> QED BY <1>5, <1>10, <2>7, <2>8 DEF Compared
  <1>11. CASE host.part # 1
    <2>1. Held(j + 1)'
      BY <1>1, <1>2, <1>6, <1>9, <1>11 DEF Compared, TypeInv, HostType
    <2>2. CASE j < Last
      BY <1>5, <1>11, <2>1, <2>2 DEF Compared
    <2>3. CASE ~(j < Last)
      <3>1. j = Last
        BY <1>2, <2>3
      <3> QED BY <1>5, <1>11, <2>1, <2>3, <3>1 DEF Compared
    <2> QED BY <2>2, <2>3
  <1> QED BY <1>10, <1>11

LEMMA SendMild ==
  ASSUME TypeInv, Send, host.pc \in Comparing
  PROVE  wire' = <<>> \/ Mild'
  <1>1. host.pc \in Writes /\ wire' \in {Chunks, <<>>}
    BY DEF Send
  <1>2. CASE host.pc \in {"crc_on", "crc_off"}
    <2>1. Chunks \in {<<PageAccess(TRUE)>>, <<PageAccess(FALSE)>>}
      BY <1>2 DEF Chunks
    <2> QED BY <1>1, <2>1 DEF Mild
  <1>3. CASE host.pc \in {"quiet", "loud"}
    <2>1. Chunks = WithAddress("VERBOSE", 0)
      BY <1>3 DEF Chunks
    <2> QED BY <1>1, <2>1, SpanFacts DEF Mild, ReadOnly
  <1>4. CASE host.pc = "read"
    <2>1. Chunks = WithAddress("READ", host.i)
      BY <1>4 DEF Chunks
    <2>2. host.i \in Pages
      BY <1>4, SpanFacts DEF TypeInv, HostType, ImagePages
    <2> QED BY <1>1, <2>1, <2>2 DEF Mild, ReadOnly
  <1> QED BY <1>1, <1>2, <1>3, <1>4 DEF Writes, Comparing

LEMMA WireKept ==
  ASSUME WireInv, UNCHANGED <<mainLoop, i2cOn, wire, host, txLeft, prevCmd, expected>>,
         answered' => answered \/ host.pc # "read"
  PROVE  WireInv'
  BY DEF WireInv, Mild, Idle

LEMMA WireInvNext == TypeInv /\ WireInv /\ [Next]_vars => WireInv'
  <1> SUFFICES ASSUME TypeInv, WireInv, [Next]_vars PROVE WireInv'
    OBVIOUS
  <1>1. CASE UNCHANGED vars \/ QueueStep \/ FlashDone
    BY <1>1, WireKept
    DEF vars, slaveVars, isr, tx, wdog, hist, QueueStep, FlashDone
  <1>2. CASE FlashCommand
    <2>1. UNCHANGED <<mainLoop, i2cOn, wire, host, txLeft, prevCmd, expected>>
      BY <1>2 DEF FlashCommand, Start, Wait, PageWrite, Erase, ReadPage, Plain, PowerMode,
                  KeepWire, slaveVars, isr, tx
    <2>2. answered' => answered \/ host.pc # "read"
      BY <1>2 DEF FlashCommand, Start, Wait, PageWrite, Erase, ReadPage, ReadFlash, CopyPage,
                  Plain, PowerMode, hist
    <2> QED BY <2>1, <2>2, WireKept
  <1>3. CASE Restart
    BY <1>3 DEF Restart, WireInv, Mild, Idle, hist
  <1>4. CASE ReceiveChunk
    <2>1. UNCHANGED <<host, answered, mainLoop, i2cOn>> /\ wire # <<>>
      BY <1>4 DEF ReceiveChunk, ReceiveCommand, ReceiveAccess, Complete, WriteById, wdog, hist
    <2>2. host.pc \in Comparing => Mild'
      BY <1>4, MildArrives DEF WireInv
    <2> QED BY <2>1, <2>2 DEF WireInv, Idle
  <1>5. CASE WatchdogIrq
    <2>1. wire' = <<>> /\ ~i2cOn' /\ answered' = answered
      BY <1>5 DEF WatchdogIrq, SlaveDisable
    <2>2. host'.pc = host.pc /\ host'.busy = host.busy /\ host'.result = host.result
      BY <1>5 DEF WatchdogIrq, TypeInv, HostType
    <2> QED BY <2>1, <2>2 DEF WireInv, Mild, Idle
  <1>6. CASE SlaveTimeout
    <2>1. wire' = <<>> /\ UNCHANGED <<mainLoop, i2cOn, answered>>
      BY <1>6 DEF SlaveTimeout, wdog
    <2>2. host'.pc = host.pc /\ host'.busy = host.busy /\ host'.result = host.result
      BY <1>6 DEF SlaveTimeout, TypeInv, HostType
    <2> QED BY <2>1, <2>2 DEF WireInv, Mild, Idle
  <1>7. CASE StartProgram \/ StartCrc \/ Abort
    <2>1. ~host.busy /\ wire = <<>> /\ UNCHANGED <<wire, mainLoop, i2cOn>>
      BY <1>7 DEF StartProgram, StartCrc, Begin, Abort, Idle, TypeInv, HostType, Sendings, Writes,
                  slaveVars, wdog
    <2>2. host'.pc \in {"page_on", "crc_on", "idle"} /\ host'.result = "none"
      BY <1>7 DEF StartProgram, StartCrc, Begin, Abort, End, Goto, TypeInv, HostType
    <2> QED BY <2>1, <2>2 DEF WireInv, Mild, Idle
  <1>8. CASE Single
    <2>1. host'.pc = "single" /\ host'.result = "none"
      BY <1>8 DEF Single, TypeInv, HostType
    <2>2. i2cOn /\ UNCHANGED <<mainLoop, i2cOn>>
      BY <1>8 DEF Single, wdog
    <2> QED BY <2>1, <2>2 DEF WireInv, Comparing
  <1>9. CASE Send
    <2>1. /\ UNCHANGED <<mainLoop, i2cOn>>
          /\ ~i2cOn => wire' = <<>>
          /\ answered' = (answered /\ host.pc # "read")
      BY <1>9 DEF Send, wdog
    <2>2. host'.pc = host.pc /\ host'.result = host.result /\ ~Idle
      BY <1>9 DEF Send, TypeInv, HostType, Idle, Writes
    <2>3. host.pc \in Comparing => Mild'
      BY <1>9, SendMild DEF Mild
    <2>4. ~mainLoop' => ~i2cOn' /\ wire' = <<>>
      BY <2>1 DEF WireInv
    <2>5. host'.pc = "read" => ~answered'
      BY <2>1, <2>2
    <2>6. host'.result # "match"
      BY <2>2 DEF WireInv
    <2> QED BY <2>2, <2>3, <2>4, <2>5, <2>6 DEF WireInv
  <1>10. CASE Return
    <2>1. wire' = <<>> /\ UNCHANGED <<mainLoop, i2cOn>>
      BY <1>10 DEF Return, slaveVars, wdog
    <2>2. ~host'.busy /\ (host'.result = "match" => host'.pc = "idle")
      BY <1>10 DEF Return, Goto, End, TypeInv, HostType, Sendings, Writes, WireInv, Idle
    <2> QED BY <2>1, <2>2 DEF WireInv, Mild, Idle
  <1>11. CASE Fetch
    <2>1. host.pc = "fetch" /\ wire = <<>> /\ UNCHANGED <<wire, mainLoop, i2cOn>>
      BY <1>11 DEF Fetch, wdog, TypeInv, HostType, Sendings, Writes
    <2>2. host'.result = host.result /\ ~host'.busy
      BY <1>11, <2>1 DEF Fetch, Goto, TypeInv, HostType, Sendings, Writes
    <2> QED BY <2>1, <2>2 DEF WireInv, Mild, Idle
  <1> QED
    BY <1>1, <1>2, <1>3, <1>4, <1>5, <1>6, <1>7, <1>8, <1>9, <1>10, <1>11
    DEF Next, MainLoop, Interrupt, Tool

LEMMA VerdictInvNext ==
  TypeInv /\ FlashInv /\ WireInv /\ VerdictInv /\ [Next]_vars => VerdictInv'
  <1> SUFFICES ASSUME TypeInv, FlashInv, WireInv, VerdictInv, [Next]_vars
               PROVE  VerdictInv'
    OBVIOUS
  <1>1. stale => stale'
    BY HistoryGrows
  <1>2. CASE UNCHANGED <<slots, flash, answered, spiPage, Verdicts>>
    BY <1>1, <1>2, VerdictKept DEF Quiet, Occupied
  <1>3. CASE UNCHANGED vars \/ SlaveTimeout \/ FlashDone
    <2>1. host' = host \/ host' = [host EXCEPT !.nak = TRUE]
      BY <1>3 DEF vars, SlaveTimeout, FlashDone
    <2>2. UNCHANGED Verdicts
      BY <2>1 DEF TypeInv, HostType, Verdicts
    <2> QED BY <1>2, <1>3, <2>2 DEF vars, SlaveTimeout, FlashDone, queueVars, device, hist
  <1>4. CASE WatchdogIrq
    <2>1. host' = [host EXCEPT !.nak = @ \/ host.busy]
      BY <1>4 DEF WatchdogIrq
    <2>2. UNCHANGED Verdicts
      BY <2>1 DEF TypeInv, HostType, Verdicts
    <2> QED BY <1>2, <1>4, <2>2 DEF WatchdogIrq, queueVars, device
  <1>5. CASE QueueStep
    BY <1>1, <1>5, QuietMain, VerdictKept DEF QueueStep, device, hist, Verdicts
  <1>6. CASE Restart
    <2>1. Quiet' /\ flash' = flash
      BY <1>6 DEF Restart, Setup, Quiet, Occupied
    <2> QED BY <1>1, <1>6, <2>1, VerdictKept DEF Restart, hist, Verdicts
  <1>7. CASE ReceiveChunk
    <2>1. UNCHANGED <<host, flash, spiPage, answered, stale>> /\ wire # <<>>
      BY <1>7 DEF ReceiveChunk, device, hist
    <2>2. ~Idle
      BY <2>1 DEF TypeInv, HostType, Sendings, Writes, Idle
    <2>3. CASE host.pc \in Comparing
      <3>1. Quiet => Quiet'
        BY <1>7, <2>3, MildArrives DEF WireInv
      <3> QED BY <2>1, <3>1, VerdictKept DEF Verdicts
    <2>4. CASE host.pc \notin Comparing
      BY <2>1, <2>2, <2>4 DEF VerdictInv, Compared, Comparing, WireInv
    <2> QED BY <2>3, <2>4
  <1>8. CASE StartProgram \/ StartCrc \/ Single \/ Abort
    <2>1. host'.pc \in {"page_on", "crc_on", "single", "idle"} /\ host'.result = "none"
      BY <1>8 DEF StartProgram, StartCrc, Begin, Single, Abort, End, Goto, TypeInv, HostType
    <2> QED BY <2>1 DEF VerdictInv, Compared
  <1>9. CASE Send
    <2>1. host' = [host EXCEPT !.busy = TRUE, !.nak = ~i2cOn]
      BY <1>9 DEF Send
    <2>2. UNCHANGED Verdicts
      BY <2>1 DEF TypeInv, HostType, Verdicts
    <2>3. UNCHANGED <<slots, flash, spiPage>> /\ (answered' => answered)
      BY <1>9 DEF Send, queueVars, device
    <2> QED BY <1>1, <2>2, <2>3, VerdictKept DEF Quiet, Occupied
  <1> QED
    BY <1>3, <1>4, <1>5, <1>6, <1>7, <1>8, <1>9, CommandVerdict, ReturnVerdict, FetchVerdict
    DEF Next, MainLoop, Interrupt, Tool

(* A tool that reports matching CRCs tells the truth, whatever happened    *)
(* before: sessions cut short, commands half sent, a watchdog in the       *)
(* middle; provided that each page was fetched after its READ was          *)
(* executed and no command that changes the flash waited then.             *)
THEOREM MatchWritten == Spec => []MatchMeansWritten
  <1>1. Init => WireInv /\ VerdictInv
    BY DEF Init, WireInv, VerdictInv, Compared, Comparing
  <1>2. VerdictInv => MatchMeansWritten
    <2> SUFFICES ASSUME VerdictInv, host.result = "match", ~stale, NEW p \in ImagePages
                 PROVE  flash[p] = host.img[p]
      BY DEF MatchMeansWritten
    <2>1. p < Last + 1
      BY SpanFacts DEF ImagePages
    <2> QED BY <2>1 DEF VerdictInv, Held
  <1> QED
    BY <1>1, <1>2, TypeInvInit, TypeInvNext, FlashInvInit, FlashInvNext, WireInvNext,
       VerdictInvNext, PTL DEF Spec

=============================================================================
