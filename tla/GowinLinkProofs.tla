--------------------------- MODULE GowinLinkProofs ---------------------------
(***************************************************************************)
(* Proofs about GowinLink for every size of the queue and the buffers,     *)
(* every timeout, and an FPGA and a line that do whatever Env allows:      *)
(*   - TypeCorrect: the type invariant, with the bound on the message      *)
(*     buffer;                                                             *)
(*   - QueuedCommandSent: a queued command is sent before it is released;  *)
(*   - CommandsOneAtATime, ReadbacksIntact: on an undisturbed link a slot  *)
(*     is released when its answer is complete, and a block read back is   *)
(*     whole and where it was asked for;                                   *)
(*   - StartupCompared: the start-up verification has something to compare.*)
(***************************************************************************)
EXTENDS GowinLink, SequenceTheorems, WellFoundedInduction, TLAPS

(* A command is sent from a slot that holds one, and a slot whose reply is *)
(* waited for has been sent and still holds its command.                   *)
SlotsOK ==
  /\ pc = "send" => queue[MsgIndex].cmd # NoCmd
  /\ ~bypassed /\ WaitForReply => sent[MsgIndex] /\ queue[MsgIndex].cmd # NoCmd
  /\ ret = "TIMEOUT" => pc = "after" /\ (~bypassed => ~WaitForReply)

IInv == TypeOK /\ SlotsOK

-----------------------------------------------------------------------------
(***************************************************************************)
(* Sequences                                                               *)
(***************************************************************************)
LEMMA HeadTail ==
  ASSUME NEW S, NEW s \in Seq(S), s # <<>>
  PROVE  Head(s) \in S /\ Tail(s) \in Seq(S) /\ Len(Tail(s)) = Len(s) - 1
OBVIOUS

LEMMA Concat ==
  ASSUME NEW S, NEW s \in Seq(S), NEW t \in Seq(S)
  PROVE  s \o t \in Seq(S)
OBVIOUS

(***************************************************************************)
(* Slots                                                                   *)
(***************************************************************************)
LEMMA LowestIsLeast ==
  ASSUME NEW S \in SUBSET Slots, S # {}
  PROVE  Lowest(S) \in S /\ \A j \in S : Lowest(S) <= j
<1>1. S \subseteq Nat
  BY SizeAssumption DEF Slots
<1>2. IsWellFoundedOn(OpToRel(<, Nat), Nat)
  BY NatLessThanWellFounded
<1>3. PICK i \in S : \A j \in S : <<j, i>> \notin OpToRel(<, Nat)
  BY <1>1, <1>2, WFMin
<1>4. \A j \in S : ~(j < i)
  BY <1>1, <1>3, Zenon DEF OpToRel
<1>5. \A j \in S : i <= j
  BY <1>1, <1>4
<1>. QED
  BY <1>5 DEF Lowest

LEMMA NewIdOK ==
  ASSUME QueueTypes
  PROVE  /\ NewId \in Slots
         /\ ~Full => queue[NewId].cmd = NoCmd
<1>. DEFINE free == {i \in Slots : queue[i].cmd = NoCmd}
<1>1. CASE free = {}
  BY <1>1 DEF NewId, Full, QueueTypes
<1>2. CASE free # {}
  <2>1. Lowest(free) \in free
    BY <1>2, LowestIsLeast
  <2>. QED
    BY <1>2, <2>1 DEF NewId
<1>. QED
  BY <1>1, <1>2

LEMMA StartupOK ==
  /\ Startup \in Seq([cmd : Cmds \cup {NoCmd}, param : Indexes])
  /\ Len(Startup) = 7
BY DEF Startup, Msg, Cmds, DataCmds, Kinds, ReadCmd, WriteCmd, Indexes

-----------------------------------------------------------------------------
(***************************************************************************)
(* What a transmission does to the decoder and to the FPGA's inbox.        *)
(***************************************************************************)
LEMMA SendDecoder ==
  ASSUME DecoderTypes, NEW c \in Cmds, TX_SendMsg(c)
  PROVE  DecoderTypes'
<1>1. CASE c \in SingleBytes
  BY <1>1 DEF TX_SendMsg, DecoderTypes, protoVars, ReplySize
<1>2. CASE c \in RegCmds
  <2>1. StateAfterSend(c) \in {"READING_1BYTE", "READING_2BYTE"}
    BY <1>2 DEF StateAfterSend, ReplyState, RegCmds
  <2>2. c \notin SingleBytes
    BY <1>2 DEF RegCmds, SingleBytes
  <2>3. /\ WaitForReply' = TRUE /\ State' = StateAfterSend(c) /\ waited' = 0
        /\ RxBusy' = TRUE /\ buf' = <<>> /\ TimeoutCount' = 0
    BY <1>2, <2>2 DEF TX_SendMsg
  <2>. QED
    BY <2>1, <2>3, SizeAssumption DEF DecoderTypes, States, Reading, ReplySize
<1>3. CASE c \notin SingleBytes \cup RegCmds
  <2>1. StateAfterSend(c) \in {"WAIT_EDID", "WAIT_DPCD", "WRITE_ACK", "WAIT_ACK"}
    BY <1>3 DEF StateAfterSend, ReplyState, RegCmds
  <2>2. /\ WaitForReply' = TRUE /\ State' = StateAfterSend(c) /\ waited' = 0
        /\ UNCHANGED <<RxBusy, buf, TimeoutCount>>
    BY <1>3 DEF TX_SendMsg
  <2>. QED
    BY <2>1, <2>2, SizeAssumption DEF DecoderTypes, States, Reading
<1>. QED
  BY <1>1, <1>2, <1>3

LEMMA SendInbox ==
  ASSUME QueueTypes, DataTypes, NEW c \in Cmds, TX_SendMsg(c)
  PROVE  inbox' \in Seq(Commands)
<1>1. /\ Payload(c) \in Blocks \cup {<<>>}
      /\ c \in {WriteCmd[k] : k \in Kinds} => Payload(c) \in Blocks
  BY DEF Payload, QueueTypes, DataTypes, Kinds, WriteCmd
<1>2. [cmd |-> c, data |-> Payload(c)] \in Commands
  BY <1>1 DEF Commands
<1>3. CASE c \in SingleBytes
  BY <1>3 DEF TX_SendMsg, DataTypes
<1>4. CASE c \notin SingleBytes
  <2>1. inbox' = Append(inbox, [cmd |-> c, data |-> Payload(c)])
    BY <1>4 DEF TX_SendMsg
  <2>. QED
    BY <1>2, <2>1 DEF DataTypes
<1>. QED
  BY <1>3, <1>4

LEMMA SendPower ==
  ASSUME lowPower \in BOOLEAN, NEW c \in Cmds, TX_SendMsg(c)
  PROVE  lowPower' \in BOOLEAN
BY DEF TX_SendMsg, LowPowerAfter

LEMMA CommandsOK ==
  /\ "SET_STANDBY_OFF" \in Cmds
  /\ DirectCmds \subseteq Cmds
  /\ \A r \in Requests : r[1] \in Cmds /\ r[2] \in Indexes
BY DataAssumption DEF Cmds, StandbyCmds

-----------------------------------------------------------------------------
(***************************************************************************)
(* What a step leaves alone keeps its type.                                *)
(***************************************************************************)
loopVars == <<MsgCount, verify, powerVars, asks, faults, bypassed, disturbed>>

LEMMA QueueFrame ==
  ASSUME QueueTypes, UNCHANGED <<queueVars, sent>>
  PROVE  QueueTypes'
BY DEF QueueTypes, queueVars

LEMMA DecoderFrame ==
  ASSUME DecoderTypes, UNCHANGED <<protoVars, waited>>
  PROVE  DecoderTypes'
BY DEF DecoderTypes, protoVars, ReplySize

LEMMA DataFrame ==
  ASSUME DataTypes, UNCHANGED <<dataVars, fpga, inbox>>
  PROVE  DataTypes'
BY DEF DataTypes, dataVars

LEMMA LineFrame ==
  ASSUME LineTypes, UNCHANGED <<wire, uartVars>>
  PROVE  LineTypes'
BY DEF LineTypes, uartVars

LEMMA LoopFrame ==
  ASSUME LoopTypes, UNCHANGED <<loopVars, pc, ret>>
  PROVE  LoopTypes'
BY DEF LoopTypes, loopVars, powerVars

LEMMA SlotsFrame ==
  ASSUME SlotsOK, UNCHANGED <<queueVars, WaitForReply, pc, ret, sent, bypassed>>
  PROVE  SlotsOK'
BY DEF SlotsOK, queueVars

-----------------------------------------------------------------------------
(***************************************************************************)
(* The decoder: one byte of the ring buffer.                               *)
(***************************************************************************)
LEMMA FetchOK ==
  ASSUME IInv, Fetch
  PROVE  /\ Head(ring) \in Bytes
         /\ QueueTypes' /\ LineTypes'
         /\ UNCHANGED <<verify, powerVars, asks, faults, bypassed, disturbed, pc>>
         /\ UNCHANGED <<queueVars, waited, sent, fpga, inbox>>
         /\ pc = "drain" /\ ret = "NONE" /\ MsgCount = 0
<1>1. ring \in Seq(Bytes) /\ Len(ring) < RingSize /\ ring # <<>>
  BY DEF IInv, TypeOK, LineTypes, Fetch
<1>2. Head(ring) \in Bytes /\ Tail(ring) \in Seq(Bytes) /\ Len(Tail(ring)) < RingSize
  BY <1>1, SizeAssumption
<1>3. UNCHANGED <<queueVars, verify, powerVars, overruns, uartOn, pc, fpgaVars, ghostVars>>
  BY DEF Fetch
<1>4. QueueTypes'
  BY <1>3, QueueFrame DEF IInv, TypeOK, ghostVars
<1>5. LineTypes'
  BY <1>2, <1>3 DEF IInv, TypeOK, LineTypes, fpgaVars, Fetch
<1>. QED
  BY <1>2, <1>3, <1>4, <1>5 DEF Fetch, ghostVars, fpgaVars

LEMMA StepRxWaitData ==
  ASSUME IInv, RxWaitData
  PROVE  IInv'
<1>1. Fetch /\ UNCHANGED <<WaitForReply, MsgCount, dataVars, ret>>
  BY DEF RxWaitData
<1>2. DecoderTypes'
  <2>1. CASE Head(ring) = "$"
    BY <2>1, FetchOK, SizeAssumption
       DEF RxWaitData, IInv, TypeOK, DecoderTypes, StartByte, States, Reading, ReplySize
  <2>2. CASE Head(ring) # "$"
    BY <2>2, <1>1, FetchOK, DecoderFrame DEF RxWaitData, IInv, TypeOK, protoVars
  <2>. QED
    BY <2>1, <2>2
<1>3. DataTypes' /\ LoopTypes' /\ SlotsOK'
  BY <1>1, FetchOK, DataFrame, LoopFrame, SlotsFrame DEF IInv, TypeOK, loopVars
<1>. QED
  BY <1>1, <1>2, <1>3, FetchOK DEF IInv, TypeOK

LEMMA StepRxWriteAck ==
  ASSUME IInv, RxWriteAck
  PROVE  IInv'
<1>1. Fetch /\ UNCHANGED <<WaitForReply, buf, TimeoutCount, MsgCount, dataVars, ret>>
  BY DEF RxWriteAck
<1>2. DecoderTypes'
  BY <1>1, FetchOK DEF RxWriteAck, IInv, TypeOK, DecoderTypes, States, Reading
<1>3. DataTypes' /\ LoopTypes' /\ SlotsOK'
  BY <1>1, FetchOK, DataFrame, LoopFrame, SlotsFrame DEF IInv, TypeOK, loopVars
<1>. QED
  BY <1>1, <1>2, <1>3, FetchOK DEF IInv, TypeOK

LEMMA StepRxCommand ==
  ASSUME IInv, RxCommand
  PROVE  IInv'
<1>1. Fetch /\ UNCHANGED <<WaitForReply, MsgCount, dataVars>>
  BY DEF RxCommand
<1>2. DecoderTypes'
  <2>1. CASE Head(ring) = "$" /\ StartByte /\ State' = "STOP"
    BY <2>1, <1>1, FetchOK, SizeAssumption
       DEF IInv, TypeOK, DecoderTypes, StartByte, States, Reading
  <2>2. CASE State' \in {"START", State} /\ UNCHANGED <<RxBusy, buf, TimeoutCount>>
    BY <2>2, <1>1, FetchOK DEF RxCommand, IInv, TypeOK, DecoderTypes, States, Reading
  <2>. QED
    BY <2>1, <2>2 DEF RxCommand
<1>3. ret' \in {"NONE", "ERROR"}
  BY FetchOK, <1>1 DEF RxCommand
<1>4. LoopTypes' /\ SlotsOK'
  BY <1>1, <1>3, FetchOK
     DEF IInv, TypeOK, LoopTypes, powerVars, SlotsOK, queueVars
<1>5. DataTypes'
  BY <1>1, FetchOK, DataFrame DEF IInv, TypeOK
<1>. QED
  BY <1>1, <1>2, <1>4, <1>5, FetchOK DEF IInv, TypeOK

LEMMA StepRxStop ==
  ASSUME IInv, RxStop
  PROVE  IInv'
<1>1. Fetch /\ State = "STOP" /\ UNCHANGED <<TimeoutCount, dataVars>>
  BY DEF RxStop
<1>2. DecoderTypes'
  <2>1. CASE Head(ring) = "$"
    BY <2>1, <1>1, FetchOK, DecoderFrame DEF RxStop, IInv, TypeOK, protoVars
  <2>2. CASE Head(ring) = "#"
    BY <2>2, <1>1, FetchOK DEF RxStop, IInv, TypeOK, DecoderTypes, States, Reading
  <2>3. CASE Head(ring) \notin {"$", "#"}
    <3>1. /\ buf' = Append(buf, Head(ring))
          /\ State' = IF Room THEN "STOP" ELSE "START"
          /\ UNCHANGED <<WaitForReply, RxBusy>>
      BY <2>3 DEF RxStop
    <3>2. buf \in Seq(Bytes) /\ Len(buf) < BufSize
      BY <1>1 DEF IInv, TypeOK, DecoderTypes
    <3>3. buf' \in Seq(Bytes) /\ Len(buf') = Len(buf) + 1
      BY <1>1, <3>1, <3>2, FetchOK
    <3>. QED
      BY <1>1, <3>1, <3>2, <3>3, FetchOK, SizeAssumption
         DEF IInv, TypeOK, DecoderTypes, States, Reading, Room
  <2>. QED
    BY <2>1, <2>2, <2>3
<1>3. MsgCount' \in 0..1 /\ ret' \in {"NONE", "NEW_MSG"} /\ (WaitForReply' => WaitForReply)
  BY <1>1, FetchOK DEF RxStop, IInv, TypeOK, DecoderTypes
<1>4. LoopTypes' /\ SlotsOK'
  BY <1>1, <1>3, FetchOK
     DEF IInv, TypeOK, LoopTypes, powerVars, SlotsOK, queueVars
<1>5. DataTypes'
  BY <1>1, FetchOK, DataFrame DEF IInv, TypeOK
<1>. QED
  BY <1>1, <1>2, <1>4, <1>5, FetchOK DEF IInv, TypeOK

(* A block read back is as long as a block of the data map.                *)
LEMMA DeliverOK ==
  ASSUME IInv, NEW data \in Seq(Bytes), Len(data) = ReplySize(State), Deliver(data)
  PROVE  /\ mem' \in [Kinds -> [Indexes -> Blocks]]
         /\ reg' \in [RegCmds -> Seq(Bytes)]
<1>1. mem \in [Kinds -> [Indexes -> Blocks]] /\ reg \in [RegCmds -> Seq(Bytes)]
  BY DEF IInv, TypeOK, DataTypes
<1>2. idx \in [Kinds -> Indexes]
  BY DEF IInv, TypeOK, QueueTypes
<1>3. State \in {"READING_EDID", "READING_DPCD"} => data \in Blocks
  BY SizeAssumption DEF ReplySize, Blocks
<1>4. State \in {"READING_1BYTE", "READING_2BYTE"} => Tail(data) \in Seq(Bytes)
  BY DEF ReplySize
<1>5. CASE State = "READING_EDID"
  BY <1>1, <1>2, <1>3, <1>5 DEF Deliver, Kinds
<1>6. CASE State = "READING_DPCD"
  BY <1>1, <1>2, <1>3, <1>6 DEF Deliver, Kinds
<1>7. CASE State \in {"READING_1BYTE", "READING_2BYTE"}
  BY <1>1, <1>4, <1>7 DEF Deliver, RegCmds
<1>. QED
  BY <1>5, <1>6, <1>7 DEF Deliver

LEMMA StepRxData ==
  ASSUME IInv, RxData
  PROVE  IInv'
<1>. DEFINE data == Append(buf, Head(ring))
<1>1. /\ Fetch /\ State \in Reading /\ buf' = data
      /\ UNCHANGED <<WaitForReply, TimeoutCount>>
  BY DEF RxData
<1>2. buf \in Seq(Bytes) /\ Len(buf) < ReplySize(State) /\ Len(buf) <= BufSize
  BY <1>1 DEF IInv, TypeOK, DecoderTypes
<1>3. data \in Seq(Bytes) /\ Len(data) = Len(buf) + 1
  BY <1>1, <1>2, FetchOK
<1>4. ReplySize(State) \in Nat /\ ReplySize(State) <= BufSize
  BY SizeAssumption DEF ReplySize
<1>5. CASE Len(data) >= ReplySize(State)
  <2>1. /\ MsgCount' = MsgCount + 1 /\ State' = "START" /\ RxBusy' = FALSE
        /\ ret' = "NEW_MSG" /\ Deliver(data)
    BY <1>5 DEF RxData
  <2>2. Len(data) = ReplySize(State)
    BY <1>2, <1>3, <1>4, <1>5
  <2>3. DataTypes'
    BY <1>1, <1>3, <2>1, <2>2, DeliverOK, FetchOK DEF IInv, TypeOK, DataTypes
  <2>4. DecoderTypes'
    BY <1>1, <1>3, <1>4, <2>1, <2>2, FetchOK
       DEF IInv, TypeOK, DecoderTypes, States, Reading
  <2>5. LoopTypes' /\ SlotsOK'
    BY <1>1, <2>1, FetchOK
       DEF IInv, TypeOK, LoopTypes, powerVars, SlotsOK, queueVars
  <2>. QED
    BY <1>1, <2>3, <2>4, <2>5, FetchOK DEF IInv, TypeOK
<1>6. CASE ~(Len(data) >= ReplySize(State))
  <2>1. UNCHANGED <<MsgCount, State, RxBusy, ret, dataVars>>
    BY <1>6 DEF RxData
  <2>2. Len(data) < ReplySize(State) /\ Len(data) <= BufSize
    BY <1>2, <1>3, <1>4, <1>6, SizeAssumption
  <2>3. ReplySize(State') = ReplySize(State)
    BY <2>1 DEF ReplySize
  <2>4. DecoderTypes'
    BY <1>1, <1>3, <2>1, <2>2, <2>3, FetchOK
       DEF IInv, TypeOK, DecoderTypes, Reading
  <2>5. DataTypes' /\ LoopTypes' /\ SlotsOK'
    BY <1>1, <2>1, FetchOK, DataFrame, LoopFrame, SlotsFrame DEF IInv, TypeOK, loopVars
  <2>. QED
    BY <1>1, <2>4, <2>5, FetchOK DEF IInv, TypeOK
<1>. QED
  BY <1>5, <1>6

-----------------------------------------------------------------------------
(***************************************************************************)
(* The rest of GOWIN_Protocol and the main loop.                           *)
(***************************************************************************)
LEMMA StepPoll ==
  ASSUME IInv, Poll
  PROVE  IInv'
<1>1. LoopTypes' /\ SlotsOK'
  BY DEF Poll, IInv, TypeOK, LoopTypes, SlotsOK, powerVars, protoVars, queueVars, ghostVars
<1>2. QueueTypes' /\ DecoderTypes' /\ DataTypes' /\ LineTypes'
  BY QueueFrame, DecoderFrame, DataFrame, LineFrame
     DEF Poll, IInv, TypeOK, fpgaVars, ghostVars
<1>. QED
  BY <1>1, <1>2 DEF IInv, TypeOK

LEMMA StepReplyTimedOut ==
  ASSUME IInv, ReplyTimedOut
  PROVE  IInv'
<1>1. DecoderTypes'
  <2>1. /\ TimeoutCount' = 0 /\ State' = "START" /\ RxBusy' = FALSE
        /\ WaitForReply' = FALSE /\ UNCHANGED <<buf, waited>>
    BY DEF ReplyTimedOut
  <2>2. "START" \in States \ Reading /\ 0 \in 0..(ReplyTimeout + 1)
    BY SizeAssumption DEF States, Reading
  <2>. QED
    BY <2>1, <2>2 DEF IInv, TypeOK, DecoderTypes
<1>2. LoopTypes' /\ SlotsOK'
  BY DEF ReplyTimedOut, IInv, TypeOK, LoopTypes, SlotsOK, powerVars
<1>3. QueueTypes' /\ DataTypes' /\ LineTypes'
  BY QueueFrame, DataFrame, LineFrame DEF ReplyTimedOut, IInv, TypeOK, fpgaVars
<1>. QED
  BY <1>1, <1>2, <1>3 DEF IInv, TypeOK

LEMMA StepStillWaiting ==
  ASSUME IInv, StillWaiting
  PROVE  IInv'
<1>1. DecoderTypes'
  <2>1. /\ TimeoutCount <= ReplyTimeout /\ TimeoutCount' = TimeoutCount + 1
        /\ waited' = IF waited > ReplyTimeout THEN waited ELSE waited + 1
        /\ UNCHANGED <<State, WaitForReply, RxBusy, buf>>
    BY DEF StillWaiting
  <2>2. TimeoutCount' \in 0..(ReplyTimeout + 1) /\ waited' \in 0..(ReplyTimeout + 1)
    BY <2>1, SizeAssumption DEF IInv, TypeOK, DecoderTypes
  <2>. QED
    BY <2>1, <2>2 DEF IInv, TypeOK, DecoderTypes, ReplySize
<1>2. LoopTypes' /\ SlotsOK'
  BY DEF StillWaiting, LoopDone, IInv, TypeOK, LoopTypes, SlotsOK, powerVars, queueVars
<1>3. QueueTypes' /\ DataTypes' /\ LineTypes'
  BY QueueFrame, DataFrame, LineFrame DEF StillWaiting, IInv, TypeOK, fpgaVars
<1>. QED
  BY <1>1, <1>2, <1>3 DEF IInv, TypeOK

LEMMA StepReleaseSlot ==
  ASSUME IInv, ReleaseSlot
  PROVE  IInv'
<1>1. QueueTypes'
  BY DEF ReleaseSlot, IInv, TypeOK, QueueTypes, ghostVars
<1>2. DecoderTypes'
  BY DEF ReleaseSlot, IInv, TypeOK, DecoderTypes, Reading, ghostVars
<1>3. LoopTypes' /\ SlotsOK'
  BY DEF ReleaseSlot, LoopDone, IInv, TypeOK, LoopTypes, SlotsOK, powerVars, ghostVars
<1>4. DataTypes' /\ LineTypes'
  BY DataFrame, LineFrame DEF ReleaseSlot, IInv, TypeOK, fpgaVars
<1>. QED
  BY <1>1, <1>2, <1>3, <1>4 DEF IInv, TypeOK

LEMMA StepProcessQueue ==
  ASSUME IInv, ProcessQueue
  PROVE  IInv'
<1>. DEFINE next == Lowest({i \in Slots : queue[i].cmd # NoCmd})
<1>1. /\ LoopDone /\ ~WaitForReply
      /\ UNCHANGED <<queue, protoVars, MsgCount, verify, dataVars, powerVars, uartVars,
                     ret, fpgaVars, ghostVars>>
  BY DEF ProcessQueue
<1>2. CASE Drained
  <2>1. pc' = "after" /\ UNCHANGED <<MsgIndex, idx>>
    BY <1>2 DEF ProcessQueue
  <2>2. QueueTypes'
    BY <1>1, <2>1, QueueFrame DEF IInv, TypeOK, queueVars, ghostVars
  <2>3. LoopTypes' /\ SlotsOK'
    BY <1>1, <2>1
       DEF IInv, TypeOK, LoopTypes, SlotsOK, powerVars, ghostVars, protoVars
  <2>. QED
    BY <1>1, <2>2, <2>3, DecoderFrame, DataFrame, LineFrame
       DEF IInv, TypeOK, fpgaVars, ghostVars
<1>3. CASE ~Drained
  <2>1. /\ MsgIndex' = next /\ pc' = "send"
        /\ idx' = [k \in Kinds |-> IndexOf(queue[next], k)]
    BY <1>3 DEF ProcessQueue
  <2>2. next \in Slots /\ queue[next].cmd # NoCmd
    <3>. DEFINE used == {i \in Slots : queue[i].cmd # NoCmd}
    <3>1. used # {}
      BY <1>3 DEF Drained
    <3>2. Lowest(used) \in used
      BY <3>1, LowestIsLeast
    <3>. QED
      BY <3>2
  <2>3. \A k \in Kinds : IndexOf(queue[next], k) \in Indexes
    BY <2>2 DEF IndexOf, IInv, TypeOK, QueueTypes
  <2>4. QueueTypes'
    BY <1>1, <2>1, <2>2, <2>3 DEF IInv, TypeOK, QueueTypes, ghostVars
  <2>5. LoopTypes' /\ SlotsOK'
    BY <1>1, <2>1, <2>2
       DEF LoopDone, IInv, TypeOK, LoopTypes, SlotsOK, powerVars, ghostVars, protoVars
  <2>. QED
    BY <1>1, <2>4, <2>5, DecoderFrame, DataFrame, LineFrame
       DEF IInv, TypeOK, fpgaVars, ghostVars
<1>. QED
  BY <1>2, <1>3

LEMMA StepSendQueued ==
  ASSUME IInv, SendQueued
  PROVE  IInv'
<1>. DEFINE c == queue[MsgIndex].cmd
<1>1. c \in Cmds /\ TX_SendMsg(c)
  BY DEF SendQueued, IInv, TypeOK, QueueTypes, SlotsOK
<1>2. QueueTypes'
  BY DEF SendQueued, IInv, TypeOK, QueueTypes, queueVars
<1>3. DataTypes'
  BY <1>1, SendInbox DEF SendQueued, IInv, TypeOK, DataTypes, dataVars
<1>4. LoopTypes' /\ SlotsOK'
  BY <1>1, SendPower
     DEF SendQueued, IInv, TypeOK, LoopTypes, SlotsOK, queueVars, QueueTypes
<1>. QED
  BY <1>1, <1>2, <1>3, <1>4, SendDecoder, LineFrame DEF SendQueued, IInv, TypeOK

LEMMA StepEndOfLoop ==
  ASSUME IInv, EndOfLoop
  PROVE  IInv'
<1>1. QueueTypes'
  <2>1. Empty \in [cmd : Cmds \cup {NoCmd}, param : Indexes] /\ 0 \in Slots
    BY SizeAssumption DEF Empty, Msg, Indexes, Slots
  <2>. QED
    BY <2>1 DEF EndOfLoop, IInv, TypeOK, QueueTypes
<1>2. delay' \in 1..RecoverDelay
  BY SizeAssumption DEF EndOfLoop, IInv, TypeOK, LoopTypes
<1>3. CASE lowPower /\ delay = 1
  <2>1. TX_SendMsg("SET_STANDBY_OFF") /\ bypassed' = TRUE
    BY <1>3 DEF EndOfLoop
  <2>2. lowPower' \in BOOLEAN /\ DecoderTypes'
    BY <2>1, CommandsOK, SendPower, SendDecoder DEF IInv, TypeOK, LoopTypes
  <2>3. DataTypes'
    BY <2>1, CommandsOK, SendInbox DEF EndOfLoop, IInv, TypeOK, DataTypes, dataVars
  <2>4. LoopTypes' /\ SlotsOK'
    BY <1>2, <2>1, <2>2 DEF EndOfLoop, IInv, TypeOK, LoopTypes, SlotsOK
  <2>. QED
    BY <1>1, <2>2, <2>3, <2>4, LineFrame DEF EndOfLoop, IInv, TypeOK
<1>4. CASE ~(lowPower /\ delay = 1)
  <2>1. UNCHANGED <<protoVars, lowPower, inbox, waited, bypassed>>
    BY <1>4 DEF EndOfLoop
  <2>2. LoopTypes'
    BY <1>2, <2>1 DEF EndOfLoop, IInv, TypeOK, LoopTypes
  <2>3. SlotsOK'
    BY <2>1 DEF EndOfLoop, IInv, SlotsOK, protoVars
  <2>. QED
    BY <1>1, <2>1, <2>2, <2>3, DecoderFrame, DataFrame, LineFrame
       DEF EndOfLoop, IInv, TypeOK
<1>. QED
  BY <1>3, <1>4

LEMMA StepRequest ==
  ASSUME IInv, NEW r \in Requests, Request(r[1], r[2])
  PROVE  IInv'
<1>1. r[1] \in Cmds \ {NoCmd} /\ r[2] \in Indexes
  BY CommandsOK
     DEF NoCmd, Cmds, DataCmds, StandbyCmds, RegCmds, SingleBytes, Kinds, ReadCmd, WriteCmd
<1>2. NewId \in Slots /\ (~Full => queue[NewId].cmd = NoCmd)
  BY NewIdOK DEF IInv, TypeOK
<1>3. QueueTypes'
  BY <1>1, <1>2 DEF Request, Msg, IInv, TypeOK, QueueTypes
<1>4. LoopTypes'
  BY SizeAssumption DEF Request, IInv, TypeOK, LoopTypes, powerVars
<1>5. SlotsOK'
  BY <1>1, <1>2 DEF Request, Msg, IInv, TypeOK, QueueTypes, SlotsOK, protoVars
<1>6. DecoderTypes' /\ DataTypes' /\ LineTypes'
  BY DecoderFrame, DataFrame, LineFrame DEF Request, IInv, TypeOK, fpgaVars
<1>. QED
  BY <1>3, <1>4, <1>5, <1>6 DEF IInv, TypeOK

-----------------------------------------------------------------------------
(***************************************************************************)
(* Interrupts, the FPGA and the line.                                      *)
(***************************************************************************)
LEMMA StepGowinIrq ==
  ASSUME IInv, NEW overrun \in BOOLEAN, GowinIrq(overrun)
  PROVE  IInv'
<1>1. wire \in Seq(Bytes) /\ wire # <<>> /\ ring \in Seq(Bytes) /\ Len(ring) < RingSize
  BY DEF GowinIrq, IInv, TypeOK, LineTypes
<1>2. ring' \in Seq(Bytes) /\ Len(ring') < RingSize
  <2>1. CASE Len(ring) + 1 = RingSize
    BY <2>1, SizeAssumption DEF GowinIrq
  <2>2. CASE Len(ring) + 1 # RingSize
    <3>1. Head(wire) \in Bytes /\ ring' = Append(ring, Head(wire))
      BY <1>1, <2>2 DEF GowinIrq
    <3>. QED
      BY <1>1, <2>2, <3>1, SizeAssumption
  <2>. QED
    BY <2>1, <2>2
<1>3. overruns \in Nat /\ uartOn \in BOOLEAN /\ faults \in 0..MaxFaults
  BY DEF IInv, TypeOK, LineTypes, LoopTypes
<1>4. /\ wire' \in Seq(Bytes) /\ overruns' \in Nat /\ uartOn' \in BOOLEAN
      /\ faults' \in 0..MaxFaults /\ disturbed' \in BOOLEAN
  <2>1. Tail(wire) \in Seq(Bytes) /\ Len(Tail(wire)) = Len(wire) - 1
    BY <1>1, HeadTail
  <2>2. CASE overrun
    <3>1. /\ overruns' = overruns + 1 /\ uartOn' = (overruns' < FloodLimit)
          /\ wire' = IF uartOn' /\ Len(wire) > 1 THEN Tail(Tail(wire)) ELSE Tail(wire)
          /\ faults' = faults + 1 /\ faults < MaxFaults /\ disturbed' = TRUE
      BY <2>2 DEF GowinIrq
    <3>2. Len(wire) > 1 => Tail(wire) # <<>>
      BY <1>1, <2>1
    <3>3. wire' \in Seq(Bytes)
      BY <2>1, <3>1, <3>2, HeadTail
    <3>. QED
      BY <1>3, <3>1, <3>3, SizeAssumption
  <2>3. CASE ~overrun
    <3>1. /\ wire' = Tail(wire) /\ UNCHANGED <<overruns, uartOn, faults>>
          /\ disturbed' = (disturbed \/ Len(ring) + 1 = RingSize)
      BY <2>3 DEF GowinIrq
    <3>. QED
      BY <1>3, <2>1, <3>1
  <2>. QED
    BY <2>2, <2>3
<1>5. LoopTypes'
  BY <1>4 DEF GowinIrq, IInv, TypeOK, LoopTypes, powerVars
<1>6. QueueTypes' /\ DecoderTypes' /\ DataTypes' /\ SlotsOK'
  BY QueueFrame, DecoderFrame, DataFrame, SlotsFrame
     DEF GowinIrq, IInv, TypeOK, protoVars
<1>. QED
  BY <1>2, <1>4, <1>5, <1>6 DEF IInv, TypeOK, LineTypes

LEMMA StepDirect ==
  ASSUME IInv, NEW c \in DirectCmds, Direct(c)
  PROVE  IInv'
<1>1. c \in Cmds /\ TX_SendMsg(c)
  BY CommandsOK DEF Direct
<1>2. lowPower' \in BOOLEAN
  BY <1>1, SendPower DEF IInv, TypeOK, LoopTypes
<1>3. LoopTypes'
  BY <1>2, SizeAssumption DEF Direct, IInv, TypeOK, LoopTypes
<1>4. DataTypes'
  BY <1>1, SendInbox DEF Direct, IInv, TypeOK, DataTypes, dataVars
<1>5. SlotsOK'
  BY DEF Direct, IInv, SlotsOK, queueVars
<1>6. QueueTypes' /\ LineTypes'
  BY QueueFrame, LineFrame DEF Direct, IInv, TypeOK
<1>. QED
  BY <1>1, <1>3, <1>4, <1>5, <1>6, SendDecoder DEF IInv, TypeOK

LEMMA AnswerOK ==
  ASSUME DataTypes, NEW c \in Cmds
  PROVE  Answer(c) \in Seq(Bytes)
<1>1. fpga["edid"] \in Seq(Bytes) /\ fpga["dpcd"] \in Seq(Bytes)
  BY SizeAssumption DEF DataTypes, Kinds, Blocks
<1>2. /\ <<"$">> \in Seq(Bytes) /\ <<"$", "x">> \in Seq(Bytes)
      /\ <<"$", "x", "x">> \in Seq(Bytes) /\ <<"ack">> \in Seq(Bytes)
  BY DEF Bytes
<1>. QED
  BY <1>1, <1>2 DEF Answer

LEMMA StepExecute ==
  ASSUME IInv, NEW refuse \in BOOLEAN, Execute(refuse)
  PROVE  IInv'
<1>. DEFINE m == Head(inbox)
<1>1. inbox \in Seq(Commands) /\ inbox # <<>>
  BY DEF Execute, IInv, TypeOK, DataTypes
<1>2. m \in Commands /\ m.cmd \in Cmds
  BY <1>1, HeadTail DEF Commands
<1>3. Tail(inbox) \in Seq(Commands)
  BY <1>1, HeadTail
<1>4. wire' \in Seq(Bytes)
  <2>1. <<"nack">> \in Seq(Bytes)
    BY DEF Bytes
  <2>2. Answer(m.cmd) \in Seq(Bytes) /\ wire \in Seq(Bytes)
    BY <1>2, AnswerOK DEF IInv, TypeOK, LineTypes
  <2>3. wire' \in {wire \o <<"nack">>, wire \o Answer(m.cmd)}
    BY DEF Execute
  <2>. QED
    BY <2>1, <2>2, <2>3, Concat
<1>5. fpga' \in [Kinds -> Blocks]
  <2>1. \A k \in Kinds : m.cmd = WriteCmd[k] => m.data \in Blocks
    BY <1>2 DEF Commands
  <2>. QED
    BY <2>1 DEF Execute, IInv, TypeOK, DataTypes
<1>6. DataTypes'
  BY <1>3, <1>5 DEF Execute, IInv, TypeOK, DataTypes, dataVars
<1>7. LineTypes'
  BY <1>4 DEF Execute, IInv, TypeOK, LineTypes, uartVars
<1>8. QueueTypes' /\ DecoderTypes' /\ LoopTypes' /\ SlotsOK'
  BY QueueFrame, DecoderFrame, LoopFrame, SlotsFrame
     DEF Execute, IInv, TypeOK, protoVars, ghostVars, loopVars
<1>. QED
  BY <1>6, <1>7, <1>8 DEF IInv, TypeOK

LEMMA StepFault ==
  ASSUME IInv, NEW kind, Fault(kind),
         wire' \in Seq(Bytes),
         inbox' \in Seq(Commands)
  PROVE  IInv'
<1>1. LoopTypes'
  BY SizeAssumption DEF Fault, IInv, TypeOK, LoopTypes, powerVars
<1>2. DataTypes' /\ LineTypes'
  BY DEF Fault, IInv, TypeOK, DataTypes, LineTypes, dataVars, uartVars
<1>3. QueueTypes' /\ DecoderTypes' /\ SlotsOK'
  BY QueueFrame, DecoderFrame, SlotsFrame DEF Fault, IInv, TypeOK, protoVars
<1>. QED
  BY <1>1, <1>2, <1>3 DEF IInv, TypeOK

LEMMA StepLine ==
  ASSUME IInv, LoseCommand \/ LoseByte \/ Babble \/ WakeUp
  PROVE  IInv'
<1>1. wire \in Seq(Bytes) /\ inbox \in Seq(Commands)
  BY DEF IInv, TypeOK, LineTypes, DataTypes
<1>2. CASE LoseCommand
  <2>1. Tail(inbox) \in Seq(Commands)
    BY <1>1, <1>2 DEF LoseCommand
  <2>. QED
    BY <1>1, <1>2, <2>1, StepFault DEF LoseCommand
<1>3. CASE LoseByte
  <2>1. Tail(wire) \in Seq(Bytes)
    BY <1>1, <1>3 DEF LoseByte
  <2>. QED
    BY <1>1, <1>3, <2>1, StepFault DEF LoseByte
<1>4. CASE Babble
  <2>1. <<"$">> \in Seq(Bytes) /\ [i \in 1..(BufSize + 1) |-> "x"] \in Seq(Bytes)
    BY SizeAssumption DEF Bytes
  <2>. QED
    BY <1>1, <1>4, <2>1, Concat, StepFault DEF Babble
<1>5. CASE WakeUp
  <2>1. <<"$", "x", "#">> \in Seq(Bytes)
    BY DEF Bytes
  <2>. QED
    BY <1>1, <1>5, <2>1, Concat, StepFault DEF WakeUp
<1>. QED
  BY <1>2, <1>3, <1>4, <1>5

-----------------------------------------------------------------------------
(***************************************************************************)
(* The invariant is inductive.                                             *)
(***************************************************************************)
LEMMA InitInv == Init => IInv
<1>. SUFFICES ASSUME Init PROVE IInv
  OBVIOUS
<1>1. QueueTypes
  <2>1. Empty \in [cmd : Cmds \cup {NoCmd}, param : Indexes]
    BY DEF Empty, Msg, Indexes
  <2>2. \A i \in Slots : i < 7 =>
          Startup[i + 1] \in [cmd : Cmds \cup {NoCmd}, param : Indexes]
    <3>1. \A i \in 1..7 : Startup[i] \in [cmd : Cmds \cup {NoCmd}, param : Indexes]
      BY StartupOK, ElementOfSeq
    <3>. QED
      BY <3>1, SizeAssumption DEF Slots
  <2>. QED
    BY <2>1, <2>2, SizeAssumption DEF Init, QueueTypes, Slots, Indexes
<1>2. DecoderTypes
  <2>1. 0 \in 0..(ReplyTimeout + 1) /\ 0 <= BufSize
    BY SizeAssumption
  <2>2. <<>> \in Seq(Bytes) /\ Len(<<>>) = 0 /\ "START" \in States \ Reading
    BY DEF States, Reading
  <2>. QED
    BY <2>1, <2>2 DEF Init, DecoderTypes
<1>3. DataTypes
  BY DataAssumption DEF Init, DataTypes
<1>4. LineTypes /\ LoopTypes
  <2>1. 0 < RingSize /\ RecoverDelay \in 1..RecoverDelay
        /\ 0 \in 0..MaxAsks /\ 0 \in 0..MaxFaults
    BY SizeAssumption
  <2>2. <<>> \in Seq(Bytes) /\ Len(<<>>) = 0
    OBVIOUS
  <2>3. LineTypes
    BY <2>1, <2>2 DEF Init, LineTypes
  <2>4. LoopTypes
    <3>1. /\ pc = "main" /\ ret = "NONE" /\ MsgCount = 0 /\ verify = TRUE /\ lowPower = FALSE
          /\ delay = RecoverDelay /\ asks = 0 /\ faults = 0
          /\ bypassed = FALSE /\ disturbed = FALSE
      BY DEF Init
    <3>2. MsgCount \in 0..1
      BY <3>1
    <3>. QED
      BY <2>1, <3>1, <3>2, Zenon DEF LoopTypes
  <2>. QED
    BY <2>3, <2>4
<1>5. SlotsOK
  BY DEF Init, SlotsOK
<1>. QED
  BY <1>1, <1>2, <1>3, <1>4, <1>5 DEF IInv, TypeOK

LEMMA NextInv == IInv /\ [Next]_vars => IInv'
<1>. SUFFICES ASSUME IInv, [Next]_vars PROVE IInv'
  OBVIOUS
<1>1. CASE MainLoop
  BY <1>1, StepPoll, StepRxWaitData, StepRxWriteAck, StepRxData, StepRxCommand,
     StepRxStop, StepReplyTimedOut, StepStillWaiting, StepReleaseSlot,
     StepProcessQueue, StepSendQueued, StepEndOfLoop
     DEF MainLoop
<1>2. CASE \E r \in Requests : Request(r[1], r[2])
  BY <1>2, StepRequest
<1>3. CASE \E overrun \in BOOLEAN : GowinIrq(overrun)
  BY <1>3, StepGowinIrq
<1>4. CASE \E c \in DirectCmds : Direct(c)
  BY <1>4, StepDirect
<1>5. CASE \E refuse \in BOOLEAN : Execute(refuse)
  BY <1>5, StepExecute
<1>6. CASE LoseCommand \/ LoseByte \/ Babble \/ WakeUp
  BY <1>6, StepLine
<1>7. CASE UNCHANGED vars
  BY <1>7, QueueFrame, DecoderFrame, DataFrame, LineFrame, LoopFrame, SlotsFrame
     DEF vars, IInv, TypeOK, queueVars, protoVars, fpgaVars, ghostVars, loopVars
<1>. QED
  BY <1>1, <1>2, <1>3, <1>4, <1>5, <1>6, <1>7 DEF Next

LEMMA Inductive == Spec => []IInv
BY InitInv, NextInv, PTL DEF Spec

(* The variables of the driver stay in their types whatever the FPGA       *)
(* sends: the message buffer and the ring buffer are never written past    *)
(* their end, and a block of the data map keeps its length.                *)
THEOREM TypeCorrect == Spec => []TypeOK
<1>1. IInv => TypeOK
  BY DEF IInv
<1>. QED
  BY <1>1, Inductive, PTL

(* While commands go through a queue with room for them, a queued command  *)
(* leaves its slot only after it was sent or by a timeout: no reply, late, *)
(* refused or unsolicited, releases the slot of a command not yet sent.    *)
THEOREM QueuedCommandSent == Spec => QueuedIsSent
<1>. DEFINE Kept == \A i \in Slots :
              /\ ~bypassed' /\ ret # "TIMEOUT"
              /\ queue[i].cmd # NoCmd /\ queue'[i].cmd = NoCmd
              => sent[i]
<1>1. ASSUME IInv, [Next]_vars PROVE [Kept]_vars
  <2>1. CASE ReleaseSlot
    <3>1. queue' = [queue EXCEPT ![MsgIndex].cmd = NoCmd] /\ WaitForReply
      BY <2>1 DEF ReleaseSlot
    <3>2. bypassed' = bypassed
      BY <2>1 DEF ReleaseSlot, ghostVars
    <3>3. ~bypassed => sent[MsgIndex]
      BY <1>1, <3>1 DEF IInv, SlotsOK
    <3>4. \A i \in Slots : i # MsgIndex => queue'[i] = queue[i]
      BY <1>1, <3>1 DEF IInv, TypeOK, QueueTypes
    <3>. QED
      BY <3>2, <3>3, <3>4
  <2>2. CASE EndOfLoop
    BY <2>2 DEF EndOfLoop
  <2>3. CASE \E r \in Requests : Request(r[1], r[2])
    <3>1. PICK r \in Requests : Request(r[1], r[2])
      BY <2>3
    <3>2. r[1] # NoCmd
      BY DataAssumption DEF NoCmd, DataCmds, Kinds, ReadCmd, WriteCmd
    <3>3. queue' = [queue EXCEPT ![NewId] = Msg(r[1], r[2])]
      BY <3>1 DEF Request
    <3>4. \A i \in Slots : queue'[i] = queue[i] \/ queue'[i].cmd = r[1]
      BY <1>1, <3>3 DEF IInv, TypeOK, QueueTypes, Msg
    <3>. QED
      BY <3>2, <3>4
  <2>4. CASE UNCHANGED queue
    BY <2>4
  <2>. QED
    BY <1>1, <2>1, <2>2, <2>3, <2>4
       DEF Next, MainLoop, Poll, RxWaitData, RxWriteAck, RxData, RxCommand, RxStop,
           Fetch, ReplyTimedOut, StillWaiting, ProcessQueue, SendQueued, GowinIrq,
           Direct, Execute, LoseCommand, LoseByte, Babble, WakeUp, Fault, queueVars, vars
<1>. QED
  BY <1>1, Inductive, PTL DEF Spec, QueuedIsSent

-----------------------------------------------------------------------------
(***************************************************************************)
(* An undisturbed link: what is on the way between the FPGA and the        *)
(* decoder is the rest of one answer, to the command under MsgIndex.       *)
(***************************************************************************)
Undisturbed == ~bypassed /\ ~disturbed
Out == ring \o wire
Cur == queue[MsgIndex]
Quiet == inbox = <<>> /\ ring = <<>> /\ wire = <<>>

WaitState == [edid |-> "WAIT_EDID", dpcd |-> "WAIT_DPCD"]
ReadState == [edid |-> "READING_EDID", dpcd |-> "READING_DPCD"]

Idle == ~WaitForReply /\ State = "START" /\ Quiet

(* The FPGA has not seen the command yet.                                  *)
Asked ==
  /\ WaitForReply /\ State = StateAfterSend(Cur.cmd)
  /\ Len(inbox) = 1 /\ Head(inbox).cmd = Cur.cmd
  /\ ring = <<>> /\ wire = <<>>

(* The decoder is where the rest of the answer wants it.                   *)
AnsweringRead(k) ==
  /\ Cur.cmd = ReadCmd[k]
  /\ \/ State = WaitState[k] /\ Out = <<"$">> \o fpga[k]
     \/ State = ReadState[k] /\ buf \o Out = fpga[k]
AnsweringWrite(k) == Cur.cmd = WriteCmd[k] /\ State = "WRITE_ACK" /\ Out = <<"ack">>
AnsweringPlain ==
  Cur.cmd = "PIO" /\ State = "WAIT_ACK" /\ Out \in {<<"ack">>, <<"nack">>}
Answering ==
  /\ WaitForReply /\ inbox = <<>>
  /\ AnsweringPlain \/ \E k \in Kinds : AnsweringRead(k) \/ AnsweringWrite(k)

Answered == WaitForReply /\ State = "START" /\ Quiet

TurnInv ==
  Undisturbed =>
    /\ Idle \/ Asked \/ Answering \/ Answered
    /\ pc = "send" => Idle

(* The index of the block is the one the command was queued with.          *)
IndexInv ==
  Undisturbed /\ (WaitForReply \/ pc = "send") =>
    \A k \in Kinds : Cur.cmd \in {ReadCmd[k], WriteCmd[k]} => idx[k] = Cur.param

QueuedCmds == DataCmds \cup {"PIO", NoCmd}

LinkInv ==
  /\ \A i \in Slots : queue[i].cmd \in QueuedCmds
  /\ ret = "TIMEOUT" => disturbed
  /\ TurnInv
  /\ IndexInv

(***************************************************************************)
(* The start-up: nothing but its own commands is in the queue, they leave  *)
(* it in order, and each has had its effect when it leaves.                *)
(***************************************************************************)
Starting == asks = 0 /\ ~disturbed
Gone(i) == queue[i].cmd = NoCmd
WriteSlot == [edid |-> 3, dpcd |-> 4]
ReadSlot == [edid |-> 5, dpcd |-> 6]

OrderInv ==
  /\ \A i \in Slots : Gone(i) \/ (i < 7 /\ queue[i] = Startup[i + 1])
  /\ \A i \in Slots : \A j \in 0..6 : i < j /\ ~Gone(i) => ~Gone(j)
  /\ WaitForReply \/ pc = "send" => \A i \in Slots : i < MsgIndex => Gone(i)

EffectInv ==
  \A k \in Kinds :
    /\ mem[k][0] = Default
    /\ Gone(WriteSlot[k]) => fpga[k] = Default
    /\ Gone(ReadSlot[k]) => mem[k][2] = Default
    /\ WaitForReply /\ MsgIndex = WriteSlot[k] =>
         IF inbox = <<>> THEN fpga[k] = Default ELSE Head(inbox).data = Default
    /\ WaitForReply /\ MsgIndex = ReadSlot[k] /\ State = "START" => mem[k][2] = Default

StartInv ==
  Starting => ~bypassed /\ ~lowPower /\ OrderInv /\ EffectInv


-----------------------------------------------------------------------------
(***************************************************************************)
(* Sequences of bytes on their way                                         *)
(***************************************************************************)
LEMMA MoveByte ==
  ASSUME NEW S, NEW r \in Seq(S), NEW w \in Seq(S), w # <<>>
  PROVE  Append(r, Head(w)) \o Tail(w) = r \o w
<1>. DEFINE a == Append(r, Head(w)) \o Tail(w)
            b == r \o w
<1>1. Head(w) \in S /\ Tail(w) \in Seq(S) /\ Len(Tail(w)) = Len(w) - 1
  BY HeadTail
<1>2. a \in Seq(S) /\ b \in Seq(S) /\ Len(a) = Len(b)
  BY <1>1
<1>3. ASSUME NEW i \in 1..Len(a) PROVE a[i] = b[i]
  <2>1. CASE i <= Len(r)
    BY <1>1, <2>1
  <2>2. CASE i = Len(r) + 1
    BY <1>1, <2>2
  <2>3. CASE i > Len(r) + 1
    BY <1>1, <2>3
  <2>. QED BY <1>1, <2>1, <2>2, <2>3
<1>. QED BY <1>2, <1>3, SeqEqual

LEMMA TakeByte ==
  ASSUME NEW S, NEW r \in Seq(S), NEW w \in Seq(S), r # <<>>
  PROVE  /\ r \o w # <<>> /\ Head(r \o w) = Head(r)
         /\ Tail(r \o w) = Tail(r) \o w
<1>. DEFINE a == Tail(r \o w)
            b == Tail(r) \o w
<1>1. r \o w \in Seq(S) /\ Len(r \o w) = Len(r) + Len(w) /\ Len(r) > 0
  OBVIOUS
<1>2. r \o w # <<>> /\ Head(r \o w) = Head(r)
  BY <1>1
<1>3. Tail(r) \in Seq(S) /\ Len(Tail(r)) = Len(r) - 1
  BY HeadTail
<1>4. a \in Seq(S) /\ b \in Seq(S) /\ Len(a) = Len(b)
  BY <1>1, <1>2, <1>3
<1>5. ASSUME NEW i \in 1..Len(a) PROVE a[i] = b[i]
  <2>1. a[i] = (r \o w)[i + 1]
    BY <1>1, <1>2
  <2>2. CASE i <= Len(Tail(r))
    BY <1>1, <1>3, <2>1, <2>2
  <2>3. CASE i > Len(Tail(r))
    BY <1>1, <1>3, <2>1, <2>3
  <2>. QED BY <1>3, <2>2, <2>3
<1>. QED BY <1>2, <1>4, <1>5, SeqEqual

LEMMA Whole ==
  ASSUME NEW S, NEW s \in Seq(S), NEW t \in Seq(S), NEW u \in Seq(S),
         s \o t = u, Len(s) = Len(u)
  PROVE  s = u /\ t = <<>>
<1>1. Len(t) = 0
  <2>1. Len(s \o t) = Len(s) + Len(t) /\ Len(s) \in Nat /\ Len(t) \in Nat
    OBVIOUS
  <2>. QED BY <2>1
<1>. QED BY <1>1, EmptySeq, ConcatEmptySeq

LEMMA OneByte ==
  ASSUME NEW S, NEW x \in S, NEW s \in Seq(S)
  PROVE  /\ Head(<<x>> \o s) = x /\ Tail(<<x>> \o s) = s
         /\ Head(<<x>>) = x /\ Tail(<<x>>) = <<>>
<1>1. Tail(<<x>>) = <<>> /\ Head(<<x>>) = x /\ <<x>> \in Seq(S) /\ <<x>> # <<>>
  OBVIOUS
<1>2. <<>> \o s = s
  BY ConcatEmptySeq
<1>. QED BY <1>1, <1>2, TakeByte

LEMMA Nothing ==
  ASSUME NEW S, NEW s \in Seq(S), NEW t \in Seq(S), s \o t = <<>>
  PROVE  s = <<>> /\ t = <<>>
<1>1. Len(s \o t) = Len(s) + Len(t) /\ Len(s) \in Nat /\ Len(t) \in Nat
  OBVIOUS
<1>. QED BY <1>1, EmptySeq

-----------------------------------------------------------------------------
(***************************************************************************)
(* Commands that go through the queue                                      *)
(***************************************************************************)
LEMMA QueuedCommand ==
  ASSUME NEW c \in QueuedCmds, c # NoCmd
  PROVE  /\ c \in Cmds
         /\ c \notin SingleBytes /\ c \notin RegCmds /\ c \notin StandbyCmds
         /\ c = "PIO" \/ \E k \in Kinds : c = ReadCmd[k] \/ c = WriteCmd[k]
         /\ c = "PIO" => StateAfterSend(c) = "WAIT_ACK"
         /\ \A k \in Kinds : c = ReadCmd[k] => StateAfterSend(c) = WaitState[k]
         /\ \A k \in Kinds : c = WriteCmd[k] => StateAfterSend(c) = "WRITE_ACK"
BY DEF QueuedCmds, NoCmd, DataCmds, Kinds, ReadCmd, WriteCmd, SingleBytes, RegCmds,
       StandbyCmds, Cmds, StateAfterSend, ReplyState, WaitState

(* Two commands of the queue are told apart by what they are.              *)
LEMMA Distinct ==
  /\ \A k, l \in Kinds : ReadCmd[k] # WriteCmd[l] /\ ReadCmd[k] # "PIO"
                         /\ WriteCmd[k] # "PIO"
  /\ \A k, l \in Kinds : (ReadCmd[k] = ReadCmd[l] \/ WriteCmd[k] = WriteCmd[l]
                          \/ WaitState[k] = WaitState[l] \/ ReadState[k] = ReadState[l])
                         => k = l
  /\ \A k, l \in Kinds : WaitState[k] # ReadState[l]
  /\ \A k \in Kinds : /\ WaitState[k] \notin {"START", "STOP", "WRITE_ACK", "WAIT_ACK"}
                      /\ ReadState[k] \notin {"START", "STOP", "WRITE_ACK", "WAIT_ACK"}
                      /\ ReadState[k] \notin {"READING_1BYTE", "READING_2BYTE"}
                      /\ WaitState[k] \notin Reading
                      /\ ReadState[k] \in Reading
                      /\ ReadState[k] \notin {"WAIT_EDID", "WAIT_DPCD"}
BY DEF Kinds, ReadCmd, WriteCmd, WaitState, ReadState, Reading

LEMMA LineType ==
  ASSUME IInv
  PROVE  /\ ring \in Seq(Bytes) /\ wire \in Seq(Bytes) /\ Out \in Seq(Bytes)
         /\ buf \in Seq(Bytes)
         /\ \A k \in Kinds : fpga[k] \in Seq(Bytes) /\ Len(fpga[k]) = DataLen
         /\ MsgIndex \in Slots
<1>1. ring \in Seq(Bytes) /\ wire \in Seq(Bytes) /\ buf \in Seq(Bytes)
  BY DEF IInv, TypeOK, LineTypes, DecoderTypes
<1>2. \A k \in Kinds : fpga[k] \in [1..DataLen -> Bytes]
  BY DEF IInv, TypeOK, DataTypes, Blocks
<1>3. \A k \in Kinds : fpga[k] \in Seq(Bytes) /\ Len(fpga[k]) = DataLen
  BY <1>2, SizeAssumption
<1>. QED BY <1>1, <1>3 DEF IInv, TypeOK, QueueTypes, Out

(* A step that leaves the link alone keeps what is known of it.            *)
linkVars == <<MsgIndex, idx, WaitForReply, State, buf, inbox, ring, wire, fpga,
              bypassed, disturbed>>

LEMMA LinkFrame ==
  ASSUME LinkInv, UNCHANGED linkVars, Undisturbed => Cur' = Cur, pc' # "send"
  PROVE  TurnInv' /\ IndexInv'
<1>1. UNCHANGED <<MsgIndex, idx, WaitForReply, State, buf>>
      /\ UNCHANGED <<inbox, ring, wire, fpga, bypassed, disturbed>>
  BY DEF linkVars
<1>. SUFFICES ASSUME Undisturbed, Cur' = Cur PROVE TurnInv' /\ IndexInv'
  BY <1>1 DEF TurnInv, IndexInv, Undisturbed
<1>2. Out' = Out /\ Undisturbed' = Undisturbed
  BY <1>1 DEF Out, Undisturbed
<1>3. Idle' = Idle /\ Asked' = Asked /\ Answered' = Answered
  BY <1>1 DEF Idle, Asked, Answered, Quiet
<1>4. Answering' = Answering
  BY <1>1, <1>2 DEF Answering, AnsweringPlain, AnsweringRead, AnsweringWrite
<1>5. TurnInv'
  BY <1>2, <1>3, <1>4 DEF LinkInv, TurnInv
<1>6. IndexInv'
  BY <1>1, <1>2 DEF LinkInv, IndexInv
<1>. QED BY <1>5, <1>6

-----------------------------------------------------------------------------
(***************************************************************************)
(* The decoder takes a byte of the answer.                                 *)
(***************************************************************************)
LEMMA TakesAnswer ==
  ASSUME IInv, LinkInv, Fetch, Undisturbed
  PROVE  /\ Answering /\ pc' # "send"
         /\ Head(ring) = Head(Out) /\ Tail(Out) = Out' /\ Out # <<>>
         /\ Out = <<>> \/ Append(buf, Head(ring)) \o Out' = buf \o Out
         /\ Out' = <<>> => ring' = <<>> /\ wire' = <<>>
         /\ UNCHANGED <<queueVars, inbox, fpga, bypassed, disturbed>> /\ Cur' = Cur
<1>1. ring # <<>> /\ ring' = Tail(ring) /\ pc = "drain" /\ pc' = pc
      /\ UNCHANGED <<queueVars, fpgaVars, ghostVars>>
  BY DEF Fetch
<1>2. Answering
  BY <1>1 DEF LinkInv, TurnInv, Idle, Asked, Answered, Quiet
<1>3. wire' = wire /\ UNCHANGED <<inbox, fpga, bypassed, disturbed>>
  BY <1>1 DEF fpgaVars, ghostVars
<1>4. Head(ring) = Head(Out) /\ Tail(Out) = Out' /\ Out # <<>>
  BY <1>1, <1>3, LineType, TakeByte DEF Out
<1>5. Append(buf, Head(ring)) \o Out' = buf \o Out
  BY <1>4, LineType, MoveByte
<1>6. Out' = <<>> => ring' = <<>> /\ wire' = <<>>
  <2>1. Tail(ring) \in Seq(Bytes)
    BY <1>1, LineType
  <2>. QED BY <1>1, <1>3, <2>1, LineType, Nothing DEF Out
<1>. QED BY <1>1, <1>2, <1>3, <1>4, <1>5, <1>6 DEF queueVars, Cur

(* The index and the queue are not touched by a byte.                      *)
LEMMA FetchLink ==
  ASSUME IInv, LinkInv, Fetch, WaitForReply' => WaitForReply
  PROVE  IndexInv' /\ (Undisturbed' => Undisturbed)
<1>1. UNCHANGED <<queueVars, ghostVars>> /\ pc = "drain" /\ pc' = pc
  BY DEF Fetch
<1>2. UNCHANGED <<queue, MsgIndex, idx, bypassed, disturbed>>
  BY <1>1 DEF queueVars, ghostVars
<1>. QED BY <1>1, <1>2 DEF LinkInv, IndexInv, Undisturbed, Cur

LEMMA LinkRxWaitData ==
  ASSUME IInv, LinkInv, RxWaitData
  PROVE  TurnInv' /\ IndexInv'
<1>1. Fetch /\ State \in {"WAIT_EDID", "WAIT_DPCD"} /\ WaitForReply' = WaitForReply
  BY DEF RxWaitData
<1>2. IndexInv' /\ (Undisturbed' => Undisturbed)
  BY <1>1, FetchLink
<1>3. ASSUME Undisturbed PROVE TurnInv'
  <2>1. PICK k \in Kinds : AnsweringRead(k)
    BY <1>1, <1>3, TakesAnswer
       DEF Answering, AnsweringPlain, AnsweringWrite
  <2>2. State = WaitState[k] /\ Out = <<"$">> \o fpga[k] /\ Cur.cmd = ReadCmd[k]
    BY <1>1, <2>1, Distinct DEF AnsweringRead
  <2>3. Head(ring) = "$" /\ Out' = fpga[k]
    BY <1>1, <1>3, <2>2, TakesAnswer, LineType, OneByte DEF Bytes
  <2>4. buf' = <<>> /\ State' = ReadState[k]
    BY <2>2, <2>3 DEF RxWaitData, StartByte, WaitState, ReadState, Kinds
  <2>5. <<>> \o fpga[k] = fpga[k]
    BY LineType, ConcatEmptySeq
  <2>6. UNCHANGED <<inbox, fpga>> /\ Cur' = Cur /\ WaitForReply /\ inbox = <<>> /\ pc' # "send"
    BY <1>1, <1>3, TakesAnswer DEF Answering
  <2>7. AnsweringRead(k)'
    BY <2>2, <2>3, <2>4, <2>5, <2>6 DEF AnsweringRead
  <2>8. Answering'
    BY <1>1, <2>6, <2>7 DEF Answering
  <2>. QED BY <2>6, <2>8 DEF TurnInv
<1>. QED BY <1>2, <1>3 DEF TurnInv

LEMMA LinkRxWriteAck ==
  ASSUME IInv, LinkInv, RxWriteAck
  PROVE  TurnInv' /\ IndexInv'
<1>1. Fetch /\ State = "WRITE_ACK" /\ WaitForReply' = WaitForReply
  BY DEF RxWriteAck
<1>2. IndexInv' /\ (Undisturbed' => Undisturbed)
  BY <1>1, FetchLink
<1>3. ASSUME Undisturbed PROVE TurnInv'
  <2>1. Out = <<"ack">> /\ WaitForReply /\ inbox = <<>>
    BY <1>1, <1>3, TakesAnswer, Distinct
       DEF Answering, AnsweringPlain, AnsweringWrite, AnsweringRead
  <2>2. Head(ring) = "ack" /\ Out' = <<>>
    BY <1>1, <1>3, <2>1, TakesAnswer, OneByte DEF Bytes
  <2>3. State' = "START"
    BY <2>2 DEF RxWriteAck
  <2>4. ring' = <<>> /\ wire' = <<>> /\ inbox' = inbox /\ pc' # "send"
    BY <1>1, <1>3, <2>2, TakesAnswer
  <2>. QED BY <1>1, <2>1, <2>3, <2>4 DEF TurnInv, Answered, Quiet
<1>. QED BY <1>2, <1>3 DEF TurnInv

LEMMA LinkRxCommand ==
  ASSUME IInv, LinkInv, RxCommand
  PROVE  TurnInv' /\ IndexInv'
<1>1. Fetch /\ State \in {"START", "WAIT_ACK"} /\ WaitForReply' = WaitForReply
  BY DEF RxCommand
<1>2. IndexInv' /\ (Undisturbed' => Undisturbed)
  BY <1>1, FetchLink
<1>3. ASSUME Undisturbed PROVE TurnInv'
  <2>1. Out \in {<<"ack">>, <<"nack">>} /\ WaitForReply /\ inbox = <<>>
    BY <1>1, <1>3, TakesAnswer, Distinct
       DEF Answering, AnsweringPlain, AnsweringWrite, AnsweringRead
  <2>2. Head(ring) \in {"ack", "nack"} /\ Out' = <<>>
    BY <1>1, <1>3, <2>1, TakesAnswer, OneByte DEF Bytes
  <2>3. State' = "START"
    BY <2>2 DEF RxCommand
  <2>4. ring' = <<>> /\ wire' = <<>> /\ inbox' = inbox /\ pc' # "send"
    BY <1>1, <1>3, <2>2, TakesAnswer
  <2>. QED BY <1>1, <2>1, <2>3, <2>4 DEF TurnInv, Answered, Quiet
<1>. QED BY <1>2, <1>3 DEF TurnInv

LEMMA LinkRxStop ==
  ASSUME IInv, LinkInv, RxStop
  PROVE  TurnInv' /\ IndexInv'
<1>1. Fetch /\ State = "STOP"
  BY DEF RxStop
<1>2. WaitForReply' => WaitForReply
  BY DEF RxStop, IInv, TypeOK, DecoderTypes
<1>3. IndexInv' /\ (Undisturbed' => Undisturbed)
  BY <1>1, <1>2, FetchLink
<1>4. ~Undisturbed
  BY <1>1, TakesAnswer, Distinct
     DEF Answering, AnsweringPlain, AnsweringWrite, AnsweringRead
<1>. QED BY <1>3, <1>4 DEF TurnInv

(* A byte of a block: the last one makes it whole.                         *)
LEMMA BlockByte ==
  ASSUME IInv, LinkInv, RxData, Undisturbed
  PROVE  \E k \in Kinds :
           /\ State = ReadState[k] /\ Cur.cmd = ReadCmd[k] /\ idx[k] = Cur.param
           /\ buf' \o Out' = fpga[k]
           /\ State' # ReadState[k] =>
                /\ State' = "START" /\ Out' = <<>> /\ Deliver(fpga[k])
                /\ \A j \in Kinds, i \in Indexes :
                     mem'[j][i] # mem[j][i] => j = k /\ i = idx[k] /\ mem'[j][i] = fpga[k]
                /\ mem'[k][idx[k]] = fpga[k]
           /\ State' \in {"START", ReadState[k]}
           /\ State' = ReadState[k] => mem' = mem
<1>1. Fetch /\ State \in Reading /\ buf' = Append(buf, Head(ring))
  BY DEF RxData
<1>2. PICK k \in Kinds : AnsweringRead(k)
  BY <1>1, TakesAnswer DEF Answering, AnsweringPlain, AnsweringWrite, Reading
<1>3. State = ReadState[k] /\ buf \o Out = fpga[k] /\ Cur.cmd = ReadCmd[k]
  BY <1>1, <1>2, Distinct DEF AnsweringRead
<1>4. buf' \o Out' = fpga[k]
  BY <1>1, <1>3, TakesAnswer
<1>5. idx[k] = Cur.param
  BY <1>1, <1>3, TakesAnswer DEF LinkInv, IndexInv, Answering
<1>6. CASE Len(buf') >= ReplySize(State)
  <2>1. State' = "START" /\ Deliver(buf')
    BY <1>1, <1>6 DEF RxData
  <2>2. ReplySize(State) = DataLen
    BY <1>3 DEF ReplySize, ReadState, Kinds
  <2>3. buf \in Seq(Bytes) /\ Len(buf) < DataLen /\ Head(ring) \in Bytes
    BY <1>1, <2>2, FetchOK DEF IInv, TypeOK, DecoderTypes
  <2>4. buf' \in Seq(Bytes) /\ Len(buf') = DataLen
    BY <1>1, <1>6, <2>2, <2>3, SizeAssumption
  <2>5. Out' \in Seq(Bytes)
    <3>1. Out' = Tail(Out) /\ Out # <<>> /\ Out \in Seq(Bytes)
      BY <1>1, TakesAnswer, LineType
    <3>. QED BY <3>1
  <2>6. buf' = fpga[k] /\ Out' = <<>>
    BY <1>4, <2>4, <2>5, LineType, Whole
  <2>7. mem \in [Kinds -> [Indexes -> Blocks]] /\ idx[k] \in Indexes
    BY DEF IInv, TypeOK, DataTypes, QueueTypes
  <2>8. mem' = [mem EXCEPT ![k] = [@ EXCEPT ![idx[k]] = fpga[k]]]
    <3>1. CASE k = "edid"
      BY <1>3, <2>1, <2>6, <3>1 DEF Deliver, ReadState
    <3>2. CASE k = "dpcd"
      BY <1>3, <2>1, <2>6, <3>2 DEF Deliver, ReadState
    <3>. QED BY <3>1, <3>2 DEF Kinds
  <2>9. /\ \A j \in Kinds, i \in Indexes :
             mem'[j][i] # mem[j][i] => j = k /\ i = idx[k] /\ mem'[j][i] = fpga[k]
        /\ mem'[k][idx[k]] = fpga[k]
    BY <2>7, <2>8
  <2>10. Deliver(fpga[k])
    BY <2>1, <2>6
  <2>. QED BY <1>3, <1>4, <1>5, <2>1, <2>6, <2>9, <2>10, Distinct
<1>7. CASE ~(Len(buf') >= ReplySize(State))
  <2>1. State' = State /\ mem' = mem
    BY <1>1, <1>7 DEF RxData, dataVars
  <2>. QED BY <1>3, <1>4, <1>5, <2>1
<1>. QED BY <1>6, <1>7

LEMMA LinkRxData ==
  ASSUME IInv, LinkInv, RxData
  PROVE  TurnInv' /\ IndexInv'
<1>1. Fetch /\ WaitForReply' = WaitForReply
  BY DEF RxData
<1>2. IndexInv' /\ (Undisturbed' => Undisturbed)
  BY <1>1, FetchLink
<1>3. ASSUME Undisturbed PROVE TurnInv'
  <2>1. PICK k \in Kinds :
          /\ State = ReadState[k] /\ Cur.cmd = ReadCmd[k]
          /\ buf' \o Out' = fpga[k]
          /\ State' # ReadState[k] => State' = "START" /\ Out' = <<>>
    BY <1>3, BlockByte
  <2>2. /\ UNCHANGED <<inbox, fpga>> /\ Cur' = Cur /\ WaitForReply /\ inbox = <<>>
        /\ pc' # "send" /\ (Out' = <<>> => ring' = <<>> /\ wire' = <<>>)
    BY <1>1, <1>3, TakesAnswer DEF Answering
  <2>3. CASE State' = ReadState[k]
    <3>1. AnsweringRead(k)'
      BY <2>1, <2>2, <2>3 DEF AnsweringRead
    <3>. QED BY <1>1, <2>2, <3>1 DEF TurnInv, Answering
  <2>4. CASE State' # ReadState[k]
    BY <1>1, <2>1, <2>2, <2>4 DEF TurnInv, Answered, Quiet
  <2>. QED BY <2>3, <2>4
<1>. QED BY <1>2, <1>3 DEF TurnInv


-----------------------------------------------------------------------------
(***************************************************************************)
(* The rest of GOWIN_Protocol, the main loop, interrupts and the FPGA.     *)
(***************************************************************************)
LEMMA LinkUntouched ==
  ASSUME IInv, LinkInv, Poll \/ StillWaiting
  PROVE  TurnInv' /\ IndexInv'
<1>1. UNCHANGED <<queueVars, fpgaVars, ghostVars>>
      \/ UNCHANGED <<queueVars, fpgaVars, bypassed, disturbed>>
  BY DEF Poll, StillWaiting
<1>2. UNCHANGED <<queue, MsgIndex, idx, inbox, wire, fpga, bypassed, disturbed>>
  BY <1>1 DEF queueVars, fpgaVars, ghostVars
<1>3. UNCHANGED <<WaitForReply, State, buf>> /\ pc' # "send"
  BY DEF Poll, StillWaiting, protoVars
<1>4. ring' = ring
  BY DEF Poll, StillWaiting, uartVars
<1>. QED BY <1>2, <1>3, <1>4, LinkFrame DEF linkVars, Cur

LEMMA LinkReplyTimedOut ==
  ASSUME ReplyTimedOut
  PROVE  TurnInv' /\ IndexInv'
BY DEF ReplyTimedOut, TurnInv, IndexInv, Undisturbed

LEMMA NotStart ==
  ASSUME NEW c
  PROVE  StateAfterSend(c) # "START"
BY DEF StateAfterSend, ReplyState

(* A slot is released when the answer has been taken to its end.           *)
LEMMA ReleaseQuiet ==
  ASSUME LinkInv, Undisturbed, ReleaseSlot
  PROVE  Answered
<1>1. State = "START" /\ WaitForReply
  BY DEF ReleaseSlot
<1>2. ~Idle /\ ~Asked
  BY <1>1, NotStart DEF Idle, Asked
<1>3. ~Answering
  BY <1>1, Distinct DEF Answering, AnsweringPlain, AnsweringRead, AnsweringWrite
<1>. QED BY <1>2, <1>3 DEF LinkInv, TurnInv

LEMMA LinkReleaseSlot ==
  ASSUME LinkInv, ReleaseSlot
  PROVE  TurnInv' /\ IndexInv'
<1>1. /\ WaitForReply' = FALSE /\ pc' = "after" /\ State = "START"
      /\ UNCHANGED <<State, fpgaVars, uartVars, ghostVars>>
  BY DEF ReleaseSlot
<1>2. UNCHANGED <<inbox, wire, ring, bypassed, disturbed>>
  BY <1>1 DEF fpgaVars, uartVars, ghostVars
<1>3. ASSUME Undisturbed PROVE Idle'
  <2>1. Quiet
    BY <1>3, ReleaseQuiet DEF Answered
  <2>. QED BY <1>1, <1>2, <2>1 DEF Idle, Quiet
<1>. QED BY <1>1, <1>2, <1>3 DEF TurnInv, IndexInv, Undisturbed

(* The loop is left with an empty ring or with a whole answer: when nothing *)
(* is waited for, nothing is on the way.                                   *)
LEMMA LinkProcessQueue ==
  ASSUME IInv, LinkInv, ProcessQueue
  PROVE  TurnInv' /\ IndexInv'
<1>1. /\ State = "START" /\ ~WaitForReply
      /\ UNCHANGED <<queue, protoVars, uartVars, fpgaVars, ghostVars>>
  BY DEF ProcessQueue
<1>2. UNCHANGED <<State, WaitForReply, inbox, wire, ring, bypassed, disturbed>>
  BY <1>1 DEF protoVars, fpgaVars, uartVars, ghostVars
<1>3. ASSUME Undisturbed PROVE Idle'
  <2>1. Idle
    BY <1>1, <1>3 DEF LinkInv, TurnInv, Asked, Answering, Answered
  <2>. QED BY <1>2, <2>1 DEF Idle, Quiet
<1>4. ASSUME pc' = "send" PROVE IndexInv'
  <2>. DEFINE next == Lowest({i \in Slots : queue[i].cmd # NoCmd})
  <2>1. ~Drained
    BY <1>4 DEF ProcessQueue
  <2>2. MsgIndex' = next /\ idx' = [k \in Kinds |-> IndexOf(queue[next], k)]
    BY <2>1 DEF ProcessQueue
  <2>3. Cur' = queue[next]
    BY <1>1, <2>2 DEF Cur
  <2>. QED BY <2>2, <2>3 DEF IndexInv, IndexOf
<1>5. ASSUME pc' # "send" PROVE IndexInv'
  BY <1>1, <1>2, <1>5 DEF IndexInv
<1>. QED BY <1>2, <1>3, <1>4, <1>5 DEF TurnInv, Undisturbed

LEMMA LinkSendQueued ==
  ASSUME IInv, LinkInv, SendQueued
  PROVE  TurnInv' /\ IndexInv'
<1>. DEFINE c == Cur.cmd
            m == [cmd |-> c, data |-> Payload(c)]
<1>1. /\ pc = "send" /\ pc' = "after" /\ TX_SendMsg(c)
      /\ UNCHANGED <<queueVars, uartVars, wire, bypassed, disturbed>>
  BY DEF SendQueued, Cur
<1>2. UNCHANGED <<queue, MsgIndex, idx, ring, wire, bypassed, disturbed>>
  BY <1>1 DEF queueVars, uartVars
<1>3. c \in QueuedCmds /\ c # NoCmd
  BY <1>1, LineType DEF IInv, SlotsOK, LinkInv, Cur
<1>4. WaitForReply' = TRUE /\ inbox' = Append(inbox, m) /\ State' = StateAfterSend(c)
  BY <1>1, <1>3, QueuedCommand DEF TX_SendMsg
<1>5. ASSUME Undisturbed PROVE Asked'
  <2>1. Quiet
    BY <1>1, <1>5 DEF LinkInv, TurnInv, Idle
  <2>2. Len(inbox') = 1 /\ Head(inbox') = m
    BY <1>4, <2>1 DEF Quiet
  <2>. QED BY <1>2, <1>4, <2>1, <2>2 DEF Asked, Quiet, Cur
<1>6. IndexInv'
  BY <1>1, <1>2 DEF LinkInv, IndexInv, Undisturbed, Cur
<1>. QED BY <1>1, <1>2, <1>5, <1>6 DEF TurnInv, Undisturbed

LEMMA LinkEndOfLoop ==
  ASSUME IInv, LinkInv, EndOfLoop
  PROVE  TurnInv' /\ IndexInv'
<1>1. CASE ~Undisturbed'
  BY <1>1 DEF TurnInv, IndexInv
<1>2. CASE Undisturbed'
  <2>1. ~(lowPower /\ delay = 1) /\ disturbed' = disturbed
    BY <1>2 DEF EndOfLoop, Undisturbed
  <2>2. UNCHANGED <<protoVars, lowPower, inbox, waited, bypassed>>
    BY <2>1 DEF EndOfLoop
  <2>3. ret # "TIMEOUT"
    BY <1>2, <2>1 DEF LinkInv, Undisturbed
  <2>4. UNCHANGED <<queue, MsgIndex, sent>>
    BY <2>3 DEF EndOfLoop
  <2>5. UNCHANGED <<idx, uartVars, wire, fpga>> /\ pc' = "main"
    BY DEF EndOfLoop
  <2>6. UNCHANGED linkVars
    BY <2>1, <2>2, <2>4, <2>5 DEF linkVars, protoVars, uartVars
  <2>. QED BY <2>4, <2>5, <2>6, LinkFrame DEF Cur
<1>. QED BY <1>1, <1>2

LEMMA LinkRequest ==
  ASSUME IInv, LinkInv, NEW r \in Requests, Request(r[1], r[2])
  PROVE  TurnInv' /\ IndexInv'
<1>1. /\ pc = "main" /\ queue' = [queue EXCEPT ![NewId] = Msg(r[1], r[2])]
      /\ bypassed' = (bypassed \/ Full)
      /\ UNCHANGED <<MsgIndex, idx, protoVars, uartVars, pc, fpgaVars, disturbed>>
  BY DEF Request
<1>2. /\ UNCHANGED <<MsgIndex, idx, pc, disturbed>>
      /\ UNCHANGED <<WaitForReply, State, buf, inbox, ring, wire, fpga>>
  BY <1>1 DEF protoVars, uartVars, fpgaVars
<1>. SUFFICES ASSUME Undisturbed' PROVE TurnInv' /\ IndexInv'
  BY DEF TurnInv, IndexInv
<1>3. ~Full /\ Undisturbed
  BY <1>1 DEF Undisturbed, IInv, TypeOK, LoopTypes
<1>4. CASE Idle
  BY <1>1, <1>2, <1>4 DEF TurnInv, IndexInv, Idle, Quiet
<1>5. CASE ~Idle
  <2>1. WaitForReply
    BY <1>3, <1>5 DEF LinkInv, TurnInv, Asked, Answering, Answered
  <2>2. Cur.cmd # NoCmd
    BY <1>3, <2>1 DEF IInv, SlotsOK, Undisturbed, Cur
  <2>3. NewId # MsgIndex /\ NewId \in Slots
    BY <1>3, <2>2, NewIdOK DEF Cur, IInv, TypeOK
  <2>4. Cur' = Cur
    BY <1>1, <1>2, <2>3, LineType DEF Cur, IInv, TypeOK, QueueTypes
  <2>5. bypassed' = bypassed
    BY <1>1, <1>3 DEF IInv, TypeOK, LoopTypes
  <2>. QED BY <1>1, <1>2, <2>4, <2>5, LinkFrame DEF linkVars
<1>. QED BY <1>4, <1>5

LEMMA LinkGowinIrq ==
  ASSUME IInv, LinkInv, NEW overrun \in BOOLEAN, GowinIrq(overrun)
  PROVE  TurnInv' /\ IndexInv'
<1>1. /\ wire # <<>>
      /\ UNCHANGED <<queueVars, protoVars, pc, inbox, fpga, bypassed>>
  BY DEF GowinIrq
<1>2. /\ UNCHANGED <<queue, MsgIndex, idx, pc, inbox, fpga, bypassed>>
      /\ UNCHANGED <<WaitForReply, State, buf>>
  BY <1>1 DEF queueVars, protoVars
<1>. SUFFICES ASSUME Undisturbed' PROVE TurnInv' /\ IndexInv'
  BY DEF TurnInv, IndexInv
<1>3. ~overrun
  BY DEF GowinIrq, Undisturbed
<1>4. Len(ring) + 1 # RingSize /\ disturbed' = disturbed
  BY <1>3 DEF GowinIrq, Undisturbed, IInv, TypeOK, LoopTypes
<1>5. ring' = Append(ring, Head(wire)) /\ wire' = Tail(wire)
  BY <1>3, <1>4 DEF GowinIrq
<1>6. Out' = Out
  BY <1>1, <1>5, LineType, MoveByte DEF Out
<1>7. Undisturbed
  BY <1>2, <1>4 DEF Undisturbed
<1>8. Answering /\ pc # "send"
  BY <1>1, <1>7 DEF LinkInv, TurnInv, Idle, Asked, Answered, Quiet
<1>9. Answering'
  BY <1>2, <1>6, <1>8
     DEF Answering, AnsweringPlain, AnsweringRead, AnsweringWrite, Cur
<1>10. IndexInv'
  BY <1>2, <1>4 DEF LinkInv, IndexInv, Undisturbed, Cur
<1>. QED BY <1>2, <1>8, <1>9, <1>10 DEF TurnInv

LEMMA LinkDirect ==
  ASSUME NEW c \in DirectCmds, Direct(c)
  PROVE  TurnInv' /\ IndexInv'
BY DEF Direct, TurnInv, IndexInv, Undisturbed

(* The FPGA takes the only command there is and answers it.                *)
LEMMA TakesCommand ==
  ASSUME IInv, LinkInv, Undisturbed, NEW refuse \in BOOLEAN, Execute(refuse)
  PROVE  /\ Asked /\ pc # "send" /\ Head(inbox).cmd = Cur.cmd /\ inbox' = <<>>
         /\ ring' = <<>> /\ Out' = IF refuse THEN <<"nack">> ELSE Answer(Cur.cmd)
         /\ refuse => Cur.cmd = "PIO"
         /\ fpga' = [k \in Kinds |-> IF Cur.cmd = WriteCmd[k] THEN Head(inbox).data
                                                             ELSE fpga[k]]
         /\ Cur.cmd \in QueuedCmds /\ Cur.cmd # NoCmd
<1>1. inbox # <<>>
  BY DEF Execute
<1>2. Asked /\ pc # "send"
  BY <1>1 DEF LinkInv, TurnInv, Idle, Answering, Answered, Quiet
<1>3. Head(inbox).cmd = Cur.cmd /\ Len(inbox) = 1 /\ ring = <<>> /\ wire = <<>>
      /\ WaitForReply
  BY <1>2 DEF Asked
<1>4. inbox' = <<>>
  <2>1. inbox \in Seq(Commands) /\ inbox' = Tail(inbox)
    BY DEF IInv, TypeOK, DataTypes, Execute
  <2>2. Tail(inbox) \in Seq(Commands) /\ Len(Tail(inbox)) = 0
    BY <1>1, <1>3, <2>1, HeadTail
  <2>. QED BY <2>1, <2>2, EmptySeq
<1>5. Cur.cmd \in QueuedCmds /\ Cur.cmd # NoCmd
  BY <1>3, LineType DEF IInv, SlotsOK, LinkInv, Undisturbed, Cur
<1>6. Cur.cmd \in Cmds
  BY <1>5, QueuedCommand
<1>7. ring' = <<>>
  BY <1>3 DEF Execute, uartVars
<1>8. Out' = IF refuse THEN <<"nack">> ELSE Answer(Cur.cmd)
  <2>. DEFINE a == IF refuse THEN <<"nack">> ELSE Answer(Cur.cmd)
  <2>1. <<"nack">> \in Seq(Bytes) /\ Answer(Cur.cmd) \in Seq(Bytes)
    BY <1>6, AnswerOK DEF IInv, TypeOK, Bytes
  <2>2. wire' = wire \o a
    BY <1>3 DEF Execute
  <2>3. wire' = a
    BY <1>3, <2>1, <2>2, ConcatEmptySeq
  <2>. QED BY <1>7, <2>1, <2>3, ConcatEmptySeq DEF Out
<1>9. refuse => Cur.cmd = "PIO"
  BY <1>3 DEF Execute
<1>10. fpga' = [k \in Kinds |-> IF Cur.cmd = WriteCmd[k] THEN Head(inbox).data
                                                        ELSE fpga[k]]
  BY <1>3 DEF Execute
<1>. QED BY <1>2, <1>3, <1>4, <1>5, <1>7, <1>8, <1>9, <1>10

LEMMA LinkExecute ==
  ASSUME IInv, LinkInv, NEW refuse \in BOOLEAN, Execute(refuse)
  PROVE  TurnInv' /\ IndexInv'
<1>1. UNCHANGED <<queueVars, protoVars, pc, ghostVars>>
  BY DEF Execute
<1>2. /\ UNCHANGED <<queue, MsgIndex, idx, pc, bypassed, disturbed>>
      /\ UNCHANGED <<WaitForReply, State, buf>>
  BY <1>1 DEF queueVars, protoVars, ghostVars
<1>3. IndexInv' /\ (Undisturbed' => Undisturbed)
  BY <1>2 DEF LinkInv, IndexInv, Undisturbed, Cur
<1>4. ASSUME Undisturbed PROVE Answering' /\ pc # "send"
  <2>1. /\ Asked /\ pc # "send" /\ inbox' = <<>>
        /\ Out' = IF refuse THEN <<"nack">> ELSE Answer(Cur.cmd)
        /\ refuse => Cur.cmd = "PIO"
        /\ fpga' = [k \in Kinds |-> IF Cur.cmd = WriteCmd[k] THEN Head(inbox).data
                                                             ELSE fpga[k]]
        /\ Cur.cmd \in QueuedCmds /\ Cur.cmd # NoCmd
    BY <1>4, TakesCommand
  <2>2. WaitForReply' /\ State' = StateAfterSend(Cur.cmd) /\ Cur' = Cur
    BY <1>2, <2>1 DEF Asked, Cur
  <2>3. CASE Cur.cmd = "PIO"
    <3>1. Out' \in {<<"ack">>, <<"nack">>}
      BY <2>1, <2>3 DEF Answer
    <3>2. AnsweringPlain'
      BY <2>1, <2>2, <2>3, <3>1, QueuedCommand DEF AnsweringPlain
    <3>. QED BY <2>1, <2>2, <3>2 DEF Answering
  <2>4. ASSUME NEW k \in Kinds, Cur.cmd = ReadCmd[k] PROVE Answering'
    <3>1. Out' = <<"$">> \o fpga[k]
      BY <2>1, <2>4, Distinct DEF Answer, ReadCmd, Kinds
    <3>2. fpga'[k] = fpga[k]
      BY <2>1, <2>4, Distinct
    <3>3. AnsweringRead(k)'
      BY <2>1, <2>2, <2>4, <3>1, <3>2, QueuedCommand DEF AnsweringRead
    <3>. QED BY <2>1, <2>2, <3>3 DEF Answering
  <2>5. ASSUME NEW k \in Kinds, Cur.cmd = WriteCmd[k] PROVE Answering'
    <3>1. Out' = <<"ack">>
      BY <2>1, <2>5, Distinct DEF Answer, WriteCmd, Kinds
    <3>2. AnsweringWrite(k)'
      BY <2>1, <2>2, <2>5, <3>1, QueuedCommand DEF AnsweringWrite
    <3>. QED BY <2>1, <2>2, <3>2 DEF Answering
  <2>. QED BY <2>1, <2>3, <2>4, <2>5, QueuedCommand
<1>. QED BY <1>2, <1>3, <1>4 DEF TurnInv

LEMMA LinkLine ==
  ASSUME LoseCommand \/ LoseByte \/ Babble \/ WakeUp
  PROVE  TurnInv' /\ IndexInv'
BY DEF LoseCommand, LoseByte, Babble, WakeUp, Fault, TurnInv, IndexInv, Undisturbed

-----------------------------------------------------------------------------
(***************************************************************************)
(* The invariant of the link is inductive.                                 *)
(***************************************************************************)
LEMMA LinkInit == Init => LinkInv
<1>. SUFFICES ASSUME Init PROVE LinkInv
  OBVIOUS
<1>1. \A i \in Slots : queue[i].cmd \in QueuedCmds
  <2>1. \A i \in 1..7 : Startup[i].cmd \in QueuedCmds
    BY DEF Startup, Msg, QueuedCmds, DataCmds, Kinds, ReadCmd, WriteCmd
  <2>2. Empty.cmd \in QueuedCmds
    BY DEF Empty, Msg, QueuedCmds
  <2>3. \A i \in Slots : i < 7 => i + 1 \in 1..7
    BY SizeAssumption DEF Slots
  <2>. QED BY <2>1, <2>2, <2>3 DEF Init
<1>2. Idle /\ pc = "main" /\ ret = "NONE" /\ ~WaitForReply
  BY DEF Init, Idle, Quiet
<1>. QED BY <1>1, <1>2 DEF LinkInv, TurnInv, IndexInv

LEMMA QueuedKept ==
  ASSUME IInv, LinkInv, [Next]_vars
  PROVE  /\ \A i \in Slots : queue'[i].cmd \in QueuedCmds
         /\ ret' = "TIMEOUT" => disturbed'
<1>1. \A i \in Slots : queue[i].cmd \in QueuedCmds
  BY DEF LinkInv
<1>2. \A i \in Slots : queue'[i].cmd \in QueuedCmds
  <2>1. CASE ReleaseSlot
    BY <1>1, <2>1 DEF ReleaseSlot, IInv, TypeOK, QueueTypes, QueuedCmds
  <2>2. CASE EndOfLoop
    BY <1>1, <2>2 DEF EndOfLoop, Empty, Msg, QueuedCmds
  <2>3. CASE \E r \in Requests : Request(r[1], r[2])
    <3>1. PICK r \in Requests : Request(r[1], r[2])
      BY <2>3
    <3>2. r[1] \in QueuedCmds
      BY DataAssumption DEF QueuedCmds
    <3>3. queue' = [queue EXCEPT ![NewId] = Msg(r[1], r[2])]
      BY <3>1 DEF Request
    <3>4. \A i \in Slots : queue'[i] = queue[i] \/ queue'[i].cmd = r[1]
      BY <3>3 DEF IInv, TypeOK, QueueTypes, Msg
    <3>. QED BY <1>1, <3>2, <3>4
  <2>4. CASE UNCHANGED queue
    BY <1>1, <2>4
  <2>. QED
    BY <2>1, <2>2, <2>3, <2>4
       DEF Next, MainLoop, Poll, RxWaitData, RxWriteAck, RxData, RxCommand, RxStop,
           Fetch, ReplyTimedOut, StillWaiting, ProcessQueue, SendQueued, GowinIrq,
           Direct, Execute, LoseCommand, LoseByte, Babble, WakeUp, Fault, queueVars, vars
<1>3. ret' = "TIMEOUT" => disturbed'
  <2>1. ret = "TIMEOUT" => disturbed
    BY DEF LinkInv
  <2>2. CASE RxData
    BY <2>1, <2>2 DEF RxData, Fetch, ghostVars
  <2>3. CASE RxCommand \/ RxStop
    BY <2>1, <2>3 DEF RxCommand, RxStop, Fetch, ghostVars
  <2>4. CASE ReplyTimedOut \/ EndOfLoop
    BY <2>4 DEF ReplyTimedOut, EndOfLoop
  <2>5. CASE \E overrun \in BOOLEAN : GowinIrq(overrun)
    BY <2>1, <2>5 DEF GowinIrq
  <2>6. CASE LoseCommand \/ LoseByte \/ Babble \/ WakeUp
    BY <2>6 DEF LoseCommand, LoseByte, Babble, WakeUp, Fault
  <2>7. CASE UNCHANGED <<ret, disturbed>>
    BY <2>1, <2>7
  <2>. QED
    BY <2>2, <2>3, <2>4, <2>5, <2>6, <2>7
       DEF Next, MainLoop, Poll, RxWaitData, RxWriteAck, Request, Direct, Execute,
           Fetch, StillWaiting, ReleaseSlot, ProcessQueue, SendQueued, ghostVars, vars
<1>. QED BY <1>2, <1>3

LEMMA LinkNext == IInv /\ LinkInv /\ [Next]_vars => LinkInv'
<1>. SUFFICES ASSUME IInv, LinkInv, [Next]_vars PROVE LinkInv'
  OBVIOUS
<1>1. CASE MainLoop
  BY <1>1, LinkUntouched, LinkRxWaitData, LinkRxWriteAck, LinkRxData, LinkRxCommand,
     LinkRxStop, LinkReplyTimedOut, LinkReleaseSlot, LinkProcessQueue, LinkSendQueued,
     LinkEndOfLoop, QueuedKept
     DEF MainLoop, LinkInv
<1>2. CASE \E r \in Requests : Request(r[1], r[2])
  BY <1>2, LinkRequest, QueuedKept DEF LinkInv
<1>3. CASE \E overrun \in BOOLEAN : GowinIrq(overrun)
  BY <1>3, LinkGowinIrq, QueuedKept DEF LinkInv
<1>4. CASE \E c \in DirectCmds : Direct(c)
  BY <1>4, LinkDirect, QueuedKept DEF LinkInv
<1>5. CASE \E refuse \in BOOLEAN : Execute(refuse)
  BY <1>5, LinkExecute, QueuedKept DEF LinkInv
<1>6. CASE LoseCommand \/ LoseByte \/ Babble \/ WakeUp
  BY <1>6, LinkLine, QueuedKept DEF LinkInv
<1>7. CASE UNCHANGED vars
  <2>1. /\ UNCHANGED <<queueVars, protoVars, uartVars, fpgaVars, ghostVars>>
        /\ pc' = pc
    BY <1>7 DEF vars
  <2>2. /\ UNCHANGED <<queue, MsgIndex, idx, pc, bypassed, disturbed>>
        /\ UNCHANGED <<WaitForReply, State, buf, inbox, ring, wire, fpga>>
    BY <2>1 DEF queueVars, protoVars, uartVars, fpgaVars, ghostVars
  <2>3. TurnInv' /\ IndexInv'
    BY <2>2 DEF LinkInv, TurnInv, IndexInv, Undisturbed, Cur, Idle, Asked, Answered,
                Answering, AnsweringPlain, AnsweringRead, AnsweringWrite, Out, Quiet
  <2>. QED BY <2>3, QueuedKept DEF LinkInv
<1>. QED BY <1>1, <1>2, <1>3, <1>4, <1>5, <1>6, <1>7 DEF Next

LEMMA LinkInductive == Spec => [](IInv /\ LinkInv)
BY InitInv, NextInv, LinkInit, LinkNext, PTL DEF Spec

(* On an undisturbed link a slot is released, and the next command can go  *)
(* out, only when the FPGA has nothing left to say to the last one: the    *)
(* decoder ends a reply at its last byte, for every block length.          *)
THEOREM CommandsOneAtATime == Spec => OneAtATime
<1>. DEFINE One == ~bypassed /\ ~disturbed /\ queue' # queue /\ asks' = asks =>
                     inbox = <<>> /\ wire = <<>> /\ ring = <<>>
<1>1. ASSUME IInv, LinkInv, [Next]_vars PROVE [One]_vars
  <2>. SUFFICES ASSUME Undisturbed, queue' # queue, asks' = asks PROVE Quiet
    BY DEF Undisturbed, Quiet
  <2>1. CASE ReleaseSlot
    BY <2>1, <1>1, ReleaseQuiet DEF Answered
  <2>2. CASE EndOfLoop
    BY <2>2, <1>1 DEF EndOfLoop, LinkInv, Undisturbed
  <2>3. CASE \E r \in Requests : Request(r[1], r[2])
    BY <2>3, <1>1 DEF Request, IInv, TypeOK, LoopTypes
  <2>4. CASE UNCHANGED queue
    BY <2>4
  <2>. QED
    BY <1>1, <2>1, <2>2, <2>3, <2>4
       DEF Next, MainLoop, Poll, RxWaitData, RxWriteAck, RxData, RxCommand, RxStop,
           Fetch, ReplyTimedOut, StillWaiting, ProcessQueue, SendQueued, GowinIrq,
           Direct, Execute, LoseCommand, LoseByte, Babble, WakeUp, Fault, queueVars, vars
<1>. QED BY <1>1, LinkInductive, PTL DEF Spec, OneAtATime

(* On an undisturbed link a readback puts the FPGA's block, whole, into    *)
(* the entry of the data map that was asked for, whatever bytes the block  *)
(* has: control bytes inside it are not taken for framing.                 *)
THEOREM ReadbacksIntact == Spec => ReadbackIntact
<1>. DEFINE Intact == ~bypassed /\ ~disturbed =>
              \A k \in Kinds, i \in Indexes :
                mem'[k][i] # mem[k][i] =>
                  mem'[k][i] = fpga[k] /\ queue[MsgIndex] = Msg(ReadCmd[k], i)
<1>1. ASSUME IInv, LinkInv, [Next]_vars PROVE [Intact]_vars
  <2>. SUFFICES ASSUME Undisturbed, NEW k \in Kinds, NEW i \in Indexes,
                       mem'[k][i] # mem[k][i]
                PROVE  mem'[k][i] = fpga[k] /\ Cur = Msg(ReadCmd[k], i)
    BY DEF Undisturbed, Cur
  <2>1. CASE RxData
    <3>1. PICK j \in Kinds :
            /\ Cur.cmd = ReadCmd[j] /\ idx[j] = Cur.param
            /\ State' # ReadState[j] =>
                 \A l \in Kinds, n \in Indexes :
                   mem'[l][n] # mem[l][n] => l = j /\ n = idx[j] /\ mem'[l][n] = fpga[j]
            /\ State' = ReadState[j] => mem' = mem
      BY <1>1, <2>1, BlockByte
    <3>2. k = j /\ i = idx[j] /\ mem'[k][i] = fpga[k]
      BY <3>1
    <3>3. Cur \in [cmd : Cmds \cup {NoCmd}, param : Indexes]
      BY <1>1, LineType DEF Cur, IInv, TypeOK, QueueTypes
    <3>. QED BY <3>1, <3>2, <3>3 DEF Msg
  <2>2. CASE UNCHANGED mem
    BY <2>2
  <2>. QED
    BY <1>1, <2>1, <2>2
       DEF Next, MainLoop, Poll, RxWaitData, RxWriteAck, RxCommand, RxStop, Request,
           Fetch, ReplyTimedOut, StillWaiting, ReleaseSlot, ProcessQueue, SendQueued,
           EndOfLoop, GowinIrq, Direct, Execute, LoseCommand, LoseByte, Babble, WakeUp,
           Fault, dataVars, vars
<1>. QED BY <1>1, LinkInductive, PTL DEF Spec, ReadbackIntact


-----------------------------------------------------------------------------
(***************************************************************************)
(* The start-up commands, in their order.                                  *)
(***************************************************************************)
LEMMA StartupSlots ==
  /\ \A k \in Kinds : /\ WriteSlot[k] \in Slots /\ ReadSlot[k] \in Slots
                      /\ WriteSlot[k] \in 0..6 /\ ReadSlot[k] \in 0..6
                      /\ WriteSlot[k] < ReadSlot[k]
  /\ \A k, l \in Kinds : WriteSlot[k] # ReadSlot[l]
  /\ \A k \in Kinds : /\ Startup[WriteSlot[k] + 1] = Msg(WriteCmd[k], 0)
                      /\ Startup[ReadSlot[k] + 1] = Msg(ReadCmd[k], 2)
  /\ \A k \in Kinds, i \in 0..6 :
       /\ Startup[i + 1].cmd = WriteCmd[k] => i = WriteSlot[k]
       /\ Startup[i + 1].cmd = ReadCmd[k] => i = ReadSlot[k]
  /\ \A i \in 0..6 : Startup[i + 1].cmd # NoCmd
<1>1. \A i \in 0..6 : i \in Slots
  BY SizeAssumption DEF Slots
<1>2. \A i \in 0..6 : i = 0 \/ i = 1 \/ i = 2 \/ i = 3 \/ i = 4 \/ i = 5 \/ i = 6
  OBVIOUS
<1>3. /\ Startup[1] = Msg("PIO", 0) /\ Startup[2] = Msg("PIO", 0)
      /\ Startup[3] = Msg("PIO", 0) /\ Startup[4] = Msg("WRITE_EDID", 0)
      /\ Startup[5] = Msg("WRITE_DPCD", 0) /\ Startup[6] = Msg("READ_EDID", 2)
      /\ Startup[7] = Msg("READ_DPCD", 2)
  BY DEF Startup
<1>4. \A k \in Kinds : /\ WriteSlot[k] \in 0..6 /\ ReadSlot[k] \in 0..6
                       /\ WriteSlot[k] < ReadSlot[k]
  BY DEF Kinds, WriteSlot, ReadSlot
<1>5. \A k, l \in Kinds : WriteSlot[k] # ReadSlot[l]
  BY DEF Kinds, WriteSlot, ReadSlot
<1>6. \A k \in Kinds : /\ Startup[WriteSlot[k] + 1] = Msg(WriteCmd[k], 0)
                       /\ Startup[ReadSlot[k] + 1] = Msg(ReadCmd[k], 2)
  BY <1>3 DEF Kinds, WriteSlot, ReadSlot, WriteCmd, ReadCmd
<1>7. ASSUME NEW k \in Kinds, NEW i \in 0..6
      PROVE  /\ Startup[i + 1].cmd = WriteCmd[k] => i = WriteSlot[k]
             /\ Startup[i + 1].cmd = ReadCmd[k] => i = ReadSlot[k]
             /\ Startup[i + 1].cmd # NoCmd
  BY <1>2, <1>3 DEF Msg, NoCmd, Kinds, WriteSlot, ReadSlot, WriteCmd, ReadCmd
<1>. QED BY <1>1, <1>4, <1>5, <1>6, <1>7 DEF Kinds

(* The command being served is a start-up command, and those before it     *)
(* have left.                                                              *)
LEMMA Serving ==
  ASSUME IInv, LinkInv, StartInv, Starting, WaitForReply \/ pc = "send"
  PROVE  /\ Undisturbed
         /\ MsgIndex \in 0..6 /\ ~Gone(MsgIndex) /\ Cur = Startup[MsgIndex + 1]
         /\ \A i \in Slots : i < MsgIndex => Gone(i)
         /\ \A k \in Kinds : /\ Cur.cmd = WriteCmd[k] <=> MsgIndex = WriteSlot[k]
                             /\ Cur.cmd = ReadCmd[k] <=> MsgIndex = ReadSlot[k]
         /\ \A k \in Kinds : /\ Cur.cmd = WriteCmd[k] => idx[k] = 0
                             /\ Cur.cmd = ReadCmd[k] => idx[k] = 2
<1>1. Undisturbed /\ OrderInv
  BY DEF StartInv, Starting, Undisturbed
<1>2. MsgIndex \in Slots
  BY LineType
<1>3. Cur.cmd # NoCmd
  BY <1>1 DEF IInv, SlotsOK, Undisturbed, Cur
<1>4. MsgIndex < 7 /\ Cur = Startup[MsgIndex + 1] /\ ~Gone(MsgIndex)
  BY <1>1, <1>2, <1>3 DEF OrderInv, Gone, Cur
<1>5. MsgIndex \in 0..6
  BY <1>2, <1>4, SizeAssumption DEF Slots
<1>6. \A k \in Kinds : /\ Cur.cmd = WriteCmd[k] <=> MsgIndex = WriteSlot[k]
                       /\ Cur.cmd = ReadCmd[k] <=> MsgIndex = ReadSlot[k]
  <2>1. ASSUME NEW k \in Kinds
        PROVE  /\ Cur.cmd = WriteCmd[k] => MsgIndex = WriteSlot[k]
               /\ Cur.cmd = ReadCmd[k] => MsgIndex = ReadSlot[k]
    BY <1>4, <1>5, StartupSlots
  <2>2. ASSUME NEW k \in Kinds, MsgIndex = WriteSlot[k] PROVE Cur = Msg(WriteCmd[k], 0)
    BY <1>4, <2>2, StartupSlots
  <2>3. ASSUME NEW k \in Kinds, MsgIndex = ReadSlot[k] PROVE Cur = Msg(ReadCmd[k], 2)
    BY <1>4, <2>3, StartupSlots
  <2>. QED BY <2>1, <2>2, <2>3 DEF Msg
<1>7. \A k \in Kinds : Cur.cmd \in {ReadCmd[k], WriteCmd[k]} => idx[k] = Cur.param
  BY <1>1 DEF LinkInv, IndexInv
<1>8. \A k \in Kinds : /\ Cur.cmd = WriteCmd[k] => idx[k] = 0
                       /\ Cur.cmd = ReadCmd[k] => idx[k] = 2
  <2>1. ASSUME NEW k \in Kinds, Cur.cmd = WriteCmd[k] PROVE idx[k] = 0
    <3>1. Cur = Msg(WriteCmd[k], 0)
      BY <1>4, <1>6, <2>1, StartupSlots
    <3>. QED BY <1>7, <2>1, <3>1 DEF Msg
  <2>2. ASSUME NEW k \in Kinds, Cur.cmd = ReadCmd[k] PROVE idx[k] = 2
    <3>1. Cur = Msg(ReadCmd[k], 2)
      BY <1>4, <1>6, <2>2, StartupSlots
    <3>. QED BY <1>7, <2>2, <3>1 DEF Msg
  <2>. QED BY <2>1, <2>2
<1>. QED BY <1>1, <1>4, <1>5, <1>6, <1>8 DEF OrderInv

(* A step that only moves bytes and the decoder.                           *)
LEMMA StartFrame ==
  ASSUME StartInv,
         UNCHANGED <<queue, MsgIndex, mem, fpga, inbox>>,
         UNCHANGED <<WaitForReply, lowPower, bypassed>>,
         Starting' => Starting,
         pc' = "send" => pc = "send",
         Starting /\ State' = "START" /\ WaitForReply =>
           State = "START" \/ \A k \in Kinds : MsgIndex # ReadSlot[k]
  PROVE  StartInv'
<1>. SUFFICES ASSUME Starting, ~bypassed, ~lowPower, OrderInv, EffectInv
              PROVE  OrderInv' /\ EffectInv'
  BY DEF StartInv
<1>1. OrderInv'
  BY DEF OrderInv, Gone
<1>2. EffectInv'
  BY DEF EffectInv, Gone
<1>. QED BY <1>1, <1>2

LEMMA StartFetch ==
  ASSUME IInv, LinkInv, StartInv, Fetch
  PROVE  /\ UNCHANGED <<queue, MsgIndex, fpga, inbox>>
         /\ UNCHANGED <<lowPower, bypassed>>
         /\ Starting' = Starting
         /\ pc' = pc
         /\ Starting => Undisturbed /\ Answering /\ WaitForReply
<1>1. UNCHANGED <<queueVars, powerVars, pc, fpgaVars, ghostVars>>
  BY DEF Fetch
<1>2. Starting => Undisturbed
  BY DEF StartInv, Starting, Undisturbed
<1>. QED BY <1>1, <1>2, TakesAnswer
         DEF queueVars, powerVars, fpgaVars, ghostVars, Starting, Answering

LEMMA StartRxWaitData ==
  ASSUME IInv, LinkInv, StartInv, RxWaitData
  PROVE  StartInv'
<1>1. Fetch /\ UNCHANGED <<WaitForReply, mem>> /\ State # "START" /\ State' # "START"
  BY DEF RxWaitData, dataVars, StartByte
<1>. QED BY <1>1, StartFetch, StartFrame

LEMMA StartRxWriteAck ==
  ASSUME IInv, LinkInv, StartInv, RxWriteAck
  PROVE  StartInv'
<1>1. Fetch /\ UNCHANGED <<WaitForReply, mem>> /\ State = "WRITE_ACK"
  BY DEF RxWriteAck, dataVars
<1>2. ASSUME Starting PROVE \A k \in Kinds : MsgIndex # ReadSlot[k]
  <2>1. Answering /\ WaitForReply
    BY <1>1, <1>2, StartFetch
  <2>2. PICK k \in Kinds : Cur.cmd = WriteCmd[k]
    BY <1>1, <2>1, Distinct DEF Answering, AnsweringPlain, AnsweringRead, AnsweringWrite
  <2>. QED BY <1>2, <2>1, <2>2, Serving, Distinct
<1>. QED BY <1>1, <1>2, StartFetch, StartFrame

LEMMA StartRxCommand ==
  ASSUME IInv, LinkInv, StartInv, RxCommand
  PROVE  StartInv'
<1>1. Fetch /\ UNCHANGED <<WaitForReply, mem>> /\ State \in {"START", "WAIT_ACK"}
  BY DEF RxCommand, dataVars
<1>2. ASSUME Starting PROVE \A k \in Kinds : MsgIndex # ReadSlot[k]
  <2>1. Answering /\ WaitForReply
    BY <1>1, <1>2, StartFetch
  <2>2. Cur.cmd = "PIO"
    BY <1>1, <2>1, Distinct DEF Answering, AnsweringPlain, AnsweringRead, AnsweringWrite
  <2>. QED BY <1>2, <2>1, <2>2, Serving, Distinct
<1>. QED BY <1>1, <1>2, StartFetch, StartFrame

LEMMA StartRxStop ==
  ASSUME IInv, LinkInv, StartInv, RxStop
  PROVE  StartInv'
<1>1. Fetch /\ State = "STOP"
  BY DEF RxStop
<1>2. ~Starting
  BY <1>1, StartFetch, Distinct
     DEF Answering, AnsweringPlain, AnsweringWrite, AnsweringRead
<1>. QED BY <1>1, <1>2, StartFetch DEF StartInv

LEMMA StartRxData ==
  ASSUME IInv, LinkInv, StartInv, RxData
  PROVE  StartInv'
<1>1. Fetch /\ WaitForReply' = WaitForReply
  BY DEF RxData
<1>2. /\ UNCHANGED <<queue, MsgIndex, fpga, inbox, lowPower, bypassed, pc>>
      /\ Starting' = Starting
  BY <1>1, StartFetch
<1>. SUFFICES ASSUME Starting PROVE StartInv'
  BY <1>2 DEF StartInv
<1>3. Undisturbed /\ WaitForReply
  BY <1>1, StartFetch
<1>4. PICK k \in Kinds :
        /\ Cur.cmd = ReadCmd[k] /\ State = ReadState[k]
        /\ State' # ReadState[k] =>
             /\ \A l \in Kinds, n \in Indexes :
                  mem'[l][n] # mem[l][n] => l = k /\ n = idx[k] /\ mem'[l][n] = fpga[k]
             /\ mem'[k][idx[k]] = fpga[k]
        /\ State' = ReadState[k] => mem' = mem
  BY <1>3, BlockByte
<1>5. CASE State' = ReadState[k]
  <2>1. State' # "START"
    BY <1>5, Distinct
  <2>. QED BY <1>1, <1>2, <1>4, <1>5, <2>1, StartFrame
<1>6. CASE State' # ReadState[k]
  <2>1. MsgIndex = ReadSlot[k] /\ idx[k] = 2
    BY <1>3, <1>4, Serving
  <2>2. Gone(WriteSlot[k])
    BY <1>3, <2>1, Serving, StartupSlots
  <2>3. ~bypassed /\ ~lowPower /\ OrderInv /\ EffectInv
    BY DEF StartInv
  <2>4. fpga[k] = Default
    BY <2>2, <2>3 DEF EffectInv
  <2>5. \A l \in Kinds : mem'[l][0] = Default
    BY <1>4, <1>6, <2>1, <2>3 DEF EffectInv, Indexes
  <2>6. \A l \in Kinds : mem[l][2] = Default => mem'[l][2] = Default
    BY <1>4, <1>6, <2>4 DEF Indexes
  <2>7. mem'[k][2] = Default
    BY <1>4, <1>6, <2>1, <2>4
  <2>8. \A l \in Kinds : MsgIndex = ReadSlot[l] => l = k
    BY <2>1 DEF Kinds, ReadSlot
  <2>9. EffectInv'
    BY <1>1, <1>2, <2>3, <2>5, <2>6, <2>7, <2>8 DEF EffectInv, Gone
  <2>10. OrderInv'
    BY <1>1, <1>2, <2>3 DEF OrderInv, Gone
  <2>. QED BY <1>2, <2>3, <2>9, <2>10 DEF StartInv
<1>. QED BY <1>5, <1>6

LEMMA StartReleaseSlot ==
  ASSUME IInv, LinkInv, StartInv, ReleaseSlot
  PROVE  StartInv'
<1>1. /\ WaitForReply /\ State = "START" /\ WaitForReply' = FALSE /\ pc' = "after"
      /\ queue' = [queue EXCEPT ![MsgIndex].cmd = NoCmd]
      /\ UNCHANGED <<MsgIndex, dataVars, powerVars, fpgaVars, ghostVars>>
  BY DEF ReleaseSlot
<1>2. UNCHANGED <<MsgIndex, mem, lowPower, fpga, inbox, asks, disturbed, bypassed>>
  BY <1>1 DEF dataVars, powerVars, fpgaVars, ghostVars
<1>. SUFFICES ASSUME Starting PROVE StartInv'
  BY <1>2 DEF StartInv, Starting
<1>3. ~bypassed /\ ~lowPower /\ OrderInv /\ EffectInv
  BY DEF StartInv
<1>4. /\ Undisturbed /\ MsgIndex \in Slots
      /\ \A i \in Slots : i < MsgIndex => Gone(i)
  BY <1>1, Serving, LineType
<1>5. inbox = <<>>
  BY <1>4, ReleaseQuiet DEF Answered, Quiet
<1>6. /\ \A i \in Slots : i # MsgIndex => queue'[i] = queue[i]
      /\ queue'[MsgIndex].cmd = NoCmd
  BY <1>1, <1>4 DEF IInv, TypeOK, QueueTypes
<1>7. \A i \in Slots : (Gone(i)' <=> Gone(i) \/ i = MsgIndex)
  BY <1>6 DEF Gone
<1>8. OrderInv'
  <2>1. \A i \in Slots : Gone(i)' \/ (i < 7 /\ queue'[i] = Startup[i + 1])
    BY <1>3, <1>6, <1>7 DEF OrderInv
  <2>2. ASSUME NEW i \in Slots, NEW j \in 0..6, i < j, ~Gone(i)'
        PROVE  ~Gone(j)'
    <3>1. ~Gone(i) /\ i # MsgIndex /\ j \in Slots
      BY <1>7, <2>2, SizeAssumption DEF Slots
    <3>2. ~Gone(j)
      BY <1>3, <2>2, <3>1 DEF OrderInv
    <3>3. ~(i < MsgIndex)
      BY <1>4, <3>1
    <3>4. j # MsgIndex
      BY <2>2, <3>3
    <3>. QED BY <1>7, <3>1, <3>2, <3>4
  <2>. QED BY <1>1, <2>1, <2>2 DEF OrderInv
<1>9. EffectInv'
  <2>1. ASSUME NEW k \in Kinds, Gone(WriteSlot[k])' PROVE fpga[k] = Default
    BY <1>1, <1>3, <1>5, <1>7, <2>1, StartupSlots DEF EffectInv
  <2>2. ASSUME NEW k \in Kinds, Gone(ReadSlot[k])' PROVE mem[k][2] = Default
    BY <1>1, <1>3, <1>7, <2>2, StartupSlots DEF EffectInv
  <2>3. \A k \in Kinds : mem[k][0] = Default
    BY <1>3 DEF EffectInv
  <2>. QED BY <1>1, <1>2, <2>1, <2>2, <2>3 DEF EffectInv
<1>. QED BY <1>2, <1>3, <1>8, <1>9 DEF StartInv

LEMMA StartProcessQueue ==
  ASSUME IInv, LinkInv, StartInv, ProcessQueue
  PROVE  StartInv'
<1>. DEFINE used == {i \in Slots : queue[i].cmd # NoCmd}
<1>1. /\ ~WaitForReply
      /\ UNCHANGED <<queue, protoVars, dataVars, powerVars, fpgaVars, ghostVars>>
  BY DEF ProcessQueue
<1>2. /\ UNCHANGED <<queue, mem, lowPower, fpga, inbox, asks, disturbed, bypassed>>
      /\ UNCHANGED <<WaitForReply>>
  BY <1>1 DEF protoVars, dataVars, powerVars, fpgaVars, ghostVars
<1>. SUFFICES ASSUME Starting PROVE StartInv'
  BY <1>2 DEF StartInv, Starting
<1>3. ~bypassed /\ ~lowPower /\ OrderInv /\ EffectInv
  BY DEF StartInv
<1>4. EffectInv'
  BY <1>1, <1>2, <1>3 DEF EffectInv, Gone
<1>5. ASSUME pc' = "send" PROVE \A i \in Slots : i < MsgIndex' => Gone(i)
  <2>1. ~Drained
    BY <1>5 DEF ProcessQueue
  <2>2. MsgIndex' = Lowest(used)
    BY <2>1 DEF ProcessQueue
  <2>3. used # {}
    BY <2>1 DEF Drained
  <2>4. Lowest(used) \in used /\ \A j \in used : Lowest(used) <= j
    BY <2>3, LowestIsLeast
  <2>5. \A i \in Slots : i \in Int
    BY SizeAssumption DEF Slots
  <2>. QED BY <2>2, <2>4, <2>5 DEF Gone
<1>6. OrderInv'
  BY <1>1, <1>2, <1>3, <1>5 DEF OrderInv, Gone
<1>. QED BY <1>2, <1>3, <1>4, <1>6 DEF StartInv

LEMMA StartSendQueued ==
  ASSUME IInv, LinkInv, StartInv, SendQueued
  PROVE  StartInv'
<1>. DEFINE c == Cur.cmd
            m == [cmd |-> c, data |-> Payload(c)]
<1>1. /\ pc = "send" /\ pc' = "after" /\ TX_SendMsg(c)
      /\ UNCHANGED <<queueVars, dataVars, fpga, asks, bypassed, disturbed>>
  BY DEF SendQueued, Cur
<1>2. UNCHANGED <<queue, MsgIndex, mem, fpga, asks, bypassed, disturbed>>
  BY <1>1 DEF queueVars, dataVars
<1>. SUFFICES ASSUME Starting PROVE StartInv'
  BY <1>2 DEF StartInv, Starting
<1>3. ~bypassed /\ ~lowPower /\ OrderInv /\ EffectInv
  BY DEF StartInv
<1>4. c \in QueuedCmds /\ c # NoCmd
  BY <1>1, LineType DEF IInv, SlotsOK, LinkInv, Cur
<1>5. /\ inbox' = Append(inbox, m) /\ State' = StateAfterSend(c)
      /\ lowPower' = LowPowerAfter(c)
  BY <1>1, <1>4, QueuedCommand DEF TX_SendMsg
<1>6. ~lowPower'
  BY <1>3, <1>4, <1>5, QueuedCommand DEF LowPowerAfter, StandbyCmds
<1>7. State' # "START"
  BY <1>5, NotStart
<1>8. Undisturbed
  BY <1>1, Serving
<1>9. inbox = <<>>
  BY <1>1, <1>8 DEF LinkInv, TurnInv, Idle, Quiet
<1>10. inbox' # <<>> /\ Head(inbox') = m
  BY <1>5, <1>9
<1>11. ASSUME NEW k \in Kinds, MsgIndex = WriteSlot[k] PROVE m.data = Default
  <2>1. c = WriteCmd[k] /\ idx[k] = 0
    BY <1>1, <1>11, Serving
  <2>2. Payload(c) = mem[k][idx[k]]
    BY <2>1 DEF Payload, WriteCmd, Kinds
  <2>. QED BY <1>3, <2>1, <2>2 DEF EffectInv
<1>12. EffectInv'
  BY <1>2, <1>3, <1>7, <1>10, <1>11 DEF EffectInv, Gone
<1>13. OrderInv'
  BY <1>1, <1>2, <1>3 DEF OrderInv, Gone
<1>. QED BY <1>2, <1>3, <1>6, <1>12, <1>13 DEF StartInv

LEMMA StartEndOfLoop ==
  ASSUME IInv, LinkInv, StartInv, EndOfLoop
  PROVE  StartInv'
<1>1. UNCHANGED <<asks, disturbed>> /\ pc' = "main"
  BY DEF EndOfLoop
<1>. SUFFICES ASSUME Starting PROVE StartInv'
  BY <1>1 DEF StartInv, Starting
<1>2. ret # "TIMEOUT" /\ ~lowPower
  BY DEF LinkInv, StartInv, Starting
<1>3. UNCHANGED <<queue, MsgIndex>>
  BY <1>2 DEF EndOfLoop
<1>4. UNCHANGED <<protoVars, lowPower, inbox, bypassed>>
  BY <1>2 DEF EndOfLoop
<1>5. UNCHANGED <<mem, fpga>>
  BY DEF EndOfLoop, dataVars
<1>6. UNCHANGED <<WaitForReply, State>>
  BY <1>4 DEF protoVars
<1>. QED BY <1>1, <1>3, <1>4, <1>5, <1>6, StartFrame

LEMMA StartExecute ==
  ASSUME IInv, LinkInv, StartInv, NEW refuse \in BOOLEAN, Execute(refuse)
  PROVE  StartInv'
<1>1. UNCHANGED <<queueVars, protoVars, dataVars, powerVars, pc, ghostVars>>
  BY DEF Execute
<1>2. /\ UNCHANGED <<queue, MsgIndex, mem, lowPower, pc, asks, bypassed, disturbed>>
      /\ UNCHANGED <<WaitForReply, State>>
  BY <1>1 DEF queueVars, protoVars, dataVars, powerVars, ghostVars
<1>. SUFFICES ASSUME Starting PROVE StartInv'
  BY <1>2 DEF StartInv, Starting
<1>3. ~bypassed /\ ~lowPower /\ OrderInv /\ EffectInv
  BY DEF StartInv
<1>4. Undisturbed
  BY <1>3 DEF Starting, Undisturbed
<1>5. /\ Asked /\ inbox' = <<>>
      /\ fpga' = [k \in Kinds |-> IF Cur.cmd = WriteCmd[k] THEN Head(inbox).data
                                                          ELSE fpga[k]]
  BY <1>4, TakesCommand
<1>6. WaitForReply /\ inbox # <<>>
  BY <1>5 DEF Asked, Execute
<1>7. ASSUME NEW k \in Kinds
      PROVE  fpga'[k] = IF MsgIndex = WriteSlot[k] THEN Default ELSE fpga[k]
  BY <1>3, <1>5, <1>6, Serving DEF EffectInv
<1>8. \A k \in Kinds : MsgIndex = WriteSlot[k] => ~Gone(WriteSlot[k])
  BY <1>6, Serving
<1>9. EffectInv'
  BY <1>2, <1>3, <1>5, <1>7, <1>8 DEF EffectInv, Gone
<1>10. OrderInv'
  BY <1>2, <1>3 DEF OrderInv, Gone
<1>. QED BY <1>2, <1>3, <1>9, <1>10 DEF StartInv

(* Steps that end the start-up, or do not concern it.                      *)
LEMMA StartOver ==
  ASSUME IInv,
         \/ ReplyTimedOut \/ LoseCommand \/ LoseByte \/ Babble \/ WakeUp
         \/ \E r \in Requests : Request(r[1], r[2])
         \/ \E c \in DirectCmds : Direct(c)
  PROVE  StartInv'
<1>1. asks \in Nat
  BY SizeAssumption DEF IInv, TypeOK, LoopTypes
<1>2. disturbed' \/ asks' = asks + 1
  BY DEF ReplyTimedOut, LoseCommand, LoseByte, Babble, WakeUp, Fault, Request, Direct
<1>. QED BY <1>1, <1>2 DEF StartInv, Starting

LEMMA StartUntouched ==
  ASSUME StartInv, Poll \/ StillWaiting \/ (\E overrun \in BOOLEAN : GowinIrq(overrun))
  PROVE  StartInv'
<1>1. CASE Poll
  <2>1. UNCHANGED <<queueVars, protoVars, dataVars, powerVars, fpgaVars, ghostVars>>
        /\ pc' # "send"
    BY <1>1 DEF Poll
  <2>. QED BY <2>1, StartFrame
           DEF queueVars, protoVars, dataVars, powerVars, fpgaVars, ghostVars, Starting
<1>2. CASE StillWaiting
  <2>1. /\ UNCHANGED <<queueVars, State, WaitForReply, dataVars, powerVars, fpgaVars>>
        /\ UNCHANGED <<asks, bypassed, disturbed>> /\ pc' # "send"
    BY <1>2 DEF StillWaiting
  <2>. QED BY <2>1, StartFrame DEF queueVars, dataVars, powerVars, fpgaVars, Starting
<1>3. CASE \E overrun \in BOOLEAN : GowinIrq(overrun)
  <2>1. PICK overrun \in BOOLEAN : GowinIrq(overrun)
    BY <1>3
  <2>2. /\ UNCHANGED <<queueVars, protoVars, dataVars, powerVars, pc, inbox, fpga>>
        /\ UNCHANGED <<asks, bypassed>> /\ (~disturbed' => ~disturbed)
    BY <2>1 DEF GowinIrq
  <2>. QED BY <2>2, StartFrame DEF queueVars, protoVars, dataVars, powerVars, Starting
<1>. QED BY <1>1, <1>2, <1>3

LEMMA StartInit == Init => StartInv
<1>. SUFFICES ASSUME Init PROVE OrderInv /\ EffectInv
  BY DEF Init, StartInv
<1>1. \A i \in Slots : i \in Nat
  BY SizeAssumption DEF Slots
<1>2. \A i \in Slots : queue[i] = IF i < 7 THEN Startup[i + 1] ELSE Empty
  BY DEF Init
<1>3. \A i \in Slots : Gone(i) <=> ~(i < 7)
  <2>1. \A i \in Slots : i < 7 => i \in 0..6
    BY <1>1
  <2>2. Empty.cmd = NoCmd
    BY DEF Empty, Msg
  <2>. QED BY <1>2, <2>1, <2>2, StartupSlots DEF Gone
<1>4. OrderInv
  <2>1. ~WaitForReply /\ pc = "main"
    BY DEF Init
  <2>2. \A j \in 0..6 : j \in Slots /\ j < 7
    BY SizeAssumption DEF Slots
  <2>. QED BY <1>2, <1>3, <2>1, <2>2 DEF OrderInv
<1>5. EffectInv
  <2>1. \A k \in Kinds : ~Gone(WriteSlot[k]) /\ ~Gone(ReadSlot[k])
    BY <1>3, StartupSlots
  <2>2. \A k \in Kinds : mem[k][0] = Default
    BY DEF Init, Indexes
  <2>3. ~WaitForReply
    BY DEF Init
  <2>. QED BY <2>1, <2>2, <2>3 DEF EffectInv
<1>. QED BY <1>4, <1>5

LEMMA StartNext == IInv /\ LinkInv /\ StartInv /\ [Next]_vars => StartInv'
<1>. SUFFICES ASSUME IInv, LinkInv, StartInv, [Next]_vars PROVE StartInv'
  OBVIOUS
<1>1. CASE MainLoop
  BY <1>1, StartUntouched, StartRxWaitData, StartRxWriteAck, StartRxData, StartRxCommand,
     StartRxStop, StartOver, StartReleaseSlot, StartProcessQueue, StartSendQueued,
     StartEndOfLoop
     DEF MainLoop
<1>2. CASE \E r \in Requests : Request(r[1], r[2])
  BY <1>2, StartOver
<1>3. CASE \E overrun \in BOOLEAN : GowinIrq(overrun)
  BY <1>3, StartUntouched
<1>4. CASE \E c \in DirectCmds : Direct(c)
  BY <1>4, StartOver
<1>5. CASE \E refuse \in BOOLEAN : Execute(refuse)
  BY <1>5, StartExecute
<1>6. CASE LoseCommand \/ LoseByte \/ Babble \/ WakeUp
  BY <1>6, StartOver
<1>7. CASE UNCHANGED vars
  <2>1. /\ UNCHANGED <<queueVars, protoVars, dataVars, powerVars, fpgaVars, ghostVars>>
        /\ pc' = pc
    BY <1>7 DEF vars
  <2>. QED BY <2>1, StartFrame
           DEF queueVars, protoVars, dataVars, powerVars, fpgaVars, ghostVars, Starting
<1>. QED BY <1>1, <1>2, <1>3, <1>4, <1>5, <1>6, <1>7 DEF Next

(* With no request of the main CPU in between, the start-up verification   *)
(* compares blocks that the FPGA has been given and has handed back: it    *)
(* comes when the last start-up command has left the queue, and by then    *)
(* both blocks were written before they were read.                         *)
THEOREM StartupCompared == Spec => StartupVerified
<1>. DEFINE Compared == verify /\ ~verify' /\ ~disturbed /\ asks = 0 =>
              \A k \in Kinds : mem[k][0] = Default /\ mem[k][2] = Default
<1>1. ASSUME IInv, LinkInv, StartInv, [Next]_vars PROVE [Compared]_vars
  <2>1. CASE EndOfLoop
    <3>. SUFFICES ASSUME verify, ~verify', Starting, NEW k \in Kinds
                  PROVE  mem[k][0] = Default /\ mem[k][2] = Default
      BY DEF Starting
    <3>1. VerifyDue /\ ret # "TIMEOUT"
      BY <1>1, <2>1 DEF EndOfLoop, LinkInv, Starting
    <3>2. Gone(ReadSlot[k])
      BY <3>1, StartupSlots DEF VerifyDue, Drained, Gone
    <3>. QED BY <1>1, <3>2 DEF StartInv, EffectInv
  <2>2. CASE UNCHANGED verify
    BY <2>2
  <2>. QED
    BY <1>1, <2>1, <2>2
       DEF Next, MainLoop, Poll, RxWaitData, RxWriteAck, RxData, RxCommand, RxStop,
           Request, Fetch, ReplyTimedOut, StillWaiting, ReleaseSlot, ProcessQueue,
           SendQueued, GowinIrq, Direct, Execute, LoseCommand, LoseByte, Babble, WakeUp,
           Fault, vars
<1>2. Spec => [](IInv /\ LinkInv /\ StartInv)
  BY InitInv, NextInv, LinkInit, LinkNext, StartInit, StartNext, PTL DEF Spec
<1>. QED BY <1>1, <1>2, PTL DEF Spec, StartupVerified

=============================================================================
