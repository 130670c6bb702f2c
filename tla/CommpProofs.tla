---------------------------- MODULE CommpProofs ----------------------------
(***************************************************************************)
(* Proofs about Commp for every number of blocks, every length of the line *)
(* to the device and any number of faults of every kind:                   *)
(*   - TypeCorrect: the type invariant;                                    *)
(*   - AckedStored: what was acknowledged is in flash;                     *)
(*   - OkIsWritten: success means written;                                 *)
(*   - ReadBackTrue: a read-back without a gap is faithful.                *)
(*                                                                         *)
(* The protocol takes turns, and the proof shows that it does: as long as  *)
(* no answer comes late, what the tool waits for is in one place, on the   *)
(* line, with the device or on its way back (TurnInv).  On this rest what  *)
(* the device knows of the transfer (SessionInv), what an accepted crc     *)
(* means (OkInv) and what a read-back has collected (ReadInv).             *)
(***************************************************************************)
EXTENDS Commp, SequenceTheorems, TLAPS

(* Packets that may be on their way to the device. Those that name a ROM    *)
(* name one, a block carries a number the tool has given it.                *)
ToDevPackets ==
  {p \in Packets :
     /\ p.op \in {"WRQ", "SET"} => p.rom \in Roms
     /\ p.op \in {"RRQ", "WIPE"} => p.rom \in SpiRoms
     /\ p.op = "DATA" => p.nr \in 1..NBlocks /\ \E b \in Stuff : p.data = <<b>>}

(* Packets that may be on their way to the tool.                            *)
ToHostPackets ==
  {p \in Packets : p.op = "DATA" => \E b \in Stuff \cup {Erased} : p.data = <<b>>}

(* What the call in which the tool waits says of its locals.                *)
HostInv ==
  /\ hpc # "idle" => job.rom \in Roms
  /\ hpc # "idle" /\ job.kind = "flash" => job.image \in ImagesFor(job.rom)
  /\ hpc # "idle" /\ job.kind = "read" => job.rom \in SpiRoms
  /\ hpc \in {"info", "wrq", "data", "crc"} => job.kind = "flash"
  /\ hpc = "read" => job.kind = "read" /\ blk < NBlocks /\ blk = Len(got)
  /\ hpc = "data" => blk # 0
  /\ hpc \in {"prepare", "open", "info", "wrq"} => blk = 0 /\ got = <<>>
  /\ result # "none" => hpc = "idle"

(* The offset of an area stays within what was written to it, except while  *)
(* the area is read back, and there is a last block only of a transfer.     *)
OffsetInv ==
  /\ dpc = "retrieve" => offset[spiArea] = rnr + 1
  /\ \A a \in SpiRoms : (dpc = "retrieve" /\ a = spiArea) \/ offset[a] <= Len(flash[a])
  /\ ~ctxt.inProgress => ctxt.last = 0
  /\ dpc = "retrieve" => ~ctxt.inProgress

(* The types of the variables, with HostInv and OffsetInv: TypeOK and more. *)
HostType ==
  /\ hpc \in {"idle", "prepare", "open", "info", "wrq", "data", "crc", "read"}
  /\ job \in [kind : {"flash", "read"}, rom : Roms \cup {None},
              image : Images \cup {None}]
  /\ blk \in 0..NBlocks
  /\ got \in Seq(Stuff \cup {Erased, Missing})
  /\ result \in {"none", "ok", "failed", "read"}
  /\ HostInv

DevType ==
  /\ dpc \in {"run", "retrieve", "store"}
  /\ ctxt \in [inProgress : BOOLEAN, last : 0..NBlocks, part : Roms \cup {None}]
  /\ rnr \in 0..(NBlocks - 1)
  /\ flash \in [Areas -> Contents] /\ offset \in [Areas -> Nat]
  /\ romArea \in {"rom", "backup"} /\ spiArea \in SpiRoms
  /\ entry \in [Roms -> Contents] /\ bootinfo \in Contents
  /\ spiCopy \in [SpiRoms -> [SpiRoms -> Contents]]
  /\ OffsetInv

WireType ==
  /\ toDev \in Seq(ToDevPackets) /\ toHost \in Seq(ToHostPackets)
  /\ faults \in 0..MaxFaults /\ late \in BOOLEAN /\ cutShort \in BOOLEAN

TypeInv == HostType /\ DevType /\ WireType

(* Packets that nobody answers.                                             *)
Dull == {p \in ToDevPackets :
           p.op \in {"END", "SPI_END", "SET", "WIPE", "ERR", "JUNK"}}

(* s consists of packets before the awaited one, of the awaited one, if it  *)
(* is there at all, and of packets after it.                                *)
Line(s, before, last, after) ==
  /\ s \in Seq(before \cup last)
  /\ \A n \in 1..Len(s) : s[n] \in last =>
       \A m \in 1..Len(s) : m > n => s[m] \in after

(* The packets whose answer the tool waits for, ...                         *)
Awaited ==
  IF hpc \in {"prepare", "info"} THEN {Cmd("INFO")}
  ELSE IF hpc = "wrq" THEN {For("WRQ", job.rom)}
  ELSE IF hpc = "data"
  THEN {Data(blk, Block(job.image, blk)), Data(blk, Garbage), Data(blk, Rubble)}
  ELSE IF hpc = "crc" THEN {Crc(Image(job.image)), Crc(<<Missing>>)}
  ELSE IF got = <<>> THEN {For("RRQ", job.rom)} ELSE {Ack(blk - 1)}

(* ... those that may be in front of them on the line, ...                  *)
Before ==
  IF hpc \in {"data", "crc"} \/ got # <<>> THEN {Noise} ELSE Dull

(* ... and those behind.                                                    *)
After == IF hpc \in {"data", "crc"} THEN {Noise} ELSE {}

Waiting == hpc \notin {"idle", "open"}
Silence == toDev \in Seq({Noise})

(* Whose turn it is. The packet the tool waits for is on the line, or with  *)
(* the device, or its answer is the one packet on its way back, and nothing *)
(* else that the device would answer is about.                              *)
TurnInv ==
  Waiting /\ ~late =>
    /\ Line(toDev, Before, Awaited, After)
    /\ toHost # <<>> => Len(toHost) = 1 /\ Silence
    /\ dpc = "retrieve" => /\ toHost # <<>> => toDev = <<>>
                           /\ Len(toDev) <= 1 \/ Silence
    /\ dpc = "store" => toHost = <<>> \/ hpc = "crc"

(* The acknowledgement the tool waits for is on its way.                    *)
Acked == toHost # <<>> /\ Head(toHost).op = "ACK"
InTransfer == hpc \in {"data", "crc"} \/ (hpc = "wrq" /\ Acked)

(* The blocks the device has acknowledged, seen from the tool.              *)
Count ==
  IF hpc = "wrq" THEN 0
  ELSE IF hpc = "crc" THEN NBlocks
  ELSE IF Acked THEN blk ELSE blk - 1

(* Area a begins with the first n blocks of the job's image, as they were   *)
(* when they reached the device, up to the first that came short.           *)
Stored(a, n) ==
  /\ Len(flash[a]) >= n
  /\ \A k \in 1..n : \/ flash[a][k] \in {Block(job.image, k), Garbage}
                     \/ \E j \in 1..k : flash[a][j] = Rubble

(* The transfer as the device sees it.                                     *)
Session ==
  LET a == Driver(ctxt.part)
  IN /\ ctxt.part = job.rom
     /\ offset[a] = ctxt.last
     /\ Stored(a, ctxt.last)
     /\ Len(flash[a]) > ctxt.last /\ ctxt.last > 0 => flash[a][1] \in {Garbage, Rubble}
     /\ IF hpc = "data" /\ ~Acked THEN ctxt.last \in {blk - 1, blk}
        ELSE ctxt.last = Count
     /\ ~Silence /\ hpc = "data" => ctxt.last = blk - 1

(* While a file is transferred: what was acknowledged is in flash, and the  *)
(* device, if it knows of a transfer, knows of this one.                    *)
SessionInv ==
  InTransfer /\ ~late =>
    /\ \E a \in Areas : Stored(a, Count)
    /\ dpc # "retrieve"
    /\ hpc # "crc" => dpc = "run"
    /\ dpc = "run" /\ ~ctxt.inProgress => ctxt.part \notin SpiRoms
    /\ dpc = "run" /\ ctxt.inProgress => Session
    /\ dpc = "store" => \E a \in Roms : Holds(a, job.image)

(* A crc was accepted: the device has the image in full and vouches for it, *)
(* or will once it has stored its context.                                  *)
Accepted ==
  Unmixed =>
    /\ IF job.rom = "rom" THEN Holds("rom", job.image)
       ELSE \E a \in SpiRoms : Holds(a, job.image)
    /\ dpc = "store" => /\ ctxt.part \in SpiRoms <=> job.rom \in SpiRoms
                        /\ entry[job.rom] = Image(job.image)
    /\ dpc # "store" => Vouched(job.rom, job.image) \/ cutShort

(* What may be on the line after the tool has reported success.             *)
Closing == {Noise, Cmd("END"), Cmd("SPI_END")}

(* The answer to a crc, and success, mean that the device accepted the crc  *)
(* of the image.                                                            *)
OkInv ==
  /\ hpc = "crc" /\ ~late /\ toHost # <<>> => Accepted
  /\ hpc = "crc" /\ ~late /\ dpc = "store" => Accepted
  /\ result = "ok" /\ ~late =>
       /\ Accepted /\ dpc # "retrieve"
       /\ job.rom \in Roms /\ job.image \in ImagesFor(job.rom)
       /\ toDev \in Seq(Closing)

(* No block of the read-back file is missing.                               *)
NoGap == \A k \in DOMAIN got : got[k] # Missing
Reading == hpc = "read" \/ result = "read"

(* The block on its way to the tool is the next one of area a.             *)
NextBlock(a) ==
  hpc = "read" /\ toHost # <<>> /\ Head(toHost).op = "DATA" =>
    Head(toHost).data[1] \in {At(flash[a], Len(got)), Garbage}

(* The file so far is the beginning of area a.                              *)
ReadFrom(a) == \A k \in DOMAIN got : got[k] \in {At(flash[a], k - 1), Garbage}

(* What may be on the line after a read-back.                               *)
Tailing == {p \in ToDevPackets : p.op \in {"ACK", "JUNK"}}

(* The file that is read back is that of the area selected.                 *)
ReadInv ==
  Reading /\ ~late =>
    /\ result = "read" => toDev \in Seq(Tailing)
    /\ NoGap => \E a \in SpiRoms :
                  ReadFrom(a) /\ NextBlock(a) /\ (dpc = "retrieve" => a = spiArea)

(* The inductive invariant. Each part is preserved with the help of those   *)
(* before it, and TurnInv with that of SessionInv.                          *)
Inv == TypeInv /\ TurnInv /\ SessionInv /\ OkInv /\ ReadInv

-----------------------------------------------------------------------------

(* A sequence of elements of T is a sequence over T.                        *)
LEMMA SeqNarrow ==
  ASSUME NEW S, NEW T, NEW s \in Seq(S), \A i \in 1..Len(s) : s[i] \in T
  PROVE  s \in Seq(T)
  <1>1. Len(s) \in Nat
    BY LenProperties
  <1>2. SubSeq(s, 1, Len(s)) \in Seq(T)
    BY <1>1, SubSeqProperties
  <1> QED BY <1>2, SubSeqFull

LEMMA EmptyIsZero ==
  ASSUME NEW S, NEW s \in Seq(S)
  PROVE  Len(s) \in Nat /\ (Len(s) = 0 <=> s = <<>>)
  BY EmptySeq, LenProperties

LEMMA Singleton ==
  ASSUME NEW S, NEW s \in Seq(S), Len(s) = 1
  PROVE  s # <<>> /\ Tail(s) = <<>> /\ s = <<Head(s)>> /\ Head(s) = s[1]
  <1>1. s # <<>> /\ Head(s) = s[1]
    BY EmptyIsZero
  <1>2. Tail(s) \in Seq(S) /\ Len(Tail(s)) = 0
    BY <1>1, HeadTailProperties
  <1>3. Tail(s) = <<>>
    BY <1>2, EmptyIsZero
  <1>4. s = <<s[1]>>
    BY SeqEqual
  <1> QED BY <1>1, <1>3, <1>4

LEMMA AtMostOne ==
  ASSUME NEW S, NEW s \in Seq(S), s # <<>>, Len(s) <= 1
  PROVE  Len(s) = 1
  <1>1. Len(s) \in Nat
    BY LenProperties
  <1>2. Len(s) # 0
    BY EmptyIsZero
  <1> QED BY <1>1, <1>2

(* Two packets one after the other.                                         *)
LEMMA PairConcat ==
  ASSUME NEW p, NEW q
  PROVE  <<p>> \o <<q>> = <<p, q>>
  <1> DEFINE S == {p, q}
  <1>1. <<p>> \in Seq(S) /\ <<q>> \in Seq(S) /\ <<p, q>> \in Seq(S)
    OBVIOUS
  <1>2. Len(<<p>>) = 1 /\ Len(<<q>>) = 1 /\ Len(<<p, q>>) = 2
    OBVIOUS
  <1>3. /\ <<p>> \o <<q>> \in Seq(S) /\ Len(<<p>> \o <<q>>) = 2
        /\ \A i \in 1..2 : (<<p>> \o <<q>>)[i] =
                              IF i <= 1 THEN <<p>>[i] ELSE <<q>>[i - 1]
    BY <1>1, <1>2, ConcatProperties
  <1>4. \A i \in 1..2 : (<<p>> \o <<q>>)[i] = <<p, q>>[i]
    BY <1>3
  <1> QED BY <1>1, <1>2, <1>3, <1>4, SeqEqual

LEMMA NothingLeft ==
  ASSUME NEW s \in Seq({})
  PROVE  s = <<>>
  <1>1. Len(s) = 0
    BY ElementOfSeq, LenProperties
  <1> QED BY <1>1, EmptyIsZero

(* A line without the awaited packet is one.                                *)
LEMMA LineSilent ==
  ASSUME NEW B, NEW X, NEW A, NEW s \in Seq(B), B \cap X = {}
  PROVE  Line(s, B, X, A)
  BY DEF Line

(* The first packet leaves the line.                                        *)
LEMMA LineTail ==
  ASSUME NEW B, NEW X, NEW A, NEW s, Line(s, B, X, A), s # <<>>
  PROVE  /\ Head(s) \in B \cup X
         /\ Line(Tail(s), B, X, A)
         /\ Head(s) \in X => Tail(s) \in Seq(A)
         /\ Len(Tail(s)) = Len(s) - 1
  <1>1. /\ s \in Seq(B \cup X) /\ Tail(s) \in Seq(B \cup X)
        /\ Head(s) \in B \cup X
        /\ Len(s) \in Nat /\ Len(s) > 0 /\ Len(Tail(s)) = Len(s) - 1
        /\ \A i \in 1..Len(Tail(s)) : Tail(s)[i] = s[i + 1]
    BY HeadTailProperties, LenProperties, EmptySeq DEF Line
  <1>2. Line(Tail(s), B, X, A)
    <2>1. ASSUME NEW n \in 1..Len(Tail(s)), Tail(s)[n] \in X,
                 NEW m \in 1..Len(Tail(s)), m > n
          PROVE  Tail(s)[m] \in A
      <3>1. n + 1 \in 1..Len(s) /\ m + 1 \in 1..Len(s) /\ m + 1 > n + 1
        BY <1>1, <2>1
      <3>2. s[n + 1] \in X /\ Tail(s)[m] = s[m + 1]
        BY <1>1, <2>1
      <3> QED BY <3>1, <3>2 DEF Line
    <2> QED BY <1>1, <2>1 DEF Line
  <1>3. ASSUME Head(s) \in X PROVE Tail(s) \in Seq(A)
    <2>1. \A i \in 1..Len(Tail(s)) : Tail(s)[i] \in A
      <3>1. s[1] \in X /\ 1 \in 1..Len(s)
        BY <1>1, <1>3
      <3>2. ASSUME NEW i \in 1..Len(Tail(s)) PROVE Tail(s)[i] \in A
        <4>1. i + 1 \in 1..Len(s) /\ i + 1 > 1 /\ Tail(s)[i] = s[i + 1]
          BY <1>1
        <4> QED BY <3>1, <4>1 DEF Line
      <3> QED BY <3>2
    <2> QED BY <1>1, <2>1, SeqNarrow
  <1> QED BY <1>1, <1>2, <1>3

(* The awaited packet is sent.                                              *)
LEMMA LineAppend ==
  ASSUME NEW B, NEW X, NEW A, NEW s \in Seq(B), B \cap X = {}, NEW x \in X
  PROVE  Line(Append(s, x), B, X, A)
  <1>1. /\ Append(s, x) \in Seq(B \cup X)
        /\ Len(Append(s, x)) = Len(s) + 1 /\ Len(s) \in Nat
        /\ \A i \in 1..Len(s) : Append(s, x)[i] = s[i] /\ s[i] \in B
    BY AppendProperties, SeqMonotonic, LenProperties, ElementOfSeq
  <1> QED BY <1>1 DEF Line

(* A packet in front of a line.                                            *)
LEMMA LineCons ==
  ASSUME NEW B, NEW X, NEW A, NEW t, Line(t, B, X, A), NEW p \in B \cup X,
         p \in X => t \in Seq(A)
  PROVE  Line(<<p>> \o t, B, X, A)
  <1> DEFINE u == <<p>> \o t
  <1>1. /\ t \in Seq(B \cup X) /\ <<p>> \in Seq(B \cup X)
        /\ Len(<<p>>) = 1 /\ Len(t) \in Nat /\ <<p>>[1] = p
    BY LenProperties DEF Line
  <1>2. /\ u \in Seq(B \cup X) /\ Len(u) = 1 + Len(t)
        /\ \A i \in 1..Len(u) : u[i] = IF i <= 1 THEN <<p>>[i] ELSE t[i - 1]
    BY <1>1, ConcatProperties
  <1>3. ASSUME NEW n \in 1..Len(u), u[n] \in X, NEW m \in 1..Len(u), m > n
        PROVE  u[m] \in A
    <2>1. u[m] = t[m - 1] /\ m - 1 \in 1..Len(t)
      BY <1>1, <1>2, <1>3
    <2>2. CASE n = 1
      <3>1. t \in Seq(A)
        BY <1>1, <1>2, <1>3, <2>2
      <3>2. t[m - 1] \in A
        BY <3>1, <2>1, ElementOfSeq
      <3> QED BY <3>2, <2>1
    <2>3. CASE n # 1
      <3>1. n - 1 \in 1..Len(t) /\ t[n - 1] \in X /\ m - 1 > n - 1
        BY <1>1, <1>2, <1>3, <2>3
      <3> QED BY <2>1, <3>1 DEF Line
    <2> QED BY <2>2, <2>3
  <1> HIDE DEF u
  <1>4. Line(u, B, X, A)
    BY <1>2, <1>3 DEF Line
  <1> QED BY <1>4 DEF u

(* A packet at the head is damaged, perhaps followed by noise, or swallows *)
(* the next one.                                                           *)
LEMMA LineHarm ==
  ASSUME NEW B, NEW X, NEW A, NEW s, Line(s, B, X, A), s # <<>>,
         Noise \in B, Noise \notin X,
         NEW p \in B \cup X, p \in X => Head(s) \in X
  PROVE  /\ Line(<<p>> \o Tail(s), B, X, A)
         /\ (p \in X => Noise \in A) => Line(<<p, Noise>> \o Tail(s), B, X, A)
         /\ Len(s) > 1 => Line(<<p>> \o Tail(Tail(s)), B, X, A)
  <1>1. /\ Line(Tail(s), B, X, A) /\ Tail(s) \in Seq(B \cup X)
        /\ Head(s) \in X => Tail(s) \in Seq(A)
        /\ Len(Tail(s)) = Len(s) - 1
    BY LineTail DEF Line
  <1>2. Line(<<p>> \o Tail(s), B, X, A)
    BY <1>1, LineCons
  <1>3. ASSUME p \in X => Noise \in A PROVE Line(<<p, Noise>> \o Tail(s), B, X, A)
    <2> DEFINE t == <<Noise>> \o Tail(s)
    <2>1. Line(t, B, X, A)
      BY <1>1, LineCons
    <2>2. p \in X => t \in Seq(A)
      <3>1. p \in X => <<Noise>> \in Seq(A) /\ Tail(s) \in Seq(A)
        BY <1>1, <1>3
      <3> QED BY <3>1, ConcatProperties
    <2>3. Line(<<p>> \o t, B, X, A)
      BY <2>1, <2>2, LineCons
    <2>4. <<p>> \o t = (<<p>> \o <<Noise>>) \o Tail(s)
      <3>1. /\ <<p>> \in Seq(B \cup X) /\ <<Noise>> \in Seq(B \cup X)
            /\ Tail(s) \in Seq(B \cup X)
        BY <1>1
      <3> QED BY <3>1, ConcatAssociative
    <2>5. <<p>> \o <<Noise>> = <<p, Noise>>
      BY PairConcat
    <2> QED BY <2>3, <2>4, <2>5
  <1>4. ASSUME Len(s) > 1 PROVE Line(<<p>> \o Tail(Tail(s)), B, X, A)
    <2>1. Tail(s) # <<>>
      <3>1. Len(s) - 1 # 0
        BY <1>4, LenProperties DEF Line
      <3> QED BY <1>1, <3>1
    <2>2. Line(Tail(Tail(s)), B, X, A)
      BY <1>1, <2>1, LineTail
    <2>3. p \in X => Tail(Tail(s)) \in Seq(A)
      BY <1>1, <2>1, HeadTailProperties
    <2> QED BY <2>2, <2>3, LineCons
  <1> QED BY <1>2, <1>3, <1>4

-----------------------------------------------------------------------------
(* Packets.                                                                *)

(* TypeInv says no less than TypeOK.                                        *)
LEMMA TypeInvTypes == TypeInv => TypeOK
  <1>1. ToDevPackets \subseteq Packets /\ ToHostPackets \subseteq Packets
    BY DEF ToDevPackets, ToHostPackets
  <1>2. TypeInv => toDev \in Seq(Packets) /\ toHost \in Seq(Packets)
    BY <1>1, SeqMonotonic DEF TypeInv, WireType
  <1> QED
    BY <1>2 DEF TypeInv, TypeOK, HostType, DevType, WireType

(* Every packet the two sides send is one that may be on the line.          *)
LEMMA PlainPackets ==
  ASSUME NEW op \in {"INFO", "ERR", "END", "SPI_END", "JUNK"}
  PROVE  Cmd(op) \in ToDevPackets \cap ToHostPackets
  BY DEF Cmd, Packet, ToDevPackets, ToHostPackets, Packets, Ops

LEMMA RomPackets ==
  ASSUME NEW r \in Roms
  PROVE  /\ For("WRQ", r) \in ToDevPackets /\ For("SET", r) \in ToDevPackets
         /\ r \in SpiRoms => /\ For("RRQ", r) \in ToDevPackets
                             /\ For("WIPE", r) \in ToDevPackets
  BY DEF For, Packet, ToDevPackets, Packets, Ops

LEMMA DataPackets ==
  ASSUME NEW n \in Nat, NEW b \in Stuff \cup {Erased}
  PROVE  /\ Data(n, b) \in ToHostPackets
         /\ n \in 1..NBlocks /\ b # Erased => Data(n, b) \in ToDevPackets
  <1>1. <<b>> \in Seq(Stuff \cup {Erased, Missing})
    OBVIOUS
  <1>3. Data(n, b) \in Packets
    BY <1>1 DEF Data, Packet, Packets, Ops
  <1> QED BY <1>3 DEF Data, Packet, ToDevPackets, ToHostPackets

LEMMA AckPackets ==
  ASSUME NEW n \in Nat
  PROVE  Ack(n) \in ToDevPackets \cap ToHostPackets
  BY DEF Ack, Packet, ToDevPackets, ToHostPackets, Packets, Ops

(* An image consists of its blocks.                                         *)
LEMMA ImageType ==
  ASSUME NEW i \in Images
  PROVE  /\ Image(i) \in Seq(Blocks) /\ Len(Image(i)) = NBlocks
         /\ \A k \in 1..NBlocks : Image(i)[k] = Block(i, k)
  <1>1. NBlocks \in Nat
    BY SizeAssumption
  <1>2. \A k \in 1..NBlocks : Block(i, k) \in Blocks
    BY DEF Blocks
  <1> QED BY <1>1, <1>2 DEF Image

LEMMA CrcPackets ==
  /\ \A i \in Images : Crc(Image(i)) \in ToDevPackets
  /\ Crc(<<Missing>>) \in ToDevPackets
  <1>3. Blocks \subseteq Stuff \cup {Erased, Missing}
    BY DEF Stuff
  <1>1. \A i \in Images : Image(i) \in Seq(Stuff \cup {Erased, Missing})
    BY <1>3, ImageType, SeqMonotonic
  <1>2. <<Missing>> \in Seq(Stuff \cup {Erased, Missing})
    OBVIOUS
  <1> QED BY <1>1, <1>2 DEF Crc, Packet, ToDevPackets, Packets, Ops

LEMMA SendType ==
  ASSUME WireType, NEW p \in ToDevPackets, Send(p)
  PROVE  toDev' \in Seq(ToDevPackets)
  BY AppendProperties DEF WireType, Send

LEMMA ReplyType ==
  ASSUME WireType, NEW p \in ToHostPackets, Reply(p)
  PROVE  toHost' \in Seq(ToHostPackets)
  BY AppendProperties DEF WireType, Reply

LEMMA TakeType ==
  ASSUME WireType
  PROVE  /\ Take => Packet1 \in ToDevPackets /\ toDev' \in Seq(ToDevPackets)
         /\ Hear => Heard \in ToHostPackets /\ toHost' \in Seq(ToHostPackets)
  BY HeadTailProperties DEF WireType, Take, Hear, Packet1, Heard

(* Damage makes noise, or another content of a block or of a crc.          *)
LEMMA DamagedPackets ==
  ASSUME NEW p
  PROVE  /\ p \in ToDevPackets => Damaged(p) \subseteq ToDevPackets
         /\ p \in ToHostPackets => Spoilt(p) \subseteq ToHostPackets
  <1>1. Garbage \in Stuff /\ Rubble \in Stuff
    BY DEF Stuff
  <1>2. Noise \in ToDevPackets \cap ToHostPackets
    BY PlainPackets DEF Noise
  <1>3. ASSUME p \in Packets, p.op = "DATA", NEW b \in Stuff
        PROVE  /\ [p EXCEPT !.data = <<b>>] \in Packets
               /\ [p EXCEPT !.data = <<b>>].op = "DATA"
               /\ [p EXCEPT !.data = <<b>>].nr = p.nr
               /\ [p EXCEPT !.data = <<b>>].data = <<b>>
    <2>1. <<b>> \in Seq(Stuff \cup {Erased, Missing})
      OBVIOUS
    <2> QED BY <1>3, <2>1 DEF Packets
  <1>4. ASSUME p \in Packets, p.op = "CRC"
        PROVE  /\ [p EXCEPT !.data = <<Missing>>] \in Packets
               /\ [p EXCEPT !.data = <<Missing>>].op = "CRC"
    <2>1. <<Missing>> \in Seq(Stuff \cup {Erased, Missing})
      OBVIOUS
    <2> QED BY <1>4, <2>1 DEF Packets
  <1>5. ASSUME NEW b \in Stuff
        PROVE  /\ p \in ToDevPackets => With(p, b) \subseteq ToDevPackets
               /\ p \in ToHostPackets => With(p, b) \subseteq ToHostPackets
    BY <1>2, <1>3, <1>4, <1>5 DEF With, ToDevPackets, ToHostPackets
  <1> QED BY <1>1, <1>5 DEF Damaged, Spoilt, Shortened

(* What a fault of the line may make of the packets to the device ...      *)
LEMMA LineFaulted ==
  ASSUME LineFault, NEW B, NEW X, NEW A, Line(toDev, B, X, A),
         Noise \in B, B \cap X = {},
         \A p \in B : Damaged(p) \subseteq B,
         \A p \in X : Damaged(p) \subseteq X \cup {Noise},
         \A p \in X : Damaged(p) \cap X = {} \/ Noise \in A
  PROVE  Line(toDev', B, X, A)
  <1> DEFINE h == Head(toDev)
  <1>1. CASE UNCHANGED toDev
    BY <1>1
  <1>2. CASE toDev # <<>> /\ toDev' = Tail(toDev)
    BY <1>2, LineTail
  <1>3. ASSUME toDev # <<>>, NEW p \in {h} \cup Damaged(h)
        PROVE  p \in B \cup X /\ (p \in X => h \in X)
    <2>1. h \in B \cup X
      BY <1>3, LineTail
    <2> QED BY <1>3, <2>1
  <1>4. ASSUME NEW p \in {h} \cup Damaged(h), toDev # <<>>,
               \/ toDev' = <<p>> \o Tail(toDev)
               \/ p \in Damaged(h) /\ toDev' = <<p, Noise>> \o Tail(toDev)
               \/ Len(toDev) > 1 /\ toDev' = <<p>> \o Tail(Tail(toDev))
        PROVE  Line(toDev', B, X, A)
    <2>1. p \in B \cup X /\ (p \in X => h \in X) /\ Noise \notin X
      BY <1>3, <1>4
    <2>2. p \in Damaged(h) /\ p \in X => Noise \in A
      BY <2>1
    <2>3. /\ Line(<<p>> \o Tail(toDev), B, X, A)
          /\ (p \in X => Noise \in A) => Line(<<p, Noise>> \o Tail(toDev), B, X, A)
          /\ Len(toDev) > 1 => Line(<<p>> \o Tail(Tail(toDev)), B, X, A)
      BY <1>4, <2>1, LineHarm
    <2> QED BY <1>4, <2>2, <2>3
  <1>5. CASE Lose
    BY <1>1, <1>2, <1>5 DEF Lose, Take
  <1>6. CASE Garble
    BY <1>1, <1>4, <1>6 DEF Garble
  <1>7. CASE Cut
    BY <1>4, <1>7 DEF Cut, Damaged
  <1>8. CASE Merge
    <2> DEFINE p == IF h.op = "DATA" THEN [h EXCEPT !.data = <<Rubble>>] ELSE h
    <2>1. p \in {h} \cup Damaged(h)
      BY DEF Damaged, Shortened, With
    <2>2. toDev # <<>>
      BY <1>8 DEF Merge
    <2> QED BY <1>4, <1>8, <2>1, <2>2 DEF Merge
  <1> QED BY <1>5, <1>6, <1>7, <1>8 DEF LineFault

(* ... and of those to the host.                                           *)
LEMMA HostFaulted ==
  ASSUME WireType, LineFault
  PROVE  /\ toHost' \in Seq(ToHostPackets)
         /\ toHost = <<>> => toHost' = <<>>
         /\ Len(toHost) = 1 =>
              toHost' = <<>> \/ toHost' = toHost
                \/ \E p \in Spoilt(Head(toHost)) : toHost' = <<p>>
  <1> DEFINE h == Head(toHost)
  <1>1. \/ toHost' = toHost
        \/ toHost # <<>> /\ toHost' = Tail(toHost)
        \/ toHost # <<>> /\ \E p \in Spoilt(h) : toHost' = <<p>> \o Tail(toHost)
    BY DEF LineFault, Lose, Garble, Cut, Merge, Hear
  <1>2. ASSUME toHost # <<>>
        PROVE  /\ h \in ToHostPackets /\ Tail(toHost) \in Seq(ToHostPackets)
               /\ Len(Tail(toHost)) = Len(toHost) - 1
    BY <1>2, HeadTailProperties DEF WireType
  <1>3. ASSUME toHost # <<>>, NEW p \in Spoilt(h)
        PROVE  /\ <<p>> \o Tail(toHost) \in Seq(ToHostPackets)
               /\ Len(toHost) = 1 => <<p>> \o Tail(toHost) = <<p>>
    <2>1. p \in ToHostPackets
      BY <1>2, <1>3, DamagedPackets
    <2>2. <<p>> \in Seq(ToHostPackets)
      BY <2>1
    <2>3. Len(toHost) = 1 => Tail(toHost) = <<>>
      BY Singleton DEF WireType
    <2> QED BY <1>2, <1>3, <2>2, <2>3, ConcatProperties, ConcatEmptySeq
  <1>4. Len(toHost) = 1 => Tail(toHost) = <<>>
    BY Singleton DEF WireType
  <1> QED BY <1>1, <1>2, <1>3, <1>4 DEF WireType

-----------------------------------------------------------------------------
(* Type correctness.                                                       *)

LEMMA TypeInvInit == Init => TypeInv
  <1> SUFFICES ASSUME Init PROVE TypeInv
    OBVIOUS
  <1>1. HostType
    <2>1. blk \in 0..NBlocks /\ got \in Seq(Stuff \cup {Erased, Missing})
      BY SizeAssumption DEF Init
    <2>2. job \in [kind : {"flash", "read"}, rom : Roms \cup {None},
                   image : Images \cup {None}]
      BY DEF Init, NoJob
    <2> QED BY <2>1, <2>2 DEF Init, HostType, HostInv
  <1>2. DevType
    <2> USE DEF Init, Areas, Roms, SpiRoms
    <2>1. <<>> \in Contents /\ Unknown \in Contents
      BY DEF Unknown, Contents, Stuff
    <2>2. ctxt \in [inProgress : BOOLEAN, last : 0..NBlocks, part : Roms \cup {None}]
      BY SizeAssumption DEF Clear
    <2>3. rnr \in 0..(NBlocks - 1)
      BY SizeAssumption
    <2>4. ErasedCopy \in [SpiRoms -> Contents] /\ NewSpi \in [SpiRoms -> Contents]
      BY <2>1 DEF ErasedCopy, NewSpi, NoEntry
    <2>5. entry \in [Roms -> Contents]
      BY <2>1, <2>4 DEF Context, NoEntry
    <2>6. OffsetInv
      BY DEF OffsetInv, Clear
    <2>7. flash \in [Areas -> Contents] /\ offset \in [Areas -> Nat]
      BY <2>1
    <2>8. bootinfo \in Contents /\ spiCopy \in [SpiRoms -> [SpiRoms -> Contents]]
      BY <2>1, <2>4 DEF NoEntry
    <2> QED BY <2>2, <2>3, <2>5, <2>6, <2>7, <2>8 DEF DevType
  <1>3. WireType
    <2>1. faults \in 0..MaxFaults
      BY SizeAssumption DEF Init
    <2>2. toDev \in Seq(ToDevPackets) /\ toHost \in Seq(ToHostPackets)
      BY DEF Init
    <2>3. late \in BOOLEAN /\ cutShort \in BOOLEAN
      BY DEF Init
    <2> QED BY <2>1, <2>2, <2>3 DEF WireType
  <1> QED BY <1>1, <1>2, <1>3 DEF TypeInv

(* The steps of the tool.                                                   *)
LEMMA StartType ==
  ASSUME TypeInv, NEW kind \in {"flash", "read"}, NEW r \in Roms,
         NEW i \in Images \cup {None}, Start(kind, r, i),
         kind = "flash" => i \in ImagesFor(r), kind = "read" => r \in SpiRoms
  PROVE  TypeInv'
  <1> USE DEF TypeInv
  <1>1. HostType'
    BY SizeAssumption DEF Start, HostType, HostInv, Prepared
  <1>2. DevType'
    BY DEF Start, DevType, OffsetInv, devVars, flashVars, ctxVars
  <1>3. WireType'
    <2>1. toDev' \in Seq(ToDevPackets)
      BY SendType, PlainPackets DEF Start, WireType
    <2>2. toHost' = <<>> /\ late' \in BOOLEAN /\ cutShort' \in BOOLEAN
      BY DEF Start, OpenPort, Pending
    <2>3. faults' \in 0..MaxFaults
      BY SizeAssumption DEF Start, OpenPort, Fault, WireType
    <2> QED BY <2>1, <2>2, <2>3 DEF WireType
  <1> QED BY <1>1, <1>2, <1>3

LEMMA DevKept == DevType /\ UNCHANGED devVars => DevType'
  BY DEF DevType, OffsetInv, devVars, flashVars, ctxVars

LEMMA HostKept == HostType /\ UNCHANGED hostVars => HostType'
  BY DEF HostType, HostInv, hostVars

LEMMA FaultCount == WireType /\ (\E f \in Faults : Fault(f)) => faults' \in 0..MaxFaults
  BY SizeAssumption DEF WireType, Fault

LEMMA GaveUpType ==
  ASSUME WireType, GaveUp
  PROVE  /\ toHost' = toHost /\ faults' \in 0..MaxFaults /\ late' \in BOOLEAN
         /\ (~late' => ~late /\ toDev = <<>> /\ toHost = <<>>)
  <1>1. CASE TimedOut
    BY <1>1 DEF TimedOut, WireType, Quiet
  <1>2. CASE TimedOutEarly
    BY <1>2, FaultCount DEF TimedOutEarly, WireType, Faults
  <1> QED BY <1>1, <1>2 DEF GaveUp

LEMMA OpenPortType ==
  ASSUME WireType, OpenPort
  PROVE  toHost' = <<>> /\ late' \in BOOLEAN /\ faults' \in 0..MaxFaults
  BY FaultCount DEF OpenPort, Pending, WireType, Faults

LEMMA SendNextType ==
  ASSUME TypeInv, NEW k \in Nat \ {0}, SendNext(k), job.image \in Images
  PROVE  /\ hpc' \in {"data", "crc"} /\ toDev' \in Seq(ToDevPackets)
         /\ blk' \in 0..NBlocks /\ (hpc' = "data" => blk' # 0)
  <1>1. CASE k <= NBlocks
    <2>1. Block(job.image, k) \in Blocks /\ Block(job.image, k) # Erased
      BY <1>1, SizeAssumption DEF Blocks, Block, Erased
    <2>2. Data(k, Block(job.image, k)) \in ToDevPackets
      BY <1>1, <2>1, SizeAssumption, DataPackets DEF Stuff
    <2> QED
      BY <1>1, <2>2, SizeAssumption, SendType DEF SendNext, TypeInv
  <1>2. CASE ~(k <= NBlocks)
    <2>1. Crc(Image(job.image)) \in ToDevPackets
      BY CrcPackets
    <2> QED
      BY <1>2, <2>1, SendType DEF SendNext, TypeInv, HostType
  <1> QED BY <1>1, <1>2

LEMMA NextReadType ==
  ASSUME TypeInv, hpc = "read", NEW b \in Stuff \cup {Erased, Missing}, NextRead(b),
         UNCHANGED job
  PROVE  HostType'
  <1>1. blk + 1 \in 0..NBlocks
    BY SizeAssumption DEF TypeInv, HostType, HostInv
  <1>2. got' \in Seq(Stuff \cup {Erased, Missing}) /\ Len(got') = Len(got) + 1
    BY AppendProperties DEF NextRead, TypeInv, HostType
  <1> QED
    BY <1>1, <1>2, SizeAssumption
    DEF NextRead, Exit, TypeInv, HostType, HostInv

LEMMA HostStepType ==
  ASSUME TypeInv, HostStep
  PROVE  TypeInv'
  <1> USE DEF TypeInv
  <1>1. UNCHANGED devVars
    BY DEF HostStep, Open, InfoDone, WrqAnswered, DataAnswered, CrcAnswered,
           TransferTimeout, ReadBlock, ReadTimeout
  <1>2. cutShort' = cutShort
    BY DEF HostStep, Open, InfoDone, WrqAnswered, DataAnswered, CrcAnswered,
           TransferTimeout, ReadBlock, ReadTimeout
  <1>3. hpc \in {"wrq", "data", "crc"} => job.image \in Images
    BY DEF HostType, HostInv, ImagesFor, Images
  <1>4. ASSUME HostType', toDev' \in Seq(ToDevPackets), toHost' \in Seq(ToHostPackets),
               faults' \in 0..MaxFaults, late' \in BOOLEAN
        PROVE  TypeInv'
    BY <1>1, <1>2, <1>4, DevKept DEF WireType
  <1>5. CASE Open
    <2>1. HostType'
      <3>1. blk = 0 /\ got = <<>> /\ 0 < NBlocks /\ Len(got) = 0
        BY <1>5, SizeAssumption DEF Open, HostType, HostInv
      <3>2. UNCHANGED <<job, blk, got, result>> /\ hpc' \in {"read", "info", "wrq"}
            /\ (hpc' = "read" <=> job.kind = "read")
        BY <1>5 DEF Open
      <3> QED BY <1>5, <3>1, <3>2 DEF Open, HostType, HostInv
    <2>2. toDev' \in Seq(ToDevPackets)
      BY <1>5, SendType, PlainPackets, RomPackets DEF Open, HostType, HostInv
    <2> QED BY <1>4, <1>5, <2>1, <2>2, OpenPortType DEF Open
  <1>6. ASSUME Hear, UNCHANGED <<faults, late>>
        PROVE  /\ toHost' \in Seq(ToHostPackets) /\ Heard \in ToHostPackets
               /\ faults' \in 0..MaxFaults /\ late' \in BOOLEAN
    BY <1>6, TakeType DEF WireType
  <1>7. CASE InfoDone
    <2>1. HostType'
      BY <1>7 DEF InfoDone, HostType, HostInv
    <2>2. toDev' \in Seq(ToDevPackets)
      BY <1>7, SendType, PlainPackets, RomPackets
      DEF InfoDone, HostType, HostInv, Preparation
    <2>3. /\ toHost' \in Seq(ToHostPackets)
          /\ faults' \in 0..MaxFaults /\ late' \in BOOLEAN
      BY <1>6, <1>7, GaveUpType DEF InfoDone, WireType
    <2> QED BY <1>4, <2>1, <2>2, <2>3
  <1>8. CASE WrqAnswered
    <2>1. CASE Heard.op = "ACK"
      <3>1. SendNext(1) /\ UNCHANGED <<job, got, result>> /\ hpc = "wrq"
        BY <1>8, <2>1 DEF WrqAnswered
      <3> QED BY <1>3, <1>4, <1>6, <1>8, <3>1, SendNextType
              DEF WrqAnswered, HostType, HostInv
    <2>2. CASE Heard.op # "ACK"
      BY <1>4, <1>6, <1>8, <2>2 DEF WrqAnswered, Exit, HostType, HostInv, WireType
    <2> QED BY <2>1, <2>2
  <1>9. CASE DataAnswered
    <2>1. CASE AckOf(Heard, blk) /\ SendNext(blk + 1) /\ UNCHANGED result
      <3>1. blk + 1 \in Nat \ {0}
        BY SizeAssumption DEF HostType
      <3> QED BY <1>3, <1>4, <1>6, <1>9, <2>1, <3>1, SendNextType
              DEF DataAnswered, HostType, HostInv
    <2>2. CASE Exit("failed") /\ UNCHANGED blk
      <3>1. toDev' \in Seq(ToDevPackets)
        BY <1>9, <2>2, SendType, PlainPackets, SendNextType
          DEF DataAnswered, WireType, Exit, SendNext
      <3> QED BY <1>4, <1>6, <1>9, <2>2, <3>1 DEF DataAnswered, Exit, HostType, HostInv
    <2> QED BY <1>9, <2>1, <2>2 DEF DataAnswered
  <1>10. CASE CrcAnswered
    <2>1. toDev' \in Seq(ToDevPackets)
      BY <1>10, SendType, PlainPackets DEF CrcAnswered
    <2> QED BY <1>4, <1>6, <1>10, <2>1 DEF CrcAnswered, Exit, HostType, HostInv
  <1>11. CASE TransferTimeout
    BY <1>4, <1>11, GaveUpType DEF TransferTimeout, Exit, HostType, HostInv, WireType
  <1>12. CASE ReadBlock
    <2>1. CASE Heard.op = "DATA"
      <3>1. Heard.data[1] \in Stuff \cup {Erased, Missing}
        BY <1>6, <1>12, <2>1 DEF ReadBlock, ToHostPackets
      <3>2. HostType'
        BY <1>12, <2>1, <3>1, NextReadType DEF ReadBlock
      <3>3. toDev' \in Seq(ToDevPackets)
        BY <1>12, <2>1, SendType, AckPackets, SizeAssumption DEF ReadBlock, HostType
      <3> QED BY <1>4, <1>6, <1>12, <3>2, <3>3 DEF ReadBlock
    <2>2. CASE Heard.op # "DATA"
      BY <1>4, <1>6, <1>12, <2>2 DEF ReadBlock, HostType, HostInv, WireType
    <2> QED BY <2>1, <2>2
  <1>13. CASE ReadTimeout
    <2>1. HostType'
      BY <1>13, NextReadType DEF ReadTimeout
    <2> QED BY <1>4, <1>13, <2>1, GaveUpType DEF ReadTimeout, WireType
  <1> QED
    BY <1>5, <1>7, <1>8, <1>9, <1>10, <1>11, <1>12, <1>13 DEF HostStep

LEMMA Names ==
  /\ Areas = {"rom", "spi0", "spi1", "backup"}
  /\ Roms = {"rom", "spi0", "spi1"} /\ SpiRoms = {"spi0", "spi1"}
  /\ SpiRoms \subseteq Roms /\ Roms \subseteq Areas
  BY DEF Areas, Roms, SpiRoms

LEMMA ContentsType ==
  /\ <<>> \in Contents /\ Unknown \in Contents /\ NoEntry \in Contents
  /\ \A c \in Contents : Len(c) \in Nat
  /\ \A c \in Contents, b \in Stuff :
       /\ Append(c, b) \in Contents /\ Len(Append(c, b)) = Len(c) + 1
  <1>1. Contents = Seq(Stuff)
    BY DEF Contents, Stuff
  <1> QED BY <1>1, AppendProperties, LenProperties DEF Unknown, Stuff, NoEntry

(* A block is programmed at the offset, or the one that is there spoilt.   *)
OneBlockOn(c, at, b, d) ==
  /\ d \in Contents
  /\ at <= Len(c) =>
       /\ Len(d) >= Len(c) /\ Len(d) > at
       /\ \A k \in 1..Len(c) : k # at + 1 => d[k] = c[k]
       /\ d[at + 1] \in {b, Garbage, Rubble}
  /\ at = Len(c) => Len(d) = Len(c) + 1
  /\ at < Len(c) => Len(d) = Len(c) /\ d[at + 1] \in {Garbage, Rubble}

LEMMA PutType ==
  ASSUME NEW c \in Contents, NEW at \in Nat, NEW b \in Stuff, NEW e \in Stuff,
         e \in {b, Garbage, Rubble}, at = Len(c) \/ e \in {Garbage, Rubble}
  PROVE  OneBlockOn(c, at, b, Put(c, at, e))
  <1> SUFFICES ASSUME NEW d, d = Put(c, at, e)
               PROVE  OneBlockOn(c, at, b, d)
    OBVIOUS
  <1> USE DEF OneBlockOn
  <1>1. c \in Seq(Stuff) /\ Len(c) \in Nat /\ Contents = Seq(Stuff)
    BY LenProperties DEF Contents
  <1>2. CASE at = Len(c)
    BY <1>1, <1>2, AppendProperties DEF Put
  <1>3. CASE at # Len(c)
    <2>1. d = [c EXCEPT ![at + 1] = e] /\ c \in [1..Len(c) -> Stuff]
      BY <1>1, <1>3, LenProperties DEF Put
    <2>2. d \in [1..Len(c) -> Stuff]
      BY <1>1, <2>1
    <2>3. d \in Seq(Stuff) /\ Len(d) = Len(c)
      BY <1>1, <2>2
    <2>4. \A k \in 1..Len(c) : d[k] = IF k = at + 1 THEN e ELSE c[k]
      BY <2>1
    <2>5. at < Len(c) => at + 1 \in 1..Len(c)
      BY <1>1
    <2> QED BY <1>1, <1>3, <2>3, <2>4, <2>5
  <1> QED BY <1>2, <1>3

LEMMA ProgrammedType ==
  ASSUME NEW a, flash[a] \in Contents, offset[a] \in Nat, NEW b \in Stuff
  PROVE  OneBlockOn(flash[a], offset[a], b, Programmed(a, b))
  <1> DEFINE e == IF Misplaced(a, b) THEN Rubble
                  ELSE IF offset[a] = Len(flash[a]) THEN b ELSE Garbage
  <1>1. /\ e \in Stuff /\ e \in {b, Garbage, Rubble}
        /\ offset[a] = Len(flash[a]) \/ e \in {Garbage, Rubble}
    BY DEF Stuff
  <1>2. Programmed(a, b) = Put(flash[a], offset[a], e)
    BY DEF Programmed
  <1> HIDE DEF e
  <1> QED BY <1>1, <1>2, PutType

LEMMA DriverType ==
  ASSUME DevType, NEW r
  PROVE  Driver(r) \in Areas /\ spiArea \in Areas /\ romArea \in Areas
         /\ (r \in SpiRoms => Driver(r) \in SpiRoms)
  BY Names DEF Driver, DevType

LEMMA ClearType ==
  /\ Clear \in [inProgress : BOOLEAN, last : 0..NBlocks, part : Roms \cup {None}]
  /\ Clear.inProgress = FALSE /\ Clear.last = 0 /\ Clear.part = None
  /\ None \notin SpiRoms
  BY SizeAssumption, NamesAssumption, Names DEF Clear

(* A packet that is refused leaves the flash as it was.                    *)
LEMMA RefuseType ==
  ASSUME TypeInv, Refuse, dpc # "retrieve"
  PROVE  DevType'
  BY ClearType DEF TypeInv, Refuse, DevType, OffsetInv, flashVars, ctxVars

(* The steps of the device.                                                 *)
LEMMA DevFrame ==
  ASSUME TypeInv, DevType', toDev' \in Seq(ToDevPackets),
         toHost' \in Seq(ToHostPackets), UNCHANGED <<hostVars, late, cutShort>>,
         faults' \in 0..MaxFaults
  PROVE  TypeInv'
  BY HostKept DEF TypeInv, WireType

LEMMA ArrivesType ==
  ASSUME TypeInv, NEW op, Arrives(op)
  PROVE  /\ dpc = "run" /\ toDev # <<>> /\ toDev' = Tail(toDev)
         /\ Packet1 \in ToDevPackets /\ toDev' \in Seq(ToDevPackets)
         /\ Packet1.op = op
  BY TakeType DEF TypeInv, Arrives, Take

(* Erasing and flushing.                                                   *)
LEMMA StorageType ==
  ASSUME DevType, NEW a \in Areas
  PROVE  /\ EraseArea(a) => flash' \in [Areas -> Contents] /\ flash'[a] = <<>>
                            /\ \A b \in Areas : b # a => flash'[b] = flash[b]
         /\ Flush(a) => offset' \in [Areas -> Nat] /\ offset'[a] = 0
                            /\ \A b \in Areas : b # a => offset'[b] = offset[b]
  BY ContentsType DEF DevType, EraseArea, Flush

LEMMA DevWrqType ==
  ASSUME TypeInv, DevWrq
  PROVE  DevType' /\ toDev' \in Seq(ToDevPackets) /\ toHost' \in Seq(ToHostPackets)
  <1>1. /\ dpc = "run" /\ Packet1 \in ToDevPackets /\ Packet1.op = "WRQ"
        /\ toDev' \in Seq(ToDevPackets)
    BY ArrivesType DEF DevWrq
  <1>2. CASE Refuse
    BY <1>1, <1>2, RefuseType DEF Refuse, Silent, TypeInv, WireType
  <1>3. CASE ~Refuse
    <2> DEFINE a == Driver(Packet1.rom)
    <2>1. /\ ~ctxt.inProgress /\ UNCHANGED <<dpc, rnr, romArea, spiArea, ctxVars>>
          /\ ctxt' = [ctxt EXCEPT !.inProgress = TRUE, !.part = Packet1.rom]
          /\ IF Packet1.rom = "rom" THEN EraseArea(a) ELSE UNCHANGED flash
          /\ Flush(a) /\ Reply(Ack(ctxt.last))
      BY <1>3 DEF DevWrq
    <2>2. Packet1.rom \in Roms
      BY <1>1 DEF ToDevPackets
    <2>3. a \in Areas /\ (Packet1.rom = "rom" => a \notin SpiRoms)
      BY DriverType, Names DEF TypeInv, Driver, DevType
    <2> HIDE DEF a
    <2>4. flash' \in [Areas -> Contents] /\ offset' \in [Areas -> Nat]
      BY <2>1, <2>3, StorageType DEF TypeInv, DevType
    <2>5. ctxt' \in [inProgress : BOOLEAN, last : 0..NBlocks, part : Roms \cup {None}]
          /\ ctxt'.inProgress
      BY <2>1, <2>2 DEF TypeInv, DevType
    <2>6. \A b \in SpiRoms : offset'[b] <= Len(flash'[b])
      <3> SUFFICES ASSUME NEW b \in SpiRoms PROVE offset'[b] <= Len(flash'[b])
        OBVIOUS
      <3>1. flash'[b] = flash[b] /\ b \in Areas /\ Len(flash[b]) \in Nat
        BY <2>1, <2>3, StorageType, ContentsType, Names DEF TypeInv, DevType
      <3>2. offset'[b] = 0 \/ offset'[b] = offset[b]
        BY <2>1, <2>3, <3>1, StorageType DEF TypeInv
      <3>3. offset[b] <= Len(flash[b])
        BY <1>1 DEF TypeInv, DevType, OffsetInv
      <3> QED BY <3>1, <3>2, <3>3
    <2>7. OffsetInv'
      BY <1>1, <2>1, <2>5, <2>6 DEF OffsetInv
    <2>8. DevType'
      BY <2>1, <2>4, <2>5, <2>7 DEF TypeInv, DevType, ctxVars
    <2>9. toHost' \in Seq(ToHostPackets)
      BY <2>1, ReplyType, AckPackets DEF TypeInv, DevType
    <2> QED BY <1>1, <2>8, <2>9
  <1> QED BY <1>2, <1>3

LEMMA DevDataType ==
  ASSUME TypeInv, DevData
  PROVE  DevType' /\ toDev' \in Seq(ToDevPackets) /\ toHost' \in Seq(ToHostPackets)
  <1>1. /\ dpc = "run" /\ Packet1 \in ToDevPackets /\ Packet1.op = "DATA"
        /\ toDev' \in Seq(ToDevPackets)
    BY ArrivesType DEF DevData
  <1>2. CASE Refuse
    BY <1>1, <1>2, RefuseType DEF Refuse, Silent, TypeInv, WireType
  <1>3. CASE ~Refuse
    <2> DEFINE a == Driver(ctxt.part)
               d == Programmed(a, Packet1.data[1])
    <2>1. /\ DataExpected /\ UNCHANGED <<dpc, rnr, romArea, spiArea, ctxVars>>
          /\ ctxt' = [ctxt EXCEPT !.last = Packet1.nr]
          /\ flash' = [flash EXCEPT ![a] = Programmed(a, Packet1.data[1])]
          /\ offset' = [offset EXCEPT ![a] = @ + 1]
          /\ Reply(Ack(Packet1.nr))
      BY <1>3 DEF DevData
    <2>2. Packet1.nr \in 1..NBlocks /\ Packet1.data[1] \in Stuff
      BY <1>1 DEF ToDevPackets
    <2>3. a \in Areas
      BY DriverType DEF TypeInv
    <2> HIDE DEF a
    <2>4. flash[a] \in Contents /\ offset[a] \in Nat
      BY <2>3 DEF TypeInv, DevType
    <2>5. d \in Contents /\ (offset[a] <= Len(flash[a]) => Len(d) > offset[a])
      BY <2>2, <2>4, ProgrammedType DEF OneBlockOn
    <2>6. flash' \in [Areas -> Contents] /\ offset' \in [Areas -> Nat]
      BY <2>1, <2>3, <2>4, <2>5 DEF TypeInv, DevType
    <2>7. ctxt' \in [inProgress : BOOLEAN, last : 0..NBlocks, part : Roms \cup {None}]
          /\ ctxt'.inProgress = TRUE
      BY <2>1, <2>2 DEF TypeInv, DevType, DataExpected
    <2>8. \A b \in SpiRoms : offset'[b] <= Len(flash'[b])
      <3> SUFFICES ASSUME NEW b \in SpiRoms PROVE offset'[b] <= Len(flash'[b])
        OBVIOUS
      <3>1. offset[b] <= Len(flash[b])
        BY <1>1 DEF TypeInv, DevType, OffsetInv
      <3>2. CASE b # a
        BY <2>1, <3>1, <3>2, Names DEF TypeInv, DevType
      <3>3. CASE b = a
        BY <2>1, <2>3, <2>4, <2>5, <3>1, <3>3, ContentsType DEF TypeInv, DevType
      <3> QED BY <3>2, <3>3
    <2>9. OffsetInv'
      BY <1>1, <2>1, <2>7, <2>8 DEF OffsetInv
    <2>10. DevType'
      BY <2>1, <2>6, <2>7, <2>9 DEF TypeInv, DevType, ctxVars
    <2>11. toHost' \in Seq(ToHostPackets)
      BY <2>1, <2>2, ReplyType, AckPackets, SizeAssumption DEF TypeInv
    <2> QED BY <1>1, <2>10, <2>11
  <1> QED BY <1>2, <1>3

(* A flush keeps every offset within what was written.                     *)
LEMMA FlushKeeps ==
  ASSUME TypeInv, dpc # "retrieve", dpc' # "retrieve", NEW a \in Areas, Flush(a),
         \A b \in SpiRoms : b # a => flash'[b] = flash[b],
         ~ctxt'.inProgress => ctxt'.last = 0,
         flash' \in [Areas -> Contents]
  PROVE  OffsetInv'
  <1>1. ASSUME NEW b \in SpiRoms PROVE offset'[b] <= Len(flash'[b])
    <2>1. offset[b] <= Len(flash[b]) /\ b \in Areas /\ Len(flash'[b]) \in Nat
      BY Names, ContentsType DEF TypeInv, DevType, OffsetInv
    <2> QED BY <2>1, StorageType DEF TypeInv
  <1> QED BY <1>1 DEF OffsetInv

LEMMA DevCrcType ==
  ASSUME TypeInv, DevCrc
  PROVE  DevType' /\ toDev' \in Seq(ToDevPackets) /\ toHost' \in Seq(ToHostPackets)
  <1>1. /\ dpc = "run" /\ Packet1 \in ToDevPackets /\ Packet1.op = "CRC"
        /\ toDev' \in Seq(ToDevPackets)
        /\ UNCHANGED <<rnr, flash, romArea, spiArea, bootinfo, spiCopy>>
    BY ArrivesType DEF DevCrc
  <1>2. PICK a \in {romArea, spiArea} :
          /\ Flush(a)
          /\ a = IF ctxt.part \in SpiRoms THEN spiArea ELSE romArea
    BY DEF DevCrc, CrcSpi, CrcRom
  <1>3. a \in Areas /\ flash' \in [Areas -> Contents]
    BY <1>1, <1>2, DriverType DEF TypeInv, DevType
  <1>4. SubSeq(flash[spiArea], 1, offset[spiArea]) \in Contents
    <2>1. /\ flash[spiArea] \in Seq(Stuff) /\ offset[spiArea] \in Nat
          /\ offset[spiArea] <= Len(flash[spiArea])
      BY <1>1, Names DEF TypeInv, DevType, OffsetInv, Contents, Stuff
    <2>2. SubSeq(flash[spiArea], 1, offset[spiArea]) \in Seq(Stuff)
      BY <2>1, SubSeqProperties
    <2> QED BY <2>2 DEF Contents, Stuff
  <1>5. entry' \in [Roms -> Contents]
    <2>1. \/ entry' = [entry EXCEPT !.rom = flash[romArea]]
          \/ entry' = [entry EXCEPT ![ctxt.part] =
                         SubSeq(flash[spiArea], 1, offset[spiArea])]
          \/ entry' = entry
      BY DEF DevCrc, CrcSpi, CrcRom
    <2>2. flash[romArea] \in Contents
      BY DriverType DEF TypeInv, DevType
    <2> QED BY <1>4, <2>1, <2>2 DEF TypeInv, DevType
  <1>6. \/ dpc' = "store" /\ ctxt' = ctxt /\ Reply(Ack(ctxt.last))
        \/ dpc' = dpc /\ ctxt' = Clear /\ toHost' = toHost
    <2>1. CASE CrcSpi
      BY <2>1 DEF CrcSpi, Silent
    <2>2. CASE CrcRom
      BY <2>2 DEF CrcRom, Silent
    <2> QED BY <2>1, <2>2 DEF DevCrc
  <1>7. /\ ctxt' \in [inProgress : BOOLEAN, last : 0..NBlocks, part : Roms \cup {None}]
        /\ ~ctxt'.inProgress => ctxt'.last = 0
        /\ dpc' \in {"run", "store"}
    BY <1>1, <1>6, ClearType DEF TypeInv, DevType, OffsetInv
  <1>8. OffsetInv'
    BY <1>1, <1>2, <1>3, <1>7, FlushKeeps
  <1>9. offset' \in [Areas -> Nat]
    BY <1>2, <1>3, StorageType DEF TypeInv
  <1>10. DevType'
    BY <1>1, <1>3, <1>5, <1>7, <1>8, <1>9 DEF TypeInv, DevType
  <1>11. toHost' \in Seq(ToHostPackets)
    BY <1>6, ReplyType, AckPackets DEF TypeInv, DevType, WireType
  <1> QED BY <1>1, <1>10, <1>11

LEMMA StoreType ==
  ASSUME TypeInv, Store
  PROVE  DevType' /\ toDev' \in Seq(ToDevPackets) /\ toHost' \in Seq(ToHostPackets)
  <1>1. /\ dpc = "store" /\ dpc' = "run" /\ ctxt' = Clear
        /\ UNCHANGED <<rnr, offset, entry, toDev, toHost>>
    BY DEF Store
  <1>2. flash' \in [Areas -> Contents] /\ \A b \in SpiRoms : flash'[b] = flash[b]
    <2>1. flash' = flash \/ flash' = [flash EXCEPT !["backup"] = Unknown]
      BY DEF Store
    <2>2. "backup" \in Areas /\ "backup" \notin SpiRoms
      BY Names
    <2>3. Unknown \in Contents /\ flash \in [Areas -> Contents]
      BY ContentsType DEF TypeInv, DevType
    <2>4. \A b \in SpiRoms : b \in Areas /\ b # "backup"
      BY Names
    <2> QED BY <2>1, <2>2, <2>3, <2>4
  <1>3. romArea' \in {"rom", "backup"} /\ spiArea' \in SpiRoms
    BY Names DEF Store, TypeInv, DevType
  <1>4. bootinfo' \in Contents /\ spiCopy' \in [SpiRoms -> [SpiRoms -> Contents]]
    BY Names DEF Store, StoreSpiContext, TypeInv, DevType
  <1>5. OffsetInv'
    BY <1>1, <1>2, ClearType DEF TypeInv, DevType, OffsetInv
  <1>6. DevType'
    BY <1>1, <1>2, <1>3, <1>4, <1>5, ClearType DEF TypeInv, DevType
  <1> QED BY <1>1, <1>6 DEF TypeInv, WireType

(* The commands that main() handles.                                       *)
LEMMA CommandType ==
  ASSUME TypeInv, NEW op, Command(op)
  PROVE  /\ dpc = "run" /\ dpc' = "run" /\ rnr' = rnr /\ ctxt' = Clear
         /\ Packet1 \in ToDevPackets /\ Packet1.op = op
         /\ toDev' \in Seq(ToDevPackets)
         /\ UNCHANGED <<flash, offset>> => OffsetInv'
  BY ArrivesType, ClearType DEF TypeInv, DevType, OffsetInv, Command

LEMMA DevCommandType ==
  ASSUME TypeInv, DevInfo \/ DevEnd \/ DevSet \/ DevWipe
  PROVE  DevType' /\ toDev' \in Seq(ToDevPackets) /\ toHost' \in Seq(ToHostPackets)
  <1>1. CASE DevInfo
    BY <1>1, CommandType, ClearType, ReplyType, PlainPackets
    DEF DevInfo, flashVars, ctxVars, TypeInv, DevType
  <1>2. CASE DevEnd
    BY <1>2, CommandType, ClearType
    DEF DevEnd, Silent, ctxVars, TypeInv, DevType, WireType
  <1>3. CASE DevSet
    <2>1. Command("SET")
      BY <1>3 DEF DevSet
    <2>2. Packet1.rom \in Roms
      BY <2>1, CommandType DEF ToDevPackets
    <2>3. romArea' \in {"rom", "backup"} /\ spiArea' \in SpiRoms
      BY <1>3, <2>2, Names DEF DevSet, TypeInv, DevType
    <2> QED BY <1>3, <2>1, <2>3, CommandType, ClearType
            DEF DevSet, Silent, ctxVars, TypeInv, DevType, WireType
  <1>4. CASE DevWipe
    <2> DEFINE a == Packet1.rom
    <2>1. Command("WIPE") /\ EraseArea(a) /\ Flush(a)
      BY <1>4 DEF DevWipe
    <2>2. a \in SpiRoms /\ a \in Areas /\ a \in Roms
      BY <2>1, CommandType, Names DEF ToDevPackets
    <2>3. flash' \in [Areas -> Contents] /\ offset' \in [Areas -> Nat]
          /\ \A b \in SpiRoms : b # a => flash'[b] = flash[b]
      BY <2>1, <2>2, StorageType, Names DEF TypeInv
    <2>4. OffsetInv'
      BY <2>1, <2>2, <2>3, CommandType, ClearType, FlushKeeps
    <2>5. ErasedCopy \in [SpiRoms -> Contents]
      BY ContentsType DEF ErasedCopy
    <2>6. entry' \in [Roms -> Contents] /\ spiCopy' \in [SpiRoms -> [SpiRoms -> Contents]]
      BY <1>4, <2>2, <2>5, ContentsType DEF DevWipe, TypeInv, DevType
    <2> QED BY <1>4, <2>1, <2>2, <2>3, <2>4, <2>6, CommandType, ClearType
            DEF DevWipe, Silent, TypeInv, DevType, WireType
  <1> QED BY <1>1, <1>2, <1>3, <1>4

LEMMA DevOtherType ==
  ASSUME TypeInv, DevOther
  PROVE  DevType' /\ toDev' \in Seq(ToDevPackets) /\ toHost' \in Seq(ToHostPackets)
  <1>1. dpc = "run" /\ toDev' \in Seq(ToDevPackets)
    BY ArrivesType DEF DevOther
  <1>2. Refuse \/ UNCHANGED <<devVars, toHost>>
    BY DEF DevOther
  <1> QED
    BY <1>1, <1>2, RefuseType, DevKept DEF Refuse, Silent, TypeInv, WireType

LEMMA AtType ==
  ASSUME NEW c \in Contents, NEW n \in Nat
  PROVE  At(c, n) \in Stuff \cup {Erased}
  <1>1. c \in Seq(Stuff) /\ Len(c) \in Nat
    BY LenProperties DEF Contents, Stuff
  <1>2. n < Len(c) => c[n + 1] \in Stuff
    BY <1>1, ElementOfSeq
  <1> QED BY <1>2 DEF At

(* A block of the read-back.                                               *)
LEMMA SendBlockType ==
  ASSUME TypeInv, NEW n \in 0..(NBlocks - 1), SendBlock(n), offset' \in [Areas -> Nat],
         offset'[spiArea] > 0
  PROVE  /\ rnr' \in 0..(NBlocks - 1) /\ rnr' = n
         /\ toHost' \in Seq(ToHostPackets)
  <1>1. flash[spiArea] \in Contents /\ offset'[spiArea] - 1 \in Nat
    <2>1. spiArea \in Areas /\ flash \in [Areas -> Contents]
      BY DriverType DEF TypeInv, DevType
    <2>2. offset'[spiArea] \in Nat
      BY <2>1
    <2> QED BY <2>1, <2>2
  <1>2. Data(n, At(flash[spiArea], offset'[spiArea] - 1)) \in ToHostPackets
    BY <1>1, AtType, DataPackets, SizeAssumption
  <1> QED BY <1>2, ReplyType DEF SendBlock, TypeInv

LEMMA DevRrqType ==
  ASSUME TypeInv, DevRrq
  PROVE  DevType' /\ toDev' \in Seq(ToDevPackets) /\ toHost' \in Seq(ToHostPackets)
  <1>1. /\ dpc = "run" /\ Packet1 \in ToDevPackets /\ Packet1.op = "RRQ"
        /\ toDev' \in Seq(ToDevPackets)
    BY ArrivesType DEF DevRrq
  <1>2. CASE Refuse
    BY <1>1, <1>2, RefuseType DEF Refuse, Silent, TypeInv, WireType
  <1>3. CASE ~Refuse
    <2>1. /\ ~ctxt.inProgress /\ dpc' = "retrieve" /\ SendBlock(0)
          /\ offset' = [offset EXCEPT ![spiArea] = 1]
          /\ UNCHANGED <<flash, romArea, spiArea, ctxVars>>
      BY <1>3 DEF DevRrq
    <2>2. PICK r \in Named(Packet1.rom) : ctxt' = [ctxt EXCEPT !.part = r]
      BY <1>3 DEF DevRrq
    <2>3. r \in Roms
      BY <1>1, Names DEF Named, ToDevPackets
    <2>4. /\ ctxt' \in [inProgress : BOOLEAN, last : 0..NBlocks, part : Roms \cup {None}]
          /\ ~ctxt'.inProgress /\ ctxt'.last = 0
      BY <2>1, <2>2, <2>3 DEF TypeInv, DevType, OffsetInv
    <2>5. /\ offset' \in [Areas -> Nat] /\ offset'[spiArea] = 1
          /\ \A b \in SpiRoms : b # spiArea => offset'[b] = offset[b]
      BY <2>1, DriverType, Names DEF TypeInv, DevType
    <2>6. rnr' \in 0..(NBlocks - 1) /\ rnr' = 0 /\ toHost' \in Seq(ToHostPackets)
      BY <2>1, <2>5, SendBlockType, SizeAssumption
    <2>7. OffsetInv'
      BY <1>1, <2>1, <2>4, <2>5, <2>6 DEF TypeInv, DevType, OffsetInv
    <2> QED BY <1>1, <2>1, <2>4, <2>5, <2>6, <2>7 DEF TypeInv, DevType, ctxVars
  <1> QED BY <1>2, <1>3

LEMMA RetrieveType ==
  ASSUME TypeInv, Retrieve
  PROVE  DevType' /\ toDev' \in Seq(ToDevPackets) /\ toHost' \in Seq(ToHostPackets)
  <1>1. /\ dpc = "retrieve" /\ Packet1 \in ToDevPackets
        /\ toDev' \in Seq(ToDevPackets)
        /\ UNCHANGED <<ctxt, flash, romArea, spiArea, ctxVars>>
        /\ spiArea \in Areas /\ offset[spiArea] = rnr + 1 /\ rnr \in 0..(NBlocks - 1)
        /\ ~ctxt.inProgress
    BY TakeType, DriverType DEF Retrieve, TypeInv, DevType, OffsetInv
  <1>2. \/ /\ offset' = [offset EXCEPT ![spiArea] = @ + 1] /\ SendBlock(rnr + 1)
           /\ dpc' = dpc /\ rnr + 1 < NBlocks
        \/ /\ EndRetrieve
           /\ \/ Reply(Cmd("SPI_END")) \/ Reply(Cmd("ERR")) \/ toHost' = toHost
    BY DEF Retrieve, RetrieveAcked, RetrieveAborted, Silent
  <1>3. CASE offset' = [offset EXCEPT ![spiArea] = @ + 1] /\ SendBlock(rnr + 1)
             /\ dpc' = dpc /\ rnr + 1 < NBlocks
    <2>1. /\ offset' \in [Areas -> Nat] /\ offset'[spiArea] = rnr + 2
          /\ \A b \in SpiRoms : b # spiArea => offset'[b] = offset[b]
      BY <1>1, <1>3, Names DEF TypeInv, DevType
    <2>2. rnr + 1 \in 0..(NBlocks - 1) /\ rnr + 2 > 0 /\ rnr + 2 = (rnr + 1) + 1
      BY <1>1, <1>3, SizeAssumption
    <2>3. rnr' \in 0..(NBlocks - 1) /\ rnr' = rnr + 1 /\ toHost' \in Seq(ToHostPackets)
      BY <1>3, <2>1, <2>2, SendBlockType
    <2>4. OffsetInv'
      BY <1>1, <1>3, <2>1, <2>2, <2>3 DEF TypeInv, DevType, OffsetInv
    <2> QED BY <1>1, <1>3, <2>1, <2>3, <2>4 DEF TypeInv, DevType, ctxVars
  <1>4. CASE /\ EndRetrieve
             /\ \/ Reply(Cmd("SPI_END")) \/ Reply(Cmd("ERR")) \/ toHost' = toHost
    <2>1. dpc' = "run" /\ rnr' = 0 /\ Flush(spiArea)
      BY <1>4 DEF EndRetrieve
    <2>2. /\ offset' \in [Areas -> Nat] /\ offset'[spiArea] = 0
          /\ \A b \in SpiRoms : b # spiArea => offset'[b] = offset[b]
      BY <1>1, <2>1, StorageType, Names DEF TypeInv
    <2>3. Len(flash[spiArea]) \in Nat
      BY <1>1, ContentsType DEF TypeInv, DevType
    <2>4. OffsetInv'
      BY <1>1, <2>1, <2>2, <2>3 DEF TypeInv, DevType, OffsetInv
    <2>5. toHost' \in Seq(ToHostPackets)
      BY <1>4, ReplyType, PlainPackets DEF TypeInv, WireType
    <2>6. rnr' \in 0..(NBlocks - 1)
      BY <2>1, SizeAssumption
    <2> QED BY <1>1, <2>1, <2>2, <2>4, <2>5, <2>6 DEF TypeInv, DevType, ctxVars
  <1> QED BY <1>2, <1>3, <1>4

LEMMA DevStepType ==
  ASSUME TypeInv, DevStep \/ DevFails
  PROVE  TypeInv'
  <1>1. ASSUME DevHandles
        PROVE  DevType' /\ toDev' \in Seq(ToDevPackets) /\ toHost' \in Seq(ToHostPackets)
    BY <1>1, DevWrqType, DevDataType, DevCrcType, StoreType, DevCommandType,
       DevOtherType, DevRrqType, RetrieveType DEF DevHandles
  <1>2. CASE DevStep
    BY <1>1, <1>2, DevFrame DEF DevStep, TypeInv, WireType
  <1>3. CASE DevFails
    <2>1. dpc # "retrieve" /\ toDev' \in Seq(ToDevPackets) /\ faults' \in 0..MaxFaults
      BY <1>3, ArrivesType, FaultCount DEF DevFails, DevDataFails, TypeInv, Faults
    <2> QED BY <1>3, <2>1, RefuseType, DevFrame
            DEF DevFails, DevDataFails, Refuse, Silent, TypeInv, WireType
  <1> QED BY <1>2, <1>3

(* Faults.                                                                  *)
LEMMA LineFaultFrame ==
  ASSUME WireType, LineFault
  PROVE  /\ UNCHANGED <<hostVars, devVars, late, cutShort>>
         /\ faults' \in 0..MaxFaults
  BY FaultCount DEF LineFault, Lose, Garble, Cut, Merge, OnLine, Faults

LEMMA LineFaultType ==
  ASSUME TypeInv, LineFault
  PROVE  TypeInv'
  <1>1. Line(toDev, ToDevPackets, {}, {})
    BY LineSilent DEF TypeInv, WireType
  <1>2. Noise \in ToDevPackets
    BY PlainPackets DEF Noise
  <1>3. \A p \in ToDevPackets : Damaged(p) \subseteq ToDevPackets
    BY DamagedPackets
  <1>4. Line(toDev', ToDevPackets, {}, {})
    BY <1>1, <1>2, <1>3, LineFaulted
  <1>5. toDev' \in Seq(ToDevPackets)
    BY <1>4 DEF Line
  <1>6. DevType'
    BY LineFaultFrame, DevKept DEF TypeInv
  <1> QED BY <1>5, <1>6, HostFaulted, LineFaultFrame, DevFrame DEF TypeInv

LEMMA RestartType ==
  ASSUME TypeInv, Restart
  PROVE  TypeInv'
  <1>1. faults' \in 0..MaxFaults /\ cutShort' \in BOOLEAN /\ toDev' \in Seq(ToDevPackets)
    BY FaultCount DEF Restart, TypeInv, WireType, Faults
  <1>2. entry' \in [Roms -> Contents]
    <2>1. ErasedCopy \in [SpiRoms -> Contents] /\ NewSpi \in [SpiRoms -> Contents]
      BY ContentsType, Names DEF ErasedCopy, NewSpi
    <2>2. LoadSpi(spiCopy.spi0) \in [SpiRoms -> Contents]
      BY <2>1, Names DEF LoadSpi, TypeInv, DevType
    <2> QED BY <2>2, Names DEF Restart, Context, TypeInv, DevType
  <1>3. rnr' \in 0..(NBlocks - 1) /\ romArea' \in {"rom", "backup"} /\ spiArea' \in SpiRoms
    BY SizeAssumption, Names DEF Restart
  <1>4. offset' \in [Areas -> Nat] /\ \A a \in SpiRoms : offset'[a] = 0
    BY Names DEF Restart
  <1>5. \A a \in SpiRoms : Len(flash'[a]) \in Nat
    BY Names, ContentsType DEF Restart, TypeInv, DevType
  <1>6. OffsetInv'
    BY <1>4, <1>5, ClearType DEF Restart, OffsetInv
  <1>7. DevType'
    BY <1>2, <1>3, <1>4, <1>6, ClearType DEF Restart, TypeInv, DevType
  <1> QED BY <1>1, <1>7, HostKept DEF Restart, TypeInv, WireType

LEMMA TypeInvNext == TypeInv /\ [Next]_vars => TypeInv'
  <1> SUFFICES ASSUME TypeInv, [Next]_vars PROVE TypeInv'
    OBVIOUS
  <1>1. CASE \E r \in Targets : \E i \in ImagesFor(r) : StartFlash(r, i)
    BY <1>1, StartType, ChoiceAssumption, Names DEF StartFlash, ImagesFor, Images
  <1>2. CASE \E r \in Sources : StartRead(r)
    BY <1>2, StartType, ChoiceAssumption, Names DEF StartRead
  <1>3. CASE UNCHANGED vars
    BY <1>3, HostKept, DevKept DEF vars, TypeInv, WireType
  <1> QED
    BY <1>1, <1>2, <1>3, HostStepType, DevStepType, LineFaultType, RestartType DEF Next

(* The variables have their types in every reachable state: for every number*)
(* of blocks, every length of the line and any number of faults. The block  *)
(* numbers of both sides stay within the image, and the last block number of*)
(* the read-back (comm_protocol_retrieve_binary, commp.c) below it.         *)
THEOREM TypeCorrect == Spec => []TypeOK
  <1>1. TypeInv => TypeOK
    BY TypeInvTypes
  <1> QED BY TypeInvInit, TypeInvNext, <1>1, PTL DEF Spec

-----------------------------------------------------------------------------
(* Whose turn it is: while the tool waits for an answer, what it waits for *)
(* is on the line to the device, or with the device, or on its way back.   *)

LEMMA Dulls ==
  /\ Noise \in Dull /\ Dull \subseteq ToDevPackets
  /\ \A p \in Dull : p.op \in {"END", "SPI_END", "SET", "WIPE", "ERR", "JUNK"}
                     /\ Damaged(p) = {Noise}
  BY PlainPackets DEF Dull, Noise, Damaged, Spoilt, Shortened, With, Cmd, Packet

(* What the tool waits for is not among what may be around it.              *)
Separate ==
  /\ Before \subseteq Dull /\ Noise \in Before
  /\ Before \cap Awaited = {}
  /\ \A p \in Awaited :
       p.op = IF hpc \in {"prepare", "info"} THEN "INFO"
              ELSE IF hpc = "wrq" THEN "WRQ"
              ELSE IF hpc = "data" THEN "DATA"
              ELSE IF hpc = "crc" THEN "CRC"
              ELSE IF got = <<>> THEN "RRQ" ELSE "ACK"

LEMMA Apart == Waiting /\ HostType => Separate
  <1> SUFFICES ASSUME Waiting, HostType PROVE Separate
    OBVIOUS
  <1>1. \A p \in Awaited :
          p.op = IF hpc \in {"prepare", "info"} THEN "INFO"
                 ELSE IF hpc = "wrq" THEN "WRQ"
                 ELSE IF hpc = "data" THEN "DATA"
                 ELSE IF hpc = "crc" THEN "CRC"
                 ELSE IF got = <<>> THEN "RRQ" ELSE "ACK"
    BY DEF Waiting, HostType, Awaited, Cmd, For, Data, Crc, Ack, Packet
  <1>2. \A p \in Awaited : p.op \notin {"END", "SPI_END", "SET", "WIPE", "ERR", "JUNK"}
    BY <1>1
  <1>3. Before \subseteq Dull /\ Noise \in Before
    BY Dulls DEF Before
  <1> QED BY <1>1, <1>2, <1>3, Dulls DEF Separate

(* A packet sent on a line of dull ones.                                   *)
LEMMA SentOn ==
  ASSUME NEW B, NEW X, NEW A, toDev \in Seq(B), B \cap X = {}, NEW x \in X, Send(x)
  PROVE  /\ Line(toDev', B, X, A)
         /\ toDev = <<>> => Len(toDev') <= 1
  <1>1. toDev' = toDev \/ toDev' = Append(toDev, x)
    BY DEF Send
  <1>2. Line(toDev, B, X, A) /\ Line(Append(toDev, x), B, X, A)
    BY LineSilent, LineAppend
  <1>3. toDev = <<>> => Len(Append(toDev, x)) = 1 /\ Len(toDev) = 0
    OBVIOUS
  <1>4. CASE toDev' = toDev
    BY <1>2, <1>3, <1>4
  <1>5. CASE toDev' = Append(toDev, x)
    BY <1>2, <1>3, <1>5
  <1> QED BY <1>1, <1>4, <1>5

(* The port is opened on a line with nothing that would be answered.       *)
LEMMA Opened ==
  ASSUME WireType, OpenPort, ~late'
  PROVE  /\ toDev \in Seq(Dull) /\ toHost' = <<>>
         /\ dpc = "retrieve" => toDev = <<>>
  <1>1. ~Pending /\ toHost' = <<>>
    BY DEF OpenPort
  <1>2. \A n \in 1..Len(toDev) : toDev[n] \in Dull /\ dpc # "retrieve"
    BY <1>1, ElementOfSeq DEF Pending, Dull, WireType
  <1>3. toDev \in Seq(Dull)
    BY <1>2, SeqNarrow DEF WireType
  <1>4. dpc = "retrieve" => Len(toDev) = 0
    BY <1>2, EmptyIsZero DEF WireType
  <1> QED BY <1>1, <1>3, <1>4, EmptyIsZero DEF WireType

(* The tool has heard the answer: what is left on the line is noise.       *)
LEMMA Answered ==
  ASSUME TypeInv, TurnInv, Waiting, ~late, Hear
  PROVE  /\ Silence /\ toHost' = <<>> /\ Len(toHost) = 1
         /\ dpc = "retrieve" => toDev = <<>>
         /\ dpc = "store" => hpc = "crc"
  BY Singleton DEF TypeInv, WireType, TurnInv, Hear

LEMMA Unheard ==
  ASSUME TypeInv, TurnInv, Waiting, ~late,
         Hear \/ (toDev = <<>> /\ toHost = <<>> /\ toHost' = toHost)
  PROVE  /\ Silence /\ toHost' = <<>>
         /\ dpc = "retrieve" => toDev = <<>>
  <1>1. <<>> \in Seq({Noise})
    OBVIOUS
  <1> QED BY <1>1, Answered DEF Silence

(* The tool sends the packet whose answer it then awaits.                  *)
LEMMA NextTurn ==
  ASSUME Waiting', HostType', toHost' = <<>>, dpc' = dpc,
         toDev \in Seq(Before'), dpc = "retrieve" => toDev = <<>>,
         NEW x \in Awaited', Send(x)
  PROVE  TurnInv'
  <1>1. Before' \cap Awaited' = {}
    <2>1. Separate'
      BY Apart, PTL
    <2> QED BY <2>1 DEF Separate
  <1> QED
    BY <1>1, SentOn DEF TurnInv

(* Silence holds no awaited packet.                                         *)
LEMMA SilentBefore ==
  ASSUME Waiting', HostType', Silence
  PROVE  toDev \in Seq(Before')
  <1>1. Noise \in Before'
    <2>1. Separate'
      BY Apart, PTL
    <2> QED BY <2>1 DEF Separate
  <1> QED BY <1>1, SeqMonotonic DEF Silence

LEMMA StartTurn ==
  ASSUME TypeInv, NEW kind, NEW r, NEW i, Start(kind, r, i), HostType'
  PROVE  TurnInv'
  <1> SUFFICES ASSUME Waiting', ~late' PROVE TurnInv'
    BY DEF TurnInv
  <1>1. /\ OpenPort /\ UNCHANGED devVars /\ got' = <<>>
        /\ hpc' = "prepare" /\ Send(Cmd("INFO"))
    BY DEF Start, Waiting
  <1>2. /\ toDev \in Seq(Dull) /\ toHost' = <<>>
        /\ dpc = "retrieve" => toDev = <<>>
    BY <1>1, Opened DEF TypeInv
  <1>3. Before' = Dull /\ Awaited' = {Cmd("INFO")}
    BY <1>1 DEF Before, Awaited, Dull
  <1>4. Cmd("INFO") \in Awaited'
    BY <1>3
  <1> QED BY <1>1, <1>2, <1>3, <1>4, NextTurn DEF devVars

LEMMA HostTurn ==
  ASSUME TypeInv, TurnInv, HostStep, HostType'
  PROVE  TurnInv'
  <1> SUFFICES ASSUME Waiting', ~late' PROVE TurnInv'
    BY DEF TurnInv
  <1>1. dpc' = dpc
    BY DEF HostStep, Open, InfoDone, WrqAnswered, DataAnswered, CrcAnswered,
           TransferTimeout, ReadBlock, ReadTimeout, devVars
  <1>2. CASE Open
    <2>1. OpenPort /\ hpc = "open" /\ got' = got /\ job' = job
      BY <1>2 DEF Open
    <2>2. /\ toDev \in Seq(Dull) /\ toHost' = <<>>
          /\ dpc = "retrieve" => toDev = <<>>
      BY <2>1, Opened DEF TypeInv
    <2>3. got' = <<>>
      BY <2>1 DEF TypeInv, HostType, HostInv
    <2>4. hpc' \in {"read", "info", "wrq"}
      BY <1>2 DEF Open
    <2>5. Before' = Dull
      BY <2>3, <2>4 DEF Before, Dull
    <2>6. \E x \in Awaited' : Send(x)
      BY <1>2, <2>3, <2>4 DEF Open, Awaited
    <2> QED BY <1>1, <2>2, <2>5, <2>6, NextTurn
  <1>3. CASE InfoDone
    <2>1. hpc = "info" /\ hpc' = "wrq" /\ Send(For("WRQ", job.rom)) /\ job' = job
          /\ Waiting
      BY <1>3 DEF InfoDone, Waiting
    <2>2. /\ ~late
          /\ Hear \/ (toDev = <<>> /\ toHost = <<>> /\ toHost' = toHost)
      BY <1>3, GaveUpType DEF InfoDone, TypeInv
    <2>3. For("WRQ", job.rom) \in Awaited'
      BY <2>1 DEF Awaited
    <2> QED BY <1>1, <2>1, <2>2, <2>3, Unheard, SilentBefore, NextTurn
  <1>4. ASSUME Hear, Waiting, late' = late, NEW k, SendNext(k), job' = job
        PROVE  TurnInv'
    <2>1. \E x \in Awaited' : Send(x)
      BY <1>4 DEF SendNext, Awaited
    <2> QED BY <1>1, <1>4, <2>1, Unheard, SilentBefore, NextTurn
  <1>5. CASE WrqAnswered
    BY <1>4, <1>5 DEF WrqAnswered, Exit, Waiting
  <1>6. CASE DataAnswered
    BY <1>4, <1>6 DEF DataAnswered, Exit, Waiting
  <1>7. CASE ReadBlock
    <2>1. hpc = "read" /\ Hear /\ Waiting /\ ~late
      BY <1>7 DEF ReadBlock, Waiting
    <2>2. CASE Heard.op = "DATA"
      <3>1. hpc' = "read" /\ got' # <<>> /\ blk' = blk + 1 /\ Send(Ack(blk))
        <4>1. /\ hpc' = "read" /\ blk' = blk + 1 /\ Send(Ack(blk))
              /\ got' = Append(got, Heard.data[1])
          BY <1>7, <2>1, <2>2 DEF ReadBlock, NextRead, Exit, Waiting
        <4>2. Heard.data[1] \in Stuff \cup {Erased, Missing}
          BY <2>1, <2>2, TakeType DEF TypeInv, ToHostPackets
        <4> QED BY <4>1, <4>2, AppendProperties DEF TypeInv, HostType
      <3>2. blk' - 1 = blk
        BY <3>1 DEF TypeInv, HostType
      <3>3. Ack(blk) \in Awaited'
        BY <3>1, <3>2 DEF Awaited
      <3> QED BY <1>1, <2>1, <3>1, <3>3, Unheard, SilentBefore, NextTurn
    <2>3. CASE Heard.op # "DATA"
      <3>1. UNCHANGED <<hpc, result, got, blk, toDev, job>>
        BY <1>7, <2>3 DEF ReadBlock
      <3>2. Before' = Before /\ Awaited' = Awaited /\ After' = After
        BY <3>1 DEF Before, Awaited, After, Dull
      <3>3. toHost' = <<>>
        BY <2>1, Answered
      <3> QED BY <1>1, <2>1, <3>1, <3>2, <3>3, Answered DEF TurnInv
    <2> QED BY <2>2, <2>3
  <1>8. CASE ReadTimeout
    <2>1. toDev = <<>> /\ toHost = <<>> /\ toHost' = toHost /\ toDev' = toDev
      BY <1>8, GaveUpType DEF ReadTimeout, TypeInv
    <2>2. /\ <<>> \in Seq(Before') /\ Len(<<>>) <= 1
          /\ Before' \cap Awaited' = {}
      <3>1. Separate'
        BY Apart, PTL
      <3> QED BY <3>1 DEF Separate
    <2> QED BY <2>1, <2>2, LineSilent DEF TurnInv
  <1>9. ~CrcAnswered /\ ~TransferTimeout
    BY DEF CrcAnswered, TransferTimeout, Exit, Waiting
  <1> QED BY <1>2, <1>3, <1>5, <1>6, <1>7, <1>8, <1>9 DEF HostStep

(* The device takes the packet that is first in line.                      *)
LEMMA TurnArrives ==
  ASSUME TypeInv, TurnInv, Waiting, ~late, NEW op, Arrives(op)
  PROVE  /\ Packet1 \in Before \cup Awaited
         /\ Line(toDev', Before, Awaited, After)
         /\ Silence => Packet1 = Noise /\ toDev' \in Seq({Noise})
         /\ Packet1 \in Awaited => toHost = <<>> /\ toDev' \in Seq({Noise})
         /\ Packet1 \in Awaited /\ hpc \notin {"data", "crc"} => toDev' = <<>>
         /\ toHost # <<>> => toDev' \in Seq({Noise})
  <1>1. /\ Line(toDev, Before, Awaited, After) /\ toDev # <<>>
        /\ Packet1 = Head(toDev) /\ toDev' = Tail(toDev)
    BY DEF TurnInv, Arrives, Take, Packet1
  <1>2. /\ Packet1 \in Before \cup Awaited
        /\ Line(toDev', Before, Awaited, After)
        /\ Packet1 \in Awaited => toDev' \in Seq(After)
    BY <1>1, LineTail
  <1>3. Silence => Packet1 = Noise /\ toDev' \in Seq({Noise})
    BY <1>1, HeadTailProperties DEF Silence
  <1>4. Noise \notin Awaited
    BY Apart DEF Separate, TypeInv
  <1>5. toHost # <<>> => Silence
    BY DEF TurnInv
  <1>6. Packet1 \in Awaited => toDev' \in Seq({Noise})
    BY <1>2, SeqMonotonic DEF After
  <1>7. Packet1 \in Awaited /\ hpc \notin {"data", "crc"} => toDev' = <<>>
    BY <1>2, NothingLeft DEF After
  <1> QED BY <1>2, <1>3, <1>4, <1>5, <1>6, <1>7

(* What a step of the device leaves of the turn: it answers the packet the *)
(* tool awaits, and no other.                                              *)
LEMMA DeviceTurn ==
  ASSUME TypeInv, TurnInv, UNCHANGED <<hostVars, late>>, NEW op, Arrives(op),
         toHost' = toHost \/ (op \in {"WRQ", "DATA", "CRC", "INFO", "RRQ"}
                                /\ \E p : Reply(p)),
         dpc' = "run" \/ (dpc' = "store" /\ op = "CRC")
           \/ (dpc' = "retrieve" /\ op = "RRQ")
  PROVE  TurnInv'
  <1> SUFFICES ASSUME Waiting, ~late PROVE TurnInv'
    BY DEF TurnInv, Waiting, hostVars
  <1>1. /\ Before' = Before /\ Awaited' = Awaited /\ After' = After
        /\ hpc' = hpc
    BY DEF hostVars, Before, Awaited, After, Dull
  <1>2. /\ Packet1 \in Before \cup Awaited /\ Packet1.op = op
        /\ Line(toDev', Before, Awaited, After)
        /\ Packet1 \in Awaited => toHost = <<>> /\ toDev' \in Seq({Noise})
        /\ Packet1 \in Awaited /\ hpc \notin {"data", "crc"} => toDev' = <<>>
        /\ toHost # <<>> => toDev' \in Seq({Noise})
    BY TurnArrives, ArrivesType
  <1>3. op \in {"WRQ", "DATA", "CRC", "INFO", "RRQ"} => Packet1 \in Awaited
    BY <1>2, Apart, Dulls DEF Separate, TypeInv
  <1>4. (op = "CRC" => hpc = "crc") /\ (op = "RRQ" => hpc = "read")
    BY <1>2, <1>3, Apart DEF Separate, TypeInv, Waiting, HostType
  <1>5. toHost' # <<>> => Len(toHost') = 1 /\ Silence'
    <2>1. CASE toHost' = toHost
      BY <1>2, <2>1 DEF TurnInv, Silence
    <2>2. CASE op \in {"WRQ", "DATA", "CRC", "INFO", "RRQ"} /\ \E p : Reply(p)
      <3>1. PICK p : toHost' = Append(<<>>, p)
        BY <1>2, <1>3, <2>2 DEF Reply
      <3> QED BY <1>2, <1>3, <2>2, <3>1 DEF Silence
    <2> QED BY <2>1, <2>2
  <1>6. dpc' = "retrieve" => toDev' = <<>>
    BY <1>2, <1>3, <1>4
  <1>7. dpc' = "store" => hpc = "crc"
    BY <1>4
  <1> QED BY <1>1, <1>2, <1>5, <1>6, <1>7 DEF TurnInv, Silence

(* The read-back: what arrives is the acknowledgement the tool sent after  *)
(* it had read a block, or ends it with nothing left on the line.          *)
LEMMA RetrieveTurn ==
  ASSUME TypeInv, TurnInv, Retrieve, UNCHANGED <<hostVars, late>>
  PROVE  TurnInv'
  <1> SUFFICES ASSUME Waiting, ~late PROVE TurnInv'
    BY DEF TurnInv, Waiting, hostVars
  <1>1. /\ Before' = Before /\ Awaited' = Awaited /\ After' = After
        /\ hpc' = hpc
    BY DEF hostVars, Before, Awaited, After, Dull
  <1>2. /\ dpc = "retrieve" /\ toDev # <<>> /\ toDev' = Tail(toDev)
        /\ Packet1 = Head(toDev) /\ toHost = <<>>
        /\ Line(toDev, Before, Awaited, After)
    BY DEF Retrieve, Take, Packet1, TurnInv
  <1>3. /\ Packet1 \in Before \cup Awaited
        /\ Line(toDev', Before, Awaited, After)
        /\ Packet1 \in Awaited => toDev' \in Seq(After)
    BY <1>2, LineTail
  <1>4. Len(toDev) <= 1 \/ Silence
    BY <1>2 DEF TurnInv
  <1>5. Silence'
    <2>1. CASE Silence
      BY <1>2, <2>1, HeadTailProperties DEF Silence
    <2>2. CASE Len(toDev) <= 1
      <3>1. Len(toDev) = 1
        BY <1>2, <2>2, AtMostOne DEF TypeInv, WireType
      <3>2. toDev' = <<>>
        BY <1>2, <3>1, Singleton DEF TypeInv, WireType
      <3> QED BY <3>2 DEF Silence
    <2> QED BY <1>4, <2>1, <2>2
  <1>6. toHost' = <<>> \/ Len(toHost') = 1
    BY <1>2 DEF Retrieve, RetrieveAcked, RetrieveAborted, Reply, Silent, SendBlock
  <1>7. dpc' \in {"run", "retrieve"}
    BY <1>2 DEF Retrieve, RetrieveAcked, RetrieveAborted, EndRetrieve
  <1>8. dpc' = "retrieve" => Packet1.op = "ACK"
    BY DEF Retrieve, RetrieveAcked, RetrieveAborted, EndRetrieve, AckOf
  <1>9. dpc' = "retrieve" => toDev' = <<>>
    <2>1. Packet1.op = "ACK" => Packet1 \in Awaited /\ hpc \notin {"data", "crc"}
      BY <1>3, Apart, Dulls DEF Separate, TypeInv
    <2> QED BY <1>3, <1>8, <2>1, NothingLeft DEF After
  <1> QED BY <1>1, <1>3, <1>5, <1>6, <1>7, <1>9 DEF TurnInv, Silence

LEMMA DevTurn ==
  ASSUME TypeInv, TurnInv, DevStep \/ DevFails
  PROVE  TurnInv'
  <1> USE DEF Silent, flashVars, ctxVars
  <1>1. UNCHANGED <<hostVars, late>>
    BY DEF DevStep, DevFails
  <1>2. CASE DevWrq
    BY <1>1, <1>2, ArrivesType, DeviceTurn DEF DevWrq, Refuse
  <1>3. CASE DevData
    BY <1>1, <1>3, ArrivesType, DeviceTurn DEF DevData, Refuse
  <1>4. CASE DevCrc
    BY <1>1, <1>4, ArrivesType, DeviceTurn DEF DevCrc, CrcSpi, CrcRom
  <1>5. CASE Store
    BY <1>1, <1>5
      DEF Store, TurnInv, Waiting, hostVars, Before, Awaited, After, Dull, Silence
  <1>6. CASE DevInfo
    BY <1>1, <1>6, ArrivesType, DeviceTurn DEF DevInfo, Command
  <1>7. CASE DevEnd
    BY <1>1, <1>7, ArrivesType, DeviceTurn DEF DevEnd, Command
  <1>8. CASE DevSet
    BY <1>1, <1>8, ArrivesType, DeviceTurn DEF DevSet, Command
  <1>9. CASE DevWipe
    BY <1>1, <1>9, ArrivesType, DeviceTurn DEF DevWipe, Command
  <1>10. CASE DevOther
    BY <1>1, <1>10, ArrivesType, DeviceTurn DEF DevOther, Refuse, devVars
  <1>11. CASE DevRrq
    BY <1>1, <1>11, ArrivesType, DeviceTurn DEF DevRrq, Refuse, SendBlock
  <1>12. CASE Retrieve
    BY <1>1, <1>12, RetrieveTurn
  <1>13. CASE DevFails
    BY <1>1, <1>13, ArrivesType, DeviceTurn DEF DevFails, DevDataFails, Refuse
  <1> QED
    BY <1>2, <1>3, <1>4, <1>5, <1>6, <1>7, <1>8, <1>9, <1>10, <1>11, <1>12, <1>13
    DEF DevStep, DevHandles

(* A damaged packet is the awaited one, damaged, or noise.                  *)
LEMMA AwaitedDamaged ==
  ASSUME TypeInv, Waiting
  PROVE  /\ \A p \in Awaited : Damaged(p) \subseteq Awaited \cup {Noise}
         /\ hpc \notin {"data", "crc"} => \A p \in Awaited : Damaged(p) = {Noise}
  <1>1. CASE hpc \notin {"data", "crc"}
    <2>1. \A p \in Awaited : p.op \notin {"DATA", "CRC"}
      BY <1>1, Apart DEF Separate, TypeInv
    <2> QED BY <1>1, <2>1 DEF Damaged, Spoilt, Shortened, With
  <1>2. CASE hpc = "data"
    <2>1. \A b, c : [Data(blk, b) EXCEPT !.data = <<c>>] = Data(blk, c)
                    /\ Data(blk, b).op = "DATA"
      BY DEF Data, Packet
    <2> QED BY <1>2, <2>1 DEF Awaited, Damaged, Spoilt, Shortened, With
  <1>3. CASE hpc = "crc"
    <2>1. \A c : [Crc(c) EXCEPT !.data = <<Missing>>] = Crc(<<Missing>>)
                 /\ Crc(c).op = "CRC"
      BY DEF Crc, Packet
    <2> QED BY <1>3, <2>1 DEF Awaited, Damaged, Spoilt, Shortened, With
  <1> QED BY <1>1, <1>2, <1>3

LEMMA SilenceFaulted ==
  ASSUME LineFault, TypeInv
  PROVE  /\ Silence => Silence'
         /\ toDev = <<>> => toDev' = <<>>
         /\ Len(toDev) = 1 /\ Damaged(toDev[1]) = {Noise} =>
              toDev' = toDev \/ Silence'
  <1>1. ASSUME Silence PROVE Silence'
    <2>1. Line(toDev, {Noise}, {}, {})
      BY <1>1, LineSilent DEF Silence
    <2>2. Damaged(Noise) \subseteq {Noise}
      BY Dulls
    <2>3. Line(toDev', {Noise}, {}, {})
      BY <2>1, <2>2, LineFaulted
    <2> QED BY <2>3 DEF Line, Silence
  <1>2. toDev = <<>> => toDev' = <<>>
    <2>1. Len(<<>>) = 0
      OBVIOUS
    <2>2. toDev = <<>> => ~Merge /\ ~Cut
      BY <2>1 DEF Merge, Cut
    <2> QED BY <2>2 DEF LineFault, Lose, Garble, Take
  <1>3. ASSUME Len(toDev) = 1, Damaged(toDev[1]) = {Noise}
        PROVE  toDev' = toDev \/ Silence'
    <2>1. toDev # <<>> /\ Tail(toDev) = <<>> /\ Head(toDev) = toDev[1]
      BY <1>3, Singleton DEF TypeInv, WireType
    <2>2. \/ toDev' = toDev \/ toDev' = <<>>
          \/ toDev' = <<Noise>> \o <<>> \/ toDev' = <<Noise, Noise>> \o <<>>
      <3>1. ~Merge
        BY <1>3 DEF Merge
      <3>2. CASE Lose
        BY <2>1, <3>2 DEF Lose, Take
      <3>3. CASE Garble
        BY <1>3, <2>1, <3>3 DEF Garble
      <3>4. CASE Cut
        <4>1. \A p \in Shortened(Head(toDev)) : p = Noise
          BY <1>3, <2>1 DEF Damaged
        <4> QED BY <2>1, <3>4, <4>1 DEF Cut
      <3> QED BY <3>1, <3>2, <3>3, <3>4 DEF LineFault
    <2>3. <<>> \in Seq({Noise}) /\ <<Noise>> \in Seq({Noise})
          /\ <<Noise, Noise>> \in Seq({Noise})
      OBVIOUS
    <2> QED BY <2>2, <2>3, ConcatProperties DEF Silence
  <1> QED BY <1>1, <1>2, <1>3

LEMMA LineFaultTurn ==
  ASSUME TypeInv, TurnInv, SessionInv, LineFault
  PROVE  TurnInv'
  <1>0. UNCHANGED <<hostVars, devVars, late, cutShort>>
    BY LineFaultFrame DEF TypeInv
  <1> SUFFICES ASSUME Waiting, ~late PROVE TurnInv'
    BY <1>0 DEF TurnInv, Waiting, hostVars
  <1>1. /\ Before' = Before /\ Awaited' = Awaited /\ After' = After
        /\ hpc' = hpc /\ dpc' = dpc
    BY <1>0 DEF hostVars, devVars, Before, Awaited, After, Dull
  <1>2. Line(toDev', Before, Awaited, After)
    <2>1. Line(toDev, Before, Awaited, After)
      BY DEF TurnInv
    <2>2. /\ Before \cap Awaited = {} /\ Noise \in Before /\ Before \subseteq Dull
      BY Apart DEF Separate, TypeInv
    <2>3. /\ \A p \in Before : Damaged(p) \subseteq Before
          /\ \A p \in Awaited : Damaged(p) \cap Awaited = {} \/ Noise \in After
      BY <2>2, Dulls, AwaitedDamaged DEF After
    <2> QED BY <2>1, <2>2, <2>3, AwaitedDamaged, LineFaulted
  <1>3. toHost' # <<>> => toHost # <<>> /\ Len(toHost') = 1 /\ Silence'
    <2>1. toHost # <<>> => Len(toHost) = 1 /\ Silence
      BY DEF TurnInv
    <2>2. /\ toHost = <<>> => toHost' = <<>>
          /\ Len(toHost) = 1 =>
               toHost' = <<>> \/ toHost' = toHost
                \/ \E p \in Spoilt(Head(toHost)) : toHost' = <<p>>
      BY HostFaulted DEF TypeInv
    <2> QED BY <2>1, <2>2, SilenceFaulted
  <1>4. ASSUME dpc = "retrieve" PROVE Len(toDev') <= 1 \/ Silence'
    <2>1. Len(toDev) <= 1 \/ Silence
      BY <1>4 DEF TurnInv
    <2>2. CASE toDev # <<>> /\ Len(toDev) <= 1
      <3>1. Len(toDev) = 1 /\ toDev[1] = Head(toDev)
        <4>2. Len(toDev) = 1
          BY <2>2, AtMostOne DEF TypeInv, WireType
        <4> QED BY <4>2, Singleton DEF TypeInv, WireType
      <3>2. hpc \notin {"data", "crc"}
        BY <1>4 DEF SessionInv, InTransfer
      <3>3. toDev[1] \in Before \cup Awaited
        BY <2>2, <3>1, LineTail DEF TurnInv
      <3>4. Damaged(toDev[1]) = {Noise}
        BY <3>2, <3>3, AwaitedDamaged, Dulls, Apart DEF Separate, TypeInv
      <3>5. toDev' = toDev \/ Silence'
        BY <3>1, <3>4, SilenceFaulted
      <3>6. toDev' = toDev => Len(toDev') = 1
        BY <3>1
      <3> QED BY <3>5, <3>6
    <2>3. CASE toDev = <<>>
      BY <2>3, SilenceFaulted
    <2> QED BY <2>1, <2>2, <2>3, SilenceFaulted
  <1>5. dpc = "retrieve" => (toHost' # <<>> => toDev' = <<>>)
    BY <1>3, SilenceFaulted DEF TurnInv
  <1>6. dpc = "store" => toHost' = <<>> \/ hpc = "crc"
    BY <1>3 DEF TurnInv
  <1> QED BY <1>1, <1>2, <1>3, <1>4, <1>5, <1>6 DEF TurnInv

LEMMA RestartTurn ==
  ASSUME TypeInv, TurnInv, Restart
  PROVE  TurnInv'
  <1> SUFFICES ASSUME Waiting, ~late PROVE TurnInv'
    BY DEF TurnInv, Waiting, hostVars, Restart
  <1>1. /\ Before' = Before /\ Awaited' = Awaited /\ After' = After
        /\ dpc' = "run" /\ toDev' = <<>> /\ toHost' = toHost
    BY DEF Restart, hostVars, Before, Awaited, After, Dull
  <1>2. Before \cap Awaited = {}
    BY Apart DEF Separate, TypeInv
  <1>3. Line(<<>>, Before, Awaited, After)
    <2>1. <<>> \in Seq(Before)
      OBVIOUS
    <2> QED BY <1>2, <2>1, LineSilent
  <1> QED BY <1>1, <1>3 DEF TurnInv, Silence

LEMMA TurnInvNext == TypeInv /\ TypeInv' /\ TurnInv /\ SessionInv /\ [Next]_vars => TurnInv'
  <1> SUFFICES ASSUME TypeInv, HostType', TurnInv, SessionInv, [Next]_vars PROVE TurnInv'
    BY DEF TypeInv
  <1>1. CASE \E r \in Targets : \E i \in ImagesFor(r) : StartFlash(r, i)
    BY <1>1, StartTurn DEF StartFlash
  <1>2. CASE \E r \in Sources : StartRead(r)
    BY <1>2, StartTurn DEF StartRead
  <1>3. CASE UNCHANGED vars
    BY <1>3
      DEF vars, hostVars, devVars, TurnInv, Waiting, Before, Awaited, After, Dull, Silence
  <1> QED
    BY <1>1, <1>2, <1>3, HostTurn, DevTurn, LineFaultTurn, RestartTurn DEF Next

-----------------------------------------------------------------------------
(* The transfer: what the tool has had acknowledged is in flash.           *)

LEMMA StoredShorter ==
  ASSUME NEW a, NEW n \in Nat, Stored(a, n), Len(flash[a]) \in Nat,
         NEW m \in Nat, m <= n
  PROVE  Stored(a, m)
  BY DEF Stored

LEMMA StoredKept ==
  ASSUME NEW a, NEW n, Stored(a, n), flash'[a] = flash[a], job' = job
  PROVE  Stored(a, n)'
  BY DEF Stored

LEMMA HoldsStored ==
  ASSUME NEW a, job.image \in Images, Holds(a, job.image)
  PROVE  Stored(a, NBlocks)
  BY ImageType, SizeAssumption DEF Holds, Stored

(* The step keeps the flash and ends the transfer, if there was one.       *)
LEMMA SessionEnds ==
  ASSUME TypeInv, SessionInv, UNCHANGED <<hostVars, late>>, flash' = flash, dpc' = "run",
         dpc # "store", dpc # "retrieve",
         ctxt' = Clear, Acked' = Acked
  PROVE  SessionInv'
  <1> SUFFICES ASSUME InTransfer', ~late' PROVE SessionInv'
    BY DEF SessionInv
  <1>1. InTransfer /\ ~late /\ Count' = Count /\ job' = job
    BY DEF InTransfer, Count, hostVars
  <1>2. PICK a \in Areas : Stored(a, Count)
    BY <1>1 DEF SessionInv
  <1>3. Stored(a, Count)'
    BY <1>1, <1>2 DEF Stored
  <1> QED
    BY <1>1, <1>3, ClearType DEF SessionInv

(* Outside of a transfer there is nothing to show.                         *)
LEMMA NoSession ==
  ASSUME \/ hpc' \notin {"wrq", "data", "crc"}
         \/ hpc' = "wrq" /\ (toHost' = <<>> \/ Head(toHost').op # "ACK")
  PROVE  SessionInv'
  BY DEF SessionInv, InTransfer, Acked

LEMMA HostSession ==
  ASSUME TypeInv, TurnInv, SessionInv, HostStep
  PROVE  SessionInv'
  <1> SUFFICES ASSUME ~late' PROVE SessionInv'
    BY DEF SessionInv
  <1>1. CASE Open
    BY <1>1, Opened, NoSession DEF Open, TypeInv
  <1>2. CASE InfoDone
    <2>1. /\ ~late /\ Waiting
          /\ Hear \/ (toDev = <<>> /\ toHost = <<>> /\ toHost' = toHost)
      BY <1>2, GaveUpType DEF InfoDone, TypeInv, Waiting
    <2> QED BY <1>2, <2>1, Unheard, NoSession DEF InfoDone
  <1>3. ASSUME hpc \in {"wrq", "data"}, Hear, late' = late, Acked,
               IF hpc = "wrq" THEN SendNext(1) ELSE SendNext(blk + 1),
               UNCHANGED <<job, devVars>>
        PROVE  SessionInv'
    <2>1. InTransfer /\ ~late /\ dpc = "run" /\ Waiting
      BY <1>3 DEF InTransfer, SessionInv, Waiting
    <2>2. /\ Count \in 0..NBlocks
          /\ IF Count + 1 <= NBlocks THEN hpc' = "data" /\ blk' = Count + 1
                                     ELSE hpc' = "crc" /\ Count = NBlocks
      BY <1>3, SizeAssumption DEF Count, SendNext, TypeInv, HostType
    <2>3. toHost' = <<>> /\ ~Acked'
      BY <1>3, <2>1, Unheard DEF Acked
    <2>4. Count' = Count /\ (hpc' = "data" => Count = blk' - 1)
      BY <2>2, <2>3, SizeAssumption DEF Count, TypeInv, HostType
    <2>5. /\ flash' = flash /\ job' = job /\ ctxt' = ctxt /\ dpc' = dpc
          /\ offset' = offset /\ romArea' = romArea /\ spiArea' = spiArea
      BY <1>3 DEF devVars, flashVars
    <2>6. \E a \in Areas : Stored(a, Count)'
      BY <2>1, <2>4, <2>5 DEF SessionInv, Stored
    <2>7. ASSUME ctxt.inProgress PROVE Session'
      <3>1. Session /\ ctxt.last = Count
        BY <1>3, <2>1, <2>7 DEF SessionInv, Session
      <3>2. Driver(ctxt.part)' = Driver(ctxt.part)
        BY <2>5 DEF Driver
      <3>3. Stored(Driver(ctxt.part), ctxt.last)'
        BY <2>5, <3>1, <3>2 DEF Session, Stored
      <3> QED BY <2>2, <2>4, <2>5, <3>1, <3>2, <3>3 DEF Session
    <2> QED BY <2>1, <2>5, <2>6, <2>7 DEF SessionInv
  <1>4. CASE WrqAnswered
    BY <1>3, <1>4, NoSession DEF WrqAnswered, Exit, Acked, Hear, Heard
  <1>5. CASE DataAnswered
    BY <1>3, <1>5, NoSession DEF DataAnswered, Exit, Acked, Hear, Heard, AckOf
  <1>6. CASE CrcAnswered \/ TransferTimeout \/ ReadBlock \/ ReadTimeout
    BY <1>6, NoSession
    DEF CrcAnswered, TransferTimeout, ReadBlock, ReadTimeout, NextRead, Exit
  <1> QED BY <1>1, <1>2, <1>4, <1>5, <1>6 DEF HostStep

(* What may reach the device while the tool transfers a file.              *)
LEMMA TransferPackets ==
  ASSUME TypeInv, TurnInv, hpc \in {"wrq", "data", "crc"}, ~late, NEW op, Arrives(op)
  PROVE  /\ op = "WRQ" => hpc = "wrq" /\ Packet1 = For("WRQ", job.rom)
         /\ op = "DATA" => /\ hpc = "data"
                           /\ Packet1 \in {Data(blk, Block(job.image, blk)),
                                           Data(blk, Garbage), Data(blk, Rubble)}
         /\ op = "CRC" => /\ hpc = "crc"
                          /\ Packet1 \in {Crc(Image(job.image)), Crc(<<Missing>>)}
         /\ op \in {"WRQ", "DATA", "CRC"} =>
              toHost = <<>> /\ ~Silence /\ toDev' \in Seq({Noise})
         /\ op \notin {"INFO", "RRQ", "ACK"}
         /\ op \in {"END", "SPI_END", "SET", "WIPE", "ERR"} => hpc = "wrq" /\ toHost = <<>>
  <1>1. Waiting
    BY DEF Waiting
  <1>2. /\ Packet1 \in Before \cup Awaited /\ Packet1.op = op
        /\ Silence => Packet1 = Noise
        /\ Packet1 \in Awaited => toHost = <<>> /\ toDev' \in Seq({Noise})
        /\ toHost # <<>> => Silence
    BY <1>1, TurnArrives, ArrivesType DEF TurnInv
  <1>3. Noise.op = "JUNK"
    BY DEF Noise, Cmd, Packet
  <1>4. op \in {"WRQ", "DATA", "CRC", "INFO", "RRQ", "ACK"} => Packet1 \in Awaited
    BY <1>1, <1>2, Apart, Dulls DEF Separate, TypeInv
  <1>5. op \in {"END", "SPI_END", "SET", "WIPE", "ERR"} => Packet1 \in Before
    BY <1>1, <1>2, Apart DEF Separate, TypeInv
  <1>6. hpc \in {"data", "crc"} => Before = {Noise}
    BY DEF Before
  <1>7. Packet1 \in Awaited =>
          /\ op = IF hpc = "wrq" THEN "WRQ" ELSE IF hpc = "data" THEN "DATA" ELSE "CRC"
          /\ Packet1 \in IF hpc = "wrq" THEN {For("WRQ", job.rom)}
                         ELSE IF hpc = "data"
                         THEN {Data(blk, Block(job.image, blk)),
                               Data(blk, Garbage), Data(blk, Rubble)}
                         ELSE {Crc(Image(job.image)), Crc(<<Missing>>)}
    BY <1>1, <1>2, Apart DEF Separate, Awaited, TypeInv
  <1> QED BY <1>2, <1>3, <1>4, <1>5, <1>6, <1>7

(* A packet of noise, a command, or a packet the device refuses.           *)
LEMMA RefusedSession ==
  ASSUME TypeInv, SessionInv, UNCHANGED <<hostVars, late>>, dpc = "run", Refuse
  PROVE  SessionInv'
  <1>1. Acked' = Acked /\ flash' = flash /\ dpc' = "run" /\ ctxt' = Clear
    BY DEF Refuse, Silent, Acked, flashVars
  <1> QED BY <1>1, SessionEnds

(* The answer to WRQ begins the device's side of the transfer ...           *)
LEMMA WrqSession ==
  ASSUME TypeInv, TypeInv', TurnInv, SessionInv, UNCHANGED <<hostVars, late>>, DevWrq
  PROVE  SessionInv'
  <1>1. dpc = "run" /\ Arrives("WRQ")
    BY ArrivesType DEF DevWrq
  <1>2. CASE Refuse
    BY <1>1, <1>2, RefusedSession
  <1>3. CASE ~Refuse
    <2> SUFFICES ASSUME InTransfer', ~late PROVE SessionInv'
      BY DEF SessionInv
    <2>1. hpc = "wrq" /\ Packet1.rom = job.rom /\ toHost = <<>> /\ hpc' = hpc /\ job' = job
      <3>1. hpc \in {"wrq", "data", "crc"}
        BY DEF InTransfer, hostVars
      <3>2. hpc = "wrq" /\ Packet1 = For("WRQ", job.rom) /\ toHost = <<>>
        BY <1>1, <3>1, TransferPackets
      <3>3. For("WRQ", job.rom).rom = job.rom
        BY DEF For, Packet
      <3> QED BY <3>2, <3>3 DEF hostVars
    <2>0. PICK a \in Areas : a = Driver(job.rom)
      BY DriverType DEF TypeInv
    <2>2. /\ ~ctxt.inProgress /\ UNCHANGED <<dpc, romArea, spiArea>>
          /\ ctxt' = [ctxt EXCEPT !.inProgress = TRUE, !.part = job.rom]
          /\ Flush(a)
      BY <1>3, <2>0, <2>1 DEF DevWrq
    <2>3. /\ ctxt'.inProgress /\ ctxt'.part = job.rom /\ ctxt'.last = 0
      BY <2>2 DEF TypeInv, DevType, OffsetInv
    <2>4. Driver(ctxt.part)' = a /\ a \in Areas /\ offset'[a] = 0
      BY <2>0, <2>2, <2>3, StorageType DEF TypeInv, Driver
    <2>5. \A b \in Areas : Stored(b, 0)'
      <3>1. \A b \in Areas : flash'[b] \in Contents
        BY DEF TypeInv, DevType
      <3> QED BY <3>1, ContentsType DEF Stored
    <2>6. Count' = 0
      BY <2>1 DEF Count
    <2>7. Session'
      BY <2>1, <2>3, <2>4, <2>5, <2>6 DEF Session, Stored
    <2>8. Stored(a, Count)'
      BY <2>4, <2>5, <2>6 DEF Stored
    <2> QED BY <1>1, <2>2, <2>3, <2>4, <2>7, <2>8 DEF SessionInv
  <1> QED BY <1>2, <1>3

(* ... a block that is acknowledged is the next one in flash ...            *)
LEMMA DataSession ==
  ASSUME TypeInv, TypeInv', TurnInv, SessionInv, UNCHANGED <<hostVars, late>>, DevData
  PROVE  SessionInv'
  <1>1. dpc = "run" /\ Arrives("DATA")
    BY ArrivesType DEF DevData
  <1>2. CASE Refuse
    BY <1>1, <1>2, RefusedSession
  <1>3. CASE ~Refuse
    <2> SUFFICES ASSUME InTransfer', ~late PROVE SessionInv'
      BY DEF SessionInv
    <2>1. /\ hpc = "data" /\ toHost = <<>> /\ ~Silence /\ Silence'
          /\ Packet1 \in {Data(blk, Block(job.image, blk)), Data(blk, Garbage),
                          Data(blk, Rubble)}
          /\ UNCHANGED <<hpc, job, blk>>
      <3>1. hpc \in {"wrq", "data", "crc"}
        BY DEF InTransfer, hostVars
      <3> QED BY <1>1, <3>1, TransferPackets DEF hostVars, Silence
    <2>2. /\ Packet1.nr = blk
          /\ Packet1.data[1] \in {Block(job.image, blk), Garbage, Rubble}
      BY <2>1 DEF Data, Packet
    <2>0. PICK a \in Areas : a = Driver(ctxt.part)
      BY DriverType DEF TypeInv
    <2> DEFINE c == flash[a]
    <2>15. PICK d : d = Programmed(a, Packet1.data[1])
      OBVIOUS
    <2>3. /\ ctxt.inProgress /\ UNCHANGED <<dpc, romArea, spiArea>>
          /\ ctxt' = [ctxt EXCEPT !.last = blk] /\ toHost' = <<Ack(blk)>>
          /\ flash' = [flash EXCEPT ![a] = d]
          /\ offset' = [offset EXCEPT ![a] = @ + 1]
      BY <1>3, <2>0, <2>1, <2>2, <2>15 DEF DevData, DataExpected, Reply
    <2>4. InTransfer /\ Session /\ ctxt.last = blk - 1 /\ ~Acked
      BY <1>1, <2>1, <2>3 DEF InTransfer, SessionInv, Session, Acked
    <2>5. /\ a \in Areas /\ offset[a] = blk - 1 /\ ctxt.part = job.rom
          /\ Stored(a, blk - 1)
          /\ Len(flash[a]) > blk - 1 /\ blk - 1 > 0 => flash[a][1] \in {Garbage, Rubble}
      BY <2>0, <2>4 DEF Session
    <2>6. /\ Acked' /\ Count' = blk
      BY <2>1, <2>3 DEF Acked, Count, Ack, Packet
    <2>7. /\ ctxt'.inProgress /\ ctxt'.part = job.rom /\ ctxt'.last = blk
          /\ Driver(ctxt.part)' = a
      BY <2>0, <2>3, <2>5 DEF TypeInv, DevType, Driver
    <2>8. /\ blk \in 1..NBlocks /\ c \in Contents /\ Packet1.data[1] \in Stuff
          /\ offset[a] \in Nat /\ Len(c) \in Nat /\ blk - 1 <= Len(c)
      <3>1. blk \in 1..NBlocks
        BY <2>1 DEF TypeInv, HostType, HostInv
      <3>2. Packet1.data[1] \in Stuff
        <4>1. Packet1 \in ToDevPackets /\ Packet1.op = "DATA"
          BY <1>1, ArrivesType
        <4> QED BY <4>1 DEF ToDevPackets
      <3>3. c \in Contents /\ offset[a] \in Nat
        BY <2>5 DEF TypeInv, DevType
      <3> QED BY <2>5, <3>1, <3>2, <3>3, ContentsType DEF Stored
    <2>9. /\ Len(d) >= Len(c) /\ Len(d) > blk - 1 /\ Len(d) \in Nat
          /\ \A k \in 1..Len(c) : k # blk => d[k] = c[k]
          /\ d[blk] \in {Block(job.image, blk), Garbage, Rubble}
          /\ blk - 1 = Len(c) => Len(d) = Len(c) + 1
          /\ blk - 1 < Len(c) => d[blk] \in {Garbage, Rubble}
      <3>1. /\ d \in Contents
            /\ Len(d) >= Len(c) /\ Len(d) > blk - 1
            /\ \A k \in 1..Len(c) : k # (blk - 1) + 1 => d[k] = c[k]
            /\ d[(blk - 1) + 1] \in {Packet1.data[1], Garbage, Rubble}
            /\ blk - 1 = Len(c) => Len(d) = Len(c) + 1
            /\ blk - 1 < Len(c) => d[(blk - 1) + 1] \in {Garbage, Rubble}
        <4>1. OneBlockOn(c, offset[a], Packet1.data[1], d)
          <5> HIDE DEF c
          <5>1. flash[a] = c
            BY DEF c
          <5> QED BY <2>8, <2>15, <5>1, ProgrammedType
        <4> HIDE DEF c
        <4> QED BY <2>5, <2>8, <4>1 DEF OneBlockOn
      <3>2. (blk - 1) + 1 = blk
        BY <2>8
      <3> QED BY <2>2, <3>1, <3>2, ContentsType
    <2>10. flash'[a] = d /\ offset'[a] = blk
      BY <2>3, <2>5, <2>8 DEF TypeInv, DevType
    <2>11. Stored(a, blk)'
      <3>1. \A k \in 1..blk : \/ d[k] \in {Block(job.image, k), Garbage}
                              \/ \E j \in 1..k : d[j] = Rubble
        <4> TAKE k \in 1..blk
        <4>1. CASE k = blk
          BY <2>8, <2>9, <4>1
        <4>2. CASE k # blk
          <5>1. k \in 1..(blk - 1) /\ k \in 1..Len(c)
            BY <2>8, <4>2
          <5>2. \A j \in 1..k : d[j] = c[j]
            <6> TAKE j \in 1..k
            <6>1. j \in 1..Len(c) /\ j # blk
              BY <2>8, <4>2, <5>1
            <6> QED BY <2>9, <6>1
          <5>3. \/ c[k] \in {Block(job.image, k), Garbage}
                \/ \E j \in 1..k : c[j] = Rubble
            BY <2>5, <5>1 DEF Stored
          <5>4. k \in 1..k
            BY <2>8
          <5> QED BY <5>2, <5>3, <5>4
        <4> QED BY <4>1, <4>2
      <3>2. Len(d) >= blk
        BY <2>8, <2>9
      <3> QED BY <2>1, <2>10, <3>1, <3>2 DEF Stored
    <2>12. Len(d) > blk => d[1] \in {Garbage, Rubble}
      <3> SUFFICES ASSUME Len(d) > blk PROVE d[1] \in {Garbage, Rubble}
        OBVIOUS
      <3>1. blk - 1 < Len(c)
        BY <2>8, <2>9
      <3>2. CASE blk = 1
        BY <2>9, <3>1, <3>2
      <3>3. CASE blk # 1
        <4>1. blk - 1 > 0 /\ Len(c) > blk - 1 /\ 1 \in 1..Len(c) /\ 1 # blk
          BY <2>8, <3>1, <3>3
        <4>2. c[1] \in {Garbage, Rubble}
          BY <2>5, <4>1
        <4> QED BY <2>9, <4>1, <4>2
      <3> QED BY <3>2, <3>3
    <2>13. Session'
      BY <2>1, <2>6, <2>7, <2>10, <2>11, <2>12 DEF Session, Stored
    <2>14. Stored(a, Count)'
      BY <2>1, <2>6, <2>11 DEF Stored
    <2> QED BY <1>1, <2>3, <2>5, <2>7, <2>13, <2>14 DEF SessionInv
  <1> QED BY <1>2, <1>3

(* Nothing in flash has the crc of a damaged crc packet.                    *)
LEMMA MissingIsNone ==
  /\ \A c \in Contents : c # <<Missing>>
  /\ \A i \in Images : Image(i) # <<Missing>>
  /\ \A i \in Images, k \in 1..NBlocks : Block(i, k) \notin {Garbage, Rubble, Missing}
  <1>1. Missing \notin Stuff
    BY NamesAssumption, SizeAssumption DEF Missing, Garbage, Rubble, Stuff, Blocks, Block
  <1>2. \A i \in Images, k \in 1..NBlocks : Block(i, k) \notin {Garbage, Rubble, Missing}
    BY SizeAssumption DEF Block, Garbage, Rubble, Missing
  <1>3. ASSUME NEW c \in Contents PROVE c # <<Missing>>
    <2>1. c \in Seq(Stuff)
      BY DEF Contents, Stuff
    <2>2. c = <<Missing>> => 1 \in 1..Len(c) /\ c[1] = Missing
      OBVIOUS
    <2> QED BY <1>1, <2>1, <2>2, ElementOfSeq
  <1>4. \A i \in Images : Image(i) \in Contents
    BY ImageType, SeqMonotonic DEF Contents, Stuff
  <1> QED BY <1>2, <1>3, <1>4

(* A crc that matches is that of the image, and what it was computed over  *)
(* is the image in full.                                                   *)
LEMMA CrcMatch ==
  ASSUME TypeInv, TurnInv, SessionInv, ~late, UNCHANGED hostVars, DevCrc,
         dpc' = "store", hpc \in {"wrq", "data", "crc"}
  PROVE  /\ hpc = "crc" /\ toHost = <<>> /\ UNCHANGED <<flash, ctxt>> /\ dpc = "run"
         /\ job.image \in Images /\ job.rom \in Roms
         /\ ctxt.part \in SpiRoms =>
              /\ ctxt.part = job.rom /\ Holds(spiArea, job.image) /\ spiArea \in SpiRoms
              /\ entry' = [entry EXCEPT ![job.rom] = Image(job.image)]
         /\ ctxt.part \notin SpiRoms =>
              /\ Holds("rom", job.image)
              /\ entry' = [entry EXCEPT !["rom"] = Image(job.image)]
  <1>1. Arrives("CRC") /\ dpc = "run"
    BY ArrivesType DEF DevCrc
  <1>2. /\ hpc = "crc" /\ toHost = <<>>
        /\ Packet1 \in {Crc(Image(job.image)), Crc(<<Missing>>)}
    BY <1>1, TransferPackets
  <1>3. Packet1.data \in {Image(job.image), <<Missing>>}
    BY <1>2 DEF Crc, Packet
  <1>4. job.image \in Images /\ job.rom \in Roms
    BY <1>2 DEF TypeInv, HostType, HostInv, ImagesFor, Images
  <1>5. flash' = flash
    BY DEF DevCrc
  <1>6. CASE ctxt.part \notin SpiRoms
    <2>1. /\ romArea = "rom" /\ flash["rom"] = Packet1.data /\ ctxt' = ctxt
          /\ entry' = [entry EXCEPT !["rom"] = flash[romArea]]
      BY <1>1, <1>6 DEF DevCrc, CrcRom
    <2>2. flash["rom"] \in Contents
      BY Names DEF TypeInv, DevType
    <2>3. flash["rom"] = Image(job.image)
      BY <1>3, <2>1, <2>2, MissingIsNone
    <2> QED BY <1>1, <1>2, <1>4, <1>5, <1>6, <2>1, <2>3 DEF Holds
  <1>7. CASE ctxt.part \in SpiRoms
    <2> DEFINE received == SubSeq(flash[spiArea], 1, offset[spiArea])
               i == job.image
    <2>1. /\ SpiCrc(received) = Packet1.data /\ ctxt' = ctxt
          /\ entry' = [entry EXCEPT ![ctxt.part] = received]
      BY <1>1, <1>7 DEF DevCrc, CrcSpi
    <2>2. ctxt.inProgress /\ Session
      BY <1>1, <1>2, <1>7 DEF SessionInv, InTransfer
    <2>3. /\ Driver(ctxt.part) = spiArea /\ ctxt.part = job.rom
          /\ offset[spiArea] = NBlocks /\ Len(flash[spiArea]) >= NBlocks
          /\ Len(flash[spiArea]) > NBlocks => flash[spiArea][1] \in {Garbage, Rubble}
      BY <1>2, <1>7, <2>2, SizeAssumption DEF Session, Driver, Count, Stored
    <2>4. flash[spiArea] \in Seq(Stuff) /\ Len(flash[spiArea]) \in Nat /\ NBlocks \in Nat
          /\ NBlocks > 0
      <3>1. flash[spiArea] \in Contents
        BY DriverType DEF TypeInv, DevType
      <3> QED BY <3>1, ContentsType, SizeAssumption DEF Contents, Stuff
    <2>5. /\ received \in Seq(Stuff) /\ Len(received) = NBlocks
          /\ \A k \in 1..NBlocks : received[k] = flash[spiArea][k]
      BY <2>3, <2>4, SubSeqProperties
    <2> HIDE DEF received
    <2>6. received = Image(i)
      <3>1. CASE LongRest /\ Len(received) > FullBlocks
        <4> DEFINE u == SubSeq(received, 1, FullBlocks)
        <4>1. SpiCrc(received) = Append(u, Garbage)
          BY <3>1 DEF SpiCrc
        <4>2. FullBlocks \in 0..NBlocks
          BY SizeAssumption
        <4>3. u \in Seq(Stuff) /\ Len(u) \in Nat
          BY <2>5, <4>2, SubSeqProperties, LenProperties
        <4>4. /\ Len(Append(u, Garbage)) = Len(u) + 1
              /\ Append(u, Garbage)[Len(u) + 1] = Garbage
          BY <4>3, AppendProperties DEF Stuff
        <4> HIDE DEF u
        <4>5. Append(u, Garbage) # Image(i)
          <5>1. Append(u, Garbage) = Image(i) => Image(i)[NBlocks] = Garbage
            BY <1>4, <4>3, <4>4, ImageType
          <5> QED BY <1>4, <2>4, <5>1, ImageType, MissingIsNone
        <4>6. Append(u, Garbage) # <<Missing>>
          <5>1. Append(u, Garbage) = <<Missing>> => Garbage = Missing
            BY <4>3, <4>4
          <5> QED BY <5>1, NamesAssumption DEF Garbage, Missing
        <4> QED BY <1>3, <2>1, <4>1, <4>5, <4>6
      <3>2. CASE ~(LongRest /\ Len(received) > FullBlocks)
        <4>1. SpiCrc(received) = received
          BY <3>2 DEF SpiCrc
        <4>2. received \in Contents
          BY <2>5 DEF Contents, Stuff
        <4> QED BY <1>3, <2>1, <4>1, <4>2, MissingIsNone
      <3> QED BY <3>1, <3>2
    <2>7. flash[spiArea][1] \notin {Garbage, Rubble}
      BY <1>4, <2>4, <2>5, <2>6, ImageType, MissingIsNone
    <2>8. Len(flash[spiArea]) = NBlocks
      BY <2>3, <2>4, <2>7
    <2>9. flash[spiArea] = received
      BY <2>4, <2>5, <2>8, SeqEqual
    <2> QED BY <1>1, <1>2, <1>4, <1>5, <1>7, <2>1, <2>3, <2>6, <2>9
      DEF Holds, TypeInv, DevType
  <1> QED BY <1>6, <1>7

(* ... and an accepted crc finds the whole image in an area.                *)
LEMMA CrcSession ==
  ASSUME TypeInv, TurnInv, SessionInv, UNCHANGED <<hostVars, late>>, DevCrc
  PROVE  SessionInv'
  <1> SUFFICES ASSUME InTransfer', ~late PROVE SessionInv'
    BY DEF SessionInv
  <1>1. dpc = "run" /\ Arrives("CRC") /\ flash' = flash
    BY ArrivesType DEF DevCrc
  <1>2. hpc = "crc" /\ hpc' = "crc" /\ job' = job /\ InTransfer
    <2>1. hpc \in {"wrq", "data", "crc"}
      BY DEF InTransfer, hostVars
    <2> QED BY <1>1, <2>1, TransferPackets DEF hostVars, InTransfer
  <1>3. \E a \in Areas : Stored(a, Count)'
    BY <1>1, <1>2 DEF SessionInv, Stored, Count
  <1>4. CASE dpc' = "store"
    <2>1. \E a \in Roms : Holds(a, job.image)
      BY <1>2, <1>4, CrcMatch, Names DEF hostVars
    <2> QED BY <1>1, <1>2, <1>3, <1>4, <2>1 DEF SessionInv, Holds
  <1>5. CASE dpc' # "store"
    <2>1. ctxt' = Clear /\ dpc' = "run"
      BY <1>1, <1>5 DEF DevCrc, CrcSpi, CrcRom
    <2> QED BY <1>2, <1>3, <2>1, ClearType DEF SessionInv
  <1> QED BY <1>4, <1>5

LEMMA StoreSession ==
  ASSUME TypeInv, SessionInv, UNCHANGED <<hostVars, late>>, Store
  PROVE  SessionInv'
  <1> SUFFICES ASSUME InTransfer', ~late PROVE SessionInv'
    BY DEF SessionInv
  <1>1. dpc = "store" /\ dpc' = "run" /\ ctxt' = Clear /\ toHost' = toHost
        /\ hpc' = hpc /\ job' = job
    BY DEF Store, hostVars
  <1>2. InTransfer /\ hpc = "crc" /\ Count' = NBlocks
    BY <1>1 DEF InTransfer, Acked, SessionInv, Count
  <1>3. PICK a \in Roms : Holds(a, job.image)
    BY <1>1, <1>2 DEF SessionInv
  <1>4. job.image \in Images /\ a \in Areas
    BY <1>2, Names DEF TypeInv, HostType, HostInv, ImagesFor, Images
  <1>5. flash'[a] = flash[a]
    <2>1. a # "backup"
      BY Names
    <2> QED BY <1>4, <2>1 DEF Store, TypeInv, DevType
  <1>6. Stored(a, Count)'
    BY <1>1, <1>2, <1>3, <1>4, <1>5, HoldsStored DEF Stored
  <1> QED BY <1>1, <1>4, <1>6, ClearType DEF SessionInv

LEMMA RetrieveSession ==
  ASSUME TypeInv, TurnInv, SessionInv, UNCHANGED <<hostVars, late>>, Retrieve
  PROVE  SessionInv'
  <1> SUFFICES ASSUME InTransfer', ~late PROVE FALSE
    BY DEF SessionInv
  <1>1. dpc = "retrieve" /\ toDev # <<>> /\ hpc' = hpc
    BY DEF Retrieve, Take, hostVars
  <1>2. hpc \notin {"data", "crc"} /\ ~(hpc = "wrq" /\ Acked)
    BY <1>1 DEF SessionInv, InTransfer
  <1>3. hpc = "wrq" /\ Acked'
    BY <1>1, <1>2 DEF InTransfer
  <1>4. toHost = <<>>
    BY <1>1, <1>3 DEF TurnInv, Waiting
  <1>5. toHost' = <<>> \/ Head(toHost').op \in {"DATA", "SPI_END", "ERR"}
    BY <1>4 DEF Retrieve, RetrieveAcked, RetrieveAborted, Reply, Silent, SendBlock,
                Data, Cmd, Packet
  <1> QED BY <1>3, <1>5 DEF Acked

LEMMA DevSession ==
  ASSUME TypeInv, TypeInv', TurnInv, SessionInv, DevStep \/ DevFails
  PROVE  SessionInv'
  <1>1. UNCHANGED <<hostVars, late>>
    BY DEF DevStep, DevFails
  <1>2. ASSUME NEW op, Arrives(op), op \in {"INFO", "RRQ", "ACK"}
        PROVE  SessionInv'
    <2> SUFFICES ASSUME InTransfer', ~late PROVE FALSE
      BY <1>1 DEF SessionInv
    <2>1. hpc \in {"wrq", "data", "crc"}
      BY <1>1 DEF InTransfer, hostVars
    <2> QED BY <1>2, <2>1, TransferPackets
  <1>3. ASSUME NEW op, Arrives(op), op \in {"END", "SPI_END", "SET", "WIPE"},
               toHost' = toHost
        PROVE  SessionInv'
    <2> SUFFICES ASSUME hpc' \in {"wrq", "data", "crc"}, ~late' PROVE SessionInv'
      BY DEF SessionInv, InTransfer
    <2>1. hpc \in {"wrq", "data", "crc"} /\ ~late /\ hpc' = hpc
      BY <1>1 DEF hostVars
    <2>2. hpc = "wrq" /\ toHost = <<>>
      BY <1>3, <2>1, TransferPackets
    <2> QED BY <1>3, <2>1, <2>2, NoSession
  <1>4. CASE DevInfo \/ DevRrq
    BY <1>2, <1>4 DEF DevInfo, DevRrq, Command
  <1>5. CASE DevEnd \/ DevSet \/ DevWipe
    BY <1>3, <1>5 DEF DevEnd, DevSet, DevWipe, Command, Silent
  <1>6. CASE DevOther
    <2>1. CASE Arrives("ACK")
      BY <1>2, <2>1
    <2>2. CASE ~Arrives("ACK")
      BY <1>1, <1>6, <2>2, ArrivesType, RefusedSession DEF DevOther
    <2> QED BY <2>1, <2>2
  <1>7. CASE DevFails
    BY <1>1, <1>7, ArrivesType, RefusedSession DEF DevFails, DevDataFails
  <1>8. CASE DevWrq \/ DevData \/ DevCrc \/ Store \/ Retrieve
    BY <1>1, <1>8, WrqSession, DataSession, CrcSession, StoreSession, RetrieveSession
  <1> QED
    BY <1>4, <1>5, <1>6, <1>7, <1>8 DEF DevStep, DevHandles

LEMMA DamagedOps ==
  \A p \in Packets : \A q \in Damaged(p) : q.op \in {"JUNK", "DATA", "CRC"}
  <1> SUFFICES ASSUME NEW p \in Packets, NEW q \in Damaged(p), q # Noise
               PROVE  q.op \in {"JUNK", "DATA", "CRC"}
    BY DEF Noise, Cmd, Packet
  <1>1. CASE p.op = "DATA"
    BY <1>1 DEF Damaged, Spoilt, Shortened, With, Packets
  <1>2. CASE p.op = "CRC"
    BY <1>2 DEF Damaged, Spoilt, Shortened, With, Packets
  <1> QED BY <1>1, <1>2 DEF Damaged, Spoilt, Shortened, With

LEMMA LineFaultSession ==
  ASSUME TypeInv, TurnInv, SessionInv, LineFault
  PROVE  SessionInv'
  <1>0. UNCHANGED <<hostVars, devVars, late, cutShort>>
    BY LineFaultFrame DEF TypeInv
  <1> SUFFICES ASSUME InTransfer', ~late PROVE SessionInv'
    BY <1>0 DEF SessionInv
  <1>1. /\ hpc' = hpc /\ job' = job /\ blk' = blk /\ flash' = flash /\ dpc' = dpc
        /\ ctxt' = ctxt /\ offset' = offset /\ romArea' = romArea /\ spiArea' = spiArea
        /\ late' = late
    BY <1>0 DEF hostVars, devVars, flashVars
  <1>2. Waiting
    BY <1>1 DEF InTransfer, Waiting
  <1>3. /\ toHost = <<>> => toHost' = <<>>
        /\ toHost # <<>> => Silence /\ Silence'
        /\ toHost # <<>> =>
             \/ toHost' = <<>> \/ toHost' = toHost
             \/ \E p \in Spoilt(Head(toHost)) : toHost' = <<p>>
    BY <1>2, HostFaulted, SilenceFaulted DEF TurnInv, TypeInv
  <1>4. Acked' => Acked
    <2>1. \A p \in Spoilt(Head(toHost)) : toHost' = <<p>> => ~Acked'
      <3>1. toHost # <<>> => Head(toHost) \in Packets
        BY HeadTailProperties DEF TypeInv, WireType, ToHostPackets
      <3>2. toHost # <<>> => \A p \in Spoilt(Head(toHost)) : p.op # "ACK"
        BY <3>1, DamagedOps DEF Damaged
      <3> QED BY <1>3, <3>2 DEF Acked
    <2> QED BY <1>3, <2>1 DEF Acked
  <1>5. InTransfer
    BY <1>1, <1>4 DEF InTransfer
  <1>6. /\ Count \in Nat /\ Count' \in Nat /\ Count' <= Count
        /\ hpc \in {"wrq", "crc"} => Count' = Count
        /\ Acked' => Count' = Count
    BY <1>1, <1>4, <1>5, SizeAssumption DEF Count, InTransfer, TypeInv, HostType, HostInv
  <1>7. PICK a \in Areas : Stored(a, Count)
    BY <1>5 DEF SessionInv
  <1>8. Stored(a, Count)'
    <2>1. Len(flash[a]) \in Nat
      BY ContentsType DEF TypeInv, DevType
    <2>2. \A m \in Nat : m <= Count => Stored(a, m)
      BY <1>6, <1>7, <2>1, StoredShorter
    <2>3. Stored(a, Count')
      BY <1>6, <2>2
    <2> QED BY <1>1, <2>3 DEF Stored
  <1>9. ASSUME Session PROVE Session'
    <2>1. Driver(ctxt.part)' = Driver(ctxt.part)
      BY <1>1 DEF Driver
    <2>2. Stored(Driver(ctxt.part), ctxt.last)'
      BY <1>1, <1>9, <2>1 DEF Session, Stored
    <2>3. ~Silence' => ~Silence
      BY SilenceFaulted
    <2>4. IF hpc' = "data" /\ ~Acked' THEN ctxt.last \in {blk - 1, blk}
          ELSE ctxt.last = Count'
      <3>1. CASE hpc = "data" /\ ~Acked
        BY <1>1, <1>4, <1>9, <3>1 DEF Session
      <3>2. CASE hpc = "data" /\ Acked
        BY <1>1, <1>6, <1>9, <3>2 DEF Session, Count
      <3>3. CASE hpc # "data"
        BY <1>1, <1>5, <1>6, <1>9, <3>3 DEF Session, InTransfer
      <3> QED BY <3>1, <3>2, <3>3
    <2> QED BY <1>1, <1>9, <2>1, <2>2, <2>3, <2>4 DEF Session
  <1> QED BY <1>1, <1>5, <1>8, <1>9 DEF SessionInv, Holds

LEMMA RestartSession ==
  ASSUME TypeInv, SessionInv, Restart
  PROVE  SessionInv'
  <1> SUFFICES ASSUME InTransfer', ~late PROVE SessionInv'
    BY DEF SessionInv, Restart
  <1>1. InTransfer /\ Count' = Count /\ flash' = flash /\ dpc' = "run" /\ ctxt' = Clear
        /\ job' = job /\ late' = late
    BY DEF InTransfer, Acked, Restart, hostVars, Count
  <1>2. \E a \in Areas : Stored(a, Count)'
    BY <1>1 DEF SessionInv, Stored
  <1> QED BY <1>1, <1>2, ClearType DEF SessionInv

LEMMA SessionInvNext ==
  TypeInv /\ TypeInv' /\ TurnInv /\ SessionInv /\ [Next]_vars => SessionInv'
  <1> SUFFICES ASSUME TypeInv, TypeInv', TurnInv, SessionInv, [Next]_vars
               PROVE  SessionInv'
    OBVIOUS
  <1>1. CASE \E r \in Targets : \E i \in ImagesFor(r) : StartFlash(r, i)
    BY <1>1, NoSession DEF StartFlash, Start
  <1>2. CASE \E r \in Sources : StartRead(r)
    BY <1>2, NoSession DEF StartRead, Start
  <1>3. CASE UNCHANGED vars
    BY <1>3 DEF vars, hostVars, devVars, flashVars, SessionInv, InTransfer, Acked, Count,
                Session, Stored, Driver, Silence, Holds
  <1> QED
    BY <1>1, <1>2, <1>3, HostSession, DevSession, LineFaultSession, RestartSession
      DEF Next

-----------------------------------------------------------------------------
(* Success: the device holds the image and vouches for it.                 *)

(* The step writes no area but the backup.                                  *)
SameRoms == \A a \in Roms : flash'[a] = flash[a]

(* What was accepted stays so while nothing it is about changes.            *)
LEMMA MixKept ==
  ASSUME SameRoms, job' = job, job.rom \in Roms
  PROVE  /\ Unmixed' <=> Unmixed
         /\ \A a \in Roms : Holds(a, job.image)' <=> Holds(a, job.image)
  BY Names DEF SameRoms, Unmixed, Holds

LEMMA AcceptedKept ==
  ASSUME Accepted, job' = job, job.rom \in Roms, SameRoms, dpc' = dpc,
         UNCHANGED <<ctxVars, cutShort>>, dpc = "store" => ctxt' = ctxt
  PROVE  Accepted'
  <1>1. Vouched(job.rom, job.image)' <=> Vouched(job.rom, job.image)
    BY DEF Vouched, ctxVars
  <1>2. entry' = entry /\ cutShort' = cutShort
    BY DEF ctxVars
  <1>3. /\ Unmixed' => Unmixed
        /\ \A a \in Roms : Holds(a, job.image)' <=> Holds(a, job.image)
    BY MixKept
  <1> QED BY <1>1, <1>2, <1>3, Names DEF Accepted

(* The context is stored: the entry becomes the stored crc.                 *)
LEMMA StoreAccepted ==
  ASSUME TypeInv, Store, Accepted, job' = job, job.rom \in Roms, cutShort' = cutShort
  PROVE  Accepted'
  <1>1. dpc = "store" /\ dpc' = "run" /\ entry' = entry
    BY DEF Store
  <1>2. SameRoms
    <2>1. "backup" \notin Roms
      BY Names
    <2>2. flash' = flash \/ flash' = [flash EXCEPT !["backup"] = Unknown]
      BY DEF Store
    <2> QED BY <2>1, <2>2, Names DEF SameRoms, TypeInv, DevType
  <1>3. /\ Unmixed' => Unmixed
        /\ \A a \in Roms : Holds(a, job.image)' <=> Holds(a, job.image)
    BY <1>2, MixKept
  <1>4. ASSUME Unmixed PROVE Vouched(job.rom, job.image)'
    <2>1. (ctxt.part \in SpiRoms <=> job.rom \in SpiRoms)
          /\ entry[job.rom] = Image(job.image)
      BY <1>1, <1>4 DEF Accepted
    <2>2. CASE job.rom \in SpiRoms
      <3>1. spiCopy' = [a \in SpiRoms |-> [r \in SpiRoms |-> entry[r]]]
        BY <2>1, <2>2 DEF Store, StoreSpiContext
      <3> QED BY <2>1, <2>2, <3>1, Names DEF Vouched
    <2>3. CASE job.rom \notin SpiRoms
      <3>1. bootinfo' = entry["rom"] /\ job.rom = "rom"
        BY <2>1, <2>3, Names DEF Store
      <3> QED BY <2>1, <3>1 DEF Vouched
    <2> QED BY <2>2, <2>3
  <1> QED BY <1>1, <1>3, <1>4, Names DEF Accepted

(* A crc is accepted.                                                       *)
LEMMA CrcAccepted ==
  ASSUME TypeInv, TurnInv, SessionInv, ~late, UNCHANGED hostVars, hpc = "crc",
         DevCrc, dpc' = "store"
  PROVE  Accepted'
  <1>1. /\ job.image \in Images /\ job.rom \in Roms /\ UNCHANGED <<flash, ctxt, job>>
        /\ job.image \in ImagesFor(job.rom)
    BY CrcMatch DEF hostVars, TypeInv, HostType, HostInv
  <1>2. SameRoms
    BY <1>1 DEF SameRoms
  <1>3. /\ Unmixed' => Unmixed
        /\ \A a \in Roms : Holds(a, job.image)' <=> Holds(a, job.image)
    BY <1>1, <1>2, MixKept
  <1>4. entry \in [Roms -> Contents]
    BY DEF TypeInv, DevType
  <1>5. CASE ctxt.part \in SpiRoms
    <2>1. /\ ctxt.part = job.rom /\ Holds(spiArea, job.image) /\ spiArea \in SpiRoms
          /\ entry' = [entry EXCEPT ![job.rom] = Image(job.image)]
      BY <1>5, CrcMatch
    <2>2. entry'[job.rom] = Image(job.image) /\ job.rom # "rom"
      BY <1>1, <1>4, <1>5, <2>1, Names
    <2> QED BY <1>1, <1>3, <1>5, <2>1, <2>2, Names DEF Accepted
  <1>6. CASE ctxt.part \notin SpiRoms
    <2>1. Holds("rom", job.image) /\ entry' = [entry EXCEPT !["rom"] = Image(job.image)]
      BY <1>6, CrcMatch
    <2>2. Unmixed => job.rom = "rom"
      BY <1>1, <2>1 DEF Unmixed, ImagesFor
    <2>3. entry'["rom"] = Image(job.image)
      BY <1>4, <2>1, Names
    <2> QED BY <1>1, <1>3, <1>6, <2>1, <2>2, <2>3, Names DEF Accepted
  <1> QED BY <1>5, <1>6

LEMMA NotOk ==
  ASSUME result' # "ok", hpc' # "crc" \/ (toHost' = <<>> /\ dpc' # "store")
  PROVE  OkInv'
  BY DEF OkInv

LEMMA HostOk ==
  ASSUME TypeInv, TypeInv', TurnInv, SessionInv, OkInv, HostStep
  PROVE  OkInv'
  <1> SUFFICES ASSUME ~late' PROVE OkInv'
    BY DEF OkInv
  <1>1. CASE Open \/ InfoDone \/ ReadBlock \/ ReadTimeout \/ TransferTimeout
    <2>1. result' # "ok" /\ hpc' # "crc"
      BY <1>1 DEF Open, InfoDone, ReadBlock, ReadTimeout, TransferTimeout, NextRead,
                  Exit, TypeInv, HostType, HostInv
    <2> QED BY <2>1, NotOk
  <1>2. CASE WrqAnswered \/ DataAnswered
    <2>1. /\ hpc \in {"wrq", "data"} /\ Hear /\ late' = late /\ dpc' = dpc
          /\ result' # "ok"
      BY <1>2 DEF WrqAnswered, DataAnswered, Exit, devVars, TypeInv, HostType, HostInv
    <2>2. toHost' = <<>>
      BY <2>1, Answered DEF Waiting
    <2>3. hpc' = "crc" => Acked
      BY <1>2 DEF WrqAnswered, DataAnswered, Exit, Acked, Hear, Heard, AckOf
    <2>4. hpc' = "crc" => dpc = "run"
      BY <2>1, <2>3 DEF SessionInv, InTransfer
    <2> QED BY <2>1, <2>2, <2>4, NotOk
  <1>3. CASE CrcAnswered
    <2>1. /\ hpc = "crc" /\ Hear /\ ~late /\ hpc' = "idle" /\ job' = job
          /\ Send(Cmd(IF job.rom = "spi0" THEN "SPI_END" ELSE "END"))
          /\ UNCHANGED <<devVars, cutShort>>
      BY <1>3 DEF CrcAnswered, Exit
    <2>2. Accepted /\ dpc # "retrieve"
      BY <2>1 DEF OkInv, SessionInv, InTransfer, Hear
    <2>3. job.rom \in Roms /\ job.image \in ImagesFor(job.rom)
      BY <2>1 DEF TypeInv, HostType, HostInv
    <2>4. Accepted'
      BY <2>1, <2>2, <2>3, AcceptedKept DEF devVars, flashVars, SameRoms
    <2>5. Silence
      BY <2>1, Answered DEF Waiting
    <2>6. toDev \in Seq(Closing)
      BY <2>5, SeqMonotonic DEF Silence, Closing
    <2>7. toDev' \in Seq(Closing)
      BY <2>1, <2>6, AppendProperties DEF Send, Closing
    <2>8. dpc' = dpc
      BY <2>1 DEF devVars
    <2> QED BY <2>1, <2>2, <2>3, <2>4, <2>7, <2>8 DEF OkInv, Closing
  <1> QED BY <1>1, <1>2, <1>3 DEF HostStep

(* What may reach the device once the tool has reported success.           *)
LEMMA OkPackets ==
  ASSUME TypeInv, TurnInv, OkInv, ~late, NEW op, Arrives(op),
         result = "ok" \/ hpc = "crc"
  PROVE  /\ op \in {"JUNK", "CRC", "END", "SPI_END"}
         /\ hpc = "crc" => op \in {"JUNK", "CRC"}
         /\ op = "CRC" => hpc = "crc" /\ toHost = <<>>
         /\ result = "ok" => toDev' \in Seq(Closing)
         /\ dpc = "run"
  <1>1. CASE hpc = "crc"
    <2>1. result # "ok"
      BY <1>1 DEF TypeInv, HostType, HostInv
    <2>2. op \in Ops
      BY ArrivesType DEF ToDevPackets, Packets
    <2> QED BY <1>1, <2>1, <2>2, TransferPackets, ArrivesType DEF Ops
  <1>2. CASE hpc # "crc"
    <2>1. toDev \in Seq(Closing) /\ result = "ok"
      BY <1>2 DEF OkInv
    <2>2. Packet1 \in Closing /\ toDev' \in Seq(Closing)
      BY <2>1, HeadTailProperties DEF Arrives, Take, Packet1
    <2>3. Packet1.op \in {"JUNK", "END", "SPI_END"}
      BY <2>2 DEF Closing, Noise, Cmd, Packet
    <2> QED BY <1>2, <2>2, <2>3, ArrivesType
  <1> QED BY <1>1, <1>2

LEMMA OkHost ==
  ASSUME TypeInv, ~late, OkInv, result = "ok" \/ hpc = "crc"
  PROVE  job.rom \in Roms /\ (result = "ok" <=> hpc # "crc")
  BY DEF TypeInv, HostType, HostInv, OkInv

LEMMA DevOk ==
  ASSUME TypeInv, TurnInv, SessionInv, OkInv, DevStep \/ DevFails
  PROVE  OkInv'
  <1>0. UNCHANGED <<hostVars, late, cutShort>>
    BY DEF DevStep, DevFails
  <1> SUFFICES ASSUME ~late, result = "ok" \/ hpc = "crc" PROVE OkInv'
    BY <1>0 DEF OkInv, hostVars
  <1>1. /\ job.rom \in Roms /\ job' = job /\ hpc' = hpc /\ result' = result
        /\ cutShort' = cutShort /\ late' = late
        /\ result = "ok" <=> hpc # "crc"
    BY <1>0, OkHost DEF hostVars
  <1>2. ASSUME NEW op, Arrives(op), toHost' = toHost, SameRoms, dpc' = dpc,
               UNCHANGED ctxVars
        PROVE  OkInv'
    <2>1. dpc = "run" /\ (result = "ok" => toDev' \in Seq(Closing))
      BY <1>2, OkPackets
    <2>2. Accepted => Accepted'
      BY <1>1, <1>2, <2>1, AcceptedKept
    <2> QED BY <1>1, <1>2, <2>1, <2>2 DEF OkInv, Closing
  <1>3. ASSUME NEW op, Arrives(op), op \notin {"JUNK", "CRC", "END", "SPI_END"}
        PROVE  OkInv'
    BY <1>3, OkPackets
  <1>4. CASE DevWrq \/ DevData \/ DevInfo \/ DevSet \/ DevWipe \/ DevRrq \/ DevFails
    BY <1>3, <1>4 DEF DevWrq, DevData, DevInfo, DevSet, DevWipe, DevRrq, DevFails,
                      DevDataFails, Command
  <1>5. CASE DevEnd
    BY <1>2, <1>5 DEF DevEnd, Command, Silent, SameRoms
  <1>6. CASE DevOther
    <2>1. CASE Arrives("ACK") \/ Arrives("ERR")
      BY <1>3, <2>1
    <2>2. CASE ~(Arrives("ACK") \/ Arrives("ERR"))
      BY <1>2, <1>6, <2>2 DEF DevOther, Refuse, Silent, SameRoms, flashVars
    <2> QED BY <2>1, <2>2
  <1>7. CASE DevCrc
    <2>1. hpc = "crc" /\ toHost = <<>> /\ dpc = "run"
      BY <1>7, OkPackets DEF DevCrc
    <2>2. CASE dpc' = "store"
      BY <1>0, <1>1, <1>7, <2>1, <2>2, CrcAccepted DEF OkInv
    <2>3. CASE dpc' # "store"
      <3>1. toHost' = toHost
        BY <1>7, <2>3 DEF DevCrc, CrcSpi, CrcRom, Silent
      <3> QED BY <1>1, <2>1, <2>3, <3>1 DEF OkInv
    <2> QED BY <2>2, <2>3
  <1>8. CASE Store
    <2>1. dpc = "store" /\ dpc' = "run" /\ toHost' = toHost /\ toDev' = toDev
      BY <1>8 DEF Store
    <2>2. Accepted
      BY <1>1, <2>1 DEF OkInv
    <2>3. Accepted'
      BY <1>1, <1>8, <2>2, StoreAccepted
    <2> QED BY <1>1, <2>1, <2>3 DEF OkInv, Closing
  <1>9. CASE Retrieve
    <2>1. dpc # "retrieve"
      BY <1>1 DEF OkInv, SessionInv, InTransfer
    <2> QED BY <1>9, <2>1 DEF Retrieve
  <1> QED
    BY <1>4, <1>5, <1>6, <1>7, <1>8, <1>9 DEF DevStep, DevHandles

LEMMA LineFaultOk ==
  ASSUME TypeInv, OkInv, LineFault
  PROVE  OkInv'
  <1>0. UNCHANGED <<hostVars, devVars, late, cutShort>>
    BY LineFaultFrame DEF TypeInv
  <1> SUFFICES ASSUME ~late, result = "ok" \/ hpc = "crc" PROVE OkInv'
    BY <1>0 DEF OkInv, hostVars
  <1>1. job.rom \in Roms /\ (toHost = <<>> => toHost' = <<>>)
    BY OkHost, HostFaulted DEF TypeInv
  <1>2. Accepted => Accepted'
    BY <1>0, <1>1, AcceptedKept DEF hostVars, devVars, flashVars, SameRoms
  <1>3. ASSUME toDev \in Seq(Closing) PROVE toDev' \in Seq(Closing)
    <2>1. \A p \in Closing : Damaged(p) = {Noise}
      BY DEF Closing, Damaged, Spoilt, Shortened, With, Noise, Cmd, Packet
    <2>2. Line(toDev, Closing, {}, {}) /\ Noise \in Closing
      BY <1>3, LineSilent DEF Closing
    <2>3. Line(toDev', Closing, {}, {})
      BY <2>1, <2>2, LineFaulted
    <2> QED BY <2>3 DEF Line
  <1> QED BY <1>0, <1>1, <1>2, <1>3 DEF OkInv, hostVars, devVars, Closing

LEMMA RestartOk ==
  ASSUME TypeInv, OkInv, Restart
  PROVE  OkInv'
  <1>0. /\ UNCHANGED <<hostVars, flash, bootinfo, spiCopy, toHost, late>>
        /\ dpc' = "run" /\ toDev' = <<>> /\ cutShort' = (cutShort \/ dpc = "store")
    BY DEF Restart
  <1> SUFFICES ASSUME ~late, result = "ok" \/ hpc = "crc" PROVE OkInv'
    BY <1>0 DEF OkInv, hostVars
  <1>1. job.rom \in Roms /\ job' = job
    BY <1>0, OkHost DEF hostVars
  <1>2. Accepted => Accepted'
    <2>1. /\ Unmixed' => Unmixed
          /\ \A a \in Roms : Holds(a, job.image)' <=> Holds(a, job.image)
      BY <1>0, <1>1, MixKept DEF SameRoms
    <2>2. Vouched(job.rom, job.image)' <=> Vouched(job.rom, job.image)
      BY <1>0, <1>1 DEF Vouched
    <2> QED BY <1>0, <1>1, <2>1, <2>2, Names DEF Accepted
  <1>3. <<>> \in Seq(Closing)
    OBVIOUS
  <1> QED BY <1>0, <1>2, <1>3 DEF OkInv, hostVars, Closing

LEMMA OkInvNext ==
  TypeInv /\ TypeInv' /\ TurnInv /\ SessionInv /\ OkInv /\ [Next]_vars => OkInv'
  <1> SUFFICES ASSUME TypeInv, TypeInv', TurnInv, SessionInv, OkInv, [Next]_vars
               PROVE  OkInv'
    OBVIOUS
  <1>1. CASE \E r \in Targets : \E i \in ImagesFor(r) : StartFlash(r, i)
    BY <1>1, NotOk DEF StartFlash, Start
  <1>2. CASE \E r \in Sources : StartRead(r)
    BY <1>2, NotOk DEF StartRead, Start
  <1>3. CASE UNCHANGED vars
    BY <1>3 DEF vars, hostVars, devVars, flashVars, ctxVars, OkInv, Accepted, Vouched,
                Unmixed, Holds, Closing
  <1> QED
    BY <1>1, <1>2, <1>3, HostOk, DevOk, LineFaultOk, RestartOk DEF Next

-----------------------------------------------------------------------------
(* Reading back: the file grows by the next block of the selected area.    *)

LEMMA NotReading == ASSUME hpc' # "read", result' # "read" PROVE ReadInv'
  BY DEF ReadInv, Reading

LEMMA HostRead ==
  ASSUME TypeInv, TypeInv', TurnInv, ReadInv, HostStep
  PROVE  ReadInv'
  <1> SUFFICES ASSUME ~late' PROVE ReadInv'
    BY DEF ReadInv
  <1>1. CASE InfoDone \/ WrqAnswered \/ DataAnswered \/ CrcAnswered \/ TransferTimeout
    <2>1. result' # "read" /\ hpc' # "read"
      BY <1>1 DEF InfoDone, WrqAnswered, DataAnswered, CrcAnswered, TransferTimeout,
                  SendNext, Exit, TypeInv, HostType, HostInv
    <2> QED BY <2>1, NotReading
  <1>2. CASE Open
    <2>1. /\ got' = <<>> /\ toHost' = <<>> /\ result' # "read" /\ UNCHANGED devVars
      BY <1>2, Opened DEF Open, TypeInv, HostType, HostInv
    <2>2. spiArea \in SpiRoms /\ spiArea' = spiArea /\ dpc' = dpc
      BY <2>1 DEF TypeInv, DevType, devVars, flashVars
    <2>3. ReadFrom(spiArea)' /\ NextBlock(spiArea)'
      BY <2>1 DEF ReadFrom, NextBlock
    <2> QED BY <2>1, <2>2, <2>3 DEF ReadInv, ReadFrom, NextBlock
  <1>3. CASE ReadTimeout
    <2>1. got' = Append(got, Missing) /\ toDev = <<>> /\ toDev' = toDev
      BY <1>3, GaveUpType DEF ReadTimeout, NextRead, TypeInv
    <2>2. ~NoGap'
      <3>1. got \in Seq(Stuff \cup {Erased, Missing})
        BY DEF TypeInv, HostType
      <3>2. /\ Len(got) + 1 \in DOMAIN Append(got, Missing)
            /\ Append(got, Missing)[Len(got) + 1] = Missing
        BY <3>1, AppendProperties, LenProperties
      <3> QED BY <2>1, <3>2 DEF NoGap
    <2>3. <<>> \in Seq(Tailing')
      OBVIOUS
    <2> QED BY <2>1, <2>2, <2>3 DEF ReadInv
  <1>4. CASE ReadBlock
    <2>1. /\ hpc = "read" /\ Hear /\ Waiting /\ ~late /\ toHost # <<>>
          /\ Heard = Head(toHost) /\ UNCHANGED devVars
      BY <1>4 DEF ReadBlock, Waiting, Hear, Heard
    <2>2. toHost' = <<>> /\ Silence
      BY <2>1, Answered
    <2>3. flash' = flash /\ spiArea' = spiArea /\ dpc' = dpc
      BY <2>1 DEF devVars, flashVars
    <2>4. CASE Heard.op # "DATA"
      <3>1. UNCHANGED <<hpc, result, got>>
        BY <1>4, <2>4 DEF ReadBlock
      <3>2. \A a : ReadFrom(a) => ReadFrom(a)'
        BY <2>3, <3>1 DEF ReadFrom
      <3>3. \A a : NextBlock(a)'
        BY <2>2 DEF NextBlock
      <3>4. NoGap' => NoGap
        BY <3>1 DEF NoGap
      <3>5. Reading /\ result' # "read"
        BY <2>1, <3>1 DEF Reading, TypeInv, HostType, HostInv
      <3> QED BY <2>1, <2>3, <3>2, <3>3, <3>4, <3>5 DEF ReadInv
    <2>5. CASE Heard.op = "DATA"
      <3> DEFINE b == Heard.data[1]
      <3>1. got' = Append(got, b) /\ Send(Ack(blk))
        BY <1>4, <2>5 DEF ReadBlock, NextRead
      <3>2. got \in Seq(Stuff \cup {Erased, Missing}) /\ b \in Stuff \cup {Erased, Missing}
        BY <2>1, <2>5, TakeType DEF TypeInv, HostType, ToHostPackets
      <3>3. /\ DOMAIN got = 1..Len(got) /\ Len(got) \in Nat
            /\ DOMAIN got' = 1..(Len(got) + 1)
            /\ \A k \in 1..Len(got) : got'[k] = got[k]
            /\ got'[Len(got) + 1] = b
        <4> HIDE DEF b
        <4> QED BY <3>1, <3>2, AppendProperties, LenProperties
      <3>4. NoGap' => NoGap
        BY <3>3 DEF NoGap
      <3>5. ASSUME NoGap'
            PROVE  \E a \in SpiRoms :
                     ReadFrom(a)' /\ NextBlock(a)' /\ (dpc' = "retrieve" => a = spiArea')
        <4>1. PICK a \in SpiRoms :
                     ReadFrom(a) /\ NextBlock(a) /\ (dpc = "retrieve" => a = spiArea)
          BY <2>1, <3>4, <3>5 DEF ReadInv, Reading
        <4>2. b \in {At(flash[a], Len(got)), Garbage}
          BY <2>1, <2>5, <4>1 DEF NextBlock
        <4>3. ReadFrom(a)'
          <5>1. ASSUME NEW k \in DOMAIN got' PROVE got'[k] \in {At(flash[a], k - 1), Garbage}
            <6>1. CASE k = Len(got) + 1
              <7>1. k - 1 = Len(got)
                BY <3>3, <6>1
              <7> HIDE DEF b
              <7> QED BY <3>3, <4>2, <6>1, <7>1
            <6>2. CASE k # Len(got) + 1
              <7>1. k \in 1..Len(got)
                BY <3>3, <5>1, <6>2
              <7> QED BY <3>3, <4>1, <7>1 DEF ReadFrom
            <6> QED BY <6>1, <6>2
          <5> QED BY <2>3, <5>1 DEF ReadFrom
        <4>4. NextBlock(a)'
          BY <2>2 DEF NextBlock
        <4> QED BY <2>3, <4>1, <4>3, <4>4
      <3>6. toDev' \in Seq(Tailing)
        <4>1. Ack(blk) \in Tailing /\ Noise \in Tailing
          BY AckPackets, PlainPackets, SizeAssumption
          DEF Tailing, Ack, Noise, Cmd, Packet, TypeInv, HostType
        <4>2. toDev \in Seq(Tailing)
          BY <2>2, <4>1, SeqMonotonic DEF Silence
        <4> QED BY <3>1, <4>1, <4>2, AppendProperties DEF Send
      <3> QED BY <3>5, <3>6 DEF ReadInv, Tailing
    <2> QED BY <2>4, <2>5
  <1> QED BY <1>1, <1>2, <1>3, <1>4 DEF HostStep

(* Nothing the tool reads changes.                                         *)
LEMMA ReadKept ==
  ASSUME ReadInv, UNCHANGED <<hostVars, late>>, \A a \in SpiRoms : flash'[a] = flash[a],
         toHost' = toHost \/ (toHost' # <<>> /\ Head(toHost').op # "DATA")
           \/ hpc # "read",
         dpc' = "retrieve" => dpc = "retrieve" /\ spiArea' = spiArea,
         result = "read" => toDev' \in Seq(Tailing)
  PROVE  ReadInv'
  <1> SUFFICES ASSUME Reading, ~late PROVE ReadInv'
    BY DEF ReadInv, Reading, hostVars
  <1>1. ASSUME NEW a \in SpiRoms, ReadFrom(a), NextBlock(a) PROVE ReadFrom(a)' /\ NextBlock(a)'
    <2>1. ReadFrom(a)'
      BY <1>1 DEF ReadFrom, hostVars
    <2>2. NextBlock(a)'
      BY <1>1 DEF NextBlock, hostVars
    <2> QED BY <2>1, <2>2
  <1>2. NoGap' => NoGap
    BY DEF NoGap, hostVars
  <1> QED BY <1>1, <1>2 DEF ReadInv, Tailing, hostVars

(* What may reach the device while the tool reads, or has read.            *)
LEMMA ReadPackets ==
  ASSUME TypeInv, TurnInv, ReadInv, ~late, Reading, NEW op, Arrives(op)
  PROVE  /\ op \in {"RRQ", "ACK", "END", "SPI_END", "SET", "WIPE", "ERR", "JUNK"}
         /\ op = "RRQ" => hpc = "read" /\ got = <<>> /\ toHost = <<>>
         /\ op = "WIPE" => hpc = "read" /\ got = <<>> /\ toHost = <<>>
         /\ op \in {"END", "SPI_END", "SET", "ERR"} => hpc = "read"
         /\ result = "read" => toDev' \in Seq(Tailing)
         /\ dpc = "run"
  <1>1. dpc = "run" /\ Packet1.op = op /\ Packet1 = Head(toDev) /\ toDev # <<>>
        /\ toDev' = Tail(toDev) /\ Packet1 \in ToDevPackets
    BY ArrivesType DEF Packet1
  <1>2. CASE result = "read"
    <2>1. toDev \in Seq(Tailing)
      BY <1>2 DEF ReadInv
    <2>2. Packet1 \in Tailing /\ toDev' \in Seq(Tailing)
      BY <1>1, <2>1, HeadTailProperties
    <2> QED BY <1>1, <2>2 DEF Tailing
  <1>3. CASE result # "read"
    <2>1. hpc = "read" /\ Waiting
      BY <1>3 DEF Reading, Waiting
    <2>2. /\ Packet1 \in Before \cup Awaited
          /\ Silence => Packet1 = Noise
          /\ Packet1 \in Awaited => toHost = <<>>
          /\ toHost # <<>> => Silence
      BY <2>1, TurnArrives DEF TurnInv
    <2>3. Packet1 \in Awaited => op = IF got = <<>> THEN "RRQ" ELSE "ACK"
      BY <1>1, <2>1, Apart DEF Separate, TypeInv
    <2>4. Packet1 \in Before => Packet1 \in Dull /\ (got # <<>> => Packet1 = Noise)
      BY <2>1, Apart DEF Separate, Before, TypeInv
    <2>5. Packet1 \in Dull => op \in {"END", "SPI_END", "SET", "WIPE", "ERR", "JUNK"}
      BY <1>1 DEF Dull
    <2>6. Packet1 = Noise => op = "JUNK"
      BY <1>1 DEF Noise, Cmd, Packet
    <2> QED BY <1>1, <1>3, <2>1, <2>2, <2>3, <2>4, <2>5, <2>6
  <1> QED BY <1>2, <1>3

LEMMA TailingDamaged == Noise \in Tailing /\ \A p \in Tailing : Damaged(p) = {Noise}
  BY PlainPackets DEF Tailing, Damaged, Spoilt, Shortened, With, Noise, Cmd, Packet

(* The read-back starts at the beginning of the selected area ...           *)
LEMMA RrqRead ==
  ASSUME TypeInv, TurnInv, ReadInv, DevRrq, UNCHANGED <<hostVars, late>>, ~late, Reading
  PROVE  ReadInv'
  <1>1. /\ Arrives("RRQ") /\ hpc = "read" /\ got = <<>> /\ toHost = <<>> /\ dpc = "run"
        /\ result # "read"
    BY ReadPackets DEF DevRrq, TypeInv, HostType, HostInv
  <1>2. CASE Refuse
    BY <1>1, <1>2, ReadKept DEF Refuse, Silent, flashVars
  <1>3. CASE ~Refuse
    <2>1. /\ offset' = [offset EXCEPT ![spiArea] = 1] /\ SendBlock(0)
          /\ flash' = flash /\ spiArea' = spiArea
      BY <1>3 DEF DevRrq
    <2>2. offset'[spiArea] = 1 /\ spiArea \in SpiRoms
      BY <2>1, DriverType DEF TypeInv, DevType
    <2>3. toHost' = <<Data(0, At(flash[spiArea], 0))>>
      BY <1>1, <2>1, <2>2 DEF SendBlock, Reply
    <2>4. got' = <<>> /\ Len(got') = 0 /\ hpc' = "read" /\ result' # "read"
      BY <1>1 DEF hostVars
    <2>5. ReadFrom(spiArea)'
      BY <2>4 DEF ReadFrom
    <2>6. NextBlock(spiArea)'
      <3>1. Head(toHost').data[1] = At(flash[spiArea], 0)
        BY <2>3 DEF Data, Packet
      <3> QED BY <2>1, <2>4, <3>1 DEF NextBlock
    <2>7. \E a \in SpiRoms : ReadFrom(a)' /\ NextBlock(a)' /\ a = spiArea'
      <3>1. PICK a \in SpiRoms : a = spiArea
        BY <2>2
      <3>2. ReadFrom(a)' /\ NextBlock(a)'
        BY <2>1, <2>5, <2>6, <3>1 DEF ReadFrom, NextBlock
      <3> QED BY <2>1, <3>1, <3>2
    <2> QED BY <2>4, <2>7 DEF ReadInv
  <1> QED BY <1>2, <1>3

(* ... and goes on with the block after the last.                           *)
LEMMA RetrieveRead ==
  ASSUME TypeInv, TurnInv, ReadInv, Retrieve, UNCHANGED <<hostVars, late>>, ~late, Reading
  PROVE  ReadInv'
  <1>1. /\ dpc = "retrieve" /\ toDev # <<>> /\ toDev' = Tail(toDev)
        /\ Packet1 = Head(toDev) /\ flash' = flash /\ spiArea' = spiArea
        /\ spiArea \in Areas
    BY DriverType DEF Retrieve, Take, Packet1, TypeInv
  <1>2. result = "read" => toDev' \in Seq(Tailing)
    BY <1>1, HeadTailProperties DEF ReadInv
  <1>3. hpc = "read" => toHost = <<>>
    BY <1>1 DEF TurnInv, Waiting
  <1>4. CASE RetrieveAborted \/ dpc' # "retrieve"
    <2>1. \/ toHost' = toHost
          \/ \E p : toHost' = Append(toHost, p) /\ p.op \in {"SPI_END", "ERR"}
      BY <1>1, <1>4
        DEF Retrieve, RetrieveAborted, RetrieveAcked, EndRetrieve, Reply, Silent,
                   Cmd, Packet
    <2>2. hpc = "read" => toHost' = toHost
              \/ (toHost' # <<>> /\ Head(toHost').op # "DATA")
      BY <1>3, <2>1
    <2>3. dpc' # "retrieve"
      BY <1>4 DEF RetrieveAborted, EndRetrieve
    <2> QED BY <1>1, <1>2, <2>2, <2>3, ReadKept
  <1>5. CASE RetrieveAcked /\ dpc' = "retrieve"
    <2>1. /\ AckOf(Packet1, rnr) /\ offset' = [offset EXCEPT ![spiArea] = @ + 1]
          /\ SendBlock(rnr + 1)
      BY <1>5 DEF RetrieveAcked, EndRetrieve
    <2>2. CASE hpc # "read"
      BY <1>1, <1>2, <1>5, <2>2, ReadKept
    <2>3. CASE hpc = "read"
      <3>1. Packet1 \in Before \cup Awaited /\ Waiting
        BY <1>1, <2>3, LineTail DEF TurnInv, Waiting
      <3>2. Packet1 \in Awaited
        BY <2>1, <3>1, Apart, Dulls DEF Separate, AckOf, TypeInv
      <3>3. got # <<>>
        BY <2>1, <2>3, <3>1, <3>2, Apart DEF Separate, AckOf, TypeInv
      <3>4. Packet1 = Ack(blk - 1)
        BY <2>3, <3>2, <3>3 DEF Awaited
      <3>5. rnr = blk - 1
        BY <2>1, <3>4 DEF AckOf, Ack, Packet
      <3>6. /\ offset'[spiArea] - 1 = Len(got) /\ Len(got') = Len(got)
            /\ result' # "read" /\ got' = got
        <4>1. /\ offset[spiArea] = rnr + 1 /\ rnr \in Nat /\ blk \in Nat /\ blk = Len(got)
              /\ offset'[spiArea] = offset[spiArea] + 1 /\ result # "read"
          BY <1>1, <2>1, <2>3, SizeAssumption
          DEF TypeInv, DevType, OffsetInv, HostType, HostInv
        <4> QED BY <3>5, <4>1 DEF hostVars
      <3>7. toHost' = <<Data(rnr + 1, At(flash[spiArea], Len(got)))>>
        BY <1>3, <2>1, <2>3, <3>6 DEF SendBlock, Reply
      <3>8. Head(toHost').data[1] = At(flash[spiArea], Len(got))
        BY <3>7 DEF Data, Packet
      <3>9. ASSUME NEW a, a = spiArea PROVE NextBlock(a)'
        BY <1>1, <3>6, <3>8, <3>9 DEF NextBlock
      <3>10. \A a : ReadFrom(a) => ReadFrom(a)'
        BY <1>1, <3>6 DEF ReadFrom
      <3>11. NoGap' => NoGap
        BY <3>6 DEF NoGap
      <3> QED BY <1>1, <3>6, <3>9, <3>10, <3>11 DEF ReadInv
    <2> QED BY <2>2, <2>3
  <1> QED BY <1>4, <1>5 DEF Retrieve

LEMMA DevRead ==
  ASSUME TypeInv, TurnInv, ReadInv, DevStep \/ DevFails
  PROVE  ReadInv'
  <1>0. UNCHANGED <<hostVars, late>>
    BY DEF DevStep, DevFails
  <1> SUFFICES ASSUME ~late, Reading PROVE ReadInv'
    BY <1>0 DEF ReadInv, Reading, hostVars
  <1>1. ASSUME NEW op, Arrives(op), op \in {"WRQ", "DATA", "CRC", "INFO"}
        PROVE  ReadInv'
    BY <1>1, ReadPackets
  <1>2. CASE DevWrq \/ DevData \/ DevCrc \/ DevInfo \/ DevFails
    BY <1>1, <1>2 DEF DevWrq, DevData, DevCrc, DevInfo, DevFails, DevDataFails, Command
  <1>3. ASSUME NEW op, Arrives(op), toHost' = toHost, flash' = flash, dpc' = dpc
        PROVE  ReadInv'
    BY <1>0, <1>3, ReadPackets, ReadKept
  <1>4. CASE DevEnd \/ DevSet
    BY <1>3, <1>4 DEF DevEnd, DevSet, Command, Silent
  <1>5. CASE DevOther
    BY <1>3, <1>5 DEF DevOther, Refuse, Silent, devVars, flashVars
  <1>6. CASE DevWipe
    <2>1. hpc = "read" /\ got = <<>> /\ toHost = <<>> /\ toHost' = <<>> /\ dpc' = "run"
          /\ result # "read"
      BY <1>6, ReadPackets DEF DevWipe, Command, Silent, TypeInv, HostType, HostInv
    <2>2. got' = <<>> /\ result' # "read"
      BY <1>0, <2>1 DEF hostVars
    <2>3. \A a : ReadFrom(a)' /\ NextBlock(a)'
      BY <2>1, <2>2 DEF ReadFrom, NextBlock
    <2>4. "spi0" \in SpiRoms
      BY Names
    <2> QED BY <2>1, <2>2, <2>3, <2>4 DEF ReadInv
  <1>7. CASE Store
    <2>1. /\ dpc' = "run" /\ toHost' = toHost /\ toDev' = toDev
          /\ flash' = flash \/ flash' = [flash EXCEPT !["backup"] = Unknown]
      BY <1>7 DEF Store
    <2>2. \A a \in SpiRoms : a # "backup" /\ a \in Areas
      BY Names
    <2>3. \A a \in SpiRoms : flash'[a] = flash[a]
      BY <2>1, <2>2 DEF TypeInv, DevType
    <2>4. result = "read" => toDev' \in Seq(Tailing)
      BY <2>1 DEF ReadInv
    <2> QED BY <1>0, <2>1, <2>3, <2>4, ReadKept
  <1> QED
    BY <1>0, <1>2, <1>4, <1>5, <1>6, <1>7, RrqRead, RetrieveRead DEF DevStep, DevHandles

LEMMA LineFaultRead ==
  ASSUME TypeInv, TurnInv, ReadInv, LineFault
  PROVE  ReadInv'
  <1>0. UNCHANGED <<hostVars, devVars, late, cutShort>>
    BY LineFaultFrame DEF TypeInv
  <1> SUFFICES ASSUME ~late, Reading PROVE ReadInv'
    BY <1>0 DEF ReadInv, Reading, hostVars
  <1>1. result = "read" => toDev' \in Seq(Tailing)
    <2> SUFFICES ASSUME result = "read" PROVE toDev' \in Seq(Tailing)
      OBVIOUS
    <2>1. Line(toDev, Tailing, {}, {})
      BY LineSilent DEF ReadInv
    <2>2. Line(toDev', Tailing, {}, {})
      BY <2>1, TailingDamaged, LineFaulted
    <2> QED BY <2>2 DEF Line
  <1>2. ASSUME NEW a, NextBlock(a) PROVE NextBlock(a)'
    <2> SUFFICES ASSUME hpc = "read", toHost' # <<>>, Head(toHost').op = "DATA"
                 PROVE  Head(toHost').data[1] \in {At(flash[a], Len(got)), Garbage}
      BY <1>0 DEF NextBlock, hostVars, devVars, flashVars
    <2>1. toHost # <<>> /\ Len(toHost) = 1
      BY HostFaulted DEF TurnInv, Waiting, TypeInv
    <2>2. toHost' = toHost \/ \E p \in Spoilt(Head(toHost)) : toHost' = <<p>>
      BY <2>1, HostFaulted DEF TypeInv
    <2>3. CASE toHost' = toHost
      BY <1>2, <2>1, <2>3 DEF NextBlock
    <2>4. ASSUME NEW p \in Spoilt(Head(toHost)), toHost' = <<p>>
          PROVE  Head(toHost').data[1] \in {At(flash[a], Len(got)), Garbage}
      <3>1. Head(toHost) \in Packets
        BY <2>1, HeadTailProperties DEF TypeInv, WireType, ToHostPackets
      <3>2. p.op = "DATA" /\ Head(toHost') = p
        BY <2>4
      <3>3. p # Noise
        BY <3>2 DEF Noise, Cmd, Packet
      <3>4. CASE Head(toHost).op = "DATA"
        <4>1. p = [Head(toHost) EXCEPT !.data = <<Garbage>>]
          BY <3>3, <3>4 DEF Spoilt, With
        <4>2. p.data = <<Garbage>>
          BY <3>1, <4>1 DEF Packets
        <4> QED BY <3>2, <4>2
      <3>5. CASE Head(toHost).op = "CRC"
        <4>1. p = [Head(toHost) EXCEPT !.data = <<Missing>>]
          BY <3>3, <3>5 DEF Spoilt, With
        <4>2. p.op = "CRC"
          BY <3>1, <3>5, <4>1 DEF Packets
        <4> QED BY <3>2, <4>2
      <3> QED BY <3>3, <3>4, <3>5 DEF Spoilt, With
    <2> QED BY <2>2, <2>3, <2>4
  <1>3. \A a : ReadFrom(a) => ReadFrom(a)'
    BY <1>0 DEF ReadFrom, hostVars, devVars, flashVars
  <1>4. NoGap' => NoGap
    BY <1>0 DEF NoGap, hostVars
  <1> QED BY <1>0, <1>1, <1>2, <1>3, <1>4
    DEF ReadInv, Tailing, hostVars, devVars, flashVars

LEMMA ReadInvNext ==
  TypeInv /\ TypeInv' /\ TurnInv /\ ReadInv /\ [Next]_vars => ReadInv'
  <1> SUFFICES ASSUME TypeInv, TypeInv', TurnInv, ReadInv, [Next]_vars
               PROVE  ReadInv'
    OBVIOUS
  <1>1. CASE \E r \in Targets : \E i \in ImagesFor(r) : StartFlash(r, i)
    BY <1>1, NotReading DEF StartFlash, Start
  <1>2. CASE \E r \in Sources : StartRead(r)
    BY <1>2, NotReading DEF StartRead, Start
  <1>3. CASE UNCHANGED vars
    BY <1>3 DEF vars, hostVars, devVars, flashVars, ReadInv, Reading, NoGap,
                ReadFrom, NextBlock, Tailing
  <1>4. CASE Restart
    <2>1. /\ UNCHANGED <<hostVars, late>> /\ flash' = flash /\ toHost' = toHost
          /\ dpc' = "run" /\ toDev' = <<>>
      BY <1>4 DEF Restart
    <2>2. <<>> \in Seq(Tailing)
      OBVIOUS
    <2> QED BY <2>1, <2>2, ReadKept
  <1> QED
    BY <1>1, <1>2, <1>3, <1>4, HostRead, DevRead, LineFaultRead DEF Next

-----------------------------------------------------------------------------
(* The invariant, and what it says.                                        *)

LEMMA InvInit == Init => Inv
  <1> SUFFICES ASSUME Init PROVE Inv
    OBVIOUS
  <1>1. TurnInv /\ SessionInv /\ OkInv /\ ReadInv
    BY DEF Init, TurnInv, Waiting, SessionInv, InTransfer, OkInv, ReadInv, Reading
  <1> QED BY <1>1, TypeInvInit DEF Inv

LEMMA InvNext == Inv /\ [Next]_vars => Inv'
  <1> SUFFICES ASSUME Inv, [Next]_vars PROVE Inv'
    OBVIOUS
  <1>1. TypeInv'
    BY TypeInvNext DEF Inv
  <1> QED
    BY <1>1, TurnInvNext, SessionInvNext, OkInvNext, ReadInvNext DEF Inv

LEMMA InvAlways == Spec => []Inv
  BY InvInit, InvNext, PTL DEF Spec

(* While a file is transferred the blocks the tool has had acknowledged lie *)
(* at the start of one area of the device, in order, each as sent or damaged*)
(* on the way, up to the first that came short (_data_phandler acknowledges *)
(* what the storage has written, however long it is): whatever the line     *)
(* does, a device that restarts, and a write that fails.                    *)
THEOREM AckedStored == Spec => []AckedIsStored
  <1>1. Inv => AckedIsStored
    <2> SUFFICES ASSUME Inv, hpc \in {"data", "crc"}, ~late,
                        NEW n, n = IF hpc = "crc" THEN NBlocks ELSE blk - 1
                 PROVE  \E a \in Areas : \A k \in 1..n :
                          InPlace(a, k) \/ \E j \in 1..k : CameShort(a, j)
      BY DEF AckedIsStored
    <2>1. PICK a \in Areas : Stored(a, Count)
      BY DEF Inv, SessionInv, InTransfer
    <2>2. Count \in Nat /\ n \in Nat /\ n <= Count /\ Len(flash[a]) \in Nat
      BY SizeAssumption, ContentsType
      DEF Inv, TypeInv, HostType, HostInv, DevType, Count
    <2>3. Stored(a, n)
      BY <2>1, <2>2, StoredShorter
    <2>4. ASSUME NEW k \in 1..n
          PROVE  InPlace(a, k) \/ \E j \in 1..k : CameShort(a, j)
      BY <2>2, <2>3, <2>4 DEF Stored, InPlace, CameShort
    <2> QED BY <2>4
  <1> QED BY <1>1, InvAlways, PTL

(* When flash_tool reports success the device holds the image, block by     *)
(* block, and its stored context vouches for it, unless it was reset before *)
(* it stored: the check of the crc closes every hole that damaged, lost,    *)
(* joined and repeated packets can open.                                    *)
THEOREM OkIsWritten == Spec => []OkMeansWritten
  <1>1. Inv => OkMeansWritten
    BY DEF Inv, OkInv, Accepted, OkMeansWritten
  <1> QED BY <1>1, InvAlways, PTL

(* A read-back in which no block is missing is the beginning of one SPI     *)
(* area, in order, each block as it is in flash or damaged on the way:      *)
(* comm_protocol_read_binary never looks at the number of a block, and does *)
(* not have to.                                                             *)
THEOREM ReadBackTrue == Spec => []ReadBackFaithful
  <1>1. Inv => ReadBackFaithful
    BY DEF Inv, ReadInv, Reading, NoGap, ReadFrom, ReadBackFaithful
  <1> QED BY <1>1, InvAlways, PTL
=============================================================================
