----------------------------- MODULE UartProtocol -----------------------------
(***************************************************************************)
(* The serial line between the main CPU and the application (protocol.c):  *)
(* the interrupt fills a ring buffer without looking at the reader, the    *)
(* main loop takes characters out of it and decodes one message at a time. *)
(* A character on the line is a byte with the number of the frame it       *)
(* belongs to, which only the properties look at.                          *)
(***************************************************************************)
EXTENDS Integers, SequencesExt

CONSTANTS
  RingSize,   \* RxBufSize
  BufSize     \* MsgBufSize

VARIABLES
  unread,     \* the characters of the ring from RxBufRd to RxBufWr
  overrun,    \* history: the ring was written over
  receiving,  \* State is COMM_WAIT_FOR_STOP
  buf,        \* MsgBuf
  wr,         \* MsgBufWr as an index
  offset,     \* offset: the character before was an escape
  checksum,   \* checksum: the sum of all characters but the last
  prev,       \* previous_char
  msgLen,     \* MsgLength
  msgCount,   \* MsgCount
  frame       \* history: the frame of the last start byte

decoder == <<receiving, wr, offset, checksum, prev, msgLen, msgCount, frame>>
protocolVars == <<unread, overrun, buf, decoder>>

Byte == 0..255
Start == 254              \* COMM_START_BYTE
Stop == 255               \* COMM_STOP_BYTE
Esc == 128                \* COMM_ESCAPE
Reserved == {Start, Stop, Esc}

ASSUME SizeAssumption == RingSize \in Nat \ {0} /\ BufSize \in Nat \ {0}

ProtocolInit ==
  /\ unread = <<>> /\ overrun = FALSE
  /\ receiving = FALSE
  /\ buf = [i \in 0..(BufSize - 1) |-> 0]
  /\ wr = 0 /\ offset = 0 /\ checksum = 0 /\ prev = 0
  /\ msgLen = 0 /\ msgCount = 0 /\ frame = 0

-----------------------------------------------------------------------------
(* PROTO_TX_SendMsg, and what the main CPU sends.                          *)

(* The checksum after each character: it is a byte.                        *)
Sums(s) ==
  LET sum[n \in 0..Len(s)] == IF n = 0 THEN 0 ELSE (sum[n - 1] + s[n]) % 256
  IN sum

Sum(s) == Sums(s)[Len(s)]

(* Fault: a stop byte in the data is sent as it is.                        *)
Escaped_Fault(c) == IF c \in Reserved \ {Stop} THEN <<Esc, c - Esc>> ELSE <<c>>

Escaped(c) == IF c \in Reserved THEN <<Esc, c - Esc>> ELSE <<c>>

Encode(data) ==
  <<Start>>
  \o FlattenSeq([i \in 1..Len(data) |-> Escaped(data[i])])
  \o Escaped(Sum(data)) \o <<Stop>>

-----------------------------------------------------------------------------
(* BOARD_MAINCPU_FLEXCOMM_IRQ: a write position that meets the read        *)
(* position makes the ring look empty.                                     *)
Receive(c) ==
  /\ IF Len(unread) < RingSize - 1
     THEN unread' = Append(unread, c) /\ UNCHANGED overrun
     ELSE unread' = <<>> /\ overrun' = TRUE
  /\ UNCHANGED <<buf, decoder>>

-----------------------------------------------------------------------------
(* One round of the loop of COMM_Protocol, by the character it takes.      *)

Skip(c) ==
  /\ ~receiving /\ c.char # Start
  /\ UNCHANGED <<buf, decoder>>

(* Fault: the sum of a frame that was cut off is kept.                     *)
Begin_Fault(c) ==
  /\ c.char = Start
  /\ receiving' = TRUE
  /\ wr' = 0 /\ offset' = 0 /\ prev' = 0 /\ msgLen' = 0
  /\ frame' = c.frame
  /\ UNCHANGED <<buf, checksum, msgCount>>

Begin(c) ==
  /\ c.char = Start
  /\ receiving' = TRUE
  /\ wr' = 0 /\ offset' = 0 /\ checksum' = 0 /\ prev' = 0 /\ msgLen' = 0
  /\ frame' = c.frame
  /\ UNCHANGED <<buf, msgCount>>

(* Whatever lies before the buffer, a frame without a character is none.   *)
Complete == wr >= 3 /\ checksum = buf[wr - 1]

End(c) ==
  /\ receiving /\ c.char = Stop
  /\ receiving' = FALSE
  /\ IF Complete
     THEN msgCount' = msgCount + 1 /\ msgLen' = wr - 1
     ELSE UNCHANGED <<msgCount, msgLen>>
  /\ UNCHANGED <<buf, wr, offset, checksum, prev, frame>>

Escape(c) ==
  /\ receiving /\ c.char = Esc
  /\ offset' = Esc
  /\ UNCHANGED <<buf, receiving, wr, checksum, prev, msgLen, msgCount, frame>>

(* Fault: the last place of the buffer is not kept free.                   *)
Store_Fault(c) ==
  /\ receiving /\ c.char \notin Reserved
  /\ LET char == (c.char + offset) % 256 IN
       /\ buf' = [buf EXCEPT ![wr] = char]
       /\ prev' = char
  /\ offset' = 0
  /\ checksum' = (checksum + prev) % 256
  /\ wr' = wr + 1
  /\ receiving' = (wr < BufSize)
  /\ UNCHANGED <<msgLen, msgCount, frame>>

Store(c) ==
  /\ receiving /\ c.char \notin Reserved
  /\ LET char == (c.char + offset) % 256 IN
       /\ buf' = [buf EXCEPT ![wr] = char]
       /\ prev' = char
  /\ offset' = 0
  /\ checksum' = (checksum + prev) % 256
  /\ IF wr < BufSize - 1
     THEN wr' = wr + 1 /\ UNCHANGED receiving
     ELSE receiving' = FALSE /\ UNCHANGED wr
  /\ UNCHANGED <<msgLen, msgCount, frame>>

(* No character is taken while a message waits for its handler.            *)
Decode ==
  /\ msgCount = 0 /\ unread # <<>>
  /\ LET c == Head(unread) IN
       Skip(c) \/ Begin(c) \/ End(c) \/ Escape(c) \/ Store(c)
  /\ unread' = Tail(unread)
  /\ UNCHANGED overrun

(* A start of the application.                                             *)
ProtocolReset ==
  /\ unread' = <<>>
  /\ receiving' = FALSE
  /\ buf' = [i \in 0..(BufSize - 1) |-> 0]
  /\ wr' = 0 /\ offset' = 0 /\ checksum' = 0 /\ prev' = 0
  /\ msgLen' = 0 /\ msgCount' = 0 /\ frame' = 0
  /\ UNCHANGED overrun

-----------------------------------------------------------------------------

(* Type correctness of the line: the decoder stays inside its buffer.      *)
ProtocolTypeOK ==
  /\ Len(unread) < RingSize
  /\ overrun \in BOOLEAN /\ receiving \in BOOLEAN
  /\ buf \in [0..(BufSize - 1) -> Byte]
  /\ wr \in 0..(BufSize - 1)
  /\ offset \in {0, Esc} /\ checksum \in Byte /\ prev \in Byte
  /\ msgLen \in 0..(BufSize - 2) /\ msgCount \in 0..1

=============================================================================
