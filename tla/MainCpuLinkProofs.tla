--------------------------- MODULE MainCpuLinkProofs ---------------------------
(***************************************************************************)
(* The link to the main CPU for every size of ring, buffer and blocks and  *)
(* any number of messages and faults:                                      *)
(*   - TypeCorrect and StructKept: no write leaves its structure;          *)
(*   - SwitchedInSync: flash, RAM and data map name one partition;         *)
(*   - AckedStored: what was acknowledged is still stored;                 *)
(*   - DeliveredAsSent: a frame becomes the message it was made of;        *)
(*   - LinkIsChannel: messages are not reordered, repeated or invented.    *)
(***************************************************************************)
EXTENDS MainCpuLink, FiniteSetTheorems, WellFoundedInduction, TLAPS

(* What the ring holds: characters that are bytes.                         *)
Chars == [char : Byte, frame : Nat]

(* The buffer has room for the longest array and its header: 550 bytes in  *)
(* the code.                                                               *)
BufferHoldsArray == BufSize > 5 + 255

LineType ==
  /\ unread \in Seq(Chars) /\ line \in Seq(Byte)
  /\ sent \in Seq(Messages)
  /\ ProtocolTypeOK

StoreType ==
  /\ edid \in [0..(StructSize - 1) -> Byte] /\ dpcd \in [0..(StructSize - 1) -> Byte]
  /\ test \in [1..5 -> Byte] /\ request \in 0..3

SwitchType ==
  /\ pc \in {"loop", "swap", "erase", "write", "assign"}
  /\ part \in 0..3 /\ ctxPart \in 0..3 /\ flashPart \in 0..3 /\ running \in 0..1

(* The inductive form of TypeOK and InsideStruct: what is on the line and  *)
(* in the blocks are bytes.                                                *)
TypeInv == BufferHoldsArray /\ LineType /\ StoreType /\ SwitchType

BufType == buf \in [0..(BufSize - 1) -> Byte]

LEMMA SizeFacts ==
  /\ Size \in Nat \ {0} /\ Half \in Nat \ {0} /\ StructSize \in Nat
  /\ StructSize = 3 * Size /\ BufSize \in Nat /\ RingSize \in Nat \ {0}
  BY LinkAssumption, SizeAssumption DEF StructSize

LEMMA ByteNat == \A x \in Byte : x \in Nat
  BY DEF Byte

-----------------------------------------------------------------------------
(* A frame and what is left of it.  Sums, frames and remainders are made   *)
(* step by step; what they are is shown by induction over the steps.       *)

(* What the decoder stores of a frame: the message and its checksum.       *)
Payload(m) == Append(m, Sum(m))

(* What is left of the frame of m when k characters of it are stored.      *)
Rest(m) ==
  LET left[j \in 0..(Len(m) + 1)] ==
        IF j = 0 THEN <<Stop>> ELSE Escaped(Payload(m)[Len(m) + 2 - j]) \o left[j - 1]
  IN [k \in 0..(Len(m) + 1) |-> left[Len(m) + 1 - k]]

(* Every set of numbers has a least one, by which a property of all        *)
(* prefixes is shown: the least prefix without it would have none before.  *)
LEMMA Least ==
  ASSUME NEW T, T \subseteq Nat, T # {}
  PROVE  \E n \in T : \A m \in T : n <= m
  <1> DEFINE Below(n) == 0..(n - 1)
             R == StrictSubsetOrdering(Nat)
             U == {Below(n) : n \in T}
  <1>1. \A n \in Nat : Below(n) \in FiniteSubsetsOf(Nat)
    <2> SUFFICES ASSUME NEW n \in Nat PROVE Below(n) \in FiniteSubsetsOf(Nat)
      OBVIOUS
    <2>1. IsFiniteSet(Below(n))
      BY FS_Interval
    <2>2. Below(n) \in SUBSET Nat
      OBVIOUS
    <2> QED BY <2>1, <2>2 DEF FiniteSubsetsOf
  <1>2. IsWellFoundedOn(R, FiniteSubsetsOf(Nat))
    BY FS_StrictSubsetOrderingWellFounded
  <1>3. \A m, n \in Nat : m < n => <<Below(m), Below(n)>> \in R
    <2> SUFFICES ASSUME NEW m \in Nat, NEW n \in Nat, m < n
                 PROVE  <<Below(m), Below(n)>> \in R
      OBVIOUS
    <2>1. Below(m) \in SUBSET Nat /\ Below(n) \in SUBSET Nat
      OBVIOUS
    <2>2. Below(m) \subseteq Below(n) /\ m \in Below(n) /\ m \notin Below(m)
      OBVIOUS
    <2> QED BY <2>1, <2>2 DEF StrictSubsetOrdering
  <1> HIDE DEF Below, R
  <1>4. U \subseteq FiniteSubsetsOf(Nat) /\ U # {}
    BY <1>1
  <1>5. PICK x \in U : \A y \in U : ~ (<<y, x>> \in R)
    <2> HIDE DEF U
    <2> QED BY <1>2, <1>4, WFMin
  <1>6. PICK n \in T : x = Below(n)
    OBVIOUS
  <1>7. \A m \in T : ~(m < n)
    BY <1>3, <1>5, <1>6
  <1> QED BY <1>7

(* Induction up to a bound, over the set of the numbers that are good.     *)
LEMMA UpTo ==
  ASSUME NEW L \in Nat, NEW G, 0 \in G, \A n \in Nat : n < L /\ n \in G => n + 1 \in G
  PROVE  \A n \in 0..L : n \in G
  <1> DEFINE T == (0..L) \ G
  <1>1. SUFFICES ASSUME T # {} PROVE FALSE
    OBVIOUS
  <1>2. PICK n \in T : \A k \in T : n <= k
    <2>1. T \subseteq Nat
      OBVIOUS
    <2> HIDE DEF T
    <2> QED BY <1>1, <2>1, Least
  <1>3. n - 1 \in Nat /\ n - 1 < L /\ n - 1 \in G /\ n = (n - 1) + 1
    BY <1>2
  <1> QED BY <1>2, <1>3

(* A function that is computed step by step exists, and there is one.      *)
Closed(step, L, A) == \A i \in 1..L : \A x \in A : step[i][x] \in A
Follows(f, step, L, A, base) ==
  /\ \A i \in 0..L : f[i] \in A
  /\ f[0] = base /\ \A i \in 1..L : f[i] = step[i][f[i - 1]]
Alike(f, g, L) == f[0] = g[0] /\ \A i \in 1..L : f[i - 1] = g[i - 1] => f[i] = g[i]

(* It exists: a prefix of it can always be made one longer.                *)
LEMMA StepByStep ==
  ASSUME NEW L \in Nat, NEW A, NEW base \in A, NEW step, Closed(step, L, A)
  PROVE  \E f : Follows(f, step, L, A, base)
  <1> DEFINE G == {n \in Nat : n <= L => \E f : Follows(f, step, n, A, base)}
  <1>1. 0 \in G
    <2>1. Follows([i \in 0..0 |-> base], step, 0, A, base)
      BY DEF Follows
    <2> QED BY <2>1
  <1>2. ASSUME NEW n \in Nat, n < L, n \in G PROVE n + 1 \in G
    <2>1. PICK f : Follows(f, step, n, A, base)
      BY <1>2
    <2> DEFINE last == step[n + 1][f[n]]
               g == [i \in 0..(n + 1) |-> IF i <= n THEN f[i] ELSE last]
    <2>2. last \in A
      <3>1. n + 1 \in 1..L /\ f[n] \in A
        BY <1>2, <2>1 DEF Follows
      <3> QED BY <3>1 DEF Closed
    <2>3. g[n + 1] = last /\ \A i \in 0..n : g[i] = f[i]
      OBVIOUS
    <2> HIDE DEF g
    <2>4. \A i \in 0..(n + 1) : g[i] \in A
      <3>1. \A i \in 0..n : g[i] \in A
        BY <2>1, <2>3 DEF Follows
      <3> QED BY <2>2, <2>3, <3>1
    <2>5. ASSUME NEW i \in 1..(n + 1) PROVE g[i] = step[i][g[i - 1]]
      <3>1. CASE i = n + 1
        BY <2>3, <3>1
      <3>2. CASE i \in 1..n
        BY <2>1, <2>3, <3>2 DEF Follows
      <3> QED BY <3>1, <3>2
    <2>6. g[0] = base
      BY <2>1, <2>3 DEF Follows
    <2>7. Follows(g, step, n + 1, A, base)
      BY <2>4, <2>5, <2>6 DEF Follows
    <2> QED BY <2>7
  <1>3. L \in G
    <2>1. \A n \in Nat : n < L /\ n \in G => n + 1 \in G
      BY <1>2
    <2>2. L \in 0..L
      OBVIOUS
    <2> HIDE DEF G
    <2> QED BY <1>1, <2>1, <2>2, UpTo
  <1> QED BY <1>3

(* There is only one.                                                      *)
LEMMA SameSteps ==
  ASSUME NEW L \in Nat, NEW f, NEW g, Alike(f, g, L)
  PROVE  \A n \in 0..L : f[n] = g[n]
  <1> DEFINE G == {n \in Nat : n <= L => f[n] = g[n]}
  <1>1. 0 \in G
    BY DEF Alike
  <1>2. ASSUME NEW n \in Nat, n < L, n \in G PROVE n + 1 \in G
    <2>1. n + 1 \in 1..L /\ (n + 1) - 1 = n
      BY <1>2
    <2>2. f[n] = g[n]
      BY <1>2
    <2>3. f[(n + 1) - 1] = g[(n + 1) - 1]
      BY <2>1, <2>2
    <2>4. f[n + 1] = g[n + 1]
      BY <2>1, <2>3 DEF Alike
    <2> QED BY <1>2, <2>4
  <1>3. \A n \in 0..L : n \in G
    <2>1. \A n \in Nat : n < L /\ n \in G => n + 1 \in G
      BY <1>2
    <2> HIDE DEF G
    <2> QED BY <1>1, <2>1, UpTo
  <1> QED BY <1>3

LEMMA ModByte == \A x \in Int : x % 256 \in Byte
  BY DEF Byte

(* The sum after each character of a message.                              *)
LEMMA SumsFacts ==
  ASSUME NEW m \in Seq(Byte)
  PROVE  /\ Sums(m) \in [0..Len(m) -> Byte] /\ Sums(m)[0] = 0
         /\ \A k \in 1..Len(m) : Sums(m)[k] = (Sums(m)[k - 1] + m[k]) % 256
  <1> DEFINE L == Len(m)
             step == [i \in 1..L |-> [x \in Byte |-> (x + m[i]) % 256]]
  <1>1. L \in Nat /\ \A i \in 1..L : m[i] \in Byte
    OBVIOUS
  <1>2. Closed(step, L, Byte)
    BY <1>1, ByteNat, ModByte DEF Closed
  <1>3. PICK f : Follows(f, step, L, Byte, 0)
    <2>1. 0 \in Byte
      BY DEF Byte
    <2> HIDE DEF step, L
    <2> QED BY <1>1, <1>2, <2>1, StepByStep
  <1>4. f[0] = 0 /\ \A i \in 0..L : f[i] \in Byte
    BY <1>3 DEF Follows
  <1>5. \A i \in 1..L : f[i] = (f[i - 1] + m[i]) % 256
    <2> SUFFICES ASSUME NEW i \in 1..L PROVE f[i] = (f[i - 1] + m[i]) % 256
      OBVIOUS
    <2>1. i - 1 \in 0..L
      BY <1>1
    <2>2. f[i - 1] \in Byte
      BY <1>4, <2>1
    <2>3. f[i] = step[i][f[i - 1]]
      BY <1>3 DEF Follows
    <2>4. \A x \in Byte : step[i][x] = (x + m[i]) % 256
      OBVIOUS
    <2> HIDE DEF step
    <2> QED BY <2>2, <2>3, <2>4
  <1> HIDE DEF step
  <1> DEFINE g == [i \in 0..L |-> f[i]]
  <1>6. g = [n \in 0..L |-> IF n = 0 THEN 0 ELSE (g[n - 1] + m[n]) % 256]
    BY <1>1, <1>4, <1>5
  <1>7. Sums(m) = [n \in 0..L |-> IF n = 0 THEN 0 ELSE (Sums(m)[n - 1] + m[n]) % 256]
    <2> HIDE DEF g
    <2> QED BY <1>6 DEF Sums
  <1>8. \A n \in 0..L : f[n] = Sums(m)[n]
    <2>1. f[0] = Sums(m)[0]
      BY <1>1, <1>4, <1>7
    <2>2. \A i \in 1..L : f[i - 1] = Sums(m)[i - 1] => f[i] = Sums(m)[i]
      BY <1>1, <1>5, <1>7
    <2>3. Alike(f, Sums(m), L)
      BY <2>1, <2>2 DEF Alike
    <2> HIDE DEF L
    <2> QED BY <1>1, <2>3, SameSteps
  <1>9. Sums(m) \in [0..L -> Byte]
    BY <1>1, <1>4, <1>7, <1>8
  <1> QED BY <1>1, <1>7, <1>9

(* Words of characters, one after the other.                               *)
Then(s, t) == s \o t

LEMMA GlueType ==
  ASSUME NEW s \in Seq(Byte), NEW t \in Seq(Byte)
  PROVE  /\ Then(s, t) \in Seq(Byte) /\ Len(Then(s, t)) = Len(s) + Len(t)
         /\ Then(<<>>, s) = s
  BY DEF Then

LEMMA Glue ==
  ASSUME NEW s \in Seq(Byte), NEW t \in Seq(Byte), NEW u \in Seq(Byte)
  PROVE  Then(Then(s, t), u) = Then(s, Then(t, u))
  BY DEF Then

LEMMA CodesType == Start \in Byte /\ Stop \in Byte /\ Esc \in Byte
  BY DEF Start, Stop, Esc, Byte

LEMMA EscapedType == \A c \in Byte : Escaped(c) \in Seq(Byte)
  <1> SUFFICES ASSUME NEW c \in Byte PROVE Escaped(c) \in Seq(Byte)
    OBVIOUS
  <1>1. c \in Reserved => c - Esc \in Byte
    BY DEF Reserved, Start, Stop, Esc, Byte
  <1>2. CASE c \in Reserved
    BY <1>1, <1>2, CodesType DEF Escaped
  <1>3. CASE c \notin Reserved
    BY <1>3 DEF Escaped
  <1> QED BY <1>2, <1>3

(* The decoder stores the message and, last, its checksum.                 *)
LEMMA PayloadFacts ==
  ASSUME NEW m \in Seq(Byte)
  PROVE  /\ Payload(m) \in Seq(Byte) /\ Len(Payload(m)) = Len(m) + 1
         /\ \A i \in 1..Len(m) : Payload(m)[i] = m[i]
         /\ Payload(m)[Len(m) + 1] = Sums(m)[Len(m)]
  <1>1. Sum(m) \in Byte /\ Sum(m) = Sums(m)[Len(m)]
    BY SumsFacts DEF Sum
  <1> QED BY <1>1 DEF Payload

(* The characters of a message, escaped, up to each of them.               *)
LEMMA FlattenFacts ==
  ASSUME NEW m \in Seq(Byte)
  PROVE  \E f : /\ \A i \in 0..Len(m) : f[i] \in Seq(Byte)
                /\ f[0] = <<>> /\ \A i \in 1..Len(m) : f[i] = Then(f[i - 1], Escaped(m[i]))
                /\ FlattenSeq([i \in 1..Len(m) |-> Escaped(m[i])]) = f[Len(m)]
  <1> DEFINE L == Len(m)
             W == Seq(Byte)
             none == <<>>
             words == [i \in 1..L |-> Escaped(m[i])]
             step == [i \in 1..L |-> [x \in W |-> Then(x, words[i])]]
  <1>1. L \in Nat /\ \A i \in 1..L : m[i] \in Byte /\ words[i] \in W
    BY EscapedType
  <1>2. Closed(step, L, W)
    <2> SUFFICES ASSUME NEW i \in 1..L, NEW x \in W PROVE step[i][x] \in W
      BY DEF Closed
    <2>1. words[i] \in W
      BY <1>1
    <2>2. Then(x, words[i]) \in W
      <3> HIDE DEF words
      <3> QED BY <2>1, GlueType
    <2> QED BY <2>2
  <1>3. PICK f : Follows(f, step, L, W, none)
    <2>1. none \in W
      OBVIOUS
    <2> HIDE DEF step, L, W, none
    <2> QED BY <1>1, <1>2, <2>1, StepByStep
  <1>4. f[0] = <<>> /\ \A i \in 0..L : f[i] \in W
    BY <1>3 DEF Follows
  <1>5. \A i \in 1..L : f[i] = Then(f[i - 1], words[i])
    <2> SUFFICES ASSUME NEW i \in 1..L PROVE f[i] = Then(f[i - 1], words[i])
      OBVIOUS
    <2>1. f[i - 1] \in W
      BY <1>1, <1>4
    <2>2. f[i] = step[i][f[i - 1]]
      BY <1>3 DEF Follows
    <2>3. \A x \in W : step[i][x] = Then(x, words[i])
      OBVIOUS
    <2> HIDE DEF step
    <2> QED BY <2>1, <2>2, <2>3
  <1>6. \A i \in 1..L : words[i] = Escaped(m[i])
    OBVIOUS
  <1>7. FlattenSeq(words) = f[L]
    <2>1. Len(words) = L /\ DOMAIN words = 1..L
      BY <1>1
    <2>2. CASE L = 0
      <3>1. words = <<>>
        BY <2>1, <2>2
      <3> QED BY <1>4, <2>1, <2>2, <3>1 DEF FlattenSeq
    <2>3. CASE L # 0
      <3> DEFINE flatten == CHOOSE flatten : flatten = [i \in 1..L |->
                              IF i = 1 THEN words[i] ELSE flatten[i - 1] \o words[i]]
                 g == [i \in 1..L |-> f[i]]
      <3>1. FlattenSeq(words) = flatten[L]
        <4> HIDE DEF words
        <4> QED BY <2>1, <2>3 DEF FlattenSeq
      <3> HIDE DEF words
      <3>2. g = [i \in 1..L |-> IF i = 1 THEN words[i] ELSE g[i - 1] \o words[i]]
        <4>1. f[1] = words[1]
          <5>1. 1 \in 1..L /\ f[1] = Then(f[0], words[1]) /\ words[1] \in W
            BY <1>1, <1>5, <2>3
          <5> QED BY <1>4, <5>1, GlueType
        <4>2. ASSUME NEW i \in 1..L
              PROVE  g[i] = IF i = 1 THEN words[i] ELSE g[i - 1] \o words[i]
          <5>1. CASE i = 1
            BY <4>1, <5>1
          <5>2. CASE i # 1
            <6>1. i - 1 \in 1..L
              BY <1>1, <5>2
            <6>2. g[i] = f[i] /\ g[i - 1] = f[i - 1]
              BY <6>1
            <6>3. f[i] = f[i - 1] \o words[i]
              BY <1>5 DEF Then
            <6> QED BY <5>2, <6>2, <6>3
          <5> QED BY <5>1, <5>2
        <4> QED BY <4>2
      <3>3. flatten = [i \in 1..L |-> IF i = 1 THEN words[i] ELSE flatten[i - 1] \o words[i]]
        <4> HIDE DEF g
        <4> QED BY <3>2
      <3> HIDE DEF flatten
      <3> DEFINE h == [i \in 0..L |-> IF i = 0 THEN none ELSE flatten[i]]
      <3>4. Alike(f, h, L)
        <4>1. f[0] = h[0]
          BY <1>1, <1>4
        <4>2. ASSUME NEW i \in 1..L, f[i - 1] = h[i - 1] PROVE f[i] = h[i]
          <5>1. CASE i = 1
            <6>1. words[1] \in W /\ f[1] = Then(f[0], words[1])
              BY <1>1, <1>5, <2>3
            <6>2. f[1] = words[1]
              BY <1>4, <6>1, GlueType
            <6> QED BY <1>1, <2>3, <3>3, <5>1, <6>2
          <5>2. CASE i # 1
            <6>1. h[i - 1] = flatten[i - 1] /\ flatten[i] = flatten[i - 1] \o words[i]
              <7>1. i - 1 \in 0..L /\ i - 1 # 0
                BY <1>1, <5>2
              <7>2. h[i - 1] = flatten[i - 1]
                BY <7>1
              <7> QED BY <3>3, <5>2, <7>2
            <6>2. f[i] = f[i - 1] \o words[i]
              BY <1>5 DEF Then
            <6>3. h[i] = flatten[i]
              BY <1>1
            <6> QED BY <4>2, <6>1, <6>2, <6>3
          <5> QED BY <5>1, <5>2
        <4> HIDE DEF h
        <4> QED BY <4>1, <4>2 DEF Alike
      <3>5. f[L] = h[L]
        <4>1. L \in 0..L
          BY <1>1
        <4> HIDE DEF h, L
        <4> QED BY <1>1, <3>4, <4>1, SameSteps
      <3> QED BY <1>1, <2>3, <3>1, <3>5
    <2> QED BY <2>2, <2>3
  <1> HIDE DEF words
  <1> QED BY <1>4, <1>5, <1>6, <1>7 DEF words

(* What is left of a frame, one character less at a time.                  *)
LEMMA RestFacts ==
  ASSUME NEW m \in Seq(Byte)
  PROVE  /\ \A k \in 0..(Len(m) + 1) : Rest(m)[k] \in Seq(Byte)
         /\ Rest(m)[Len(m) + 1] = <<Stop>>
         /\ \A k \in 0..Len(m) :
              Rest(m)[k] = Then(Escaped(Payload(m)[k + 1]), Rest(m)[k + 1])
  <1> DEFINE L == Len(m) + 1
             W == Seq(Byte)
             stop == <<Stop>>
             words == [i \in 1..L |-> Escaped(Payload(m)[Len(m) + 2 - i])]
             step == [i \in 1..L |-> [x \in W |-> Then(words[i], x)]]
  <1>1. L \in Nat /\ L = Len(m) + 1 /\ Len(m) \in Nat
    OBVIOUS
  <1>2. \A i \in 1..L : words[i] \in W
    <2> SUFFICES ASSUME NEW i \in 1..L PROVE words[i] \in W
      OBVIOUS
    <2>1. Len(m) + 2 - i \in 1..(Len(m) + 1)
      BY <1>1
    <2>2. Payload(m)[Len(m) + 2 - i] \in Byte
      <3>1. \A k \in 1..(Len(m) + 1) : Payload(m)[k] \in Byte
        BY PayloadFacts
      <3> QED BY <2>1, <3>1
    <2> QED BY <2>2, EscapedType
  <1>3. Closed(step, L, W)
    <2> SUFFICES ASSUME NEW i \in 1..L, NEW x \in W PROVE step[i][x] \in W
      BY DEF Closed
    <2>1. words[i] \in W
      BY <1>2
    <2>2. Then(words[i], x) \in W
      <3> HIDE DEF words
      <3> QED BY <2>1, GlueType
    <2> QED BY <2>2
  <1>4. PICK f : Follows(f, step, L, W, stop)
    <2>1. stop \in W
      BY CodesType
    <2> HIDE DEF step, L, W, stop
    <2> QED BY <1>1, <1>3, <2>1, StepByStep
  <1>5. f[0] = stop /\ \A i \in 0..L : f[i] \in W
    BY <1>4 DEF Follows
  <1>6. \A i \in 1..L : f[i] = Then(words[i], f[i - 1])
    <2> SUFFICES ASSUME NEW i \in 1..L PROVE f[i] = Then(words[i], f[i - 1])
      OBVIOUS
    <2>1. f[i - 1] \in W
      BY <1>1, <1>5
    <2>2. f[i] = step[i][f[i - 1]]
      BY <1>4 DEF Follows
    <2>3. \A x \in W : step[i][x] = Then(words[i], x)
      OBVIOUS
    <2> HIDE DEF step
    <2> QED BY <2>1, <2>2, <2>3
  <1> DEFINE left == CHOOSE left : left = [j \in 0..(Len(m) + 1) |->
                       IF j = 0 THEN <<Stop>>
                       ELSE Escaped(Payload(m)[Len(m) + 2 - j]) \o left[j - 1]]
             g == [i \in 0..L |-> f[i]]
  <1>7. Rest(m) = [k \in 0..(Len(m) + 1) |-> left[Len(m) + 1 - k]]
    BY DEF Rest
  <1>8. g = [j \in 0..(Len(m) + 1) |->
               IF j = 0 THEN <<Stop>> ELSE Escaped(Payload(m)[Len(m) + 2 - j]) \o g[j - 1]]
    <2>1. ASSUME NEW j \in 0..L
          PROVE  g[j] = IF j = 0 THEN <<Stop>>
                        ELSE Escaped(Payload(m)[Len(m) + 2 - j]) \o g[j - 1]
      <3>1. CASE j = 0
        BY <1>5, <3>1
      <3>2. CASE j # 0
        <4>1. j \in 1..L /\ j - 1 \in 0..L
          BY <1>1, <3>2
        <4>2. g[j] = f[j] /\ g[j - 1] = f[j - 1]
          BY <4>1
        <4>3. f[j] = Escaped(Payload(m)[Len(m) + 2 - j]) \o f[j - 1]
          BY <1>6, <4>1 DEF Then
        <4> QED BY <3>2, <4>2, <4>3
      <3> QED BY <3>1, <3>2
    <2> QED BY <2>1
  <1>9. left = [j \in 0..(Len(m) + 1) |->
                  IF j = 0 THEN <<Stop>> ELSE Escaped(Payload(m)[Len(m) + 2 - j]) \o left[j - 1]]
    <2> HIDE DEF g
    <2> QED BY <1>8
  <1> HIDE DEF left
  <1>10. \A i \in 1..L : words[i] = Escaped(Payload(m)[Len(m) + 2 - i])
    OBVIOUS
  <1>11. left[0] = stop /\ \A i \in 1..L : left[i] = Then(words[i], left[i - 1])
    <2>1. left[0] = stop
      BY <1>1, <1>9
    <2>2. ASSUME NEW i \in 1..L PROVE left[i] = Then(words[i], left[i - 1])
      <3>1. i \in 0..(Len(m) + 1) /\ i # 0
        BY <1>1
      <3>2. left[i] = Escaped(Payload(m)[Len(m) + 2 - i]) \o left[i - 1]
        BY <1>9, <3>1
      <3>3. words[i] = Escaped(Payload(m)[Len(m) + 2 - i])
        BY <1>10
      <3> HIDE DEF words
      <3> QED BY <3>2, <3>3 DEF Then
    <2> QED BY <2>1, <2>2
  <1> HIDE DEF words, step
  <1>12. \A n \in 0..L : f[n] = left[n]
    <2>1. Alike(f, left, L)
      BY <1>5, <1>6, <1>11 DEF Alike
    <2> HIDE DEF L
    <2> QED BY <1>1, <2>1, SameSteps
  <1>13. \A k \in 0..L : Rest(m)[k] = f[L - k]
    <2> SUFFICES ASSUME NEW k \in 0..L PROVE Rest(m)[k] = f[L - k]
      OBVIOUS
    <2>1. L - k \in 0..L
      BY <1>1
    <2>2. Rest(m)[k] = left[L - k]
      BY <1>7
    <2> QED BY <1>12, <2>1, <2>2
  <1>14. \A k \in 0..L : Rest(m)[k] \in W
    BY <1>1, <1>5, <1>13
  <1>15. Rest(m)[Len(m) + 1] = <<Stop>>
    BY <1>1, <1>5, <1>13
  <1>16. ASSUME NEW k \in 0..Len(m)
         PROVE  Rest(m)[k] = Then(Escaped(Payload(m)[k + 1]), Rest(m)[k + 1])
    <2>1. /\ L - k \in 1..L /\ (L - k) - 1 = L - (k + 1) /\ k \in 0..L /\ k + 1 \in 0..L
          /\ Len(m) + 2 - (L - k) = k + 1
      BY <1>1
    <2>2. f[L - k] = Then(words[L - k], f[(L - k) - 1])
      BY <1>6, <2>1
    <2>3. words[L - k] = Escaped(Payload(m)[k + 1])
      BY <1>10, <2>1
    <2>4. f[(L - k) - 1] = Rest(m)[k + 1]
      BY <1>13, <2>1
    <2>5. Rest(m)[k] = f[L - k]
      BY <1>13, <2>1
    <2> QED BY <2>2, <2>3, <2>4, <2>5
  <1> QED BY <1>14, <1>15, <1>16

(* A frame is a start byte and the rest.                                   *)
LEMMA EncodeFacts ==
  ASSUME NEW m \in Seq(Byte)
  PROVE  Encode(m) = Then(<<Start>>, Rest(m)[0]) /\ Encode(m) \in Seq(Byte)
  <1> DEFINE L == Len(m)
             body == FlattenSeq([i \in 1..Len(m) |-> Escaped(m[i])])
             rest == Rest(m)
             start == <<Start>>
             stop == <<Stop>>
             sum == Escaped(Sum(m))
  <1>1. PICK f : /\ \A i \in 0..L : f[i] \in Seq(Byte)
                 /\ f[0] = <<>> /\ \A i \in 1..L : f[i] = Then(f[i - 1], Escaped(m[i]))
                 /\ body = f[L]
    BY FlattenFacts
  <1>2. /\ L \in Nat /\ start \in Seq(Byte) /\ stop \in Seq(Byte) /\ sum \in Seq(Byte)
        /\ \A i \in 1..L : Escaped(m[i]) \in Seq(Byte) /\ Payload(m)[i] = m[i]
        /\ Escaped(Payload(m)[L + 1]) = sum
    <2>1. start \in Seq(Byte) /\ stop \in Seq(Byte) /\ L \in Nat
      BY CodesType
    <2>2. Sum(m) \in Byte /\ Payload(m)[L + 1] = Sum(m)
      BY SumsFacts, PayloadFacts DEF Sum
    <2>3. \A i \in 1..L : m[i] \in Byte
      OBVIOUS
    <2> QED BY <2>1, <2>2, <2>3, EscapedType, PayloadFacts
  <1>3. /\ \A k \in 0..(L + 1) : rest[k] \in Seq(Byte)
        /\ rest[L + 1] = stop
        /\ \A k \in 0..L : rest[k] = Then(Escaped(Payload(m)[k + 1]), rest[k + 1])
    BY RestFacts
  <1>4. Encode(m) = Then(Then(Then(start, body), sum), stop)
    BY DEF Encode, Then
  <1> HIDE DEF body, rest, start, stop, sum
  <1>5. \A k \in 0..L : Then(f[k], rest[k]) = rest[0]
    <2> DEFINE G == {k \in Nat : k <= L => Then(f[k], rest[k]) = rest[0]}
    <2>1. 0 \in G
      <3>1. rest[0] \in Seq(Byte)
        BY <1>2, <1>3
      <3>2. Then(<<>>, rest[0]) = rest[0]
        BY <3>1, GlueType
      <3> QED BY <1>1, <3>2
    <2>2. ASSUME NEW k \in Nat, k < L, k \in G PROVE k + 1 \in G
      <3>1. k \in 0..L /\ k + 1 \in 1..L /\ k + 1 \in 0..(L + 1) /\ (k + 1) - 1 = k
        BY <1>2, <2>2
      <3>2. rest[k] = Then(Escaped(m[k + 1]), rest[k + 1])
        BY <1>2, <1>3, <3>1
      <3>3. f[k + 1] = Then(f[k], Escaped(m[k + 1]))
        BY <1>1, <3>1
      <3>4. f[k] \in Seq(Byte) /\ Escaped(m[k + 1]) \in Seq(Byte) /\ rest[k + 1] \in Seq(Byte)
        BY <1>1, <1>2, <1>3, <3>1
      <3>5. Then(f[k + 1], rest[k + 1]) = Then(f[k], rest[k])
        <4>1. PICK a \in Seq(Byte), b \in Seq(Byte), c \in Seq(Byte) :
                a = f[k] /\ b = Escaped(m[k + 1]) /\ c = rest[k + 1]
          BY <3>4
        <4>2. Then(Then(a, b), c) = Then(a, Then(b, c))
          BY Glue
        <4> QED BY <3>2, <3>3, <4>1, <4>2
      <3>6. Then(f[k], rest[k]) = rest[0]
        BY <2>2
      <3> QED BY <3>5, <3>6
    <2>3. \A k \in Nat : k < L /\ k \in G => k + 1 \in G
      BY <2>2
    <2>4. \A k \in 0..L : k \in G
      <3> HIDE DEF G, L
      <3> QED BY <1>2, <2>1, <2>3, UpTo
    <2> QED BY <2>4
  <1>6. Then(body, rest[L]) = rest[0] /\ rest[L] = Then(sum, stop) /\ body \in Seq(Byte)
    <2>1. L \in 0..L
      BY <1>2
    <2> QED BY <1>1, <1>2, <1>3, <1>5, <2>1
  <1>7. Then(sum, stop) \in Seq(Byte) /\ Then(start, body) \in Seq(Byte)
    BY <1>2, <1>6, GlueType
  <1>8. Then(Then(Then(start, body), sum), stop) = Then(Then(start, body), Then(sum, stop))
    BY <1>2, <1>7, Glue
  <1>9. Then(Then(start, body), Then(sum, stop)) = Then(start, Then(body, Then(sum, stop)))
    BY <1>2, <1>6, <1>7, Glue
  <1>10. Encode(m) = Then(start, rest[0])
    BY <1>4, <1>6, <1>8, <1>9
  <1>11. rest[0] \in Seq(Byte)
    BY <1>2, <1>3
  <1>12. Encode(m) \in Seq(Byte)
    <2>1. PICK r \in Seq(Byte) : r = rest[0]
      BY <1>11
    <2>2. start \in Seq(Byte)
      BY <1>2
    <2>3. Then(start, r) \in Seq(Byte)
      BY <2>2, GlueType
    <2> QED BY <1>10, <2>1, <2>3
  <1> QED BY <1>10, <1>12 DEF rest, start

-----------------------------------------------------------------------------
(* The cells an array command names.                                       *)
LEMMA TargetNat ==
  ASSUME NEW id \in Edids \cup Dpcds, NEW off \in Byte
  PROVE  Target(id, off) \in Nat
  <1>1. BlockOf(id) \in 0..2
    BY DEF BlockOf, Edids, Dpcds
  <1>2. off * Half \in Nat /\ BlockOf(id) * Size \in Nat
    BY <1>1, SizeFacts DEF Byte
  <1> QED BY <1>2 DEF Target

(* Answers are made in the message buffer.                                 *)
LEMMA StampType ==
  ASSUME BufferHoldsArray, BufType, NEW x \in Byte, NEW k \in 0..9
  PROVE  [buf EXCEPT ![k] = x] \in [0..(BufSize - 1) -> Byte]
  BY DEF BufType

LEMMA AnswerBuf == ASSUME NEW f, NEW n, Answer(f, n) PROVE buf' = f
  BY DEF Answer

LEMMA NackType ==
  ASSUME BufferHoldsArray, BufType, NEW code \in Byte, Nack(code) PROVE BufType'
  <1>1. buf' = [buf EXCEPT ![1] = NACK, ![2] = code]
    BY AnswerBuf DEF Nack
  <1>2. NACK \in Byte
    BY DEF NACK, Byte
  <1> QED BY <1>1, <1>2 DEF BufType

LEMMA WrittenType ==
  ASSUME BufferHoldsArray, BufType, NEW ok, Written(ok) PROVE BufType'
  <1>1. buf' = [buf EXCEPT ![2] = IF ok THEN 1 ELSE 0]
    BY AnswerBuf DEF Written
  <1>2. (IF ok THEN 1 ELSE 0) \in Byte
    BY DEF Byte
  <1> QED BY <1>1, <1>2, StampType DEF BufType

LEMMA BytesType ==
  ASSUME BufferHoldsArray, BufType, NEW n \in Nat, NEW bytes,
         \A i \in 0..(n - 1) : bytes[i] \in Byte, AnswerBytes(n, bytes)
  PROVE  BufType'
  BY SizeFacts DEF BufferHoldsArray, BufType, AnswerBytes, Answer

LEMMA HeaderType ==
  ASSUME BufferHoldsArray, BufType
  PROVE  \A i \in 0..9 : buf[i] \in Byte
  BY SizeFacts DEF BufferHoldsArray, BufType

(* An array read takes its bytes from inside the structure.                *)
LEMMA ArrayReplyType ==
  ASSUME BufferHoldsArray, BufType, StoreType, ArrayReadReply
  PROVE  BufType'
  <1>1. Id \in Byte /\ buf[3] \in Byte /\ Len3 \in Byte /\ Len3 \in Nat
    BY HeaderType DEF Id, Len3, Byte
  <1>2. CASE Id \in Edids \cup Dpcds /\ FitsRead(Id, buf[3], Len3)
    <2>1. AnswerBytes(Len3, [i \in 0..(Len3 - 1) |-> edid[Target(Id, buf[3]) + i]])
      BY <1>2 DEF ArrayReadReply, Edids, Dpcds, Versions
    <2>2. Target(Id, buf[3]) \in Nat /\ Target(Id, buf[3]) + Len3 <= StructSize
      BY <1>1, <1>2, TargetNat DEF FitsRead
    <2>3. \A i \in 0..(Len3 - 1) : edid[Target(Id, buf[3]) + i] \in Byte
      BY <1>1, <2>2, SizeFacts DEF StoreType
    <2> QED BY <1>1, <2>1, <2>3, BytesType
  <1>3. CASE AnswerBytes(Len3, Zeros)
    <2>1. \A i \in 0..(Len3 - 1) : Zeros[i] \in Byte
      <3>1. \A i \in 0..(BufSize - 1) : Zeros[i] = 0
        BY DEF Zeros
      <3>2. 0..(Len3 - 1) \subseteq 0..(BufSize - 1)
        BY <1>1, SizeFacts DEF BufferHoldsArray, Byte
      <3> QED BY <3>1, <3>2 DEF Byte
    <2> QED BY <1>1, <1>3, <2>1, BytesType
  <1>4. CASE Answer([buf EXCEPT ![2] = 0], 3) \/ Answer(buf, 2)
    <2>1. buf' = [buf EXCEPT ![2] = 0] \/ buf' = buf
      BY <1>4, AnswerBuf
    <2>2. 0 \in Byte /\ 2 \in 0..9
      BY DEF Byte
    <2> QED BY <2>1, <2>2, StampType DEF BufType
  <1> QED BY <1>2, <1>3, <1>4 DEF ArrayReadReply

LEMMA ArrayReadType ==
  ASSUME BufferHoldsArray, BufType, StoreType, NEW len, ArrayRead(len)
  PROVE  BufType'
  <1>1. Len3 \in Byte /\ Len3 \in Nat
    BY HeaderType DEF Len3, Byte
  <1>2. CASE \E code \in Byte : Nack(code)
    BY <1>2, NackType
  <1>3. CASE AnswerBytes(Len3, Zeros)
    <2>1. \A i \in 0..(BufSize - 1) : Zeros[i] = 0
      BY DEF Zeros
    <2>2. 0..(Len3 - 1) \subseteq 0..(BufSize - 1)
      BY <1>1, SizeFacts DEF BufferHoldsArray, Byte
    <2>3. \A i \in 0..(Len3 - 1) : Zeros[i] \in Byte
      BY <2>1, <2>2 DEF Byte
    <2> QED BY <1>1, <1>3, <2>3, BytesType
  <1>4. CASE ArrayReadReply
    BY <1>4, ArrayReplyType
  <1>5. 1 \in Byte /\ 3 \in Byte
    BY DEF Byte
  <1> QED BY <1>2, <1>3, <1>4, <1>5 DEF ArrayRead, LogRead

(* An array write stays inside the structure it was checked against.       *)
LEMMA OverwriteType ==
  ASSUME BufferHoldsArray, BufType, StoreType, NEW d, NEW to \in Nat, NEW n \in 0..255,
         to + n <= StructSize, Overwrite(d, to, n)
  PROVE  /\ edid' \in [0..(StructSize - 1) -> Byte]
         /\ dpcd' \in [0..(StructSize - 1) -> Byte]
  <1> DEFINE new(old) == [c \in DOMAIN old \cup Cells(to, n) |->
                            IF c \in Cells(to, n) THEN buf[c - to + 5] ELSE old[c]]
  <1>1. ASSUME NEW old \in [0..(StructSize - 1) -> Byte]
        PROVE  new(old) \in [0..(StructSize - 1) -> Byte]
    <2>1. Cells(to, n) \subseteq 0..(StructSize - 1)
      BY SizeFacts DEF Cells
    <2>2. DOMAIN old \cup Cells(to, n) = 0..(StructSize - 1)
      BY <2>1
    <2>3. \A c \in Cells(to, n) : buf[c - to + 5] \in Byte
      BY SizeFacts DEF Cells, BufferHoldsArray, BufType
    <2> QED BY <2>2, <2>3
  <1>2. \/ edid' = new(edid) /\ UNCHANGED dpcd
        \/ dpcd' = new(dpcd) /\ UNCHANGED edid
    BY DEF Overwrite
  <1>3. /\ edid \in [0..(StructSize - 1) -> Byte]
        /\ dpcd \in [0..(StructSize - 1) -> Byte]
    BY DEF StoreType
  <1>4. new(edid) \in [0..(StructSize - 1) -> Byte]
    BY <1>1, <1>3
  <1>5. new(dpcd) \in [0..(StructSize - 1) -> Byte]
    BY <1>1, <1>3
  <1> HIDE DEF new
  <1> QED BY <1>2, <1>3, <1>4, <1>5

LEMMA ArrayWriteType ==
  ASSUME BufferHoldsArray, BufType, StoreType, NEW len, ArrayWrite(len)
  PROVE  BufType' /\ StoreType'
  <1>1. Id \in Byte /\ buf[3] \in Byte /\ Len3 \in 0..255
    BY HeaderType DEF Id, Len3, Byte
  <1>2. UNCHANGED <<test, request>>
    BY DEF ArrayWrite, KeepRegisters, registers
  <1>3. CASE KeepData
    <2>1. \/ Nack(1) \/ Answer(buf, 2)
          \/ Answer([buf EXCEPT ![2] = 0], 3) \/ Answer([buf EXCEPT ![2] = 1], 3)
      BY DEF ArrayWrite
    <2>2. BufType'
      <3>1. 0 \in Byte /\ 1 \in Byte /\ 2 \in 0..9
        BY DEF Byte
      <3>2. CASE Nack(1)
        BY <3>1, <3>2, NackType
      <3>3. CASE ~Nack(1)
        <4>1. buf' = buf \/ buf' = [buf EXCEPT ![2] = 0] \/ buf' = [buf EXCEPT ![2] = 1]
          BY <2>1, <3>3, AnswerBuf
        <4> QED BY <3>1, <4>1, StampType DEF BufType
      <3> QED BY <3>2, <3>3
    <2> QED BY <1>2, <1>3, <2>2 DEF KeepData, blocks, StoreType
  <1>4. CASE /\ Id \in Edids \cup Dpcds /\ FitsWrite(Id, buf[3], Len3)
             /\ Overwrite(Id = 36, Target(Id, buf[3]), Len3)
             /\ Answer([buf EXCEPT ![2] = 1], 3)
    <2>1. Target(Id, buf[3]) \in Nat /\ Target(Id, buf[3]) + Len3 <= StructSize
      BY <1>1, <1>4, TargetNat DEF FitsWrite
    <2>2. /\ edid' \in [0..(StructSize - 1) -> Byte]
          /\ dpcd' \in [0..(StructSize - 1) -> Byte]
      BY <1>1, <1>4, <2>1, OverwriteType
    <2>3. BufType'
      <3>1. 1 \in Byte /\ 2 \in 0..9
        BY DEF Byte
      <3> QED BY <1>4, <3>1, AnswerBuf, StampType DEF BufType
    <2> QED BY <1>2, <2>2, <2>3 DEF StoreType
  <1> QED BY <1>3, <1>4 DEF ArrayWrite

LEMMA ByteReadType ==
  ASSUME BufferHoldsArray, BufType, StoreType, SwitchType, ByteRead
  PROVE  BufType'
  <1>1. Id \in Byte
    BY HeaderType DEF Id
  <1>2. ByteOf(Id) \in Byte
    BY DEF ByteOf, StoreType, SwitchType, Byte
  <1>3. UNCHANGED buf \/ buf' = [buf EXCEPT ![2] = ByteOf(Id)]
    BY AnswerBuf DEF ByteRead, AnswerBefore
  <1> QED BY <1>2, <1>3, StampType DEF BufType

LEMMA ByteWriteType ==
  ASSUME BufferHoldsArray, BufType, StoreType, ByteWrite
  PROVE  BufType' /\ StoreType' /\ pc' \in {"loop", "swap"}
  <1>1. buf[3] \in Byte
    BY HeaderType
  <1>2. BufType'
    <2>1. UNCHANGED buf \/ \E ok \in BOOLEAN : Written(ok)
      BY DEF ByteWrite, Silent
    <2> QED BY <2>1, WrittenType DEF BufType
  <1>3. test' \in [1..5 -> Byte]
    BY <1>1 DEF ByteWrite, StoreType
  <1>4. request' \in 0..3
    <2>1. request' = request \/ (request' = buf[3] /\ buf[3] <= 3)
      BY DEF ByteWrite
    <2>2. CASE request' = request
      BY <2>2 DEF StoreType
    <2>3. CASE request' = buf[3] /\ buf[3] <= 3
      BY <1>1, <2>3 DEF Byte
    <2> QED BY <2>1, <2>2, <2>3
  <1> QED BY <1>2, <1>3, <1>4 DEF ByteWrite, KeepData, blocks, StoreType

LEMMA FourByteType ==
  ASSUME BufferHoldsArray, BufType, StoreType, SwitchType, FourByteRead \/ FourByteWrite
  PROVE  BufType' /\ StoreType'
  <1>1. CASE FourByteRead
    <2>1. \A i \in 2..5 : FourBytesOf(Id)[i] \in Byte
      <3>1. CASE Id = 170
        <4>1. FourBytesOf(Id) = [i \in 2..5 |-> test[i]]
          BY <3>1 DEF FourBytesOf
        <4> QED BY <4>1 DEF StoreType
      <3>2. CASE Id = 9
        <4>1. FourBytesOf(Id) = [i \in 2..5 |-> IF i = 5 THEN part ELSE 0]
          BY <3>2 DEF FourBytesOf
        <4> QED BY <4>1 DEF SwitchType, Byte
      <3>3. CASE Id \notin {9, 170}
        <4>1. FourBytesOf(Id) = [i \in 2..5 |-> 0]
          BY <3>3 DEF FourBytesOf
        <4> QED BY <4>1 DEF Byte
      <3> QED BY <3>1, <3>2, <3>3
    <2>2. \/ UNCHANGED buf
          \/ buf' = [i \in DOMAIN buf |-> IF i \in 2..5 THEN FourBytesOf(Id)[i] ELSE buf[i]]
      BY <1>1, AnswerBuf DEF FourByteRead, AnswerBefore
    <2>3. BufType'
      BY <2>1, <2>2 DEF BufType
    <2> QED BY <1>1, <2>3 DEF FourByteRead, KeepData, KeepRegisters, registers, blocks, StoreType
  <1>2. CASE FourByteWrite
    <2>1. BufType'
      BY <1>2, WrittenType DEF FourByteWrite
    <2>2. test' \in [1..5 -> Byte]
      <3>1. \A i \in 1..5 : buf[i + 1] \in Byte
        BY HeaderType
      <3> QED BY <1>2, <3>1 DEF FourByteWrite, StoreType
    <2> QED BY <1>2, <2>1, <2>2 DEF FourByteWrite, KeepData, blocks, StoreType
  <1> QED BY <1>1, <1>2

(* Every handler leaves bytes in the buffer and in the data map.           *)
LEMMA HandlerType ==
  ASSUME TypeInv, BufType, NEW len, CommHandler(len)
  PROVE  BufType' /\ StoreType' /\ pc' \in {"loop", "swap"} /\ UNCHANGED <<switchVars, running>>
  <1>1. BufferHoldsArray /\ StoreType /\ SwitchType
    BY DEF TypeInv
  <1>2. CASE Ignored
    BY <1>1, <1>2
    DEF Ignored, Silent, KeepRegisters, registers, KeepData, blocks, BufType, StoreType
  <1>3. CASE Refused(len)
    <2>1. \E code \in Byte : Nack(code)
      BY <1>1, <1>3, HeaderType DEF Refused, Id, Byte
    <2> QED
      BY <1>1, <1>3, <2>1, NackType
      DEF Refused, KeepRegisters, registers, KeepData, blocks, StoreType
  <1>4. CASE ByteRead
    BY <1>1, <1>4, ByteReadType
    DEF ByteRead, KeepRegisters, registers, KeepData, blocks, StoreType
  <1>5. CASE ByteWrite
    BY <1>1, <1>5, ByteWriteType DEF ByteWrite
  <1>6. CASE FourByteRead
    BY <1>1, <1>6, FourByteType DEF FourByteRead, KeepRegisters, registers
  <1>7. CASE FourByteWrite
    BY <1>1, <1>7, FourByteType DEF FourByteWrite
  <1>8. CASE ArrayRead(len)
    BY <1>1, <1>8, ArrayReadType
    DEF ArrayRead, KeepRegisters, registers, KeepData, blocks, StoreType
  <1>9. CASE ArrayWrite(len)
    BY <1>1, <1>9, ArrayWriteType DEF ArrayWrite, KeepRegisters, registers
  <1> QED BY <1>2, <1>3, <1>4, <1>5, <1>6, <1>7, <1>8, <1>9 DEF CommHandler

(* The decoder stays inside its buffer.                                    *)
LEMMA DecodeType ==
  ASSUME BufferHoldsArray, LineType, Decode
  PROVE  /\ unread' \in Seq(Chars)
         /\ ProtocolTypeOK'
  <1>1. /\ unread \in Seq(Chars) /\ unread # <<>> /\ unread' = Tail(unread)
        /\ msgCount = 0 /\ UNCHANGED overrun /\ ProtocolTypeOK
    BY DEF Decode, LineType
  <1>2. PICK c \in Chars : Skip(c) \/ Begin(c) \/ End(c) \/ Escape(c) \/ Store(c)
    <2>1. Head(unread) \in Chars
      BY <1>1
    <2> QED BY <2>1 DEF Decode
  <1>3. /\ unread' \in Seq(Chars)
        /\ Len(unread') < RingSize
    BY <1>1, SizeFacts DEF ProtocolTypeOK
  <1>4. CASE Skip(c)
    BY <1>1, <1>3, <1>4 DEF Skip, decoder, ProtocolTypeOK
  <1>5. CASE Begin(c)
    BY <1>1, <1>3, <1>5, SizeFacts DEF Begin, ProtocolTypeOK, Byte, BufferHoldsArray
  <1>6. CASE End(c)
    <2>1. wr \in Int /\ wr <= BufSize - 1 /\ BufSize \in Nat
      BY <1>1, SizeFacts DEF ProtocolTypeOK
    <2>2. /\ msgCount' \in 0..1 /\ receiving' = FALSE
          /\ msgLen' = msgLen \/ (wr >= 3 /\ msgLen' = wr - 1)
          /\ UNCHANGED <<buf, wr, offset, checksum, prev>>
      BY <1>1, <1>6 DEF End, Complete
    <2>3. msgLen' \in 0..(BufSize - 2)
      BY <1>1, <2>1, <2>2 DEF ProtocolTypeOK
    <2> QED BY <1>1, <1>3, <2>2, <2>3 DEF ProtocolTypeOK
  <1>7. CASE Escape(c)
    BY <1>1, <1>3, <1>7 DEF Escape, ProtocolTypeOK
  <1>8. CASE Store(c)
    <2>1. (c.char + offset) % 256 \in Byte /\ (checksum + prev) % 256 \in Byte
      <3>1. c.char \in 0..255 /\ offset \in {0, 128} /\ checksum \in 0..255 /\ prev \in 0..255
        BY <1>1 DEF ProtocolTypeOK, Byte, Esc, Chars
      <3>2. \A x \in Int : x % 256 \in 0..255
        OBVIOUS
      <3>3. c.char + offset \in Int /\ checksum + prev \in Int
        BY <3>1
      <3> QED BY <3>2, <3>3 DEF Byte
    <2>2. /\ buf' = [buf EXCEPT ![wr] = (c.char + offset) % 256]
          /\ prev' = (c.char + offset) % 256 /\ checksum' = (checksum + prev) % 256
          /\ offset' = 0 /\ UNCHANGED <<msgLen, msgCount>>
          /\ wr' = wr \/ (wr < BufSize - 1 /\ wr' = wr + 1)
          /\ receiving' \in BOOLEAN
      BY <1>1, <1>8 DEF Store, ProtocolTypeOK
    <2> QED BY <1>1, <1>3, <2>1, <2>2, SizeFacts DEF ProtocolTypeOK
  <1> QED BY <1>2, <1>3, <1>4, <1>5, <1>6, <1>7, <1>8

LEMMA ReceiveType ==
  ASSUME LineType, NEW c \in Chars, Receive(c)
  PROVE  unread' \in Seq(Chars) /\ ProtocolTypeOK'
  <1>1. unread' \in Seq(Chars) /\ Len(unread') < RingSize /\ overrun' \in BOOLEAN
    <2>1. /\ unread \in Seq(Chars) /\ Len(unread) \in Nat /\ RingSize \in Nat \ {0}
          /\ overrun \in BOOLEAN
      BY SizeFacts DEF LineType, ProtocolTypeOK
    <2>2. CASE Len(unread) < RingSize - 1
      <3>1. unread' = Append(unread, c) /\ overrun' = overrun
        BY <2>2 DEF Receive
      <3>2. unread' \in Seq(Chars) /\ Len(unread') = Len(unread) + 1
        BY <2>1, <3>1
      <3> QED BY <2>1, <2>2, <3>1, <3>2
    <2>3. CASE ~(Len(unread) < RingSize - 1)
      <3>1. unread' = <<>> /\ overrun' = TRUE
        BY <2>3 DEF Receive
      <3> QED BY <2>1, <3>1
    <2> QED BY <2>2, <2>3
  <1> QED BY <1>1 DEF Receive, LineType, ProtocolTypeOK, decoder

LEMMA HandleType ==
  ASSUME TypeInv, Handle \/ SecondCpuMessage
  PROVE  TypeInv'
  <1>1. /\ CommHandler(msgLen)
        /\ UNCHANGED <<line, sent, unread, overrun, receiving, wr, offset, checksum, prev, msgLen>>
        /\ msgCount' \in {0, msgCount}
    BY DEF Handle, SecondCpuMessage, KeepDecoder, decoder, wireVars
  <1>2. BufType
    BY DEF TypeInv, LineType, ProtocolTypeOK, BufType
  <1>3. BufType' /\ StoreType' /\ pc' \in {"loop", "swap"} /\ UNCHANGED <<switchVars, running>>
    BY <1>1, <1>2, HandlerType
  <1>4. LineType'
    BY <1>1, <1>3 DEF TypeInv, LineType, ProtocolTypeOK, BufType
  <1> QED BY <1>3, <1>4 DEF TypeInv, SwitchType, switchVars, BufferHoldsArray

(* A partition switch, in the main loop or in the I2C interrupt.           *)
LEMMA SwitchStepType ==
  ASSUME TypeInv, SwitchPartition \/ \E r \in I2cWrites : I2cRequest(r)
  PROVE  TypeInv'
  <1>1. BufType /\ BufferHoldsArray
    BY DEF TypeInv, LineType, ProtocolTypeOK, BufType
  <1>2. UNCHANGED <<unread, overrun, decoder, line, sent, blocks, test, running>>
    BY DEF SwitchPartition, I2cRequest, KeepDecoder, wireVars
  <1>3. BufType' /\ request' \in 0..3
    <2>1. CASE \E r \in I2cWrites : I2cRequest(r)
      BY <1>1, <2>1, LinkAssumption DEF I2cRequest, Silent, BufType, PartitionRequests
    <2>2. CASE SwitchPartition
      <3>1. UNCHANGED buf \/ Written(TRUE)
        BY <2>2 DEF SwitchPartition, Swap, EraseContext, WriteContext, Assign, Silent
      <3> QED BY <1>1, <2>2, <3>1, WrittenType DEF SwitchPartition, BufType, TypeInv, StoreType
    <2> QED BY <2>1, <2>2
  <1>4. SwitchType'
    <2>1. CASE \E r \in I2cWrites : I2cRequest(r)
      BY <1>2, <2>1 DEF I2cRequest, TypeInv, SwitchType, switchVars, Other
    <2>2. CASE SwitchPartition
      <3>1. /\ part \in 0..3 /\ ctxPart \in 0..3 /\ flashPart \in 0..3 /\ running \in 0..1
            /\ Other(ctxPart) \in 0..3 /\ Blank \in 0..3 /\ Bad \in 0..3
        BY DEF TypeInv, SwitchType, Other, Blank, Bad
      <3>2. /\ pc' \in {"loop", "swap", "erase", "write", "assign"}
            /\ part' \in {part, ctxPart} /\ ctxPart' \in {ctxPart, Other(ctxPart), Bad}
            /\ flashPart' \in {flashPart, Blank, ctxPart, Bad}
        BY <2>2 DEF SwitchPartition, Swap, EraseContext, WriteContext, Assign
      <3> QED BY <1>2, <3>1, <3>2 DEF SwitchType
    <2> QED BY <2>1, <2>2
  <1>5. LineType'
    BY <1>2, <1>3 DEF TypeInv, LineType, ProtocolTypeOK, decoder, BufType
  <1> QED BY <1>1, <1>2, <1>3, <1>4, <1>5 DEF TypeInv, StoreType, blocks, BufferHoldsArray

(* A start of the application.                                             *)
LEMMA ResetBuf == BufferHoldsArray => [i \in 0..(BufSize - 1) |-> 0] \in [0..(BufSize - 1) -> Byte]
  BY DEF Byte

LEMMA TestType == <<0, 0, 0, 0, 0>> \in [1..5 -> Byte]
  BY DEF Byte

LEMMA RestartType ==
  ASSUME TypeInv, Restart
  PROVE  TypeInv'
  <1>1. /\ ProtocolReset /\ InitializeDataMap /\ line' = <<>> /\ UNCHANGED <<pc, flashPart, sent>>
        /\ part' = running' /\ request' \in {0, request}
        /\ running' \in {flashPart, running}
        /\ running' = flashPart => flashPart \in 0..1 \/ running' = running
    BY DEF Restart, PartOfPc
  <1>2. LineType'
    <2>1. buf' \in [0..(BufSize - 1) -> Byte]
      BY <1>1, ResetBuf DEF ProtocolReset, TypeInv
    <2>2. /\ 0 \in 0..(BufSize - 1) /\ 0 \in 0..(BufSize - 2) /\ 0 \in Byte /\ 0 \in 0..1
          /\ 0 < RingSize
      BY SizeFacts DEF TypeInv, BufferHoldsArray, Byte
    <2>3. /\ unread' = <<>> /\ receiving' = FALSE /\ wr' = 0 /\ offset' = 0 /\ checksum' = 0
          /\ prev' = 0 /\ msgLen' = 0 /\ msgCount' = 0 /\ overrun' = overrun
      BY <1>1 DEF ProtocolReset
    <2>4. overrun' \in BOOLEAN /\ sent' \in Seq(Messages)
      BY <1>1, <2>3 DEF TypeInv, LineType, ProtocolTypeOK
    <2>5. Len(unread') = 0 /\ unread' \in Seq(Chars) /\ line' \in Seq(Byte)
      BY <1>1, <2>3
    <2> QED BY <2>1, <2>2, <2>3, <2>4, <2>5 DEF LineType, ProtocolTypeOK
  <1>3. StoreType'
    BY <1>1, TestType DEF InitializeDataMap, InitialBlocks, TypeInv, StoreType, Byte
  <1>4. SwitchType'
    BY <1>1 DEF InitializeDataMap, TypeInv, SwitchType
  <1> QED BY <1>2, <1>3, <1>4 DEF TypeInv, BufferHoldsArray

LEMMA LineStepType ==
  ASSUME TypeInv, (\E m \in Messages : Send(m)) \/ Arrive \/ Harm \/ Protocol
  PROVE  TypeInv'
  <1>1. UNCHANGED <<pc, blocks, registers>>
    BY DEF Send, Arrive, Harm, Protocol, KeepApplication
  <1>2. StoreType' /\ SwitchType'
    BY <1>1 DEF blocks, registers, switchVars, TypeInv, StoreType, SwitchType
  <1>3. LineType'
    <2>1. CASE \E m \in Messages : Send(m)
      <3>1. \A m \in Messages : Encode(m) \in Seq(Byte)
        BY ByteAssumption, EncodeFacts
      <3> QED BY <2>1, <3>1 DEF Send, protocolVars, decoder, TypeInv, LineType, ProtocolTypeOK
    <2>2. CASE Arrive
      <3>1. Len(sent) \in Nat
        BY DEF TypeInv, LineType
      <3>2. line \in Seq(Byte) /\ line # <<>> /\ line' = Tail(line) /\ UNCHANGED sent
        BY <2>2 DEF Arrive, TypeInv, LineType
      <3>3. [char |-> Head(line), frame |-> Len(sent)] \in Chars /\ line' \in Seq(Byte)
        BY <3>1, <3>2 DEF Chars
      <3> QED BY <2>2, <3>2, <3>3, ReceiveType DEF Arrive, TypeInv, LineType
    <2>3. CASE Harm
      <3>1. line \in Seq(Byte) /\ line # <<>>
        BY <2>3 DEF Harm, TypeInv, LineType
      <3>2. line' = Tail(line) \/ \E c \in Byte : line' = <<c>> \o Tail(line)
        BY <2>3, ByteAssumption DEF Harm
      <3>3. line' \in Seq(Byte)
        <4>1. Tail(line) \in Seq(Byte)
          BY <3>1
        <4>2. \A c \in Byte : <<c>> \o Tail(line) \in Seq(Byte)
          <5>1. \A c \in Byte : <<c>> \in Seq(Byte)
            OBVIOUS
          <5> QED BY <4>1, <5>1
        <4> QED BY <3>2, <4>1, <4>2
      <3> QED BY <2>3, <3>3 DEF Harm, protocolVars, decoder, TypeInv, LineType, ProtocolTypeOK
    <2>4. CASE Protocol
      BY <2>4, DecodeType DEF Protocol, wireVars, TypeInv, LineType
    <2> QED BY <2>1, <2>2, <2>3, <2>4
  <1> QED BY <1>2, <1>3 DEF TypeInv, BufferHoldsArray

LEMMA TypeInvNext == TypeInv /\ [Next]_vars => TypeInv'
  <1> SUFFICES ASSUME TypeInv, [Next]_vars PROVE TypeInv'
    OBVIOUS
  <1>1. CASE UNCHANGED vars
    BY <1>1
    DEF vars, protocolVars, decoder, wireVars, blocks, registers, switchVars, TypeInv, LineType,
        ProtocolTypeOK, StoreType, SwitchType, BufferHoldsArray
  <1> QED
    BY <1>1, HandleType, SwitchStepType, RestartType, LineStepType DEF Next

LEMMA TypeInvInit == BufferHoldsArray /\ Init => TypeInv
  <1> SUFFICES ASSUME BufferHoldsArray, Init PROVE TypeInv
    OBVIOUS
  <1>1. LineType
    <2>1. /\ unread = <<>> /\ line = <<>> /\ sent = <<>> /\ Len(unread) = 0
          /\ <<>> \in Seq(Chars) /\ <<>> \in Seq(Byte) /\ <<>> \in Seq(Messages)
      BY DEF Init, ProtocolInit
    <2>2. buf \in [0..(BufSize - 1) -> Byte]
      BY ResetBuf DEF Init, ProtocolInit
    <2>3. 0 \in 0..(BufSize - 1) /\ 0 \in 0..(BufSize - 2) /\ 0 < RingSize
      BY SizeFacts DEF BufferHoldsArray
    <2>4. /\ overrun = FALSE /\ receiving = FALSE /\ wr = 0 /\ offset = 0 /\ checksum = 0
          /\ prev = 0 /\ msgLen = 0 /\ msgCount = 0
      BY DEF Init, ProtocolInit
    <2>5. 0 \in Byte /\ 0 \in {0, Esc} /\ 0 \in 0..1 /\ FALSE \in BOOLEAN
      BY DEF Byte
    <2>6. <<>> \in Seq(Byte)
      OBVIOUS
    <2>7. ProtocolTypeOK
      BY <2>1, <2>2, <2>3, <2>4, <2>5 DEF ProtocolTypeOK
    <2> QED BY <2>1, <2>6, <2>7 DEF LineType
  <1>2. StoreType
    BY TestType DEF Init, InitialBlocks, StoreType, Byte
  <1>3. SwitchType
    BY DEF Init, SwitchType
  <1> QED BY <1>1, <1>2, <1>3 DEF TypeInv

(* Type correctness, whatever comes over the line, for every ring and      *)
(* every buffer with room for an array.                                    *)
THEOREM TypeCorrect == BufferHoldsArray /\ Spec => []TypeOK
  <1>1. TypeInv => TypeOK
    BY DEF TypeInv, LineType, StoreType, SwitchType, TypeOK
  <1> QED BY <1>1, TypeInvInit, TypeInvNext, PTL DEF Spec

(* No array write leaves its structure, whatever identifier, offset and    *)
(* length a message has, also one that was damaged on the line or          *)
(* completed by the second CPU.                                            *)
THEOREM StructKept == BufferHoldsArray /\ Spec => []InsideStruct
  <1>1. TypeInv => InsideStruct
    BY DEF TypeInv, StoreType, InsideStruct
  <1> QED BY <1>1, TypeInvInit, TypeInvNext, PTL DEF Spec

-----------------------------------------------------------------------------
(* Between switches flash, RAM and data map name one partition, the one    *)
(* asked for.                                                              *)
InSync ==
  /\ flashPart = part /\ ctxPart = part /\ part \in 0..1
  /\ request \in PartitionRequests => part = Partition(request)

(* In a switch the context in RAM is the first to name the new partition,  *)
(* then flash.                                                             *)
Switching ==
  /\ request \in PartitionRequests
  /\ IF pc = "swap" THEN ctxPart = Other(Partition(request))
     ELSE ctxPart = Partition(request)
  /\ pc = "write" => flashPart = Blank
  /\ pc = "assign" => flashPart = ctxPart

(* The invariant of FlashInSync.                                           *)
SwitchInv ==
  ~raced /\ ~astray => IF pc = "loop" THEN InSync ELSE Switching

(* A message begins a switch or changes no partition.                      *)
LEMMA HandlerSync ==
  ASSUME InSync, pc = "loop", NEW len, CommHandler(len)
  PROVE  (IF pc = "loop" THEN InSync ELSE Switching)'
  <1>1. CASE pc' = "loop" /\ KeepRegisters
    BY <1>1 DEF KeepRegisters, registers, switchVars, InSync
  <1>2. CASE pc' = "loop" /\ UNCHANGED <<request, switchVars>>
    BY <1>2 DEF switchVars, InSync
  <1>3. CASE ByteWrite
    <2>1. /\ UNCHANGED switchVars
          /\ request' = request \/ request' = buf[3]
          /\ \/ pc' = "swap" /\ request' = buf[3] /\ SwitchWanted(buf[3])
             \/ pc' = "loop" /\ request' = request
             \/ pc' = "loop" /\ request' = buf[3] /\ ~SwitchWanted(buf[3])
      BY <1>3 DEF ByteWrite
    <2>2. CASE pc' = "swap" /\ request' = buf[3] /\ SwitchWanted(buf[3])
      BY <2>1, <2>2
      DEF switchVars, InSync, Switching, SwitchWanted, PartitionRequests, Partition, Other
    <2>3. CASE pc' = "loop" /\ request' = request
      BY <2>1, <2>3 DEF switchVars, InSync
    <2>4. CASE pc' = "loop" /\ request' = buf[3] /\ ~SwitchWanted(buf[3])
      BY <2>1, <2>4 DEF switchVars, InSync, SwitchWanted, PartitionRequests, Partition
    <2> QED BY <2>1, <2>2, <2>3, <2>4
  <1> QED
    BY <1>1, <1>2, <1>3
    DEF CommHandler, Ignored, Refused, ByteRead, FourByteRead, FourByteWrite, ArrayRead, ArrayWrite

LEMMA SwitchInvNext == SwitchInv /\ [Next]_vars => SwitchInv'
  <1> SUFFICES ASSUME SwitchInv, [Next]_vars, ~raced', ~astray'
               PROVE  (IF pc = "loop" THEN InSync ELSE Switching)'
    BY DEF SwitchInv
  <1>1. CASE UNCHANGED <<pc, registers, raced, astray>>
    BY <1>1 DEF registers, switchVars, SwitchInv, InSync, Switching
  <1>2. CASE Handle \/ SecondCpuMessage
    <2>1. pc = "loop" /\ CommHandler(msgLen) /\ UNCHANGED <<raced, astray>>
      BY <1>2 DEF Handle, SecondCpuMessage
    <2> QED BY <2>1, HandlerSync DEF SwitchInv
  <1>3. CASE SwitchPartition
    <2>1. UNCHANGED <<raced, astray, request>> /\ pc # "loop"
      BY <1>3 DEF SwitchPartition, hist, Swap, EraseContext, WriteContext, Assign
    <2>2. Switching
      BY <2>1 DEF SwitchInv
    <2>3. CASE Swap
      BY <2>1, <2>2, <2>3 DEF Swap, Switching, Other, PartitionRequests, Partition
    <2>4. CASE EraseContext
      BY <2>1, <2>2, <2>4 DEF EraseContext, Switching
    <2>5. CASE WriteContext
      BY <2>1, <2>2, <2>5 DEF WriteContext, Switching
    <2>6. CASE Assign
      BY <2>1, <2>2, <2>6 DEF Assign, Switching, InSync, PartitionRequests, Partition
    <2> QED BY <1>3, <2>3, <2>4, <2>5, <2>6 DEF SwitchPartition
  <1>4. CASE Restart
    <2>1. /\ pc = "loop" /\ UNCHANGED <<pc, flashPart, raced>> /\ ctxPart' = flashPart
          /\ part' = running' /\ ~astray
          /\ \/ request' = 0 /\ running' = IF flashPart \in 0..1 THEN flashPart ELSE running
             \/ request' = request /\ running' = running /\ flashPart = running
      BY <1>4 DEF Restart, InitializeDataMap, PartOfPc
    <2>2. InSync
      BY <2>1 DEF SwitchInv
    <2> QED BY <2>1, <2>2 DEF InSync, PartitionRequests
  <1>5. CASE \E r \in I2cWrites : I2cRequest(r)
    <2>1. PICK r \in PartitionRequests : I2cRequest(r)
      BY <1>5, LinkAssumption
    <2>2. pc = "loop" /\ ~raced /\ ~astray /\ pc' = "loop"
      BY <2>1 DEF I2cRequest
    <2>3. InSync
      BY <2>2 DEF SwitchInv
    <2> QED
      BY <2>1, <2>2, <2>3
      DEF I2cRequest, InSync, switchVars, SwitchWanted, Other, PartitionRequests, Partition
  <1>6. CASE UNCHANGED vars \/ (\E m \in Messages : Send(m)) \/ Arrive \/ Harm \/ Protocol
    <2>1. UNCHANGED <<pc, registers, raced, astray>>
      BY <1>6 DEF vars, hist, Send, Arrive, Harm, Protocol, KeepApplication
    <2> QED BY <1>1, <2>1
  <1> QED BY <1>2, <1>3, <1>4, <1>5, <1>6 DEF Next

(* Between switches the flash, the context in RAM and the data map name    *)
(* the same partition and the one asked for last, unless an I2C request    *)
(* came in the middle of a switch or the application was started again     *)
(* from the other partition.                                               *)
THEOREM SwitchedInSync == Spec => []FlashInSync
  <1>1. Init => SwitchInv
    BY DEF Init, SwitchInv, InSync, PartitionRequests
  <1>2. SwitchInv => FlashInSync
    BY DEF SwitchInv, InSync, FlashInSync
  <1> QED BY <1>1, <1>2, SwitchInvNext, PTL DEF Spec

-----------------------------------------------------------------------------
(* Every character and every message belongs to a frame that was sent.     *)
FrameInv ==
  /\ unread \in Seq([char : Byte, frame : 1..Len(sent)])
  /\ line # <<>> => Len(sent) > 0
  /\ receiving \/ msgCount > 0 => frame \in 1..Len(sent)
  /\ handled \in Seq([frame : 1..Len(sent), body : Seq(Byte)])

(* What a write that was acknowledged claims lies in the structures.       *)
Claims(m) ==
  /\ m[5] \in Nat /\ Place(m) \in Nat
  /\ \A i \in 1..m[5] : CellOf(m, i) \in 0..(StructSize - 1)

(* The invariant of AckedHeld.                                             *)
Held(k, m) ==
  \A i \in BytesOf(m) : InMemory(m, i) \/ \E w \in WritesAfter(k) : Takes(w, m, i)
HeldWrite(k) ==
  /\ acked[k] \in 1..Len(sent) /\ Claims(sent[acked[k]])
  /\ Held(k, sent[acked[k]])
HeldInv ==
  AsSent /\ ~intruded => acked \in Seq(Nat) /\ \A k \in DOMAIN acked : HeldWrite(k)

LEMMA SeqFacts ==
  ASSUME NEW S, NEW s \in Seq(S)
  PROVE  /\ s # <<>> => Head(s) \in S /\ Tail(s) \in Seq(S)
         /\ \A c \in S : Append(s, c) \in Seq(S)
         /\ <<>> \in Seq(S) /\ Len(s) \in Nat
         /\ \A k \in DOMAIN s : s[k] \in S
  OBVIOUS

LEMMA FramesGrow ==
  ASSUME NEW s, NEW t, Len(s) \in Nat, Len(t) \in Nat, Len(s) <= Len(t)
  PROVE  /\ Seq([char : Byte, frame : 1..Len(s)]) \subseteq Seq([char : Byte, frame : 1..Len(t)])
         /\ Seq([frame : 1..Len(s), body : Seq(Byte)])
              \subseteq Seq([frame : 1..Len(t), body : Seq(Byte)])
  <1>1. [char : Byte, frame : 1..Len(s)] \subseteq [char : Byte, frame : 1..Len(t)]
    OBVIOUS
  <1>2. [frame : 1..Len(s), body : Seq(Byte)] \subseteq [frame : 1..Len(t), body : Seq(Byte)]
    OBVIOUS
  <1>3. ASSUME NEW A, NEW B, A \subseteq B PROVE Seq(A) \subseteq Seq(B)
    BY <1>3
  <1> QED BY <1>1, <1>2, <1>3

(* The frame of a message is that of its start byte.                       *)
LEMMA DecodeFrames ==
  ASSUME FrameInv, Decode, UNCHANGED <<sent, line, handled>>
  PROVE  FrameInv'
  <1>1. /\ unread # <<>> /\ unread' = Tail(unread) /\ msgCount = 0
        /\ unread' \in Seq([char : Byte, frame : 1..Len(sent)])
    BY DEF Decode, FrameInv
  <1>2. PICK c \in [char : Byte, frame : 1..Len(sent)] :
          Skip(c) \/ Begin(c) \/ End(c) \/ Escape(c) \/ Store(c)
    <2>1. Head(unread) \in [char : Byte, frame : 1..Len(sent)]
      BY <1>1, SeqFacts DEF FrameInv
    <2> QED BY <2>1 DEF Decode
  <1>3. receiving' \/ msgCount' > 0 => frame' \in 1..Len(sent)
    <2>1. CASE Begin(c)
      BY <1>1, <2>1 DEF Begin
    <2>2. CASE Skip(c)
      BY <1>1, <2>2 DEF Skip, decoder, FrameInv
    <2>3. CASE End(c)
      BY <1>1, <2>3 DEF End, FrameInv
    <2>4. CASE Escape(c) \/ Store(c)
      BY <1>1, <2>4 DEF Escape, Store, FrameInv
    <2> QED BY <1>2, <2>1, <2>2, <2>3, <2>4
  <1> QED BY <1>1, <1>3 DEF FrameInv

LEMMA HandleFrames ==
  ASSUME TypeInv, FrameInv, Handle
  PROVE  FrameInv'
  <1>1. frame \in 1..Len(sent) /\ UNCHANGED <<unread, sent, line, frame, receiving>>
    BY DEF Handle, FrameInv, wireVars
  <1>2. [i \in 1..msgLen |-> buf[i - 1]] \in Seq(Byte)
    <2>1. msgLen \in Nat /\ \A i \in 1..msgLen : buf[i - 1] \in Byte
      BY SizeFacts DEF TypeInv, LineType, ProtocolTypeOK, BufferHoldsArray
    <2> QED BY <2>1
  <1>3. handled' \in Seq([frame : 1..Len(sent), body : Seq(Byte)])
    BY <1>1, <1>2 DEF Handle, FrameInv
  <1> QED BY <1>1, <1>3 DEF FrameInv

LEMMA FrameInvNext == TypeInv /\ FrameInv /\ [Next]_vars => FrameInv'
  <1> SUFFICES ASSUME TypeInv, FrameInv, [Next]_vars PROVE FrameInv'
    OBVIOUS
  <1>1. CASE UNCHANGED <<unread, decoder, line, sent, handled>>
    BY <1>1 DEF decoder, FrameInv
  <1>2. CASE UNCHANGED vars \/ SwitchPartition \/ \E r \in I2cWrites : I2cRequest(r)
    BY <1>1, <1>2
    DEF vars, protocolVars, wireVars, hist, SwitchPartition, I2cRequest, KeepDecoder
  <1>3. CASE SecondCpuMessage
    BY <1>1, <1>3 DEF SecondCpuMessage, KeepDecoder, wireVars
  <1>4. CASE Handle
    BY <1>4, HandleFrames
  <1>5. CASE Restart
    BY <1>5 DEF Restart, ProtocolReset, FrameInv
  <1>6. CASE \E m \in Messages : Send(m)
    <2>1. PICK m \in Messages : sent' = Append(sent, m)
      BY <1>6 DEF Send
    <2>2. UNCHANGED <<unread, decoder, handled>>
      BY <1>6 DEF Send, protocolVars, KeepApplication
    <2>3. Len(sent) \in Nat /\ Len(sent') = Len(sent) + 1
      BY <2>1 DEF TypeInv, LineType
    <2>4. /\ Seq([char : Byte, frame : 1..Len(sent)])
               \subseteq Seq([char : Byte, frame : 1..Len(sent')])
          /\ Seq([frame : 1..Len(sent), body : Seq(Byte)])
               \subseteq Seq([frame : 1..Len(sent'), body : Seq(Byte)])
      <3>1. Len(sent') \in Nat /\ Len(sent) <= Len(sent')
        BY <2>3
      <3> QED BY <2>3, <3>1, FramesGrow
    <2>5. Len(sent') > 0 /\ \A n \in 1..Len(sent) : n \in 1..Len(sent')
      BY <2>3
    <2>6. /\ unread' \in Seq([char : Byte, frame : 1..Len(sent')])
          /\ handled' \in Seq([frame : 1..Len(sent'), body : Seq(Byte)])
      BY <2>2, <2>4 DEF FrameInv
    <2> QED BY <2>2, <2>5, <2>6 DEF decoder, FrameInv
  <1>7. CASE Arrive
    <2>1. /\ Len(sent) \in Nat /\ Len(sent) > 0 /\ line # <<>> /\ line \in Seq(Byte)
          /\ UNCHANGED <<sent, handled, decoder>>
      BY <1>7 DEF Arrive, Receive, KeepApplication, TypeInv, LineType, FrameInv
    <2>2. [char |-> Head(line), frame |-> Len(sent)] \in [char : Byte, frame : 1..Len(sent)]
      BY <2>1
    <2>3. unread' \in Seq([char : Byte, frame : 1..Len(sent)])
      <3>1. PICK c \in [char : Byte, frame : 1..Len(sent)] : Receive(c)
        BY <1>7, <2>2 DEF Arrive
      <3>2. unread \in Seq([char : Byte, frame : 1..Len(sent)])
        BY DEF FrameInv
      <3>3. unread' = Append(unread, c) \/ unread' = <<>>
        BY <3>1 DEF Receive
      <3>4. CASE unread' = Append(unread, c)
        BY <3>2, <3>4, SeqFacts
      <3>5. CASE unread' = <<>>
        BY <3>5
      <3> QED BY <3>3, <3>4, <3>5
    <2> QED BY <2>1, <2>3 DEF decoder, FrameInv
  <1>8. CASE Harm
    BY <1>8 DEF Harm, protocolVars, decoder, KeepApplication, FrameInv
  <1>9. CASE Protocol
    BY <1>9, DecodeFrames DEF Protocol, wireVars, KeepApplication
  <1> QED BY <1>2, <1>3, <1>4, <1>5, <1>6, <1>7, <1>8, <1>9 DEF Next

LEMMA SentKept ==
  ASSUME TypeInv, FrameInv, AsSent', handled' = handled,
         UNCHANGED sent \/ \E m \in Messages : sent' = Append(sent, m)
  PROVE  AsSent
  <1>1. \A n \in 1..Len(sent) : sent'[n] = sent[n]
    BY DEF TypeInv, LineType
  <1>2. \A k \in DOMAIN handled : handled[k].frame \in 1..Len(sent)
    <2>1. \A k \in DOMAIN handled : handled[k] \in [frame : 1..Len(sent), body : Seq(Byte)]
      BY SeqFacts DEF FrameInv
    <2> QED BY <2>1
  <1> QED BY <1>1, <1>2 DEF AsSent

LEMMA HeldKept ==
  ASSUME TypeInv, HeldInv, UNCHANGED <<edid, dpcd, acked>>,
         AsSent' /\ ~intruded' => AsSent /\ ~intruded,
         UNCHANGED sent \/ \E m \in Messages : sent' = Append(sent, m)
  PROVE  HeldInv'
  <1> SUFFICES ASSUME AsSent', ~intruded' PROVE HeldInv'
    BY DEF HeldInv
  <1>1. acked \in Seq(Nat)
    BY DEF HeldInv
  <1>2. ASSUME NEW k \in DOMAIN acked PROVE HeldWrite(k)'
    <2>1. Len(sent') >= Len(sent) /\ \A n \in 1..Len(sent) : sent'[n] = sent[n]
          /\ Len(sent) \in Nat /\ Len(sent') \in Nat
      BY DEF TypeInv, LineType
    <2>2. \A l \in DOMAIN acked : HeldWrite(l)
      BY <1>2 DEF HeldInv
    <2>3. PICK m : m = sent[acked[k]] /\ m = sent'[acked'[k]]
      BY <1>2, <2>1, <2>2 DEF HeldWrite
    <2>4. Claims(m) /\ Held(k, m) /\ acked'[k] \in 1..Len(sent')
      BY <1>2, <2>1, <2>2, <2>3 DEF HeldWrite
    <2>5. WritesAfter(k)' = WritesAfter(k)
      <3>1. \A l \in (k + 1)..Len(acked) : sent'[acked[l]] = sent[acked[l]]
        BY <1>1, <1>2, <2>1, <2>2 DEF HeldWrite
      <3> QED BY <3>1 DEF WritesAfter
    <2>6. \A i : InMemory(m, i)' <=> InMemory(m, i)
      BY DEF InMemory
    <2>7. Held(k, m)'
      BY <2>4, <2>5, <2>6 DEF Held
    <2> QED BY <2>3, <2>4, <2>7 DEF HeldWrite
  <1> QED BY <1>1, <1>2 DEF HeldInv

(* The message that is handled is one that was sent.                       *)
LEMMA HandledSent ==
  ASSUME TypeInv, FrameInv, Handle, AsSent'
  PROVE  /\ AsSent /\ frame \in 1..Len(sent) /\ sent' = sent
         /\ sent[frame] \in Seq(Byte) /\ Len(sent[frame]) = msgLen
         /\ \A i \in 1..msgLen : sent[frame][i] = buf[i - 1]
  <1> DEFINE body == [i \in 1..msgLen |-> buf[i - 1]]
  <1>1. /\ frame \in 1..Len(sent) /\ UNCHANGED sent
        /\ handled' = Append(handled, [frame |-> frame, body |-> body])
        /\ sent \in Seq(Messages) /\ handled \in Seq([frame : 1..Len(sent), body : Seq(Byte)])
        /\ msgLen \in Nat
    BY SizeFacts
    DEF Handle, FrameInv, wireVars, TypeInv, LineType, ProtocolTypeOK, BufferHoldsArray
  <1> HIDE DEF body
  <1>2. /\ \A k \in DOMAIN handled : k \in DOMAIN handled' /\ handled'[k] = handled[k]
        /\ Len(handled) + 1 \in DOMAIN handled'
        /\ handled'[Len(handled) + 1] = [frame |-> frame, body |-> body]
    BY <1>1
  <1>3. body = sent[frame]
    <2>1. PICK k \in DOMAIN handled' : handled'[k] = [frame |-> frame, body |-> body]
      BY <1>2
    <2>2. handled'[k].body = body /\ handled'[k].frame = frame
      BY <2>1
    <2> QED BY <1>1, <2>2 DEF AsSent
  <1>4. ASSUME NEW k \in DOMAIN handled PROVE handled[k].body = sent[handled[k].frame]
    <2>1. k \in DOMAIN handled' /\ handled'[k] = handled[k]
      BY <1>2
    <2> QED BY <1>1, <2>1 DEF AsSent
  <1>5. sent[frame] \in Messages
    BY <1>1
  <1>6. sent[frame] \in Seq(Byte)
    BY <1>5, ByteAssumption
  <1>7. DOMAIN body = 1..msgLen /\ \A i \in 1..msgLen : body[i] = buf[i - 1]
    BY DEF body
  <1>8. Len(sent[frame]) = msgLen
    BY <1>1, <1>3, <1>6, <1>7
  <1> QED BY <1>1, <1>3, <1>4, <1>6, <1>7, <1>8 DEF AsSent

(* A write is found where it was stored, and spares what it does not claim. *)
LEMMA WriteHeld ==
  ASSUME TypeInv, HeldInv, AsSent, ~intruded,
         NEW m, m = sent[frame], frame \in 1..Len(sent), sent' = sent,
         m \in Seq(Byte), Len(m) = msgLen, \A i \in 1..msgLen : m[i] = buf[i - 1],
         buf[1] = WriteArray, msgLen >= 5, Id \in Edids \cup Dpcds,
         FitsWrite(Id, buf[3], Len3),
         Overwrite(Id = 36, Target(Id, buf[3]), Len3), acked' = Append(acked, frame)
  PROVE  acked' \in Seq(Nat) /\ \A k \in DOMAIN acked' : HeldWrite(k)'
  <1> DEFINE N == Len(acked) + 1
  <1>1. /\ m[3] = Id /\ m[4] = buf[3] /\ m[5] = Len3 /\ buf[3] \in Byte /\ buf[3] \in Nat
        /\ Len3 \in Nat /\ msgLen \in Nat
    <2>1. msgLen \in Nat
      BY SizeFacts DEF TypeInv, LineType, ProtocolTypeOK, BufferHoldsArray
    <2>2. m[3] = buf[3 - 1] /\ m[4] = buf[4 - 1] /\ m[5] = buf[5 - 1]
      BY <2>1
    <2>3. \A i \in 0..9 : buf[i] \in Byte
      BY HeaderType DEF TypeInv, LineType, ProtocolTypeOK, BufType
    <2>4. buf[3] \in Byte /\ buf[4] \in Byte
      BY <2>3
    <2>5. m[3] = buf[2] /\ m[4] = buf[3] /\ m[5] = buf[4]
      BY <2>2
    <2>6. buf[3] \in Nat /\ buf[4] \in Nat
      BY <2>4, ByteNat
    <2> QED BY <2>1, <2>4, <2>5, <2>6 DEF Id, Len3
  <1>2. Place(m) = Target(Id, buf[3]) /\ Place(m) \in Nat /\ Place(m) + Len3 <= StructSize
    <2>1. Target(Id, buf[3]) \in Nat
      BY <1>1, TargetNat
    <2>2. Place(m) = Target(Id, buf[3])
      <3>1. \A x, y \in Nat : x + y = y + x
        OBVIOUS
      <3>2. BlockOf(Id) * Size \in Nat /\ buf[3] * Half \in Nat
        <4>1. \A x, y \in Nat : x * y \in Nat
          OBVIOUS
        <4>2. BlockOf(Id) \in Nat
          BY DEF BlockOf, Edids, Dpcds
        <4> QED BY <1>1, <4>1, <4>2, SizeFacts
      <3> QED BY <1>1, <3>1, <3>2 DEF Place, Target
    <2> QED BY <2>1, <2>2 DEF FitsWrite
  <1>3. Claims(m)
    <2>1. ASSUME NEW P \in Nat, NEW n \in Nat, P + n <= StructSize, NEW i \in 1..n
          PROVE  P + i - 1 \in 0..(StructSize - 1)
      BY <2>1, SizeFacts
    <2>2. \A i \in 1..Len3 : CellOf(m, i) \in 0..(StructSize - 1)
      BY <1>1, <1>2, <2>1 DEF CellOf
    <2> QED BY <1>1, <1>2, <2>2 DEF Claims
  <1>4. /\ \A c \in Cells(Place(m), Len3) :
             (IF InDpcd(m) THEN dpcd' ELSE edid')[c] = buf[c - Place(m) + 5]
        /\ \A c \in 0..(StructSize - 1) :
             /\ c \notin Cells(Place(m), Len3) => edid'[c] = edid[c] /\ dpcd'[c] = dpcd[c]
             /\ InDpcd(m) => edid'[c] = edid[c]
             /\ ~InDpcd(m) => dpcd'[c] = dpcd[c]
    <2>1. DOMAIN edid = 0..(StructSize - 1) /\ DOMAIN dpcd = 0..(StructSize - 1)
      BY DEF TypeInv, StoreType
    <2>2. Overwrite(InDpcd(m), Place(m), Len3)
      BY <1>1, <1>2 DEF InDpcd
    <2> QED BY <2>1, <2>2 DEF Overwrite
  <1>5. /\ acked \in Seq(Nat) /\ acked' \in Seq(Nat) /\ Len(acked) \in Nat /\ Len(acked') = N
        /\ acked'[N] = frame /\ \A k \in 1..Len(acked) : acked'[k] = acked[k]
        /\ DOMAIN acked = 1..Len(acked) /\ DOMAIN acked' = 1..N
    BY DEF HeldInv
  <1>6. ASSUME NEW i \in BytesOf(m) PROVE InMemory(m, i)'
    <2>1. i \in 1..Len3 /\ 5 + i <= msgLen /\ i \in Nat
      BY <1>1 DEF BytesOf
    <2>2. CellOf(m, i) \in Cells(Place(m), Len3) /\ CellOf(m, i) - Place(m) + 5 = i + 4
      <3>1. ASSUME NEW P \in Nat, NEW n \in Nat, NEW j \in 1..n
            PROVE  P + j - 1 \in P..(P + n - 1) /\ (P + j - 1) - P + 5 = j + 4
        OBVIOUS
      <3> QED BY <1>1, <1>2, <2>1, <3>1 DEF CellOf, Cells
    <2>3. m[5 + i] = buf[i + 4]
      <3>1. 5 + i \in 1..msgLen /\ (5 + i) - 1 = i + 4
        BY <1>1, <2>1
      <3> QED BY <3>1
    <2>4. (IF InDpcd(m) THEN dpcd' ELSE edid')[CellOf(m, i)] = buf[CellOf(m, i) - Place(m) + 5]
      BY <1>4, <2>2
    <2> QED BY <2>2, <2>3, <2>4 DEF InMemory
  <1>7. ASSUME NEW k \in 1..Len(acked), NEW old, old = sent[acked[k]], NEW i \in BytesOf(old)
        PROVE  InMemory(old, i)' \/ \E w \in WritesAfter(k)' : Takes(w, old, i)
    <2>1. /\ Claims(old)
          /\ InMemory(old, i) \/ \E w \in WritesAfter(k) : Takes(w, old, i)
      BY <1>5, <1>7 DEF HeldInv, HeldWrite, Held
    <2>2. WritesAfter(k) \subseteq WritesAfter(k)' /\ m \in WritesAfter(k)'
      <3>1. /\ N \in (k + 1)..N
            /\ \A l \in (k + 1)..Len(acked) : l \in (k + 1)..N /\ acked'[l] = acked[l]
        BY <1>5
      <3>2. /\ WritesAfter(k) = {sent[acked[l]] : l \in (k + 1)..Len(acked)}
            /\ WritesAfter(k)' = {sent[acked'[l]] : l \in (k + 1)..N}
        BY <1>5 DEF WritesAfter
      <3> HIDE DEF N
      <3>3. WritesAfter(k) \subseteq WritesAfter(k)'
        <4> SUFFICES ASSUME NEW w \in WritesAfter(k) PROVE w \in WritesAfter(k)'
          OBVIOUS
        <4>1. PICK l \in (k + 1)..Len(acked) : w = sent[acked[l]]
          BY <3>2
        <4>2. l \in (k + 1)..N /\ w = sent[acked'[l]]
          BY <3>1, <4>1
        <4> QED BY <3>2, <4>2
      <3>4. m = sent[acked'[N]]
        BY <1>5
      <3> QED BY <3>1, <3>2, <3>3, <3>4
    <2>3. ASSUME InMemory(old, i), ~Takes(m, old, i) PROVE InMemory(old, i)'
      <3>1. CellOf(old, i) \in 0..(StructSize - 1)
        BY <1>7, <2>1 DEF Claims, BytesOf
      <3>2. CellOf(old, i) \notin Cells(Place(m), Len3) \/ InDpcd(m) # InDpcd(old)
        BY <1>1, <2>3 DEF Takes
      <3>3. (IF InDpcd(old) THEN dpcd' ELSE edid')[CellOf(old, i)]
              = (IF InDpcd(old) THEN dpcd ELSE edid)[CellOf(old, i)]
        BY <1>4, <3>1, <3>2 DEF InDpcd
      <3> QED BY <2>3, <3>3 DEF InMemory
    <2> QED BY <2>1, <2>2, <2>3
  <1>8. ASSUME NEW k \in DOMAIN acked' PROVE HeldWrite(k)'
    <2>1. CASE k = N
      <3>1. Held(k, m)'
        BY <1>6 DEF Held
      <3> QED BY <1>3, <1>5, <2>1, <3>1 DEF HeldWrite
    <2>2. CASE k # N
      <3>1. k \in 1..Len(acked) /\ acked'[k] = acked[k] /\ k \in DOMAIN acked
        BY <1>5, <1>8, <2>2
      <3>2. PICK old : old = sent[acked[k]]
        OBVIOUS
      <3>3. acked[k] \in 1..Len(sent) /\ Claims(old)
        BY <3>1, <3>2 DEF HeldInv, HeldWrite
      <3>4. Held(k, old)'
        BY <1>7, <3>1, <3>2 DEF Held
      <3> QED BY <3>1, <3>2, <3>3, <3>4 DEF HeldWrite
    <2> QED BY <2>1, <2>2
  <1> QED BY <1>5, <1>8

LEMMA HandleHeld ==
  ASSUME TypeInv, FrameInv, HeldInv, Handle
  PROVE  HeldInv'
  <1>1. UNCHANGED <<intruded, sent>> /\ CommHandler(msgLen)
    BY DEF Handle, wireVars
  <1>2. CASE KeepData
    <2>1. AsSent' => AsSent
      BY HandledSent
    <2> QED BY <1>1, <1>2, <2>1, HeldKept DEF KeepData, blocks
  <1>3. CASE ~KeepData
    <2>1. /\ buf[1] = WriteArray /\ msgLen >= 5 /\ Id \in Edids \cup Dpcds
          /\ FitsWrite(Id, buf[3], Len3)
          /\ Overwrite(Id = 36, Target(Id, buf[3]), Len3) /\ acked' = Append(acked, frame)
      <3>1. ArrayWrite(msgLen) /\ Cmd = WriteArray
        BY <1>1, <1>3
        DEF CommHandler, Ignored, Refused, ByteRead, ByteWrite, FourByteRead, FourByteWrite,
            ArrayRead
      <3>2. msgLen \in Nat
        BY SizeFacts DEF TypeInv, LineType, ProtocolTypeOK, BufferHoldsArray
      <3> QED BY <1>3, <3>1, <3>2 DEF ArrayWrite, Cmd
    <2>2. CASE AsSent' /\ ~intruded
      <3>1. acked' \in Seq(Nat) /\ \A k \in DOMAIN acked' : HeldWrite(k)'
        BY <2>1, <2>2, HandledSent, WriteHeld
      <3> QED BY <1>1, <3>1 DEF HeldInv
    <2>3. CASE ~(AsSent' /\ ~intruded)
      BY <1>1, <2>3 DEF HeldInv
    <2> QED BY <2>2, <2>3
  <1> QED BY <1>2, <1>3

LEMMA HeldInvNext ==
  TypeInv /\ FrameInv /\ HeldInv /\ [Next]_vars => HeldInv'
  <1> SUFFICES ASSUME TypeInv, FrameInv, HeldInv, [Next]_vars PROVE HeldInv'
    OBVIOUS
  <1>1. CASE Handle
    BY <1>1, HandleHeld
  <1>2. CASE SecondCpuMessage
    <2>1. intruded'
      BY <1>2 DEF SecondCpuMessage
    <2> QED BY <2>1 DEF HeldInv
  <1>3. CASE Restart
    <2>1. acked' = <<>>
      BY <1>3 DEF Restart
    <2>2. <<>> \in Seq(Nat) /\ DOMAIN <<>> = {}
      OBVIOUS
    <2> QED BY <2>1, <2>2 DEF HeldInv
  <1>4. CASE /\ UNCHANGED <<blocks, acked, handled, intruded>>
             /\ UNCHANGED sent \/ \E m \in Messages : sent' = Append(sent, m)
    BY <1>4, SentKept, HeldKept DEF blocks
  <1>5. CASE \/ UNCHANGED vars \/ (\E m \in Messages : Send(m)) \/ Arrive \/ Harm \/ Protocol
             \/ SwitchPartition \/ \E r \in I2cWrites : I2cRequest(r)
    <2>1. /\ UNCHANGED <<blocks, acked, handled, intruded>>
          /\ UNCHANGED sent \/ \E m \in Messages : sent' = Append(sent, m)
      BY <1>5
      DEF vars, hist, wireVars, Send, Arrive, Harm, Protocol, KeepApplication, SwitchPartition,
          I2cRequest
    <2> QED BY <1>4, <2>1
  <1> QED BY <1>1, <1>2, <1>3, <1>5 DEF Next

(* Every byte of an acknowledged write is in memory as the main CPU sent it *)
(* until a later acknowledged write claims its cell, for every size of the *)
(* blocks and all messages: neither writes with other cells nor partition  *)
(* switches, resets, I2C requests or characters lost on the line touch it. *)
THEOREM AckedStored == BufferHoldsArray /\ Spec => []AckedHeld
  <1> DEFINE Inv == TypeInv /\ FrameInv /\ HeldInv
  <1>1. BufferHoldsArray /\ Init => Inv
    <2> SUFFICES ASSUME BufferHoldsArray, Init PROVE Inv
      OBVIOUS
    <2>1. FrameInv
      BY DEF Init, ProtocolInit, FrameInv
    <2>2. HeldInv
      <3>1. <<>> \in Seq(Nat) /\ DOMAIN <<>> = {}
        OBVIOUS
      <3> QED BY <3>1 DEF Init, HeldInv
    <2> QED BY <2>1, <2>2, TypeInvInit
  <1>2. Inv /\ [Next]_vars => Inv'
    BY TypeInvNext, FrameInvNext, HeldInvNext
  <1>3. Inv => AckedHeld
    BY DEF HeldInv, HeldWrite, Held, AckedHeld
  <1> HIDE DEF Inv
  <1> QED BY <1>1, <1>2, <1>3, PTL DEF Spec

-----------------------------------------------------------------------------
(* All characters that are still to be decoded: of the ring and the line.  *)
Tagged(l, n) == [i \in 1..Len(l) |-> [char |-> l[i], frame |-> n]]
Future == unread \o Tagged(line, Len(sent))

(* In f, the characters of frame n are w, in one piece from place a on.    *)
Holds(f, n, a, w) ==
  /\ a \in Nat /\ a + Len(w) <= Len(f)
  /\ \A i \in 1..Len(w) : f[a + i] = [char |-> w[i], frame |-> n]
  /\ \A i \in 1..Len(f) : f[i].frame = n => a < i /\ i <= a + Len(w)

Absent(f, n) == \A i \in 1..Len(f) : f[i].frame # n

Busy(n) == frame = n /\ (receiving \/ msgCount > 0)
Unhandled(n) == \A k \in DOMAIN handled : handled[k].frame # n
Once(n) == \E k \in DOMAIN handled : \A j \in DOMAIN handled : handled[j].frame = n <=> j = k

(* The decoder has stored k characters of m.                               *)
Taken(m, k) ==
  /\ wr = k /\ \A i \in 1..k : buf[i - 1] = Payload(m)[i]
  /\ k = 0 => prev = 0 /\ checksum = 0
  /\ k > 0 => prev = Payload(m)[k] /\ checksum = Sums(m)[k - 1]

(* What is to come then, before and after an escape.                       *)
ToCome(m, k) ==
  IF offset = 0 THEN Rest(m)[k] ELSE <<Payload(m)[k + 1] - Esc>> \o Rest(m)[k + 1]

Plain(w) == \A i \in 1..Len(w) : w[i] # Start

(* The life of a frame that is not touched on the line.                    *)
Waiting(n) ==
  ~Busy(n) /\ Unhandled(n) /\ \E a \in Nat : Holds(Future, n, a, Encode(sent[n]))
Reading(n) ==
  /\ frame = n /\ receiving /\ Unhandled(n)
  /\ \E k \in 0..(Len(sent[n]) + 1) :
       /\ Taken(sent[n], k) /\ Holds(Future, n, 0, ToCome(sent[n], k))
       /\ offset # 0 => k <= Len(sent[n]) /\ Payload(sent[n])[k + 1] \in Reserved
Decoded(n) ==
  /\ frame = n /\ msgCount = 1 /\ Absent(Future, n) /\ Unhandled(n)
  /\ msgLen = Len(sent[n]) /\ \A i \in 1..msgLen : buf[i - 1] = sent[n][i]
Dropped(n) ==
  /\ ~Busy(n) /\ Unhandled(n) /\ ~Fits(sent[n])
  /\ \E w \in Seq(Byte) :
       Holds(Future, n, 0, w) /\ Plain(w) /\ (w # <<>> => ~receiving)
Done(n) == ~Busy(n) /\ Absent(Future, n) /\ Once(n)

Tracked(n) == Waiting(n) \/ Reading(n) \/ Decoded(n) \/ Dropped(n) \/ Done(n)

(* The invariant of DeliveredIntact.                                       *)
Resting ==
  /\ receiving => msgCount = 0
  /\ pc # "loop" => ~receiving /\ msgCount = 0
BodiesMatch ==
  \A k \in DOMAIN handled :
    handled[k].frame \notin hurt => handled[k].body = sent[handled[k].frame]
AllTracked == \A n \in 1..Len(sent) : n \notin hurt => Tracked(n)
DeliverInv == ~overrun /\ ~intruded => Resting /\ BodiesMatch /\ AllTracked

(* Every message has an address and a command.                             *)
MessagesLong == \A m \in Messages : Len(m) >= 2

-----------------------------------------------------------------------------
(* Where the characters of a frame are while others come and go.           *)
LEMMA HoldsTail ==
  ASSUME NEW f \in Seq(Chars), NEW n, NEW a, NEW w \in Seq(Byte), Holds(f, n, a, w),
         a # 0, f # <<>>
  PROVE  Holds(Tail(f), n, a - 1, w)
  <1>1. a \in Nat /\ Len(f) \in Nat /\ Len(w) \in Nat /\ a - 1 \in Nat
    BY DEF Holds
  <1>2. Len(Tail(f)) = Len(f) - 1 /\ \A i \in 1..(Len(f) - 1) : Tail(f)[i] = f[i + 1]
    OBVIOUS
  <1>3. (a - 1) + Len(w) <= Len(Tail(f))
    BY <1>1, <1>2 DEF Holds
  <1>4. ASSUME NEW i \in 1..Len(w) PROVE Tail(f)[(a - 1) + i] = [char |-> w[i], frame |-> n]
    <2>1. (a - 1) + i \in 1..(Len(f) - 1) /\ ((a - 1) + i) + 1 = a + i
      BY <1>1, <1>2, <1>3
    <2> QED BY <1>2, <2>1 DEF Holds
  <1>5. ASSUME NEW i \in 1..Len(Tail(f)), Tail(f)[i].frame = n
        PROVE  a - 1 < i /\ i <= (a - 1) + Len(w)
    <2>1. i + 1 \in 1..Len(f) /\ f[i + 1].frame = n
      BY <1>1, <1>2, <1>5
    <2>2. a < i + 1 /\ i + 1 <= a + Len(w)
      BY <2>1 DEF Holds
    <2> QED BY <1>1, <2>2
  <1> QED BY <1>1, <1>3, <1>4, <1>5 DEF Holds

(* The first character of a frame is taken.                                *)
LEMMA HoldsHead ==
  ASSUME NEW f \in Seq(Chars), NEW n, NEW w \in Seq(Byte), Holds(f, n, 0, w), w # <<>>
  PROVE  /\ f # <<>> /\ Head(f) = [char |-> Head(w), frame |-> n]
         /\ Holds(Tail(f), n, 0, Tail(w))
  <1>1. Len(f) \in Nat /\ Len(w) \in Nat /\ Len(w) > 0 /\ Len(f) > 0 /\ Len(w) <= Len(f)
    BY DEF Holds
  <1>2. /\ Len(Tail(f)) = Len(f) - 1 /\ \A i \in 1..(Len(f) - 1) : Tail(f)[i] = f[i + 1]
        /\ Len(Tail(w)) = Len(w) - 1 /\ \A i \in 1..(Len(w) - 1) : Tail(w)[i] = w[i + 1]
        /\ Head(f) = f[1] /\ Head(w) = w[1]
    BY <1>1
  <1>3. f[1] = [char |-> w[1], frame |-> n]
    <2>1. 1 \in 1..Len(w) /\ 0 + 1 = 1
      BY <1>1
    <2>2. f[0 + 1] = [char |-> w[1], frame |-> n]
      BY <2>1 DEF Holds
    <2> QED BY <2>1, <2>2
  <1>4. ASSUME NEW i \in 1..Len(Tail(w)) PROVE Tail(f)[0 + i] = [char |-> Tail(w)[i], frame |-> n]
    <2>1. i + 1 \in 1..Len(w) /\ 0 + (i + 1) = i + 1 /\ 0 + i = i /\ i \in 1..(Len(f) - 1)
      BY <1>1, <1>2
    <2>2. f[0 + (i + 1)] = [char |-> w[i + 1], frame |-> n]
      BY <2>1 DEF Holds
    <2> QED BY <1>2, <2>1, <2>2
  <1>5. ASSUME NEW i \in 1..Len(Tail(f)), Tail(f)[i].frame = n
        PROVE  0 < i /\ i <= 0 + Len(Tail(w))
    <2>1. i + 1 \in 1..Len(f) /\ f[i + 1].frame = n
      BY <1>1, <1>2, <1>5
    <2>2. i + 1 <= 0 + Len(w)
      BY <2>1 DEF Holds
    <2> QED BY <1>1, <1>2, <2>2
  <1>6. 0 + Len(Tail(w)) <= Len(Tail(f))
    BY <1>1, <1>2
  <1> QED BY <1>1, <1>2, <1>3, <1>4, <1>5, <1>6 DEF Holds

(* A character of another frame comes first, or one of this frame.         *)
LEMMA HoldsFirst ==
  ASSUME NEW f \in Seq(Chars), f # <<>>, NEW n, NEW a, NEW w \in Seq(Byte), Holds(f, n, a, w)
  PROVE  /\ Head(f).frame = n => a = 0 /\ w # <<>>
         /\ Head(f).frame # n => a # 0 \/ w = <<>>
  <1>1. Len(f) \in Nat /\ Len(w) \in Nat /\ Len(f) > 0 /\ Head(f) = f[1] /\ 1 \in 1..Len(f)
        /\ a \in Nat
    BY DEF Holds
  <1>2. ASSUME f[1].frame = n PROVE a = 0 /\ w # <<>>
    <2>1. a < 1 /\ 1 <= a + Len(w)
      BY <1>1, <1>2 DEF Holds
    <2> QED BY <1>1, <2>1
  <1>3. ASSUME a = 0, w # <<>> PROVE f[1].frame = n
    <2>1. 1 \in 1..Len(w) /\ a + 1 = 1
      BY <1>1, <1>3
    <2>2. f[a + 1] = [char |-> w[1], frame |-> n]
      BY <2>1 DEF Holds
    <2> QED BY <2>1, <2>2
  <1> QED BY <1>1, <1>2, <1>3

(* A frame of which nothing is left.                                       *)
LEMMA HoldsNothing ==
  ASSUME NEW f \in Seq(Chars), NEW n
  PROVE  Holds(f, n, 0, <<>>) <=> Absent(f, n)
  <1>1. Len(<<>>) = 0 /\ Len(f) \in Nat
    OBVIOUS
  <1> QED BY <1>1 DEF Holds, Absent

LEMMA AbsentTail ==
  ASSUME NEW f \in Seq(Chars), f # <<>>, NEW n, Absent(f, n)
  PROVE  Absent(Tail(f), n) /\ Head(f).frame # n
  <1>1. /\ Len(f) \in Nat /\ Len(f) > 0 /\ Len(Tail(f)) = Len(f) - 1 /\ Head(f) = f[1]
        /\ \A i \in 1..(Len(f) - 1) : Tail(f)[i] = f[i + 1]
    OBVIOUS
  <1>2. 1 \in 1..Len(f) /\ \A i \in 1..(Len(f) - 1) : i + 1 \in 1..Len(f)
    BY <1>1
  <1> QED BY <1>1, <1>2 DEF Absent

(* Other frames behind it make no difference.                              *)
LEMMA HoldsSwap ==
  ASSUME NEW u \in Seq(Chars), NEW g \in Seq(Chars), NEW h \in Seq(Chars), NEW n,
         Absent(g, n), Absent(h, n),
         NEW a, NEW w \in Seq(Byte), a = 0 \/ w # <<>>, Holds(u \o g, n, a, w)
  PROVE  Holds(u \o h, n, a, w)
  <1>1. /\ Len(u) \in Nat /\ Len(g) \in Nat /\ Len(h) \in Nat /\ Len(w) \in Nat
        /\ Len(u \o g) = Len(u) + Len(g) /\ Len(u \o h) = Len(u) + Len(h)
        /\ \A i \in 1..Len(u) : (u \o g)[i] = u[i] /\ (u \o h)[i] = u[i]
        /\ \A i \in 1..Len(g) : (u \o g)[Len(u) + i] = g[i]
        /\ \A i \in 1..Len(h) : (u \o h)[Len(u) + i] = h[i]
    OBVIOUS
  <1> DEFINE f == u \o g
             t == u \o h
  <1>2. a \in Nat /\ a + Len(w) <= Len(f)
    BY DEF Holds
  <1> HIDE DEF f, t
  <1>3. ASSUME NEW i \in 1..Len(w) PROVE a + i \in 1..Len(u)
    <2>1. f[a + i] = [char |-> w[i], frame |-> n]
      BY DEF Holds, f
    <2>2. a + i \in 1..Len(f) /\ f[a + i].frame = n
      BY <1>1, <1>2, <2>1
    <2>3. ASSUME a + i > Len(u) PROVE FALSE
      <3>1. (a + i) - Len(u) \in 1..Len(g) /\ Len(u) + ((a + i) - Len(u)) = a + i
        BY <1>1, <1>2, <2>2, <2>3 DEF f
      <3>2. f[a + i] = g[(a + i) - Len(u)]
        BY <1>1, <3>1 DEF f
      <3> QED BY <2>2, <3>1, <3>2 DEF Absent
    <2> QED BY <1>1, <1>2, <2>2, <2>3
  <1>4. a + Len(w) <= Len(u)
    <2>1. CASE w = <<>>
      BY <1>1, <2>1
    <2>2. CASE w # <<>>
      <3>1. Len(w) \in 1..Len(w)
        BY <1>1, <2>2
      <3> QED BY <1>1, <1>2, <1>3, <3>1
    <2> QED BY <2>1, <2>2
  <1>5. a + Len(w) <= Len(t)
    BY <1>1, <1>2, <1>4 DEF t
  <1>6. ASSUME NEW i \in 1..Len(w) PROVE t[a + i] = [char |-> w[i], frame |-> n]
    <2>1. f[a + i] = [char |-> w[i], frame |-> n]
      BY DEF Holds, f
    <2>2. f[a + i] = u[a + i] /\ t[a + i] = u[a + i]
      BY <1>1, <1>3 DEF f, t
    <2> QED BY <2>1, <2>2
  <1>7. ASSUME NEW i \in 1..Len(t), t[i].frame = n PROVE a < i /\ i <= a + Len(w)
    <2>1. ASSUME i > Len(u) PROVE FALSE
      <3>1. i - Len(u) \in 1..Len(h) /\ Len(u) + (i - Len(u)) = i
        BY <1>1, <2>1 DEF t
      <3>2. t[i] = h[i - Len(u)]
        BY <1>1, <3>1 DEF t
      <3> QED BY <1>7, <3>1, <3>2 DEF Absent
    <2>2. i \in 1..Len(u) /\ i \in 1..Len(f)
      BY <1>1, <2>1 DEF f, t
    <2>3. f[i] = u[i] /\ t[i] = u[i]
      BY <1>1, <2>2 DEF f, t
    <2> QED BY <1>7, <2>2, <2>3 DEF Holds, f
  <1> QED BY <1>2, <1>5, <1>6, <1>7 DEF Holds, t

(* A frame that is sent is all there.                                      *)
LEMMA TaggedType ==
  ASSUME NEW w \in Seq(Byte), NEW n \in Nat
  PROVE  Tagged(w, n) \in Seq(Chars)
  <1>1. \A i \in 1..Len(w) : [char |-> w[i], frame |-> n] \in Chars
    BY DEF Chars
  <1> QED BY <1>1 DEF Tagged

(* A new frame is behind everything else.                                  *)
LEMMA HoldsSent ==
  ASSUME NEW u \in Seq(Chars), NEW n \in Nat, Absent(u, n), NEW w \in Seq(Byte)
  PROVE  Holds(u \o Tagged(w, n), n, Len(u), w)
  <1> DEFINE t == u \o Tagged(w, n)
  <1>1. /\ Len(u) \in Nat /\ Len(w) \in Nat /\ Len(Tagged(w, n)) = Len(w)
        /\ \A i \in 1..Len(w) : Tagged(w, n)[i] = [char |-> w[i], frame |-> n]
    BY DEF Tagged
  <1>2. /\ Len(t) = Len(u) + Len(w)
        /\ \A i \in 1..Len(u) : t[i] = u[i]
        /\ \A i \in 1..Len(w) : t[Len(u) + i] = [char |-> w[i], frame |-> n]
    <2>1. PICK g \in Seq(Chars) : g = Tagged(w, n)
      BY TaggedType
    <2>2. /\ Len(u \o g) = Len(u) + Len(g) /\ \A i \in 1..Len(u) : (u \o g)[i] = u[i]
          /\ \A i \in 1..Len(g) : (u \o g)[Len(u) + i] = g[i]
      OBVIOUS
    <2> QED BY <1>1, <2>1, <2>2
  <1> HIDE DEF t
  <1>3. ASSUME NEW i \in 1..Len(t), t[i].frame = n PROVE Len(u) < i /\ i <= Len(u) + Len(w)
    <2>1. ASSUME i <= Len(u) PROVE FALSE
      <3>1. i \in 1..Len(u)
        BY <1>1, <2>1
      <3> QED BY <1>2, <1>3, <3>1 DEF Absent
    <2> QED BY <1>1, <1>2, <2>1
  <1> QED BY <1>1, <1>2, <1>3 DEF Holds, t

(* A start byte is only at the start of a frame.                           *)
LEMMA EscapedPlain == \A c \in Byte : Plain(Escaped(c))
  <1> SUFFICES ASSUME NEW c \in Byte, NEW i \in 1..Len(Escaped(c)) PROVE Escaped(c)[i] # Start
    BY DEF Plain
  <1>1. CASE c \in Reserved
    <2>1. Escaped(c) = <<Esc, c - Esc>>
      BY <1>1 DEF Escaped
    <2>2. Esc # Start /\ c - Esc # Start
      BY <1>1 DEF Reserved, Start, Stop, Esc
    <2> QED BY <2>1, <2>2
  <1>2. CASE c \notin Reserved
    BY <1>2 DEF Escaped, Reserved
  <1> QED BY <1>1, <1>2

LEMMA PlainThen ==
  ASSUME NEW s \in Seq(Byte), NEW t \in Seq(Byte), Plain(s), Plain(t)
  PROVE  Plain(Then(s, t))
  <1>1. /\ Len(s \o t) = Len(s) + Len(t) /\ \A i \in 1..Len(s) : (s \o t)[i] = s[i]
        /\ \A i \in (Len(s) + 1)..(Len(s) + Len(t)) : (s \o t)[i] = t[i - Len(s)]
    OBVIOUS
  <1>2. ASSUME NEW i \in 1..(Len(s) + Len(t)) PROVE (s \o t)[i] # Start
    <2>1. CASE i <= Len(s)
      BY <1>1, <2>1 DEF Plain
    <2>2. CASE i > Len(s)
      <3>1. i - Len(s) \in 1..Len(t) /\ i \in (Len(s) + 1)..(Len(s) + Len(t))
        BY <2>2
      <3> QED BY <1>1, <3>1 DEF Plain
    <2> QED BY <2>1, <2>2
  <1> QED BY <1>1, <1>2 DEF Plain, Then

(* No start byte comes after the first one.                                *)
LEMMA RestPlain ==
  ASSUME NEW m \in Seq(Byte)
  PROVE  \A k \in 0..(Len(m) + 1) : Plain(Rest(m)[k])
  <1> DEFINE L == Len(m) + 1
             G == {j \in Nat : j <= L => Plain(Rest(m)[L - j])}
  <1>1. L \in Nat /\ L = Len(m) + 1 /\ Len(m) \in Nat
    OBVIOUS
  <1>2. 0 \in G
    <2>1. Plain(<<Stop>>)
      BY DEF Plain, Stop, Start
    <2>2. Rest(m)[L - 0] = <<Stop>>
      BY <1>1, RestFacts
    <2> QED BY <2>1, <2>2
  <1>3. ASSUME NEW j \in Nat, j < L, j \in G PROVE j + 1 \in G
    <2>1. PICK k \in 0..Len(m) : k = L - (j + 1) /\ k + 1 = L - j
      <3>1. L - (j + 1) \in 0..Len(m) /\ (L - (j + 1)) + 1 = L - j
        <4> HIDE DEF L
        <4> QED BY <1>1, <1>3
      <3> HIDE DEF L
      <3> QED BY <3>1
    <2>2. Rest(m)[k] = Then(Escaped(Payload(m)[k + 1]), Rest(m)[k + 1])
      BY RestFacts
    <2>3. Payload(m)[k + 1] \in Byte
      <3>1. k + 1 \in 1..Len(Payload(m)) /\ Payload(m) \in Seq(Byte)
        BY <1>1, PayloadFacts
      <3> QED BY <3>1
    <2>4. Rest(m)[k + 1] \in Seq(Byte)
      <3>1. k + 1 \in 0..(Len(m) + 1)
        BY <1>1
      <3> QED BY <3>1, RestFacts
    <2>5. Plain(Rest(m)[k + 1])
      BY <1>3, <2>1
    <2>6. Plain(Rest(m)[k])
      BY <2>2, <2>3, <2>4, <2>5, EscapedType, EscapedPlain, PlainThen
    <2> QED BY <2>1, <2>6
  <1>4. \A j \in 0..L : j \in G
    <2>1. \A j \in Nat : j < L /\ j \in G => j + 1 \in G
      BY <1>3
    <2> HIDE DEF G, L
    <2> QED BY <1>1, <1>2, <2>1, UpTo
  <1> SUFFICES ASSUME NEW k \in 0..(Len(m) + 1) PROVE Plain(Rest(m)[k])
    OBVIOUS
  <1>5. L - k \in 0..L /\ L - (L - k) = k
    BY <1>1
  <1> QED BY <1>4, <1>5

(* What comes next of a frame.                                             *)
LEMMA StopNext ==
  ASSUME NEW m \in Seq(Byte)
  PROVE  /\ Rest(m)[Len(m) + 1] # <<>> /\ Head(Rest(m)[Len(m) + 1]) = Stop
         /\ Tail(Rest(m)[Len(m) + 1]) = <<>>
  <1>1. Rest(m)[Len(m) + 1] = <<Stop>>
    BY RestFacts
  <1> QED BY <1>1

(* The second character of an escape.                                      *)
LEMMA HeadThen ==
  ASSUME NEW c, NEW w \in Seq(Byte)
  PROVE  <<c>> \o w # <<>> /\ Head(<<c>> \o w) = c /\ Tail(<<c>> \o w) = w
  <1>1. PICK S : c \in S /\ Byte \subseteq S
    <2>1. c \in {c} \cup Byte /\ Byte \subseteq {c} \cup Byte
      OBVIOUS
    <2> QED BY <2>1
  <1>2. <<c>> \in Seq(S) /\ w \in Seq(S)
    BY <1>1
  <1> QED BY <1>2

(* What comes next of a frame, with or without an escape.                  *)
LEMMA CharNext ==
  ASSUME NEW m \in Seq(Byte), NEW k \in 0..Len(m)
  PROVE  LET p == Payload(m)[k + 1] IN
           /\ p \in Byte /\ Rest(m)[k + 1] \in Seq(Byte) /\ Rest(m)[k] \in Seq(Byte)
           /\ Rest(m)[k] # <<>>
           /\ p \in Reserved =>
                Head(Rest(m)[k]) = Esc /\ Tail(Rest(m)[k]) = <<p - Esc>> \o Rest(m)[k + 1]
           /\ p \notin Reserved => Head(Rest(m)[k]) = p /\ Tail(Rest(m)[k]) = Rest(m)[k + 1]
  <1> DEFINE p == Payload(m)[k + 1]
             w == Rest(m)[k + 1]
  <1>1. k + 1 \in 1..Len(Payload(m)) /\ Payload(m) \in Seq(Byte)
    BY PayloadFacts
  <1>2. p \in Byte
    BY <1>1
  <1>3. w \in Seq(Byte) /\ Rest(m)[k] \in Seq(Byte)
    <2>1. k + 1 \in 0..(Len(m) + 1) /\ k \in 0..(Len(m) + 1)
      OBVIOUS
    <2> QED BY <2>1, RestFacts
  <1>4. Rest(m)[k] = Escaped(p) \o w
    BY RestFacts DEF Then
  <1> HIDE DEF p, w
  <1>5. CASE p \in Reserved
    <2>1. Rest(m)[k] = <<Esc, p - Esc>> \o w
      BY <1>4, <1>5 DEF Escaped
    <2>2. p - Esc \in Byte
      BY <1>5 DEF Reserved, Start, Stop, Esc, Byte
    <2>3. <<Esc, p - Esc>> \o w = <<Esc>> \o (<<p - Esc>> \o w) /\ <<p - Esc>> \o w \in Seq(Byte)
      BY <1>3, <2>2, CodesType
    <2>4. /\ Rest(m)[k] # <<>> /\ Head(Rest(m)[k]) = Esc
          /\ Tail(Rest(m)[k]) = <<p - Esc>> \o w
      BY <2>1, <2>3, HeadThen
    <2> QED BY <1>2, <1>3, <1>5, <2>4 DEF p, w
  <1>6. CASE p \notin Reserved
    <2>1. Rest(m)[k] = <<p>> \o w
      BY <1>4, <1>6 DEF Escaped
    <2> QED BY <1>2, <1>3, <1>6, <2>1, HeadThen DEF p, w
  <1> QED BY <1>5, <1>6

(* What is still to be decoded are bytes.                                  *)
LEMMA FutureType ==
  ASSUME TypeInv, FrameInv
  PROVE  /\ Future \in Seq(Chars) /\ unread \in Seq(Chars) /\ Len(sent) \in Nat
         /\ Tagged(line, Len(sent)) \in Seq(Chars)
         /\ \A n \in 1..Len(sent) : sent[n] \in Seq(Byte)
  <1>1. unread \in Seq(Chars) /\ line \in Seq(Byte) /\ sent \in Seq(Messages)
    BY DEF TypeInv, LineType
  <1>2. Len(sent) \in Nat /\ \A n \in 1..Len(sent) : sent[n] \in Messages
    BY <1>1
  <1>3. Tagged(line, Len(sent)) \in Seq(Chars)
    BY <1>1, <1>2, TaggedType
  <1>4. Future \in Seq(Chars)
    BY <1>1, <1>3 DEF Future
  <1> QED BY <1>1, <1>2, <1>3, <1>4, ByteAssumption

LEMMA ToComeType ==
  ASSUME NEW m \in Seq(Byte), NEW k \in 0..(Len(m) + 1),
         offset # 0 => k <= Len(m) /\ Payload(m)[k + 1] \in Reserved
  PROVE  ToCome(m, k) \in Seq(Byte) /\ ToCome(m, k) # <<>>
  <1>1. CASE offset = 0
    <2>1. ToCome(m, k) = Rest(m)[k] /\ Rest(m)[k] \in Seq(Byte)
      BY <1>1, RestFacts DEF ToCome
    <2>2. k \in 0..Len(m) \/ k = Len(m) + 1
      OBVIOUS
    <2> QED BY <2>1, <2>2, CharNext, StopNext
  <1>2. CASE offset # 0
    <2>1. k \in 0..Len(m) /\ Payload(m)[k + 1] \in Reserved
      BY <1>2
    <2>2. Rest(m)[k + 1] \in Seq(Byte) /\ Payload(m)[k + 1] - Esc \in Byte
      <3>1. Rest(m)[k + 1] \in Seq(Byte)
        BY <2>1, CharNext
      <3>2. Payload(m)[k + 1] - Esc \in Byte
        BY <2>1 DEF Reserved, Start, Stop, Esc, Byte
      <3> QED BY <3>1, <3>2
    <2>3. ToCome(m, k) = <<Payload(m)[k + 1] - Esc>> \o Rest(m)[k + 1]
      BY <1>2 DEF ToCome
    <2>4. <<Payload(m)[k + 1] - Esc>> \o Rest(m)[k + 1] \in Seq(Byte)
      BY <2>2
    <2> QED BY <2>2, <2>3, <2>4, HeadThen
  <1> QED BY <1>1, <1>2

(* A frame begins with a start byte.                                       *)
LEMMA EncodeNext ==
  ASSUME NEW m \in Seq(Byte)
  PROVE  /\ Encode(m) \in Seq(Byte) /\ Encode(m) # <<>> /\ Head(Encode(m)) = Start
         /\ Tail(Encode(m)) = Rest(m)[0]
  <1>1. Rest(m)[0] \in Seq(Byte)
    <2>1. 0 \in 0..(Len(m) + 1)
      OBVIOUS
    <2> QED BY <2>1, RestFacts
  <1> QED BY <1>1, EncodeFacts, HeadThen DEF Then

(* A step that touches neither the decoder nor this frame.                 *)
LEMMA KeptTracked ==
  ASSUME NEW n, sent[n] \in Seq(Byte), Tracked(n), sent'[n] = sent[n],
         UNCHANGED <<decoder, handled>>, UNCHANGED buf \/ (~receiving /\ msgCount = 0),
         Future \in Seq(Chars), Future' \in Seq(Chars),
         \A a \in Nat : \A w \in Seq(Byte) :
           (a = 0 \/ w # <<>>) /\ Holds(Future, n, a, w) => Holds(Future', n, a, w)
  PROVE  Tracked(n)'
  <1>1. UNCHANGED <<receiving, wr, offset, checksum, prev, msgLen, msgCount, frame, handled>>
    BY DEF decoder
  <1>2. Absent(Future, n) => Absent(Future', n)
    <2>1. <<>> \in Seq(Byte) /\ 0 \in Nat
      OBVIOUS
    <2>2. Holds(Future, n, 0, <<>>) => Holds(Future', n, 0, <<>>)
      BY <2>1
    <2> QED BY <2>2, HoldsNothing
  <1>3. /\ Busy(n)' <=> Busy(n)
        /\ Unhandled(n)' <=> Unhandled(n)
        /\ Once(n)' <=> Once(n)
    BY <1>1 DEF Busy, Unhandled, Once
  <1>4. CASE Waiting(n)
    <2>1. PICK a \in Nat : Holds(Future, n, a, Encode(sent[n]))
      BY <1>4 DEF Waiting
    <2>2. Holds(Future', n, a, Encode(sent[n]))
      BY <2>1, EncodeNext
    <2> QED BY <1>3, <1>4, <2>2 DEF Waiting, Tracked
  <1>5. CASE Reading(n)
    <2>1. PICK k \in 0..(Len(sent[n]) + 1) :
            /\ Taken(sent[n], k) /\ Holds(Future, n, 0, ToCome(sent[n], k))
            /\ offset # 0 => k <= Len(sent[n]) /\ Payload(sent[n])[k + 1] \in Reserved
      BY <1>5 DEF Reading
    <2>2. ToCome(sent[n], k) \in Seq(Byte)
      BY <2>1, ToComeType
    <2>3. Holds(Future', n, 0, ToCome(sent[n], k))
      BY <2>1, <2>2
    <2>4. ToCome(sent[n], k)' = ToCome(sent[n], k)
      BY <1>1 DEF ToCome
    <2>5. UNCHANGED buf
      BY <1>5 DEF Reading
    <2>6. Taken(sent[n], k)'
      BY <1>1, <2>1, <2>5 DEF Taken
    <2>7. Reading(n)'
      BY <1>1, <1>3, <1>5, <2>1, <2>3, <2>4, <2>6 DEF Reading
    <2> QED BY <2>7 DEF Tracked
  <1>6. CASE Decoded(n)
    BY <1>1, <1>2, <1>3, <1>6 DEF Decoded, Tracked
  <1>7. CASE Dropped(n)
    <2>1. PICK w \in Seq(Byte) : Holds(Future, n, 0, w) /\ Plain(w) /\ (w # <<>> => ~receiving)
      BY <1>7 DEF Dropped
    <2>2. Holds(Future', n, 0, w)
      BY <2>1
    <2> QED BY <1>1, <1>3, <1>7, <2>1, <2>2 DEF Dropped, Tracked
  <1>8. CASE Done(n)
    BY <1>2, <1>3, <1>8 DEF Done, Tracked
  <1> QED BY <1>4, <1>5, <1>6, <1>7, <1>8 DEF Tracked

(* The decoder takes the next character of this frame.                     *)
LEMMA ReadStop ==
  ASSUME TypeInv, NEW n, NEW c, sent[n] \in Seq(Byte), Len(sent[n]) >= 2, frame = n, receiving,
         msgCount = 0, Taken(sent[n], Len(sent[n]) + 1), c.char = Stop, End(c)
  PROVE  /\ frame' = n /\ msgCount' = 1 /\ msgLen' = Len(sent[n])
         /\ \A i \in 1..msgLen' : buf'[i - 1] = sent[n][i]
  <1> DEFINE m == sent[n]
             L == Len(m)
  <1>1. L \in Nat /\ L >= 2
    OBVIOUS
  <1>2. /\ wr = L + 1 /\ \A i \in 1..(L + 1) : buf[i - 1] = Payload(m)[i]
        /\ checksum = Sums(m)[(L + 1) - 1]
    BY <1>1 DEF Taken
  <1>3. (L + 1) - 1 = L /\ L + 1 \in 1..(L + 1)
    BY <1>1
  <1>4. buf[wr - 1] = Payload(m)[L + 1]
    BY <1>2, <1>3
  <1>5. Complete
    BY <1>1, <1>2, <1>3, <1>4, PayloadFacts DEF Complete
  <1>6. msgCount' = msgCount + 1 /\ msgLen' = wr - 1 /\ UNCHANGED <<buf, frame>>
    BY <1>5 DEF End
  <1>7. ASSUME NEW i \in 1..L PROVE buf[i - 1] = m[i]
    <2>1. i \in 1..(L + 1)
      BY <1>1
    <2> QED BY <1>2, <2>1, PayloadFacts
  <1>8. msgLen' = L
    BY <1>2, <1>3, <1>6
  <1> QED BY <1>6, <1>7, <1>8

(* A character is stored with the sum of those before it, or has no room.  *)
LEMMA ReadChar ==
  ASSUME TypeInv, NEW n, NEW c, NEW k \in 0..Len(sent[n]), sent[n] \in Seq(Byte),
         Taken(sent[n], k), (c.char + offset) % 256 = Payload(sent[n])[k + 1], Store(c)
  PROVE  /\ UNCHANGED <<frame, msgCount>> /\ offset' = 0
         /\ receiving' => wr' = k + 1 /\ \A i \in 1..(k + 1) : buf'[i - 1] = Payload(sent[n])[i]
         /\ prev' = Payload(sent[n])[k + 1] /\ checksum' = Sums(sent[n])[k]
         /\ ~receiving' => ~Fits(sent[n])
  <1> DEFINE m == sent[n]
             p == Payload(m)[k + 1]
  <1>1. Len(m) \in Nat /\ k \in Nat /\ k <= Len(m)
    OBVIOUS
  <1>2. /\ buf' = [buf EXCEPT ![wr] = p] /\ prev' = p /\ checksum' = (checksum + prev) % 256
        /\ offset' = 0 /\ UNCHANGED <<frame, msgCount>>
        /\ IF wr < BufSize - 1 THEN wr' = wr + 1 /\ UNCHANGED receiving
           ELSE receiving' = FALSE /\ UNCHANGED wr
    BY DEF Store
  <1>3. wr = k /\ wr \in 0..(BufSize - 1) /\ buf \in [0..(BufSize - 1) -> Byte] /\ BufSize \in Nat
    BY SizeFacts DEF Taken, TypeInv, LineType, ProtocolTypeOK
  <1> HIDE DEF p
  <1>4. ASSUME NEW i \in 1..(k + 1) PROVE buf'[i - 1] = Payload(m)[i]
    <2>1. CASE i = k + 1
      <3>1. i - 1 = wr /\ wr \in DOMAIN buf
        BY <1>1, <1>3, <2>1
      <3> QED BY <1>2, <2>1, <3>1 DEF p
    <2>2. CASE i \in 1..k
      <3>1. i - 1 # wr /\ i - 1 \in 0..(BufSize - 1)
        BY <1>1, <1>3, <2>2
      <3>2. buf'[i - 1] = buf[i - 1]
        BY <1>2, <1>3, <3>1
      <3> QED BY <2>2, <3>2 DEF Taken
    <2> QED BY <1>1, <2>1, <2>2
  <1>5. checksum' = Sums(m)[k]
    <2>1. CASE k = 0
      <3>1. checksum = 0 /\ prev = 0
        BY <2>1 DEF Taken
      <3>2. Sums(m)[0] = 0
        BY SumsFacts
      <3> QED BY <1>2, <2>1, <3>1, <3>2
    <2>2. CASE k > 0
      <3>1. k \in 1..Len(m)
        BY <1>1, <2>2
      <3>2. checksum = Sums(m)[k - 1] /\ prev = Payload(m)[k]
        BY <2>2 DEF Taken
      <3>3. Payload(m)[k] = m[k]
        BY <3>1, PayloadFacts
      <3>4. Sums(m)[k] = (Sums(m)[k - 1] + m[k]) % 256
        BY <3>1, SumsFacts
      <3> QED BY <1>2, <3>2, <3>3, <3>4
    <2> QED BY <1>1, <2>1, <2>2
  <1>6. wr < BufSize - 1 => wr' = k + 1
    BY <1>2, <1>3
  <1>7. ~(wr < BufSize - 1) => ~Fits(m)
    BY <1>1, <1>3 DEF Fits
  <1>8. (receiving' => wr < BufSize - 1) /\ (~receiving' => ~(wr < BufSize - 1))
    <2>1. receiving
      BY DEF Store
    <2> QED BY <1>2, <2>1
  <1> QED BY <1>2, <1>4, <1>5, <1>6, <1>7, <1>8 DEF p

(* The decoder takes the first character that is still to come.            *)
LEMMA FirstUnread ==
  ASSUME TypeInv, FrameInv, Decode, UNCHANGED <<line, sent>>
  PROVE  /\ Future # <<>> /\ Future' = Tail(Future) /\ Future' \in Seq(Chars)
         /\ Head(Future) = Head(unread) /\ Head(unread) \in Chars
  <1>1. unread # <<>> /\ unread' = Tail(unread)
    BY DEF Decode
  <1>2. PICK g \in Seq(Chars) : g = Tagged(line, Len(sent)) /\ g = Tagged(line', Len(sent'))
    BY FutureType
  <1>3. unread \in Seq(Chars)
    BY FutureType
  <1>4. /\ unread \o g # <<>> /\ Tail(unread \o g) = Tail(unread) \o g
        /\ Head(unread \o g) = Head(unread) /\ Head(unread) \in Chars
        /\ Tail(unread) \o g \in Seq(Chars)
    BY <1>1, <1>3
  <1> QED BY <1>1, <1>2, <1>4 DEF Future

(* A character of another frame.                                           *)
LEMMA OtherRead ==
  ASSUME TypeInv, FrameInv, Decode, UNCHANGED <<line, sent, handled>>,
         NEW n \in 1..Len(sent), Tracked(n), Head(unread).frame # n
  PROVE  Tracked(n)'
  <1> DEFINE c == Head(unread)
  <1>1. /\ Future # <<>> /\ Future' = Tail(Future) /\ Future' \in Seq(Chars)
        /\ Head(Future) = c /\ Future \in Seq(Chars) /\ sent[n] \in Seq(Byte)
    BY FirstUnread, FutureType
  <1>2. msgCount = 0 /\ (Skip(c) \/ Begin(c) \/ End(c) \/ Escape(c) \/ Store(c))
    BY DEF Decode
  <1> HIDE DEF c
  <1>3. c.frame # n
    BY DEF c
  <1>4. Unhandled(n)' = Unhandled(n) /\ Once(n)' = Once(n)
    BY DEF Unhandled, Once
  <1>5. ASSUME ~Busy(n) PROVE ~Busy(n)'
    <2>1. CASE frame = n
      <3>1. ~receiving
        BY <1>5, <2>1 DEF Busy
      <3>2. Skip(c) \/ Begin(c)
        BY <1>2, <3>1 DEF End, Escape, Store
      <3>3. CASE Skip(c)
        BY <1>5, <3>3 DEF Skip, decoder, Busy
      <3>4. CASE Begin(c)
        BY <1>3, <3>4 DEF Begin, Busy
      <3> QED BY <3>2, <3>3, <3>4
    <2>2. CASE frame # n
      <3>1. frame' # n
        BY <1>2, <1>3, <2>2 DEF Skip, Begin, End, Escape, Store, decoder
      <3> QED BY <3>1 DEF Busy
    <2> QED BY <2>1, <2>2
  <1>6. Absent(Future, n) => Absent(Future', n)
    BY <1>1, AbsentTail
  <1>7. CASE Waiting(n)
    <2>1. PICK a \in Nat : Holds(Future, n, a, Encode(sent[n]))
      BY <1>7 DEF Waiting
    <2>2. Encode(sent[n]) \in Seq(Byte) /\ Encode(sent[n]) # <<>>
      BY <1>1, EncodeNext
    <2>3. a # 0
      BY <1>1, <1>3, <2>1, <2>2, HoldsFirst
    <2>4. Holds(Future', n, a - 1, Encode(sent[n])) /\ a - 1 \in Nat
      BY <1>1, <2>1, <2>2, <2>3, HoldsTail
    <2>5. Waiting(n)'
      BY <1>4, <1>5, <1>7, <2>4 DEF Waiting
    <2> QED BY <2>5 DEF Tracked
  <1>8. CASE Reading(n)
    <2>1. PICK k \in 0..(Len(sent[n]) + 1) :
            /\ Holds(Future, n, 0, ToCome(sent[n], k))
            /\ offset # 0 => k <= Len(sent[n]) /\ Payload(sent[n])[k + 1] \in Reserved
      BY <1>8 DEF Reading
    <2>2. ToCome(sent[n], k) \in Seq(Byte) /\ ToCome(sent[n], k) # <<>>
      BY <1>1, <2>1, ToComeType
    <2>3. FALSE
      BY <1>1, <1>3, <2>1, <2>2, HoldsFirst
    <2> QED BY <2>3
  <1>9. CASE Decoded(n)
    BY <1>2, <1>9 DEF Decoded
  <1>10. CASE Dropped(n)
    <2>1. PICK w \in Seq(Byte) : Holds(Future, n, 0, w)
      BY <1>10 DEF Dropped
    <2>2. w = <<>>
      BY <1>1, <1>3, <2>1, HoldsFirst
    <2>3. Holds(Future', n, 0, <<>>)
      BY <1>1, <1>6, <2>1, <2>2, HoldsNothing
    <2>4. <<>> \in Seq(Byte) /\ Plain(<<>>)
      BY DEF Plain
    <2>5. Dropped(n)'
      BY <1>4, <1>5, <1>10, <2>3, <2>4 DEF Dropped
    <2> QED BY <2>5 DEF Tracked
  <1>11. CASE Done(n)
    BY <1>4, <1>5, <1>6, <1>11 DEF Done, Tracked
  <1> QED BY <1>7, <1>8, <1>9, <1>10, <1>11 DEF Tracked

LEMMA ByteStays == \A x \in Byte : (x + 0) % 256 = x
  <1>1. ASSUME NEW x \in 0..255 PROVE (x + 0) % 256 = x
    OBVIOUS
  <1> QED BY <1>1 DEF Byte

(* A character of this frame.                                              *)
LEMMA OwnRead ==
  ASSUME TypeInv, FrameInv, Decode, UNCHANGED <<line, sent, handled>>,
         NEW n \in 1..Len(sent), Len(sent[n]) >= 2, Tracked(n), Head(unread).frame = n
  PROVE  Tracked(n)'
  <1> DEFINE c == Head(unread)
             m == sent[n]
  <1>1. /\ Future # <<>> /\ Future' = Tail(Future) /\ Future' \in Seq(Chars)
        /\ Head(Future) = c /\ Future \in Seq(Chars) /\ m \in Seq(Byte) /\ c \in Chars
    BY FirstUnread, FutureType
  <1>2. msgCount = 0 /\ (Skip(c) \/ Begin(c) \/ End(c) \/ Escape(c) \/ Store(c))
    BY DEF Decode
  <1> HIDE DEF c
  <1>3. c.frame = n
    BY DEF c
  <1>4. Unhandled(n)' = Unhandled(n)
    BY DEF Unhandled
  <1>5. ASSUME NEW w \in Seq(Byte), w # <<>>, Holds(Future, n, 0, w)
        PROVE  c.char = Head(w) /\ Holds(Future', n, 0, Tail(w)) /\ Tail(w) \in Seq(Byte)
    <2>1. Head(Future) = [char |-> Head(w), frame |-> n] /\ Holds(Tail(Future), n, 0, Tail(w))
      BY <1>1, <1>5, HoldsHead
    <2>2. Tail(w) \in Seq(Byte)
      BY <1>5
    <2> QED BY <1>1, <2>1, <2>2
  <1>6. CASE Waiting(n)
    <2>1. PICK a \in Nat : Holds(Future, n, a, Encode(m))
      BY <1>6 DEF Waiting
    <2>2. /\ Encode(m) \in Seq(Byte) /\ Encode(m) # <<>> /\ Head(Encode(m)) = Start
          /\ Tail(Encode(m)) = Rest(m)[0]
      BY <1>1, EncodeNext
    <2>3. a = 0
      BY <1>1, <1>3, <2>1, <2>2, HoldsFirst
    <2>4. c.char = Start /\ Holds(Future', n, 0, Rest(m)[0])
      BY <1>5, <2>1, <2>2, <2>3
    <2>5. Begin(c)
      BY <1>2, <2>4 DEF Skip, End, Escape, Store, Start, Stop, Esc, Reserved
    <2>6. /\ frame' = n /\ receiving' /\ offset' = 0 /\ wr' = 0 /\ prev' = 0 /\ checksum' = 0
      BY <1>3, <2>5 DEF Begin
    <2>7. Taken(m, 0)'
      BY <2>6 DEF Taken
    <2>8. ToCome(m, 0)' = Rest(m)[0]
      BY <2>6 DEF ToCome
    <2>9. 0 \in 0..(Len(m) + 1)
      BY <1>1
    <2>10. Reading(n)'
      BY <1>4, <1>6, <2>4, <2>6, <2>7, <2>8, <2>9 DEF Reading, Waiting
    <2> QED BY <2>10 DEF Tracked
  <1>7. CASE Reading(n)
    <2>1. PICK k \in 0..(Len(m) + 1) :
            /\ Taken(m, k) /\ Holds(Future, n, 0, ToCome(m, k))
            /\ offset # 0 => k <= Len(m) /\ Payload(m)[k + 1] \in Reserved
      BY <1>7 DEF Reading
    <2>2. ToCome(m, k) \in Seq(Byte) /\ ToCome(m, k) # <<>>
      BY <1>1, <2>1, ToComeType
    <2>3. c.char = Head(ToCome(m, k)) /\ Holds(Future', n, 0, Tail(ToCome(m, k)))
      BY <1>5, <2>1, <2>2
    <2>4. frame = n /\ receiving /\ Unhandled(n) /\ offset \in {0, Esc} /\ Len(m) \in Nat
      BY <1>1, <1>7 DEF Reading, TypeInv, LineType, ProtocolTypeOK
    <2>5. CASE k = Len(m) + 1
      <3>1. offset = 0
        BY <2>1, <2>4, <2>5
      <3>2. ToCome(m, k) = Rest(m)[Len(m) + 1]
        BY <2>5, <3>1 DEF ToCome
      <3>3. c.char = Stop /\ Holds(Future', n, 0, <<>>)
        BY <1>1, <2>3, <3>2, StopNext
      <3>4. End(c)
        BY <1>2, <2>4, <3>3 DEF Skip, Begin, Escape, Store, Start, Stop, Esc, Reserved
      <3>5. /\ frame' = n /\ msgCount' = 1 /\ msgLen' = Len(m)
            /\ \A i \in 1..msgLen' : buf'[i - 1] = m[i]
        BY <1>1, <1>2, <2>1, <2>4, <2>5, <3>3, <3>4, ReadStop
      <3>6. Absent(Future', n)
        BY <1>1, <3>3, HoldsNothing
      <3>7. Decoded(n)'
        BY <1>4, <2>4, <3>5, <3>6 DEF Decoded
      <3> QED BY <3>7 DEF Tracked
    <2>6. CASE k # Len(m) + 1
      <3> DEFINE p == Payload(m)[k + 1]
      <3>1. k \in 0..Len(m) /\ k + 1 \in 0..(Len(m) + 1)
        BY <2>4, <2>6
      <3>2. /\ p \in Byte /\ Rest(m)[k + 1] \in Seq(Byte)
            /\ p \in Reserved =>
                 Head(Rest(m)[k]) = Esc /\ Tail(Rest(m)[k]) = <<p - Esc>> \o Rest(m)[k + 1]
            /\ p \notin Reserved => Head(Rest(m)[k]) = p /\ Tail(Rest(m)[k]) = Rest(m)[k + 1]
        BY <1>1, <3>1, CharNext
      <3>3. CASE offset = 0 /\ p \in Reserved
        <4>1. c.char = Esc /\ Holds(Future', n, 0, <<p - Esc>> \o Rest(m)[k + 1])
          BY <2>3, <3>2, <3>3 DEF ToCome
        <4>2. Escape(c)
          BY <1>2, <2>4, <4>1 DEF Skip, Begin, End, Store, Start, Stop, Esc, Reserved
        <4>3. /\ offset' = Esc
              /\ UNCHANGED <<buf, receiving, wr, checksum, prev, frame>>
          BY <4>2 DEF Escape
        <4>4. Esc # 0
          BY DEF Esc
        <4>5. ToCome(m, k)' = <<p - Esc>> \o Rest(m)[k + 1]
          BY <4>3, <4>4 DEF ToCome
        <4>6. Taken(m, k)'
          BY <2>1, <4>3 DEF Taken
        <4>7. offset' # 0 => k <= Len(m) /\ Payload(m)[k + 1] \in Reserved
          BY <3>1, <3>3
        <4>8. Reading(n)'
          BY <1>4, <2>4, <4>1, <4>3, <4>5, <4>6, <4>7 DEF Reading
        <4> QED BY <4>8 DEF Tracked
      <3>4. CASE offset # 0 \/ p \notin Reserved
        <4>1. /\ c.char \notin Reserved /\ (c.char + offset) % 256 = p
              /\ Holds(Future', n, 0, Rest(m)[k + 1])
          <5>1. CASE offset = 0
            <6>1. c.char = p /\ Holds(Future', n, 0, Rest(m)[k + 1])
              BY <2>3, <3>2, <3>4, <5>1 DEF ToCome
            <6>2. \A x \in Byte : (x + 0) % 256 = x
              BY ByteStays
            <6>3. p \in Byte
              BY <3>2
            <6> HIDE DEF p
            <6>4. (p + 0) % 256 = p
              BY <6>2, <6>3
            <6> QED BY <3>4, <5>1, <6>1, <6>4
          <5>2. CASE offset # 0
            <6>1. offset = Esc /\ p \in Reserved
              BY <2>1, <2>4, <5>2
            <6>2. ToCome(m, k) = <<p - Esc>> \o Rest(m)[k + 1]
              BY <5>2 DEF ToCome
            <6>3. c.char = p - Esc /\ Holds(Future', n, 0, Rest(m)[k + 1])
              BY <2>3, <3>2, <6>2, HeadThen
            <6>4. p - Esc \notin Reserved /\ ((p - Esc) + Esc) % 256 = p
              BY <6>1 DEF Reserved, Start, Stop, Esc
            <6> QED BY <6>1, <6>3, <6>4
          <5> QED BY <5>1, <5>2
        <4>2. Store(c)
          BY <1>2, <2>4, <4>1 DEF Skip, Begin, End, Escape, Reserved
        <4>3. /\ UNCHANGED <<frame, msgCount>> /\ offset' = 0
              /\ receiving' => /\ wr' = k + 1
                               /\ \A i \in 1..(k + 1) : buf'[i - 1] = Payload(m)[i]
              /\ prev' = Payload(m)[k + 1] /\ checksum' = Sums(m)[k]
              /\ ~receiving' => ~Fits(m)
          BY <1>1, <2>1, <3>1, <4>1, <4>2, ReadChar
        <4>4. CASE receiving'
          <5>1. k + 1 > 0 /\ (k + 1) - 1 = k
            BY <3>1
          <5>2. Taken(m, k + 1)'
            BY <4>3, <4>4, <5>1 DEF Taken
          <5>3. ToCome(m, k + 1)' = Rest(m)[k + 1]
            BY <4>3 DEF ToCome
          <5>4. Reading(n)'
            BY <1>4, <2>4, <3>1, <4>1, <4>3, <4>4, <5>2, <5>3 DEF Reading
          <5> QED BY <5>4 DEF Tracked
        <4>5. CASE ~receiving'
          <5>1. ~Busy(n)'
            BY <1>2, <4>3, <4>5 DEF Busy
          <5>2. Plain(Rest(m)[k + 1])
            BY <1>1, <3>1, RestPlain
          <5>3. Dropped(n)'
            BY <1>4, <2>4, <3>2, <4>1, <4>3, <4>5, <5>1, <5>2 DEF Dropped, Fits
          <5> QED BY <5>3 DEF Tracked
        <4> QED BY <4>4, <4>5
      <3> QED BY <3>3, <3>4
    <2> QED BY <2>5, <2>6
  <1>8. CASE Decoded(n)
    BY <1>2, <1>8 DEF Decoded
  <1>9. CASE Dropped(n)
    <2>1. PICK w \in Seq(Byte) : Holds(Future, n, 0, w) /\ Plain(w) /\ (w # <<>> => ~receiving)
      BY <1>9 DEF Dropped
    <2>2. w # <<>>
      BY <1>1, <1>3, <2>1, HoldsFirst
    <2>3. c.char = Head(w) /\ Holds(Future', n, 0, Tail(w)) /\ Tail(w) \in Seq(Byte)
      BY <1>5, <2>1, <2>2
    <2>4. Head(w) # Start /\ Plain(Tail(w))
      <3>1. /\ Len(w) \in Nat /\ Len(w) > 0 /\ Head(w) = w[1] /\ Len(Tail(w)) = Len(w) - 1
            /\ \A i \in 1..(Len(w) - 1) : Tail(w)[i] = w[i + 1] /\ i + 1 \in 1..Len(w)
        BY <2>2
      <3>2. 1 \in 1..Len(w)
        BY <3>1
      <3> QED BY <2>1, <3>1, <3>2 DEF Plain
    <2>5. Skip(c)
      BY <1>2, <2>1, <2>2, <2>3, <2>4 DEF Begin, End, Escape, Store
    <2>6. UNCHANGED <<receiving, msgCount, frame>>
      BY <2>5 DEF Skip, decoder
    <2>7. ~Busy(n)' /\ (Tail(w) # <<>> => ~receiving')
      BY <1>9, <2>1, <2>2, <2>6 DEF Dropped, Busy
    <2>8. Dropped(n)'
      BY <1>4, <1>9, <2>3, <2>4, <2>7 DEF Dropped, Fits
    <2> QED BY <2>8 DEF Tracked
  <1>10. CASE Done(n)
    BY <1>1, <1>3, <1>10, AbsentTail DEF Done
  <1> QED BY <1>6, <1>7, <1>8, <1>9, <1>10 DEF Tracked

(* Handling a message.                                                     *)
LEMMA HandleGrows ==
  ASSUME TypeInv, FrameInv, Handle
  PROVE  \E L \in Nat :
           /\ DOMAIN handled = 1..L /\ DOMAIN handled' = 1..(L + 1)
           /\ \A k \in 1..L : handled'[k] = handled[k]
           /\ handled'[L + 1] = [frame |-> frame, body |-> [i \in 1..msgLen |-> buf[i - 1]]]
           /\ frame \in 1..Len(sent) /\ \A k \in 1..L : handled[k].frame \in 1..Len(sent)
  <1> DEFINE S == [frame : 1..Len(sent), body : Seq(Byte)]
             r == [frame |-> frame, body |-> [i \in 1..msgLen |-> buf[i - 1]]]
  <1>1. frame \in 1..Len(sent) /\ handled \in Seq(S) /\ handled' = Append(handled, r)
    BY DEF Handle, FrameInv
  <1>2. r \in S
    <2>1. msgLen \in Nat /\ \A i \in 1..msgLen : buf[i - 1] \in Byte
      BY SizeFacts DEF TypeInv, LineType, ProtocolTypeOK, BufferHoldsArray
    <2>2. [i \in 1..msgLen |-> buf[i - 1]] \in Seq(Byte)
      BY <2>1
    <2> QED BY <1>1, <2>2
  <1>3. \A x \in S : x.frame \in 1..Len(sent)
    OBVIOUS
  <1> HIDE DEF S, r
  <1>4. /\ Len(handled) \in Nat /\ DOMAIN handled = 1..Len(handled)
        /\ DOMAIN handled' = 1..(Len(handled) + 1)
        /\ \A k \in 1..Len(handled) : handled'[k] = handled[k] /\ handled[k] \in S
        /\ handled'[Len(handled) + 1] = r
    BY <1>1, <1>2
  <1> QED BY <1>1, <1>3, <1>4 DEF r

(* The frame that was decoded is done, the others stay what they are.      *)
LEMMA HandleTracked ==
  ASSUME TypeInv, FrameInv, Handle, receiving => msgCount = 0,
         NEW n \in 1..Len(sent), Tracked(n)
  PROVE  Tracked(n)'
  <1>1. /\ msgCount > 0 /\ msgCount' = 0 /\ ~receiving
        /\ UNCHANGED <<receiving, frame, sent, unread, line>>
    BY DEF Handle, wireVars
  <1>2. Future' = Future
    BY <1>1 DEF Future, Tagged
  <1>3. ~Busy(n)'
    BY <1>1 DEF Busy
  <1>4. PICK L \in Nat :
           /\ DOMAIN handled = 1..L /\ DOMAIN handled' = 1..(L + 1)
           /\ \A k \in 1..L : handled'[k] = handled[k]
           /\ handled'[L + 1] = [frame |-> frame, body |-> [i \in 1..msgLen |-> buf[i - 1]]]
    BY HandleGrows
  <1>5. handled'[L + 1].frame = frame
    BY <1>4
  <1>6. CASE frame = n
    <2>1. Decoded(n)
      BY <1>1, <1>6 DEF Tracked, Waiting, Reading, Dropped, Done, Busy
    <2>2. Once(n)'
      <3>1. \A j \in 1..L : handled'[j].frame # n
        BY <1>4, <2>1 DEF Decoded, Unhandled
      <3>2. L + 1 \in DOMAIN handled' /\ \A j \in DOMAIN handled' : j \in 1..L \/ j = L + 1
        BY <1>4
      <3>3. \A j \in DOMAIN handled' : handled'[j].frame = n <=> j = L + 1
        BY <1>6, <1>5, <3>1, <3>2
      <3> QED BY <3>2, <3>3 DEF Once
    <2> QED BY <1>2, <1>3, <2>1, <2>2 DEF Decoded, Done, Tracked
  <1>7. CASE frame # n
    <2>1. Unhandled(n) => Unhandled(n)'
      BY <1>4, <1>7, <1>5 DEF Unhandled
    <2>2. Once(n) => Once(n)'
      <3>1. ASSUME NEW k \in DOMAIN handled,
                   \A j \in DOMAIN handled : handled[j].frame = n <=> j = k
            PROVE  \A j \in DOMAIN handled' : handled'[j].frame = n <=> j = k
        BY <1>4, <1>7, <1>5, <3>1
      <3>2. \A k \in DOMAIN handled : k \in DOMAIN handled'
        BY <1>4
      <3> QED BY <3>1, <3>2 DEF Once
    <2>3. CASE Waiting(n)
      BY <1>1, <1>2, <1>3, <2>1, <2>3 DEF Waiting, Tracked
    <2>4. CASE Dropped(n)
      BY <1>1, <1>2, <1>3, <2>1, <2>4 DEF Dropped, Tracked
    <2>5. CASE Done(n)
      BY <1>2, <1>3, <2>2, <2>5 DEF Done, Tracked
    <2> QED BY <1>1, <1>7, <2>3, <2>4, <2>5 DEF Tracked, Reading, Decoded
  <1> QED BY <1>6, <1>7

(* What is handled is what was sent.                                       *)
LEMMA HandleBodies ==
  ASSUME TypeInv, FrameInv, Handle, receiving => msgCount = 0,
         BodiesMatch, frame \notin hurt => Tracked(frame)
  PROVE  BodiesMatch'
  <1>1. msgCount > 0 /\ ~receiving /\ UNCHANGED <<hurt, sent>>
    BY DEF Handle, wireVars
  <1>2. PICK L \in Nat :
           /\ DOMAIN handled = 1..L /\ DOMAIN handled' = 1..(L + 1)
           /\ \A k \in 1..L : handled'[k] = handled[k]
           /\ handled'[L + 1] = [frame |-> frame, body |-> [i \in 1..msgLen |-> buf[i - 1]]]
           /\ frame \in 1..Len(sent)
    BY HandleGrows
  <1>3. ASSUME frame \notin hurt PROVE [i \in 1..msgLen |-> buf[i - 1]] = sent[frame]
    <2>1. Decoded(frame)
      BY <1>1, <1>3 DEF Tracked, Waiting, Reading, Dropped, Done, Busy
    <2>2. sent[frame] \in Seq(Byte)
      BY <1>2, FutureType
    <2>3. msgLen = Len(sent[frame]) /\ \A i \in 1..msgLen : buf[i - 1] = sent[frame][i]
      BY <2>1 DEF Decoded
    <2> QED BY <2>2, <2>3
  <1>4. handled'[L + 1].frame = frame /\ handled'[L + 1].body = [i \in 1..msgLen |-> buf[i - 1]]
    BY <1>2
  <1> SUFFICES ASSUME NEW k \in 1..(L + 1), handled'[k].frame \notin hurt
               PROVE  handled'[k].body = sent[handled'[k].frame]
    BY <1>1, <1>2 DEF BodiesMatch
  <1>5. CASE k = L + 1
    BY <1>3, <1>4, <1>5
  <1>6. CASE k # L + 1
    BY <1>2, <1>6 DEF BodiesMatch
  <1> QED BY <1>5, <1>6

(* A start of the application: only the frames that were handled are left. *)
LEMMA RestartTracked ==
  ASSUME TypeInv, FrameInv, Restart, NEW n \in 1..Len(sent), n \notin hurt', Tracked(n)
  PROVE  Tracked(n)'
  <1>1. /\ ~receiving' /\ msgCount' = 0 /\ unread' = <<>> /\ line' = <<>>
        /\ UNCHANGED <<handled, sent>>
        /\ hurt' = hurt \cup (1..Len(sent) \ {handled[k].frame : k \in DOMAIN handled})
    BY DEF Restart, ProtocolReset
  <1>2. ~Unhandled(n)
    BY <1>1 DEF Unhandled
  <1>3. Once(n)'
    BY <1>1, <1>2 DEF Tracked, Waiting, Reading, Decoded, Dropped, Done, Once
  <1>4. Future' = <<>>
    BY <1>1 DEF Future, Tagged
  <1>5. Absent(Future', n)
    BY <1>4 DEF Absent
  <1>6. ~Busy(n)'
    BY <1>1 DEF Busy
  <1> QED BY <1>3, <1>5, <1>6 DEF Done, Tracked

(* A character goes from the line into the ring.                           *)
LEMMA MovesOver ==
  ASSUME NEW u \in Seq(Chars), NEW l \in Seq(Byte), l # <<>>, NEW n \in Nat
  PROVE  Append(u, [char |-> Head(l), frame |-> n]) \o Tagged(Tail(l), n) = u \o Tagged(l, n)
  <1>1. PICK g \in Seq(Chars) : g = Tagged(l, n)
    BY TaggedType
  <1>2. PICK t \in Seq(Byte) : t = Tail(l)
    <2>1. Tail(l) \in Seq(Byte)
      BY SeqFacts
    <2> QED BY <2>1
  <1>3. PICK h \in Seq(Chars) : h = Tagged(t, n)
    BY TaggedType
  <1>4. PICK c \in Chars : c = [char |-> Head(l), frame |-> n]
    <2>1. Head(l) \in Byte
      BY SeqFacts
    <2> QED BY <2>1 DEF Chars
  <1>5. /\ Len(g) = Len(l) /\ Len(h) = Len(l) - 1 /\ Len(l) > 0
        /\ g[1] = c /\ \A i \in 1..(Len(l) - 1) : h[i] = g[i + 1]
    <2>1. /\ Len(l) > 0 /\ Len(t) = Len(l) - 1 /\ l[1] = Head(l)
          /\ \A i \in 1..(Len(l) - 1) : t[i] = l[i + 1]
      BY <1>2
    <2>2. Len(g) = Len(l) /\ \A i \in 1..Len(l) : g[i] = [char |-> l[i], frame |-> n]
      BY <1>1 DEF Tagged
    <2>3. Len(h) = Len(t) /\ \A i \in 1..Len(t) : h[i] = [char |-> t[i], frame |-> n]
      BY <1>3 DEF Tagged
    <2>4. 1 \in 1..Len(l) /\ \A i \in 1..(Len(l) - 1) : i + 1 \in 1..Len(l)
      BY <2>1
    <2> QED BY <1>4, <2>1, <2>2, <2>3, <2>4
  <1>6. PICK x \in Seq(Chars) : x = Append(u, c) \o h
    <2>1. Append(u, c) \o h \in Seq(Chars)
      OBVIOUS
    <2> QED BY <2>1
  <1>7. PICK y \in Seq(Chars) : y = u \o g
    <2>1. u \o g \in Seq(Chars)
      OBVIOUS
    <2> QED BY <2>1
  <1>8. /\ Len(x) = Len(u) + 1 + Len(h)
        /\ \A i \in 1..Len(u) : x[i] = u[i]
        /\ x[Len(u) + 1] = c
        /\ \A i \in 1..Len(h) : x[Len(u) + 1 + i] = h[i]
    BY <1>6
  <1>9. /\ Len(y) = Len(u) + Len(g)
        /\ \A i \in 1..Len(u) : y[i] = u[i]
        /\ \A i \in 1..Len(g) : y[Len(u) + i] = g[i]
    BY <1>7
  <1>10. Len(x) = Len(y)
    BY <1>5, <1>8, <1>9
  <1>11. ASSUME NEW i \in 1..Len(x) PROVE x[i] = y[i]
    <2>1. CASE i <= Len(u)
      BY <1>8, <1>9, <2>1
    <2>2. CASE i = Len(u) + 1
      <3>1. 1 \in 1..Len(g)
        BY <1>5
      <3> QED BY <1>5, <1>8, <1>9, <2>2, <3>1
    <2>3. CASE i > Len(u) + 1
      <3>1. PICK j \in 1..Len(h) : i = Len(u) + 1 + j
        <4>1. Len(u) \in Nat /\ Len(h) \in Nat /\ i \in Nat /\ i <= Len(u) + 1 + Len(h)
          BY <1>8
        <4>2. i - (Len(u) + 1) \in 1..Len(h) /\ i = Len(u) + 1 + (i - (Len(u) + 1))
          BY <2>3, <4>1
        <4> QED BY <4>2
      <3>2. j + 1 \in 1..Len(g) /\ i = Len(u) + (j + 1) /\ h[j] = g[j + 1]
        BY <1>5, <3>1
      <3>3. y[i] = g[j + 1]
        BY <1>9, <3>2
      <3>4. x[i] = h[j]
        BY <1>8, <3>1
      <3> QED BY <3>2, <3>3, <3>4
    <2> QED BY <2>1, <2>2, <2>3
  <1>12. x = y
    BY <1>10, <1>11
  <1> QED BY <1>1, <1>2, <1>3, <1>4, <1>6, <1>7, <1>12

(* What comes over the line for another frame makes no difference.         *)
LEMMA OthersStay ==
  ASSUME NEW u \in Seq(Chars), NEW l \in Seq(Byte), NEW x \in Nat, NEW k \in Seq(Byte),
         NEW y \in Nat, NEW n, n # x \/ l = <<>>, n # y
  PROVE  /\ u \o Tagged(l, x) \in Seq(Chars) /\ u \o Tagged(k, y) \in Seq(Chars)
         /\ \A a \in Nat : \A w \in Seq(Byte) :
              (a = 0 \/ w # <<>>) /\ Holds(u \o Tagged(l, x), n, a, w)
                => Holds(u \o Tagged(k, y), n, a, w)
  <1>1. PICK g \in Seq(Chars) : g = Tagged(l, x)
    BY TaggedType
  <1>2. PICK h \in Seq(Chars) : h = Tagged(k, y)
    BY TaggedType
  <1>3. Absent(g, n)
    <2>1. Len(g) = Len(l) /\ \A i \in 1..Len(l) : g[i].frame = x
      BY <1>1 DEF Tagged
    <2>2. l = <<>> => Len(l) = 0
      OBVIOUS
    <2> QED BY <2>1, <2>2 DEF Absent
  <1>4. Absent(h, n)
    <2>1. Len(h) = Len(k) /\ \A i \in 1..Len(k) : h[i].frame = y
      BY <1>2 DEF Tagged
    <2> QED BY <2>1 DEF Absent
  <1>5. u \o g \in Seq(Chars) /\ u \o h \in Seq(Chars)
    OBVIOUS
  <1>6. \A a \in Nat : \A w \in Seq(Byte) :
              (a = 0 \/ w # <<>>) /\ Holds(u \o g, n, a, w) => Holds(u \o h, n, a, w)
    BY <1>3, <1>4, HoldsSwap
  <1> QED BY <1>1, <1>2, <1>5, <1>6

(* A frame waits from the moment it is sent.                               *)
LEMMA SendTracked ==
  ASSUME TypeInv, FrameInv, NEW m \in Messages, Send(m),
         NEW n \in 1..Len(sent'), n \in 1..Len(sent) => Tracked(n)
  PROVE  Tracked(n)'
  <1>1. /\ line = <<>> /\ line' = Encode(m) /\ sent' = Append(sent, m)
        /\ UNCHANGED <<unread, buf, decoder, handled>>
    BY DEF Send, protocolVars, KeepApplication
  <1>2. PICK N \in Nat : N = Len(sent) /\ Len(sent') = N + 1 /\ sent'[N + 1] = m
                         /\ \A i \in 1..N : sent'[i] = sent[i]
    BY <1>1 DEF TypeInv, LineType
  <1>3. m \in Seq(Byte) /\ Encode(m) \in Seq(Byte) /\ <<>> \in Seq(Byte)
    BY ByteAssumption, EncodeNext
  <1>4. unread \in Seq(Chars)
    BY FutureType
  <1>5. Future = unread \o Tagged(<<>>, N) /\ Future' = unread \o Tagged(Encode(m), N + 1)
    BY <1>1, <1>2 DEF Future
  <1>6. CASE n \in 1..N
    <2>1. n # N + 1 /\ N + 1 \in Nat
      BY <1>6
    <2>2. /\ Future \in Seq(Chars) /\ Future' \in Seq(Chars)
          /\ \A a \in Nat : \A w \in Seq(Byte) :
               (a = 0 \/ w # <<>>) /\ Holds(Future, n, a, w) => Holds(Future', n, a, w)
      BY <1>3, <1>4, <1>5, <2>1, OthersStay
    <2>3. sent[n] \in Seq(Byte) /\ sent'[n] = sent[n] /\ Tracked(n)
      BY <1>2, <1>6, FutureType
    <2> QED BY <1>1, <2>2, <2>3, KeptTracked
  <1>7. CASE n \notin 1..N
    <2>1. n = N + 1 /\ sent'[n] = m
      BY <1>2, <1>7
    <2>2. ~Busy(n)'
      <3>1. ~Busy(n)
        BY <1>2, <2>1 DEF FrameInv, Busy
      <3> QED BY <1>1, <3>1 DEF Busy, decoder
    <2>3. Unhandled(n)'
      <3>1. \A k \in DOMAIN handled : handled[k].frame \in 1..N
        <4>1. \A k \in DOMAIN handled : handled[k] \in [frame : 1..N, body : Seq(Byte)]
          BY <1>2, SeqFacts DEF FrameInv
        <4> QED BY <4>1
      <3> QED BY <1>1, <2>1, <3>1 DEF Unhandled
    <2>4. Absent(unread, n)
      <3>1. \A i \in DOMAIN unread : unread[i] \in [char : Byte, frame : 1..N]
        BY <1>2, SeqFacts DEF FrameInv
      <3>2. \A i \in 1..Len(unread) : i \in DOMAIN unread
        BY <1>4
      <3> QED BY <2>1, <3>1, <3>2 DEF Absent
    <2>5. n \in Nat /\ Len(unread) \in Nat
      BY <1>4, <2>1
    <2>6. Holds(Future', n, Len(unread), Encode(m))
      BY <1>3, <1>4, <1>5, <2>1, <2>4, <2>5, HoldsSent
    <2>7. Waiting(n)'
      BY <2>1, <2>2, <2>3, <2>5, <2>6 DEF Waiting
    <2> QED BY <2>7 DEF Tracked
  <1> QED BY <1>6, <1>7

(* In the ring it is the same character.                                   *)
LEMMA ArriveTracked ==
  ASSUME TypeInv, FrameInv, Arrive, ~overrun',
         NEW n \in 1..Len(sent), Tracked(n)
  PROVE  Tracked(n)'
  <1>1. /\ line # <<>> /\ line' = Tail(line) /\ line \in Seq(Byte)
        /\ unread' = Append(unread, [char |-> Head(line), frame |-> Len(sent)])
        /\ UNCHANGED <<sent, buf, decoder, handled>>
    BY DEF Arrive, Receive, KeepApplication, TypeInv, LineType
  <1>2. Future \in Seq(Chars) /\ unread \in Seq(Chars) /\ Len(sent) \in Nat /\ sent[n] \in Seq(Byte)
    BY FutureType
  <1>3. Future' = Future
    BY <1>1, <1>2, MovesOver DEF Future
  <1>4. \A a \in Nat : \A w \in Seq(Byte) :
           (a = 0 \/ w # <<>>) /\ Holds(Future, n, a, w) => Holds(Future', n, a, w)
    BY <1>3
  <1> QED BY <1>1, <1>2, <1>3, <1>4, KeptTracked

(* Only the last frame can be hurt.                                        *)
LEMMA HarmTracked ==
  ASSUME TypeInv, FrameInv, Harm,
         NEW n \in 1..Len(sent), n \notin hurt', Tracked(n)
  PROVE  Tracked(n)'
  <1>1. /\ line # <<>> /\ line \in Seq(Byte) /\ n # Len(sent)
        /\ UNCHANGED <<sent, unread, buf, decoder, handled>>
    BY DEF Harm, protocolVars, KeepApplication, TypeInv, LineType
  <1>2. unread \in Seq(Chars) /\ Len(sent) \in Nat /\ sent[n] \in Seq(Byte)
    BY FutureType
  <1>3. line' \in Seq(Byte)
    <2>1. Tail(line) \in Seq(Byte)
      BY <1>1, SeqFacts
    <2>2. \A c \in Garble : c \in Byte
      BY ByteAssumption
    <2>3. line' = Tail(line) \/ \E c \in Byte : line' = <<c>> \o Tail(line)
      BY <2>2 DEF Harm
    <2>4. \A c \in Byte : \A t \in Seq(Byte) : <<c>> \o t \in Seq(Byte)
      OBVIOUS
    <2> QED BY <2>1, <2>3, <2>4
  <1>4. /\ Future \in Seq(Chars) /\ Future' \in Seq(Chars)
        /\ \A a \in Nat : \A w \in Seq(Byte) :
             (a = 0 \/ w # <<>>) /\ Holds(Future, n, a, w) => Holds(Future', n, a, w)
    <2>1. Future = unread \o Tagged(line, Len(sent)) /\ Future' = unread \o Tagged(line', Len(sent))
      BY <1>1 DEF Future
    <2> QED BY <1>1, <1>2, <1>3, <2>1, OthersStay
  <1> QED BY <1>1, <1>2, <1>4, KeptTracked

(* The steps of the main loop that take no character.                      *)
LEMMA QuietTracked ==
  ASSUME TypeInv, FrameInv, UNCHANGED <<unread, decoder, wireVars, handled>>,
         UNCHANGED buf \/ (~receiving /\ msgCount = 0),
         NEW n \in 1..Len(sent), Tracked(n)
  PROVE  Tracked(n)'
  <1>1. UNCHANGED <<sent, unread, line>>
    BY DEF wireVars
  <1>2. Future \in Seq(Chars) /\ sent[n] \in Seq(Byte)
    BY FutureType
  <1>3. Future' = Future
    BY <1>1 DEF Future
  <1> QED BY <1>1, <1>2, <1>3, KeptTracked

(* A step of the decoder.                                                  *)
LEMMA ProtocolTracked ==
  ASSUME TypeInv, FrameInv, MessagesLong, Protocol, NEW n \in 1..Len(sent), Tracked(n)
  PROVE  Tracked(n)'
  <1>1. Decode /\ UNCHANGED <<line, sent, handled>>
    BY DEF Protocol, wireVars, KeepApplication
  <1>2. Len(sent[n]) >= 2
    <2>1. sent[n] \in Messages
      BY DEF TypeInv, LineType
    <2> QED BY <2>1 DEF MessagesLong
  <1>3. CASE Head(unread).frame = n
    BY <1>1, <1>2, <1>3, OwnRead
  <1>4. CASE Head(unread).frame # n
    BY <1>1, <1>4, OtherRead
  <1> QED BY <1>3, <1>4

(* Neither mark is ever taken back.                                        *)
LEMMA MarksStay ==
  ASSUME [Next]_vars, ~overrun', ~intruded'
  PROVE  ~overrun /\ ~intruded /\ ~SecondCpuMessage
  <1>1. CASE UNCHANGED vars
    BY <1>1 DEF vars, protocolVars, hist, SecondCpuMessage
  <1>2. CASE \E m \in Messages : Send(m)
    BY <1>2 DEF Send, protocolVars, KeepApplication, SecondCpuMessage
  <1>3. CASE Arrive
    BY <1>3 DEF Arrive, Receive, KeepApplication, SecondCpuMessage
  <1>4. CASE Harm
    BY <1>4 DEF Harm, protocolVars, KeepApplication, SecondCpuMessage
  <1>5. CASE Protocol
    BY <1>5 DEF Protocol, Decode, KeepApplication, SecondCpuMessage
  <1>6. CASE Handle
    BY <1>6 DEF Handle, SecondCpuMessage
  <1>7. CASE SwitchPartition
    BY <1>7 DEF SwitchPartition, KeepDecoder, hist, SecondCpuMessage
  <1>8. CASE SecondCpuMessage
    BY <1>8 DEF SecondCpuMessage
  <1>9. CASE Restart
    BY <1>9 DEF Restart, ProtocolReset, SecondCpuMessage
  <1>10. CASE \E r \in I2cWrites : I2cRequest(r)
    BY <1>10 DEF I2cRequest, KeepDecoder, SecondCpuMessage
  <1> QED BY <1>1, <1>2, <1>3, <1>4, <1>5, <1>6, <1>7, <1>8, <1>9, <1>10 DEF Next

(* The four parts of the invariant, action by action.                      *)
LEMMA DeliverInvNext ==
  MessagesLong /\ TypeInv /\ FrameInv /\ DeliverInv /\ [Next]_vars => DeliverInv'
  <1> SUFFICES ASSUME MessagesLong, TypeInv, FrameInv, DeliverInv, [Next]_vars,
                      ~overrun', ~intruded'
               PROVE  Resting' /\ BodiesMatch' /\ AllTracked'
    BY DEF DeliverInv
  <1>1. Resting /\ BodiesMatch /\ AllTracked /\ ~SecondCpuMessage
    BY MarksStay DEF DeliverInv
  <1>2. msgCount \in 0..1
    BY DEF TypeInv, LineType, ProtocolTypeOK
  <1>3. CASE /\ UNCHANGED <<unread, decoder, wireVars, handled>>
             /\ UNCHANGED <<buf, pc>> \/ (pc # "loop" /\ SwitchPartition)
    <2>1. UNCHANGED <<receiving, msgCount, sent, hurt>>
      BY <1>3 DEF decoder, wireVars
    <2>2. Resting'
      BY <1>1, <1>3, <2>1 DEF Resting
    <2>3. BodiesMatch'
      BY <1>1, <1>3, <2>1 DEF BodiesMatch
    <2>4. ASSUME NEW n \in 1..Len(sent), n \notin hurt PROVE Tracked(n)'
      <3>1. Tracked(n)
        BY <1>1, <2>4 DEF AllTracked
      <3>2. UNCHANGED buf \/ (~receiving /\ msgCount = 0)
        BY <1>1, <1>3 DEF Resting
      <3> QED BY <1>3, <3>1, <3>2, QuietTracked
    <2> QED BY <2>1, <2>2, <2>3, <2>4 DEF AllTracked
  <1>4. CASE UNCHANGED vars
    BY <1>3, <1>4 DEF vars, protocolVars, hist
  <1>5. CASE SwitchPartition
    <2>1. pc # "loop"
      BY <1>5 DEF SwitchPartition, Swap, EraseContext, WriteContext, Assign
    <2>2. UNCHANGED <<unread, decoder, wireVars, handled>>
      BY <1>5 DEF SwitchPartition, KeepDecoder, hist
    <2> QED BY <1>3, <1>5, <2>1, <2>2
  <1>6. CASE \E r \in I2cWrites : I2cRequest(r)
    BY <1>3, <1>6 DEF I2cRequest, KeepDecoder, Silent
  <1>7. CASE \E m \in Messages : Send(m)
    <2>1. PICK m \in Messages : Send(m)
      BY <1>7
    <2>2. /\ UNCHANGED <<decoder, handled, hurt, pc>> /\ sent' = Append(sent, m)
          /\ Len(sent') = Len(sent) + 1 /\ Len(sent) \in Nat
          /\ \A n \in 1..Len(sent) : sent'[n] = sent[n]
      BY <2>1 DEF Send, protocolVars, KeepApplication, TypeInv, LineType
    <2>3. Resting'
      BY <1>1, <2>2 DEF Resting, decoder
    <2>4. BodiesMatch'
      <3>1. \A k \in DOMAIN handled : handled[k].frame \in 1..Len(sent)
        <4>1. \A k \in DOMAIN handled : handled[k] \in [frame : 1..Len(sent), body : Seq(Byte)]
          BY SeqFacts DEF FrameInv
        <4> QED BY <4>1
      <3> QED BY <1>1, <2>2, <3>1 DEF BodiesMatch
    <2>5. ASSUME NEW n \in 1..Len(sent'), n \notin hurt PROVE Tracked(n)'
      <3>1. n \in 1..Len(sent) => Tracked(n)
        BY <1>1, <2>5 DEF AllTracked
      <3> QED BY <2>1, <3>1, SendTracked
    <2> QED BY <2>2, <2>3, <2>4, <2>5 DEF AllTracked
  <1>8. CASE Arrive
    <2>1. UNCHANGED <<decoder, handled, sent, hurt, pc>>
      BY <1>8 DEF Arrive, Receive, KeepApplication
    <2>2. Resting' /\ BodiesMatch'
      BY <1>1, <2>1 DEF Resting, BodiesMatch, decoder
    <2>3. ASSUME NEW n \in 1..Len(sent), n \notin hurt PROVE Tracked(n)'
      BY <1>1, <1>8, <2>3, ArriveTracked DEF AllTracked
    <2> QED BY <2>1, <2>2, <2>3 DEF AllTracked
  <1>9. CASE Harm
    <2>1. UNCHANGED <<decoder, handled, sent, pc>> /\ \A n : n \notin hurt' => n \notin hurt
      BY <1>9 DEF Harm, protocolVars, KeepApplication
    <2>2. Resting' /\ BodiesMatch'
      BY <1>1, <2>1 DEF Resting, BodiesMatch, decoder
    <2>3. ASSUME NEW n \in 1..Len(sent), n \notin hurt' PROVE Tracked(n)'
      <3>1. Tracked(n)
        BY <1>1, <2>1, <2>3 DEF AllTracked
      <3> QED BY <1>9, <2>3, <3>1, HarmTracked
    <2> QED BY <2>1, <2>2, <2>3 DEF AllTracked
  <1>10. CASE Protocol
    <2>1. pc = "loop" /\ Decode /\ UNCHANGED <<handled, sent, hurt, pc>>
      BY <1>10 DEF Protocol, wireVars, KeepApplication
    <2>2. Resting'
      BY <1>1, <2>1 DEF Resting, Decode, Skip, Begin, End, Escape, Store, decoder
    <2>3. BodiesMatch'
      BY <1>1, <2>1 DEF BodiesMatch
    <2>4. ASSUME NEW n \in 1..Len(sent), n \notin hurt PROVE Tracked(n)'
      BY <1>1, <1>10, <2>4, ProtocolTracked DEF AllTracked
    <2> QED BY <2>1, <2>2, <2>3, <2>4 DEF AllTracked
  <1>11. CASE Handle
    <2>1. /\ receiving => msgCount = 0
          /\ msgCount > 0 /\ msgCount' = 0 /\ UNCHANGED <<receiving, sent, hurt>>
      BY <1>1, <1>11 DEF Handle, wireVars, Resting
    <2>2. Resting'
      BY <1>2, <2>1 DEF Resting
    <2>3. BodiesMatch'
      <3>1. frame \notin hurt => Tracked(frame)
        BY <1>1, <2>1 DEF FrameInv, AllTracked
      <3> QED BY <1>1, <1>11, <2>1, <3>1, HandleBodies
    <2>4. ASSUME NEW n \in 1..Len(sent), n \notin hurt PROVE Tracked(n)'
      BY <1>1, <1>11, <2>1, <2>4, HandleTracked DEF AllTracked
    <2> QED BY <2>1, <2>2, <2>3, <2>4 DEF AllTracked
  <1>12. CASE Restart
    <2>1. /\ ~receiving' /\ msgCount' = 0 /\ UNCHANGED <<handled, sent>>
          /\ \A n : n \notin hurt' => n \notin hurt
      BY <1>12 DEF Restart, ProtocolReset
    <2>2. Resting' /\ BodiesMatch'
      BY <1>1, <2>1 DEF Resting, BodiesMatch
    <2>3. ASSUME NEW n \in 1..Len(sent), n \notin hurt' PROVE Tracked(n)'
      <3>1. Tracked(n)
        BY <1>1, <2>1, <2>3 DEF AllTracked
      <3> QED BY <1>12, <2>3, <3>1, RestartTracked
    <2> QED BY <2>1, <2>2, <2>3 DEF AllTracked
  <1> QED BY <1>1, <1>4, <1>5, <1>6, <1>7, <1>8, <1>9, <1>10, <1>11, <1>12 DEF Next

(* On a quiet line every frame that was tracked and fits was handled.      *)
LEMMA QuietDone ==
  ASSUME TypeInv, FrameInv, Resting, line = <<>>, unread = <<>>, msgCount = 0,
         NEW n \in 1..Len(sent), Tracked(n), Fits(sent[n])
  PROVE  Counts(n) = 1
  <1>1. Future = <<>>
    BY DEF Future, Tagged
  <1>2. ASSUME NEW a, NEW w \in Seq(Byte), w # <<>>, Holds(Future, n, a, w) PROVE FALSE
    <2>1. Len(w) \in Nat /\ Len(w) > 0 /\ Len(Future) = 0
      BY <1>1, <1>2
    <2> QED BY <1>2, <2>1 DEF Holds
  <1>3. sent[n] \in Seq(Byte)
    BY FutureType
  <1>4. ~Waiting(n)
    BY <1>2, <1>3, EncodeNext DEF Waiting
  <1>5. ~Reading(n)
    BY <1>2, <1>3, ToComeType DEF Reading
  <1>6. Once(n)
    BY <1>4, <1>5 DEF Tracked, Decoded, Dropped, Done
  <1>7. PICK k \in DOMAIN handled : {j \in DOMAIN handled : handled[j].frame = n} = {k}
    BY <1>6 DEF Once
  <1> QED BY <1>7, FS_Singleton DEF Counts

LEMMA DeliverInvInit == Init => FrameInv /\ DeliverInv
  <1> SUFFICES ASSUME Init PROVE FrameInv /\ DeliverInv
    OBVIOUS
  <1>1. FrameInv
    BY DEF Init, ProtocolInit, FrameInv
  <1>2. /\ ~receiving /\ msgCount = 0 /\ pc = "loop" /\ handled = <<>> /\ Len(sent) = 0
    BY DEF Init, ProtocolInit
  <1>3. DOMAIN handled = {} /\ 1..Len(sent) = {}
    BY <1>2
  <1>4. DeliverInv
    BY <1>2, <1>3 DEF DeliverInv, Resting, BodiesMatch, AllTracked
  <1> QED BY <1>1, <1>4

(* A frame that is not touched on the line is handled exactly as it was    *)
(* sent, and once, for every content and every number of messages: neither *)
(* the frames before it, hurt or too long, nor resets, partition switches  *)
(* and I2C requests in between change it.                                  *)
THEOREM DeliveredAsSent ==
  BufferHoldsArray /\ MessagesLong /\ Spec => []DeliveredIntact
  <1> DEFINE Inv == MessagesLong /\ TypeInv /\ FrameInv /\ DeliverInv
  <1>1. BufferHoldsArray /\ MessagesLong /\ Init => Inv
    <2> SUFFICES ASSUME BufferHoldsArray, MessagesLong, Init PROVE Inv
      OBVIOUS
    <2>1. FrameInv /\ DeliverInv
      BY DeliverInvInit
    <2> QED BY <2>1, TypeInvInit
  <1>2. Inv /\ [Next]_vars => Inv'
    BY TypeInvNext, FrameInvNext, DeliverInvNext DEF MessagesLong
  <1>3. Inv => DeliveredIntact
    <2> SUFFICES ASSUME TypeInv, FrameInv, DeliverInv, ~overrun, ~intruded
                 PROVE  /\ BodiesMatch
                        /\ line = <<>> /\ unread = <<>> /\ msgCount = 0 =>
                             \A n \in DOMAIN sent \ hurt : Fits(sent[n]) => Counts(n) = 1
      BY DEF DeliveredIntact, BodiesMatch
    <2>1. Resting /\ BodiesMatch /\ AllTracked
      BY DEF DeliverInv
    <2>2. DOMAIN sent = 1..Len(sent)
      BY DEF TypeInv, LineType
    <2> QED BY <2>1, <2>2, QuietDone DEF AllTracked
  <1> HIDE DEF Inv
  <1> QED BY <1>1, <1>2, <1>3, PTL DEF Spec

-----------------------------------------------------------------------------
(* The order of the messages: the frames in the ring are in the order in   *)
(* which they were sent, behind the one in the decoder and those handled.  *)
OrderInv ==
  /\ \A i, j \in 1..Len(unread) : i <= j => unread[i].frame <= unread[j].frame
  /\ \A k \in DOMAIN handled, i \in 1..Len(unread) : handled[k].frame <= unread[i].frame
  /\ \A i, j \in DOMAIN handled : i <= j => handled[i].frame <= handled[j].frame
  /\ receiving \/ msgCount > 0 =>
       /\ \A i \in 1..Len(unread) : frame <= unread[i].frame
       /\ \A k \in DOMAIN handled : handled[k].frame <= frame

LEMMA FrameNumbers ==
  ASSUME TypeInv, FrameInv
  PROVE  /\ Len(unread) \in Nat /\ Len(sent) \in Nat
         /\ \A i \in 1..Len(unread) : unread[i].frame \in 1..Len(sent)
         /\ \A k \in DOMAIN handled : handled[k].frame \in 1..Len(sent)
         /\ receiving \/ msgCount > 0 => frame \in 1..Len(sent)
  <1>1. Len(unread) \in Nat /\ Len(sent) \in Nat /\ DOMAIN unread = 1..Len(unread)
    BY FutureType
  <1>2. \A i \in DOMAIN unread : unread[i] \in [char : Byte, frame : 1..Len(sent)]
    BY SeqFacts DEF FrameInv
  <1>3. \A k \in DOMAIN handled : handled[k] \in [frame : 1..Len(sent), body : Seq(Byte)]
    BY SeqFacts DEF FrameInv
  <1> QED BY <1>1, <1>2, <1>3 DEF FrameInv

(* A character that arrives belongs to the last frame.                     *)
LEMMA ArriveOrder ==
  ASSUME TypeInv, FrameInv, OrderInv, Arrive
  PROVE  OrderInv'
  <1>1. UNCHANGED <<receiving, msgCount, frame, handled>>
    BY DEF Arrive, Receive, decoder, KeepApplication
  <1>2. CASE unread' = <<>>
    BY <1>1, <1>2 DEF OrderInv
  <1>3. CASE unread' # <<>>
    <2>1. PICK c : unread' = Append(unread, c) /\ c.frame = Len(sent)
      BY <1>3 DEF Arrive, Receive
    <2>2. PICK L \in Nat : L = Len(unread) /\ Len(unread') = L + 1 /\ unread'[L + 1] = c
                           /\ \A i \in 1..L : unread'[i] = unread[i]
      BY <2>1, FutureType
    <2>3. \A i \in 1..(L + 1) :
            \/ i \in 1..L /\ unread'[i].frame = unread[i].frame
            \/ i = L + 1 /\ unread'[i].frame = Len(sent)
      BY <2>1, <2>2
    <2>4. \A i, j \in 1..(L + 1) : i <= j => unread'[i].frame <= unread'[j].frame
      <3> SUFFICES ASSUME NEW i \in 1..(L + 1), NEW j \in 1..(L + 1), i <= j
                   PROVE  unread'[i].frame <= unread'[j].frame
        OBVIOUS
      <3>1. CASE j \in 1..L
        <4>1. i \in 1..L
          BY <3>1
        <4> QED BY <2>2, <3>1, <4>1 DEF OrderInv
      <3>2. CASE j = L + 1
        <4>1. unread'[i].frame \in 1..Len(sent) \/ unread'[i].frame = Len(sent)
          BY <2>2, <2>3, FrameNumbers
        <4>2. Len(sent) \in Nat
          BY FrameNumbers
        <4>3. unread'[j].frame = Len(sent)
          BY <2>1, <2>2, <3>2
        <4> QED BY <4>1, <4>2, <4>3
      <3> QED BY <3>1, <3>2
    <2>5. \A n \in 1..Len(sent) : n <= Len(sent)
      BY FrameNumbers
    <2>6. \A k \in DOMAIN handled, i \in 1..(L + 1) : handled[k].frame <= unread'[i].frame
      BY <2>2, <2>3, <2>5, FrameNumbers DEF OrderInv
    <2>7. receiving \/ msgCount > 0 => \A i \in 1..(L + 1) : frame <= unread'[i].frame
      BY <2>2, <2>3, <2>5, FrameNumbers DEF OrderInv
    <2> QED BY <1>1, <2>2, <2>4, <2>6, <2>7 DEF OrderInv
  <1> QED BY <1>2, <1>3

(* The decoder goes from a frame only to a later one.                      *)
LEMMA ProtocolOrder ==
  ASSUME TypeInv, FrameInv, OrderInv, Protocol
  PROVE  OrderInv'
  <1>1. /\ Decode /\ msgCount = 0 /\ UNCHANGED handled
        /\ unread # <<>> /\ unread' = Tail(unread)
    BY DEF Protocol, Decode, KeepApplication
  <1>2. PICK L \in Nat : /\ Len(unread) = L + 1 /\ Len(unread') = L /\ Head(unread) = unread[1]
                         /\ \A i \in 1..L : unread'[i] = unread[i + 1] /\ i + 1 \in 1..(L + 1)
    <2>1. unread \in Seq(Chars) /\ Len(unread) - 1 \in Nat
      BY <1>1, FutureType
    <2>2. /\ Len(unread) = (Len(unread) - 1) + 1 /\ Len(unread') = Len(unread) - 1
          /\ Head(unread) = unread[1]
          /\ \A i \in 1..(Len(unread) - 1) : unread'[i] = unread[i + 1] /\ i + 1 \in 1..Len(unread)
      BY <1>1, <2>1
    <2> QED BY <2>1, <2>2
  <1>3. \A i, j \in 1..L : i <= j => unread'[i].frame <= unread'[j].frame
    BY <1>2 DEF OrderInv
  <1>4. \A k \in DOMAIN handled, i \in 1..L : handled[k].frame <= unread'[i].frame
    BY <1>2 DEF OrderInv
  <1>5. 1 \in 1..(L + 1) /\ \A i \in 1..L : 1 <= i + 1
    OBVIOUS
  <1>6. \A i \in 1..L : unread[1].frame <= unread'[i].frame
    BY <1>2, <1>5 DEF OrderInv
  <1>7. \A k \in DOMAIN handled : handled[k].frame <= unread[1].frame
    BY <1>2, <1>5 DEF OrderInv
  <1>8. CASE Begin(Head(unread))
    <2>1. frame' = unread[1].frame
      BY <1>2, <1>8 DEF Begin
    <2> QED BY <1>1, <1>2, <1>3, <1>4, <1>6, <1>7, <2>1 DEF OrderInv
  <1>9. CASE ~Begin(Head(unread))
    <2>1. UNCHANGED frame /\ (receiving' \/ msgCount' > 0 => receiving \/ msgCount > 0)
      BY <1>1, <1>9 DEF Decode, Skip, End, Escape, Store, decoder
    <2>2. receiving \/ msgCount > 0 => \A i \in 1..L : frame <= unread'[i].frame
      BY <1>2 DEF OrderInv
    <2> QED BY <1>1, <1>2, <1>3, <1>4, <2>1, <2>2 DEF OrderInv
  <1> QED BY <1>8, <1>9

LEMMA HandleOrder ==
  ASSUME TypeInv, FrameInv, OrderInv, Handle
  PROVE  OrderInv'
  <1>1. msgCount > 0 /\ UNCHANGED <<unread, receiving, frame>> /\ msgCount' = 0
    BY DEF Handle
  <1>2. PICK L \in Nat :
           /\ DOMAIN handled = 1..L /\ DOMAIN handled' = 1..(L + 1)
           /\ \A k \in 1..L : handled'[k] = handled[k]
           /\ handled'[L + 1] = [frame |-> frame, body |-> [i \in 1..msgLen |-> buf[i - 1]]]
           /\ frame \in 1..Len(sent)
    BY HandleGrows
  <1>3. handled'[L + 1].frame = frame /\ frame <= frame
    BY <1>2, FrameNumbers
  <1>4. \A k \in 1..(L + 1) : (k \in 1..L /\ handled'[k] = handled[k]) \/ k = L + 1
    BY <1>2
  <1>5. /\ \A k \in DOMAIN handled, i \in 1..Len(unread) : handled[k].frame <= unread[i].frame
        /\ \A i, j \in 1..Len(unread) : i <= j => unread[i].frame <= unread[j].frame
        /\ \A i \in 1..Len(unread) : frame <= unread[i].frame
        /\ \A k \in DOMAIN handled : handled[k].frame <= frame
    BY <1>1 DEF OrderInv
  <1>6. \A k \in 1..(L + 1), i \in 1..Len(unread) : handled'[k].frame <= unread[i].frame
    BY <1>2, <1>3, <1>4, <1>5
  <1>7. \A k \in 1..(L + 1) : handled'[k].frame <= frame
    BY <1>2, <1>3, <1>4, <1>5
  <1>8. \A i, j \in 1..(L + 1) : i <= j => handled'[i].frame <= handled'[j].frame
    <2> SUFFICES ASSUME NEW i \in 1..(L + 1), NEW j \in 1..(L + 1), i <= j
                 PROVE  handled'[i].frame <= handled'[j].frame
      OBVIOUS
    <2>1. CASE j \in 1..L
      <3>1. i \in 1..L
        BY <2>1
      <3> QED BY <1>2, <2>1, <3>1 DEF OrderInv
    <2>2. CASE j = L + 1
      BY <1>3, <1>7, <2>2
    <2> QED BY <2>1, <2>2
  <1> QED BY <1>1, <1>2, <1>5, <1>6, <1>7, <1>8 DEF OrderInv

LEMMA OrderInvNext == TypeInv /\ FrameInv /\ OrderInv /\ [Next]_vars => OrderInv'
  <1> SUFFICES ASSUME TypeInv, FrameInv, OrderInv, [Next]_vars PROVE OrderInv'
    OBVIOUS
  <1>1. CASE UNCHANGED <<unread, receiving, msgCount, frame, handled>>
    BY <1>1 DEF OrderInv
  <1>2. CASE UNCHANGED vars
    BY <1>1, <1>2 DEF vars, protocolVars, decoder, hist
  <1>3. CASE \E m \in Messages : Send(m)
    BY <1>1, <1>3 DEF Send, protocolVars, decoder, KeepApplication
  <1>4. CASE Harm
    BY <1>1, <1>4 DEF Harm, protocolVars, decoder, KeepApplication
  <1>5. CASE SwitchPartition
    BY <1>1, <1>5 DEF SwitchPartition, KeepDecoder, decoder, hist
  <1>6. CASE SecondCpuMessage
    BY <1>1, <1>6 DEF SecondCpuMessage, KeepDecoder, decoder
  <1>7. CASE \E r \in I2cWrites : I2cRequest(r)
    BY <1>1, <1>7 DEF I2cRequest, KeepDecoder, decoder
  <1>8. CASE Restart
    <2>1. unread' = <<>> /\ ~receiving' /\ msgCount' = 0 /\ UNCHANGED handled
      BY <1>8 DEF Restart, ProtocolReset
    <2>2. 1..Len(unread') = {} /\ ~(receiving' \/ msgCount' > 0)
      BY <2>1
    <2> QED BY <2>1, <2>2 DEF OrderInv
  <1> QED
    BY <1>2, <1>3, <1>4, <1>5, <1>6, <1>7, <1>8, ArriveOrder, ProtocolOrder, HandleOrder DEF Next

(* How the steps of the link are steps of the channel.                     *)
LEMMA DeliveriesKept ==
  ASSUME TypeInv, FrameInv, UNCHANGED handled,
         \A n \in 1..Len(sent) : sent'[n] = sent[n]
  PROVE  Deliveries' = Deliveries
  <1>1. \A k \in DOMAIN handled : handled[k].frame \in 1..Len(sent)
    BY FrameNumbers
  <1> QED BY <1>1 DEF Deliveries

LEMMA DeliveredFrames == Channel!Delivered = {handled[k].frame : k \in DOMAIN handled}
  BY DEF Channel!Delivered, Deliveries

LEMMA SendSends ==
  ASSUME TypeInv, FrameInv, NEW m \in Messages, Send(m)
  PROVE  Channel!Send
  <1>1. UNCHANGED <<handled, hurt, overrun, intruded>> /\ sent' = Append(sent, m)
    BY DEF Send, protocolVars, KeepApplication
  <1>2. Len(sent') = Len(sent) + 1 /\ \A n \in 1..Len(sent) : sent'[n] = sent[n]
    BY <1>1 DEF TypeInv, LineType
  <1>3. Deliveries' = Deliveries
    BY <1>1, <1>2, DeliveriesKept
  <1> QED BY <1>1, <1>2, <1>3 DEF Channel!Send

LEMMA ArriveBreaks ==
  ASSUME TypeInv, FrameInv, Arrive
  PROVE  Channel!Break \/ UNCHANGED Channel!vars
  <1>1. /\ UNCHANGED <<handled, hurt, intruded, sent>>
        /\ UNCHANGED overrun \/ overrun' = TRUE
    BY DEF Arrive, Receive, KeepApplication
  <1>2. Deliveries' = Deliveries
    BY <1>1, DeliveriesKept
  <1> QED BY <1>1, <1>2 DEF Channel!Break, Channel!vars

LEMMA IntruderBreaks ==
  ASSUME TypeInv, FrameInv, SecondCpuMessage
  PROVE  Channel!Break
  <1>1. UNCHANGED <<handled, hurt, sent>> /\ intruded' = TRUE
    BY DEF SecondCpuMessage, wireVars
  <1>2. Deliveries' = Deliveries
    BY <1>1, DeliveriesKept
  <1> QED BY <1>1, <1>2 DEF Channel!Break

(* A character of the last frame is still on the line: if the frame is not *)
(* hurt yet, it was not handled.                                           *)
LEMMA HarmDamages ==
  ASSUME TypeInv, FrameInv, DeliverInv, Harm
  PROVE  \E D \in SUBSET (1..Len(sent)) : Channel!Damage(D)
  <1> DEFINE N == Len(sent)
  <1>1. /\ UNCHANGED <<handled, sent, overrun, intruded>> /\ hurt' = hurt \cup {N}
        /\ line # <<>> /\ line \in Seq(Byte) /\ N \in 1..Len(sent)
    BY FutureType DEF Harm, protocolVars, KeepApplication, TypeInv, LineType, FrameInv
  <1>2. Deliveries' = Deliveries
    BY <1>1, DeliveriesKept
  <1>3. ASSUME ~(overrun \/ intruded), N \notin hurt PROVE N \notin Channel!Delivered
    <2>1. Tracked(N)
      BY <1>1, <1>3 DEF DeliverInv, AllTracked
    <2>2. ~Absent(Future, N)
      <3>1. PICK g \in Seq(Chars) : g = Tagged(line, N)
        BY FutureType
      <3>2. Len(g) = Len(line) /\ Len(line) > 0 /\ \A i \in 1..Len(line) : g[i].frame = N
        BY <1>1, <3>1 DEF Tagged
      <3>3. unread \in Seq(Chars)
        BY FutureType
      <3>4. /\ Len(unread \o g) = Len(unread) + Len(g) /\ Len(unread) \in Nat /\ Len(g) \in Nat
            /\ \A i \in 1..Len(g) : (unread \o g)[Len(unread) + i] = g[i]
        BY <3>3
      <3>5. /\ 1 \in 1..Len(g) /\ Len(unread) + 1 \in 1..Len(unread \o g)
            /\ (unread \o g)[Len(unread) + 1].frame = N
        BY <3>2, <3>4
      <3> QED BY <3>1, <3>5 DEF Future, Absent
    <2>3. Unhandled(N)
      BY <2>1, <2>2 DEF Tracked, Waiting, Reading, Decoded, Dropped, Done
    <2> QED BY <2>3, DeliveredFrames DEF Unhandled
  <1>4. {N} \in SUBSET (1..Len(sent))
    BY <1>1
  <1>5. Channel!Damage({N})
    BY <1>1, <1>2, <1>3 DEF Channel!Damage
  <1> QED BY <1>4, <1>5

LEMMA RestartDamages ==
  ASSUME TypeInv, FrameInv, Restart
  PROVE  \E D \in SUBSET (1..Len(sent)) : Channel!Damage(D)
  <1> DEFINE D == 1..Len(sent) \ {handled[k].frame : k \in DOMAIN handled}
  <1>1. UNCHANGED <<handled, sent, overrun, intruded>> /\ hurt' = hurt \cup D
    BY DEF Restart, ProtocolReset
  <1>2. Deliveries' = Deliveries
    BY <1>1, DeliveriesKept
  <1>3. D \in SUBSET (1..Len(sent)) /\ \A n \in D : n \notin Channel!Delivered
    BY DeliveredFrames
  <1> HIDE DEF D
  <1>4. Channel!Damage(D)
    BY <1>1, <1>2, <1>3 DEF Channel!Damage
  <1> QED BY <1>3, <1>4

(* A message in the buffer that is not hurt was not handled before.        *)
LEMMA HandleDelivers ==
  ASSUME TypeInv, FrameInv, DeliverInv, OrderInv, Handle
  PROVE  \E n \in 1..Len(sent), intact \in BOOLEAN : Channel!Deliver(n, intact)
  <1>1. msgCount > 0 /\ UNCHANGED <<sent, hurt, overrun, intruded>>
    BY DEF Handle, wireVars
  <1>2. PICK L \in Nat :
           /\ DOMAIN handled = 1..L /\ DOMAIN handled' = 1..(L + 1)
           /\ \A k \in 1..L : handled'[k] = handled[k]
           /\ handled'[L + 1] = [frame |-> frame, body |-> [i \in 1..msgLen |-> buf[i - 1]]]
           /\ frame \in 1..Len(sent)
    BY HandleGrows
  <1> DEFINE body == [i \in 1..msgLen |-> buf[i - 1]]
             ok == body = sent[frame]
             d == [message |-> frame, intact |-> ok]
  <1>3. handled'[L + 1].frame = frame /\ handled'[L + 1].body = body
    BY <1>2
  <1>4. ok \in BOOLEAN
    OBVIOUS
  <1>5. Deliveries' = Append(Deliveries, d)
    <2> DEFINE e(k) == [message |-> handled[k].frame,
                        intact |-> handled[k].body = sent[handled[k].frame]]
    <2>1. Deliveries = [k \in 1..L |-> e(k)]
      BY <1>2 DEF Deliveries
    <2>2. Deliveries' = [k \in 1..(L + 1) |-> IF k \in 1..L THEN e(k) ELSE d]
      <3>1. \A k \in 1..(L + 1) : (k \in 1..L /\ handled'[k] = handled[k]) \/ k = L + 1
        BY <1>2
      <3>2. Deliveries' = [k \in 1..(L + 1) |->
                             [message |-> handled'[k].frame,
                              intact |-> handled'[k].body = sent[handled'[k].frame]]]
        BY <1>1, <1>2 DEF Deliveries
      <3>3. L + 1 \notin 1..L
        BY <1>2
      <3> QED BY <1>3, <3>1, <3>2, <3>3
    <2> HIDE DEF e, d
    <2>3. \A s, x : s = [k \in 1..L |-> e(k)]
                      => Append(s, x) = [k \in 1..(L + 1) |-> IF k \in 1..L THEN e(k) ELSE x]
      BY <1>2
    <2> QED BY <2>1, <2>2, <2>3
  <1>6. \A m \in Channel!Delivered : m <= frame
    BY <1>1, DeliveredFrames DEF OrderInv
  <1>7. ASSUME ~(overrun \/ intruded), frame \notin hurt PROVE ok /\ frame \notin Channel!Delivered
    <2>1. Resting /\ BodiesMatch /\ Tracked(frame)
      BY <1>2, <1>7 DEF DeliverInv, AllTracked
    <2>2. ~receiving
      BY <1>1, <2>1 DEF Resting, TypeInv, LineType, ProtocolTypeOK
    <2>3. Decoded(frame)
      BY <1>1, <2>1, <2>2 DEF Tracked, Waiting, Reading, Dropped, Done, Busy
    <2>4. frame \notin Channel!Delivered
      BY <2>3, DeliveredFrames DEF Decoded, Unhandled
    <2>5. sent[frame] \in Seq(Byte)
      BY <1>2, FutureType
    <2>6. msgLen = Len(sent[frame]) /\ \A i \in 1..msgLen : buf[i - 1] = sent[frame][i]
      BY <2>3 DEF Decoded
    <2> QED BY <2>4, <2>5, <2>6
  <1> HIDE DEF ok
  <1>8. Channel!Deliver(frame, ok)
    BY <1>1, <1>5, <1>6, <1>7 DEF Channel!Deliver
  <1> QED BY <1>2, <1>4, <1>8

LEMMA ChannelNext ==
  TypeInv /\ FrameInv /\ DeliverInv /\ OrderInv /\ [Next]_vars
    => [Channel!Next]_(Channel!vars)
  <1> SUFFICES ASSUME TypeInv, FrameInv, DeliverInv, OrderInv, [Next]_vars
               PROVE  [Channel!Next]_(Channel!vars)
    OBVIOUS
  <1>1. CASE UNCHANGED <<handled, sent, hurt, overrun, intruded>>
    <2>1. Deliveries' = Deliveries
      BY <1>1, DeliveriesKept
    <2> QED BY <1>1, <2>1 DEF Channel!vars
  <1>2. CASE UNCHANGED vars
    BY <1>1, <1>2 DEF vars, protocolVars, wireVars, hist
  <1>3. CASE \E m \in Messages : Send(m)
    BY <1>3, SendSends DEF Channel!Next
  <1>4. CASE Arrive
    BY <1>4, ArriveBreaks DEF Channel!Next
  <1>5. CASE Harm
    BY <1>5, HarmDamages DEF Channel!Next
  <1>6. CASE Protocol
    BY <1>1, <1>6 DEF Protocol, Decode, KeepApplication, wireVars
  <1>7. CASE Handle
    BY <1>7, HandleDelivers DEF Channel!Next
  <1>8. CASE SwitchPartition
    BY <1>1, <1>8 DEF SwitchPartition, KeepDecoder, wireVars, hist
  <1>9. CASE SecondCpuMessage
    BY <1>9, IntruderBreaks DEF Channel!Next
  <1>10. CASE Restart
    BY <1>10, RestartDamages DEF Channel!Next
  <1>11. CASE \E r \in I2cWrites : I2cRequest(r)
    BY <1>1, <1>11 DEF I2cRequest, KeepDecoder, wireVars
  <1> QED BY <1>2, <1>3, <1>4, <1>5, <1>6, <1>7, <1>8, <1>9, <1>10, <1>11 DEF Next

(* The invariant of the channel.                                           *)
ChannelInv == MessagesLong /\ TypeInv /\ FrameInv /\ DeliverInv /\ OrderInv

LEMMA ChannelInvInit == BufferHoldsArray /\ MessagesLong /\ Init => ChannelInv
  <1> SUFFICES ASSUME BufferHoldsArray, MessagesLong, Init PROVE ChannelInv
    OBVIOUS
  <1>1. FrameInv /\ DeliverInv
    BY DeliverInvInit
  <1>2. OrderInv
    <2>1. unread = <<>> /\ handled = <<>> /\ ~receiving /\ msgCount = 0
      BY DEF Init, ProtocolInit
    <2>2. 1..Len(unread) = {} /\ DOMAIN handled = {} /\ ~(receiving \/ msgCount > 0)
      BY <2>1
    <2> QED BY <2>2 DEF OrderInv
  <1> QED BY <1>1, <1>2, TypeInvInit DEF ChannelInv

LEMMA ChannelInvNext == ChannelInv /\ [Next]_vars => ChannelInv'
  BY TypeInvNext, FrameInvNext, DeliverInvNext, OrderInvNext DEF ChannelInv, MessagesLong

(* Encoder, line, ring and decoder implement the channel, for every size   *)
(* of ring and buffer and any number of messages, faults and resets: the   *)
(* handlers never see a message before an earlier one, and of the messages *)
(* that were not touched on the line none is changed or handled twice.     *)
THEOREM LinkIsChannel == BufferHoldsArray /\ MessagesLong /\ Spec => ChannelSpec
  <1>1. Init => Channel!Init
    <2> SUFFICES ASSUME Init PROVE Channel!Init
      OBVIOUS
    <2>1. /\ sent = <<>> /\ hurt = {} /\ handled = <<>> /\ ~overrun /\ ~intruded
      BY DEF Init, ProtocolInit
    <2>2. Len(sent) = 0 /\ Deliveries = <<>>
      BY <2>1 DEF Deliveries
    <2> QED BY <2>1, <2>2 DEF Channel!Init
  <1>2. ChannelInv /\ [Next]_vars => [Channel!Next]_(Channel!vars)
    BY ChannelNext DEF ChannelInv
  <1> QED
    BY <1>1, <1>2, ChannelInvInit, ChannelInvNext, PTL DEF Spec, ChannelSpec, Channel!Spec

(* What the channel promises, of the messages that were handled: they come *)
(* in the order in which they were sent, and each that was not touched on  *)
(* the line comes as it was sent and no second time.                       *)
THEOREM PromiseKept == BufferHoldsArray /\ MessagesLong /\ Spec => []Channel!Promise
  <1>1. ChannelInv => Channel!Promise
    <2> SUFFICES ASSUME ChannelInv, NEW i \in DOMAIN Deliveries, NEW j \in DOMAIN Deliveries
                 PROVE  /\ i < j => Deliveries[i].message <= Deliveries[j].message
                        /\ ~(overrun \/ intruded) /\ Deliveries[i].message \notin hurt =>
                             /\ Deliveries[i].intact
                             /\ i # j => Deliveries[j].message # Deliveries[i].message
      BY DEF Channel!Promise
    <2>1. /\ i \in DOMAIN handled /\ j \in DOMAIN handled
          /\ Deliveries[i].message = handled[i].frame /\ Deliveries[j].message = handled[j].frame
          /\ Deliveries[i].intact = (handled[i].body = sent[handled[i].frame])
      BY DEF Deliveries
    <2>2. i \in Nat /\ j \in Nat
      BY <2>1 DEF ChannelInv, FrameInv
    <2>3. i < j => handled[i].frame <= handled[j].frame
      BY <2>1, <2>2 DEF ChannelInv, OrderInv
    <2>4. ASSUME ~(overrun \/ intruded), handled[i].frame \notin hurt
          PROVE  /\ handled[i].body = sent[handled[i].frame]
                 /\ i # j => handled[j].frame # handled[i].frame
      <3> DEFINE n == handled[i].frame
      <3>1. n \in 1..Len(sent)
        BY <2>1, FrameNumbers DEF ChannelInv
      <3>2. BodiesMatch /\ Tracked(n)
        BY <2>4, <3>1 DEF ChannelInv, DeliverInv, AllTracked
      <3>3. ~Unhandled(n)
        BY <2>1 DEF Unhandled
      <3>4. Once(n)
        BY <3>2, <3>3 DEF Tracked, Waiting, Reading, Decoded, Dropped, Done
      <3> QED BY <2>1, <2>4, <3>2, <3>4 DEF BodiesMatch, Once
    <2> QED BY <2>1, <2>3, <2>4
  <1> QED BY <1>1, ChannelInvInit, ChannelInvNext, PTL DEF Spec

=============================================================================
