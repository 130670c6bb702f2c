------------------------------ MODULE UsbProofs ------------------------------
(***************************************************************************)
(* The initialisation of the USB hubs for every number of retries, losses, *)
(* restarts and standbys:                                                  *)
(*   - TypeCorrect: the type invariant; a hub only ever holds settings     *)
(*     some routine has for it;                                            *)
(*   - EntriesPaged: the registers of the clock generator are written on   *)
(*     their own page, whatever page it was left on;                       *)
(*   - SuccessReady: success of the Zeus board's routine means a hub that  *)
(*     is attached and a table gone through;                               *)
(*   - HubsApart: two successful initialisations on the Gaia board without *)
(*     a loss leave each hub with its own address and settings.            *)
(***************************************************************************)
EXTENDS UsbBoards, SequenceTheorems, FiniteSetTheorems, TLAPS

(***************************************************************************)
(* The hubs of the Gaia board.                                             *)
(***************************************************************************)
(* What the routines load into the command block of a hub.                 *)
ReadCommands ==
  {<<"read", r>> : r \in {"none", "revision", "id", "vid", "bcd", "primary"}}
FlexCommands == {<<r, v>> : r \in {"usb2", "usb3"}, v \in 0..1}
Commands ==
  ReadCommands \cup FlexCommands
  \cup {<<"i2s", "off">>, <<"primary", New>>, <<"secondary", "none">>}

(* The steps a routine is made of.                                         *)
PlainSteps == {<<"run">>, <<"point">>, <<"fetch">>, <<"revision">>, <<"attach">>}
LoadSteps == {<<"load", c[1], c[2]>> : c \in Commands}
HubSteps == {"hold", "release", "cable", "compare", "adopt"} \X Hubs
Steps == PlainSteps \cup LoadSteps \cup {"context"} \X {Original, New} \cup HubSteps

HubStates ==
  [reset : BOOLEAN, awake : BOOLEAN, running : BOOLEAN,
   primary : {Original, New}, secondary : {"2C", "none"},
   usb2 : 0..1, usb3 : 0..1, i2s : {"on", "off"}, block : Commands]

(* What a routine still has to do are steps of the driver, and what a hub  *)
(* was last told is a command of the driver.                               *)
GaiaInv ==
  /\ stage \in {"boot", "app"} /\ current \in 0..2
  /\ slave \in {Original, New}
  /\ timeout \in 0..(Retries + 1)
  /\ todo \in Seq(Steps)
  /\ hub \in [Hubs -> HubStates]

LEMMA GaiaTyped == GaiaInv => GaiaTypeOK
BY DEF GaiaInv, GaiaTypeOK, HubStates

-----------------------------------------------------------------------------
(***************************************************************************)
(* The routines are made of steps.                                         *)
(***************************************************************************)
LEMMA Joined ==
  ASSUME NEW s \in Seq(Steps), NEW t \in Seq(Steps)
  PROVE  s \o t \in Seq(Steps)
OBVIOUS

LEMMA One ==
  ASSUME NEW s \in Steps
  PROVE  <<s>> \in Seq(Steps)
OBVIOUS

LEMMA RunAccessSteps == RunAccess \in Seq(Steps)
BY One DEF RunAccess, Steps, PlainSteps

LEMMA LoadIsStep ==
  ASSUME NEW r, NEW v, <<r, v>> \in Commands
  PROVE  <<"load", r, v>> \in Steps
<1>1. <<"load", r, v>> = <<"load", <<r, v>>[1], <<r, v>>[2]>>
  OBVIOUS
<1>. QED BY <1>1 DEF Steps, LoadSteps

LEMMA WriteSteps ==
  ASSUME NEW r, NEW v, <<r, v>> \in Commands
  PROVE  WriteReg(r, v) \in Seq(Steps)
<1>1. <<<<"load", r, v>>>> \in Seq(Steps)
  BY LoadIsStep, One
<1>. QED BY <1>1, RunAccessSteps, Joined DEF WriteReg

LEMMA ReadSteps ==
  ASSUME NEW r \in {"revision", "id", "vid", "bcd", "primary"}
  PROVE  ReadReg(r) \in Seq(Steps)
<1>1. <<"read", r>> \in Commands
  BY DEF Commands, ReadCommands
<1>2. <<<<"load", "read", r>>>> \in Seq(Steps)
  BY <1>1, LoadIsStep, One
<1>3. <<<<"point">>, <<"fetch">>>> \in Seq(Steps)
  BY DEF Steps, PlainSteps
<1>4. <<<<"load", "read", r>>>> \o RunAccess \in Seq(Steps)
  BY <1>2, RunAccessSteps, Joined
<1>. QED BY <1>3, <1>4, Joined DEF ReadReg

LEMMA RevisionSteps == RetrieveRevision \in Seq(Steps)
<1>1. <<"read", "revision">> \in Commands
  BY DEF Commands, ReadCommands
<1>2. <<<<"load", "read", "revision">>>> \in Seq(Steps)
  BY <1>1, LoadIsStep, One
<1>3. <<<<"point">>, <<"revision">>>> \in Seq(Steps)
  BY DEF Steps, PlainSteps
<1>4. <<<<"load", "read", "revision">>>> \o RunAccess \in Seq(Steps)
  BY <1>2, RunAccessSteps, Joined
<1>. QED BY <1>3, <1>4, Joined DEF RetrieveRevision

LEMMA IdentifySteps == Identify \in Seq(Steps)
BY ReadSteps, Joined DEF Identify

LEMMA I2sSteps == DisableI2s \in Seq(Steps)
<1>1. <<"i2s", "off">> \in Commands
  BY DEF Commands, ReadCommands
<1>. QED BY <1>1, WriteSteps DEF DisableI2s

LEMMA FlexSteps ==
  ASSUME NEW v \in 0..1
  PROVE  Flex(v) \in Seq(Steps)
<1>1. <<"usb2", v>> \in Commands /\ <<"usb3", v>> \in Commands
  <2>1. "usb2" \in {"usb2", "usb3"} /\ "usb3" \in {"usb2", "usb3"}
    OBVIOUS
  <2>. QED BY <2>1 DEF Commands, FlexCommands
<1>2. WriteReg("usb2", v) \in Seq(Steps) /\ WriteReg("usb3", v) \in Seq(Steps)
  BY <1>1, WriteSteps
<1>. QED BY <1>2, Joined DEF Flex, SetGeneric

LEMMA FirstSteps ==
  ASSUME NEW h \in Hubs
  PROVE  <<<<"hold", h>>, <<"context", Original>>, <<"release", h>>>> \in Seq(Steps)
<1>1. <<"hold", h>> \in Steps /\ <<"context", Original>> \in Steps
      /\ <<"release", h>> \in Steps
  BY DEF Steps, HubSteps
<1>. QED BY <1>1

LEMMA LastSteps ==
  ASSUME NEW h \in Hubs
  PROVE  Attach \in Seq(Steps) /\ <<<<"cable", h>>>> \in Seq(Steps)
<1>1. <<"attach">> \in Steps /\ <<"cable", h>> \in Steps
  BY DEF Steps, HubSteps, PlainSteps
<1>. QED BY <1>1, One DEF Attach

LEMMA AddressSteps ==
  /\ GetPrimary \in Seq(Steps)
  /\ SetAddress("primary", New) \in Seq(Steps)
  /\ SetAddress("secondary", "none") \in Seq(Steps)
  /\ <<<<"context", New>>>> \in Seq(Steps)
<1>1. <<"primary", New>> \in Commands /\ <<"secondary", "none">> \in Commands
  BY DEF Commands, ReadCommands
<1>2. <<"context", New>> \in Steps
  BY DEF Steps
<1>. QED BY <1>1, <1>2, WriteSteps, ReadSteps, One DEF GetPrimary, SetAddress

LEMMA InitializeSteps ==
  ASSUME NEW h \in Hubs
  PROVE  Initialize(h) \in Seq(Steps)
<1>1. 0 \in Hubs /\ 1 \in Hubs
  BY DEF Hubs
<1>2. InitializeUsb0 \in Seq(Steps)
  <2>1. <<<<"hold", 0>>, <<"context", Original>>, <<"release", 0>>>>
        \o RetrieveRevision \o Identify \in Seq(Steps)
    BY <1>1, FirstSteps, RevisionSteps, IdentifySteps, Joined
  <2>. QED BY <1>1, <2>1, I2sSteps, LastSteps, Joined DEF InitializeUsb0
<1>3. InitializeUsb1 \in Seq(Steps)
  <2>1. <<<<"hold", 1>>, <<"context", Original>>, <<"release", 1>>>>
        \o RetrieveRevision \o Identify \in Seq(Steps)
    BY <1>1, FirstSteps, RevisionSteps, IdentifySteps, Joined
  <2>2. Flex(1) \in Seq(Steps) /\ GetGeneric("bcd") \in Seq(Steps)
    BY FlexSteps, ReadSteps DEF GetGeneric
  <2>3. <<<<"hold", 1>>, <<"context", Original>>, <<"release", 1>>>>
        \o RetrieveRevision \o Identify \o DisableI2s \o Flex(1) \o GetGeneric("bcd")
        \in Seq(Steps)
    BY <2>1, <2>2, I2sSteps, Joined
  <2>4. <<<<"hold", 1>>, <<"context", Original>>, <<"release", 1>>>>
        \o RetrieveRevision \o Identify \o DisableI2s \o Flex(1) \o GetGeneric("bcd")
        \o GetPrimary \o SetAddress("primary", New) \o <<<<"context", New>>>>
        \in Seq(Steps)
    BY <2>3, AddressSteps, Joined
  <2>5. <<<<"hold", 1>>, <<"context", Original>>, <<"release", 1>>>>
        \o RetrieveRevision \o Identify \o DisableI2s \o Flex(1) \o GetGeneric("bcd")
        \o GetPrimary \o SetAddress("primary", New) \o <<<<"context", New>>>>
        \o GetPrimary \o SetAddress("secondary", "none") \in Seq(Steps)
    BY <2>4, AddressSteps, Joined
  <2>. QED BY <1>1, <2>5, LastSteps, Joined DEF InitializeUsb1
<1>. QED BY <1>2, <1>3 DEF Initialize, Hubs

LEMMA HeadStep ==
  ASSUME GaiaInv, todo # <<>>
  PROVE  Head(todo) \in Steps /\ Tail(todo) \in Seq(Steps)
BY DEF GaiaInv

LEMMA HubOf ==
  ASSUME NEW s \in Steps, s[1] \in {"hold", "release", "cable", "compare", "adopt"}
  PROVE  s[2] \in Hubs
<1>1. s \notin PlainSteps
  BY DEF PlainSteps
<1>2. s \notin LoadSteps
  BY DEF LoadSteps
<1>. QED BY <1>1, <1>2 DEF Steps, HubSteps

LEMMA LoadOf ==
  ASSUME NEW s \in Steps, s[1] = "load"
  PROVE  <<s[2], s[3]>> \in Commands
<1>1. s \in LoadSteps
  BY DEF Steps, PlainSteps, HubSteps
<1>2. PICK c \in Commands : s = <<"load", c[1], c[2]>>
  BY <1>1 DEF LoadSteps
<1>3. c = <<c[1], c[2]>>
  <2>1. CASE c \in ReadCommands
    BY <2>1 DEF ReadCommands
  <2>2. CASE c \in {<<"i2s", "off">>, <<"primary", New>>, <<"secondary", "none">>}
    BY <2>2
  <2>3. CASE c \in FlexCommands
    <3>1. PICK x \in {"usb2", "usb3"}, y \in 0..1 : c = <<x, y>>
      BY <2>3 DEF FlexCommands
    <3>. QED BY <3>1
  <2>. QED BY <2>1, <2>2, <2>3, Zenon DEF Commands
<1>. QED BY <1>2, <1>3

(* What a step leaves in a hub that takes it.                              *)
LEMMA TakeType ==
  ASSUME NEW k \in HubStates, NEW s \in Steps
  PROVE  Take(k, s) \in HubStates
<1>1. CASE s[1] = "load"
  BY <1>1, LoadOf DEF Take, HubStates
<1>2. CASE s[1] = "run"
  <2>1. Take(k, s) = Run(k)
    BY <1>2 DEF Take
  <2>2. k.block \in Commands
    BY DEF HubStates
  <2>3. CASE k.block \in ReadCommands
    BY <2>1, <2>3 DEF Run, ReadCommands
  <2>4. CASE k.block \in {<<"i2s", "off">>, <<"primary", New>>, <<"secondary", "none">>}
    BY <2>1, <2>4 DEF Run, HubStates
  <2>5. ASSUME k.block \in FlexCommands PROVE Take(k, s) \in HubStates
    <3>1. PICK x \in {"usb2", "usb3"}, y \in 0..1 : k.block = <<x, y>>
      BY <2>5 DEF FlexCommands
    <3>2. k.block[1] = x /\ k.block[2] = y
      BY <3>1
    <3>3. CASE x = "usb2"
      <4>1. Run(k) = [k EXCEPT !.usb2 = y]
        BY <3>2, <3>3 DEF Run
      <4>. QED BY <2>1, <4>1 DEF HubStates
    <3>4. CASE x = "usb3"
      <4>1. Run(k) = [k EXCEPT !.usb3 = y]
        BY <3>2, <3>4 DEF Run
      <4>. QED BY <2>1, <4>1 DEF HubStates
    <3>. QED BY <3>3, <3>4
  <2>6. \/ k.block \in ReadCommands
        \/ k.block \in {<<"i2s", "off">>, <<"primary", New>>, <<"secondary", "none">>}
        \/ k.block \in FlexCommands
    BY <2>2, Zenon DEF Commands
  <2>. QED BY <2>3, <2>4, <2>5, <2>6
<1>3. CASE s[1] = "attach"
  BY <1>3 DEF Take, HubStates
<1>4. CASE s[1] \notin {"load", "run", "attach"}
  BY <1>4 DEF Take
<1>. QED BY <1>1, <1>2, <1>3, <1>4

-----------------------------------------------------------------------------
(***************************************************************************)
(* Every step of the Gaia board keeps GaiaInv.                             *)
(***************************************************************************)
LEMMA HeldType == InReset \in HubStates /\ [h \in Hubs |-> InReset] \in [Hubs -> HubStates]
<1>1. <<"read", "none">> \in Commands
  BY DEF Commands, ReadCommands
<1>. QED BY <1>1 DEF InReset, HubStates

LEMMA HubsNumbered == 0 \in Hubs /\ 1 \in Hubs /\ FirstHub \in Hubs /\ OtherHub \in Hubs
                      /\ Hubs \subseteq 0..2 /\ NoHub \in 0..2
BY DEF Hubs, FirstHub, OtherHub, NoHub

LEMMA TimeoutType == Retries + 1 \in 0..(Retries + 1) /\ Retries \in Nat
BY GaiaAssumption

LEMMA BusType ==
  ASSUME GaiaInv, NEW s \in Steps, Transferred(s) \/ LoseTransfer
  PROVE  hub' \in [Hubs -> HubStates]
<1>1. CASE Transferred(s)
  <2>1. \A k \in Hubs : hub[k] \in HubStates /\ Take(hub[k], s) \in HubStates
    BY TakeType DEF GaiaInv
  <2>. QED BY <1>1, <2>1 DEF Transferred
<1>2. CASE LoseTransfer
  BY <1>2 DEF LoseTransfer, GaiaInv
<1>. QED BY <1>1, <1>2

LEMMA ReturnType ==
  ASSUME GaiaInv, NEW v, Return(v)
  PROVE  current' \in 0..2 /\ todo' \in Seq(Steps) /\ timeout' \in 0..(Retries + 1)
<1>1. <<>> \in Seq(Steps)
  OBVIOUS
<1>. QED BY <1>1, HubsNumbered, InitializeSteps, TimeoutType DEF Return

LEMMA GaiaStep ==
  ASSUME GaiaInv, Step
  PROVE  GaiaInv'
<1>1. todo # <<>>
  BY DEF Step, Transfer, Revision, Hold, InitCtxt, Release, ReadCable, Compare, Adopt
<1>2. Head(todo) \in Steps /\ Tail(todo) \in Seq(Steps)
  BY <1>1, HeadStep
<1>3. CASE Transfer
  <2>1. hub' \in [Hubs -> HubStates]
    BY <1>2, <1>3, BusType DEF Transfer
  <2>. QED BY <1>2, <1>3, <2>1 DEF Transfer, GaiaInv
<1>4. CASE Revision
  <2>1. PICK answered \in BOOLEAN :
          /\ \/ answered = Answered /\ Transferred(Head(todo))
             \/ ~answered /\ LoseTransfer
          /\ IF Exhausted THEN Return(-1)
             ELSE /\ CountRetry /\ UNCHANGED <<current, result>>
                  /\ todo' = IF answered THEN Tail(todo)
                             ELSE RetrieveRevision \o Tail(todo)
    BY <1>4 DEF Revision
  <2>2. hub' \in [Hubs -> HubStates]
    BY <1>2, <2>1, BusType
  <2>3. current' \in 0..2 /\ todo' \in Seq(Steps) /\ timeout' \in 0..(Retries + 1)
    <3>1. CASE Exhausted
      BY <2>1, <3>1, ReturnType
    <3>2. CASE ~Exhausted
      <4>1. RetrieveRevision \o Tail(todo) \in Seq(Steps)
        BY <1>2, RevisionSteps, Joined
      <4>2. timeout' = timeout - 1 /\ timeout # 0 /\ current' = current
        BY <2>1, <3>2 DEF CountRetry, Exhausted
      <4>3. todo' \in Seq(Steps)
        BY <1>2, <2>1, <3>2, <4>1
      <4>. QED BY <4>2, <4>3, TimeoutType DEF GaiaInv
    <3>. QED BY <3>1, <3>2
  <2>. QED BY <1>4, <2>2, <2>3 DEF Revision, GaiaInv
<1>5. CASE Hold
  <2>1. Head(todo)[2] \in Hubs
    BY <1>2, <1>5, HubOf DEF Hold
  <2>. QED BY <1>2, <1>5, <2>1, HeldType DEF Hold, GaiaInv
<1>6. CASE InitCtxt
  <2>1. Head(todo)[2] \in {Original, New}
    BY <1>2, <1>6 DEF InitCtxt, Steps, PlainSteps, LoadSteps, HubSteps
  <2>. QED BY <1>2, <1>6, <2>1 DEF InitCtxt, GaiaInv
<1>7. CASE Release
  <2>1. Head(todo)[2] \in Hubs
    BY <1>2, <1>7, HubOf DEF Release
  <2>2. PICK awake \in BOOLEAN :
          hub' = [hub EXCEPT ![Head(todo)[2]].reset = FALSE,
                             ![Head(todo)[2]].awake = awake]
    BY <1>7 DEF Release
  <2>3. ASSUME NEW k \in HubStates
        PROVE  [k EXCEPT !.reset = FALSE, !.awake = awake] \in HubStates
    BY <2>2 DEF HubStates
  <2>4. hub' = [hub EXCEPT ![Head(todo)[2]] =
                  [hub[Head(todo)[2]] EXCEPT !.reset = FALSE, !.awake = awake]]
    BY <2>1, <2>2 DEF GaiaInv, HubStates
  <2>5. hub' \in [Hubs -> HubStates]
    BY <2>1, <2>3, <2>4 DEF GaiaInv
  <2>. QED BY <1>2, <1>7, <2>5 DEF Release, GaiaInv
<1>8. CASE ReadCable
  BY <1>8, ReturnType DEF ReadCable, GaiaInv
<1>9. CASE Compare
  <2>1. <<"adopt", Head(todo)[2]>> \in Steps
    BY <1>2, <1>9, HubOf DEF Compare, Steps, HubSteps
  <2>2. <<<<"adopt", Head(todo)[2]>>>> \in Seq(Steps) /\ <<>> \in Seq(Steps)
    BY <2>1
  <2>3. todo' \in Seq(Steps)
    BY <1>2, <1>9, <2>2, Joined DEF Compare
  <2>. QED BY <1>9, <2>3 DEF Compare, GaiaInv
<1>10. CASE Adopt
  <2>1. CableGone(Head(todo)[2]) \in Seq(Steps) /\ <<>> \in Seq(Steps)
    BY FlexSteps DEF CableGone
  <2>2. todo' \in Seq(Steps)
    BY <1>2, <1>10, <2>1, Joined DEF Adopt
  <2>. QED BY <1>10, <2>2 DEF Adopt, GaiaInv
<1>. QED BY <1>3, <1>4, <1>5, <1>6, <1>7, <1>8, <1>9, <1>10 DEF Step

LEMMA StartType ==
  ASSUME StartInit
  PROVE  current' \in 0..2 /\ todo' \in Seq(Steps) /\ timeout' \in 0..(Retries + 1)
BY HubsNumbered, InitializeSteps, TimeoutType DEF StartInit

LEMMA GaiaKept ==
  ASSUME GaiaInv, GaiaNext
  PROVE  GaiaInv'
<1>1. CASE Step
  BY <1>1, GaiaStep
<1>2. CASE MainLoop
  <2>1. \A h \in Hubs : <<<<"compare", h>>>> \in Seq(Steps)
    <3>1. \A h \in Hubs : <<"compare", h>> \in Steps
      BY DEF Steps, HubSteps
    <3>. QED BY <3>1, One
  <2>2. DetectCableChange \in Seq(Steps)
    BY <2>1, HubsNumbered, Joined DEF DetectCableChange, Detect
  <2>. QED BY <1>2, <2>2 DEF MainLoop, GaiaInv
<1>3. CASE StartApplication \/ Reboot
  <2>1. StartInit /\ SetupUsbPins /\ StaticData
    BY <1>3 DEF StartApplication, Reboot
  <2>2. stage' \in {"boot", "app"}
    BY <1>3 DEF StartApplication, Reboot, GaiaInv
  <2>. QED BY <2>1, <2>2, StartType, HeldType DEF SetupUsbPins, StaticData, GaiaInv
<1>4. CASE RecoverFromStandby
  BY <1>4, StartType DEF RecoverFromStandby, GaiaInv
<1>5. CASE \E h \in Hubs : Wake(h)
  <2>1. PICK h \in Hubs : Wake(h)
    BY <1>5
  <2>2. hub' = [hub EXCEPT ![h].awake = TRUE]
    BY <2>1 DEF Wake
  <2>3. [hub[h] EXCEPT !.awake = TRUE] \in HubStates
    BY DEF GaiaInv, HubStates
  <2>4. hub' \in [Hubs -> HubStates]
    BY <2>2, <2>3 DEF GaiaInv
  <2>. QED BY <2>1, <2>4 DEF Wake, GaiaInv
<1>6. CASE \E h \in Hubs : Plug(h)
  BY <1>6 DEF Plug, GaiaInv
<1>. QED BY <1>1, <1>2, <1>3, <1>4, <1>5, <1>6 DEF GaiaNext

LEMMA GaiaStart == GaiaInit => GaiaInv
<1>. SUFFICES ASSUME GaiaInit PROVE GaiaInv
  OBVIOUS
<1>1. todo \in Seq(Steps) /\ current \in 0..2
  BY HubsNumbered, InitializeSteps DEF GaiaInit
<1>2. hub \in [Hubs -> HubStates]
  BY HeldType DEF GaiaInit
<1>. QED BY <1>1, <1>2, TimeoutType DEF GaiaInit, GaiaInv

-----------------------------------------------------------------------------
(***************************************************************************)
(* The two hubs are told apart.                                            *)
(***************************************************************************)
(* A hub without its command block, and what the routines make of it.      *)
Bare(k) == [k EXCEPT !.block = <<"read", "none">>]
Up == [InReset EXCEPT !.reset = FALSE, !.awake = TRUE]
Silent == [Up EXCEPT !.i2s = "off"]
Half == [Silent EXCEPT !.usb2 = 1]
Flexed == [Half EXCEPT !.usb3 = 1]
Moved == [Flexed EXCEPT !.primary = New]
Alone == [Moved EXCEPT !.secondary = "none"]
Ready1 == [Alone EXCEPT !.running = TRUE]
Ready0(v) == [Silent EXCEPT !.running = TRUE, !.usb2 = v, !.usb3 = v]

(* Steps after others, and a step, a read and a write before others.       *)
Then(s, t) == s \o t
Do(step, rest) == <<step>> \o rest
Fetching(rest) == Do(<<"point">>, Do(<<"fetch">>, rest))
Reads(reg, rest) == Do(<<"load", "read", reg>>, Do(<<"run">>, Fetching(rest)))
Writes(reg, value, rest) == Do(<<"load", reg, value>>, Do(<<"run">>, rest))

(* What is left of a routine from each of its parts on.                    *)
ToCable(h) == Do(<<"cable", h>>, <<>>)
ToAttach(h) == Do(<<"attach">>, ToCable(h))
ToSecondary == Writes("secondary", "none", ToAttach(1))
ToReread == Reads("primary", ToSecondary)
ToContext == Do(<<"context", New>>, ToReread)
ToPrimary == Writes("primary", New, ToContext)
ToAddress == Reads("primary", ToPrimary)
ToBcd == Reads("bcd", ToAddress)
ToUsb3 == Writes("usb3", 1, ToBcd)
ToUsb2 == Writes("usb2", 1, ToUsb3)
AfterI2s(h) == IF h = 0 THEN ToAttach(0) ELSE ToUsb2
ToI2s(h) == Writes("i2s", "off", AfterI2s(h))
ToVid(h) == Reads("vid", ToI2s(h))
ToId(h) == Reads("id", ToVid(h))
ToAnswer(h) == Do(<<"revision">>, ToId(h))
ToPoint(h) == Do(<<"point">>, ToAnswer(h))
ToRevision(h) == Do(<<"load", "read", "revision">>, Do(<<"run">>, ToPoint(h)))
ToRelease(h) == Do(<<"release", h>>, ToRevision(h))
ToOriginal(h) == Do(<<"context", Original>>, ToRelease(h))

(* Nothing was lost and nothing failed so far, and no hub was taken for    *)
(* another: of hub 0 that is only of use if it is true of hub 1.           *)
Sure(h) == ToldApart /\ \A g \in {h, 1} : lost[g] = 0 /\ result[g] # -1
Is(h, c) == Sure(h) => Bare(hub[h]) = c
Loaded(h, c) == Sure(h) => hub[h].block = c

Reading(h, reg, rest, c) ==
  /\ Is(h, c)
  /\ \/ todo = Reads(reg, rest)
     \/ todo = Do(<<"run">>, Fetching(rest)) /\ Loaded(h, <<"read", reg>>)
     \/ todo = Fetching(rest)
     \/ todo = Do(<<"fetch">>, rest)
Writing(h, reg, value, rest, c) ==
  /\ Is(h, c)
  /\ \/ todo = Writes(reg, value, rest)
     \/ todo = Do(<<"run">>, rest) /\ Loaded(h, <<reg, value>>)

(* A hub is held and let go; it may not be up for a while.                 *)
Starting(h) ==
  \/ todo = Initialize(h)
  \/ todo = ToOriginal(h) /\ hub[h] = InReset
  \/ todo = ToRelease(h) /\ hub[h] = InReset /\ slave = Original
Released(h) ==
  /\ Bare([hub[h] EXCEPT !.awake = TRUE]) = Up /\ hub[h].block[1] = "read"
  /\ hub[h].awake \/ h \in SlowHubs
Waiting(h) ==
  /\ todo \in {ToRevision(h), Do(<<"run">>, ToPoint(h)), ToPoint(h), ToAnswer(h)}
  /\ slave = Original
  /\ Sure(h) => Released(h)
Answering(h) ==
  /\ slave = Original
  /\ \/ Reading(h, "id", ToVid(h), Up)
     \/ Reading(h, "vid", ToI2s(h), Up)
     \/ Writing(h, "i2s", "off", AfterI2s(h), Up)

(* Hub 1 is moved to the new address.                                      *)
Moving ==
  /\ slave = Original
  /\ \/ Writing(1, "usb2", 1, ToUsb3, Silent)
     \/ Writing(1, "usb3", 1, ToBcd, Half)
     \/ Reading(1, "bcd", ToAddress, Flexed)
     \/ Reading(1, "primary", ToPrimary, Flexed)
     \/ Writing(1, "primary", New, ToContext, Flexed)
     \/ todo = ToContext /\ Is(1, Moved)
Settling ==
  /\ slave = New
  /\ \/ Reading(1, "primary", ToSecondary, Moved)
     \/ Writing(1, "secondary", "none", ToAttach(1), Moved)
     \/ todo = ToAttach(1) /\ Is(1, Alone)
     \/ todo = ToCable(1) /\ Is(1, Ready1)

(* Hub 0 becomes ready at the original address.                            *)
Attaching ==
  /\ slave = Original
  /\ \/ todo = ToAttach(0) /\ Is(0, Silent)
     \/ todo = ToCable(0) /\ Is(0, Ready0(0))

(* The loop: a change of a cable is written to both halves of hub 0.       *)
Rests == {<<>>, Detect(1)}
Switching(v, w, rest) ==
  \/ Writing(0, "usb2", w, Writes("usb3", w, rest), Ready0(v))
  \/ Writing(0, "usb3", w, rest, [Ready0(v) EXCEPT !.usb2 = w])
Looping ==
  /\ slave = Original
  /\ \E v \in 0..1 :
       \/ /\ todo \in {<<>>, Detect(1), <<<<"adopt", 1>>>>,
                       Do(<<"compare", 0>>, Detect(1)), Do(<<"adopt", 0>>, Detect(1))}
          /\ Is(0, Ready0(v))
       \/ \E w \in 0..1, rest \in Rests : Switching(v, w, rest)

(* The invariant of ConfiguredApart: how far a routine is tells how far    *)
(* its hub is, and hub 1 is done before hub 0 is begun.  Until a standby   *)
(* hub 0 is in reset meanwhile.                                            *)
HistoryTyped == result \in [Hubs -> -1..1] /\ lost \in [Hubs -> Nat] /\ recoveries \in Nat
HeldInReset == current = 1 /\ recoveries = 0 => hub[0].reset
ApartInv ==
  /\ HistoryTyped /\ HeldInReset
  /\ current = 1 => /\ result[0] = None /\ result[1] = None
                    /\ Starting(1) \/ Waiting(1) \/ Answering(1) \/ Moving \/ Settling
  /\ current = 0 => /\ result[0] = None /\ Is(1, Ready1)
                    /\ Starting(0) \/ Waiting(0) \/ Answering(0) \/ Attaching
  /\ current = NoHub => Is(1, Ready1) /\ Looping

LEMMA JoinTwice ==
  ASSUME NEW p \in Seq(Steps), NEW x \in Seq(Steps), NEW t \in Seq(Steps)
  PROVE  (p \o x) \o t = p \o (x \o t)
BY ConcatAssociative

LEMMA Stepped ==
  ASSUME NEW x \in Steps, NEW rest \in Seq(Steps)
  PROVE  /\ Do(x, rest) \in Seq(Steps) /\ Do(x, rest) # <<>>
         /\ Head(Do(x, rest)) = x /\ Tail(Do(x, rest)) = rest
BY DEF Do

LEMMA PlainIsStep ==
  /\ <<"run">> \in Steps /\ <<"point">> \in Steps /\ <<"fetch">> \in Steps
  /\ <<"revision">> \in Steps /\ <<"attach">> \in Steps
  /\ <<"context", Original>> \in Steps /\ <<"context", New>> \in Steps
BY DEF Steps, PlainSteps

LEMMA HubIsStep ==
  ASSUME NEW h \in Hubs
  PROVE  /\ <<"hold", h>> \in Steps /\ <<"release", h>> \in Steps
         /\ <<"cable", h>> \in Steps /\ <<"compare", h>> \in Steps
         /\ <<"adopt", h>> \in Steps
BY DEF Steps, HubSteps

LEMMA CommandsAre ==
  /\ \A r \in {"revision", "id", "vid", "bcd", "primary"} : <<"read", r>> \in Commands
  /\ \A v \in 0..1 : <<"usb2", v>> \in Commands /\ <<"usb3", v>> \in Commands
  /\ <<"i2s", "off">> \in Commands /\ <<"primary", New>> \in Commands
  /\ <<"secondary", "none">> \in Commands
<1>1. \A r \in {"usb2", "usb3"}, v \in 0..1 : <<r, v>> \in Commands
  BY DEF Commands, FlexCommands
<1>2. "usb2" \in {"usb2", "usb3"} /\ "usb3" \in {"usb2", "usb3"}
  OBVIOUS
<1>. QED BY <1>1, <1>2 DEF Commands, ReadCommands

(* A read and a write before others, step by step.                         *)
LEMMA WriteJoined ==
  ASSUME NEW r, NEW v, <<r, v>> \in Commands, NEW rest \in Seq(Steps)
  PROVE  /\ Writes(r, v, rest) \in Seq(Steps)
         /\ Do(<<"run">>, rest) \in Seq(Steps)
         /\ <<"load", r, v>> \in Steps
         /\ Then(WriteReg(r, v), rest) = Writes(r, v, rest)
<1>1. <<"load", r, v>> \in Steps /\ <<"run">> \in Steps
  BY LoadIsStep, PlainIsStep
<1>2. Do(<<"run">>, rest) \in Seq(Steps)
  BY <1>1, Stepped
<1>3. Writes(r, v, rest) \in Seq(Steps)
  BY <1>1, <1>2, Stepped DEF Writes
<1>4. WriteReg(r, v) \o rest = <<<<"load", r, v>>>> \o (RunAccess \o rest)
  BY <1>1, RunAccessSteps, One, JoinTwice DEF WriteReg
<1>. QED BY <1>1, <1>2, <1>3, <1>4 DEF Writes, Do, Then, RunAccess

LEMMA FetchJoined ==
  ASSUME NEW rest \in Seq(Steps)
  PROVE  /\ Fetching(rest) \in Seq(Steps) /\ Do(<<"fetch">>, rest) \in Seq(Steps)
         /\ Do(<<"run">>, Fetching(rest)) \in Seq(Steps)
         /\ <<<<"point">>, <<"fetch">>>> \o rest = Fetching(rest)
<1>1. Do(<<"fetch">>, rest) \in Seq(Steps)
  BY PlainIsStep, Stepped
<1>2. Fetching(rest) \in Seq(Steps) /\ Do(<<"run">>, Fetching(rest)) \in Seq(Steps)
  BY <1>1, PlainIsStep, Stepped DEF Fetching
<1>3. <<<<"point">>, <<"fetch">>>> = <<<<"point">>>> \o <<<<"fetch">>>>
  OBVIOUS
<1>4. <<<<"point">>, <<"fetch">>>> \o rest = <<<<"point">>>> \o (<<<<"fetch">>>> \o rest)
  BY <1>3, PlainIsStep, One, JoinTwice
<1>. QED BY <1>1, <1>2, <1>4 DEF Fetching, Do

LEMMA ReadJoined ==
  ASSUME NEW r \in {"revision", "id", "vid", "bcd", "primary"}, NEW rest \in Seq(Steps)
  PROVE  /\ Reads(r, rest) \in Seq(Steps)
         /\ <<"load", "read", r>> \in Steps
         /\ Then(ReadReg(r), rest) = Reads(r, rest)
<1>1. <<"load", "read", r>> \in Steps
  BY CommandsAre, LoadIsStep
<1>2. Fetching(rest) \in Seq(Steps) /\ Do(<<"run">>, Fetching(rest)) \in Seq(Steps)
  BY FetchJoined
<1>3. Reads(r, rest) \in Seq(Steps)
  BY <1>1, <1>2, Stepped DEF Reads
<1>4. <<<<"load", "read", r>>>> \in Seq(Steps)
      /\ <<<<"point">>, <<"fetch">>>> \in Seq(Steps)
      /\ <<<<"load", "read", r>>>> \o RunAccess \in Seq(Steps)
  <2>1. <<<<"load", "read", r>>>> \in Seq(Steps)
    BY <1>1, One
  <2>2. <<<<"point">>, <<"fetch">>>> \in Seq(Steps)
    BY PlainIsStep
  <2>. QED BY <2>1, <2>2, RunAccessSteps, Joined
<1>5. ReadReg(r) \o rest
      = (<<<<"load", "read", r>>>> \o RunAccess) \o (<<<<"point">>, <<"fetch">>>> \o rest)
  BY <1>4, JoinTwice DEF ReadReg
<1>6. ReadReg(r) \o rest
      = (<<<<"load", "read", r>>>> \o RunAccess) \o Fetching(rest)
  BY <1>5, FetchJoined
<1>7. ReadReg(r) \o rest = <<<<"load", "read", r>>>> \o (RunAccess \o Fetching(rest))
  BY <1>2, <1>4, <1>6, RunAccessSteps, JoinTwice
<1>. QED BY <1>1, <1>3, <1>7 DEF Reads, Do, Then, RunAccess

(* Sequences one after the other.                                          *)
LEMMA ThenSteps ==
  ASSUME NEW s \in Seq(Steps), NEW t \in Seq(Steps)
  PROVE  Then(s, t) \in Seq(Steps)
BY Joined DEF Then

LEMMA ThenTwice ==
  ASSUME NEW s \in Seq(Steps), NEW t \in Seq(Steps), NEW u \in Seq(Steps)
  PROVE  Then(Then(s, t), u) = Then(s, Then(t, u))
BY JoinTwice DEF Then

LEMMA FlexJoined ==
  ASSUME NEW v \in 0..1, NEW rest \in Seq(Steps)
  PROVE  Then(Flex(v), rest) = Writes("usb2", v, Writes("usb3", v, rest))
<1>1. <<"usb2", v>> \in Commands /\ <<"usb3", v>> \in Commands
  BY CommandsAre
<1>2. WriteReg("usb2", v) \in Seq(Steps) /\ WriteReg("usb3", v) \in Seq(Steps)
  BY <1>1, WriteSteps
<1>3. Then(Flex(v), rest) = Then(WriteReg("usb2", v), Then(WriteReg("usb3", v), rest))
  <2>1. Flex(v) = Then(WriteReg("usb2", v), WriteReg("usb3", v))
    BY DEF Flex, SetGeneric, Then
  <2>. QED BY <1>2, <2>1, ThenTwice
<1>4. /\ Then(WriteReg("usb3", v), rest) = Writes("usb3", v, rest)
      /\ Writes("usb3", v, rest) \in Seq(Steps)
  BY <1>1, WriteJoined
<1>5. Then(WriteReg("usb2", v), Writes("usb3", v, rest))
      = Writes("usb2", v, Writes("usb3", v, rest))
  BY <1>1, <1>4, WriteJoined
<1>. QED BY <1>3, <1>4, <1>5, Zenon

LEMMA ToSteps ==
  ASSUME NEW h \in Hubs
  PROVE  /\ ToCable(h) \in Seq(Steps) /\ ToAttach(h) \in Seq(Steps)
         /\ ToSecondary \in Seq(Steps) /\ ToReread \in Seq(Steps)
         /\ ToContext \in Seq(Steps) /\ ToPrimary \in Seq(Steps)
         /\ ToAddress \in Seq(Steps) /\ ToBcd \in Seq(Steps)
         /\ ToUsb3 \in Seq(Steps) /\ ToUsb2 \in Seq(Steps)
         /\ AfterI2s(h) \in Seq(Steps) /\ ToI2s(h) \in Seq(Steps)
         /\ ToVid(h) \in Seq(Steps) /\ ToId(h) \in Seq(Steps)
         /\ ToAnswer(h) \in Seq(Steps) /\ ToPoint(h) \in Seq(Steps)
         /\ Do(<<"run">>, ToPoint(h)) \in Seq(Steps) /\ ToRevision(h) \in Seq(Steps)
         /\ ToRelease(h) \in Seq(Steps) /\ ToOriginal(h) \in Seq(Steps)
<1>1. ASSUME NEW g \in Hubs
      PROVE  ToCable(g) \in Seq(Steps) /\ ToAttach(g) \in Seq(Steps)
  <2>1. ToCable(g) \in Seq(Steps)
    <3>1. <<>> \in Seq(Steps)
      OBVIOUS
    <3>. QED BY <3>1, HubIsStep, Stepped DEF ToCable
  <2>. QED BY <2>1, PlainIsStep, Stepped DEF ToAttach
<1>2. ToSecondary \in Seq(Steps) /\ ToReread \in Seq(Steps)
  <2>1. ToSecondary \in Seq(Steps)
    BY <1>1, HubsNumbered, CommandsAre, WriteJoined DEF ToSecondary
  <2>. QED BY <2>1, ReadJoined DEF ToReread
<1>3. ToContext \in Seq(Steps) /\ ToPrimary \in Seq(Steps) /\ ToAddress \in Seq(Steps)
      /\ ToBcd \in Seq(Steps)
  <2>1. ToContext \in Seq(Steps)
    BY <1>2, PlainIsStep, Stepped DEF ToContext
  <2>2. ToPrimary \in Seq(Steps)
    BY <2>1, CommandsAre, WriteJoined DEF ToPrimary
  <2>3. ToAddress \in Seq(Steps)
    BY <2>2, ReadJoined DEF ToAddress
  <2>. QED BY <2>1, <2>2, <2>3, ReadJoined DEF ToBcd
<1>4. ToUsb3 \in Seq(Steps) /\ ToUsb2 \in Seq(Steps)
  <2>0. <<"usb2", 1>> \in Commands /\ <<"usb3", 1>> \in Commands
    BY CommandsAre
  <2>1. ToUsb3 \in Seq(Steps)
    BY <1>3, <2>0, WriteJoined DEF ToUsb3
  <2>. QED BY <2>0, <2>1, WriteJoined DEF ToUsb2
<1>5. AfterI2s(h) \in Seq(Steps)
  BY <1>1, <1>4, HubsNumbered DEF AfterI2s
<1>6. ToI2s(h) \in Seq(Steps)
  BY <1>5, CommandsAre, WriteJoined DEF ToI2s
<1>7. ToVid(h) \in Seq(Steps) /\ ToId(h) \in Seq(Steps)
  <2>1. ToVid(h) \in Seq(Steps)
    BY <1>6, ReadJoined DEF ToVid
  <2>. QED BY <2>1, ReadJoined DEF ToId
<1>8. ToAnswer(h) \in Seq(Steps) /\ ToPoint(h) \in Seq(Steps)
      /\ Do(<<"run">>, ToPoint(h)) \in Seq(Steps)
  BY <1>7, PlainIsStep, Stepped DEF ToAnswer, ToPoint
<1>9. ToRevision(h) \in Seq(Steps)
  <2>1. <<"load", "read", "revision">> \in Steps
    BY CommandsAre, LoadIsStep
  <2>. QED BY <1>8, <2>1, Stepped DEF ToRevision
<1>10. ToRelease(h) \in Seq(Steps)
  BY <1>9, HubIsStep, Stepped DEF ToRelease
<1>11. ToOriginal(h) \in Seq(Steps)
  BY <1>10, PlainIsStep, Stepped DEF ToOriginal
<1>. QED BY <1>1, <1>2, <1>3, <1>4, <1>5, <1>6, <1>7, <1>8, <1>9, <1>10, <1>11

(* The suffixes are what is left of the routines.                          *)
LEMMA RevisionJoined ==
  ASSUME NEW h \in Hubs
  PROVE  Then(RetrieveRevision, ToId(h)) = ToRevision(h)
<1>. DEFINE load == <<<<"load", "read", "revision">>>>
            last == <<<<"point">>, <<"revision">>>>
            point == <<<<"point">>>>
            answer == <<<<"revision">>>>
<1>1. /\ load \in Seq(Steps) /\ RunAccess \in Seq(Steps) /\ Then(load, RunAccess) \in Seq(Steps)
      /\ point \in Seq(Steps) /\ answer \in Seq(Steps)
      /\ last \in Seq(Steps)
  <2>1. <<"load", "read", "revision">> \in Steps
    BY CommandsAre, LoadIsStep
  <2>2. load \in Seq(Steps)
    BY <2>1, One
  <2>3. last \in Seq(Steps)
    BY PlainIsStep
  <2>. QED BY <2>2, <2>3, PlainIsStep, RunAccessSteps, One, ThenSteps
<1>2. ToId(h) \in Seq(Steps) /\ ToPoint(h) \in Seq(Steps)
  BY ToSteps
<1>3. last = Then(point, answer)
  BY DEF Then
<1>4. RetrieveRevision = Then(Then(load, RunAccess), last)
  BY DEF RetrieveRevision, Then
<1>5. /\ Then(answer, ToId(h)) = ToAnswer(h)
      /\ Then(point, ToAnswer(h)) = ToPoint(h)
      /\ Then(RunAccess, ToPoint(h)) = Do(<<"run">>, ToPoint(h))
      /\ Then(load, Do(<<"run">>, ToPoint(h))) = ToRevision(h)
  BY DEF ToRevision, ToPoint, ToAnswer, RunAccess, Do, Then
<1>. HIDE DEF load, last, point, answer
<1>6. Then(last, ToId(h)) = ToPoint(h)
  BY <1>1, <1>2, <1>3, <1>5, ThenTwice
<1>7. Then(RetrieveRevision, ToId(h)) = Then(Then(load, RunAccess), ToPoint(h))
  BY <1>1, <1>2, <1>4, <1>6, ThenTwice
<1>8. Then(Then(load, RunAccess), ToPoint(h)) = Then(load, Do(<<"run">>, ToPoint(h)))
  BY <1>1, <1>2, <1>5, ThenTwice
<1>. QED BY <1>5, <1>7, <1>8, Zenon

LEMMA IdentifyJoined ==
  ASSUME NEW h \in Hubs
  PROVE  Then(Identify, ToI2s(h)) = ToId(h)
<1>1. ReadReg("id") \in Seq(Steps) /\ ReadReg("vid") \in Seq(Steps)
  BY ReadSteps
<1>2. Identify = Then(ReadReg("id"), ReadReg("vid"))
  BY DEF Identify, Then
<1>3. ToI2s(h) \in Seq(Steps) /\ ToVid(h) \in Seq(Steps)
  BY ToSteps
<1>4. Then(ReadReg("vid"), ToI2s(h)) = ToVid(h)
  BY <1>3, ReadJoined DEF ToVid
<1>5. Then(ReadReg("id"), ToVid(h)) = ToId(h)
  BY <1>3, ReadJoined DEF ToId
<1>. QED BY <1>1, <1>2, <1>3, <1>4, <1>5, ThenTwice

LEMMA StartJoined ==
  ASSUME NEW h \in Hubs
  PROVE  Then(Then(Then(<<<<"hold", h>>, <<"context", Original>>, <<"release", h>>>>,
                         RetrieveRevision), Identify), ToI2s(h))
         = Do(<<"hold", h>>, ToOriginal(h))
<1>. DEFINE first == <<<<"hold", h>>, <<"context", Original>>, <<"release", h>>>>
            hold == <<<<"hold", h>>>>
            context == <<<<"context", Original>>>>
            release == <<<<"release", h>>>>
            two == Then(hold, context)
<1>1. first \in Seq(Steps) /\ RetrieveRevision \in Seq(Steps) /\ Identify \in Seq(Steps)
  BY FirstSteps, RevisionSteps, IdentifySteps
<1>2. /\ hold \in Seq(Steps) /\ context \in Seq(Steps)
      /\ release \in Seq(Steps) /\ two \in Seq(Steps)
  BY HubIsStep, PlainIsStep, One, ThenSteps
<1>3. first = Then(two, release)
  BY DEF Then
<1>4. /\ ToI2s(h) \in Seq(Steps) /\ ToId(h) \in Seq(Steps) /\ ToRevision(h) \in Seq(Steps)
      /\ ToRelease(h) \in Seq(Steps) /\ ToOriginal(h) \in Seq(Steps)
  BY ToSteps
<1>5. /\ Then(release, ToRevision(h)) = ToRelease(h)
      /\ Then(context, ToRelease(h)) = ToOriginal(h)
      /\ Then(hold, ToOriginal(h)) = Do(<<"hold", h>>, ToOriginal(h))
  BY DEF ToRelease, ToOriginal, Do, Then
<1>6. Then(Identify, ToI2s(h)) = ToId(h) /\ Then(RetrieveRevision, ToId(h)) = ToRevision(h)
  BY IdentifyJoined, RevisionJoined
<1>7. two = Then(hold, context)
  OBVIOUS
<1>. HIDE DEF first, two, hold, context, release
<1>8. Then(first, RetrieveRevision) \in Seq(Steps)
  BY <1>1, ThenSteps
<1>9. Then(Then(Then(first, RetrieveRevision), Identify), ToI2s(h))
      = Then(Then(first, RetrieveRevision), ToId(h))
  BY <1>1, <1>4, <1>6, <1>8, ThenTwice
<1>10. Then(Then(first, RetrieveRevision), ToId(h)) = Then(first, ToRevision(h))
  BY <1>1, <1>4, <1>6, ThenTwice
<1>11. Then(first, ToRevision(h)) = Then(two, ToRelease(h))
  BY <1>2, <1>3, <1>4, <1>5, ThenTwice
<1>12. Then(two, ToRelease(h)) = Then(hold, ToOriginal(h))
  BY <1>2, <1>4, <1>5, <1>7, ThenTwice
<1>13. Then(Then(Then(first, RetrieveRevision), Identify), ToI2s(h))
       = Do(<<"hold", h>>, ToOriginal(h))
  BY <1>5, <1>9, <1>10, <1>11, <1>12, Zenon
<1>. QED BY <1>13 DEF first

LEMMA CableJoined ==
  ASSUME NEW h \in Hubs
  PROVE  /\ Attach \in Seq(Steps) /\ <<<<"cable", h>>>> \in Seq(Steps)
         /\ Then(Attach, <<<<"cable", h>>>>) = ToAttach(h)
         /\ Then(DisableI2s, AfterI2s(h)) = ToI2s(h)
<1>1. <<<<"cable", h>>>> = ToCable(h)
  BY DEF ToCable, Do
<1>2. Then(Attach, ToCable(h)) = ToAttach(h)
  BY DEF ToAttach, Attach, Do, Then
<1>3. Then(DisableI2s, AfterI2s(h)) = ToI2s(h)
  BY CommandsAre, ToSteps, WriteJoined DEF DisableI2s, ToI2s
<1>. QED BY <1>1, <1>2, <1>3, LastSteps

LEMMA Usb0Is == InitializeUsb0 = Do(<<"hold", 0>>, ToOriginal(0))
<1>. DEFINE first == Then(Then(<<<<"hold", 0>>, <<"context", Original>>, <<"release", 0>>>>,
                               RetrieveRevision), Identify)
            cable == <<<<"cable", 0>>>>
            more == Then(first, DisableI2s)
<1>1. first \in Seq(Steps) /\ DisableI2s \in Seq(Steps) /\ more \in Seq(Steps)
  BY HubsNumbered, FirstSteps, RevisionSteps, IdentifySteps, I2sSteps, ThenSteps
<1>2. Then(first, ToI2s(0)) = Do(<<"hold", 0>>, ToOriginal(0))
  BY HubsNumbered, StartJoined
<1>3. InitializeUsb0 = Then(Then(more, Attach), cable)
  BY DEF InitializeUsb0, Then
<1>4. /\ Attach \in Seq(Steps) /\ cable \in Seq(Steps)
      /\ Then(Attach, cable) = ToAttach(0)
      /\ Then(DisableI2s, ToAttach(0)) = ToI2s(0) /\ ToAttach(0) \in Seq(Steps)
  BY HubsNumbered, CableJoined, ToSteps DEF AfterI2s
<1>5. more = Then(first, DisableI2s)
  OBVIOUS
<1>. HIDE DEF first, more, cable
<1>6. Then(Then(more, Attach), cable) = Then(more, ToAttach(0))
  BY <1>1, <1>4, ThenTwice
<1>7. Then(more, ToAttach(0)) = Then(first, ToI2s(0))
  BY <1>1, <1>4, <1>5, ThenTwice
<1>. QED BY <1>2, <1>3, <1>6, <1>7, Zenon

LEMMA Usb1Parts ==
  /\ Flex(1) \in Seq(Steps) /\ Then(Flex(1), ToBcd) = ToUsb2
  /\ GetGeneric("bcd") \in Seq(Steps) /\ Then(GetGeneric("bcd"), ToAddress) = ToBcd
  /\ GetPrimary \in Seq(Steps) /\ Then(GetPrimary, ToPrimary) = ToAddress
  /\ Then(GetPrimary, ToSecondary) = ToReread
  /\ SetAddress("primary", New) \in Seq(Steps)
  /\ Then(SetAddress("primary", New), ToContext) = ToPrimary
  /\ <<<<"context", New>>>> \in Seq(Steps)
  /\ Then(<<<<"context", New>>>>, ToReread) = ToContext
  /\ SetAddress("secondary", "none") \in Seq(Steps)
  /\ Then(SetAddress("secondary", "none"), ToAttach(1)) = ToSecondary
<1>1. 1 \in Hubs
  BY HubsNumbered
<1>2. /\ ToAttach(1) \in Seq(Steps) /\ ToSecondary \in Seq(Steps)
      /\ ToReread \in Seq(Steps) /\ ToContext \in Seq(Steps) /\ ToPrimary \in Seq(Steps)
      /\ ToAddress \in Seq(Steps) /\ ToBcd \in Seq(Steps)
  BY <1>1, ToSteps
<1>3. Flex(1) \in Seq(Steps) /\ Then(Flex(1), ToBcd) = ToUsb2
  <2>1. Then(Flex(1), ToBcd) = Writes("usb2", 1, Writes("usb3", 1, ToBcd))
    BY <1>2, FlexJoined
  <2>. QED BY <2>1, FlexSteps DEF ToUsb2, ToUsb3
<1>4. /\ GetGeneric("bcd") \in Seq(Steps) /\ Then(GetGeneric("bcd"), ToAddress) = ToBcd
      /\ Then(GetPrimary, ToPrimary) = ToAddress
      /\ Then(GetPrimary, ToSecondary) = ToReread
  BY <1>2, ReadJoined, ReadSteps DEF GetGeneric, GetPrimary, ToBcd, ToAddress, ToReread
<1>5. /\ Then(SetAddress("primary", New), ToContext) = ToPrimary
      /\ Then(SetAddress("secondary", "none"), ToAttach(1)) = ToSecondary
  BY <1>2, CommandsAre, WriteJoined DEF SetAddress, ToPrimary, ToSecondary
<1>6. Then(<<<<"context", New>>>>, ToReread) = ToContext
  BY DEF ToContext, Do, Then
<1>. QED BY <1>3, <1>4, <1>5, <1>6, AddressSteps

LEMMA Usb1Is == InitializeUsb1 = Do(<<"hold", 1>>, ToOriginal(1))
<1>. DEFINE first == Then(Then(<<<<"hold", 1>>, <<"context", Original>>, <<"release", 1>>>>,
                               RetrieveRevision), Identify)
            cable == <<<<"cable", 1>>>>
            context == <<<<"context", New>>>>
            p1 == Then(first, DisableI2s)
            p2 == Then(p1, Flex(1))
            p3 == Then(p2, GetGeneric("bcd"))
            p4 == Then(p3, GetPrimary)
            p5 == Then(p4, SetAddress("primary", New))
            p6 == Then(p5, context)
            p7 == Then(p6, GetPrimary)
            p8 == Then(p7, SetAddress("secondary", "none"))
<1>0. context \in Seq(Steps) /\ Then(context, ToReread) = ToContext
  BY Usb1Parts
<1>1. 1 \in Hubs
  BY HubsNumbered
<1>2. first \in Seq(Steps) /\ DisableI2s \in Seq(Steps)
  BY <1>1, FirstSteps, RevisionSteps, IdentifySteps, I2sSteps, ThenSteps
<1>3. Then(first, ToI2s(1)) = Do(<<"hold", 1>>, ToOriginal(1))
  BY <1>1, StartJoined
<1>4. InitializeUsb1 = Then(Then(p8, Attach), cable)
  BY DEF InitializeUsb1, Then
<1>5. p1 = Then(first, DisableI2s) /\ p2 = Then(p1, Flex(1)) /\ p3 = Then(p2, GetGeneric("bcd"))
  OBVIOUS
<1>6. /\ p4 = Then(p3, GetPrimary) /\ p5 = Then(p4, SetAddress("primary", New))
      /\ p6 = Then(p5, context) /\ p7 = Then(p6, GetPrimary)
      /\ p8 = Then(p7, SetAddress("secondary", "none"))
  OBVIOUS
<1>7. /\ Attach \in Seq(Steps) /\ cable \in Seq(Steps)
      /\ Then(Attach, cable) = ToAttach(1)
      /\ Then(DisableI2s, ToUsb2) = ToI2s(1)
  BY <1>1, CableJoined DEF AfterI2s
<1>8. /\ ToAttach(1) \in Seq(Steps) /\ ToSecondary \in Seq(Steps)
      /\ ToReread \in Seq(Steps) /\ ToContext \in Seq(Steps) /\ ToPrimary \in Seq(Steps)
      /\ ToAddress \in Seq(Steps) /\ ToBcd \in Seq(Steps) /\ ToUsb2 \in Seq(Steps)
  BY <1>1, ToSteps
<1>. HIDE DEF first, cable, context, p1, p2, p3, p4, p5, p6, p7, p8
<1>9. p1 \in Seq(Steps) /\ p2 \in Seq(Steps) /\ p3 \in Seq(Steps) /\ p4 \in Seq(Steps)
  <2>1. p1 \in Seq(Steps)
    BY <1>2, <1>5, ThenSteps
  <2>2. p2 \in Seq(Steps)
    BY <1>5, <2>1, Usb1Parts, ThenSteps
  <2>3. p3 \in Seq(Steps)
    BY <1>5, <2>2, Usb1Parts, ThenSteps
  <2>4. p4 \in Seq(Steps)
    BY <1>6, <2>3, Usb1Parts, ThenSteps
  <2>. QED BY <2>1, <2>2, <2>3, <2>4
<1>10. p5 \in Seq(Steps) /\ p6 \in Seq(Steps) /\ p7 \in Seq(Steps) /\ p8 \in Seq(Steps)
  <2>1. p5 \in Seq(Steps)
    BY <1>6, <1>9, Usb1Parts, ThenSteps
  <2>2. p6 \in Seq(Steps)
    BY <1>0, <1>6, <2>1, ThenSteps
  <2>3. p7 \in Seq(Steps)
    BY <1>6, <2>2, Usb1Parts, ThenSteps
  <2>4. p8 \in Seq(Steps)
    BY <1>6, <2>3, Usb1Parts, ThenSteps
  <2>. QED BY <2>1, <2>2, <2>3, <2>4
<1>11. InitializeUsb1 = Then(p8, ToAttach(1))
  <2>1. Then(Then(p8, Attach), cable) = Then(p8, ToAttach(1))
    BY <1>7, <1>10, ThenTwice
  <2>. QED BY <1>4, <2>1, Zenon
<1>12. Then(p8, ToAttach(1)) = Then(p7, ToSecondary)
  BY <1>6, <1>8, <1>10, Usb1Parts, ThenTwice
<1>13. Then(p7, ToSecondary) = Then(p6, ToReread)
  BY <1>6, <1>8, <1>10, Usb1Parts, ThenTwice
<1>14. Then(p6, ToReread) = Then(p5, ToContext)
  BY <1>0, <1>6, <1>8, <1>10, ThenTwice
<1>15. Then(p5, ToContext) = Then(p4, ToPrimary)
  BY <1>6, <1>8, <1>9, Usb1Parts, ThenTwice
<1>16. Then(p4, ToPrimary) = Then(p3, ToAddress)
  BY <1>6, <1>8, <1>9, Usb1Parts, ThenTwice
<1>17. Then(p3, ToAddress) = Then(p2, ToBcd)
  BY <1>5, <1>8, <1>9, Usb1Parts, ThenTwice
<1>18. Then(p2, ToBcd) = Then(p1, ToUsb2)
  BY <1>5, <1>8, <1>9, Usb1Parts, ThenTwice
<1>19. Then(p1, ToUsb2) = Then(first, ToI2s(1))
  BY <1>2, <1>5, <1>7, <1>8, ThenTwice
<1>. QED BY <1>3, <1>11, <1>12, <1>13, <1>14, <1>15, <1>16, <1>17, <1>18, <1>19, Zenon

LEMMA InitializeIs ==
  ASSUME NEW h \in Hubs
  PROVE  /\ Initialize(h) = Do(<<"hold", h>>, ToOriginal(h))
         /\ Initialize(h) \in Seq(Steps)
<1>1. h = 0 \/ h = 1
  BY DEF Hubs
<1>2. Initialize(h) = Do(<<"hold", h>>, ToOriginal(h))
  BY <1>1, Usb0Is, Usb1Is DEF Initialize
<1>. QED BY <1>2, InitializeSteps

-----------------------------------------------------------------------------
(***************************************************************************)
(* What a transfer does to the hub under initialisation.                   *)
(***************************************************************************)
(* The hub that the transfers are meant for: losses are counted for it.    *)
Mine(h) == current = h \/ (current = NoHub /\ h = 0)
(* A hub that is up, without its command block.                            *)
Calm == {c \in HubStates : ~c.reset /\ c.awake /\ c.block = <<"read", "none">>}
WriteRegs == {"usb2", "usb3", "i2s", "primary", "secondary"}

LEMMA BareFields ==
  ASSUME NEW k \in HubStates
  PROVE  /\ Bare(k).reset = k.reset /\ Bare(k).awake = k.awake
         /\ Bare(k).running = k.running /\ Bare(k).primary = k.primary
         /\ Bare(k).secondary = k.secondary /\ Bare(k).i2s = k.i2s
         /\ Bare(k).usb2 = k.usb2 /\ Bare(k).usb3 = k.usb3
BY DEF Bare, HubStates

LEMMA TakenLoad ==
  ASSUME NEW k \in HubStates, NEW a, NEW b
  PROVE  /\ Bare(Take(k, <<"load", a, b>>)) = Bare(k)
         /\ Take(k, <<"load", a, b>>).block = <<a, b>>
<1>1. Take(k, <<"load", a, b>>) = [k EXCEPT !.block = <<a, b>>]
  BY DEF Take
<1>. QED BY <1>1 DEF Bare, HubStates

LEMMA TakenIdle ==
  ASSUME NEW k, NEW s, s[1] \in {"point", "fetch", "revision"}
  PROVE  Take(k, s) = k
BY DEF Take

LEMMA TakenRead ==
  ASSUME NEW k, k.block[1] = "read"
  PROVE  Take(k, <<"run">>) = k
BY DEF Take, Run

LEMMA TakenWrite ==
  ASSUME NEW k \in HubStates, NEW r \in WriteRegs, NEW v, k.block = <<r, v>>
  PROVE  Bare(Take(k, <<"run">>)) = [Bare(k) EXCEPT ![r] = v]
<1>1. r # "read" /\ r # "block"
  BY DEF WriteRegs
<1>2. Take(k, <<"run">>) = [k EXCEPT ![r] = v]
  BY <1>1 DEF Take, Run
<1>3. CASE r = "usb2"
  BY <1>2, <1>3 DEF Bare, HubStates
<1>4. CASE r = "usb3"
  BY <1>2, <1>4 DEF Bare, HubStates
<1>5. CASE r = "i2s"
  BY <1>2, <1>5 DEF Bare, HubStates
<1>6. CASE r = "primary"
  BY <1>2, <1>6 DEF Bare, HubStates
<1>7. CASE r = "secondary"
  BY <1>2, <1>7 DEF Bare, HubStates
<1>. QED BY <1>3, <1>4, <1>5, <1>6, <1>7 DEF WriteRegs

LEMMA TakenAttach ==
  ASSUME NEW k \in HubStates
  PROVE  Bare(Take(k, <<"attach">>)) = [Bare(k) EXCEPT !.running = TRUE]
<1>1. Take(k, <<"attach">>) = [k EXCEPT !.running = TRUE]
  BY DEF Take
<1>. QED BY <1>1 DEF Bare, HubStates

LEMMA LossNoticed ==
  ASSUME HistoryTyped, NEW h \in Hubs, Mine(h), LoseTransfer
  PROVE  ~Sure(h)'
<1>1. h = IF current \in Hubs THEN current ELSE 0
  BY DEF Mine, Hubs, NoHub
<1>2. lost' = [lost EXCEPT ![h] = @ + 1]
  BY <1>1 DEF LoseTransfer
<1>3. lost'[h] = lost[h] + 1 /\ lost[h] \in Nat
  BY <1>2 DEF HistoryTyped
<1>4. lost'[h] # 0
  BY <1>3
<1>. QED BY <1>4 DEF Sure

(* What a step did to deputy stays, and no step is a standby.              *)
LEMMA Told == Step => recoveries' = recoveries /\ (ToldApart' => ToldApart)
<1>. SUFFICES ASSUME Step PROVE recoveries' = recoveries /\ (ToldApart' => ToldApart)
  OBVIOUS
<1>1. recoveries' = recoveries /\ (deputy' = deputy \/ Revision)
  BY DEF Step, Transfer, Revision, Hold, InitCtxt, Release, ReadCable, Compare, Adopt,
         LoseTransfer, Transferred, counts
<1>2. ASSUME Revision, deputy PROVE deputy'
  BY <1>2 DEF Revision
<1>. QED BY <1>1, <1>2 DEF ToldApart

(* Nothing was lost in a transfer that leaves the routine sure.            *)
LEMMA SureKept ==
  ASSUME HistoryTyped, Step, NEW h \in Hubs, Mine(h), NEW s,
         Transferred(s) \/ LoseTransfer, result' = result, Sure(h)'
  PROVE  Transferred(s) /\ Sure(h)
<1>1. Transferred(s)
  BY LossNoticed
<1>2. lost' = lost
  BY <1>1 DEF Transferred
<1>. QED BY <1>1, <1>2, Told DEF Sure

LEMMA Hears ==
  ASSUME GaiaInv, NEW h \in Hubs, NEW c \in Calm, Bare(hub[h]) = c, c.primary = slave
  PROVE  Listens(h)
<1>1. hub[h] \in HubStates
  BY DEF GaiaInv
<1>. QED BY <1>1, BareFields DEF Calm, Listens

LEMMA Heard ==
  ASSUME GaiaInv, HistoryTyped, Step, NEW h \in Hubs, Mine(h), NEW c \in Calm, Is(h, c),
         c.primary = slave, NEW s, Transferred(s) \/ LoseTransfer, result' = result,
         Sure(h)'
  PROVE  /\ Sure(h) /\ Bare(hub[h]) = c
         /\ hub'[h] = Take(hub[h], s) /\ hub[h] \in HubStates
<1>1. Transferred(s) /\ Sure(h)
  BY SureKept
<1>2. Bare(hub[h]) = c
  BY <1>1 DEF Is
<1>3. Listens(h)
  BY <1>2, Hears
<1>. QED BY <1>1, <1>2, <1>3 DEF Transferred, GaiaInv

(* Hub 1 at its new address does not take what is sent to the original one. *)
LEMMA OtherKept ==
  ASSUME GaiaInv, HistoryTyped, Step, Is(1, Ready1), slave = Original, current # 1, NEW s,
         Transferred(s) \/ LoseTransfer, result'[1] = result[1]
  PROVE  Is(1, Ready1)'
<1>1. lost'[1] = lost[1]
  <2>1. CASE Transferred(s)
    BY <2>1 DEF Transferred
  <2>2. CASE LoseTransfer
    BY <2>2, HubsNumbered DEF LoseTransfer, HistoryTyped
  <2>. QED BY <2>1, <2>2
<1>2. Sure(1)' => Sure(1)
  BY <1>1, Told DEF Sure
<1>3. ASSUME Sure(1)
      PROVE  hub'[1] = hub[1]
  <2>1. hub[1] \in HubStates /\ 1 \in Hubs
    BY HubsNumbered DEF GaiaInv
  <2>2. Bare(hub[1]).primary = New
    BY <1>3 DEF Is, Ready1, Alone, Moved, Flexed, Half, Silent, Up, InReset
  <2>3. ~Listens(1)
    BY <2>1, <2>2, BareFields DEF Listens, Original, New
  <2>. QED BY <2>1, <2>3 DEF Transferred, LoseTransfer
<1>. QED BY <1>2, <1>3 DEF Is

-----------------------------------------------------------------------------
(***************************************************************************)
(* Reads, writes and the attach command, transfer by transfer.             *)
(***************************************************************************)
LEMMA OnlyTransfer ==
  ASSUME Step, NEW x \in Steps, NEW rest \in Seq(Steps), todo = Do(x, rest),
         x[1] \in Transfers
  PROVE  /\ Transferred(x) \/ LoseTransfer
         /\ todo' = rest /\ current' = current /\ slave' = slave /\ result' = result
<1>1. Head(todo) = x /\ Tail(todo) = rest
  BY Stepped
<1>2. Transfer
  BY <1>1 DEF Step, Transfers, Revision, Hold, InitCtxt, Release, ReadCable, Compare, Adopt
<1>. QED BY <1>1, <1>2 DEF Transfer

LEMMA Reading1 ==
  ASSUME GaiaInv, HistoryTyped, Step, NEW h \in Hubs, Mine(h), NEW c \in Calm,
         c.primary = slave, NEW rest \in Seq(Steps),
         NEW r \in {"revision", "id", "vid", "bcd", "primary"},
         Reading(h, r, rest, c)
  PROVE  /\ \E s : Transferred(s) \/ LoseTransfer
         /\ current' = current /\ slave' = slave /\ result' = result
         /\ Reading(h, r, rest, c)' \/ (todo' = rest /\ Is(h, c)')
<1>1. Is(h, c)
  BY DEF Reading
<1>2. Fetching(rest) \in Seq(Steps) /\ Do(<<"fetch">>, rest) \in Seq(Steps)
      /\ Do(<<"run">>, Fetching(rest)) \in Seq(Steps)
  BY FetchJoined
<1>3. CASE todo = Reads(r, rest)
  <2>. DEFINE x == <<"load", "read", r>>
  <2>1. x \in Steps /\ x[1] \in Transfers
    BY ReadJoined DEF Transfers
  <2>2. todo = Do(x, Do(<<"run">>, Fetching(rest)))
    BY <1>3 DEF Reads
  <2>. HIDE DEF x
  <2>3. /\ Transferred(x) \/ LoseTransfer
        /\ todo' = Do(<<"run">>, Fetching(rest)) /\ current' = current
        /\ slave' = slave /\ result' = result
    BY <1>2, <2>1, <2>2, OnlyTransfer
  <2>4. ASSUME Sure(h)'
        PROVE  Bare(hub'[h]) = c /\ hub'[h].block = <<"read", r>>
    <3>1. Bare(hub[h]) = c /\ hub'[h] = Take(hub[h], x) /\ hub[h] \in HubStates
      BY <1>1, <2>3, <2>4, Heard
    <3>. QED BY <3>1, TakenLoad DEF x
  <2>5. Is(h, c)' /\ Loaded(h, <<"read", r>>)'
    BY <2>4 DEF Is, Loaded
  <2>. QED BY <2>3, <2>5 DEF Reading
<1>4. CASE todo = Do(<<"run">>, Fetching(rest)) /\ Loaded(h, <<"read", r>>)
  <2>1. /\ Transferred(<<"run">>) \/ LoseTransfer
        /\ todo' = Fetching(rest) /\ current' = current
        /\ slave' = slave /\ result' = result
    BY <1>2, <1>4, OnlyTransfer, PlainIsStep DEF Transfers
  <2>2. ASSUME Sure(h)'
        PROVE  Bare(hub'[h]) = c
    <3>1. Sure(h) /\ Bare(hub[h]) = c /\ hub'[h] = Take(hub[h], <<"run">>)
      BY <1>1, <2>1, <2>2, Heard
    <3>2. hub[h].block[1] = "read"
      BY <1>4, <3>1 DEF Loaded
    <3>. QED BY <3>1, <3>2, TakenRead
  <2>3. Is(h, c)'
    BY <2>2 DEF Is
  <2>. QED BY <2>1, <2>3 DEF Reading
<1>5. ASSUME NEW x \in {<<"point">>, <<"fetch">>}, NEW next \in Seq(Steps),
             todo = Do(x, next)
      PROVE  /\ Transferred(x) \/ LoseTransfer
             /\ todo' = next /\ current' = current
             /\ slave' = slave /\ result' = result /\ Is(h, c)'
  <2>1. /\ Transferred(x) \/ LoseTransfer
        /\ todo' = next /\ current' = current
        /\ slave' = slave /\ result' = result
    <3>1. x \in Steps /\ x[1] \in Transfers
      BY PlainIsStep DEF Transfers
    <3>. QED BY <1>5, <3>1, OnlyTransfer
  <2>2. ASSUME Sure(h)'
        PROVE  Bare(hub'[h]) = c
    <3>1. Sure(h) /\ Bare(hub[h]) = c /\ hub'[h] = Take(hub[h], x)
      BY <1>1, <2>1, <2>2, Heard
    <3>. QED BY <3>1, TakenIdle
  <2>. QED BY <2>1, <2>2 DEF Is
<1>6. CASE todo = Fetching(rest)
  <2>1. /\ Transferred(<<"point">>) \/ LoseTransfer
        /\ todo' = Do(<<"fetch">>, rest) /\ current' = current
        /\ slave' = slave /\ result' = result /\ Is(h, c)'
    BY <1>2, <1>5, <1>6 DEF Fetching
  <2>. QED BY <2>1 DEF Reading
<1>7. CASE todo = Do(<<"fetch">>, rest)
  BY <1>5, <1>7
<1>. QED BY <1>3, <1>4, <1>6, <1>7 DEF Reading

LEMMA Writing1 ==
  ASSUME GaiaInv, HistoryTyped, Step, NEW h \in Hubs, Mine(h), NEW c \in Calm,
         c.primary = slave, NEW rest \in Seq(Steps),
         NEW r \in WriteRegs, NEW v, <<r, v>> \in Commands,
         Writing(h, r, v, rest, c)
  PROVE  /\ \E s : Transferred(s) \/ LoseTransfer
         /\ current' = current /\ slave' = slave /\ result' = result
         /\ Writing(h, r, v, rest, c)' \/ (todo' = rest /\ Is(h, [c EXCEPT ![r] = v])')
<1>1. Is(h, c)
  BY DEF Writing
<1>2. CASE todo = Writes(r, v, rest)
  <2>. DEFINE x == <<"load", r, v>>
  <2>1. x \in Steps /\ x[1] \in Transfers /\ Do(<<"run">>, rest) \in Seq(Steps)
    BY WriteJoined DEF Transfers
  <2>2. todo = Do(x, Do(<<"run">>, rest))
    BY <1>2 DEF Writes
  <2>. HIDE DEF x
  <2>3. /\ Transferred(x) \/ LoseTransfer
        /\ todo' = Do(<<"run">>, rest) /\ current' = current
        /\ slave' = slave /\ result' = result
    BY <2>1, <2>2, OnlyTransfer
  <2>4. ASSUME Sure(h)'
        PROVE  Bare(hub'[h]) = c /\ hub'[h].block = <<r, v>>
    <3>1. Bare(hub[h]) = c /\ hub'[h] = Take(hub[h], x) /\ hub[h] \in HubStates
      BY <1>1, <2>3, <2>4, Heard
    <3>. QED BY <3>1, TakenLoad DEF x
  <2>5. Is(h, c)' /\ Loaded(h, <<r, v>>)'
    BY <2>4 DEF Is, Loaded
  <2>. QED BY <2>3, <2>5 DEF Writing
<1>3. CASE todo = Do(<<"run">>, rest) /\ Loaded(h, <<r, v>>)
  <2>1. /\ Transferred(<<"run">>) \/ LoseTransfer
        /\ todo' = rest /\ current' = current
        /\ slave' = slave /\ result' = result
    BY <1>3, OnlyTransfer, PlainIsStep DEF Transfers
  <2>2. ASSUME Sure(h)'
        PROVE  Bare(hub'[h]) = [c EXCEPT ![r] = v]
    <3>1. /\ Sure(h) /\ Bare(hub[h]) = c /\ hub'[h] = Take(hub[h], <<"run">>)
          /\ hub[h] \in HubStates
      BY <1>1, <2>1, <2>2, Heard
    <3>2. hub[h].block = <<r, v>>
      BY <1>3, <3>1 DEF Loaded
    <3>. QED BY <3>1, <3>2, TakenWrite
  <2>3. Is(h, [c EXCEPT ![r] = v])'
    BY <2>2 DEF Is
  <2>. QED BY <2>1, <2>3
<1>. QED BY <1>2, <1>3 DEF Writing

LEMMA Attached ==
  ASSUME GaiaInv, HistoryTyped, Step, NEW h \in Hubs, Mine(h), NEW c \in Calm,
         c.primary = slave, Is(h, c), todo = ToAttach(h)
  PROVE  /\ \E s : Transferred(s) \/ LoseTransfer
         /\ current' = current /\ slave' = slave /\ result' = result
         /\ todo' = ToCable(h) /\ Is(h, [c EXCEPT !.running = TRUE])'
<1>1. /\ Transferred(<<"attach">>) \/ LoseTransfer
      /\ todo' = ToCable(h) /\ current' = current
      /\ slave' = slave /\ result' = result
  BY OnlyTransfer, PlainIsStep, ToSteps DEF Transfers, ToAttach
<1>2. ASSUME Sure(h)'
      PROVE  Bare(hub'[h]) = [c EXCEPT !.running = TRUE]
  <2>1. /\ Bare(hub[h]) = c /\ hub'[h] = Take(hub[h], <<"attach">>)
        /\ hub[h] \in HubStates
    BY <1>1, <1>2, Heard
  <2>. QED BY <2>1, TakenAttach
<1>. QED BY <1>1, <1>2 DEF Is

-----------------------------------------------------------------------------
(***************************************************************************)
(* The parts of the routines, one after the other.                         *)
(***************************************************************************)
LEMMA HubsOnTheWay ==
  /\ Up \in Calm /\ Silent \in Calm /\ Half \in Calm /\ Flexed \in Calm
  /\ Moved \in Calm /\ Alone \in Calm /\ Ready1 \in Calm
  /\ \A v \in 0..1 : /\ Ready0(v) \in Calm /\ Ready0(v).primary = Original
                     /\ \A w \in 0..1 :
                          /\ [Ready0(v) EXCEPT !.usb2 = w] \in Calm
                          /\ [Ready0(v) EXCEPT !.usb2 = w].primary = Original
                          /\ [[Ready0(v) EXCEPT !.usb2 = w] EXCEPT !["usb3"] = w] = Ready0(w)
  /\ Up.primary = Original /\ Silent.primary = Original /\ Half.primary = Original
  /\ Flexed.primary = Original
  /\ Moved.primary = New /\ Alone.primary = New /\ Ready1.primary = New
  /\ [Up EXCEPT !["i2s"] = "off"] = Silent
  /\ [Silent EXCEPT !["usb2"] = 1] = Half
  /\ [Half EXCEPT !["usb3"] = 1] = Flexed
  /\ [Flexed EXCEPT !["primary"] = New] = Moved
  /\ [Moved EXCEPT !["secondary"] = "none"] = Alone
  /\ [Alone EXCEPT !.running = TRUE] = Ready1
  /\ [Silent EXCEPT !.running = TRUE] = Ready0(0)
<1>1. <<"read", "none">> \in Commands
  BY DEF Commands, ReadCommands
<1>2. Up \in Calm /\ Up.primary = Original
  <2>1. InReset.primary = Original /\ InReset.block = <<"read", "none">>
    BY DEF InReset
  <2>. QED BY <2>1, HeldType DEF Calm, HubStates, Up
<1>3. Silent \in Calm /\ Silent.primary = Original /\ [Up EXCEPT !["i2s"] = "off"] = Silent
  BY <1>2 DEF Calm, HubStates, Silent
<1>4. Half \in Calm /\ Half.primary = Original /\ [Silent EXCEPT !["usb2"] = 1] = Half
  <2>1. Half \in HubStates
    BY <1>3 DEF Calm, HubStates, Half
  <2>. QED BY <1>3, <2>1 DEF Calm, HubStates, Half
<1>5. Flexed \in Calm /\ Flexed.primary = Original /\ [Half EXCEPT !["usb3"] = 1] = Flexed
  BY <1>4 DEF Calm, HubStates, Flexed
<1>6. Moved \in Calm /\ Moved.primary = New /\ [Flexed EXCEPT !["primary"] = New] = Moved
  BY <1>5 DEF Calm, HubStates, Moved
<1>7. /\ Alone \in Calm /\ Alone.primary = New
      /\ [Moved EXCEPT !["secondary"] = "none"] = Alone
  BY <1>6 DEF Calm, HubStates, Alone
<1>8. Ready1 \in Calm /\ Ready1.primary = New /\ [Alone EXCEPT !.running = TRUE] = Ready1
  BY <1>7 DEF Calm, HubStates, Ready1
<1>9. ASSUME NEW v \in 0..1
      PROVE  Ready0(v) \in Calm /\ Ready0(v).primary = Original
  BY <1>3 DEF Calm, HubStates, Ready0
<1>10. ASSUME NEW v \in 0..1, NEW w \in 0..1
       PROVE  /\ [Ready0(v) EXCEPT !.usb2 = w] \in Calm
              /\ [Ready0(v) EXCEPT !.usb2 = w].primary = Original
  BY <1>9 DEF Calm, HubStates
<1>11. ASSUME NEW v \in 0..1, NEW w \in 0..1
       PROVE  [[Ready0(v) EXCEPT !.usb2 = w] EXCEPT !["usb3"] = w] = Ready0(w)
  BY <1>3 DEF Calm, HubStates, Ready0
<1>12. [Silent EXCEPT !.running = TRUE] = Ready0(0)
  <2>1. Silent.usb2 = 0 /\ Silent.usb3 = 0
    BY DEF Silent, Up, InReset
  <2>. QED BY <1>3, <2>1 DEF Calm, HubStates, Ready0
<1>. QED BY <1>2, <1>3, <1>4, <1>5, <1>6, <1>7, <1>8, <1>9, <1>10, <1>11, <1>12

LEMMA HistoryKept ==
  ASSUME HistoryTyped, \E s : Transferred(s) \/ LoseTransfer
  PROVE  lost' \in [Hubs -> Nat]
<1>1. PICK s : Transferred(s) \/ LoseTransfer
  OBVIOUS
<1>2. CASE Transferred(s)
  BY <1>2 DEF Transferred, HistoryTyped
<1>3. CASE LoseTransfer
  <2>1. PICK g \in Hubs : g = IF current \in Hubs THEN current ELSE 0
    BY HubsNumbered
  <2>2. lost' = [lost EXCEPT ![g] = @ + 1]
    BY <1>3, <2>1 DEF LoseTransfer
  <2>3. lost[g] + 1 \in Nat
    BY DEF HistoryTyped
  <2>. QED BY <2>2, <2>3 DEF HistoryTyped
<1>. QED BY <1>1, <1>2, <1>3

(* What every transfer of hub h leaves alone.                              *)
Untouched ==
  /\ current' = current /\ result' = result
  /\ \E s : Transferred(s) \/ LoseTransfer

HubsTold == UNCHANGED hub \/ \E s : Transferred(s) \/ LoseTransfer

(* A hub in reset takes nothing.                                           *)
LEMMA ResetKept ==
  ASSUME GaiaInv, hub[0].reset, HubsTold
  PROVE  hub'[0].reset
<1>1. ~Listens(0) /\ 0 \in Hubs
  BY HubsNumbered DEF Listens
<1>2. hub'[0] = hub[0]
  BY <1>1 DEF HubsTold, Transferred, LoseTransfer
<1>. QED BY <1>2

LEMMA AnsweringKept ==
  ASSUME GaiaInv, HistoryTyped, Step, NEW h \in Hubs, Mine(h), Answering(h)
  PROVE  /\ Untouched /\ slave' = slave
         /\ Answering(h)' \/ (todo' = AfterI2s(h) /\ Is(h, Silent)')
<1>. USE DEF Untouched
<1>1. /\ ToVid(h) \in Seq(Steps) /\ ToI2s(h) \in Seq(Steps) /\ AfterI2s(h) \in Seq(Steps)
      /\ slave = Original
  BY ToSteps DEF Answering
<1>2. Up \in Calm /\ Up.primary = slave /\ [Up EXCEPT !["i2s"] = "off"] = Silent
  BY <1>1, HubsOnTheWay
<1>3. CASE Reading(h, "id", ToVid(h), Up)
  <2>1. /\ Untouched /\ slave' = slave
        /\ Reading(h, "id", ToVid(h), Up)' \/ (todo' = ToVid(h) /\ Is(h, Up)')
    BY <1>1, <1>2, <1>3, Reading1
  <2>2. ASSUME todo' = ToVid(h), Is(h, Up)'
        PROVE  Reading(h, "vid", ToI2s(h), Up)'
    BY <2>2 DEF Reading, ToVid
  <2>. QED BY <1>1, <2>1, <2>2 DEF Answering
<1>4. CASE Reading(h, "vid", ToI2s(h), Up)
  <2>1. /\ Untouched /\ slave' = slave
        /\ Reading(h, "vid", ToI2s(h), Up)' \/ (todo' = ToI2s(h) /\ Is(h, Up)')
    BY <1>1, <1>2, <1>4, Reading1
  <2>2. ASSUME todo' = ToI2s(h), Is(h, Up)'
        PROVE  Writing(h, "i2s", "off", AfterI2s(h), Up)'
    BY <2>2 DEF Writing, ToI2s
  <2>. QED BY <1>1, <2>1, <2>2 DEF Answering
<1>5. CASE Writing(h, "i2s", "off", AfterI2s(h), Up)
  <2>1. "i2s" \in WriteRegs /\ <<"i2s", "off">> \in Commands
    BY CommandsAre DEF WriteRegs
  <2>2. /\ Untouched /\ slave' = slave
        /\ \/ Writing(h, "i2s", "off", AfterI2s(h), Up)'
           \/ todo' = AfterI2s(h) /\ Is(h, [Up EXCEPT !["i2s"] = "off"])'
    BY <1>1, <1>2, <1>5, <2>1, Writing1
  <2>. QED BY <1>1, <1>2, <2>2 DEF Answering
<1>. QED BY <1>3, <1>4, <1>5 DEF Answering

LEMMA NextInitCtxt ==
  ASSUME Step, NEW a \in {Original, New}, NEW rest \in Seq(Steps),
         todo = Do(<<"context", a>>, rest)
  PROVE  slave' = a /\ todo' = rest /\ UNCHANGED <<current, result, hub, lost>>
<1>1. Head(todo) = <<"context", a>> /\ Tail(todo) = rest
  BY Stepped, PlainIsStep
<1>2. Head(todo)[1] = "context" /\ Head(todo)[2] = a
  BY <1>1
<1>3. InitCtxt
  BY <1>2 DEF Step, Transfer, Transfers, Revision, Hold, Release, ReadCable, Compare, Adopt
<1>. QED BY <1>1, <1>2, <1>3 DEF InitCtxt

LEMMA MovingKept ==
  ASSUME GaiaInv, HistoryTyped, Step, current = 1, Moving
  PROVE  /\ current' = current /\ result' = result /\ lost' \in [Hubs -> Nat]
         /\ Moving' \/ Settling'
         /\ HubsTold
<1>. USE DEF HubsTold
<1>1. /\ 1 \in Hubs /\ Mine(1) /\ slave = Original
  BY HubsNumbered DEF Moving, Mine
<1>2. /\ ToUsb3 \in Seq(Steps) /\ ToBcd \in Seq(Steps) /\ ToAddress \in Seq(Steps)
      /\ ToPrimary \in Seq(Steps) /\ ToContext \in Seq(Steps) /\ ToReread \in Seq(Steps)
  BY <1>1, ToSteps
<1>3. CASE Writing(1, "usb2", 1, ToUsb3, Silent)
  <2>1. "usb2" \in WriteRegs /\ <<"usb2", 1>> \in Commands
    BY CommandsAre DEF WriteRegs
  <2>2. Silent \in Calm /\ Silent.primary = slave /\ [Silent EXCEPT !["usb2"] = 1] = Half
    BY <1>1, HubsOnTheWay
  <2>3. /\ current' = current /\ slave' = slave /\ result' = result
        /\ \E s : Transferred(s) \/ LoseTransfer
        /\ \/ Writing(1, "usb2", 1, ToUsb3, Silent)'
           \/ todo' = ToUsb3 /\ Is(1, [Silent EXCEPT !["usb2"] = 1])'
    BY <1>1, <1>2, <1>3, <2>1, <2>2, Writing1
  <2>4. ASSUME todo' = ToUsb3, Is(1, Half)'
        PROVE  Writing(1, "usb3", 1, ToBcd, Half)'
    BY <2>4 DEF Writing, ToUsb3
  <2>. QED BY <1>1, <2>2, <2>3, <2>4, HistoryKept DEF Moving
<1>4. CASE Writing(1, "usb3", 1, ToBcd, Half)
  <2>1. "usb3" \in WriteRegs /\ <<"usb3", 1>> \in Commands
    BY CommandsAre DEF WriteRegs
  <2>2. Half \in Calm /\ Half.primary = slave /\ [Half EXCEPT !["usb3"] = 1] = Flexed
    BY <1>1, HubsOnTheWay
  <2>3. /\ current' = current /\ slave' = slave /\ result' = result
        /\ \E s : Transferred(s) \/ LoseTransfer
        /\ \/ Writing(1, "usb3", 1, ToBcd, Half)'
           \/ todo' = ToBcd /\ Is(1, [Half EXCEPT !["usb3"] = 1])'
    BY <1>1, <1>2, <1>4, <2>1, <2>2, Writing1
  <2>4. ASSUME todo' = ToBcd, Is(1, Flexed)'
        PROVE  Reading(1, "bcd", ToAddress, Flexed)'
    BY <2>4 DEF Reading, ToBcd
  <2>. QED BY <1>1, <2>2, <2>3, <2>4, HistoryKept DEF Moving
<1>5. Flexed \in Calm /\ Flexed.primary = slave
  BY <1>1, HubsOnTheWay
<1>6. CASE Reading(1, "bcd", ToAddress, Flexed)
  <2>1. /\ current' = current /\ slave' = slave /\ result' = result
        /\ \E s : Transferred(s) \/ LoseTransfer
        /\ \/ Reading(1, "bcd", ToAddress, Flexed)'
           \/ todo' = ToAddress /\ Is(1, Flexed)'
    BY <1>1, <1>2, <1>5, <1>6, Reading1
  <2>2. ASSUME todo' = ToAddress, Is(1, Flexed)'
        PROVE  Reading(1, "primary", ToPrimary, Flexed)'
    BY <2>2 DEF Reading, ToAddress
  <2>. QED BY <1>1, <2>1, <2>2, HistoryKept DEF Moving
<1>7. CASE Reading(1, "primary", ToPrimary, Flexed)
  <2>1. /\ current' = current /\ slave' = slave /\ result' = result
        /\ \E s : Transferred(s) \/ LoseTransfer
        /\ \/ Reading(1, "primary", ToPrimary, Flexed)'
           \/ todo' = ToPrimary /\ Is(1, Flexed)'
    BY <1>1, <1>2, <1>5, <1>7, Reading1
  <2>2. ASSUME todo' = ToPrimary, Is(1, Flexed)'
        PROVE  Writing(1, "primary", New, ToContext, Flexed)'
    BY <2>2 DEF Writing, ToPrimary
  <2>. QED BY <1>1, <2>1, <2>2, HistoryKept DEF Moving
<1>8. CASE Writing(1, "primary", New, ToContext, Flexed)
  <2>1. "primary" \in WriteRegs /\ <<"primary", New>> \in Commands
    BY CommandsAre DEF WriteRegs
  <2>2. [Flexed EXCEPT !["primary"] = New] = Moved
    BY HubsOnTheWay
  <2>3. /\ current' = current /\ slave' = slave /\ result' = result
        /\ \E s : Transferred(s) \/ LoseTransfer
        /\ \/ Writing(1, "primary", New, ToContext, Flexed)'
           \/ todo' = ToContext /\ Is(1, [Flexed EXCEPT !["primary"] = New])'
    BY <1>1, <1>2, <1>5, <1>8, <2>1, Writing1
  <2>. QED BY <1>1, <2>2, <2>3, HistoryKept DEF Moving
<1>9. CASE todo = ToContext /\ Is(1, Moved)
  <2>1. slave' = New /\ todo' = ToReread /\ UNCHANGED <<current, result, hub, lost>>
    BY <1>2, <1>9, NextInitCtxt DEF ToContext
  <2>2. Is(1, Moved)'
    BY <1>9, <2>1, Told DEF Is, Sure
  <2>3. Reading(1, "primary", ToSecondary, Moved)'
    BY <2>1, <2>2 DEF Reading, ToReread
  <2>. QED BY <2>1, <2>3 DEF Settling, HistoryTyped
<1>. QED BY <1>3, <1>4, <1>6, <1>7, <1>8, <1>9 DEF Moving

LEMMA NextReadCable ==
  ASSUME Step, NEW h \in Hubs, todo = ToCable(h)
  PROVE  Return(0) /\ UNCHANGED <<slave, hub, lost>>
<1>1. <<>> \in Seq(Steps)
  OBVIOUS
<1>2. Head(todo) = <<"cable", h>> /\ Tail(todo) = <<>>
  BY <1>1, HubIsStep, Stepped DEF ToCable
<1>3. Head(todo)[1] = "cable"
  BY <1>2
<1>4. ReadCable
  BY <1>3 DEF Step, Transfer, Transfers, Revision, Hold, InitCtxt, Release, Compare, Adopt
<1>. QED BY <1>4 DEF ReadCable

LEMMA SettlingKept ==
  ASSUME GaiaInv, HistoryTyped, Step, current = 1, Settling
  PROVE  /\ slave' = slave /\ lost' \in [Hubs -> Nat] /\ HubsTold
         /\ \/ current' = current /\ result' = result /\ Settling'
            \/ Return(0) /\ UNCHANGED <<hub, lost>> /\ Is(1, Ready1)
<1>. USE DEF HubsTold
<1>1. /\ 1 \in Hubs /\ Mine(1) /\ slave = New
  BY HubsNumbered DEF Settling, Mine
<1>2. ToSecondary \in Seq(Steps) /\ ToAttach(1) \in Seq(Steps) /\ ToCable(1) \in Seq(Steps)
  BY <1>1, ToSteps
<1>3. /\ Moved \in Calm /\ Moved.primary = slave /\ Alone \in Calm /\ Alone.primary = slave
      /\ [Moved EXCEPT !["secondary"] = "none"] = Alone
      /\ [Alone EXCEPT !.running = TRUE] = Ready1
  BY <1>1, HubsOnTheWay
<1>4. CASE Reading(1, "primary", ToSecondary, Moved)
  <2>1. /\ current' = current /\ slave' = slave /\ result' = result
        /\ \E s : Transferred(s) \/ LoseTransfer
        /\ \/ Reading(1, "primary", ToSecondary, Moved)'
           \/ todo' = ToSecondary /\ Is(1, Moved)'
    BY <1>1, <1>2, <1>3, <1>4, Reading1
  <2>2. ASSUME todo' = ToSecondary, Is(1, Moved)'
        PROVE  Writing(1, "secondary", "none", ToAttach(1), Moved)'
    BY <2>2 DEF Writing, ToSecondary
  <2>. QED BY <1>1, <2>1, <2>2, HistoryKept DEF Settling
<1>5. CASE Writing(1, "secondary", "none", ToAttach(1), Moved)
  <2>1. "secondary" \in WriteRegs /\ <<"secondary", "none">> \in Commands
    BY CommandsAre DEF WriteRegs
  <2>2. /\ current' = current /\ slave' = slave /\ result' = result
        /\ \E s : Transferred(s) \/ LoseTransfer
        /\ \/ Writing(1, "secondary", "none", ToAttach(1), Moved)'
           \/ todo' = ToAttach(1) /\ Is(1, [Moved EXCEPT !["secondary"] = "none"])'
    BY <1>1, <1>2, <1>3, <1>5, <2>1, Writing1
  <2>. QED BY <1>1, <1>3, <2>2, HistoryKept DEF Settling
<1>6. CASE todo = ToAttach(1) /\ Is(1, Alone)
  <2>1. /\ \E s : Transferred(s) \/ LoseTransfer
        /\ current' = current /\ slave' = slave /\ result' = result
        /\ todo' = ToCable(1) /\ Is(1, [Alone EXCEPT !.running = TRUE])'
    BY <1>1, <1>3, <1>6, Attached
  <2>. QED BY <1>1, <1>3, <2>1, HistoryKept DEF Settling
<1>7. CASE todo = ToCable(1) /\ Is(1, Ready1)
  <2>1. Return(0) /\ UNCHANGED <<slave, hub, lost>>
    BY <1>1, <1>7, NextReadCable
  <2>. QED BY <1>7, <2>1 DEF HistoryTyped
<1>. QED BY <1>4, <1>5, <1>6, <1>7 DEF Settling

LEMMA OnlyLoaded ==
  ASSUME NEW k \in HubStates, NEW t, t = [k EXCEPT !.block = <<"read", "revision">>]
  PROVE  /\ Bare([t EXCEPT !.awake = TRUE]) = Bare([k EXCEPT !.awake = TRUE])
         /\ t.awake = k.awake /\ t.block[1] = "read" /\ Bare(t) = Bare(k)
<1>1. t.awake = k.awake /\ t.block[1] = "read"
  BY DEF HubStates
<1>2. Bare(t) = Bare(k)
  BY DEF Bare, HubStates
<1>3. Bare([t EXCEPT !.awake = TRUE]) = Bare([k EXCEPT !.awake = TRUE])
  BY DEF Bare, HubStates
<1>. QED BY <1>1, <1>2, <1>3

(* Until the hub has answered it is only told to read.                     *)
LEMMA ReleasedKept ==
  ASSUME GaiaInv, HistoryTyped, Step, NEW h \in Hubs, Mine(h), Waiting(h),
         NEW s \in {<<"load", "read", "revision">>, <<"run">>, <<"point">>, <<"revision">>},
         Transferred(s) \/ LoseTransfer, result' = result, Sure(h)'
  PROVE  Sure(h) /\ Released(h)' /\ hub'[h].awake = hub[h].awake /\ Transferred(s)
         /\ Bare(hub'[h]) = Bare(hub[h])
<1>1. Transferred(s) /\ Sure(h)
  BY SureKept
<1>2. Released(h) /\ hub[h] \in HubStates
  BY <1>1 DEF Waiting, GaiaInv
<1>3. CASE hub'[h] = hub[h]
  BY <1>1, <1>2, <1>3 DEF Released
<1>4. CASE s = <<"load", "read", "revision">> /\ hub'[h] = Take(hub[h], s)
  <2>1. hub'[h] = [hub[h] EXCEPT !.block = <<"read", "revision">>]
    BY <1>4 DEF Take
  <2>2. Bare([hub'[h] EXCEPT !.awake = TRUE]) = Bare([hub[h] EXCEPT !.awake = TRUE])
        /\ hub'[h].awake = hub[h].awake /\ hub'[h].block[1] = "read"
        /\ Bare(hub'[h]) = Bare(hub[h])
    BY <1>2, <2>1, OnlyLoaded
  <2>. QED BY <1>1, <1>2, <2>2 DEF Released
<1>5. ASSUME s # <<"load", "read", "revision">>
      PROVE  Take(hub[h], s) = hub[h]
  <2>1. CASE s = <<"run">>
    BY <1>2, <2>1, TakenRead DEF Released
  <2>2. CASE s \in {<<"point">>, <<"revision">>}
    BY <2>2, TakenIdle
  <2>. QED BY <1>5, <2>1, <2>2
<1>6. hub'[h] = hub[h] \/ hub'[h] = Take(hub[h], s)
  BY <1>1 DEF Transferred
<1>. QED BY <1>3, <1>4, <1>5, <1>6

LEMMA RevisionIs ==
  ASSUME Step, NEW h \in Hubs, todo = ToAnswer(h)
  PROVE  /\ slave' = slave
         /\ \E answered \in BOOLEAN :
              /\ \/ answered = Answered /\ Transferred(<<"revision">>)
                 \/ ~answered /\ LoseTransfer
              /\ deputy' = (deputy \/ (answered /\ ~Listens(current)))
              /\ \/ Return(-1)
                 \/ /\ current' = current /\ result' = result
                    /\ todo' = IF answered THEN ToId(h) ELSE ToRevision(h)
<1>1. Head(todo) = <<"revision">> /\ Tail(todo) = ToId(h) /\ todo # <<>>
  BY PlainIsStep, ToSteps, Stepped DEF ToAnswer
<1>2. Head(todo)[1] = "revision"
  BY <1>1
<1>3. Revision
  BY <1>2 DEF Step, Transfer, Transfers, Hold, InitCtxt, Release, ReadCable, Compare, Adopt
<1>4. RetrieveRevision \o Tail(todo) = ToRevision(h)
  BY <1>1, RevisionJoined DEF Then
<1>5. PICK answered \in BOOLEAN :
        /\ \/ answered = Answered /\ Transferred(<<"revision">>)
           \/ ~answered /\ LoseTransfer
        /\ deputy' = (deputy \/ (answered /\ ~Listens(current)))
        /\ IF Exhausted THEN Return(-1)
           ELSE /\ CountRetry /\ UNCHANGED <<current, result>>
                /\ todo' = IF answered THEN ToId(h) ELSE ToRevision(h)
  BY <1>1, <1>3, <1>4 DEF Revision
<1>6. \/ Return(-1)
      \/ /\ current' = current /\ result' = result
         /\ todo' = IF answered THEN ToId(h) ELSE ToRevision(h)
  BY <1>5
<1>7. slave' = slave
  BY <1>3 DEF Revision
<1>. QED BY <1>5, <1>6, <1>7

(* Who answers at the original address is the hub itself: the other one is *)
(* in reset or at another address, or would have been noticed.             *)
LEMMA HimselfAwake ==
  ASSUME GaiaInv, NEW h \in Hubs, slave = Original, Sure(h), h = 0 => Is(1, Ready1),
         h = 1 /\ recoveries = 0 => hub[0].reset, Released(h), Answered,
         recoveries = 0 \/ Listens(h)
  PROVE  Bare(hub[h]) = Up
<1>1. hub[0] \in HubStates /\ hub[1] \in HubStates /\ hub[h] \in HubStates
  BY HubsNumbered DEF GaiaInv
<1>2. hub[h].awake
  <2>1. CASE Listens(h)
    BY <2>1 DEF Listens
  <2>2. CASE recoveries = 0 /\ h = 1
    <3>1. ~Listens(0)
      BY <2>2 DEF Listens
    <3>2. \A k \in Hubs : k = 0 \/ k = 1
      BY DEF Hubs
    <3>3. Listens(1)
      BY <3>1, <3>2 DEF Answered
    <3>. QED BY <2>2, <3>3 DEF Listens
  <2>3. CASE h = 0
    <3>1. Bare(hub[1]).primary = New
      BY <2>3, HubsOnTheWay DEF Is, Sure
    <3>2. ~Listens(1)
      BY <1>1, <3>1, BareFields DEF Listens, Original, New
    <3>3. \A k \in Hubs : k = 0 \/ k = 1
      BY DEF Hubs
    <3>4. Listens(0)
      BY <3>2, <3>3 DEF Answered
    <3>. QED BY <2>3, <3>4 DEF Listens
  <2>4. h = 0 \/ h = 1
    BY DEF Hubs
  <2>. QED BY <2>1, <2>2, <2>3, <2>4
<1>3. [hub[h] EXCEPT !.awake = TRUE] = hub[h]
  BY <1>1, <1>2 DEF HubStates
<1>. QED BY <1>3 DEF Released

LEMMA WaitingKept ==
  ASSUME GaiaInv, HistoryTyped, HeldInReset, Step, NEW h \in Hubs, current = h,
         h = 0 => Is(1, Ready1), Waiting(h)
  PROVE  /\ slave' = slave
         /\ \E s : Transferred(s) \/ LoseTransfer
         /\ \/ current' = current /\ result' = result /\ (Waiting(h)' \/ Answering(h)')
            \/ Return(-1)
<1>1. Mine(h) /\ slave = Original
  BY DEF Mine, Waiting
<1>2. /\ ToPoint(h) \in Seq(Steps) /\ ToAnswer(h) \in Seq(Steps)
      /\ Do(<<"run">>, ToPoint(h)) \in Seq(Steps)
  BY ToSteps
<1>. DEFINE first == <<"load", "read", "revision">>
<1>3. ASSUME NEW x \in {first, <<"run">>, <<"point">>}, NEW next \in Seq(Steps),
             todo = Do(x, next),
             next \in {Do(<<"run">>, ToPoint(h)), ToPoint(h), ToAnswer(h)}
      PROVE  /\ slave' = slave /\ \E s : Transferred(s) \/ LoseTransfer
             /\ current' = current /\ result' = result /\ Waiting(h)'
  <2>1. x \in Steps /\ x[1] \in Transfers
    <3>1. first \in Steps /\ first[1] \in Transfers
      BY CommandsAre, LoadIsStep DEF Transfers
    <3>2. CASE x = first
      BY <3>1, <3>2
    <3>3. CASE x = <<"run">>
      BY <3>3, PlainIsStep DEF Transfers
    <3>4. CASE x = <<"point">>
      BY <3>4, PlainIsStep DEF Transfers
    <3>. HIDE DEF first
    <3>. QED BY <1>3, <3>2, <3>3, <3>4
  <2>2. /\ Transferred(x) \/ LoseTransfer
        /\ todo' = next /\ current' = current /\ slave' = slave /\ result' = result
    BY <1>3, <2>1, OnlyTransfer
  <2>3. Sure(h)' => Released(h)'
    BY <1>1, <1>3, <2>2, ReleasedKept
  <2>. QED BY <1>1, <1>3, <2>2, <2>3 DEF Waiting
<1>4. CASE todo = ToRevision(h)
  BY <1>2, <1>3, <1>4 DEF ToRevision
<1>5. CASE todo = Do(<<"run">>, ToPoint(h))
  BY <1>2, <1>3, <1>5
<1>6. CASE todo = ToPoint(h)
  BY <1>2, <1>3, <1>6 DEF ToPoint
<1>7. CASE todo = ToAnswer(h)
  <2>1. slave' = slave
    BY <1>7, RevisionIs
  <2>2. PICK answered \in BOOLEAN :
          /\ \/ answered = Answered /\ Transferred(<<"revision">>)
             \/ ~answered /\ LoseTransfer
          /\ deputy' = (deputy \/ (answered /\ ~Listens(current)))
          /\ \/ Return(-1)
             \/ /\ current' = current /\ result' = result
                /\ todo' = IF answered THEN ToId(h) ELSE ToRevision(h)
    BY <1>7, RevisionIs
  <2>3. Transferred(<<"revision">>) \/ LoseTransfer
    BY <2>2
  <2>4. ASSUME current' = current, result' = result, answered, todo' = ToId(h)
        PROVE  Answering(h)'
    <3>1. Answered
      BY <2>2, <2>4
    <3>2. ASSUME Sure(h)'
          PROVE  Bare(hub'[h]) = Up
      <4>1. Sure(h) /\ Bare(hub'[h]) = Bare(hub[h])
        BY <1>1, <2>3, <2>4, <3>2, ReleasedKept
      <4>2. Released(h)
        BY <4>1 DEF Waiting
      <4>3. recoveries = 0 \/ Listens(h)
        <5>1. recoveries' = 0 \/ ~deputy'
          BY <3>2 DEF Sure, ToldApart
        <5>. QED BY <2>2, <2>4, <5>1, Told
      <4>4. h = 1 /\ recoveries = 0 => hub[0].reset
        BY DEF HeldInReset
      <4>. QED BY <1>1, <3>1, <4>1, <4>2, <4>3, <4>4, HimselfAwake
    <3>3. Reading(h, "id", ToVid(h), Up)'
      BY <2>4, <3>2 DEF Reading, Is, ToId
    <3>. QED BY <1>1, <2>1, <3>3 DEF Answering
  <2>5. ASSUME current' = current, result' = result, todo' = ToRevision(h)
        PROVE  Waiting(h)'
    <3>1. Sure(h)' => Released(h)'
      BY <1>1, <2>3, <2>5, ReleasedKept
    <3>. QED BY <1>1, <2>1, <2>5, <3>1 DEF Waiting
  <2>6. \/ Return(-1)
        \/ current' = current /\ result' = result /\ answered /\ todo' = ToId(h)
        \/ current' = current /\ result' = result /\ todo' = ToRevision(h)
    BY <2>2
  <2>. QED BY <2>1, <2>3, <2>4, <2>5, <2>6
<1>. QED BY <1>4, <1>5, <1>6, <1>7 DEF Waiting

LEMMA NextHold ==
  ASSUME GaiaInv, Step, NEW h \in Hubs, todo = Initialize(h)
  PROVE  /\ todo' = ToOriginal(h) /\ hub'[h] = InReset
         /\ \A g \in Hubs : g # h => hub'[g] = hub[g]
         /\ UNCHANGED <<current, slave, result, lost>>
<1>1. Head(todo) = <<"hold", h>> /\ Tail(todo) = ToOriginal(h)
  <2>1. <<"hold", h>> \in Steps /\ ToOriginal(h) \in Seq(Steps)
        /\ todo = Do(<<"hold", h>>, ToOriginal(h))
    BY HubIsStep, ToSteps, InitializeIs
  <2>. QED BY <2>1, Stepped
<1>2. Head(todo)[1] = "hold" /\ Head(todo)[2] = h
  BY <1>1
<1>3. Hold
  BY <1>2 DEF Step, Transfer, Transfers, Revision, InitCtxt, Release, ReadCable, Compare, Adopt
<1>4. hub' = [hub EXCEPT ![h] = InReset]
  BY <1>2, <1>3 DEF Hold
<1>. QED BY <1>1, <1>3, <1>4 DEF Hold, GaiaInv

LEMMA NextRelease ==
  ASSUME GaiaInv, Step, NEW h \in Hubs, todo = ToRelease(h), hub[h] = InReset
  PROVE  /\ todo' = ToRevision(h) /\ Released(h)'
         /\ \A g \in Hubs : g # h => hub'[g] = hub[g]
         /\ UNCHANGED <<current, slave, result, lost>>
<1>1. Head(todo) = <<"release", h>> /\ Tail(todo) = ToRevision(h)
  BY HubIsStep, ToSteps, Stepped DEF ToRelease
<1>2. Head(todo)[1] = "release" /\ Head(todo)[2] = h
  BY <1>1
<1>3. Release
  BY <1>2 DEF Step, Transfer, Transfers, Revision, Hold, InitCtxt, ReadCable, Compare, Adopt
<1>4. PICK awake \in BOOLEAN :
        /\ awake \/ h \in SlowHubs
        /\ hub' = [hub EXCEPT ![h].reset = FALSE, ![h].awake = awake]
  BY <1>2, <1>3 DEF Release
<1>5. hub' = [hub EXCEPT ![h] = [hub[h] EXCEPT !.reset = FALSE, !.awake = awake]]
  BY <1>4 DEF GaiaInv, HubStates
<1>6. hub'[h] = [InReset EXCEPT !.reset = FALSE, !.awake = awake]
      /\ \A g \in Hubs : g # h => hub'[g] = hub[g]
  BY <1>5 DEF GaiaInv
<1>7. hub'[h].awake = awake /\ hub'[h].block[1] = "read"
      /\ Bare([hub'[h] EXCEPT !.awake = TRUE]) = Up
  <2>1. ASSUME NEW k, k = [InReset EXCEPT !.reset = FALSE, !.awake = awake]
        PROVE  /\ k.awake = awake /\ k.block[1] = "read"
               /\ Bare([k EXCEPT !.awake = TRUE]) = Up
    <3>1. k.awake = awake /\ k.block[1] = "read"
      BY <2>1 DEF InReset
    <3>2. [k EXCEPT !.awake = TRUE] = Up
      BY <2>1 DEF InReset, Up
    <3>3. Bare(Up) = Up
      BY HubsOnTheWay DEF Bare, Calm, HubStates
    <3>. QED BY <3>1, <3>2, <3>3
  <2>. QED BY <1>6, <2>1
<1>8. Released(h)'
  BY <1>4, <1>7 DEF Released
<1>. QED BY <1>1, <1>3, <1>6, <1>8 DEF Release

LEMMA StartingKept ==
  ASSUME GaiaInv, Step, NEW h \in Hubs, Starting(h)
  PROVE  /\ UNCHANGED <<current, result, lost>>
         /\ \A g \in Hubs : g # h => hub'[g] = hub[g]
         /\ Starting(h)' \/ Waiting(h)'
<1>1. CASE todo = Initialize(h)
  <2>1. /\ todo' = ToOriginal(h) /\ hub'[h] = InReset
        /\ \A g \in Hubs : g # h => hub'[g] = hub[g]
        /\ UNCHANGED <<current, slave, result, lost>>
    BY <1>1, NextHold
  <2>. QED BY <2>1 DEF Starting
<1>2. CASE todo = ToOriginal(h) /\ hub[h] = InReset
  <2>1. /\ slave' = Original /\ todo' = ToRelease(h)
        /\ UNCHANGED <<current, result, hub, lost>>
    BY <1>2, ToSteps, NextInitCtxt DEF ToOriginal
  <2>. QED BY <1>2, <2>1 DEF Starting
<1>3. CASE todo = ToRelease(h) /\ hub[h] = InReset /\ slave = Original
  <2>1. /\ todo' = ToRevision(h) /\ Released(h)'
        /\ \A g \in Hubs : g # h => hub'[g] = hub[g]
        /\ UNCHANGED <<current, slave, result, lost>>
    BY <1>3, NextRelease
  <2>. QED BY <1>3, <2>1 DEF Waiting
<1>. QED BY <1>1, <1>2, <1>3 DEF Starting

LEMMA AttachingKept ==
  ASSUME GaiaInv, HistoryTyped, Step, current = 0, Attaching
  PROVE  \/ /\ current' = current /\ result' = result /\ slave' = slave /\ Attaching'
            /\ \E s : Transferred(s) \/ LoseTransfer
         \/ /\ Return(0) /\ UNCHANGED <<slave, hub, lost>> /\ Is(0, Ready0(0))
<1>1. 0 \in Hubs /\ Mine(0) /\ slave = Original
  BY HubsNumbered DEF Mine, Attaching
<1>2. CASE todo = ToAttach(0) /\ Is(0, Silent)
  <2>1. /\ Silent \in Calm /\ Silent.primary = slave
        /\ [Silent EXCEPT !.running = TRUE] = Ready0(0)
    BY <1>1, HubsOnTheWay
  <2>2. /\ \E s : Transferred(s) \/ LoseTransfer
        /\ current' = current /\ slave' = slave /\ result' = result
        /\ todo' = ToCable(0) /\ Is(0, [Silent EXCEPT !.running = TRUE])'
    BY <1>1, <1>2, <2>1, Attached
  <2>. QED BY <1>1, <2>1, <2>2 DEF Attaching
<1>3. CASE todo = ToCable(0) /\ Is(0, Ready0(0))
  BY <1>1, <1>3, NextReadCable
<1>. QED BY <1>2, <1>3 DEF Attaching

(* The loop.                                                               *)
LEMMA NextCompare ==
  ASSUME Step, NEW h \in Hubs, NEW rest \in Seq(Steps), todo = Do(<<"compare", h>>, rest)
  PROVE  /\ todo' = rest \/ todo' = Do(<<"adopt", h>>, rest)
         /\ UNCHANGED <<current, slave, result, hub, lost>>
<1>1. Head(todo) = <<"compare", h>> /\ Tail(todo) = rest
  BY HubIsStep, Stepped
<1>2. Head(todo)[1] = "compare" /\ Head(todo)[2] = h
  BY <1>1
<1>3. Compare
  BY <1>2 DEF Step, Transfer, Transfers, Revision, Hold, InitCtxt, Release, ReadCable, Adopt
<1>4. todo' = (IF noCable[h] = upstream[h] THEN <<>> ELSE <<<<"adopt", h>>>>) \o rest
  BY <1>1, <1>2, <1>3 DEF Compare
<1>5. <<>> \o rest = rest
  OBVIOUS
<1>6. <<<<"adopt", h>>>> \o rest = Do(<<"adopt", h>>, rest)
  BY DEF Do
<1>. QED BY <1>3, <1>4, <1>5, <1>6 DEF Compare

LEMMA NextAdopt ==
  ASSUME Step, NEW h \in Hubs, NEW rest \in Seq(Steps), todo = Do(<<"adopt", h>>, rest)
  PROVE  /\ \/ todo' = rest
            \/ \E w \in 0..1 : todo' = Writes("usb2", w, Writes("usb3", w, rest))
         /\ UNCHANGED <<current, slave, result, hub, lost>>
<1>1. Head(todo) = <<"adopt", h>> /\ Tail(todo) = rest
  BY HubIsStep, Stepped
<1>2. Head(todo)[1] = "adopt" /\ Head(todo)[2] = h
  BY <1>1
<1>3. Adopt
  BY <1>2 DEF Step, Transfer, Transfers, Revision, Hold, InitCtxt, Release, ReadCable, Compare
<1>4. todo' = (IF noCable[h] THEN CableGone(h) ELSE <<>>) \o rest
  BY <1>1, <1>2, <1>3 DEF Adopt
<1>5. <<>> \o rest = rest
  OBVIOUS
<1>6. PICK w \in 0..1 : CableGone(h) = Flex(w)
  <2>1. 0 \in 0..1 /\ 1 \in 0..1
    OBVIOUS
  <2>. QED BY <2>1 DEF CableGone
<1>7. CableGone(h) \o rest = Writes("usb2", w, Writes("usb3", w, rest))
  BY <1>6, FlexJoined DEF Then
<1>8. UNCHANGED <<current, slave, result, hub, lost>>
  BY <1>3 DEF Adopt
<1>9. CASE noCable[h]
  BY <1>4, <1>7, <1>8, <1>9
<1>10. CASE ~noCable[h]
  BY <1>4, <1>5, <1>8, <1>10
<1>. QED BY <1>9, <1>10

LEMMA RestsAre ==
  /\ Rests \subseteq Seq(Steps) /\ <<>> \in Rests /\ Detect(1) \in Rests
  /\ Detect(1) = Do(<<"compare", 1>>, <<>>) /\ <<>> \in Seq(Steps)
  /\ <<<<"adopt", 1>>>> = Do(<<"adopt", 1>>, <<>>)
<1>1. /\ Detect(1) = Do(<<"compare", 1>>, <<>>)
      /\ <<<<"adopt", 1>>>> = Do(<<"adopt", 1>>, <<>>)
  BY DEF Detect, Do
<1>2. <<>> \in Seq(Steps)
  OBVIOUS
<1>3. Detect(1) \in Seq(Steps)
  BY <1>1, <1>2, HubsNumbered, HubIsStep, Stepped
<1>. QED BY <1>1, <1>2, <1>3 DEF Rests

LEMMA LoopingKept ==
  ASSUME GaiaInv, HistoryTyped, Step, current = NoHub, Looping
  PROVE  /\ current' = current /\ result' = result /\ slave' = slave /\ Looping'
         /\ \/ UNCHANGED <<hub, lost>>
            \/ \E s : Transferred(s) \/ LoseTransfer
<1>1. 0 \in Hubs /\ 1 \in Hubs /\ Mine(0) /\ slave = Original
  BY HubsNumbered DEF Mine, Looping
<1>2. PICK v \in 0..1 :
        \/ /\ todo \in {<<>>, Detect(1), <<<<"adopt", 1>>>>,
                        Do(<<"compare", 0>>, Detect(1)), Do(<<"adopt", 0>>, Detect(1))}
           /\ Is(0, Ready0(v))
        \/ \E w \in 0..1, rest \in Rests : Switching(v, w, rest)
  BY DEF Looping
<1>3. ASSUME NEW rest \in Rests, NEW u \in 0..1, todo' = rest, Is(0, Ready0(u))',
             slave' = slave
      PROVE  Looping'
  BY <1>1, <1>3 DEF Looping, Rests
<1>4. ASSUME UNCHANGED <<result, hub, lost>>, Is(0, Ready0(v))
      PROVE  Is(0, Ready0(v))'
  BY <1>4, Told DEF Is, Sure
<1>5. CASE todo = <<>>
  BY <1>5 DEF Step, Transfer, Revision, Hold, InitCtxt, Release, ReadCable, Compare, Adopt
<1>6. ASSUME Is(0, Ready0(v)), NEW h \in Hubs, NEW rest \in Rests,
             todo = Do(<<"compare", h>>, rest),
             (h = 0 /\ rest = Detect(1)) \/ (h = 1 /\ rest = <<>>)
      PROVE  /\ current' = current /\ result' = result /\ slave' = slave /\ Looping'
             /\ UNCHANGED <<hub, lost>>
  <2>1. /\ todo' = rest \/ todo' = Do(<<"adopt", h>>, rest)
        /\ UNCHANGED <<current, slave, result, hub, lost>>
    BY <1>6, RestsAre, NextCompare
  <2>2. Is(0, Ready0(v))'
    BY <1>4, <1>6, <2>1
  <2>3. CASE todo' = rest
    BY <1>3, <2>1, <2>2, <2>3
  <2>4. CASE todo' = Do(<<"adopt", h>>, rest)
    <3>1. todo' = Do(<<"adopt", 0>>, Detect(1)) \/ todo' = <<<<"adopt", 1>>>>
      BY <1>6, <2>4, RestsAre
    <3>. QED BY <1>1, <2>1, <2>2, <3>1 DEF Looping
  <2>. QED BY <2>1, <2>3, <2>4
<1>7. ASSUME Is(0, Ready0(v)), NEW h \in Hubs, NEW rest \in Rests,
             todo = Do(<<"adopt", h>>, rest)
      PROVE  /\ current' = current /\ result' = result /\ slave' = slave /\ Looping'
             /\ UNCHANGED <<hub, lost>>
  <2>1. /\ \/ todo' = rest
           \/ \E w \in 0..1 : todo' = Writes("usb2", w, Writes("usb3", w, rest))
        /\ UNCHANGED <<current, slave, result, hub, lost>>
    BY <1>7, RestsAre, NextAdopt
  <2>2. Is(0, Ready0(v))'
    BY <1>4, <1>7, <2>1
  <2>3. CASE todo' = rest
    BY <1>3, <2>1, <2>2, <2>3
  <2>4. ASSUME NEW w \in 0..1, todo' = Writes("usb2", w, Writes("usb3", w, rest))
        PROVE  Looping'
    <3>1. Writing(0, "usb2", w, Writes("usb3", w, rest), Ready0(v))'
      BY <2>2, <2>4 DEF Writing
    <3>. QED BY <1>1, <2>1, <3>1 DEF Looping, Switching
  <2>. QED BY <2>1, <2>3, <2>4
<1>8. ASSUME NEW w \in 0..1, NEW rest \in Rests, Switching(v, w, rest)
      PROVE  /\ current' = current /\ result' = result /\ slave' = slave /\ Looping'
             /\ \E s : Transferred(s) \/ LoseTransfer
  <2>0. <<"usb2", w>> \in Commands /\ <<"usb3", w>> \in Commands
        /\ "usb2" \in WriteRegs /\ "usb3" \in WriteRegs
    BY CommandsAre DEF WriteRegs
  <2>1. rest \in Seq(Steps) /\ Writes("usb3", w, rest) \in Seq(Steps)
    BY <2>0, RestsAre, WriteJoined
  <2>2. CASE Writing(0, "usb2", w, Writes("usb3", w, rest), Ready0(v))
    <3>1. Ready0(v) \in Calm /\ Ready0(v).primary = slave
      BY <1>1, HubsOnTheWay
    <3>2. /\ \E s : Transferred(s) \/ LoseTransfer
          /\ current' = current /\ slave' = slave /\ result' = result
          /\ \/ Writing(0, "usb2", w, Writes("usb3", w, rest), Ready0(v))'
             \/ /\ todo' = Writes("usb3", w, rest)
                /\ Is(0, [Ready0(v) EXCEPT !["usb2"] = w])'
      BY <1>1, <2>0, <2>1, <2>2, <3>1, Writing1
    <3>3. ASSUME todo' = Writes("usb3", w, rest),
                 Is(0, [Ready0(v) EXCEPT !["usb2"] = w])'
          PROVE  Writing(0, "usb3", w, rest, [Ready0(v) EXCEPT !.usb2 = w])'
      BY <3>3 DEF Writing
    <3>4. Switching(v, w, rest)'
      BY <3>2, <3>3 DEF Switching
    <3>. QED BY <1>1, <3>2, <3>4 DEF Looping
  <2>3. CASE Writing(0, "usb3", w, rest, [Ready0(v) EXCEPT !.usb2 = w])
    <3>. DEFINE c == [Ready0(v) EXCEPT !.usb2 = w]
    <3>1. c \in Calm /\ c.primary = slave /\ [c EXCEPT !["usb3"] = w] = Ready0(w)
      BY <1>1, HubsOnTheWay
    <3>2. Writing(0, "usb3", w, rest, c)
      BY <2>3
    <3>3. ASSUME Writing(0, "usb3", w, rest, c)'
          PROVE  Switching(v, w, rest)'
      BY <3>3 DEF Switching
    <3>. HIDE DEF c
    <3>4. /\ \E s : Transferred(s) \/ LoseTransfer
          /\ current' = current /\ slave' = slave /\ result' = result
          /\ \/ Writing(0, "usb3", w, rest, c)'
             \/ todo' = rest /\ Is(0, [c EXCEPT !["usb3"] = w])'
      BY <1>1, <2>0, <2>1, <3>1, <3>2, Writing1
    <3>5. CASE Writing(0, "usb3", w, rest, c)'
      <4>1. Switching(v, w, rest)'
        BY <3>3, <3>5
      <4>. QED BY <1>1, <3>4, <4>1 DEF Looping
    <3>6. CASE todo' = rest /\ Is(0, Ready0(w))'
      BY <1>3, <3>4, <3>6
    <3>. QED BY <3>1, <3>4, <3>5, <3>6
  <2>. QED BY <1>8, <2>2, <2>3 DEF Switching
<1>9. \/ todo = <<>>
      \/ Is(0, Ready0(v)) /\ todo = Do(<<"compare", 1>>, <<>>)
      \/ Is(0, Ready0(v)) /\ todo = Do(<<"compare", 0>>, Detect(1))
      \/ Is(0, Ready0(v)) /\ todo = Do(<<"adopt", 1>>, <<>>)
      \/ Is(0, Ready0(v)) /\ todo = Do(<<"adopt", 0>>, Detect(1))
      \/ \E w \in 0..1, rest \in Rests : Switching(v, w, rest)
  BY <1>2, RestsAre
<1>10. CASE Is(0, Ready0(v)) /\ (todo = Do(<<"compare", 1>>, <<>>)
                                 \/ todo = Do(<<"compare", 0>>, Detect(1)))
  <2>1. CASE todo = Do(<<"compare", 1>>, <<>>)
    BY <1>1, <1>6, <1>10, <2>1, RestsAre
  <2>2. CASE todo = Do(<<"compare", 0>>, Detect(1))
    BY <1>1, <1>6, <1>10, <2>2, RestsAre
  <2>. QED BY <1>10, <2>1, <2>2
<1>11. CASE Is(0, Ready0(v)) /\ (todo = Do(<<"adopt", 1>>, <<>>)
                                 \/ todo = Do(<<"adopt", 0>>, Detect(1)))
  BY <1>1, <1>7, <1>11, RestsAre
<1>12. CASE \E w \in 0..1, rest \in Rests : Switching(v, w, rest)
  BY <1>8, <1>12
<1>. QED BY <1>5, <1>9, <1>10, <1>11, <1>12

(* At rest hub 0 has the same setting for both halves.                     *)
LEMMA AtRestReady ==
  ASSUME ApartInv, current = NoHub, todo = <<>>
  PROVE  \E v \in 0..1 : Is(0, Ready0(v))
<1>1. PICK v \in 0..1 :
        \/ Is(0, Ready0(v))
        \/ \E w \in 0..1, rest \in Rests : Switching(v, w, rest)
  BY DEF ApartInv, Looping
<1>2. ASSUME NEW w \in 0..1, NEW rest \in Rests
      PROVE  ~Switching(v, w, rest)
  <2>1. <<"usb2", w>> \in Commands /\ <<"usb3", w>> \in Commands /\ rest \in Seq(Steps)
    BY CommandsAre, RestsAre
  <2>2. Writes("usb3", w, rest) \in Seq(Steps) /\ Do(<<"run">>, rest) \in Seq(Steps)
        /\ <<"load", "usb3", w>> \in Steps /\ <<"load", "usb2", w>> \in Steps
    BY <2>1, WriteJoined
  <2>3. Do(<<"run">>, Writes("usb3", w, rest)) \in Seq(Steps)
    BY <2>2, PlainIsStep, Stepped
  <2>4. /\ Writes("usb3", w, rest) # <<>> /\ Do(<<"run">>, rest) # <<>>
        /\ Writes("usb2", w, Writes("usb3", w, rest)) # <<>>
        /\ Do(<<"run">>, Writes("usb3", w, rest)) # <<>>
    BY <2>1, <2>2, <2>3, PlainIsStep, Stepped DEF Writes
  <2>. QED BY <2>4 DEF Switching, Writing
<1>. QED BY <1>1, <1>2

-----------------------------------------------------------------------------
(***************************************************************************)
(* ApartInv is kept.                                                       *)
(***************************************************************************)
LEMMA Different == NoHub # 0 /\ NoHub # 1 /\ 0 # 1
BY DEF NoHub

LEMMA Returned ==
  ASSUME HistoryTyped, NEW v \in -1..1, Return(v)
  PROVE  /\ result' \in [Hubs -> -1..1]
         /\ current = 1 => /\ current' = 0 /\ todo' = Initialize(0)
                           /\ result'[1] = v /\ result'[0] = result[0]
         /\ current = 0 => /\ current' = NoHub /\ todo' = <<>>
                           /\ result'[0] = v /\ result'[1] = result[1]
<1>1. result \in [Hubs -> -1..1] /\ 0 \in Hubs /\ 1 \in Hubs
  BY HubsNumbered DEF HistoryTyped
<1>2. result' = [result EXCEPT ![current] = v]
  BY DEF Return
<1>3. current = 1 => current' = 0 /\ todo' = Initialize(0)
  BY DEF Return, FirstHub, OtherHub
<1>4. current = 0 => current' = NoHub /\ todo' = <<>>
  BY DEF Return, FirstHub, OtherHub
<1>. QED BY <1>1, <1>2, <1>3, <1>4

LEMMA Started ==
  ASSUME StartInit, recoveries' \in Nat, recoveries' = 0 => hub'[0].reset
  PROVE  ApartInv'
<1>1. current' = 1 /\ todo' = Initialize(1)
  BY DEF StartInit, FirstHub
<1>2. HistoryTyped'
  BY DEF StartInit, HistoryTyped, None
<1>3. result'[0] = None /\ result'[1] = None
  BY HubsNumbered DEF StartInit
<1>4. Starting(1)'
  BY <1>1 DEF Starting
<1>. QED BY <1>1, <1>2, <1>3, <1>4, Different DEF ApartInv, HeldInReset

LEMMA FirstStep ==
  ASSUME GaiaInv, ApartInv, Step, current = 1
  PROVE  ApartInv'
<1>1. /\ HistoryTyped /\ HeldInReset /\ result[0] = None /\ result[1] = None
      /\ 1 \in Hubs /\ Mine(1) /\ recoveries' = recoveries
  BY HubsNumbered, Told DEF ApartInv, Mine
<1>0. ASSUME HubsTold PROVE recoveries = 0 => hub'[0].reset
  BY <1>0, <1>1, ResetKept DEF HeldInReset
<1>2. ASSUME current' = current, result' = result, lost' \in [Hubs -> Nat],
             recoveries = 0 => hub'[0].reset,
             Starting(1)' \/ Waiting(1)' \/ Answering(1)' \/ Moving' \/ Settling'
      PROVE  ApartInv'
  BY <1>1, <1>2, Different DEF ApartInv, HistoryTyped, HeldInReset
<1>3. ASSUME lost' \in [Hubs -> Nat], NEW v \in -1..1, Return(v),
             v = 0 => UNCHANGED <<hub, lost>> /\ Is(1, Ready1), v # 1
      PROVE  ApartInv'
  <2>1. /\ current' = 0 /\ todo' = Initialize(0) /\ result' \in [Hubs -> -1..1]
        /\ result'[1] = v /\ result'[0] = None
    BY <1>1, <1>3, Returned
  <2>2. Starting(0)'
    BY <2>1 DEF Starting
  <2>3. Is(1, Ready1)'
    <3>1. CASE v = 0
      <4>1. Sure(1)' => Sure(1)
        BY <1>1, <1>3, <3>1, Told DEF Sure, None
      <4>. QED BY <1>3, <3>1, <4>1 DEF Is
    <3>2. CASE v = -1
      BY <2>1, <3>2 DEF Is, Sure
    <3>. QED BY <1>3, <3>1, <3>2
  <2>. QED BY <1>1, <1>3, <2>1, <2>2, <2>3, Different DEF ApartInv, HistoryTyped, HeldInReset
<1>4. CASE Starting(1)
  <2>1. UNCHANGED <<current, result, lost>> /\ (Starting(1)' \/ Waiting(1)')
        /\ hub'[0] = hub[0]
    BY <1>1, <1>4, StartingKept, HubsNumbered, Different
  <2>. QED BY <1>1, <1>2, <2>1 DEF HistoryTyped, HeldInReset
<1>5. CASE Waiting(1)
  <2>1. /\ \E s : Transferred(s) \/ LoseTransfer
        /\ \/ current' = current /\ result' = result /\ (Waiting(1)' \/ Answering(1)')
           \/ Return(-1)
    BY <1>1, <1>5, WaitingKept
  <2>2. lost' \in [Hubs -> Nat]
    BY <1>1, <2>1, HistoryKept
  <2>3. CASE Return(-1)
    BY <1>3, <2>2, <2>3
  <2>4. recoveries = 0 => hub'[0].reset
    BY <1>0, <2>1 DEF HubsTold
  <2>. QED BY <1>2, <2>1, <2>2, <2>3, <2>4
<1>6. CASE Answering(1)
  <2>1. Untouched /\ slave' = slave /\ slave = Original
        /\ (Answering(1)' \/ (todo' = ToUsb2 /\ Is(1, Silent)'))
    BY <1>1, <1>6, AnsweringKept DEF AfterI2s, Answering
  <2>2. lost' \in [Hubs -> Nat]
    BY <1>1, <2>1, HistoryKept DEF Untouched
  <2>3. ASSUME todo' = ToUsb2, Is(1, Silent)'
        PROVE  Moving'
    <3>1. Writing(1, "usb2", 1, ToUsb3, Silent)'
      BY <2>3 DEF Writing, ToUsb2
    <3>. QED BY <2>1, <3>1 DEF Moving
  <2>4. recoveries = 0 => hub'[0].reset
    BY <1>0, <2>1 DEF Untouched, HubsTold
  <2>. QED BY <1>2, <2>1, <2>2, <2>3, <2>4 DEF Untouched
<1>7. CASE Moving
  BY <1>0, <1>1, <1>2, <1>7, MovingKept
<1>8. CASE Settling
  <2>1. /\ lost' \in [Hubs -> Nat] /\ HubsTold
        /\ \/ current' = current /\ result' = result /\ Settling'
           \/ Return(0) /\ UNCHANGED <<hub, lost>> /\ Is(1, Ready1)
    BY <1>1, <1>8, SettlingKept
  <2>2. CASE Return(0) /\ UNCHANGED <<hub, lost>> /\ Is(1, Ready1)
    BY <1>3, <2>1, <2>2
  <2>. QED BY <1>0, <1>2, <2>1, <2>2
<1>. QED BY <1>4, <1>5, <1>6, <1>7, <1>8 DEF ApartInv

LEMMA SecondStep ==
  ASSUME GaiaInv, ApartInv, Step, current = 0
  PROVE  ApartInv'
<1>1. /\ HistoryTyped /\ HeldInReset /\ result[0] = None /\ Is(1, Ready1)
      /\ 0 \in Hubs /\ 1 \in Hubs /\ Mine(0) /\ recoveries' = recoveries
  BY HubsNumbered, Told DEF ApartInv, Mine
<1>2. ASSUME current' = current, result' = result, lost' \in [Hubs -> Nat],
             Is(1, Ready1)', Starting(0)' \/ Waiting(0)' \/ Answering(0)' \/ Attaching'
      PROVE  ApartInv'
  BY <1>1, <1>2, Different DEF ApartInv, HistoryTyped, HeldInReset
<1>3. ASSUME slave = Original, \E s : Transferred(s) \/ LoseTransfer,
             result'[1] = result[1]
      PROVE  Is(1, Ready1)' /\ lost' \in [Hubs -> Nat]
  BY <1>1, <1>3, OtherKept, HistoryKept, Different
<1>4. ASSUME slave' = Original, lost' \in [Hubs -> Nat], NEW v \in {-1, 0}, Return(v),
             v = 0 => UNCHANGED <<hub, lost>> /\ Is(0, Ready0(0)), Is(1, Ready1)'
      PROVE  ApartInv'
  <2>1. /\ current' = NoHub /\ todo' = <<>> /\ result' \in [Hubs -> -1..1]
        /\ result'[0] = v /\ result'[1] = result[1]
    BY <1>1, <1>4, Returned
  <2>2. Is(0, Ready0(0))'
    <3>1. CASE v = 0
      <4>1. Sure(0)' => Sure(0)
        BY <1>1, <1>4, <2>1, <3>1, Told DEF Sure, None
      <4>. QED BY <1>4, <3>1, <4>1 DEF Is
    <3>2. CASE v = -1
      BY <2>1, <3>2 DEF Is, Sure
    <3>. QED BY <1>4, <3>1, <3>2
  <2>3. Looping'
    BY <1>4, <2>1, <2>2 DEF Looping
  <2>. QED BY <1>1, <1>4, <2>1, <2>3, Different DEF ApartInv, HistoryTyped, HeldInReset
<1>5. CASE Starting(0)
  <2>1. /\ UNCHANGED <<current, result, lost>> /\ (Starting(0)' \/ Waiting(0)')
        /\ \A g \in Hubs : g # 0 => hub'[g] = hub[g]
    BY <1>1, <1>5, StartingKept
  <2>2. Is(1, Ready1)'
    <3>1. hub'[1] = hub[1] /\ lost' = lost /\ result' = result
      BY <1>1, <2>1
    <3>. QED BY <1>1, <3>1, Told DEF Is, Sure
  <2>. QED BY <1>1, <1>2, <2>1, <2>2 DEF HistoryTyped
<1>6. CASE Waiting(0)
  <2>1. /\ slave' = slave /\ \E s : Transferred(s) \/ LoseTransfer
        /\ \/ current' = current /\ result' = result /\ (Waiting(0)' \/ Answering(0)')
           \/ Return(-1)
    BY <1>1, <1>6, WaitingKept
  <2>2. result'[1] = result[1]
    <3>1. CASE Return(-1)
      BY <1>1, <3>1, Returned
    <3>. QED BY <2>1, <3>1
  <2>3. slave = Original
    BY <1>6 DEF Waiting
  <2>4. Is(1, Ready1)' /\ lost' \in [Hubs -> Nat]
    BY <1>3, <2>1, <2>2, <2>3
  <2>5. CASE Return(-1)
    BY <1>4, <2>1, <2>3, <2>4, <2>5
  <2>. QED BY <1>2, <2>1, <2>4, <2>5
<1>7. CASE Answering(0)
  <2>1. Untouched /\ slave' = slave /\ slave = Original
        /\ (Answering(0)' \/ (todo' = ToAttach(0) /\ Is(0, Silent)'))
    BY <1>1, <1>7, AnsweringKept DEF AfterI2s, Answering
  <2>2. Is(1, Ready1)' /\ lost' \in [Hubs -> Nat]
    BY <1>3, <2>1 DEF Untouched
  <2>3. ASSUME todo' = ToAttach(0), Is(0, Silent)'
        PROVE  Attaching'
    BY <2>1, <2>3 DEF Attaching
  <2>. QED BY <1>2, <2>1, <2>2, <2>3 DEF Untouched
<1>8. CASE Attaching
  <2>1. slave = Original
    BY <1>8 DEF Attaching
  <2>2. CASE /\ current' = current /\ result' = result /\ slave' = slave /\ Attaching'
             /\ \E s : Transferred(s) \/ LoseTransfer
    BY <1>2, <1>3, <2>1, <2>2
  <2>3. CASE Return(0) /\ UNCHANGED <<slave, hub, lost>> /\ Is(0, Ready0(0))
    <3>1. result'[1] = result[1]
      BY <1>1, <2>3, Returned
    <3>2. Is(1, Ready1)'
      BY <1>1, <2>3, <3>1, Told DEF Is, Sure
    <3>3. lost' \in [Hubs -> Nat]
      BY <1>1, <2>3 DEF HistoryTyped
    <3>. QED BY <1>4, <2>1, <2>3, <3>2, <3>3
  <2>. QED BY <1>1, <1>8, <2>2, <2>3, AttachingKept
<1>. QED BY <1>5, <1>6, <1>7, <1>8 DEF ApartInv

LEMMA LoopStep ==
  ASSUME GaiaInv, ApartInv, Step, current = NoHub
  PROVE  ApartInv'
<1>1. /\ HistoryTyped /\ Is(1, Ready1) /\ Looping /\ current # 1 /\ slave = Original
      /\ recoveries' = recoveries
  BY Different, Told DEF ApartInv, Looping
<1>2. /\ current' = current /\ result' = result /\ slave' = slave /\ Looping'
      /\ \/ UNCHANGED <<hub, lost>>
         \/ \E s : Transferred(s) \/ LoseTransfer
  BY <1>1, LoopingKept
<1>3. Is(1, Ready1)' /\ lost' \in [Hubs -> Nat]
  <2>1. CASE UNCHANGED <<hub, lost>>
    BY <1>1, <1>2, <2>1, Told DEF Is, Sure, HistoryTyped
  <2>2. CASE \E s : Transferred(s) \/ LoseTransfer
    BY <1>1, <1>2, <2>2, OtherKept, HistoryKept
  <2>. QED BY <1>2, <2>1, <2>2
<1>. QED BY <1>1, <1>2, <1>3, Different DEF ApartInv, HistoryTyped, HeldInReset

(* A hub that comes up, a cable and the start of a pass.                   *)
LEMMA SegmentsKept ==
  ASSUME ApartInv, UNCHANGED <<current, todo, slave, result, lost, deputy, recoveries>>,
         hub'[0].reset = hub[0].reset,
         \A h \in Hubs : /\ hub[h] = InReset => hub'[h] = InReset
                         /\ Released(h) => Released(h)'
                         /\ hub'[h].block = hub[h].block
                         /\ \A c \in Calm : Bare(hub[h]) = c => Bare(hub'[h]) = c
  PROVE  ApartInv'
<1>1. \A h \in Hubs : Sure(h)' = Sure(h)
  BY DEF Sure, ToldApart
<1>2. \A h \in Hubs, c \in Calm : Is(h, c) => Is(h, c)'
  BY <1>1 DEF Is
<1>3. \A h \in Hubs : \A b : Loaded(h, b) => Loaded(h, b)'
  BY <1>1 DEF Loaded
<1>4. \A h \in Hubs, c \in Calm :
        \A r, rest : Reading(h, r, rest, c) => Reading(h, r, rest, c)'
  BY <1>2, <1>3 DEF Reading
<1>5. \A h \in Hubs, c \in Calm :
        \A r, v, rest : Writing(h, r, v, rest, c) => Writing(h, r, v, rest, c)'
  BY <1>2, <1>3 DEF Writing
<1>6. \A h \in Hubs : (Starting(h) => Starting(h)') /\ (Waiting(h) => Waiting(h)')
  BY <1>1 DEF Starting, Waiting
<1>7. \A h \in Hubs : Answering(h) => Answering(h)'
  BY <1>4, <1>5, HubsOnTheWay DEF Answering
<1>8. 0 \in Hubs /\ 1 \in Hubs
  BY HubsNumbered
<1>9. Moving => Moving'
  BY <1>2, <1>4, <1>5, <1>8, HubsOnTheWay DEF Moving
<1>10. Settling => Settling'
  BY <1>2, <1>4, <1>5, <1>8, HubsOnTheWay DEF Settling
<1>11. Attaching => Attaching'
  <2>1. Silent \in Calm /\ Ready0(0) \in Calm
    BY HubsOnTheWay
  <2>. QED BY <1>2, <1>8, <2>1 DEF Attaching
<1>12. Looping => Looping'
  <2>1. ASSUME Looping
        PROVE  Looping'
    <3>1. PICK v \in 0..1 :
            \/ /\ todo \in {<<>>, Detect(1), <<<<"adopt", 1>>>>,
                            Do(<<"compare", 0>>, Detect(1)), Do(<<"adopt", 0>>, Detect(1))}
               /\ Is(0, Ready0(v))
            \/ \E w \in 0..1, rest \in Rests : Switching(v, w, rest)
      BY <2>1 DEF Looping
    <3>2. Ready0(v) \in Calm /\ \A w \in 0..1 : [Ready0(v) EXCEPT !.usb2 = w] \in Calm
      BY HubsOnTheWay
    <3>3. ASSUME NEW w \in 0..1, NEW rest \in Rests, Switching(v, w, rest)
          PROVE  Switching(v, w, rest)'
      BY <1>5, <1>8, <3>2, <3>3 DEF Switching
    <3>4. slave' = Original
      BY <2>1 DEF Looping
    <3>5. CASE /\ todo \in {<<>>, Detect(1), <<<<"adopt", 1>>>>,
                              Do(<<"compare", 0>>, Detect(1)), Do(<<"adopt", 0>>, Detect(1))}
               /\ Is(0, Ready0(v))
      <4>1. Is(0, Ready0(v))'
        BY <1>2, <1>8, <3>2, <3>5
      <4>. QED BY <3>4, <3>5, <4>1 DEF Looping
    <3>6. CASE \E w \in 0..1, rest \in Rests : Switching(v, w, rest)
      <4>1. \E w \in 0..1, rest \in Rests : Switching(v, w, rest)'
        BY <3>3, <3>6
      <4>. QED BY <3>4, <4>1 DEF Looping
    <3>. QED BY <3>1, <3>5, <3>6
  <2>. QED BY <2>1
<1>13. Is(1, Ready1) => Is(1, Ready1)'
  BY <1>2, <1>8, HubsOnTheWay
<1>14. HistoryTyped' /\ HeldInReset'
  BY DEF ApartInv, HistoryTyped, HeldInReset
<1>. QED BY <1>6, <1>7, <1>8, <1>9, <1>10, <1>11, <1>12, <1>13, <1>14 DEF ApartInv

LEMMA WakeKept ==
  ASSUME GaiaInv, ApartInv, NEW g \in Hubs, Wake(g)
  PROVE  ApartInv'
<1>1. /\ ~hub[g].reset /\ ~hub[g].awake /\ hub[g] \in HubStates
      /\ hub' = [hub EXCEPT ![g].awake = TRUE]
      /\ UNCHANGED <<current, todo, slave, result, lost, deputy, recoveries>>
  BY DEF Wake, GaiaInv, counts
<1>2. ASSUME NEW h \in Hubs, h # g
      PROVE  hub'[h] = hub[h]
  BY <1>1, <1>2 DEF GaiaInv
<1>3. hub'[g] = [hub[g] EXCEPT !.awake = TRUE]
  BY <1>1 DEF GaiaInv
<1>4. hub[g] # InReset
  BY <1>1 DEF InReset
<1>5. hub'[g].block = hub[g].block /\ hub'[g].awake
      /\ [hub'[g] EXCEPT !.awake = TRUE] = [hub[g] EXCEPT !.awake = TRUE]
  <2>1. ASSUME NEW r \in HubStates
        PROVE  LET s == [r EXCEPT !.awake = TRUE]
               IN  s.block = r.block /\ s.awake /\ [s EXCEPT !.awake = TRUE] = s
    BY <2>1 DEF HubStates
  <2>. QED BY <1>1, <1>3, <2>1
<1>6. Released(g) => Released(g)'
  BY <1>5 DEF Released
<1>7. \A c \in Calm : Bare(hub[g]) # c
  BY <1>1, BareFields DEF Calm
<1>8. ASSUME NEW h \in Hubs, h # g
      PROVE  /\ hub[h] = InReset => hub'[h] = InReset
             /\ Released(h) => Released(h)'
             /\ hub'[h].block = hub[h].block
             /\ \A c \in Calm : Bare(hub[h]) = c => Bare(hub'[h]) = c
  BY <1>2, <1>8 DEF Released
<1>9. hub'[0].reset = hub[0].reset
  BY <1>1, <1>3, <1>8, HubsNumbered DEF HubStates, GaiaInv
<1>. QED BY <1>1, <1>4, <1>5, <1>6, <1>7, <1>8, <1>9, SegmentsKept

LEMMA NothingKept ==
  ASSUME ApartInv, UNCHANGED <<current, todo, slave, result, lost, deputy, recoveries, hub>>
  PROVE  ApartInv'
BY SegmentsKept DEF Released

LEMMA ApartKept ==
  ASSUME GaiaInv, ApartInv, GaiaNext
  PROVE  ApartInv'
<1>1. current = 0 \/ current = 1 \/ current = NoHub
  BY DEF GaiaInv, NoHub
<1>2. CASE Step
  BY <1>1, <1>2, FirstStep, SecondStep, LoopStep
<1>3. CASE StartApplication \/ RecoverFromStandby \/ Reboot
  <2>1. recoveries \in Nat /\ 0 \in Hubs
    BY HubsNumbered DEF ApartInv, HistoryTyped
  <2>2. CASE StartApplication \/ Reboot
    <3>1. StartInit /\ SetupUsbPins /\ recoveries' = recoveries
      BY <2>2 DEF StartApplication, Reboot, counts
    <3>2. hub'[0].reset
      BY <2>1, <3>1 DEF SetupUsbPins, InReset
    <3>. QED BY <2>1, <3>1, <3>2, Started
  <2>3. CASE RecoverFromStandby
    <3>1. StartInit /\ recoveries' = recoveries + 1
      BY <2>3 DEF RecoverFromStandby
    <3>2. recoveries' \in Nat /\ recoveries' # 0
      BY <2>1, <3>1
    <3>. QED BY <3>1, <3>2, Started
  <2>. QED BY <1>3, <2>2, <2>3
<1>4. CASE MainLoop
  <2>1. /\ current = NoHub /\ todo = <<>>
        /\ UNCHANGED <<current, slave, result, hub, lost, deputy, recoveries>>
    BY <1>4 DEF MainLoop, AtRest, counts
  <2>2. todo' = Do(<<"compare", 0>>, Detect(1))
    BY <1>4 DEF MainLoop, DetectCableChange, Detect, Do
  <2>3. slave = Original /\ Is(1, Ready1) /\ HistoryTyped
    BY <2>1 DEF ApartInv, Looping
  <2>4. PICK v \in 0..1 : Is(0, Ready0(v))
    BY <2>1, AtRestReady
  <2>5. Is(0, Ready0(v))' /\ Is(1, Ready1)'
    BY <2>1, <2>3, <2>4 DEF Is, Sure, ToldApart
  <2>6. Looping'
    BY <2>1, <2>2, <2>3, <2>5 DEF Looping
  <2>7. HistoryTyped'
    BY <2>1, <2>3 DEF HistoryTyped
  <2>. QED BY <2>1, <2>5, <2>6, <2>7, Different DEF ApartInv, HeldInReset
<1>5. CASE \E h \in Hubs : Wake(h)
  BY <1>5, WakeKept
<1>6. CASE \E h \in Hubs : Plug(h)
  BY <1>6, NothingKept DEF Plug
<1>. QED BY <1>2, <1>3, <1>4, <1>5, <1>6 DEF GaiaNext

LEMMA ApartBegins == GaiaInit => ApartInv
<1>. SUFFICES ASSUME GaiaInit PROVE ApartInv
  OBVIOUS
<1>1. current = 1 /\ todo = Initialize(1)
  BY DEF GaiaInit, FirstHub
<1>2. HistoryTyped /\ HeldInReset /\ result[0] = None /\ result[1] = None
  BY HubsNumbered DEF GaiaInit, HistoryTyped, HeldInReset, InReset, None
<1>3. Starting(1)
  BY <1>1 DEF Starting
<1>. QED BY <1>1, <1>2, <1>3, Different DEF ApartInv

LEMMA ApartMeans == GaiaInv /\ ApartInv => ConfiguredApart
<1>. SUFFICES ASSUME GaiaInv, ApartInv, AtRest, ToldApart, lost[1] = 0, result[1] = 0
              PROVE  /\ Configured(1) /\ Hub1Own
                     /\ lost[0] = 0 /\ result[0] = 0 => Configured(0) /\ Hub0Own
  BY DEF ConfiguredApart
<1>1. Is(1, Ready1) /\ \E v \in 0..1 : Is(0, Ready0(v))
  BY AtRestReady DEF ApartInv, AtRest
<1>2. hub[0] \in HubStates /\ hub[1] \in HubStates
  BY HubsNumbered DEF GaiaInv
<1>3. Configured(1) /\ Hub1Own
  <2>1. Bare(hub[1]) = Ready1
    BY <1>1 DEF Is, Sure
  <2>2. ~Ready1.reset /\ Ready1.running /\ Ready1.i2s = "off" /\ Ready1.primary = New
        /\ Ready1.secondary = "none" /\ Ready1.usb2 = 1 /\ Ready1.usb3 = 1
    BY DEF Ready1, Alone, Moved, Flexed, Half, Silent, Up, InReset
  <2>. QED BY <1>2, <2>1, <2>2, BareFields DEF Configured, Hub1Own
<1>4. ASSUME lost[0] = 0, result[0] = 0
      PROVE  Configured(0) /\ Hub0Own
  <2>1. PICK v \in 0..1 : Bare(hub[0]) = Ready0(v)
    BY <1>1, <1>4 DEF Is, Sure
  <2>2. ~Ready0(v).reset /\ Ready0(v).running /\ Ready0(v).i2s = "off"
        /\ Ready0(v).primary = Original /\ Ready0(v).secondary = "2C"
        /\ Ready0(v).usb2 = v /\ Ready0(v).usb3 = v
    BY DEF Ready0, Silent, Up, InReset
  <2>. QED BY <1>2, <2>1, <2>2, BareFields DEF Configured, Hub0Own
<1>. QED BY <1>3, <1>4

-----------------------------------------------------------------------------
(***************************************************************************)
(* Hub and clock generator of the Zeus board.                              *)
(***************************************************************************)
ZeusHubs == [reset : BOOLEAN, awake : BOOLEAN, attached : BOOLEAN, upstream : 0..1]

ZeusType ==
  /\ zPc \in {"reset", "attach", "upstream", "id", "clock", "dump", "data", "rest"}
  /\ zTimeout \in 0..Tries
  /\ index \in 1..(Len(Pages) + 1)
  /\ page \in 0..11 /\ chipPage \in 0..11
  /\ written \in [Entries -> -1..11]
  /\ dumpLost \in Nat /\ zLost \in 0..ZeusMaxLost /\ dumpLost <= zLost

(* How far the hub is when a step is reached.                              *)
HubInv ==
  /\ zPc \in {"upstream", "id", "clock", "dump", "data"} => zHub.attached
  /\ zPc \in {"id", "clock", "dump", "data"} => zHub.upstream = 1
  /\ zHub \in ZeusHubs
  /\ zPc = "data" => index \in Entries

(* The driver knows the generator's page as soon as it has selected one.   *)
(* Until then it takes it for page 0, on which no register of the preamble *)
(* is, so that it will select a page unless all of the preamble is lost.   *)
PageInv ==
  \/ page = chipPage /\ (zPc = "data" => page = Pages[index])
  \/ /\ page = 0 /\ zPc # "data"
     /\ zPc = "dump" => index <= dumpLost + 1

WrittenInv ==
  /\ \A i \in Entries : written[i] \in {-1, Pages[i]}
  /\ Cardinality(Missing) <= dumpLost

(* Fewer transfers are lost than the preamble has registers.               *)
PreambleHeard == ZeusMaxLost < Len(Preamble)

ZeusBase == ZeusType /\ HubInv

LEMMA Prefixed ==
  ASSUME NEW S, NEW s \in Seq(S), NEW t \in Seq(S)
  PROVE  /\ s \o t \in Seq(S) /\ Len(s \o t) = Len(s) + Len(t)
         /\ \A i \in 1..Len(s) : (s \o t)[i] = s[i]
OBVIOUS

LEMMA PagesAre ==
  /\ Len(Pages) = 17 /\ Len(Preamble) = 6
  /\ Entries = 1..17
  /\ \A i \in Entries : Pages[i] \in 0..11
  /\ \A i \in 1..6 : Pages[i] # 0
<1>1. /\ Len(Preamble) = 6 /\ \A i \in 1..6 : Preamble[i] \in 1..11
      /\ Preamble \in Seq(0..11)
  <2>1. \A i \in 1..6 : i = 1 \/ i = 2 \/ i = 3 \/ i = 4 \/ i = 5 \/ i = 6
    OBVIOUS
  <2>. QED BY <2>1 DEF Preamble
<1>2. Len(Registers) = 8 /\ Registers \in Seq(0..11)
  BY DEF Registers
<1>3. Len(Postamble) = 3 /\ Postamble \in Seq(0..11)
  BY DEF Postamble
<1>. DEFINE first == Preamble \o Registers
<1>4. first \in Seq(0..11) /\ Len(first) = 14 /\ \A i \in 1..6 : first[i] = Preamble[i]
  <2>1. /\ first \in Seq(0..11) /\ Len(first) = Len(Preamble) + Len(Registers)
        /\ \A i \in 1..Len(Preamble) : first[i] = Preamble[i]
    BY <1>1, <1>2, Prefixed
  <2>. HIDE DEF first
  <2>. QED BY <1>1, <1>2, <2>1
<1>5. /\ first \o Postamble \in Seq(0..11) /\ Len(first \o Postamble) = 17
      /\ \A i \in 1..6 : (first \o Postamble)[i] = Preamble[i]
  <2>. HIDE DEF first
  <2>1. /\ first \o Postamble \in Seq(0..11)
        /\ Len(first \o Postamble) = Len(first) + Len(Postamble)
        /\ \A i \in 1..Len(first) : (first \o Postamble)[i] = first[i]
    BY <1>3, <1>4, Prefixed
  <2>. QED BY <1>3, <1>4, <2>1
<1>6. /\ Pages \in Seq(0..11) /\ Len(Pages) = 17
      /\ \A i \in 1..6 : Pages[i] = Preamble[i]
  BY <1>5 DEF Pages
<1>7. Entries = 1..17
  BY <1>6 DEF Entries
<1>8. \A i \in 1..6 : Pages[i] # 0
  BY <1>1, <1>6
<1>9. ASSUME NEW i \in Entries
      PROVE  Pages[i] \in 0..11
  <2>. HIDE DEF Pages
  <2>. QED BY <1>6, <1>7, ElementOfSeq
<1>. QED BY <1>1, <1>6, <1>7, <1>8, <1>9

LEMMA TriesType == Tries \in Nat /\ ZeusMaxLost \in Nat
BY ZeusAssumption

LEMMA ReturnFromType ==
  ASSUME ZeusType, NEW v, ReturnFrom(v)
  PROVE  zPc' \in {"reset", "rest"} /\ zTimeout' \in 0..Tries
BY TriesType DEF ReturnFrom, ZeusType

LEMMA CheckedBase ==
  ASSUME ZeusBase, NEW at, NEW next, NEW STATE after, Checked(at, next, after),
         next \in {"upstream", "id", "clock"},
         after \in ZeusHubs,
         after.attached, next \in {"id", "clock"} => after.upstream = 1
  PROVE  ZeusBase' /\ UNCHANGED clockVars
         /\ zPc' \in {next, "reset", "rest"} /\ (zPc' = "rest" => zResult' = -1)
<1>1. PICK ok \in BOOLEAN :
        /\ HubAccess(ok)
        /\ IF ok THEN zPc' = next /\ zHub' = after /\ UNCHANGED <<zTimeout, zResult>>
           ELSE ReturnFrom(-1) /\ UNCHANGED zHub
  BY DEF Checked
<1>2. UNCHANGED clockVars
  BY DEF Checked
<1>3. UNCHANGED <<index, page, chipPage, written, dumpLost>>
  BY <1>2 DEF clockVars
<1>4. zLost' \in 0..ZeusMaxLost /\ dumpLost <= zLost'
  BY <1>1, TriesType DEF HubAccess, ZeusBase, ZeusType
<1>5. CASE ok
  BY <1>1, <1>2, <1>3, <1>4, <1>5 DEF ZeusBase, ZeusType, HubInv
<1>6. CASE ~ok
  <2>1. ReturnFrom(-1) /\ zHub' = zHub
    BY <1>1, <1>6
  <2>2. zPc' \in {"reset", "rest"} /\ zTimeout' \in 0..Tries /\ zResult' = -1
    BY <2>1, ReturnFromType DEF ZeusBase, ReturnFrom
  <2>. QED BY <1>2, <1>3, <1>4, <2>1, <2>2 DEF ZeusBase, ZeusType, HubInv
<1>. QED BY <1>5, <1>6

(* The three accesses to the hub before the clock generator.               *)
LEMMA HubSteps3 ==
  ASSUME ZeusBase, EnableRuntime \/ SetUpstreamPort \/ RetrieveId
  PROVE  ZeusBase' /\ UNCHANGED clockVars
         /\ zPc' \notin {"dump", "data"} /\ (zPc' = "rest" => zResult' = -1)
<1>1. zHub \in ZeusHubs
  BY DEF ZeusBase, HubInv
<1>2. CASE EnableRuntime
  <2>1. PICK after : after = [zHub EXCEPT !.attached = TRUE]
    OBVIOUS
  <2>2. Checked("attach", "upstream", after)
    BY <1>2, <2>1 DEF EnableRuntime
  <2>3. after \in ZeusHubs /\ after.attached
    BY <1>1, <2>1 DEF ZeusHubs
  <2>. QED BY <2>2, <2>3, CheckedBase
<1>3. CASE SetUpstreamPort
  <2>1. PICK after : after = [zHub EXCEPT !.upstream = 1]
    OBVIOUS
  <2>2. Checked("upstream", "id", after)
    BY <1>3, <2>1 DEF SetUpstreamPort
  <2>3. zHub.attached
    BY <2>2 DEF Checked, ZeusBase, HubInv
  <2>4. after \in ZeusHubs /\ after.attached /\ after.upstream = 1
    BY <1>1, <2>1, <2>3 DEF ZeusHubs
  <2>. QED BY <2>2, <2>4, CheckedBase
<1>4. CASE RetrieveId
  <2>1. Checked("id", "clock", zHub) /\ zHub.attached /\ zHub.upstream = 1
    BY <1>4 DEF RetrieveId, Checked, ZeusBase, HubInv
  <2>. QED BY <1>1, <2>1, CheckedBase
<1>. QED BY <1>2, <1>3, <1>4

(* A transfer to the generator that is lost is counted.                    *)
LEMMA ClockLoss ==
  ASSUME ZeusType, NEW ok \in BOOLEAN, ClockTransfer(ok)
  PROVE  /\ dumpLost' \in Nat /\ zLost' \in 0..ZeusMaxLost /\ dumpLost' <= zLost'
         /\ dumpLost' = IF ok THEN dumpLost ELSE dumpLost + 1
BY TriesType DEF ClockTransfer, ZeusType

LEMMA ZeusStartBase ==
  ASSUME ZeusType, ZeusStart, zLost' = zLost, chipPage' = chipPage
  PROVE  ZeusBase'
<1>1. NoneWritten \in [Entries -> -1..11]
  BY DEF NoneWritten
<1>. QED BY <1>1, PagesAre, TriesType
       DEF ZeusStart, ZeusBase, ZeusType, HubInv, HeldHub, ZeusHubs

LEMMA ZeusBaseKept ==
  ASSUME ZeusBase, ZeusNext
  PROVE  ZeusBase'
<1>1. CASE ResetHub
  <2>1. PICK awake \in BOOLEAN : zHub' = [HeldHub EXCEPT !.reset = FALSE, !.awake = awake]
    BY <1>1 DEF ResetHub
  <2>2. zHub' = [reset |-> FALSE, awake |-> awake, attached |-> FALSE, upstream |-> 0]
    BY <2>1 DEF HeldHub
  <2>3. zHub' \in ZeusHubs
    BY <2>2 DEF ZeusHubs
  <2>. QED BY <1>1, <2>3 DEF ResetHub, ZeusBase, ZeusType, HubInv, clockVars, zCounts
<1>2. CASE EnableRuntime \/ SetUpstreamPort \/ RetrieveId
  BY <1>2, HubSteps3
<1>3. CASE StartDump
  <2>1. NoneWritten \in [Entries -> -1..11]
    BY DEF NoneWritten
  <2>. QED BY <1>3, <2>1, PagesAre DEF StartDump, ZeusBase, ZeusType, HubInv, zCounts
<1>4. CASE SwapPage
  <2>1. PICK ok \in BOOLEAN :
          /\ ClockTransfer(ok) /\ SelectPage(ok)
          /\ IF ok THEN zPc' = "data" /\ UNCHANGED index
             ELSE zPc' = zPc /\ NextEntry
    BY <1>4 DEF SwapPage
  <2>2. /\ zPc = "dump" /\ index \in Entries
        /\ UNCHANGED <<zTimeout, zHub, written>>
    BY <1>4 DEF SwapPage
  <2>3. page' \in 0..11 /\ chipPage' \in 0..11
    BY <2>1, <2>2, PagesAre DEF SelectPage, ZeusBase, ZeusType
  <2>4. ZeusType
    BY DEF ZeusBase
  <2>5. index' \in 1..(Len(Pages) + 1) /\ zPc' \in {"data", "dump"}
        /\ (zPc' = "data" => index' = index)
    BY <2>1, <2>2, PagesAre DEF NextEntry
  <2>. QED BY <2>1, <2>2, <2>3, <2>4, <2>5, ClockLoss DEF ZeusBase, ZeusType, HubInv
<1>5. CASE WriteEntry
  <2>1. PICK ok \in BOOLEAN :
          /\ ClockTransfer(ok)
          /\ written' = IF ok THEN [written EXCEPT ![index] = chipPage] ELSE written
    BY <1>5 DEF WriteEntry
  <2>2. /\ zPc \in {"dump", "data"} /\ index \in Entries /\ zPc' = "dump"
        /\ index' = index + 1 /\ UNCHANGED <<zTimeout, zHub, page, chipPage>>
    BY <1>5 DEF WriteEntry, NextEntry
  <2>3. written' \in [Entries -> -1..11]
    BY <2>1, <2>2 DEF ZeusBase, ZeusType
  <2>4. index' \in 1..(Len(Pages) + 1)
    BY <2>2, PagesAre
  <2>5. ZeusType
    BY DEF ZeusBase
  <2>. QED BY <2>1, <2>2, <2>3, <2>4, <2>5, ClockLoss DEF ZeusBase, ZeusType, HubInv
<1>6. CASE EndOfDump
  <2>1. zPc' \in {"reset", "rest"} /\ zTimeout' \in 0..Tries
    BY <1>6, ReturnFromType DEF EndOfDump, ZeusBase
  <2>. QED BY <1>6, <2>1 DEF EndOfDump, ZeusBase, ZeusType, HubInv, clockVars, zCounts
<1>7. CASE WakeHub
  <2>1. zHub' = [zHub EXCEPT !.awake = TRUE]
    BY <1>7 DEF WakeHub
  <2>2. zHub' \in ZeusHubs /\ zHub'.attached = zHub.attached /\ zHub'.upstream = zHub.upstream
    BY <2>1 DEF ZeusBase, HubInv, ZeusHubs
  <2>. QED BY <1>7, <2>2 DEF WakeHub, ZeusBase, ZeusType, HubInv, clockVars, zCounts
<1>8. CASE ZeusApplication \/ ZeusReboot
  BY <1>8, ZeusStartBase DEF ZeusApplication, ZeusReboot, zCounts, ZeusBase
<1>9. CASE ZeusRecover
  BY <1>9 DEF ZeusRecover, ZeusBase, ZeusType, HubInv, clockVars
<1>. QED BY <1>1, <1>2, <1>3, <1>4, <1>5, <1>6, <1>7, <1>8, <1>9
         DEF ZeusNext, ZeusStep


LEMMA Counted ==
  ASSUME ZeusType
  PROVE  IsFiniteSet(Missing) /\ Cardinality(Missing) \in Nat
<1>1. index - 1 \in Int
  BY PagesAre DEF ZeusType
<1>2. IsFiniteSet(1..(index - 1))
  BY <1>1, FS_Interval
<1>3. Missing \in SUBSET (1..(index - 1))
  BY DEF Missing
<1>. QED BY <1>2, <1>3, FS_Subset, FS_CardinalityType

(* Losing the page of an entry, or the entry, is paid for by one loss.     *)
LEMMA OneMore ==
  ASSUME ZeusType, WrittenInv, ZeusType',
         Missing' \subseteq Missing \cup {index}, dumpLost' = dumpLost + 1
  PROVE  Cardinality(Missing') <= dumpLost'
<1>1. IsFiniteSet(Missing) /\ Cardinality(Missing) \in Nat
  BY Counted
<1>. DEFINE more == Missing \cup {index}
<1>2. IsFiniteSet(more) /\ Cardinality(more) <= Cardinality(Missing) + 1
  BY <1>1, FS_AddElement
<1>3. Missing' \in SUBSET more
  OBVIOUS
<1>4. Cardinality(Missing') <= Cardinality(more)
  <2>. HIDE DEF more
  <2>. QED BY <1>2, <1>3, FS_Subset
<1>5. Cardinality(more) \in Nat /\ Cardinality(Missing') \in Nat
  <2>. HIDE DEF more
  <2>1. IsFiniteSet(Missing')
    BY <1>2, <1>3, FS_Subset
  <2>. QED BY <1>2, <2>1, FS_CardinalityType
<1>. QED BY <1>1, <1>2, <1>4, <1>5 DEF WrittenInv, ZeusType

LEMMA NoMore ==
  ASSUME ZeusType, WrittenInv, ZeusType',
         Missing' \subseteq Missing, dumpLost' = dumpLost
  PROVE  Cardinality(Missing') <= dumpLost'
<1>1. IsFiniteSet(Missing) /\ Cardinality(Missing) \in Nat
  BY Counted
<1>2. Missing' \in SUBSET Missing
  OBVIOUS
<1>3. IsFiniteSet(Missing') /\ Cardinality(Missing') <= Cardinality(Missing)
  BY <1>1, <1>2, FS_Subset
<1>4. Cardinality(Missing') \in Nat
  BY <1>3, FS_CardinalityType
<1>. QED BY <1>1, <1>3, <1>4 DEF WrittenInv, ZeusType

(* A table not begun has nothing written and nothing missing.              *)
LEMMA NothingYet ==
  ASSUME index' = 1, written' = NoneWritten, dumpLost' = 0
  PROVE  WrittenInv'
<1>1. Missing' = {}
  BY DEF Missing
<1>2. \A i \in Entries : written'[i] = -1
  BY DEF NoneWritten
<1>. QED BY <1>1, <1>2, FS_EmptySet DEF WrittenInv

(* The same table, not gone on with.                                       *)
LEMMA TableAsItWas ==
  ASSUME WrittenInv, UNCHANGED <<index, written, dumpLost>>
  PROVE  WrittenInv'
BY DEF WrittenInv, Missing

(* While fewer transfers are lost than the preamble has registers, the     *)
(* page an entry is written on is its own.                                 *)
LEMMA OwnPage ==
  ASSUME PreambleHeard, ZeusBase, PageInv, index \in Entries,
         zPc \in {"dump", "data"}, zPc = "dump" => page = Pages[index]
  PROVE  page = chipPage /\ chipPage = Pages[index]
<1>1. CASE page = chipPage /\ (zPc = "data" => page = Pages[index])
  BY <1>1
<1>2. CASE /\ page = 0 /\ zPc # "data"
           /\ zPc = "dump" => index <= dumpLost + 1
  <2>1. index \in 1..6
    BY <1>2, PagesAre, TriesType DEF PreambleHeard, ZeusBase, ZeusType
  <2>. QED BY <1>2, <2>1, PagesAre
<1>. QED BY <1>1, <1>2 DEF PageInv

(* The registers, the page of the generator and what the driver takes it   *)
(* for.                                                                    *)
TableInv == PageInv /\ WrittenInv

LEMMA TableKept ==
  ASSUME PreambleHeard, ZeusBase, TableInv, ZeusNext
  PROVE  TableInv'
<1>. USE DEF TableInv
<1>1. ZeusType /\ ZeusBase' /\ ZeusType'
  BY ZeusBaseKept DEF ZeusBase
<1>2. CASE ResetHub \/ WakeHub \/ EndOfDump \/ ZeusRecover
  <2>1. \/ UNCHANGED clockVars /\ zPc' # "data"
        \/ UNCHANGED <<clockVars, zPc>>
    BY <1>2 DEF ResetHub, WakeHub, EndOfDump, ZeusRecover, ReturnFrom
  <2>2. zPc' = "dump" => zPc = "dump"
    BY <1>2 DEF ResetHub, WakeHub, EndOfDump, ZeusRecover, ReturnFrom
  <2>3. UNCHANGED <<index, page, chipPage, written, dumpLost>>
    BY <2>1 DEF clockVars
  <2>4. PageInv'
    BY <2>1, <2>2, <2>3 DEF PageInv
  <2>. QED BY <2>3, <2>4, TableAsItWas
<1>3. CASE EnableRuntime \/ SetUpstreamPort \/ RetrieveId
  <2>1. UNCHANGED clockVars /\ zPc' \notin {"dump", "data"}
    BY <1>3, HubSteps3
  <2>2. UNCHANGED <<index, page, chipPage, written, dumpLost>>
    BY <2>1 DEF clockVars
  <2>3. zPc # "data"
    BY <1>3 DEF EnableRuntime, SetUpstreamPort, RetrieveId, Checked
  <2>4. PageInv'
    BY <2>1, <2>2, <2>3 DEF PageInv
  <2>. QED BY <2>2, <2>4, TableAsItWas
<1>4. CASE StartDump
  <2>1. WrittenInv'
    BY <1>4, NothingYet DEF StartDump
  <2>2. PageInv'
    BY <1>4 DEF StartDump, PageInv
  <2>. QED BY <2>1, <2>2
<1>5. CASE SwapPage
  <2>1. PICK ok \in BOOLEAN :
          /\ ClockTransfer(ok) /\ SelectPage(ok)
          /\ IF ok THEN zPc' = "data" /\ UNCHANGED index
             ELSE zPc' = zPc /\ NextEntry
    BY <1>5 DEF SwapPage
  <2>2. zPc = "dump" /\ index \in Entries /\ written' = written
    BY <1>5 DEF SwapPage
  <2>3. dumpLost' = IF ok THEN dumpLost ELSE dumpLost + 1
    BY <1>1, <2>1, ClockLoss
  <2>4. CASE ok
    <3>1. page' = chipPage' /\ page' = Pages[index] /\ index' = index
      BY <2>1, <2>4 DEF SelectPage
    <3>2. PageInv'
      BY <3>1 DEF PageInv
    <3>. QED BY <2>2, <2>3, <2>4, <3>1, <3>2, TableAsItWas
  <2>5. CASE ~ok
    <3>1. zPc' = "dump" /\ index' = index + 1 /\ UNCHANGED <<page, chipPage>>
      BY <2>1, <2>2, <2>5 DEF SelectPage, NextEntry
    <3>2. PageInv'
      BY <1>1, <2>2, <2>3, <2>5, <3>1 DEF PageInv, ZeusType
    <3>3. Missing' \subseteq Missing \cup {index}
      BY <2>2, <3>1, PagesAre DEF Missing
    <3>. QED BY <1>1, <2>2, <2>3, <2>5, <3>2, <3>3, OneMore DEF WrittenInv
  <2>. QED BY <2>4, <2>5
<1>6. CASE WriteEntry
  <2>1. PICK ok \in BOOLEAN :
          /\ ClockTransfer(ok)
          /\ written' = IF ok THEN [written EXCEPT ![index] = chipPage] ELSE written
    BY <1>6 DEF WriteEntry
  <2>2. /\ zPc \in {"dump", "data"} /\ index \in Entries /\ zPc' = "dump"
        /\ index' = index + 1 /\ UNCHANGED <<page, chipPage>>
        /\ zPc = "dump" => page = Pages[index]
    BY <1>6 DEF WriteEntry, NextEntry
  <2>3. dumpLost' = IF ok THEN dumpLost ELSE dumpLost + 1
    BY <1>1, <2>1, ClockLoss
  <2>4. page = chipPage /\ chipPage = Pages[index]
    BY <2>2, OwnPage
  <2>5. PageInv'
    BY <2>2, <2>4 DEF PageInv
  <2>6. CASE ok
    <3>1. written' = [written EXCEPT ![index] = Pages[index]]
      BY <2>1, <2>4, <2>6
    <3>2. written'[index] # -1
      BY <1>1, <2>2, <3>1, PagesAre DEF ZeusType
    <3>3. \A i \in Entries : written'[i] = IF i = index THEN Pages[i] ELSE written[i]
      BY <1>1, <3>1 DEF ZeusType
    <3>4. Missing' \subseteq Missing
      BY <2>2, <3>2, <3>3, PagesAre DEF Missing
    <3>5. Cardinality(Missing') <= dumpLost'
      BY <1>1, <2>3, <2>6, <3>4, NoMore
    <3>6. \A i \in Entries : written'[i] \in {-1, Pages[i]}
      BY <3>3 DEF WrittenInv
    <3>. QED BY <2>5, <3>5, <3>6 DEF WrittenInv
  <2>7. CASE ~ok
    <3>1. Missing' \subseteq Missing \cup {index}
      BY <2>1, <2>2, <2>7, PagesAre DEF Missing
    <3>. QED BY <1>1, <2>1, <2>3, <2>5, <2>7, <3>1, OneMore DEF WrittenInv
  <2>. QED BY <2>6, <2>7
<1>7. CASE ZeusApplication \/ ZeusReboot
  <2>1. ZeusStart
    BY <1>7 DEF ZeusApplication, ZeusReboot
  <2>2. WrittenInv'
    BY <2>1, NothingYet DEF ZeusStart
  <2>3. PageInv'
    BY <2>1 DEF ZeusStart, PageInv
  <2>. QED BY <2>2, <2>3
<1>. QED BY <1>2, <1>3, <1>4, <1>5, <1>6, <1>7 DEF ZeusNext, ZeusStep

LEMMA SuccessKept ==
  ASSUME ZeusBase, SuccessMeansReady, ZeusNext
  PROVE  SuccessMeansReady'
<1>1. CASE EndOfDump
  <2>1. index = Len(Pages) + 1
    BY <1>1, PagesAre DEF EndOfDump, ZeusBase, ZeusType
  <2>2. UNCHANGED <<zHub, index>> /\ zPc = "dump"
    BY <1>1 DEF EndOfDump, clockVars
  <2>. QED BY <2>1, <2>2 DEF ZeusBase, HubInv, SuccessMeansReady
<1>2. CASE EnableRuntime \/ SetUpstreamPort \/ RetrieveId
  BY <1>2, HubSteps3 DEF SuccessMeansReady
<1>3. CASE WakeHub
  <2>1. zHub'.attached = zHub.attached /\ zHub'.upstream = zHub.upstream
    BY <1>3 DEF WakeHub, ZeusBase, HubInv, ZeusHubs
  <2>2. UNCHANGED <<zPc, zResult, index>>
    BY <1>3 DEF WakeHub, clockVars
  <2>. QED BY <2>1, <2>2 DEF SuccessMeansReady
<1>4. CASE ResetHub \/ StartDump \/ ZeusApplication \/ ZeusReboot \/ ZeusRecover
  <2>1. zPc' # "rest"
    BY <1>4 DEF ResetHub, StartDump, ZeusApplication, ZeusReboot, ZeusRecover, ZeusStart
  <2>. QED BY <2>1 DEF SuccessMeansReady
<1>5. CASE SwapPage \/ WriteEntry
  <2>1. zPc' # "rest"
    BY <1>5 DEF SwapPage, WriteEntry
  <2>. QED BY <2>1 DEF SuccessMeansReady
<1>. QED BY <1>1, <1>2, <1>3, <1>4, <1>5 DEF ZeusNext, ZeusStep

LEMMA ZeusBegins ==
  ZeusInit => ZeusBase /\ SuccessMeansReady /\ TableInv
<1>. SUFFICES ASSUME ZeusInit PROVE ZeusBase /\ SuccessMeansReady /\ TableInv
  OBVIOUS
<1>1. NoneWritten \in [Entries -> -1..11] /\ \A i \in Entries : NoneWritten[i] = -1
  BY DEF NoneWritten
<1>2. ZeusBase
  BY <1>1, PagesAre, TriesType DEF ZeusInit, ZeusBase, ZeusType, HubInv, HeldHub, ZeusHubs
<1>3. Missing = {}
  BY DEF Missing, ZeusInit
<1>4. TableInv
  BY <1>1, <1>3, FS_EmptySet DEF TableInv, ZeusInit, PageInv, WrittenInv
<1>. QED BY <1>2, <1>4 DEF ZeusInit, SuccessMeansReady

-----------------------------------------------------------------------------
(***************************************************************************)
(* Either board: the one the program is built for moves, the other is not  *)
(* there.                                                                  *)
(***************************************************************************)
BoardsInv == GaiaInv /\ ZeusBase /\ SuccessMeansReady

LEMMA OtherBoard ==
  /\ UNCHANGED gaiaVars => (GaiaInv => GaiaInv')
  /\ UNCHANGED zeusVars => (ZeusBase => ZeusBase') /\ (TableInv => TableInv')
                           /\ (SuccessMeansReady => SuccessMeansReady')
<1>1. ASSUME UNCHANGED gaiaVars, GaiaInv PROVE GaiaInv'
  BY <1>1 DEF gaiaVars, GaiaInv
<1>2. ASSUME UNCHANGED zeusVars
      PROVE  UNCHANGED <<zPc, zTimeout, zHub, zResult, index, page, chipPage, written,
                         dumpLost, zLost>>
  BY <1>2 DEF zeusVars, clockVars, zCounts
<1>3. ASSUME UNCHANGED zeusVars, ZeusBase PROVE ZeusBase'
  BY <1>2, <1>3 DEF ZeusBase, ZeusType, HubInv
<1>4. ASSUME UNCHANGED zeusVars, TableInv PROVE TableInv'
  <2>1. PageInv'
    BY <1>2, <1>4 DEF TableInv, PageInv
  <2>2. WrittenInv'
    BY <1>2, <1>4, TableAsItWas DEF TableInv
  <2>. QED BY <2>1, <2>2 DEF TableInv
<1>5. ASSUME UNCHANGED zeusVars, SuccessMeansReady PROVE SuccessMeansReady'
  BY <1>2, <1>5 DEF SuccessMeansReady
<1>. QED BY <1>1, <1>3, <1>4, <1>5

LEMMA BoardsBegin == Init => BoardsInv /\ TableInv
BY GaiaStart, ZeusBegins DEF Init, BoardsInv

LEMMA BoardsKept ==
  ASSUME BoardsInv, [Next]_vars
  PROVE  BoardsInv' /\ (PreambleHeard /\ TableInv => TableInv')
<1>. USE DEF BoardsInv
<1>1. CASE GaiaNext /\ UNCHANGED zeusVars
  BY <1>1, GaiaKept, OtherBoard
<1>2. CASE ZeusNext /\ UNCHANGED gaiaVars
  BY <1>2, ZeusBaseKept, SuccessKept, TableKept, OtherBoard
<1>3. CASE UNCHANGED vars
  <2>1. UNCHANGED gaiaVars /\ UNCHANGED zeusVars
    BY <1>3 DEF vars
  <2>. QED BY <2>1, OtherBoard
<1>. QED BY <1>1, <1>2, <1>3 DEF Next

LEMMA BoardsAlways == Spec => []BoardsInv
<1>1. Init => BoardsInv
  BY BoardsBegin
<1>2. BoardsInv /\ [Next]_vars => BoardsInv'
  BY BoardsKept
<1>. QED BY <1>1, <1>2, PTL DEF Spec

(* TypeOK of UsbBoards: the driver addresses a hub by one of its two       *)
(* addresses, a hub holds an address and a port setting some routine gives *)
(* it, and neither the retries nor the walk through the register table     *)
(* leave their bounds, on either board and after every restart             *)
(* (bootloader_usb_helpers.c, usb7206c.c, si5341.c).                       *)
THEOREM TypeCorrect == Spec => []TypeOK
<1>1. BoardsInv => TypeOK
  BY GaiaTyped DEF BoardsInv, ZeusBase, ZeusType, TypeOK
<1>. QED BY <1>1, BoardsAlways, PTL

(* SuccessMeansReady of UsbZeus: however many transfers are lost and       *)
(* however often the processor restarts, the routine returns success only  *)
(* with the hub attached, its upstream port set and the register table     *)
(* gone through (_initialize_usb_zeus).                                    *)
THEOREM SuccessReady == Spec => []SuccessMeansReady
<1>1. BoardsInv => SuccessMeansReady
  BY DEF BoardsInv
<1>. QED BY <1>1, BoardsAlways, PTL

(* EntriesOnTheirPage of UsbZeus: while fewer transfers are lost than the  *)
(* preamble of the table has registers, a register is written on its own   *)
(* page or not at all, and each loss costs at most one register, whatever  *)
(* page an earlier program left the generator on (_si5341_i2c_write). With *)
(* the whole preamble lost the driver still takes the generator for the    *)
(* page 0 it starts from, and writes the registers of page 0 wherever the  *)
(* generator is.                                                           *)
THEOREM EntriesPaged ==
  ASSUME PreambleHeard
  PROVE  Spec => []EntriesOnTheirPage
<1>1. Init => BoardsInv /\ TableInv
  BY BoardsBegin
<1>2. BoardsInv /\ TableInv /\ [Next]_vars => (BoardsInv /\ TableInv)'
  BY BoardsKept
<1>3. BoardsInv /\ TableInv => EntriesOnTheirPage
  BY DEF TableInv, WrittenInv, EntriesOnTheirPage
<1>. QED BY <1>1, <1>2, <1>3, PTL DEF Spec

(* ConfiguredApart of UsbGaia: however often the processor restarts or the *)
(* application recovers from standby, however long either hub takes to     *)
(* come up, and whatever cables come and go, two successful                *)
(* initialisations without a loss on the bus leave each hub with its own   *)
(* address and its own settings (_initialize_usb1_gaia,                    *)
(* _initialize_usb0_gaia, _detect_cable_change_gaia).  The one exception   *)
(* is part of the property: after a standby, which unlike a start puts no  *)
(* hub in reset, hub 0 may answer for a hub 1 that is not up.              *)
THEOREM HubsApart == Spec => []ConfiguredApart
<1>1. Init => BoardsInv /\ ApartInv
  BY BoardsBegin, ApartBegins DEF Init
<1>2. BoardsInv /\ ApartInv /\ [Next]_vars => (BoardsInv /\ ApartInv)'
  <2>. SUFFICES ASSUME BoardsInv, ApartInv, [Next]_vars
                PROVE  BoardsInv' /\ ApartInv'
    OBVIOUS
  <2>1. BoardsInv' /\ GaiaInv
    BY BoardsKept DEF BoardsInv
  <2>2. CASE GaiaNext
    BY <2>1, <2>2, ApartKept
  <2>3. CASE UNCHANGED gaiaVars
    BY <2>1, <2>3, NothingKept DEF gaiaVars, counts
  <2>. QED BY <2>1, <2>2, <2>3 DEF Next, vars
<1>3. BoardsInv /\ ApartInv => ConfiguredApart
  BY ApartMeans DEF BoardsInv
<1>. QED BY <1>1, <1>2, <1>3, PTL DEF Spec

=============================================================================
