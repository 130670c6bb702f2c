-------------------------- MODULE BootloaderProofs --------------------------
(***************************************************************************)
(* Proofs about Bootloader for every number of images, blocks and power    *)
(* losses.  Two results:                                                   *)
(*   - TypeCorrect: the type invariant, which includes that the bootloader *)
(*     never jumps through apps[APP_PARTITION_NONE];                       *)
(*   - ContextKept: with hosts that end every transfer, no power loss at   *)
(*     any moment destroys both copies of the boot context.                *)
(***************************************************************************)
EXTENDS Bootloader, TLAPS

(* The context has an entry other than what a damaged area reads as.       *)
Proper(c) == \E p \in Parts : c.apps[p] # Junk

(* A context with the crc of an application names a current partition.     *)
PartKnown(c) == (\E p \in Parts : c.apps[p] \in Contents) => c.part \in Parts

StoredOK ==
  /\ \A a \in InfoAreas : CrcOk(flash[a]) => Proper(flash[a]) /\ PartKnown(flash[a])
  /\ \A i \in 1..Len(job) :
       job[i].val # Blank =>
         job[i].val \in Ctxts /\ Proper(job[i].val) /\ PartKnown(job[i].val)

RamOK ==
  /\ PartKnown(ram) /\ PartKnown(backup)
  /\ pc = "loop" => ram.part \in Parts
  /\ pc = "app" /\ mainPart \in Parts => ram.part \in Parts
  /\ pc \in {"verify1", "app"} /\ ram.part \in Parts => Proper(ram)
  /\ half => Busy /\ job[1].val # Blank
  /\ pc \in {"bootinfo", "hung"} => ~Busy
  /\ pc = "bootinfo" => seen = Idle

(* What _initialize_bootinfo has in its locals once it has read an area.   *)
SeenOK ==
  /\ pc \in {"bootinfob", "sync"} /\ seen.bi =>
       CrcOk(flash["bootinfo"]) /\ ram = flash["bootinfo"]
  /\ pc = "bootinfob" => ~seen.bb
  /\ pc = "sync" /\ seen.bb =>
       CrcOk(flash["bootinfob"]) /\ backup = flash["bootinfob"]
  /\ pc = "bootinfob" /\ Busy =>
       ~seen.bi /\ seen.blank /\ job = <<Store("bootinfo", InitCtxt)>>
  /\ pc = "sync" /\ Busy =>
       ~seen.bb /\ seen.blank /\ job = <<Store("bootinfob", InitCtxt)>>

IInvType == TypeOK /\ StoredOK /\ RamOK /\ SeenOK

(* The area a pending store does not touch.                                *)
Spare(a) == IF a = "bootinfo" THEN "bootinfob" ELSE "bootinfo"
Pending(a) == \E i \in 1..Len(job) : job[i].area = a

CopiesOK ==
  /\ ContextSurvives
  /\ provisioned /\ Busy => CrcOk(flash[Spare(job[1].area)])
  /\ \A i \in 1..Len(job) :
       job[i].val = Blank => ~provisioned /\ \A j \in 1..Len(job) : job[j].val = Blank
  /\ provisioned /\ pc \in {"select", "loop", "verify0", "verify1", "app", "hung"} =>
       \A a \in InfoAreas : CrcOk(flash[a]) \/ Pending(a)
  /\ inprog => area \in Parts

RecoveryOK ==
  /\ pc = "bootinfob" =>
       /\ provisioned /\ ~seen.bi => CrcOk(flash["bootinfob"])
       /\ ~seen.bi /\ ~seen.blank => ~CrcOk(flash["bootinfo"])
  /\ pc = "sync" =>
       /\ ~seen.bi /\ ~seen.bb /\ ~seen.blank => ~provisioned
       /\ provisioned /\ ~seen.bi /\ ~seen.bb =>
            CrcOk(flash["bootinfo"]) /\ (CrcOk(flash["bootinfob"]) \/ Busy)
       /\ provisioned /\ seen.bi /\ ~seen.bb =>
            backup = JunkCtxt \/ CrcOk(flash["bootinfob"]) \/ Busy

IInvCopies == IInvType /\ CopiesOK /\ RecoveryOK

-----------------------------------------------------------------------------
(***************************************************************************)
(* Contexts                                                                *)
(***************************************************************************)
LEMMA InitCtxtOK ==
  InitCtxt \in Ctxts /\ Proper(InitCtxt) /\ PartKnown(InitCtxt)
BY MarkersAssumption
   DEF InitCtxt, Ctxts, Entries, Proper, PartKnown, Parts, NoPart

LEMMA JunkCtxtOK ==
  JunkCtxt \in Ctxts /\ PartKnown(JunkCtxt) /\ JunkCtxt.part \notin Parts
BY MarkersAssumption
   DEF JunkCtxt, Ctxts, Entries, PartKnown, Parts, NoPart

(* A context is neither of the unreadable areas.                           *)
LEMMA CtxtReadable ==
  ASSUME NEW c \in Ctxts
  PROVE  c \in Infos /\ CrcOk(c) /\ c # Blank
BY MarkersAssumption DEF Infos, CrcOk

LEMMA LoadedOK ==
  ASSUME NEW v \in Infos, CrcOk(v) => PartKnown(v)
  PROVE  Loaded(v) \in Ctxts /\ PartKnown(Loaded(v))
BY JunkCtxtOK DEF Infos, CrcOk, Loaded

LEMMA PartUpdate ==
  ASSUME NEW c \in Ctxts, NEW p \in Parts
  PROVE  /\ [c EXCEPT !.part = p] \in Ctxts
         /\ [c EXCEPT !.part = p].part = p
         /\ PartKnown([c EXCEPT !.part = p])
         /\ Proper(c) => Proper([c EXCEPT !.part = p])
BY DEF Ctxts, PartKnown, Proper, Parts, NoPart

LEMMA EntryUpdate ==
  ASSUME NEW c \in Ctxts, NEW p \in Parts, NEW e \in Entries, c.part \in Parts
  PROVE  /\ [c EXCEPT !.apps[p] = e] \in Ctxts
         /\ [c EXCEPT !.apps[p] = e].part = c.part
         /\ PartKnown([c EXCEPT !.apps[p] = e])
         /\ e # Junk => Proper([c EXCEPT !.apps[p] = e])
BY DEF Ctxts, PartKnown, Proper, Parts, NoPart

LEMMA ContentsOK ==
  /\ Erased \in Contents
  /\ \A i \in Images : Full(i) \in Contents
  /\ \A c \in Contents : c \in Entries /\ c # Junk
  /\ \A c \in Contents : c.intact \in BOOLEAN
<1>1. Erased \in Contents /\ Erased.intact \in BOOLEAN
  BY DEF Erased, Contents
<1>2. \A i \in Images : Full(i) \in Contents
  BY NBlocksAssumption DEF Contents, Programmed, Full
<1>3. \A c \in Contents : c \in Entries /\ c # Junk
  BY MarkersAssumption DEF Entries
<1>4. \A c \in Programmed : c.intact \in BOOLEAN
  BY DEF Programmed
<1> QED
  BY <1>1, <1>2, <1>3, <1>4 DEF Contents

-----------------------------------------------------------------------------
(***************************************************************************)
(* IInvType is inductive: one lemma per group of actions.                  *)
(***************************************************************************)
LEMMA TypeInit == Init => IInvType
<1> SUFFICES ASSUME Init PROVE IInvType
  OBVIOUS
<1> USE DEF Init
<1>1. TypeOK
  <2>1. job \in Seq([area : InfoAreas, val : Infos]) /\ Len(job) <= 2
    OBVIOUS
  <2>2. agreed \subseteq [Parts -> Entries]
    BY InitCtxtOK DEF Ctxts
  <2>3. flash \in [InfoAreas -> Infos] /\ approm \in [Parts -> Contents]
    BY ContentsOK DEF Infos
  <2>4. blk \in 0..NBlocks /\ powerLosses \in 0..MaxPowerLosses
    BY NBlocksAssumption, PowerAssumption
  <2> QED
    BY <2>1, <2>2, <2>3, <2>4, JunkCtxtOK DEF TypeOK, Requests, Steps, Idle, Parts
<1>2. StoredOK
  BY DEF StoredOK, CrcOk
<1>3. RamOK /\ SeenOK
  BY JunkCtxtOK DEF RamOK, SeenOK, Busy
<1> QED
  BY <1>1, <1>2, <1>3 DEF IInvType

(* The store at the head of the job.                                       *)
LEMMA JobHead ==
  ASSUME TypeOK, Busy
  PROVE  /\ Head(job) \in [area : InfoAreas, val : Infos]
         /\ Head(job) = job[1] /\ 1 \in 1..Len(job)
         /\ Tail(job) \in Seq([area : InfoAreas, val : Infos])
         /\ Len(Tail(job)) = Len(job) - 1
         /\ \A i \in 1..Len(Tail(job)) : Tail(job)[i] = job[i + 1] /\ i + 1 \in 1..Len(job)
<1> DEFINE S == [area : InfoAreas, val : Infos]
<1>1. job \in Seq(S) /\ job # <<>>
  BY DEF TypeOK, Busy
<1> HIDE DEF S
<1>2. /\ Head(job) \in S
      /\ Head(job) = job[1] /\ 1 \in 1..Len(job)
      /\ Tail(job) \in Seq(S)
      /\ Len(Tail(job)) = Len(job) - 1
      /\ \A i \in 1..Len(Tail(job)) : Tail(job)[i] = job[i + 1] /\ i + 1 \in 1..Len(job)
  BY <1>1
<1> QED
  BY <1>2 DEF S

LEMMA TypeErase == IInvType /\ EraseStep => IInvType'
<1> SUFFICES ASSUME IInvType, EraseStep PROVE IInvType'
  OBVIOUS
<1> USE DEF IInvType, EraseStep, Busy, bootVars, xferVars, ghostVars, appVars
<1>1. TypeOK'
  <2>1. Head(job) \in [area : InfoAreas, val : Infos]
    BY JobHead
  <2>2. job' \in Seq([area : InfoAreas, val : Infos]) /\ Len(job') <= 2
    BY DEF TypeOK
  <2>3. flash' \in [InfoAreas -> Infos] /\ half' \in BOOLEAN
    BY <2>1 DEF TypeOK, Infos
  <2> QED
    BY <2>2, <2>3 DEF TypeOK
<1>2. StoredOK'
  BY DEF StoredOK, CrcOk, TypeOK
<1>3. RamOK'
  BY DEF RamOK, TypeOK
<1>4. SeenOK'
  BY DEF SeenOK, TypeOK, Store
<1> QED
  BY <1>1, <1>2, <1>3, <1>4

LEMMA TypeProgram == IInvType /\ ProgramStep => IInvType'
<1> SUFFICES ASSUME IInvType, ProgramStep PROVE IInvType'
  OBVIOUS
<1> USE DEF IInvType, ProgramStep, Busy, bootVars, xferVars, appVars
<1>1. TypeOK'
  <2>1. Head(job) \in [area : InfoAreas, val : Infos] /\ Head(job) = job[1]
    BY JobHead
  <2>2. job' \in Seq([area : InfoAreas, val : Infos]) /\ Len(job') <= 2
    BY DEF TypeOK
  <2>3. flash' \in [InfoAreas -> Infos]
    BY <2>1 DEF TypeOK
  <2>4. Head(job).val.apps \in [Parts -> Entries]
    BY <2>1 DEF TypeOK, RamOK, StoredOK, Ctxts
  <2>5. agreed' \subseteq [Parts -> Entries]
    BY <2>4 DEF TypeOK
  <2> QED
    BY <2>2, <2>3, <2>5 DEF TypeOK
<1>2. StoredOK'
  BY DEF StoredOK, RamOK, TypeOK
<1>3. RamOK'
  BY DEF RamOK, TypeOK
<1>4. SeenOK'
  BY DEF SeenOK, TypeOK, Store
<1> QED
  BY <1>1, <1>2, <1>3, <1>4

(* What every step that issues stores has to show about its job.           *)
LEMMA JobOK ==
  ASSUME NEW j, NEW a \in InfoAreas, NEW b \in InfoAreas,
         NEW c \in Ctxts, Proper(c), PartKnown(c),
         \/ j = <<>> \/ j = <<Store(a, c)>>
         \/ j = <<Store(a, c), Store(b, c)>>
         \/ j = <<Store(a, Blank), Store(b, Blank)>>
  PROVE  /\ j \in Seq([area : InfoAreas, val : Infos]) /\ Len(j) <= 2
         /\ \A i \in 1..Len(j) : j[i].val # Blank =>
              j[i].val \in Ctxts /\ Proper(j[i].val) /\ PartKnown(j[i].val)
<1>1. \A d \in InfoAreas : /\ Store(d, c) \in [area : InfoAreas, val : Infos]
                            /\ Store(d, Blank) \in [area : InfoAreas, val : Infos]
                            /\ Store(d, c).val = c /\ Store(d, Blank).val = Blank
  BY DEF Store, Infos
<1> HIDE DEF Store
<1>2. CASE j = <<>>
  BY <1>2
<1>3. CASE j = <<Store(a, c)>>
  BY <1>1, <1>3
<1>4. CASE j = <<Store(a, c), Store(b, c)>>
  BY <1>1, <1>4
<1>5. CASE j = <<Store(a, Blank), Store(b, Blank)>>
  BY <1>1, <1>5
<1> QED
  BY <1>2, <1>3, <1>4, <1>5

LEMMA TypeReadBootinfo == IInvType /\ ReadBootinfo => IInvType'
<1> SUFFICES ASSUME IInvType, ReadBootinfo PROVE IInvType'
  OBVIOUS
<1> USE DEF IInvType, ReadBootinfo, Busy, bootVars, xferVars, ghostVars, appVars, diskVars
<1>1. /\ job' \in Seq([area : InfoAreas, val : Infos]) /\ Len(job') <= 2
      /\ \A i \in 1..Len(job') : job'[i].val # Blank =>
           job'[i].val \in Ctxts /\ Proper(job'[i].val) /\ PartKnown(job'[i].val)
  <2>1. "bootinfo" \in InfoAreas
    BY DEF InfoAreas
  <2> QED
    BY <2>1, JobOK, InitCtxtOK
<1>2. ram' \in Ctxts /\ PartKnown(ram')
  BY InitCtxtOK, LoadedOK DEF TypeOK, StoredOK, InfoAreas
<1>3. TypeOK'
  <2>1. seen' \in [bi : BOOLEAN, bb : BOOLEAN, blank : BOOLEAN]
    BY DEF TypeOK, CrcOk
  <2> QED
    BY <1>1, <1>2, <2>1 DEF TypeOK, Steps
<1>4. StoredOK'
  BY <1>1 DEF StoredOK
<1>5. RamOK'
  BY <1>2 DEF RamOK
<1>6. SeenOK'
  BY DEF SeenOK, RamOK, Idle, Loaded, TypeOK
<1> QED
  BY <1>3, <1>4, <1>5, <1>6

LEMMA TypeReadBackup == IInvType /\ ReadBackup => IInvType'
<1> SUFFICES ASSUME IInvType, ReadBackup PROVE IInvType'
  OBVIOUS
<1> USE DEF IInvType, ReadBackup, Busy, bootVars, xferVars, ghostVars, appVars, diskVars
<1>1. /\ job' \in Seq([area : InfoAreas, val : Infos]) /\ Len(job') <= 2
      /\ \A i \in 1..Len(job') : job'[i].val # Blank =>
           job'[i].val \in Ctxts /\ Proper(job'[i].val) /\ PartKnown(job'[i].val)
  <2>1. "bootinfob" \in InfoAreas
    BY DEF InfoAreas
  <2> QED
    BY <2>1, JobOK, InitCtxtOK
<1>2. backup' \in Ctxts /\ PartKnown(backup')
  BY InitCtxtOK, LoadedOK DEF TypeOK, StoredOK, InfoAreas
<1>3. TypeOK'
  <2>1. seen' \in [bi : BOOLEAN, bb : BOOLEAN, blank : BOOLEAN]
    BY DEF TypeOK, CrcOk
  <2> QED
    BY <1>1, <1>2, <2>1 DEF TypeOK, Steps
<1>4. StoredOK'
  BY <1>1 DEF StoredOK
<1>5. RamOK'
  BY <1>2 DEF RamOK
<1>6. SeenOK'
  BY DEF SeenOK, RamOK, Idle, Loaded, TypeOK
<1> QED
  BY <1>3, <1>4, <1>5, <1>6

LEMMA TypeReconcile == IInvType /\ Reconcile => IInvType'
<1> SUFFICES ASSUME IInvType, Reconcile PROVE IInvType'
  OBVIOUS
<1> USE DEF IInvType, Reconcile, Busy, bootVars, xferVars, ghostVars, appVars, diskVars
<1>1. /\ job' \in Seq([area : InfoAreas, val : Infos]) /\ Len(job') <= 2
      /\ \A i \in 1..Len(job') : job'[i].val # Blank =>
           job'[i].val \in Ctxts /\ Proper(job'[i].val) /\ PartKnown(job'[i].val)
  <2>1. "bootinfo" \in InfoAreas /\ "bootinfob" \in InfoAreas
    BY DEF InfoAreas
  <2>2. CASE ~seen.bi /\ seen.bb
    <3>1. backup \in Ctxts /\ Proper(backup) /\ PartKnown(backup)
      BY <2>1, <2>2 DEF TypeOK, SeenOK, StoredOK
    <3> QED
      BY <2>1, <2>2, <3>1, JobOK DEF RecoveryJob
  <2>3. CASE seen.bi /\ ~seen.bb
    <3>1. ram \in Ctxts /\ Proper(ram) /\ PartKnown(ram)
      BY <2>1, <2>3 DEF TypeOK, SeenOK, StoredOK
    <3> QED
      BY <2>1, <2>3, <3>1, JobOK DEF RecoveryJob
  <2>4. CASE seen.bi = seen.bb
    BY <2>1, <2>4, JobOK, InitCtxtOK DEF RecoveryJob
  <2> QED
    BY <2>2, <2>3, <2>4 DEF TypeOK
<1>2. TypeOK'
  BY <1>1 DEF TypeOK, Steps
<1>3. StoredOK'
  BY <1>1 DEF StoredOK
<1>4. RamOK' /\ SeenOK'
  BY DEF RamOK, SeenOK
<1> QED
  BY <1>2, <1>3, <1>4

LEMMA StateOfType == ASSUME NEW p \in Parts PROVE StateOf(p) \in {-1, 0, 1}
BY DEF StateOf, ValidatePartition

(* A partition is selected for a jump only when the table names one.       *)
LEMMA SelectedOK ==
  ASSUME TypeOK, PartKnown(ram)
  PROVE  Selected.part \in Parts
<1>1. CASE StateOf(0) # 1 \/ StateOf(1) # 1
  BY <1>1 DEF Selected, Parts
<1>2. CASE StateOf(0) = 1 /\ StateOf(1) = 1
  <2>1. 0 \in Parts /\ approm[0] \in Contents /\ ram.apps[0] = approm[0]
    BY <1>2 DEF StateOf, ValidatePartition, TypeOK, Parts
  <2>2. ram.part \in Parts
    BY <2>1 DEF PartKnown
  <2> QED
    BY <1>2, <2>2 DEF Selected, Parts
<1> QED
  BY <1>1, <1>2

LEMMA TypeSelect == IInvType /\ Select => IInvType'
<1> SUFFICES ASSUME IInvType, Select PROVE IInvType'
  OBVIOUS
<1> USE DEF IInvType, Busy
<1>1. Selected.part \in Parts /\ Selected.force \in BOOLEAN
  BY SelectedOK DEF RamOK, Selected, TypeOK
<1>2. UpdateTarget \in Parts
  BY <1>1 DEF UpdateTarget, Parts, Other
<1>3. /\ job = <<>> /\ job' = job /\ half' = half /\ flash' = flash
      /\ approm' = approm /\ backup' = JunkCtxt /\ seen' = Idle
      /\ pc' \in {"loop", "verify0", "hung"}
  BY DEF Select, storeVars, diskVars, JumpTo
<1>4. /\ ram' \in Ctxts /\ PartKnown(ram')
      /\ pc' = "loop" => ram'.part \in Parts
  <2>1. CASE Selected.force
    <3>1. ram \in Ctxts /\ ram' = [ram EXCEPT !.part = UpdateTarget]
      BY <2>1 DEF TypeOK, Select
    <3> QED
      BY <1>2, <3>1, PartUpdate
  <2>2. CASE ~Selected.force
    BY <2>2, JunkCtxtOK DEF Select, JumpTo
  <2> QED
    BY <2>1, <2>2
<1>5. /\ area' \in Parts \cup {BackupArea}
      /\ running' \in Parts /\ mainPart' \in Parts \cup {NoPart}
  BY <1>1, <1>2 DEF Select, JumpTo, TypeOK, Parts, appVars
<1>6. agreed' \subseteq [Parts -> Entries]
  BY DEF Select, TypeOK, CrcOk, Infos, InfoAreas, Ctxts
<1>7. pstate' \in [Parts -> {-1, 0, 1}]
  BY StateOfType DEF Select
<1>8. /\ request' \in Requests /\ force' \in BOOLEAN /\ hadGood' \in BOOLEAN
      /\ UNCHANGED <<inprog, blk, powerLosses, provisioned>>
  BY <1>1 DEF Select, Requests, xferVars
<1>9. TypeOK'
  BY <1>3, <1>4, <1>5, <1>6, <1>7, <1>8, JunkCtxtOK DEF TypeOK, Steps, Idle
<1>10. StoredOK'
  BY <1>3 DEF StoredOK
<1>11. RamOK' /\ SeenOK'
  BY <1>3, <1>4, JunkCtxtOK DEF RamOK, SeenOK
<1> QED
  BY <1>9, <1>10, <1>11

LEMMA TypeTransfer ==
  IInvType /\ (WriteRequest \/ AbortTransfer \/ EndCommand) => IInvType'
<1> SUFFICES ASSUME IInvType, WriteRequest \/ AbortTransfer \/ EndCommand
             PROVE  IInvType'
  OBVIOUS
<1> USE DEF IInvType, Busy, InLoop
<1>1. CASE WriteRequest
  <2> USE <1>1 DEF WriteRequest, storeVars, bootVars, ghostVars, appVars
  <2>1. TypeOK'
    BY ContentsOK, NBlocksAssumption DEF TypeOK, Infos, InfoAreas
  <2>2. StoredOK' /\ RamOK' /\ SeenOK'
    BY DEF StoredOK, RamOK, SeenOK, CrcOk, TypeOK
  <2> QED
    BY <2>1, <2>2
<1>2. CASE AbortTransfer
  <2> USE <1>2 DEF AbortTransfer, ClearTransfer, storeVars, bootVars, ghostVars, appVars, diskVars
  <2>1. TypeOK'
    <3>1. blk' \in 0..NBlocks
      BY NBlocksAssumption
    <3> QED
      BY <3>1 DEF TypeOK
  <2>2. StoredOK' /\ RamOK' /\ SeenOK'
    BY DEF StoredOK, RamOK, SeenOK
  <2> QED
    BY <2>1, <2>2
<1>3. CASE EndCommand
  <2> USE <1>3 DEF EndCommand, ClearTransfer, storeVars, ghostVars, appVars, diskVars
  <2>1. TypeOK'
    <3>1. blk' \in 0..NBlocks
      BY NBlocksAssumption
    <3>2. area' \in Parts \cup {BackupArea}
      BY DEF TypeOK
    <3>3. pstate' \in [Parts -> {-1, 0, 1}]
      BY DEF TypeOK, ValidatePartition
    <3> QED
      BY <3>1, <3>2, <3>3 DEF TypeOK
  <2>2. StoredOK' /\ RamOK' /\ SeenOK'
    BY DEF StoredOK, RamOK, SeenOK
  <2> QED
    BY <2>1, <2>2
<1> QED
  BY <1>1, <1>2, <1>3

LEMMA TypeDataBlock ==
  ASSUME NEW i \in Images, NEW ok \in BOOLEAN, IInvType, DataBlock(i, ok)
  PROVE  IInvType'
<1> USE DEF IInvType, DataBlock, InLoop, Busy, storeVars, bootVars, ghostVars, appVars
<1>1. blk + 1 \in 1..NBlocks
  BY NBlocksAssumption DEF TypeOK
<1>2. approm' \in [Parts -> Contents]
  <2>1. CASE area \in Parts
    <3>1. approm[area].intact \in BOOLEAN
      BY <2>1, ContentsOK DEF TypeOK
    <3>2. [img |-> i, n |-> blk + 1, intact |-> approm[area].intact /\ ok] \in Contents
      BY <1>1, <3>1 DEF Contents, Programmed
    <3> QED
      BY <2>1, <3>2 DEF TypeOK
  <2> QED
    BY <2>1 DEF TypeOK
<1>3. flash' \in [InfoAreas -> Infos] /\ \A a \in InfoAreas : CrcOk(flash'[a]) => flash'[a] = flash[a]
  BY DEF TypeOK, Infos, CrcOk
<1>4. TypeOK'
  BY <1>1, <1>2, <1>3 DEF TypeOK
<1>5. StoredOK' /\ RamOK' /\ SeenOK'
  BY <1>3 DEF StoredOK, RamOK, SeenOK
<1> QED
  BY <1>4, <1>5

LEMMA TypeCrc == IInvType /\ CrcCommand => IInvType'
<1> SUFFICES ASSUME IInvType, CrcCommand PROVE IInvType'
  OBVIOUS
<1> USE DEF IInvType, InLoop, Busy
<1> DEFINE crc == IF area \in Parts THEN approm[area] ELSE Junk
           new == [ram EXCEPT !.apps[ram.part] = crc]
<1>1. ram.part \in Parts /\ ram \in Ctxts
  BY DEF CrcCommand, RamOK, TypeOK
<1>2. crc \in Entries
  BY ContentsOK DEF TypeOK, Entries
<1>3. /\ new \in Ctxts /\ new.part \in Parts /\ PartKnown(new)
      /\ crc # Junk => Proper(new)
  BY <1>1, <1>2, EntryUpdate
<1>4. IsFull(crc) => crc # Junk
  BY ContentsOK DEF IsFull
<1> HIDE DEF crc
<1>5. /\ ram' = new /\ inprog' = FALSE /\ blk' = 0
      /\ \/ /\ IsFull(crc) /\ job' = UpdateBootinfo(new) /\ area' = BackupArea
            /\ agreed' = agreed \cup {new.apps}
         \/ UNCHANGED <<job, area, agreed>>
      /\ UNCHANGED <<flash, approm, request, pc, half, backup, seen, force, pstate,
                    appVars, powerLosses, provisioned, hadGood>>
      /\ job = <<>> /\ pc = "loop"
  BY DEF crc, CrcCommand, ClearTransfer, CrcMatches, diskVars
<1> HIDE DEF new
<1>6. /\ job' \in Seq([area : InfoAreas, val : Infos]) /\ Len(job') <= 2
      /\ \A i \in 1..Len(job') : job'[i].val # Blank =>
           job'[i].val \in Ctxts /\ Proper(job'[i].val) /\ PartKnown(job'[i].val)
  <2>1. "bootinfo" \in InfoAreas /\ "bootinfob" \in InfoAreas
    BY DEF InfoAreas
  <2>2. CASE UNCHANGED job
    BY <1>5, <2>2, <2>1, JobOK, InitCtxtOK
  <2>3. CASE IsFull(crc) /\ job' = UpdateBootinfo(new)
    BY <1>3, <1>4, <2>1, <2>3, JobOK DEF UpdateBootinfo
  <2> QED
    BY <1>5, <2>2, <2>3
<1>7. agreed' \subseteq [Parts -> Entries]
  BY <1>3, <1>5 DEF TypeOK, Ctxts
<1>8. TypeOK'
  <2>1. blk' \in 0..NBlocks /\ ram' \in Ctxts /\ inprog' = FALSE
    BY <1>3, <1>5, NBlocksAssumption
  <2>2. area' \in Parts \cup {BackupArea}
    BY <1>5 DEF TypeOK
  <2>3. /\ UNCHANGED <<flash, approm, request, pc, half, backup, seen, force, pstate,
                      appVars, powerLosses, provisioned, hadGood>>
    BY <1>5
  <2> QED
    BY <1>6, <1>7, <2>1, <2>2, <2>3 DEF TypeOK, appVars
<1>9. StoredOK'
  BY <1>5, <1>6 DEF StoredOK
<1>10. RamOK' /\ SeenOK'
  BY <1>3, <1>5 DEF RamOK, SeenOK, appVars
<1> QED
  BY <1>8, <1>9, <1>10

(* A restart keeps only what is in flash, and shared SRAM.                 *)
LEMMA TypeRestart ==
  ASSUME IInvType, Restart,
         flash' \in [InfoAreas -> Infos],
         \A a \in InfoAreas : CrcOk(flash'[a]) => flash'[a] = flash[a],
         approm' \in [Parts -> Contents],
         request' \in Requests, powerLosses' \in 0..MaxPowerLosses,
         UNCHANGED <<provisioned, agreed, hadGood>>
  PROVE  IInvType'
<1> USE DEF IInvType, Restart, ClearTransfer, Busy
<1>1. TypeOK'
  <2>1. /\ blk' \in 0..NBlocks /\ running' \in Parts /\ mainPart' \in Parts
        /\ pstate' \in [Parts -> {-1, 0, 1}]
    BY NBlocksAssumption DEF Parts
  <2>2. job' \in Seq([area : InfoAreas, val : Infos]) /\ Len(job') <= 2
    OBVIOUS
  <2> QED
    BY <2>1, <2>2, JunkCtxtOK DEF TypeOK, Steps, Idle, Parts
<1>2. StoredOK' /\ RamOK' /\ SeenOK'
  BY JunkCtxtOK DEF StoredOK, RamOK, SeenOK
<1> QED
  BY <1>1, <1>2

LEMMA TypeHostControl ==
  ASSUME IInvType, (\E p \in Parts : SetRom(p)) \/ BootCommand \/ ResetCommand
  PROVE  IInvType'
<1> USE DEF IInvType, Busy, InLoop
<1>1. ASSUME NEW p \in Parts, SetRom(p) PROVE IInvType'
  <2>1. ram' \in Ctxts /\ ram'.part = p /\ PartKnown(ram')
    BY <1>1, PartUpdate DEF SetRom, TypeOK
  <2>2. /\ blk' \in 0..NBlocks /\ inprog' = FALSE /\ area' = p
        /\ UNCHANGED <<diskVars, request, pc, storeVars, backup, seen, force, pstate,
                      appVars, ghostVars>>
        /\ pc = "loop" /\ ~Busy
    BY <1>1, NBlocksAssumption DEF SetRom, ClearTransfer
  <2>3. TypeOK'
    BY <2>1, <2>2 DEF TypeOK, diskVars, storeVars, ghostVars, appVars
  <2>4. StoredOK' /\ RamOK' /\ SeenOK'
    BY <2>1, <2>2 DEF StoredOK, RamOK, SeenOK, diskVars, storeVars
  <2> QED
    BY <2>3, <2>4
<1>2. CASE BootCommand
  <2>1. /\ blk' \in 0..NBlocks /\ inprog' = FALSE
        /\ running' \in Parts /\ mainPart' \in Parts
        /\ ram' = JunkCtxt /\ pc' \in {"verify0", "hung"}
        /\ UNCHANGED <<diskVars, request, storeVars, backup, seen, force, pstate,
                      area, ghostVars>>
        /\ pc = "loop" /\ job = <<>>
    BY <1>2, NBlocksAssumption DEF BootCommand, ClearTransfer, JumpTo, RamOK, Parts
  <2>2. TypeOK'
    BY <2>1, JunkCtxtOK DEF TypeOK, Steps, diskVars, storeVars, ghostVars, appVars
  <2>3. StoredOK' /\ RamOK' /\ SeenOK'
    BY <2>1, JunkCtxtOK DEF StoredOK, RamOK, SeenOK, diskVars, storeVars
  <2> QED
    BY <2>2, <2>3
<1>3. CASE ResetCommand
  BY <1>3, TypeRestart DEF ResetCommand, diskVars, ghostVars, appVars, TypeOK
<1> QED
  BY <1>1, <1>2, <1>3

LEMMA TypeVerify ==
  ASSUME NEW p \in Parts, IInvType, VerifyPartition(p)
  PROVE  IInvType'
<1> USE DEF IInvType, Busy
<1> DEFINE c == Loaded(flash["bootinfo"])
           fixed == [c EXCEPT !.apps[p] = approm[p]]
<1>1. "bootinfo" \in InfoAreas
  BY DEF InfoAreas
<1>2. c \in Ctxts /\ PartKnown(c) /\ (c.part \in Parts => Proper(c))
  BY <1>1, LoadedOK, JunkCtxtOK DEF TypeOK, StoredOK, Loaded
<1>3. approm[p] \in Contents
  BY DEF TypeOK
<1>4. c.part = p => /\ fixed \in Ctxts /\ fixed.part = p
                    /\ PartKnown(fixed) /\ Proper(fixed)
  BY <1>2, <1>3, EntryUpdate, ContentsOK
<1> HIDE DEF fixed
<1>5. /\ \/ ram' = c /\ job' = <<>> /\ agreed' = agreed
         \/ /\ c.part = p /\ ram' = fixed /\ job' = <<Store("bootinfo", fixed)>>
            /\ agreed' = agreed \cup {fixed.apps}
      /\ \/ mainPart' = mainPart /\ pc' = "verify1"
         \/ mainPart' = PartitionOfPc(ram'.part)
      /\ UNCHANGED <<diskVars, request, half, backup, seen, force, pstate, area,
                    xferVars, running, powerLosses, provisioned, hadGood>>
      /\ pc \in {"verify0", "verify1"} /\ pc' \in {"verify1", "app"} /\ job = <<>>
  BY DEF VerifyPartition, fixed, Parts
<1> HIDE DEF c
<1>6. ram' \in Ctxts /\ PartKnown(ram') /\ (ram'.part \in Parts => Proper(ram'))
  BY <1>2, <1>4, <1>5
<1>7. /\ job' \in Seq([area : InfoAreas, val : Infos]) /\ Len(job') <= 2
      /\ \A i \in 1..Len(job') : job'[i].val # Blank =>
           job'[i].val \in Ctxts /\ Proper(job'[i].val) /\ PartKnown(job'[i].val)
  BY <1>1, <1>4, <1>5, JobOK, InitCtxtOK
<1>8. agreed' \subseteq [Parts -> Entries]
  BY <1>4, <1>5 DEF TypeOK, Ctxts
<1>9. /\ mainPart' \in Parts \cup {NoPart}
      /\ pc' = "app" /\ mainPart' \in Parts => ram'.part \in Parts
  BY <1>5, <1>6 DEF PartitionOfPc, Ctxts, TypeOK
<1>10. TypeOK'
  BY <1>5, <1>6, <1>7, <1>8, <1>9 DEF TypeOK, Steps, diskVars, xferVars
<1>11. StoredOK' /\ RamOK' /\ SeenOK'
  BY <1>5, <1>6, <1>7, <1>9 DEF StoredOK, RamOK, SeenOK, diskVars
<1> QED
  BY <1>10, <1>11

LEMMA TypeRequest ==
  ASSUME NEW r \in Requests, IInvType, RequestWrite(r)
  PROVE  IInvType'
<1> USE DEF IInvType, Busy
<1>1. "bootinfo" \in InfoAreas
  BY DEF InfoAreas
<1>2. /\ \/ UNCHANGED <<ram, job>>
         \/ /\ ram.part \in Parts /\ ram' = SwapPartitions(ram)
            /\ job' = <<Store("bootinfo", ram')>>
      /\ \/ UNCHANGED <<ram, mainPart>>
         \/ ram.part \in Parts /\ mainPart' = ram'.part
      /\ UNCHANGED <<diskVars, pc, half, backup, seen, force, pstate, area,
                    xferVars, running, ghostVars>>
      /\ request' = r /\ pc = "app" /\ job = <<>>
  BY DEF RequestWrite, Parts, RamOK
<1>3. /\ ram' \in Ctxts /\ PartKnown(ram')
      /\ ram'.part \in Parts => Proper(ram')
  <2>1. CASE UNCHANGED ram
    BY <1>2, <2>1 DEF TypeOK, RamOK
  <2>2. CASE ram.part \in Parts /\ ram' = SwapPartitions(ram)
    <3>1. ram \in Ctxts /\ Proper(ram)
      BY <1>2, <2>2 DEF TypeOK, RamOK
    <3>2. PICK q \in Parts : ram' = [ram EXCEPT !.part = q]
      BY <2>2 DEF SwapPartitions, Parts
    <3> QED
      BY <3>1, <3>2, PartUpdate
  <2> QED
    BY <1>2, <2>1, <2>2
<1>4. /\ job' \in Seq([area : InfoAreas, val : Infos]) /\ Len(job') <= 2
      /\ \A i \in 1..Len(job') : job'[i].val # Blank =>
           job'[i].val \in Ctxts /\ Proper(job'[i].val) /\ PartKnown(job'[i].val)
  <2>1. CASE job' = <<>>
    BY <1>1, <2>1, JobOK, InitCtxtOK
  <2>2. CASE ram.part \in Parts /\ ram' = SwapPartitions(ram) /\ job' = <<Store("bootinfo", ram')>>
    <3>1. ram'.part \in Parts
      BY <2>2 DEF SwapPartitions, Parts, TypeOK, Ctxts
    <3> QED
      BY <1>1, <1>3, <2>2, <3>1, JobOK
  <2> QED
    BY <1>2, <2>1, <2>2
<1>5. /\ mainPart' \in Parts \cup {NoPart}
      /\ mainPart' \in Parts => ram'.part \in Parts
  BY <1>2, <1>3 DEF TypeOK, RamOK, Ctxts
<1>6. TypeOK'
  BY <1>2, <1>3, <1>4, <1>5 DEF TypeOK, diskVars, xferVars, ghostVars
<1>7. StoredOK' /\ RamOK' /\ SeenOK'
  BY <1>2, <1>3, <1>4, <1>5 DEF StoredOK, RamOK, SeenOK, diskVars
<1> QED
  BY <1>6, <1>7

LEMMA TypeReset == IInvType /\ (AppReset \/ PowerLoss) => IInvType'
<1> SUFFICES ASSUME IInvType, AppReset \/ PowerLoss PROVE IInvType'
  OBVIOUS
<1>1. CASE AppReset
  <2>1. Restart /\ request' \in Requests /\ UNCHANGED <<diskVars, ghostVars>>
    BY <1>1 DEF AppReset, Requests, IInvType, TypeOK
  <2> QED
    BY <2>1, TypeRestart DEF diskVars, ghostVars, appVars, IInvType, TypeOK
<1>2. CASE PowerLoss
  <2>1. /\ Restart /\ request' \in Requests /\ UNCHANGED <<provisioned, agreed, hadGood>>
        /\ powerLosses' \in 0..MaxPowerLosses
    BY <1>2, PowerAssumption DEF PowerLoss, IInvType, TypeOK
  <2>2. /\ flash' \in [InfoAreas -> Infos]
        /\ \A a \in InfoAreas : CrcOk(flash'[a]) => flash'[a] = flash[a]
    BY <1>2 DEF PowerLoss, IInvType, TypeOK, Infos, CrcOk, diskVars
  <2>3. approm' \in [Parts -> Contents]
    <3>1. CASE UNCHANGED approm
      BY <3>1 DEF IInvType, TypeOK
    <3>2. CASE /\ area \in Parts /\ approm[area] # Erased
               /\ approm' = [approm EXCEPT ![area].intact = FALSE]
      <4>1. approm[area] \in Programmed
        BY <3>2 DEF IInvType, TypeOK, Contents
      <4>2. [approm[area] EXCEPT !.intact = FALSE] \in Programmed
        BY <4>1 DEF Programmed
      <4> QED
        BY <3>2, <4>2 DEF IInvType, TypeOK, Contents
    <3> QED
      BY <1>2, <3>1, <3>2 DEF PowerLoss, diskVars
  <2> QED
    BY <2>1, <2>2, <2>3, TypeRestart
<1> QED
  BY <1>1, <1>2

LEMMA TypeAppRestart ==
  ASSUME IInvType, AppRestart
  PROVE  IInvType'
<1>1. /\ ram' = JunkCtxt /\ mainPart' \in Parts
      /\ pc' = "verify0" /\ job = <<>> /\ ~half
      /\ UNCHANGED <<flash, approm, request, job, half, backup, seen, force,
                    pstate, area, inprog, blk, running, powerLosses, provisioned,
                    agreed, hadGood>>
  BY DEF AppRestart, Busy, Parts, diskVars, storeVars, xferVars, ghostVars,
         IInvType, RamOK, TypeOK
<1>2. TypeOK'
  BY <1>1, JunkCtxtOK DEF IInvType, TypeOK, Steps
<1>3. StoredOK' /\ RamOK' /\ SeenOK'
  BY <1>1, JunkCtxtOK DEF IInvType, StoredOK, RamOK, SeenOK, Busy
<1> QED
  BY <1>2, <1>3 DEF IInvType

LEMMA TypeStutter == IInvType /\ UNCHANGED vars => IInvType'
BY DEF IInvType, TypeOK, StoredOK, RamOK, SeenOK, vars, diskVars, storeVars,
       bootVars, xferVars, ghostVars, appVars, Busy

LEMMA TypeNext == IInvType /\ [Next]_vars => IInvType'
<1> SUFFICES ASSUME IInvType, [Next]_vars PROVE IInvType'
  OBVIOUS
<1> QED
  BY TypeErase, TypeProgram, TypeReadBootinfo, TypeReadBackup, TypeReconcile,
     TypeSelect, TypeTransfer, TypeDataBlock, TypeCrc, TypeHostControl,
     TypeVerify, TypeRequest, TypeAppRestart, TypeReset, TypeStutter DEF Next

(* Every reachable state has its types.  The part that is not immediate:   *)
(* no jump and no crc update goes through apps[APP_PARTITION_NONE], since  *)
(* a context with the crc of an application always names a partition.      *)
THEOREM TypeCorrect == Spec => []TypeOK
<1>1. Init => IInvType
  BY TypeInit
<1>2. IInvType /\ [Next]_vars => IInvType'
  BY TypeNext
<1>3. IInvType => TypeOK
  BY DEF IInvType
<1> QED
  BY <1>1, <1>2, <1>3, PTL DEF Spec

-----------------------------------------------------------------------------
(***************************************************************************)
(* Both copies of the boot context.  The argument: a store erases one area *)
(* only while the other holds a context, and a boot reaches the command    *)
(* loop or the application with both areas holding one, or on their way.   *)
(***************************************************************************)
LEMMA CopiesInit == Init => CopiesOK /\ RecoveryOK
BY DEF Init, CopiesOK, RecoveryOK, ContextSurvives, Busy, Idle

LEMMA CopiesErase == IInvCopies /\ EraseStep => CopiesOK' /\ RecoveryOK'
<1> SUFFICES ASSUME IInvCopies, EraseStep PROVE CopiesOK' /\ RecoveryOK'
  OBVIOUS
<1> USE DEF IInvCopies, IInvType
<1>1. /\ Busy /\ ~half /\ job[1].area \in InfoAreas /\ 1 \in 1..Len(job)
      /\ flash' = [flash EXCEPT ![job[1].area] = Blank]
      /\ UNCHANGED <<approm, request, pc, bootVars, xferVars, appVars, ghostVars>>
  BY JobHead DEF EraseStep
<1>2. \A a \in InfoAreas : CrcOk(flash[a]) => a = job[1].area \/ CrcOk(flash'[a])
  BY <1>1 DEF TypeOK
<1>3. provisioned => /\ CrcOk(flash'[Spare(job[1].area)])
                     /\ job' = job /\ \A i \in 1..Len(job) : job[i].val # Blank
  <2>1. provisioned => job[1].val # Blank /\ \A i \in 1..Len(job) : job[i].val # Blank
    BY <1>1 DEF CopiesOK
  <2> QED
    BY <1>1, <2>1, JobHead DEF CopiesOK, EraseStep, Spare, TypeOK, InfoAreas
<1>4. \A i \in 1..Len(job') : job'[i].val = Blank =>
         ~provisioned /\ \A j \in 1..Len(job') : job'[j].val = Blank
  BY JobHead DEF EraseStep, CopiesOK
<1>5. CopiesOK'
  BY <1>1, <1>2, <1>3, <1>4
     DEF CopiesOK, ContextSurvives, Busy, Pending, Spare, InfoAreas, bootVars, xferVars, ghostVars
<1>6. pc \in {"bootinfob", "sync"} => job' = job
  BY InitCtxtOK, CtxtReadable, JobHead DEF SeenOK, EraseStep, Store
<1>7. RecoveryOK'
  BY <1>1, <1>2, <1>3, <1>6, InitCtxtOK
     DEF RecoveryOK, SeenOK, Busy, Spare, InfoAreas, bootVars, ghostVars, CrcOk, Store, TypeOK
<1> QED
  BY <1>5, <1>7

LEMMA CopiesProgram == IInvCopies /\ ProgramStep => CopiesOK' /\ RecoveryOK'
<1> SUFFICES ASSUME IInvCopies, ProgramStep PROVE CopiesOK' /\ RecoveryOK'
  OBVIOUS
<1> USE DEF IInvCopies, IInvType
<1>1. /\ Busy /\ half /\ job[1].area \in InfoAreas /\ 1 \in 1..Len(job)
      /\ flash' = [flash EXCEPT ![job[1].area] = job[1].val]
      /\ job' = Tail(job) /\ Len(job') = Len(job) - 1
      /\ \A i \in 1..Len(job') : job'[i] = job[i + 1] /\ i + 1 \in 1..Len(job)
      /\ UNCHANGED <<approm, request, pc, bootVars, xferVars, appVars, powerLosses, hadGood>>
      /\ provisioned' = (provisioned \/ \A a \in InfoAreas : CrcOk(flash'[a]))
  BY JobHead DEF ProgramStep
<1>2. job[1].val # Blank /\ job[1].val \in Ctxts /\ CrcOk(job[1].val)
  BY <1>1, CtxtReadable DEF RamOK, StoredOK
<1>3. CrcOk(flash'[job[1].area]) /\ \A a \in InfoAreas : CrcOk(flash[a]) => CrcOk(flash'[a])
  BY <1>1, <1>2 DEF TypeOK
<1>4. \A i \in 1..Len(job') : job'[i].val # Blank
  BY <1>1, <1>2 DEF CopiesOK
<1>5. provisioned' => \A a \in InfoAreas : CrcOk(flash'[a])
  BY <1>1, <1>3 DEF CopiesOK, Spare, InfoAreas
<1>6. CopiesOK'
  <2>2. provisioned' /\ Busy' => CrcOk(flash'[Spare(job'[1].area)])
    BY <1>5 DEF Spare, InfoAreas
  <2>3. ContextSurvives'
    BY <1>5 DEF ContextSurvives, InfoAreas
  <2> QED
    BY <1>1, <1>4, <1>5, <2>2, <2>3 DEF CopiesOK, bootVars, xferVars
<1>7. RecoveryOK'
  BY <1>1, <1>3, <1>5 DEF RecoveryOK, SeenOK, InfoAreas, bootVars, Store
<1> QED
  BY <1>6, <1>7

LEMMA CopiesRead ==
  IInvCopies /\ (ReadBootinfo \/ ReadBackup) => CopiesOK' /\ RecoveryOK'
<1> SUFFICES ASSUME IInvCopies, ReadBootinfo \/ ReadBackup
             PROVE  CopiesOK' /\ RecoveryOK'
  OBVIOUS
<1> USE DEF IInvCopies, IInvType
<1>1. CASE ReadBootinfo
  <2>1. /\ job = <<>> /\ pc = "bootinfo" /\ pc' = "bootinfob" /\ ~seen.bi /\ ~seen.blank
        /\ \/ /\ flash["bootinfo"] = Blank /\ job' = <<Store("bootinfo", InitCtxt)>>
              /\ ~seen'.bi /\ seen'.blank
           \/ job' = <<>> /\ seen'.bi = CrcOk(flash["bootinfo"]) /\ ~seen'.blank
        /\ UNCHANGED <<diskVars, ghostVars, area, inprog>>
    BY <1>1 DEF ReadBootinfo, Busy, RamOK, Idle, TypeOK, xferVars
  <2>2. ~CrcOk(flash["bootinfo"]) /\ provisioned => CrcOk(flash["bootinfob"])
    BY DEF CopiesOK, ContextSurvives, InfoAreas
  <2>3. CopiesOK'
    <3>1. CASE job' = <<>>
      BY <2>1, <3>1 DEF CopiesOK, ContextSurvives, Busy, diskVars, ghostVars
    <3>2. CASE flash["bootinfo"] = Blank /\ job' = <<Store("bootinfo", InitCtxt)>>
      <4>1. /\ Len(job') = 1 /\ job'[1].area = "bootinfo" /\ job'[1].val # Blank
            /\ ~CrcOk(flash["bootinfo"])
        BY <3>2, InitCtxtOK, CtxtReadable DEF Store, CrcOk
      <4> QED
        BY <2>1, <2>2, <4>1
           DEF CopiesOK, ContextSurvives, Busy, Spare, diskVars, ghostVars
    <3> QED
      BY <2>1, <3>1, <3>2
  <2>4. RecoveryOK'
    BY <2>1, <2>2 DEF RecoveryOK, diskVars, ghostVars, CrcOk
  <2> QED
    BY <2>3, <2>4
<1>2. CASE ReadBackup
  <2>1. /\ job = <<>> /\ pc = "bootinfob" /\ pc' = "sync" /\ ~seen.bb /\ seen'.bi = seen.bi
        /\ \/ /\ flash["bootinfob"] = Blank /\ job' = <<Store("bootinfob", InitCtxt)>>
              /\ ~seen'.bb /\ seen'.blank
           \/ /\ job' = <<>> /\ seen'.bb = CrcOk(flash["bootinfob"])
              /\ seen'.blank = seen.blank /\ backup' = Loaded(flash["bootinfob"])
        /\ UNCHANGED <<diskVars, ghostVars, area, inprog, ram>>
    BY <1>2 DEF ReadBackup, Busy, SeenOK, TypeOK, xferVars
  <2>2. /\ ~CrcOk(flash["bootinfob"]) /\ provisioned => CrcOk(flash["bootinfo"])
        /\ ~CrcOk(flash["bootinfo"]) /\ provisioned => CrcOk(flash["bootinfob"])
    BY DEF CopiesOK, ContextSurvives, InfoAreas
  <2>3. CopiesOK'
    <3>1. CASE job' = <<>>
      BY <2>1, <3>1 DEF CopiesOK, ContextSurvives, Busy, diskVars, ghostVars
    <3>2. CASE flash["bootinfob"] = Blank /\ job' = <<Store("bootinfob", InitCtxt)>>
      <4>1. /\ Len(job') = 1 /\ job'[1].area = "bootinfob" /\ job'[1].val # Blank
            /\ ~CrcOk(flash["bootinfob"])
        BY <3>2, InitCtxtOK, CtxtReadable DEF Store, CrcOk
      <4> QED
        BY <2>1, <2>2, <4>1
           DEF CopiesOK, ContextSurvives, Busy, Spare, diskVars, ghostVars
    <3> QED
      BY <2>1, <3>1, <3>2
  <2>4. RecoveryOK'
    <3>1. flash' = flash /\ provisioned' = provisioned
      BY <2>1 DEF diskVars, ghostVars
    <3>2. /\ provisioned /\ ~seen.bi => CrcOk(flash["bootinfob"])
          /\ ~seen.bi /\ ~seen.blank => ~CrcOk(flash["bootinfo"])
      BY <2>1 DEF RecoveryOK
    <3>3. CASE flash["bootinfob"] = Blank /\ job' = <<Store("bootinfob", InitCtxt)>> /\ seen'.blank
      <4>1. ~CrcOk(flash["bootinfob"]) /\ job' # <<>>
        BY <3>3 DEF CrcOk
      <4> QED
        BY <2>1, <3>1, <3>2, <3>3, <4>1 DEF RecoveryOK, Busy
    <3>4. CASE /\ seen'.bb = CrcOk(flash["bootinfob"]) /\ seen'.blank = seen.blank
               /\ backup' = Loaded(flash["bootinfob"])
      <4>1. ~seen'.bb => backup' = JunkCtxt /\ ~CrcOk(flash["bootinfob"])
        BY <3>4 DEF Loaded
      <4> QED
        BY <2>1, <2>2, <3>1, <3>2, <3>4, <4>1 DEF RecoveryOK
    <3> QED
      BY <2>1, <3>3, <3>4
  <2> QED
    BY <2>3, <2>4
<1> QED
  BY <1>1, <1>2

LEMMA CopiesReconcile == IInvCopies /\ Reconcile => CopiesOK' /\ RecoveryOK'
<1> SUFFICES ASSUME IInvCopies, Reconcile PROVE CopiesOK' /\ RecoveryOK'
  OBVIOUS
<1> USE DEF IInvCopies, IInvType
<1>1. /\ job = <<>> /\ pc = "sync" /\ pc' = "select" /\ job' = RecoveryJob
      /\ UNCHANGED <<diskVars, ghostVars, area, inprog>>
  BY DEF Reconcile, Busy, bootVars, xferVars
<1>2. RecoveryOK'
  BY <1>1 DEF RecoveryOK
<1>3. CASE ~seen.bi /\ seen.bb
  <2>1. CrcOk(flash["bootinfob"]) /\ backup \in Ctxts /\ backup # Blank
    BY <1>1, <1>3, CtxtReadable DEF SeenOK, TypeOK
  <2>2. /\ Len(job') \in {1, 2}
        /\ \A i \in 1..Len(job') : job'[i].area = "bootinfo" /\ job'[i].val # Blank
        /\ job'[1].area = "bootinfo"
    BY <1>1, <1>3, <2>1 DEF RecoveryJob, Store
  <2> QED
    BY <1>1, <1>2, <2>1, <2>2
       DEF CopiesOK, ContextSurvives, Busy, Pending, Spare, InfoAreas, diskVars, ghostVars
<1>4. CASE seen.bi /\ ~seen.bb
  <2>1. /\ CrcOk(flash["bootinfo"]) /\ ram \in Ctxts /\ ram # Blank /\ Proper(ram)
    BY <1>1, <1>4, CtxtReadable DEF SeenOK, TypeOK, StoredOK, InfoAreas
  <2>2. CASE CtxtEqual(backup, ram)
    <3>1. backup # JunkCtxt
      BY <2>1, <2>2 DEF CtxtEqual, Proper, JunkCtxt, Parts
    <3>2. provisioned => CrcOk(flash["bootinfob"])
      BY <1>1, <1>4, <3>1 DEF RecoveryOK, Busy
    <3>3. job' = <<>>
      BY <1>1, <1>4, <2>2 DEF RecoveryJob
    <3> QED
      BY <1>1, <1>2, <2>1, <3>2, <3>3
         DEF CopiesOK, ContextSurvives, Busy, Pending, InfoAreas, diskVars, ghostVars
  <2>3. CASE ~CtxtEqual(backup, ram)
    <3>1. Len(job') = 1 /\ job'[1].area = "bootinfob" /\ job'[1].val # Blank
      BY <1>1, <1>4, <2>1, <2>3 DEF RecoveryJob, Store
    <3> QED
      BY <1>1, <1>2, <2>1, <3>1
         DEF CopiesOK, ContextSurvives, Busy, Pending, Spare, InfoAreas, diskVars, ghostVars
  <2> QED
    BY <2>2, <2>3
<1>5. CASE seen.bi /\ seen.bb
  <2>1. CrcOk(flash["bootinfo"]) /\ CrcOk(flash["bootinfob"]) /\ job' = <<>>
    BY <1>1, <1>5 DEF SeenOK, RecoveryJob
  <2> QED
    BY <1>1, <1>2, <2>1
       DEF CopiesOK, ContextSurvives, Busy, Pending, InfoAreas, diskVars, ghostVars
<1>6. CASE ~seen.bi /\ ~seen.bb
  <2>1. CASE seen.blank
    <3>1. job' = <<>>
      BY <1>1, <1>6, <2>1 DEF RecoveryJob
    <3>2. provisioned => CrcOk(flash["bootinfo"]) /\ CrcOk(flash["bootinfob"])
      BY <1>1, <1>6 DEF RecoveryOK, Busy
    <3> QED
      BY <1>1, <1>2, <3>1, <3>2
         DEF CopiesOK, ContextSurvives, Busy, Pending, InfoAreas, diskVars, ghostVars
  <2>2. CASE ~seen.blank
    <3>1. ~provisioned
      BY <1>1, <1>6, <2>2 DEF RecoveryOK
    <3>2. Len(job') = 2 /\ \A i \in 1..2 : job'[i].val = Blank
      BY <1>1, <1>6, <2>2 DEF RecoveryJob, Store
    <3> QED
      BY <1>1, <1>2, <3>1, <3>2 DEF CopiesOK, ContextSurvives, diskVars, ghostVars
  <2> QED
    BY <2>1, <2>2
<1> QED
  BY <1>3, <1>4, <1>5, <1>6 DEF TypeOK

Decided == {"select", "loop", "verify0", "verify1", "app", "hung"}

(* A step that leaves flash alone and has no store pending or to issue.    *)
LEMMA CopiesKeep ==
  ASSUME IInvCopies, job = <<>>, job' = <<>>, flash' = flash,
         provisioned' = provisioned, pc' \notin {"bootinfob", "sync"},
         pc' \in Decided => pc \in Decided,
         inprog' => area' \in Parts
  PROVE  CopiesOK' /\ RecoveryOK'
BY DEF IInvCopies, CopiesOK, RecoveryOK, ContextSurvives, Busy, Pending, Decided

(* A step of a serving stage that issues the store of bootinfo, with or    *)
(* without that of the backup after it.                                    *)
LEMMA CopiesStore ==
  ASSUME IInvCopies, job = <<>>, NEW c \in Ctxts,
         \/ job' = <<Store("bootinfo", c)>>
         \/ job' = <<Store("bootinfo", c), Store("bootinfob", c)>>,
         flash' = flash, provisioned' = provisioned,
         pc \in Decided, pc' \in Decided,
         inprog' => area' \in Parts
  PROVE  CopiesOK' /\ RecoveryOK'
<1>1. provisioned => CrcOk(flash["bootinfo"]) /\ CrcOk(flash["bootinfob"])
  BY DEF IInvCopies, CopiesOK, Decided, Pending, InfoAreas
<1>2. /\ \A i \in 1..Len(job') : job'[i].val # Blank
      /\ job'[1].area = "bootinfo" /\ Busy'
  BY CtxtReadable DEF Store, Busy
<1>3. CopiesOK'
  BY <1>1, <1>2
     DEF IInvCopies, CopiesOK, ContextSurvives, Spare, InfoAreas, Decided
<1> QED
  BY <1>3 DEF RecoveryOK, Decided

(* A restart whose power loss may have cut one erase or program short.     *)
LEMMA CopiesRestart ==
  ASSUME IInvCopies, Restart, provisioned' = provisioned,
         \/ flash' = flash
         \/ Busy /\ flash' = [flash EXCEPT ![Head(job).area] = Torn]
  PROVE  CopiesOK' /\ RecoveryOK'
<1>1. ContextSurvives'
  <2>1. CASE flash' = flash
    BY <2>1 DEF IInvCopies, CopiesOK, ContextSurvives
  <2>2. CASE Busy /\ flash' = [flash EXCEPT ![Head(job).area] = Torn]
    <3>1. Head(job) = job[1] /\ job[1].area \in InfoAreas
      BY <2>2, JobHead DEF IInvCopies, IInvType
    <3>2. provisioned => CrcOk(flash'[Spare(job[1].area)])
      BY <2>2, <3>1 DEF IInvCopies, IInvType, CopiesOK, TypeOK, Spare, InfoAreas
    <3> QED
      BY <3>1, <3>2 DEF ContextSurvives, Spare, InfoAreas
  <2> QED
    BY <2>1, <2>2
<1>2. Len(job') = 0 /\ ~Busy' /\ pc' = "bootinfo" /\ ~inprog'
  BY DEF Restart, ClearTransfer, Busy
<1> QED
  BY <1>1, <1>2 DEF CopiesOK, RecoveryOK

LEMMA CopiesSelect == IInvCopies /\ Select => CopiesOK' /\ RecoveryOK'
<1> SUFFICES ASSUME IInvCopies, Select PROVE CopiesOK' /\ RecoveryOK'
  OBVIOUS
<1>1. inprog' = inprog /\ (inprog => area \in Parts)
  BY DEF Select, xferVars, IInvCopies, CopiesOK
<1>2. Selected.force => area' \in Parts
  BY DEF Select, Parts
<1>3. ~Selected.force => area' = area
  BY DEF Select
<1>4. /\ job = <<>> /\ job' = <<>> /\ flash' = flash /\ provisioned' = provisioned
      /\ pc = "select" /\ pc' \in {"loop", "verify0", "hung"}
  BY DEF Select, JumpTo, Busy, diskVars, storeVars
<1> QED
  BY <1>1, <1>2, <1>3, <1>4, CopiesKeep DEF Decided

LEMMA CopiesTransfer ==
  ASSUME "noend" \notin Env, IInvCopies,
         \/ WriteRequest \/ AbortTransfer \/ EndCommand
         \/ \E i \in Images, ok \in BOOLEAN : DataBlock(i, ok)
         \/ \E p \in Parts : SetRom(p)
         \/ BootCommand
  PROVE  CopiesOK' /\ RecoveryOK'
<1> USE DEF InLoop, Busy, storeVars, bootVars, ghostVars, diskVars, ClearTransfer
<1>1. area \in Parts \cup {BackupArea} /\ (inprog => area \in Parts)
  BY DEF IInvCopies, IInvType, TypeOK, CopiesOK
<1>2. CASE WriteRequest
  BY <1>1, <1>2, CopiesKeep DEF WriteRequest, Decided
<1>3. CASE AbortTransfer \/ EndCommand
  BY <1>3, CopiesKeep DEF AbortTransfer, EndCommand, Decided
<1>4. ASSUME NEW i \in Images, NEW ok \in BOOLEAN, DataBlock(i, ok)
      PROVE  CopiesOK' /\ RecoveryOK'
  BY <1>1, <1>4, CopiesKeep DEF DataBlock, Decided
<1>5. ASSUME NEW p \in Parts, SetRom(p) PROVE CopiesOK' /\ RecoveryOK'
  BY <1>5, CopiesKeep DEF SetRom, Decided
<1>6. CASE BootCommand
  BY <1>6, CopiesKeep DEF BootCommand, JumpTo, Decided
<1> QED
  BY <1>2, <1>3, <1>4, <1>5, <1>6

LEMMA CopiesCrc == IInvCopies /\ CrcCommand => CopiesOK' /\ RecoveryOK'
<1> SUFFICES ASSUME IInvCopies, CrcCommand PROVE CopiesOK' /\ RecoveryOK'
  OBVIOUS
<1> USE DEF InLoop, Busy, diskVars, ClearTransfer
<1>1. ram' \in Ctxts
  <2>1. IInvType'
    BY TypeCrc DEF IInvCopies
  <2> QED
    BY <2>1 DEF IInvType, TypeOK
<1>2. /\ job = <<>> /\ pc = "loop" /\ pc' = "loop" /\ flash' = flash
      /\ provisioned' = provisioned /\ inprog' = FALSE
      /\ job' = <<>> \/ job' = UpdateBootinfo(ram')
  BY DEF CrcCommand
<1>3. CASE job' = <<>>
  BY <1>2, <1>3, CopiesKeep DEF Decided
<1>4. CASE job' = UpdateBootinfo(ram')
  BY <1>1, <1>2, <1>4, CopiesStore DEF UpdateBootinfo, Decided
<1> QED
  BY <1>2, <1>3, <1>4

LEMMA CopiesApp ==
  ASSUME IInvCopies,
         \/ \E p \in Parts : VerifyPartition(p)
         \/ \E r \in Requests : RequestWrite(r)
  PROVE  CopiesOK' /\ RecoveryOK'
<1>1. inprog => area \in Parts
  BY DEF IInvCopies, CopiesOK
<1>2. ASSUME NEW p \in Parts, VerifyPartition(p) PROVE CopiesOK' /\ RecoveryOK'
  <2>1. ram' \in Ctxts
    <3>1. IInvType'
      BY <1>2, TypeVerify DEF IInvCopies
    <3> QED
      BY <3>1 DEF IInvType, TypeOK
  <2>2. /\ job = <<>> /\ pc \in {"verify0", "verify1"} /\ pc' \in {"verify1", "app"}
        /\ job' = <<>> \/ job' = <<Store("bootinfo", ram')>>
        /\ UNCHANGED <<flash, provisioned, inprog, area>>
    BY <1>2 DEF VerifyPartition, Busy, diskVars, xferVars
  <2>3. CASE job' = <<>>
    BY <1>1, <2>2, <2>3, CopiesKeep DEF Decided
  <2>4. CASE job' = <<Store("bootinfo", ram')>>
    BY <1>1, <2>1, <2>2, <2>4, CopiesStore DEF Decided
  <2> QED
    BY <2>2, <2>3, <2>4
<1>3. ASSUME NEW r \in Requests, RequestWrite(r) PROVE CopiesOK' /\ RecoveryOK'
  <2>1. ram' \in Ctxts
    <3>1. IInvType'
      BY <1>3, TypeRequest DEF IInvCopies
    <3> QED
      BY <3>1 DEF IInvType, TypeOK
  <2>2. /\ job = <<>> /\ pc = "app" /\ pc' = "app"
        /\ job' = <<>> \/ job' = <<Store("bootinfo", ram')>>
        /\ UNCHANGED <<flash, provisioned, inprog, area>>
    BY <1>3 DEF RequestWrite, Busy, diskVars, xferVars, ghostVars
  <2>3. CASE job' = <<>>
    BY <1>1, <2>2, <2>3, CopiesKeep DEF Decided
  <2>4. CASE job' = <<Store("bootinfo", ram')>>
    BY <1>1, <2>1, <2>2, <2>4, CopiesStore DEF Decided
  <2> QED
    BY <2>2, <2>3, <2>4
<1> QED
  BY <1>2, <1>3

LEMMA CopiesReset ==
  ASSUME IInvCopies, AppReset \/ PowerLoss \/ ResetCommand
  PROVE  CopiesOK' /\ RecoveryOK'
BY CopiesRestart DEF AppReset, PowerLoss, ResetCommand, diskVars, ghostVars

LEMMA CopiesAppRestart ==
  ASSUME IInvCopies, AppRestart
  PROVE  CopiesOK' /\ RecoveryOK'
<1>1. /\ job = <<>> /\ pc = "app" /\ pc' = "verify0" /\ job' = <<>>
      /\ UNCHANGED <<flash, provisioned, inprog, area>>
  BY DEF AppRestart, Busy, diskVars, storeVars, xferVars, ghostVars
<1> QED
  BY <1>1, CopiesKeep DEF Decided, IInvCopies, CopiesOK

LEMMA CopiesStutter == IInvCopies /\ UNCHANGED vars => CopiesOK' /\ RecoveryOK'
BY DEF IInvCopies, CopiesOK, RecoveryOK, ContextSurvives, Busy, Pending, vars,
       diskVars, storeVars, bootVars, xferVars, ghostVars

LEMMA CopiesNext ==
  ASSUME "noend" \notin Env
  PROVE  IInvCopies /\ [Next]_vars => IInvCopies'
<1> SUFFICES ASSUME IInvCopies, [Next]_vars PROVE IInvCopies'
  OBVIOUS
<1>1. IInvType'
  BY TypeNext DEF IInvCopies
<1>2. CopiesOK' /\ RecoveryOK'
  BY CopiesErase, CopiesProgram, CopiesRead, CopiesReconcile, CopiesSelect,
     CopiesTransfer, CopiesCrc, CopiesApp, CopiesAppRestart, CopiesReset, CopiesStutter DEF Next
<1> QED
  BY <1>1, <1>2 DEF IInvCopies

(* Once both copies of the boot context have been written, one of them is  *)
(* readable at every moment, for any number of power losses and whatever   *)
(* each of them cuts short, provided the host ends every transfer it       *)
(* starts: a request that follows a crc without an end erases the backup.  *)
THEOREM ContextKept ==
  ASSUME "noend" \notin Env
  PROVE  Spec => []ContextSurvives
<1>1. Init => IInvCopies
  BY TypeInit, CopiesInit DEF IInvCopies
<1>2. IInvCopies /\ [Next]_vars => IInvCopies'
  BY CopiesNext
<1>3. IInvCopies => ContextSurvives
  BY DEF IInvCopies, CopiesOK
<1> QED
  BY <1>1, <1>2, <1>3, PTL DEF Spec

=============================================================================
