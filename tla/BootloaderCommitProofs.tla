----------------------- MODULE BootloaderCommitProofs -----------------------
(***************************************************************************)
(* Proofs about what Bootloader stores, for every number of images and     *)
(* blocks, and of power losses unless said otherwise:                      *)
(*   - CommitReplicates: after a commit both copies and RAM are equal;     *)
(*   - CrcsFromHost: a stored crc is one the host's file had;              *)
(*   - AutoBootWhole: a jump without a boot command is to a whole image;   *)
(*   - LastGoodKept: as long as power is not lost, updates never give the  *)
(*     last good image up;                                                 *)
(*   - UpdateIsAtomic: with at most one power loss, at any step, the boot  *)
(*     that follows works with a table that was in force before the        *)
(*     interrupted store or with the one being stored.  With a second loss *)
(*     that does not hold: an erased bootinfo gets an empty table before   *)
(*     it gets the one of the backup.                                      *)
(***************************************************************************)
EXTENDS BootloaderProofs

-----------------------------------------------------------------------------
(***************************************************************************)
(* CommitReplicated                                                        *)
(***************************************************************************)
(* How far update_bootinfo has come, once sdriver is on the backup area.   *)
CommitOK ==
  /\ inprog => area \in Parts
  /\ pc = "loop" /\ area = BackupArea =>
       \/ job = UpdateBootinfo(ram)
       \/ job = <<Store("bootinfob", ram)>> /\ flash["bootinfo"] = ram
       \/ job = <<>> /\ \A a \in InfoAreas : flash[a] = ram

IInvCommit == IInvType /\ CommitOK

LEMMA BackupIsNoPart == BackupArea \notin Parts
BY DEF BackupArea, Parts

LEMMA CommitFlash ==
  ASSUME IInvCommit, EraseStep \/ ProgramStep
  PROVE  CommitOK'
<1>1. /\ Busy /\ UNCHANGED <<pc, ram, area, inprog>>
      /\ ram \in Ctxts /\ ram # Blank
      /\ flash \in [InfoAreas -> Infos]
  BY CtxtReadable DEF EraseStep, ProgramStep, bootVars, xferVars, IInvCommit, IInvType, TypeOK
<1>2. CASE ~(pc = "loop" /\ area = BackupArea)
  BY <1>1, <1>2 DEF CommitOK, IInvCommit
<1>3. CASE pc = "loop" /\ area = BackupArea /\ job = UpdateBootinfo(ram)
  <2>1. /\ Head(job) = Store("bootinfo", ram)
        /\ Tail(job) = <<Store("bootinfob", ram)>>
    BY <1>3 DEF UpdateBootinfo
  <2>2. CASE EraseStep
    BY <1>1, <1>3, <2>1, <2>2 DEF EraseStep, CommitOK, IInvCommit, Store
  <2>3. CASE ProgramStep
    BY <1>1, <1>3, <2>1, <2>3 DEF ProgramStep, CommitOK, IInvCommit, Store, InfoAreas
  <2> QED
    BY <2>2, <2>3
<1>4. CASE /\ pc = "loop" /\ area = BackupArea
           /\ job = <<Store("bootinfob", ram)>> /\ flash["bootinfo"] = ram
  <2>1. Head(job) = Store("bootinfob", ram) /\ Tail(job) = <<>>
    BY <1>4
  <2>2. CASE EraseStep
    BY <1>1, <1>4, <2>1, <2>2 DEF EraseStep, CommitOK, IInvCommit, Store
  <2>3. CASE ProgramStep
    BY <1>1, <1>4, <2>1, <2>3 DEF ProgramStep, CommitOK, IInvCommit, Store, InfoAreas
  <2> QED
    BY <2>2, <2>3
<1> QED
  BY <1>1, <1>2, <1>3, <1>4 DEF CommitOK, IInvCommit, Busy

LEMMA CommitBoot ==
  ASSUME IInvCommit,
         ReadBootinfo \/ ReadBackup \/ Reconcile \/ Select
           \/ (\E p \in Parts : VerifyPartition(p))
           \/ (\E r \in Requests : RequestWrite(r))
  PROVE  CommitOK'
<1>1. /\ UNCHANGED inprog
      /\ \/ pc' # "loop" /\ UNCHANGED area
         \/ pc' = "loop" /\ area' \in Parts
         \/ pc' # "loop" /\ area' \in Parts
  <2>1. CASE Select
    <3>1. (IF UpdateTarget \in Parts THEN UpdateTarget ELSE 1) \in Parts
      BY DEF Parts
    <3> QED
      BY <2>1, <3>1 DEF Select, JumpTo, xferVars
  <2>2. CASE ReadBootinfo \/ ReadBackup \/ Reconcile
    BY <2>2 DEF ReadBootinfo, ReadBackup, Reconcile, xferVars
  <2>3. ASSUME NEW p \in Parts, VerifyPartition(p)
        PROVE  pc' # "loop" /\ UNCHANGED <<area, inprog>>
    BY <2>3 DEF VerifyPartition, xferVars
  <2>4. ASSUME NEW r \in Requests, RequestWrite(r)
        PROVE  pc' # "loop" /\ UNCHANGED <<area, inprog>>
    BY <2>4 DEF RequestWrite, xferVars
  <2> QED
    BY <2>1, <2>2, <2>3, <2>4
<1> QED
  BY <1>1, BackupIsNoPart DEF CommitOK, IInvCommit

LEMMA CommitHost ==
  ASSUME IInvCommit, "noend" \notin Env,
         \/ WriteRequest
         \/ \E i \in Images, ok \in BOOLEAN : DataBlock(i, ok)
         \/ CrcCommand \/ AbortTransfer \/ EndCommand
         \/ \E p \in Parts : SetRom(p)
         \/ BootCommand
  PROVE  CommitOK'
<1>1. ram.part \in Parts \/ pc # "loop"
  BY DEF IInvCommit, IInvType, RamOK
<1>2. CASE WriteRequest
  <2>1. area # BackupArea /\ area \in Parts
    BY <1>2 DEF WriteRequest, IInvCommit, IInvType, TypeOK
  <2> QED
    BY <1>2, <2>1 DEF WriteRequest, CommitOK, bootVars
<1>3. ASSUME NEW i \in Images, NEW ok \in BOOLEAN, DataBlock(i, ok)
      PROVE  CommitOK'
  <2>1. inprog /\ area \in Parts /\ area # BackupArea /\ UNCHANGED <<area, inprog>>
    BY <1>3, BackupIsNoPart DEF DataBlock, CommitOK, IInvCommit, bootVars
  <2> QED
    BY <2>1 DEF CommitOK
<1>4. CASE CrcCommand
  <2>1. /\ inprog /\ area \in Parts /\ inprog' = FALSE
        /\ \/ job' = UpdateBootinfo(ram') /\ area' = BackupArea
           \/ area' = area
    BY <1>4 DEF CrcCommand, ClearTransfer, CommitOK, IInvCommit
  <2> QED
    BY <2>1, BackupIsNoPart DEF CommitOK
<1>5. CASE AbortTransfer
  BY <1>5 DEF AbortTransfer, ClearTransfer, CommitOK, IInvCommit, diskVars, storeVars, bootVars
<1>6. CASE EndCommand
  <2>1. area' \in Parts /\ inprog' = FALSE
    BY <1>1, <1>6 DEF EndCommand, ClearTransfer, InLoop
  <2> QED
    BY <2>1, BackupIsNoPart DEF CommitOK
<1>7. ASSUME NEW p \in Parts, SetRom(p) PROVE CommitOK'
  <2>1. area' \in Parts /\ inprog' = FALSE
    BY <1>7 DEF SetRom, ClearTransfer
  <2> QED
    BY <2>1, BackupIsNoPart DEF CommitOK
<1>8. CASE BootCommand
  BY <1>8 DEF BootCommand, JumpTo, ClearTransfer, CommitOK
<1> QED
  BY <1>2, <1>3, <1>4, <1>5, <1>6, <1>7, <1>8

LEMMA CommitReset ==
  ASSUME CommitOK, ResetCommand \/ AppRestart \/ AppReset \/ PowerLoss
  PROVE  CommitOK'
BY DEF ResetCommand, AppRestart, AppReset, PowerLoss, xferVars, Restart, ClearTransfer, CommitOK

LEMMA CommitNext ==
  ASSUME "noend" \notin Env
  PROVE  IInvCommit /\ [Next]_vars => IInvCommit'
<1> SUFFICES ASSUME IInvCommit, [Next]_vars PROVE IInvCommit'
  OBVIOUS
<1>1. IInvType'
  BY TypeNext DEF IInvCommit
<1>2. CASE UNCHANGED vars
  BY <1>1, <1>2 DEF IInvCommit, CommitOK, vars, diskVars, storeVars, bootVars, xferVars
<1>3. CASE Next
  <2>1. CommitOK'
    BY <1>3, CommitFlash, CommitBoot, CommitHost, CommitReset DEF Next, IInvCommit
  <2> QED
    BY <1>1, <2>1 DEF IInvCommit
<1> QED
  BY <1>2, <1>3

(* A commit that has run to its end leaves the table of the host in both   *)
(* areas and in RAM (update_bootinfo in bootloader/main.c), whatever power *)
(* losses came before it, provided the host ends every transfer: sdriver   *)
(* stays on the backup area, and a request without an end would erase it.  *)
THEOREM CommitReplicates ==
  ASSUME "noend" \notin Env
  PROVE  Spec => []CommitReplicated
<1>1. Init => IInvCommit
  <2>1. Init => CommitOK
    BY DEF Init, CommitOK
  <2> QED
    BY <2>1, TypeInit DEF IInvCommit
<1>2. IInvCommit /\ [Next]_vars => IInvCommit'
  BY CommitNext
<1>3. IInvCommit => CommitReplicated
  BY DEF IInvCommit, CommitOK, CommitReplicated, Busy, UpdateBootinfo
<1> QED
  BY <1>1, <1>2, <1>3, PTL DEF Spec

-----------------------------------------------------------------------------
(***************************************************************************)
(* StoredCrcFromHost and AutoBootRunsWholeImage                            *)
(***************************************************************************)
(* An entry that is no crc, or the crc of a whole image as the host has it.*)
HostCrc(e) == e \in Contents => IsFull(e)
Vouched(c) == \A p \in Parts : HostCrc(c.apps[p])

(* The only entry not vouched for is that of the partition being written.  *)
TableOK ==
  /\ \A a \in InfoAreas : CrcOk(flash[a]) => Vouched(flash[a])
  /\ \A i \in 1..Len(job) : job[i].val # Blank => Vouched(job[i].val)
  /\ Vouched(backup)
  /\ pc # "loop" => Vouched(ram)
  /\ pc = "loop" => \A p \in Parts \ {ram.part} : HostCrc(ram.apps[p])
  /\ pc \in {"verify0", "verify1", "app"} => \A p \in Parts : IsFull(approm[p])

IInvTable == IInvType /\ TableOK

LEMMA VouchedDefaults == Vouched(InitCtxt) /\ Vouched(JunkCtxt)
BY MarkersAssumption DEF Vouched, HostCrc, InitCtxt, JunkCtxt

LEMMA LoadedVouched ==
  ASSUME NEW v, CrcOk(v) => Vouched(v)
  PROVE  Vouched(Loaded(v))
BY VouchedDefaults DEF Loaded

(* Stores of a vouched table, or the wipe of both areas.                   *)
LEMMA JobVouched ==
  ASSUME NEW j, NEW a, NEW b, NEW c, Vouched(c),
         \/ j = <<>> \/ j = <<Store(a, c)>>
         \/ j = <<Store(a, c), Store(b, c)>>
         \/ j = <<Store(a, Blank), Store(b, Blank)>>
  PROVE  \A i \in 1..Len(j) : j[i].val # Blank => Vouched(j[i].val)
<1>1. \A d : Store(d, c).val = c /\ Store(d, Blank).val = Blank
  BY DEF Store
<1> HIDE DEF Store
<1>2. CASE j = <<>>
  BY <1>2
<1>3. CASE j = <<Store(a, c)>>
  BY <1>1, <1>3
<1>4. CASE j = <<Store(a, c), Store(b, c)>>
  BY <1>1, <1>4
<1>5. CASE j = <<Store(a, Blank), Store(b, Blank)>>
  BY <1>1, <1>5
<1> QED
  BY <1>2, <1>3, <1>4, <1>5

LEMMA TableInit == Init => TableOK
<1> SUFFICES ASSUME Init PROVE TableOK
  OBVIOUS
<1>1. \A a \in InfoAreas : ~CrcOk(flash[a])
  BY DEF Init, CrcOk
<1> QED
  BY <1>1, VouchedDefaults DEF Init, TableOK

LEMMA TableFlash ==
  ASSUME IInvTable, EraseStep \/ ProgramStep
  PROVE  TableOK'
<1> USE DEF IInvTable, IInvType
<1>1. UNCHANGED <<approm, pc, ram, backup>>
  BY DEF EraseStep, ProgramStep, bootVars
<1>2. \A a \in InfoAreas : CrcOk(flash'[a]) => Vouched(flash'[a])
  <2>1. CASE EraseStep
    BY <2>1 DEF EraseStep, TableOK, CrcOk, TypeOK
  <2>2. CASE ProgramStep
    <3>1. Busy /\ TypeOK /\ half /\ job[1].val # Blank
      BY <2>2 DEF ProgramStep, RamOK
    <3>2. Head(job) = job[1] /\ 1 \in 1..Len(job)
      BY <3>1, JobHead
    <3>3. Vouched(Head(job).val)
      BY <3>1, <3>2 DEF TableOK
    <3> QED
      BY <2>2, <3>3 DEF ProgramStep, TableOK, TypeOK
  <2> QED
    BY <2>1, <2>2
<1>3. \A i \in 1..Len(job') : job'[i].val # Blank => Vouched(job'[i].val)
  <2>1. Busy /\ (job' = job \/ job' = Tail(job))
    BY DEF EraseStep, ProgramStep
  <2>2. CASE job' = job
    BY <2>2 DEF TableOK
  <2>3. CASE job' = Tail(job)
    BY <2>1, <2>3, JobHead DEF TableOK
  <2> QED
    BY <2>1, <2>2, <2>3
<1> QED
  BY <1>1, <1>2, <1>3 DEF TableOK

LEMMA TableRead ==
  ASSUME IInvTable, ReadBootinfo \/ ReadBackup
  PROVE  TableOK'
<1> USE DEF IInvTable, IInvType
<1>1. /\ UNCHANGED <<flash, approm>> /\ job = <<>>
      /\ pc # "loop" /\ pc' \in {"bootinfob", "sync"}
  BY DEF ReadBootinfo, ReadBackup, Busy, diskVars
<1>2. Vouched(Loaded(flash["bootinfo"])) /\ Vouched(Loaded(flash["bootinfob"]))
  BY LoadedVouched DEF TableOK, InfoAreas
<1>3. Vouched(ram') /\ Vouched(backup')
  BY <1>1, <1>2, VouchedDefaults DEF ReadBootinfo, ReadBackup, TableOK
<1>4. \/ job' = <<>> \/ job' = <<Store("bootinfo", InitCtxt)>>
      \/ job' = <<Store("bootinfob", InitCtxt)>>
  BY <1>1 DEF ReadBootinfo, ReadBackup
<1>5. \A i \in 1..Len(job') : job'[i].val # Blank => Vouched(job'[i].val)
  BY <1>4, JobVouched, VouchedDefaults
<1> QED
  BY <1>1, <1>3, <1>5 DEF TableOK

LEMMA TableReconcile ==
  ASSUME IInvTable, Reconcile
  PROVE  TableOK'
<1>1. /\ UNCHANGED <<flash, approm, ram, backup>>
      /\ pc = "sync" /\ pc' = "select" /\ job' = RecoveryJob
      /\ Vouched(ram) /\ Vouched(backup)
  BY DEF Reconcile, diskVars, IInvTable, TableOK
<1>2. \E c \in {ram, backup}, a \in InfoAreas, b \in InfoAreas :
         \/ job' = <<>> \/ job' = <<Store(a, c)>>
         \/ job' = <<Store(a, c), Store(b, c)>>
         \/ job' = <<Store(a, Blank), Store(b, Blank)>>
  BY <1>1 DEF RecoveryJob, InfoAreas
<1>3. \A i \in 1..Len(job') : job'[i].val # Blank => Vouched(job'[i].val)
  BY <1>1, <1>2, JobVouched
<1> QED
  BY <1>1, <1>3 DEF IInvTable, TableOK

(* Nothing forces the command loop: both partitions match the table.       *)
LEMMA SelectedWhole ==
  ASSUME IInvTable, pc # "loop", ~Selected.force
  PROVE  /\ Selected.part \in Parts
         /\ \A p \in Parts : IsFull(approm[p]) /\ ram.apps[p] # Junk
<1>1. StateOf(0) = 1 /\ StateOf(1) = 1
  BY DEF Selected
<1>2. \A p \in Parts : ram.apps[p] = approm[p] /\ approm[p] \in Contents
  BY <1>1 DEF StateOf, ValidatePartition, IInvTable, IInvType, TypeOK, Parts
<1>3. Selected.part \in Parts
  BY SelectedOK DEF IInvTable, IInvType, RamOK
<1> QED
  BY <1>2, <1>3, ContentsOK DEF IInvTable, TableOK, Vouched, HostCrc

LEMMA TableSelect ==
  ASSUME IInvTable, Select
  PROVE  TableOK'
<1>1. /\ UNCHANGED <<flash, approm, job>> /\ backup' = JunkCtxt
      /\ pc = "select" /\ Vouched(ram) /\ ram \in Ctxts
  BY DEF Select, diskVars, storeVars, IInvTable, IInvType, TypeOK, TableOK
<1>2. CASE Selected.force
  <2>1. pc' = "loop" /\ ram' = [ram EXCEPT !.part = UpdateTarget]
    BY <1>2 DEF Select
  <2>2. ram'.apps = ram.apps
    BY <1>1, <2>1 DEF Ctxts
  <2> QED
    BY <1>1, <2>1, <2>2, VouchedDefaults DEF IInvTable, TableOK, Vouched
<1>3. CASE ~Selected.force
  <2>1. pc' \in {"verify0", "hung"} /\ ram' = JunkCtxt
    BY <1>3 DEF Select, JumpTo
  <2>2. \A p \in Parts : IsFull(approm[p])
    BY <1>1, <1>3, SelectedWhole
  <2> QED
    BY <1>1, <2>1, <2>2, VouchedDefaults DEF IInvTable, TableOK
<1> QED
  BY <1>2, <1>3

LEMMA TableTransfer ==
  ASSUME IInvTable,
         \/ WriteRequest
         \/ \E i \in Images, ok \in BOOLEAN : DataBlock(i, ok)
         \/ AbortTransfer \/ EndCommand
  PROVE  TableOK'
<1>1. /\ pc = "loop" /\ UNCHANGED <<pc, job, ram, backup>>
      /\ \A a \in InfoAreas : flash'[a] = flash[a] \/ ~CrcOk(flash'[a])
  BY DEF WriteRequest, DataBlock, AbortTransfer, EndCommand, InLoop, CrcOk,
         storeVars, bootVars, diskVars, IInvTable, IInvType, TypeOK
<1> QED
  BY <1>1 DEF IInvTable, TableOK

LEMMA TableCrc ==
  ASSUME IInvTable, CrcCommand
  PROVE  TableOK'
<1> DEFINE crc == IF area \in Parts THEN approm[area] ELSE Junk
           new == [ram EXCEPT !.apps[ram.part] = crc]
<1>1. /\ ram' = new
      /\ \/ IsFull(crc) /\ job' = UpdateBootinfo(new)
         \/ job' = job
      /\ UNCHANGED <<flash, approm, pc, backup>>
      /\ pc = "loop"
  BY DEF CrcCommand, CrcMatches, InLoop, diskVars
<1>2. ram \in Ctxts /\ ram.part \in Parts
  BY <1>1 DEF IInvTable, IInvType, TypeOK, RamOK
<1> HIDE DEF crc
<1>3. /\ new.part = ram.part
      /\ new.apps[ram.part] = crc
      /\ \A p \in Parts \ {ram.part} : new.apps[p] = ram.apps[p]
  BY <1>2 DEF Ctxts
<1> HIDE DEF new
<1>4. \A p \in Parts \ {ram.part} : HostCrc(new.apps[p])
  BY <1>1, <1>3 DEF IInvTable, TableOK
<1>5. IsFull(crc) => Vouched(new)
  BY <1>3, <1>4 DEF Vouched, HostCrc
<1>6. \A i \in 1..Len(job') : job'[i].val # Blank => Vouched(job'[i].val)
  <2>1. CASE job' = job
    BY <2>1 DEF IInvTable, TableOK
  <2>2. CASE IsFull(crc) /\ job' = UpdateBootinfo(new)
    BY <1>5, <2>2, JobVouched DEF UpdateBootinfo
  <2> QED
    BY <1>1, <2>1, <2>2
<1> QED
  BY <1>1, <1>3, <1>4, <1>6 DEF IInvTable, TableOK

LEMMA TableVerify ==
  ASSUME NEW p \in Parts, IInvTable, VerifyPartition(p)
  PROVE  TableOK'
<1> DEFINE c == Loaded(flash["bootinfo"])
           fixed == [c EXCEPT !.apps[p] = approm[p]]
<1>1. /\ \/ ram' = c /\ job' = <<>>
         \/ ram' = fixed /\ job' = <<Store("bootinfo", fixed)>>
      /\ UNCHANGED <<flash, approm, backup>>
      /\ pc \in {"verify0", "verify1"} /\ pc' \in {"verify1", "app"}
  BY DEF VerifyPartition, diskVars
<1>2. c \in Ctxts /\ Vouched(c)
  BY LoadedOK, LoadedVouched
     DEF IInvTable, IInvType, TypeOK, StoredOK, TableOK, InfoAreas
<1>3. Vouched(fixed)
  <2>1. HostCrc(approm[p])
    BY <1>1 DEF IInvTable, TableOK, HostCrc
  <2>2. \A q \in Parts : fixed.apps[q] = IF q = p THEN approm[p] ELSE c.apps[q]
    BY <1>2 DEF Ctxts
  <2> QED
    BY <1>2, <2>1, <2>2 DEF Vouched
<1> HIDE DEF fixed, c
<1>4. Vouched(ram') /\ \A i \in 1..Len(job') : job'[i].val # Blank => Vouched(job'[i].val)
  BY <1>1, <1>2, <1>3, JobVouched
<1> QED
  BY <1>1, <1>4 DEF IInvTable, TableOK

LEMMA TableRequest ==
  ASSUME NEW r \in Requests, IInvTable, RequestWrite(r)
  PROVE  TableOK'
<1>1. /\ \/ UNCHANGED <<ram, job>>
         \/ ram' = SwapPartitions(ram) /\ job' = <<Store("bootinfo", ram')>>
      /\ UNCHANGED <<flash, approm, backup, pc>>
      /\ pc = "app"
  BY DEF RequestWrite, diskVars
<1>2. Vouched(ram')
  <2>1. Vouched(ram) /\ ram \in Ctxts
    BY <1>1 DEF IInvTable, IInvType, TypeOK, TableOK
  <2>2. SwapPartitions(ram).apps = ram.apps
    BY <2>1 DEF SwapPartitions, Ctxts
  <2> QED
    BY <1>1, <2>1, <2>2 DEF Vouched
<1>3. \A i \in 1..Len(job') : job'[i].val # Blank => Vouched(job'[i].val)
  BY <1>1, <1>2, JobVouched DEF IInvTable, TableOK
<1> QED
  BY <1>1, <1>2, <1>3 DEF IInvTable, TableOK

LEMMA TableReset ==
  ASSUME IInvTable, ResetCommand \/ AppReset \/ PowerLoss
  PROVE  TableOK'
<1>1. /\ Restart
      /\ \A a \in InfoAreas : flash'[a] = flash[a] \/ ~CrcOk(flash'[a])
  BY DEF ResetCommand, AppReset, PowerLoss, diskVars, CrcOk,
         IInvTable, IInvType, TypeOK
<1> QED
  BY <1>1, VouchedDefaults DEF Restart, IInvTable, TableOK

LEMMA TableAppRestart ==
  ASSUME IInvTable, AppRestart
  PROVE  TableOK'
BY VouchedDefaults DEF AppRestart, IInvTable, TableOK, diskVars, storeVars

LEMMA TableNext ==
  ASSUME "setrom" \notin Env, "boot" \notin Env
  PROVE  IInvTable /\ [Next]_vars => IInvTable'
<1> SUFFICES ASSUME IInvTable, [Next]_vars PROVE IInvTable'
  OBVIOUS
<1>1. IInvType'
  BY TypeNext DEF IInvTable
<1>2. CASE UNCHANGED vars
  <2>1. UNCHANGED <<flash, approm, pc, job, ram, backup>>
    BY <1>2 DEF vars, diskVars, storeVars, bootVars
  <2> QED
    BY <1>1, <2>1 DEF IInvTable, TableOK
<1>3. CASE Next
  <2>1. ~BootCommand /\ \A p \in Parts : ~SetRom(p)
    BY DEF BootCommand, SetRom
  <2>2. TableOK'
    BY <1>3, <2>1, TableFlash, TableRead, TableReconcile, TableSelect,
       TableTransfer, TableCrc, TableVerify, TableRequest, TableAppRestart,
       TableReset DEF Next
  <2> QED
    BY <1>1, <2>2 DEF IInvTable
<1> QED
  BY <1>2, <1>3

LEMMA TableAlways ==
  ASSUME "setrom" \notin Env, "boot" \notin Env
  PROVE  Spec => []IInvTable
<1>1. Init => IInvTable
  BY TypeInit, TableInit DEF IInvTable
<1>2. IInvTable /\ [Next]_vars => IInvTable'
  BY TableNext
<1> QED
  BY <1>1, <1>2, PTL DEF Spec

(* Every crc in a readable area of the boot context is the one of a file   *)
(* the host sent (src/bootloader/README.md:96), repair by the application  *)
(* included, for a host that neither picks a partition nor sends a boot    *)
(* command: the entry of a refused image stays in RAM, and a partition     *)
(* picked then would let it be stored with the next commit.                *)
THEOREM CrcsFromHost ==
  ASSUME "setrom" \notin Env, "boot" \notin Env
  PROVE  Spec => []StoredCrcFromHost
<1>1. IInvTable => StoredCrcFromHost
  BY DEF IInvTable, TableOK, Vouched, HostCrc, StoredCrcFromHost
<1> QED
  BY <1>1, TableAlways, PTL

(* Without a boot command main() of the bootloader gives control only to a *)
(* partition with a whole image, under the same hosts, for any number of   *)
(* power losses: the crc that selects it is one the host's file had.       *)
THEOREM AutoBootWhole ==
  ASSUME "setrom" \notin Env, "boot" \notin Env
  PROVE  Spec => AutoBootRunsWholeImage
<1>1. IInvTable /\ [Next]_vars =>
        [pc = "select" /\ pc' \in {"verify0", "hung"} =>
           pc' = "verify0" /\ IsFull(approm[running'])]_vars
  <2> SUFFICES ASSUME IInvTable, Next, pc = "select", pc' \in {"verify0", "hung"}
               PROVE  pc' = "verify0" /\ IsFull(approm[running'])
    OBVIOUS
  <2>1. CASE Select
    <3>1. ~Selected.force /\ JumpTo(Selected.part, ram)
      BY <2>1 DEF Select
    <3> QED
      BY <3>1, SelectedWhole DEF JumpTo
  <2>2. CASE ~Select
    <3>1. UNCHANGED pc \/ pc' = "bootinfo"
      BY <2>2 DEF Next, EraseStep, ProgramStep, ReadBootinfo, ReadBackup, Reconcile,
         WriteRequest, DataBlock, CrcCommand, AbortTransfer, EndCommand, SetRom,
         BootCommand, ResetCommand, VerifyPartition, RequestWrite, AppRestart, AppReset,
         PowerLoss, InLoop, Restart
    <3> QED
      BY <3>1
  <2> QED
    BY <2>1, <2>2
<1> QED
  BY <1>1, TableAlways, PTL DEF Spec, AutoBootRunsWholeImage

-----------------------------------------------------------------------------
(***************************************************************************)
(* LastGoodWithoutLoss.  While nothing is cut short the two areas hold the *)
(* same table whenever no store is pending, so main() always works with    *)
(* the table in force, and the partition it does not write stays           *)
(* untouched.                                                              *)
(***************************************************************************)
(* Both copies readable, with the same table.                              *)
Settled ==
  /\ CrcOk(flash["bootinfo"]) /\ CrcOk(flash["bootinfob"])
  /\ CtxtEqual(flash["bootinfo"], flash["bootinfob"])

(* A first boot formats both areas; any other finds them settled.          *)
QuietBoot ==
  /\ pc = "bootinfo" =>
       \/ Settled
       \/ flash["bootinfo"] = Blank /\ flash["bootinfob"] = Blank
  /\ pc = "bootinfob" =>
       \/ seen.bi /\ ~Busy /\ Settled
       \/ /\ ~seen.bi /\ seen.blank /\ flash["bootinfob"] = Blank
          /\ ram = InitCtxt /\ (Busy \/ flash["bootinfo"] = InitCtxt)
  /\ pc = "sync" =>
       \/ seen.bi /\ seen.bb /\ ~Busy /\ Settled
       \/ /\ ~seen.bi /\ ~seen.bb /\ seen.blank
          /\ ram = InitCtxt /\ flash["bootinfo"] = InitCtxt
          /\ Busy \/ Settled
  /\ pc = "select" => ~Busy /\ Settled /\ ram = flash["bootinfo"]

(* The application switches the current partition and nothing else.        *)
QuietApp ==
  /\ pc \in {"verify0", "verify1"} =>
       ~Busy /\ Settled /\ \A p \in Parts : flash["bootinfo"].apps[p] = approm[p]
  /\ pc = "hung" => Settled
  /\ pc = "app" =>
       /\ Busy => job = <<Store("bootinfo", ram)>>
       /\ ~Busy => Settled
       /\ CrcOk(flash["bootinfob"]) /\ CtxtEqual(ram, flash["bootinfob"])
       /\ \A p \in Parts : ram.apps[p] = approm[p]

(* The partition that is not written fits every table that could come into *)
(* force, and one of the two copies is readable.                           *)
Kept(q) ==
  /\ IsFull(approm[q]) /\ ram.apps[q] = approm[q]
  /\ \A a \in InfoAreas : CrcOk(flash[a]) => flash[a].apps[q] = approm[q]

QuietLoop ==
  pc = "loop" =>
    /\ area \in Parts => area = ram.part /\ ~Busy
    /\ ~Busy => Settled
    /\ CrcOk(flash["bootinfo"]) \/ CrcOk(flash["bootinfob"])
    /\ job = UpdateBootinfo(ram) => CrcOk(flash["bootinfob"])
    /\ hadGood => Kept(Other(ram.part))

QuietOK == QuietBoot /\ QuietApp /\ QuietLoop

IInvQuiet == IInvTable /\ CommitOK /\ (powerLosses = 0 => QuietOK)

-----------------------------------------------------------------------------
LEMMA InfoCases == \A a : a \in InfoAreas <=> a \in {"bootinfo", "bootinfob"}
BY DEF InfoAreas

LEMMA QuietInit == Init => QuietOK
BY InfoCases DEF Init, QuietOK, QuietBoot, QuietApp, QuietLoop

LEMMA QuietErase ==
  ASSUME IInvQuiet, powerLosses = 0, EraseStep
  PROVE  QuietOK'
<1> USE DEF IInvQuiet, IInvTable, IInvType
<1>1. /\ Busy /\ ~half /\ UNCHANGED <<approm, pc, ram, seen, area, hadGood>>
      /\ flash' = [flash EXCEPT ![Head(job).area] = Blank]
      /\ flash \in [InfoAreas -> Infos] /\ job # <<>>
  BY DEF EraseStep, bootVars, ghostVars, TypeOK, Busy
<1>2. InitCtxt # Blank /\ ram # Blank
  BY InitCtxtOK, CtxtReadable DEF TypeOK
<1>3. CASE pc = "bootinfob"
  <2>1. job = <<Store("bootinfo", InitCtxt)>>
    BY <1>1, <1>3 DEF SeenOK
  <2>2. Head(job) = Store("bootinfo", InitCtxt)
    BY <2>1
  <2>3. Busy' /\ flash'["bootinfob"] = flash["bootinfob"]
    BY <1>1, <1>2, <2>2, InfoCases DEF EraseStep, Store, Busy
  <2> QED
    BY <1>1, <1>3, <2>3 DEF QuietOK, QuietBoot, QuietApp, QuietLoop
<1>4. CASE pc = "sync"
  <2>1. job = <<Store("bootinfob", InitCtxt)>>
    BY <1>1, <1>4 DEF SeenOK
  <2>2. Head(job) = Store("bootinfob", InitCtxt)
    BY <2>1
  <2>3. Busy' /\ flash'["bootinfo"] = flash["bootinfo"]
    BY <1>1, <1>2, <2>2, InfoCases DEF EraseStep, Store, Busy
  <2> QED
    BY <1>1, <1>4, <2>3 DEF QuietOK, QuietBoot, QuietApp, QuietLoop
<1>5. CASE pc = "app"
  <2>1. job = <<Store("bootinfo", ram)>>
    BY <1>1, <1>5 DEF QuietOK, QuietApp
  <2>2. Head(job) = Store("bootinfo", ram)
    BY <2>1
  <2>3. job' = job /\ flash'["bootinfob"] = flash["bootinfob"]
    BY <1>1, <1>2, <2>2, InfoCases DEF EraseStep, Store
  <2> QED
    BY <1>1, <1>5, <2>3 DEF QuietOK, QuietBoot, QuietApp, QuietLoop, Busy
<1>6. CASE pc = "loop"
  <2>1. area = BackupArea
    BY <1>1, <1>6 DEF QuietOK, QuietLoop, TypeOK
  <2>2. \A a \in InfoAreas : flash'[a] = flash[a] \/ ~CrcOk(flash'[a])
    BY <1>1 DEF CrcOk
  <2>3. CASE job = UpdateBootinfo(ram)
    <3>1. Head(job) = Store("bootinfo", ram)
      BY <2>3 DEF UpdateBootinfo
    <3>2. job' = job /\ flash'["bootinfob"] = flash["bootinfob"]
      BY <1>1, <1>2, <3>1, InfoCases DEF EraseStep, Store
    <3> QED
      BY <1>1, <1>6, <2>1, <2>2, <2>3, <3>2, BackupIsNoPart
         DEF QuietOK, QuietBoot, QuietApp, QuietLoop, Kept, Busy
  <2>4. CASE job = <<Store("bootinfob", ram)>> /\ flash["bootinfo"] = ram
    <3>1. Head(job) = Store("bootinfob", ram)
      BY <2>4
    <3>2. job' = job /\ flash'["bootinfo"] = ram /\ CrcOk(ram)
      BY <1>1, <1>2, <2>4, <3>1, InfoCases, CtxtReadable DEF EraseStep, Store, TypeOK
    <3>3. job # UpdateBootinfo(ram)
      BY <2>4 DEF UpdateBootinfo
    <3> QED
      BY <1>1, <1>6, <2>1, <2>2, <2>4, <3>2, <3>3, BackupIsNoPart
         DEF QuietOK, QuietBoot, QuietApp, QuietLoop, Kept, Busy
  <2> QED
    BY <1>1, <1>6, <2>1, <2>3, <2>4 DEF CommitOK
<1>7. pc \notin {"bootinfo", "hung", "verify0", "verify1", "select"}
  BY <1>1 DEF RamOK, QuietOK, QuietBoot, QuietApp
<1> QED
  BY <1>3, <1>4, <1>5, <1>6, <1>7 DEF TypeOK, Steps

LEMMA QuietProgram ==
  ASSUME IInvQuiet, powerLosses = 0, ProgramStep
  PROVE  QuietOK'
<1> USE DEF IInvQuiet, IInvTable, IInvType
<1>1. /\ Busy /\ UNCHANGED <<approm, pc, ram, seen, area, hadGood>>
      /\ flash' = [flash EXCEPT ![Head(job).area] = Head(job).val]
      /\ job' = Tail(job)
      /\ flash \in [InfoAreas -> Infos]
  BY DEF ProgramStep, bootVars, TypeOK
<1>2. CrcOk(InitCtxt) /\ CrcOk(ram)
  BY InitCtxtOK, CtxtReadable DEF TypeOK
<1>3. CASE pc = "bootinfob"
  <2>1. job = <<Store("bootinfo", InitCtxt)>>
    BY <1>1, <1>3 DEF SeenOK
  <2>2. Head(job) = Store("bootinfo", InitCtxt) /\ Tail(job) = <<>>
    BY <2>1
  <2>3. /\ ~Busy' /\ flash'["bootinfob"] = flash["bootinfob"]
        /\ flash'["bootinfo"] = InitCtxt
    BY <1>1, <2>2, InfoCases DEF Store, Busy
  <2> QED
    BY <1>1, <1>3, <2>3 DEF QuietOK, QuietBoot, QuietApp, QuietLoop
<1>4. CASE pc = "sync"
  <2>1. job = <<Store("bootinfob", InitCtxt)>>
    BY <1>1, <1>4 DEF SeenOK
  <2>2. Head(job) = Store("bootinfob", InitCtxt) /\ Tail(job) = <<>>
    BY <2>1
  <2>3. /\ ~Busy' /\ flash'["bootinfo"] = flash["bootinfo"]
        /\ flash'["bootinfob"] = InitCtxt
    BY <1>1, <2>2, InfoCases DEF Store, Busy
  <2> QED
    BY <1>1, <1>2, <1>4, <2>3
       DEF QuietOK, QuietBoot, QuietApp, QuietLoop, Settled, CtxtEqual
<1>5. CASE pc = "app"
  <2>1. job = <<Store("bootinfo", ram)>>
    BY <1>1, <1>5 DEF QuietOK, QuietApp
  <2>2. Head(job) = Store("bootinfo", ram) /\ Tail(job) = <<>>
    BY <2>1
  <2>3. /\ ~Busy' /\ flash'["bootinfob"] = flash["bootinfob"]
        /\ flash'["bootinfo"] = ram
    BY <1>1, <2>2, InfoCases DEF Store, Busy
  <2> QED
    BY <1>1, <1>2, <1>5, <2>3
       DEF QuietOK, QuietBoot, QuietApp, QuietLoop, Settled, CtxtEqual
<1>6. CASE pc = "loop"
  <2>1. area = BackupArea
    BY <1>1, <1>6 DEF QuietOK, QuietLoop, TypeOK
  <2>2. CASE job = UpdateBootinfo(ram)
    <3>1. Head(job) = Store("bootinfo", ram) /\ Tail(job) = <<Store("bootinfob", ram)>>
      BY <2>2 DEF UpdateBootinfo
    <3>2. /\ job' = <<Store("bootinfob", ram)>> /\ flash'["bootinfo"] = ram
          /\ flash'["bootinfob"] = flash["bootinfob"]
      BY <1>1, <3>1, InfoCases DEF Store
    <3>3. job' # UpdateBootinfo(ram') /\ Busy'
      BY <3>2 DEF UpdateBootinfo, Busy
    <3> QED
      BY <1>1, <1>2, <1>6, <2>1, <3>2, <3>3, BackupIsNoPart, InfoCases
         DEF QuietOK, QuietBoot, QuietApp, QuietLoop, Kept
  <2>3. CASE job = <<Store("bootinfob", ram)>> /\ flash["bootinfo"] = ram
    <3>1. Head(job) = Store("bootinfob", ram) /\ Tail(job) = <<>>
      BY <2>3
    <3>2. job' = <<>> /\ flash'["bootinfo"] = ram /\ flash'["bootinfob"] = ram
      BY <1>1, <2>3, <3>1, InfoCases DEF Store
    <3>3. job' # UpdateBootinfo(ram') /\ ~Busy'
      BY <3>2 DEF UpdateBootinfo, Busy
    <3> QED
      BY <1>1, <1>2, <1>6, <2>1, <3>2, <3>3, BackupIsNoPart, InfoCases
         DEF QuietOK, QuietBoot, QuietApp, QuietLoop, Kept, Settled, CtxtEqual
  <2> QED
    BY <1>1, <1>6, <2>1, <2>2, <2>3 DEF CommitOK, Busy
<1>7. pc \notin {"bootinfo", "hung", "verify0", "verify1", "select"}
  BY <1>1 DEF RamOK, QuietOK, QuietBoot, QuietApp
<1> QED
  BY <1>3, <1>4, <1>5, <1>6, <1>7 DEF TypeOK, Steps

LEMMA QuietRecovery ==
  ASSUME IInvQuiet, powerLosses = 0, ReadBootinfo \/ ReadBackup \/ Reconcile
  PROVE  QuietOK'
<1> USE DEF IInvQuiet, IInvTable, IInvType
<1>1. CASE ReadBootinfo
  <2>1. /\ pc = "bootinfo" /\ pc' = "bootinfob" /\ UNCHANGED flash
        /\ job = <<>> /\ seen = Idle
    BY <1>1 DEF ReadBootinfo, diskVars, Busy, RamOK
  <2>2. CASE Settled
    <3>1. flash["bootinfo"] # Blank
      BY <2>2 DEF Settled, CrcOk
    <3>2. job' = <<>> /\ seen'.bi
      BY <1>1, <2>1, <2>2, <3>1 DEF ReadBootinfo, Settled, Idle
    <3> QED
      BY <2>1, <2>2, <3>2 DEF QuietOK, QuietBoot, QuietApp, QuietLoop, Busy, Settled
  <2>3. CASE flash["bootinfo"] = Blank /\ flash["bootinfob"] = Blank
    <3>1. ram' = InitCtxt /\ job' # <<>> /\ ~seen'.bi /\ seen'.blank
      BY <1>1, <2>1, <2>3 DEF ReadBootinfo, Idle
    <3> QED
      BY <2>1, <2>3, <3>1 DEF QuietOK, QuietBoot, QuietApp, QuietLoop, Busy
  <2> QED
    BY <2>1, <2>2, <2>3 DEF QuietOK, QuietBoot
<1>2. CASE ReadBackup
  <2>1. /\ pc = "bootinfob" /\ pc' = "sync" /\ UNCHANGED <<flash, ram>>
        /\ ~Busy /\ job = <<>> /\ ~seen.bb
        /\ seen \in [bi : BOOLEAN, bb : BOOLEAN, blank : BOOLEAN]
    BY <1>2 DEF ReadBackup, diskVars, Busy, SeenOK, TypeOK
  <2>2. CASE seen.bi /\ Settled
    <3>1. flash["bootinfob"] # Blank
      BY <2>2 DEF Settled, CrcOk
    <3>2. job' = <<>> /\ seen'.bi /\ seen'.bb
      BY <1>2, <2>1, <2>2, <3>1 DEF ReadBackup, Settled
    <3> QED
      BY <2>1, <2>2, <3>2 DEF QuietOK, QuietBoot, QuietApp, QuietLoop, Busy, Settled
  <2>3. CASE ~seen.bi /\ flash["bootinfob"] = Blank /\ ram = InitCtxt
             /\ flash["bootinfo"] = InitCtxt
    <3>1. job' # <<>> /\ ~seen'.bi /\ ~seen'.bb /\ seen'.blank
      BY <1>2, <2>1, <2>3 DEF ReadBackup
    <3> QED
      BY <2>1, <2>3, <3>1 DEF QuietOK, QuietBoot, QuietApp, QuietLoop, Busy
  <2> QED
    BY <2>1, <2>2, <2>3 DEF QuietOK, QuietBoot
<1>3. CASE Reconcile
  <2>1. /\ pc = "sync" /\ pc' = "select" /\ UNCHANGED <<flash, ram>>
        /\ ~Busy /\ job' = RecoveryJob
    BY <1>3 DEF Reconcile, diskVars
  <2>2. Settled /\ ram = flash["bootinfo"] /\ RecoveryJob = <<>>
    BY <2>1 DEF QuietOK, QuietBoot, SeenOK, RecoveryJob
  <2> QED
    BY <2>1, <2>2 DEF QuietOK, QuietBoot, QuietApp, QuietLoop, Busy, Settled
<1> QED
  BY <1>1, <1>2, <1>3

(* The partition that will not be written, when one is valid.              *)
LEMMA TargetSpares ==
  ASSUME Selected.part \in Parts, NEW p \in Parts, StateOf(p) = 1, Selected.force
  PROVE  StateOf(Other(UpdateTarget)) = 1 /\ Other(UpdateTarget) \in Parts
<1>1. CASE BothValid
  BY <1>1 DEF BothValid, UpdateTarget, Other, Parts
<1>2. CASE ~BothValid /\ StateOf(0) # 1
  BY <1>2 DEF UpdateTarget, Selected, Other, Parts
<1>3. CASE ~BothValid /\ StateOf(0) = 1
  BY <1>3 DEF BothValid, UpdateTarget, Selected, Other, Parts
<1> QED
  BY <1>1, <1>2, <1>3

LEMMA QuietSelect ==
  ASSUME IInvQuiet, powerLosses = 0, Select
  PROVE  QuietOK'
<1> USE DEF IInvQuiet, IInvTable, IInvType
<1>1. /\ pc = "select" /\ UNCHANGED <<flash, approm, job>> /\ job = <<>>
      /\ Settled /\ ram = flash["bootinfo"] /\ ram \in Ctxts
      /\ Vouched(ram) /\ PartKnown(ram)
      /\ hadGood' = (\E p \in Parts : StateOf(p) = 1)
  BY DEF Select, diskVars, storeVars, Busy, QuietOK, QuietBoot, TypeOK, TableOK, RamOK
<1>2. Selected.part \in Parts
  BY <1>1, SelectedOK
<1>3. UpdateTarget \in Parts
  BY <1>2 DEF UpdateTarget, Parts, Other
<1>4. \A p \in Parts : StateOf(p) = 1 => ram.apps[p] = approm[p] /\ IsFull(approm[p])
  BY <1>1 DEF StateOf, ValidatePartition, TypeOK, Vouched, HostCrc
<1>5. CASE Selected.force
  <2>1. /\ pc' = "loop" /\ ram' = [ram EXCEPT !.part = UpdateTarget]
        /\ area' = UpdateTarget
    BY <1>3, <1>5 DEF Select
  <2>2. ram'.apps = ram.apps /\ ram'.part = UpdateTarget
    BY <1>1, <2>1 DEF Ctxts
  <2>3. hadGood' => Kept(Other(ram.part))'
    <3> SUFFICES ASSUME hadGood' PROVE Kept(Other(ram.part))'
      OBVIOUS
    <3> DEFINE q == Other(UpdateTarget)
    <3>1. StateOf(q) = 1 /\ q \in Parts
      BY <1>1, <1>2, <1>5, TargetSpares
    <3>2. IsFull(approm[q]) /\ ram.apps[q] = approm[q]
      BY <1>4, <3>1
    <3>3. \A a \in InfoAreas : flash[a].apps = ram.apps
      BY <1>1, InfoCases DEF Settled, CtxtEqual
    <3> QED
      BY <1>1, <2>2, <3>2, <3>3 DEF Kept
  <2> QED
    BY <1>1, <1>3, <2>1, <2>2, <2>3
       DEF QuietOK, QuietBoot, QuietApp, QuietLoop, Busy, Settled, UpdateBootinfo
<1>6. CASE ~Selected.force
  <2>1. pc' \in {"verify0", "hung"}
    BY <1>6 DEF Select, JumpTo
  <2>2. \A p \in Parts : ram.apps[p] = approm[p]
    <3>1. StateOf(0) = 1 /\ StateOf(1) = 1
      BY <1>6 DEF Selected
    <3> QED
      BY <1>4, <3>1 DEF Parts
  <2> QED
    BY <1>1, <2>1, <2>2 DEF QuietOK, QuietBoot, QuietApp, QuietLoop, Busy, Settled
<1> QED
  BY <1>5, <1>6

LEMMA QuietTransfer ==
  ASSUME IInvQuiet, powerLosses = 0, "noend" \notin Env,
         \/ WriteRequest
         \/ \E i \in Images, ok \in BOOLEAN : DataBlock(i, ok)
         \/ AbortTransfer \/ EndCommand
  PROVE  QuietOK'
<1> USE DEF IInvQuiet, IInvTable, IInvType
<1>1. /\ pc = "loop" /\ ~Busy /\ UNCHANGED <<pc, job, ram, hadGood>>
      /\ ram.part \in Parts /\ approm \in [Parts -> Contents]
  BY DEF WriteRequest, DataBlock, AbortTransfer, EndCommand, InLoop, storeVars,
         bootVars, ghostVars, RamOK, TypeOK
<1>2. UNCHANGED flash
  BY BackupIsNoPart DEF WriteRequest, DataBlock, AbortTransfer, EndCommand,
         diskVars, CommitOK, TypeOK
<1>3. area' = area \/ area' = ram.part
  BY DEF WriteRequest, DataBlock, AbortTransfer, EndCommand, bootVars
<1>4. approm'[Other(ram.part)] = approm[Other(ram.part)]
  <2>1. Other(ram.part) # ram.part
    BY <1>1 DEF Other, Parts
  <2>2. area \in Parts => area = ram.part
    BY <1>1 DEF QuietOK, QuietLoop
  <2>3. \/ approm' = approm
        \/ area \in Parts /\ \E e : approm' = [approm EXCEPT ![area] = e]
    BY DEF WriteRequest, DataBlock, AbortTransfer, EndCommand, diskVars
  <2> QED
    BY <1>1, <2>1, <2>2, <2>3 DEF Other, Parts
<1> QED
  BY <1>1, <1>2, <1>3, <1>4
     DEF QuietOK, QuietBoot, QuietApp, QuietLoop, Kept, Busy, Settled

LEMMA QuietCrc ==
  ASSUME IInvQuiet, powerLosses = 0, CrcCommand
  PROVE  QuietOK'
<1> USE DEF IInvQuiet, IInvTable, IInvType
<1> DEFINE crc == IF area \in Parts THEN approm[area] ELSE Junk
           new == [ram EXCEPT !.apps[ram.part] = crc]
<1>1. /\ ram' = new
      /\ \/ job' = UpdateBootinfo(new) /\ area' = BackupArea
         \/ job' = job /\ area' = area
      /\ UNCHANGED <<flash, approm, pc, hadGood>>
      /\ pc = "loop" /\ job = <<>>
      /\ ram \in Ctxts /\ ram.part \in Parts
  BY DEF CrcCommand, InLoop, diskVars, Busy, TypeOK, RamOK
<1> HIDE DEF crc
<1>2. new.part = ram.part /\ new.apps[Other(ram.part)] = ram.apps[Other(ram.part)]
  BY <1>1 DEF Ctxts, Other, Parts
<1>3. Settled /\ Settled'
  BY <1>1 DEF QuietOK, QuietLoop, Busy, Settled
<1>4. hadGood' => Kept(Other(ram.part))'
  BY <1>1, <1>2 DEF QuietOK, QuietLoop, Kept
<1>5. Busy' => area' \notin Parts
  BY <1>1, BackupIsNoPart DEF Busy
<1>6. area' \in Parts => area' = ram'.part
  BY <1>1, <1>2, BackupIsNoPart DEF QuietOK, QuietLoop
<1> QED
  BY <1>1, <1>3, <1>4, <1>5, <1>6
     DEF QuietOK, QuietBoot, QuietApp, QuietLoop, Settled

LEMMA QuietVerify ==
  ASSUME IInvQuiet, powerLosses = 0, NEW p \in Parts, VerifyPartition(p)
  PROVE  QuietOK'
<1> USE DEF IInvQuiet, IInvTable, IInvType
<1>1. /\ pc \in {"verify0", "verify1"} /\ pc' \in {"verify1", "app"}
      /\ UNCHANGED <<flash, approm>>
      /\ Settled /\ flash["bootinfo"].apps[p] = approm[p]
      /\ \A q \in Parts : flash["bootinfo"].apps[q] = approm[q]
  BY DEF VerifyPartition, diskVars, QuietOK, QuietApp
<1>2. Loaded(flash["bootinfo"]) = flash["bootinfo"]
  BY <1>1 DEF Settled, Loaded
<1>3. ValidatePartition(flash["bootinfo"], p, approm[p]) = 1
  <2>1. approm[p] # Magic
    BY MarkersAssumption DEF TypeOK
  <2> QED
    BY <1>1, <2>1 DEF ValidatePartition
<1>4. ram' = flash["bootinfo"] /\ job' = <<>>
  BY <1>2, <1>3 DEF VerifyPartition
<1> QED
  BY <1>1, <1>4 DEF QuietOK, QuietBoot, QuietApp, QuietLoop, Busy, Settled, CtxtEqual

LEMMA QuietRequest ==
  ASSUME IInvQuiet, powerLosses = 0, NEW r \in Requests, RequestWrite(r)
  PROVE  QuietOK'
<1> USE DEF IInvQuiet, IInvTable, IInvType
<1>1. /\ \/ UNCHANGED <<ram, job>>
         \/ ram' = SwapPartitions(ram) /\ job' = <<Store("bootinfo", ram')>>
      /\ UNCHANGED <<flash, approm, pc>>
      /\ pc = "app" /\ job = <<>>
      /\ ram \in Ctxts /\ CtxtEqual(ram, flash["bootinfob"]) /\ Settled
  BY DEF RequestWrite, diskVars, Busy, TypeOK, QuietOK, QuietApp
<1>2. ram'.apps = ram.apps
  BY <1>1 DEF SwapPartitions, Ctxts
<1> QED
  BY <1>1, <1>2 DEF QuietOK, QuietBoot, QuietApp, QuietLoop, Busy, Settled, CtxtEqual

LEMMA QuietReset ==
  ASSUME IInvQuiet, powerLosses = 0, ResetCommand \/ AppReset
  PROVE  QuietOK'
<1>1. /\ pc' = "bootinfo" /\ UNCHANGED flash
      /\ ~Busy /\ pc \in {"loop", "app", "hung"}
  BY DEF ResetCommand, AppReset, InLoop, Resettable, Restart, diskVars
<1>2. Settled
  BY <1>1 DEF IInvQuiet, QuietOK, QuietApp, QuietLoop
<1> QED
  BY <1>1, <1>2 DEF QuietOK, QuietBoot, QuietApp, QuietLoop, Settled

LEMMA QuietAppRestart ==
  ASSUME IInvQuiet, powerLosses = 0, AppRestart
  PROVE  QuietOK'
<1>1. /\ pc = "app" /\ pc' = "verify0" /\ ~Busy /\ UNCHANGED <<flash, approm, job>>
  BY DEF AppRestart, diskVars, storeVars
<1>2. /\ Settled /\ \A p \in Parts : flash["bootinfo"].apps[p] = approm[p]
  BY <1>1 DEF IInvQuiet, QuietOK, QuietApp, Settled, CtxtEqual
<1> QED
  BY <1>1, <1>2 DEF QuietOK, QuietBoot, QuietApp, QuietLoop, Settled, Busy

LEMMA QuietNext ==
  ASSUME "noend" \notin Env, "setrom" \notin Env, "boot" \notin Env
  PROVE  IInvQuiet /\ [Next]_vars => IInvQuiet'
<1> SUFFICES ASSUME IInvQuiet, [Next]_vars PROVE IInvQuiet'
  OBVIOUS
<1>1. IInvTable'
  BY TableNext DEF IInvQuiet
<1>2. CommitOK'
  BY CommitNext DEF IInvQuiet, IInvTable, IInvCommit
<1>3. powerLosses' = 0 => QuietOK'
  <2>1. CASE UNCHANGED vars
    <3>1. UNCHANGED <<flash, approm, pc, job, ram, seen, area, hadGood, powerLosses>>
      BY <2>1 DEF vars, diskVars, storeVars, bootVars, ghostVars
    <3> QED
      BY <3>1 DEF IInvQuiet, QuietOK, QuietBoot, QuietApp, QuietLoop, Settled,
         Kept, Busy
  <2>2. CASE PowerLoss
    <3>1. powerLosses' # 0
      BY <2>2 DEF PowerLoss, IInvQuiet, IInvTable, IInvType, TypeOK
    <3> QED
      BY <3>1
  <2>3. CASE Next /\ ~PowerLoss
    <3>1. UNCHANGED powerLosses
      BY <2>3 DEF Next, EraseStep, ProgramStep, ReadBootinfo, ReadBackup, Reconcile,
         Select, WriteRequest, DataBlock, CrcCommand, AbortTransfer, EndCommand,
         SetRom, BootCommand, ResetCommand, VerifyPartition, RequestWrite, AppRestart,
         AppReset, ghostVars
    <3>2. ~BootCommand /\ \A p \in Parts : ~SetRom(p)
      BY DEF BootCommand, SetRom
    <3> QED
      BY <2>3, <3>1, <3>2, QuietErase, QuietProgram, QuietRecovery, QuietSelect,
         QuietTransfer, QuietCrc, QuietVerify, QuietRequest, QuietAppRestart,
         QuietReset
         DEF Next, IInvQuiet
  <2> QED
    BY <2>1, <2>2, <2>3
<1> QED
  BY <1>1, <1>2, <1>3 DEF IInvQuiet

(* As long as power holds, a boot that found a valid partition has one it  *)
(* would accept at every later moment: refused, damaged and abandoned      *)
(* transfers and completed updates, in any number, write the partition     *)
(* main() chose and never the other one (bootloader/main.c, the choice of  *)
(* _bctxt.part).  The host neither picks a partition nor sends a boot      *)
(* command, and ends every transfer.                                       *)
THEOREM LastGoodKept ==
  ASSUME "noend" \notin Env, "setrom" \notin Env, "boot" \notin Env
  PROVE  Spec => []LastGoodWithoutLoss
<1>1. Init => IInvQuiet
  <2>1. Init => CommitOK
    BY DEF Init, CommitOK
  <2> QED
    BY <2>1, TypeInit, TableInit, QuietInit DEF IInvQuiet, IInvTable
<1>2. IInvQuiet /\ [Next]_vars => IInvQuiet'
  BY QuietNext
<1>3. IInvQuiet => LastGoodWithoutLoss
  <2> SUFFICES ASSUME IInvQuiet, powerLosses = 0, pc = "loop", hadGood
               PROVE  \E p \in Parts : Fit(p)
    BY DEF LastGoodWithoutLoss, LastGoodImageKept
  <2> DEFINE q == Other(ram.part)
  <2>1. q \in Parts
    BY DEF IInvQuiet, IInvTable, IInvType, RamOK, Other, Parts
  <2>2. Kept(q) /\ (CrcOk(flash["bootinfo"]) \/ CrcOk(flash["bootinfob"]))
    BY DEF IInvQuiet, QuietOK, QuietLoop
  <2>3. Fit(q)
    BY <2>2, InfoCases DEF Kept, Fit, TableInForce, Loaded
  <2> QED
    BY <2>1, <2>3
<1> QED
  BY <1>1, <1>2, <1>3, PTL DEF Spec

-----------------------------------------------------------------------------
(***************************************************************************)
(* UpdateAtomic with one power loss.  Until it comes, every readable copy  *)
(* is a table in agreed; from then on only the copy that a boot ends up    *)
(* with has to be, as nothing cuts a store short any more.                 *)
(***************************************************************************)
Agreed(a) == CrcOk(flash[a]) => flash[a].apps \in agreed

(* bootinfo is readable, with an agreed table.                             *)
InForce == CrcOk(flash["bootinfo"]) /\ flash["bootinfo"].apps \in agreed

(* The stores still to be carried out: of the backup only, of bootinfo     *)
(* only, or wipes.                                                         *)
ToBackup == \A i \in 1..Len(job) : job[i].area = "bootinfob"
ToFirst == \A i \in 1..Len(job) : job[i].area = "bootinfo" /\ job[i].val # Blank
Wiping == \A i \in 1..Len(job) : job[i].val = Blank
AgreedJob == \A i \in 1..Len(job) : job[i].val # Blank => job[i].val.apps \in agreed

(* Nothing but empty tables has been stored, or is about to be.            *)
Empty(c) == c.apps = InitCtxt.apps
Fresh ==
  /\ InitCtxt.apps \in agreed
  /\ \A a \in InfoAreas : CrcOk(flash[a]) => Empty(flash[a])
  /\ \A i \in 1..Len(job) : job[i].val # Blank => Empty(job[i].val)

(* Until there have been two copies, but for the first commit, and while a *)
(* recovery that found none formats the areas.                             *)
Formatting ==
  \/ ~provisioned /\ ~(pc = "loop" /\ Busy)
  \/ pc = "sync" /\ ~seen.bi /\ ~seen.bb

FreshOK ==
  /\ (\A a \in InfoAreas : CrcOk(flash[a])) => provisioned
  /\ Formatting => Fresh

(* The recovery keeps the agreed table or knows where there is one.  A     *)
(* table it has not read from bootinfo matches no partition.               *)
RecoverOK ==
  /\ pc = "bootinfo" => Agreed("bootinfo") /\ (InForce \/ Agreed("bootinfob"))
  /\ pc = "bootinfob" => IF seen.bi THEN InForce ELSE Agreed("bootinfob")
  /\ pc = "sync" => IF seen.bi THEN InForce ELSE (seen.bb => Agreed("bootinfob"))
  /\ pc \in {"bootinfob", "sync"} /\ ~seen.bi => ram \in {InitCtxt, JunkCtxt}
  /\ pc = "select" =>
       /\ \/ ram \in {InitCtxt, JunkCtxt}
          \/ CrcOk(flash["bootinfo"]) /\ ram = flash["bootinfo"] /\ ToBackup
       /\ ToBackup \/ ToFirst \/ Wiping
       /\ provisioned => \/ InForce /\ ToBackup
                      \/ (Busy /\ ToFirst /\ AgreedJob)

(* What is stored while the device serves is the table in RAM; the         *)
(* application stores tables that fit both partitions.                     *)
LoopOK ==
  pc = "loop" =>
    IF Busy THEN area = BackupArea /\ ram.apps \in agreed
    ELSE provisioned => InForce

AppOK ==
  /\ pc = "hung" /\ provisioned => InForce
  /\ pc \in {"verify0", "verify1", "app"} =>
       /\ provisioned /\ approm \in agreed
       /\ ~Busy => CrcOk(flash["bootinfo"])
       /\ CrcOk(flash["bootinfo"]) => flash["bootinfo"].apps = approm
       /\ ToFirst /\ \A i \in 1..Len(job) : job[i].val.apps = approm
       /\ pc = "app" => ram.apps = approm

WholeOK ==
  powerLosses = 0 =>
    /\ \A a \in InfoAreas : Agreed(a)
    /\ pc = "loop" => provisioned

AtomicOK == FreshOK /\ RecoverOK /\ LoopOK /\ AppOK /\ WholeOK

IInvAtomic == IInvCopies /\ IInvQuiet /\ AtomicOK

LEMMA AtomicInit == Init => AtomicOK
BY InfoCases DEF Init, AtomicOK, FreshOK, Formatting, Fresh, RecoverOK, Agreed, LoopOK, AppOK,
                 WholeOK, Idle, CrcOk

(* The head of the job, and what is left of it.                            *)
LEMMA FlashStep ==
  ASSUME IInvAtomic, EraseStep \/ ProgramStep
  PROVE  /\ Busy /\ 1 \in 1..Len(job) /\ job[1].area \in InfoAreas
         /\ flash' = [flash EXCEPT ![job[1].area] = flash'[job[1].area]]
         /\ flash \in [InfoAreas -> Infos]
         /\ UNCHANGED <<approm, pc, ram, seen, area, powerLosses>>
         /\ pc \notin {"bootinfo", "hung"}
<1>1. Busy /\ TypeOK /\ RamOK
  BY DEF EraseStep, ProgramStep, IInvAtomic, IInvCopies, IInvType
<1>2. Head(job) \in [area : InfoAreas, val : Infos] /\ Head(job) = job[1] /\ 1 \in 1..Len(job)
  BY <1>1, JobHead
<1>3. UNCHANGED <<approm, pc, ram, seen, area, powerLosses>>
  BY DEF EraseStep, ProgramStep, bootVars, ghostVars
<1>4. flash \in [InfoAreas -> Infos]
  BY <1>1 DEF TypeOK
<1>5. \E v : flash' = [flash EXCEPT ![job[1].area] = v]
  BY <1>2 DEF EraseStep, ProgramStep
<1>6. job[1].area \in InfoAreas
  BY <1>2
<1>7. flash' = [flash EXCEPT ![job[1].area] = flash'[job[1].area]]
  BY <1>4, <1>5, <1>6
<1>. QED BY <1>1, <1>2, <1>3, <1>4, <1>6, <1>7 DEF RamOK

LEMMA JobLeft ==
  ASSUME TypeOK, Busy, job' = Tail(job) \/ job' = job
  PROVE  /\ ToBackup => ToBackup'
         /\ ToFirst => ToFirst'
         /\ Wiping => Wiping'
         /\ \A i \in 1..Len(job') : \E j \in 1..Len(job) : job'[i] = job[j]
<1>1. \A i \in 1..Len(job') : \E j \in 1..Len(job) : job'[i] = job[j]
  <2>1. CASE job' = job
    BY <2>1
  <2>2. CASE job' = Tail(job)
    BY <2>2, JobHead
  <2>. QED BY <2>1, <2>2
<1>2. ToBackup => ToBackup'
  BY <1>1 DEF ToBackup
<1>3. ToFirst => ToFirst'
  BY <1>1 DEF ToFirst
<1>4. Wiping => Wiping'
  BY <1>1 DEF Wiping
<1>. QED BY <1>1, <1>2, <1>3, <1>4

LEMMA AtomicErase ==
  ASSUME IInvAtomic, EraseStep
  PROVE  AtomicOK'
<1>. DEFINE a == job[1].area
<1>1. /\ Busy /\ a \in InfoAreas /\ flash \in [InfoAreas -> Infos] /\ 1 \in 1..Len(job)
      /\ UNCHANGED <<approm, pc, ram, seen, area, powerLosses>>
      /\ pc \notin {"bootinfo", "hung"}
  BY FlashStep
<1>2. TypeOK /\ IInvType
  BY DEF IInvAtomic, IInvCopies, IInvType
<1>3. /\ flash' = [flash EXCEPT ![a] = Blank] /\ UNCHANGED <<provisioned, agreed>>
      /\ IF job[1].val = Blank THEN job' = Tail(job) ELSE job' = job
  BY <1>1, <1>2, JobHead DEF EraseStep, ghostVars
<1>4. ~CrcOk(flash'[a]) /\ \A b \in InfoAreas : b # a => flash'[b] = flash[b]
  BY <1>1, <1>3 DEF CrcOk
<1>5. /\ \A b \in InfoAreas : CrcOk(flash'[b]) => b # a /\ flash'[b] = flash[b]
      /\ \A b \in InfoAreas : Agreed(b) => Agreed(b)'
  BY <1>3, <1>4 DEF Agreed
<1>6. job[1].val = Blank => ~provisioned
  BY <1>1 DEF IInvAtomic, IInvCopies, CopiesOK
<1>7. /\ ToBackup => ToBackup'
      /\ ToFirst => ToFirst'
      /\ Wiping => Wiping'
      /\ \A i \in 1..Len(job') : \E j \in 1..Len(job) : job'[i] = job[j]
  BY <1>1, <1>2, <1>3, JobLeft
<1>8. job[1].val # Blank => job' = job /\ Busy'
  BY <1>1, <1>3 DEF Busy
<1>9. pc = "loop" => job[1].val # Blank
  <2>1. pc = "loop" => area = BackupArea
    BY <1>1 DEF IInvAtomic, AtomicOK, LoopOK
  <2>2. ram # Blank
    BY <1>2, CtxtReadable DEF TypeOK
  <2>. QED BY <1>1, <2>1, <2>2
           DEF IInvAtomic, IInvQuiet, CommitOK, UpdateBootinfo, Store, Busy
<1>10. FreshOK'
  <2>1. ~(\A b \in InfoAreas : CrcOk(flash'[b]))
    BY <1>1, <1>4
  <2>2. Formatting' => Formatting
    BY <1>1, <1>3, <1>8, <1>9 DEF Formatting
  <2>3. Fresh => Fresh'
    BY <1>3, <1>5, <1>7 DEF Fresh
  <2>. QED BY <2>1, <2>2, <2>3 DEF FreshOK, IInvAtomic, AtomicOK
<1>11. a = "bootinfob" => (InForce => InForce')
  BY <1>1, <1>3, <1>4, InfoCases DEF InForce
<1>12. RecoverOK'
  <2>1. CASE pc = "bootinfob"
    <3>1. ~seen.bi
      BY <1>1, <1>2, <2>1 DEF IInvType, SeenOK
    <3>. QED BY <1>1, <1>5, <2>1, <3>1, InfoCases DEF RecoverOK, IInvAtomic, AtomicOK
  <2>2. CASE pc = "sync"
    <3>1. ~seen.bb /\ job = <<Store("bootinfob", InitCtxt)>>
      BY <1>1, <1>2, <2>2 DEF IInvType, SeenOK
    <3>2. a = "bootinfob"
      BY <3>1 DEF Store
    <3>. QED BY <1>1, <1>11, <2>2, <3>1, <3>2 DEF RecoverOK, IInvAtomic, AtomicOK
  <2>3. CASE pc = "select"
    <3>1. ToBackup => a = "bootinfob"
      BY <1>1 DEF ToBackup
    <3>2. \/ ram' \in {InitCtxt, JunkCtxt}
          \/ CrcOk(flash'["bootinfo"]) /\ ram' = flash'["bootinfo"] /\ ToBackup'
      BY <1>1, <1>4, <1>7, <2>3, <3>1, InfoCases DEF RecoverOK, IInvAtomic, AtomicOK
    <3>3. (ToBackup \/ ToFirst \/ Wiping)'
      BY <1>7, <2>3 DEF RecoverOK, IInvAtomic, AtomicOK
    <3>4. ASSUME provisioned'
          PROVE  (InForce /\ ToBackup)' \/ (Busy /\ ToFirst /\ AgreedJob)'
      <4>1. job' = job /\ Busy' /\ provisioned
        BY <1>3, <1>6, <1>8, <3>4
      <4>2. CASE InForce /\ ToBackup
        BY <1>7, <1>11, <3>1, <4>2
      <4>3. CASE Busy /\ ToFirst /\ AgreedJob
        BY <1>3, <1>7, <4>1, <4>3 DEF AgreedJob
      <4>. QED BY <2>3, <4>1, <4>2, <4>3 DEF RecoverOK, IInvAtomic, AtomicOK
    <3>. QED BY <1>1, <2>3, <3>2, <3>3, <3>4 DEF RecoverOK
  <2>. QED BY <1>1, <2>1, <2>2, <2>3 DEF RecoverOK
<1>13. LoopOK'
  BY <1>1, <1>3, <1>8, <1>9 DEF LoopOK, IInvAtomic, AtomicOK
<1>14. AppOK'
  <2>. SUFFICES ASSUME pc \in {"verify0", "verify1", "app"} PROVE AppOK'
    BY <1>1 DEF AppOK
  <2>1. /\ provisioned /\ approm \in agreed /\ ToFirst
        /\ \A i \in 1..Len(job) : job[i].val.apps = approm
        /\ pc = "app" => ram.apps = approm
    BY DEF AppOK, IInvAtomic, AtomicOK
  <2>2. a = "bootinfo" /\ job[1].val # Blank
    BY <1>1, <2>1 DEF ToFirst
  <2>3. ~CrcOk(flash'["bootinfo"]) /\ Busy' /\ job' = job
    BY <1>4, <1>8, <2>2
  <2>. QED BY <1>1, <1>3, <1>7, <2>1, <2>3 DEF AppOK
<1>15. WholeOK'
  BY <1>1, <1>3, <1>5 DEF WholeOK, IInvAtomic, AtomicOK
<1>. QED BY <1>10, <1>12, <1>13, <1>14, <1>15 DEF AtomicOK

(* The head of the job programmed.                                         *)
LEMMA ProgramEffect ==
  ASSUME IInvAtomic, ProgramStep
  PROVE  /\ Busy /\ 1 \in 1..Len(job) /\ job[1].area \in InfoAreas
         /\ UNCHANGED <<approm, pc, ram, seen, area, powerLosses>>
         /\ flash'[job[1].area] = job[1].val
         /\ \A b \in InfoAreas : b # job[1].area => flash'[b] = flash[b]
         /\ job[1].val \in Ctxts /\ job[1].val # Blank /\ CrcOk(job[1].val)
         /\ job' = Tail(job) /\ TypeOK
         /\ provisioned' = (provisioned \/ \A b \in InfoAreas : CrcOk(flash'[b]))
         /\ agreed' = IF Len(job) = 1 /\ pc \in {"loop", "verify0", "verify1", "app"}
                        THEN {job[1].val.apps} ELSE agreed
<1>1. /\ Busy /\ 1 \in 1..Len(job) /\ job[1].area \in InfoAreas
      /\ UNCHANGED <<approm, pc, ram, seen, area, powerLosses>>
      /\ flash \in [InfoAreas -> Infos]
  BY FlashStep
<1>2. TypeOK /\ half /\ StoredOK /\ RamOK
  BY DEF ProgramStep, IInvAtomic, IInvCopies, IInvType
<1>3. Head(job) = job[1]
  BY <1>1, <1>2, JobHead
<1>4. job[1].val \in Ctxts /\ job[1].val # Blank /\ CrcOk(job[1].val)
  BY <1>1, <1>2, CtxtReadable DEF StoredOK, RamOK
<1>5. flash' = [flash EXCEPT ![job[1].area] = job[1].val]
  BY <1>3 DEF ProgramStep
<1>6. /\ flash'[job[1].area] = job[1].val
      /\ \A b \in InfoAreas : b # job[1].area => flash'[b] = flash[b]
  BY <1>1, <1>5
<1>7. /\ job' = Tail(job)
      /\ provisioned' = (provisioned \/ \A b \in InfoAreas : CrcOk(flash'[b]))
      /\ agreed' = IF Len(job) = 1 /\ pc \in {"loop", "verify0", "verify1", "app"}
                     THEN {job[1].val.apps} ELSE agreed
  BY <1>3 DEF ProgramStep
<1>. QED BY <1>1, <1>2, <1>4, <1>6, <1>7

(* Stores of empty tables leave nothing but empty tables.                  *)
LEMMA FreshKept ==
  ASSUME IInvAtomic, ProgramStep, Fresh, agreed' = agreed
  PROVE  Fresh'
<1>1. /\ Busy /\ 1 \in 1..Len(job) /\ TypeOK /\ job' = Tail(job)
      /\ flash'[job[1].area] = job[1].val /\ job[1].val # Blank
      /\ \A b \in InfoAreas : b # job[1].area => flash'[b] = flash[b]
  BY ProgramEffect
<1>2. \A i \in 1..Len(job') : \E j \in 1..Len(job) : job'[i] = job[j]
  BY <1>1, JobLeft
<1>3. Empty(job[1].val)
  BY <1>1 DEF Fresh
<1>4. \A b \in InfoAreas : CrcOk(flash'[b]) => Empty(flash'[b])
  BY <1>1, <1>3 DEF Fresh
<1>5. \A i \in 1..Len(job') : job'[i].val # Blank => Empty(job'[i].val)
  BY <1>2 DEF Fresh
<1>. QED BY <1>4, <1>5 DEF Fresh

LEMMA ProgramReading ==
  ASSUME IInvAtomic, ProgramStep, pc \in {"bootinfob", "sync"}
  PROVE  AtomicOK'
<1>1. /\ Busy /\ UNCHANGED <<approm, pc, ram, seen, area, powerLosses>>
      /\ flash'[job[1].area] = job[1].val
      /\ \A b \in InfoAreas : b # job[1].area => flash'[b] = flash[b]
      /\ provisioned' = (provisioned \/ \A b \in InfoAreas : CrcOk(flash'[b]))
      /\ agreed' = agreed
  BY ProgramEffect
<1>2. AtomicOK /\ SeenOK /\ RecoveryOK /\ (powerLosses = 0 => QuietBoot)
  BY DEF IInvAtomic, IInvCopies, IInvType, IInvQuiet, QuietOK
<1>3. FreshOK'
  <2>1. Formatting' => Formatting
    BY <1>1 DEF Formatting
  <2>2. Fresh => Fresh'
    BY <1>1, FreshKept
  <2>. QED BY <1>1, <1>2, <2>1, <2>2 DEF FreshOK, AtomicOK
<1>4. CASE pc = "bootinfob"
  <2>1. ~seen.bi /\ seen.blank /\ job = <<Store("bootinfo", InitCtxt)>>
    BY <1>1, <1>2, <1>4 DEF SeenOK
  <2>2. job[1].area = "bootinfo" /\ job[1].val = InitCtxt
    BY <2>1 DEF Store
  <2>3. flash'["bootinfo"] = InitCtxt /\ flash'["bootinfob"] = flash["bootinfob"]
    BY <1>1, <2>2, InfoCases
  <2>4. Agreed("bootinfob") => Agreed("bootinfob")'
    BY <1>1, <2>3 DEF Agreed
  <2>5. RecoverOK'
    BY <1>1, <1>2, <1>4, <2>1, <2>4 DEF RecoverOK, AtomicOK
  <2>6. WholeOK'
    <3> SUFFICES ASSUME powerLosses = 0 PROVE WholeOK'
      BY <1>1 DEF WholeOK
    <3>1. ~CrcOk(flash["bootinfob"])
      BY <1>2, <1>4, <2>1 DEF QuietBoot, CrcOk
    <3>2. ~provisioned
      BY <1>2, <1>4, <2>1, <3>1 DEF RecoveryOK
    <3>3. InitCtxt.apps \in agreed
      BY <1>2, <1>4, <3>2 DEF AtomicOK, FreshOK, Formatting, Fresh
    <3>4. Agreed("bootinfo")'
      BY <1>1, <2>3, <3>3 DEF Agreed
    <3>5. Agreed("bootinfob")'
      BY <1>2, <2>4, InfoCases DEF AtomicOK, WholeOK
    <3>. QED BY <1>1, <1>4, <3>4, <3>5, InfoCases DEF WholeOK
  <2>. QED BY <1>1, <1>3, <1>4, <2>5, <2>6 DEF AtomicOK, LoopOK, AppOK
<1>5. CASE pc = "sync"
  <2>1. ~seen.bb /\ job = <<Store("bootinfob", InitCtxt)>>
    BY <1>1, <1>2, <1>5 DEF SeenOK
  <2>2. job[1].area = "bootinfob" /\ job[1].val = InitCtxt
    BY <2>1 DEF Store
  <2>3. flash'["bootinfob"] = InitCtxt /\ flash'["bootinfo"] = flash["bootinfo"]
    BY <1>1, <2>2, InfoCases
  <2>4. (InForce => InForce') /\ (Agreed("bootinfo") => Agreed("bootinfo")')
    BY <1>1, <2>3 DEF Agreed, InForce
  <2>5. RecoverOK'
    BY <1>1, <1>2, <1>5, <2>1, <2>4 DEF RecoverOK, AtomicOK
  <2>6. WholeOK'
    <3> SUFFICES ASSUME powerLosses = 0 PROVE WholeOK'
      BY <1>1 DEF WholeOK
    <3>1. ~seen.bi /\ ~seen.bb
      BY <1>1, <1>2, <1>5, <2>1 DEF QuietBoot
    <3>2. InitCtxt.apps \in agreed
      BY <1>2, <1>5, <3>1 DEF AtomicOK, FreshOK, Formatting, Fresh
    <3>3. Agreed("bootinfob")'
      BY <1>1, <2>3, <3>2 DEF Agreed
    <3>4. Agreed("bootinfo")'
      BY <1>2, <2>4, InfoCases DEF AtomicOK, WholeOK
    <3>. QED BY <1>1, <1>5, <3>3, <3>4, InfoCases DEF WholeOK
  <2>. QED BY <1>1, <1>3, <1>5, <2>5, <2>6 DEF AtomicOK, LoopOK, AppOK
<1>. QED BY <1>4, <1>5

LEMMA ProgramRestoring ==
  ASSUME IInvAtomic, ProgramStep, pc = "select"
  PROVE  AtomicOK'
<1>. DEFINE a == job[1].area
            v == job[1].val
<1>1. /\ Busy /\ UNCHANGED <<approm, pc, ram, seen, area, powerLosses>>
      /\ 1 \in 1..Len(job) /\ a \in InfoAreas /\ TypeOK /\ job' = Tail(job)
      /\ flash'[a] = v /\ v # Blank /\ CrcOk(v)
      /\ \A b \in InfoAreas : b # a => flash'[b] = flash[b]
      /\ provisioned' = (provisioned \/ \A b \in InfoAreas : CrcOk(flash'[b]))
      /\ agreed' = agreed
  BY ProgramEffect
<1>2. /\ ToBackup => ToBackup'
      /\ ToFirst => ToFirst'
      /\ Wiping => Wiping'
      /\ \A i \in 1..Len(job') : \E j \in 1..Len(job) : job'[i] = job[j]
  BY <1>1, JobLeft
<1>3. Fresh => Fresh'
  BY <1>1, FreshKept
<1>4. RecoverOK /\ FreshOK /\ (powerLosses = 0 => QuietBoot)
  BY DEF IInvAtomic, IInvQuiet, QuietOK, AtomicOK
<1>5. FreshOK'
  <2>1. Formatting' => Formatting
    BY <1>1 DEF Formatting
  <2>. QED BY <1>1, <1>3, <1>4, <2>1 DEF FreshOK
<1>6. ToBackup => a = "bootinfob" /\ flash'["bootinfo"] = flash["bootinfo"]
  BY <1>1, InfoCases DEF ToBackup
<1>7. ToFirst => a = "bootinfo"
  BY <1>1 DEF ToFirst
<1>8. \/ ram' \in {InitCtxt, JunkCtxt}
      \/ CrcOk(flash'["bootinfo"]) /\ ram' = flash'["bootinfo"] /\ ToBackup'
  BY <1>1, <1>2, <1>4, <1>6 DEF RecoverOK
<1>9. ~Wiping
  BY <1>1 DEF Wiping
<1>10. ToBackup \/ ToFirst
  BY <1>4, <1>9 DEF RecoverOK
<1>11. ~Busy' => ToBackup'
  BY DEF Busy, ToBackup
<1>12. ASSUME provisioned'
       PROVE  (InForce /\ ToBackup)' \/ (Busy /\ ToFirst /\ AgreedJob)'
  <2>1. CASE provisioned /\ InForce /\ ToBackup
    BY <1>1, <1>2, <1>6, <2>1 DEF InForce
  <2>2. CASE provisioned /\ Busy /\ ToFirst /\ AgreedJob
    <3>1. InForce'
      BY <1>1, <1>7, <2>2 DEF InForce, AgreedJob
    <3>2. AgreedJob'
      BY <1>1, <1>2, <2>2 DEF AgreedJob
    <3>. QED BY <1>2, <1>11, <2>2, <3>1, <3>2
  <2>3. CASE ~provisioned
    <3>1. Fresh'
      BY <1>1, <1>3, <1>4, <2>3 DEF FreshOK, Formatting
    <3>2. CrcOk(flash'["bootinfo"])
      BY <1>1, <1>12, <2>3, InfoCases
    <3>3. InForce'
      BY <3>1, <3>2, InfoCases DEF InForce, Fresh, Empty
    <3>4. AgreedJob'
      BY <3>1 DEF AgreedJob, Fresh, Empty
    <3>. QED BY <1>2, <1>10, <1>11, <3>3, <3>4
  <2>. QED BY <1>4, <2>1, <2>2, <2>3 DEF RecoverOK
<1>13. RecoverOK'
  BY <1>1, <1>2, <1>8, <1>10, <1>12 DEF RecoverOK
<1>14. powerLosses # 0
  BY <1>1, <1>4 DEF QuietBoot
<1>. QED BY <1>1, <1>5, <1>13, <1>14 DEF AtomicOK, LoopOK, AppOK, WholeOK

LEMMA ProgramCommit ==
  ASSUME IInvAtomic, ProgramStep, pc = "loop"
  PROVE  AtomicOK'
<1>. DEFINE a == job[1].area
            v == job[1].val
<1>1. /\ Busy /\ UNCHANGED <<approm, pc, ram, seen, area, powerLosses>>
      /\ job' = Tail(job)
      /\ flash'[a] = v /\ CrcOk(v)
      /\ \A b \in InfoAreas : b # a => flash'[b] = flash[b]
      /\ provisioned' = (provisioned \/ \A b \in InfoAreas : CrcOk(flash'[b]))
      /\ agreed' = IF Len(job) = 1 THEN {v.apps} ELSE agreed
  BY ProgramEffect
<1>2. AtomicOK /\ CommitOK
  BY DEF IInvAtomic, IInvQuiet
<1>3. area = BackupArea /\ ram.apps \in agreed
  BY <1>1, <1>2 DEF AtomicOK, LoopOK
<1>4. CASE job = UpdateBootinfo(ram)
  <2>1. /\ a = "bootinfo" /\ v = ram /\ Len(job) = 2
        /\ job' = <<Store("bootinfob", ram)>>
    BY <1>1, <1>4 DEF UpdateBootinfo, Store
  <2>2. Busy' /\ agreed' = agreed
    BY <1>1, <2>1 DEF Busy
  <2>3. Agreed("bootinfo")' /\ (Agreed("bootinfob") => Agreed("bootinfob")')
    BY <1>1, <1>3, <2>1, <2>2, InfoCases DEF Agreed
  <2>4. FreshOK'
    BY <1>1, <2>2 DEF FreshOK, Formatting
  <2>5. LoopOK'
    BY <1>1, <1>3, <2>2 DEF LoopOK
  <2>6. WholeOK'
    BY <1>1, <1>2, <2>3, InfoCases DEF WholeOK, AtomicOK
  <2>. QED BY <1>1, <2>4, <2>5, <2>6 DEF AtomicOK, RecoverOK, AppOK
<1>5. CASE job = <<Store("bootinfob", ram)>> /\ flash["bootinfo"] = ram
  <2>1. a = "bootinfob" /\ v = ram /\ Len(job) = 1 /\ job' = <<>>
    BY <1>1, <1>5 DEF Store
  <2>2. /\ ~Busy' /\ agreed' = {ram.apps} /\ CrcOk(ram)
        /\ flash'["bootinfo"] = ram /\ flash'["bootinfob"] = ram
    BY <1>1, <1>5, <2>1, InfoCases DEF Busy
  <2>3. provisioned' /\ Agreed("bootinfo")' /\ Agreed("bootinfob")' /\ InForce'
    BY <1>1, <2>2, InfoCases DEF Agreed, InForce
  <2>. QED BY <1>1, <2>2, <2>3, InfoCases
           DEF AtomicOK, FreshOK, Formatting, RecoverOK, LoopOK, AppOK, WholeOK
<1>. QED BY <1>1, <1>2, <1>3, <1>4, <1>5 DEF CommitOK, Busy

LEMMA ProgramByApp ==
  ASSUME IInvAtomic, ProgramStep, pc \in {"verify0", "verify1", "app"}
  PROVE  AtomicOK'
<1>. DEFINE a == job[1].area
            v == job[1].val
<1>1. /\ Busy /\ UNCHANGED <<approm, pc, ram, seen, area, powerLosses>>
      /\ 1 \in 1..Len(job) /\ TypeOK /\ job' = Tail(job)
      /\ flash'[a] = v /\ CrcOk(v)
      /\ \A b \in InfoAreas : b # a => flash'[b] = flash[b]
      /\ provisioned' = (provisioned \/ \A b \in InfoAreas : CrcOk(flash'[b]))
      /\ agreed' = IF Len(job) = 1 THEN {v.apps} ELSE agreed
  BY ProgramEffect
<1>2. /\ provisioned /\ approm \in agreed /\ ToFirst
      /\ \A i \in 1..Len(job) : job[i].val.apps = approm
      /\ pc = "app" => ram.apps = approm
  BY DEF IInvAtomic, AtomicOK, AppOK
<1>3. a = "bootinfo" /\ v.apps = approm /\ approm \in agreed' /\ provisioned'
  BY <1>1, <1>2 DEF ToFirst
<1>4. ToFirst' /\ \A i \in 1..Len(job') : job'[i].val.apps = approm
  BY <1>1, <1>2, JobLeft
<1>5. CrcOk(flash'["bootinfo"]) /\ flash'["bootinfo"].apps = approm
  BY <1>1, <1>3
<1>6. AppOK'
  BY <1>1, <1>2, <1>3, <1>4, <1>5 DEF AppOK
<1>7. WholeOK'
  <2> SUFFICES ASSUME powerLosses = 0 PROVE WholeOK'
    BY <1>1 DEF WholeOK
  <2>1. QuietApp
    BY DEF IInvAtomic, IInvQuiet, QuietOK
  <2>2. pc = "app" /\ CtxtEqual(ram, flash["bootinfob"])
    BY <1>1, <2>1 DEF QuietApp
  <2>3. flash'["bootinfob"].apps = approm
    BY <1>1, <1>2, <1>3, <2>2, InfoCases DEF CtxtEqual
  <2>. QED BY <1>1, <1>3, <1>5, <2>2, <2>3, InfoCases DEF WholeOK, Agreed
<1>. QED BY <1>1, <1>3, <1>6, <1>7
         DEF AtomicOK, FreshOK, Formatting, RecoverOK, LoopOK

LEMMA AtomicProgram ==
  ASSUME IInvAtomic, ProgramStep
  PROVE  AtomicOK'
<1>1. pc \notin {"bootinfo", "hung"} /\ pc \in Steps
  BY FlashStep DEF IInvAtomic, IInvCopies, IInvType, TypeOK
<1>. QED BY <1>1, ProgramReading, ProgramRestoring, ProgramCommit, ProgramByApp DEF Steps

LEMMA AtomicRead ==
  ASSUME IInvAtomic, ReadBootinfo \/ ReadBackup
  PROVE  AtomicOK'
<1>1. /\ ~Busy /\ job = <<>>
      /\ UNCHANGED <<flash, approm, area, powerLosses, provisioned, agreed>>
      /\ pc \in {"bootinfo", "bootinfob"} /\ pc' \in {"bootinfob", "sync"}
  BY DEF ReadBootinfo, ReadBackup, diskVars, ghostVars, Busy
<1>2. AtomicOK /\ SeenOK /\ RecoveryOK /\ RamOK /\ TypeOK
  BY DEF IInvAtomic, IInvCopies, IInvType
<1>3. \/ job' = <<>>
      \/ job' = <<Store("bootinfo", InitCtxt)>>
      \/ job' = <<Store("bootinfob", InitCtxt)>>
  BY <1>1 DEF ReadBootinfo, ReadBackup
<1>4. Fresh => Fresh'
  <2>1. \A i \in 1..Len(job') : job'[i].val = InitCtxt
    BY <1>3 DEF Store
  <2>. QED BY <1>1, <2>1 DEF Fresh, Empty
<1>5. Formatting' => ~provisioned
  <2>1. CASE ReadBootinfo
    BY <1>1, <2>1 DEF ReadBootinfo, Formatting
  <2>2. CASE ReadBackup
    <3>1. pc = "bootinfob" /\ seen'.bi = seen.bi /\ (CrcOk(flash["bootinfob"]) => seen'.bb)
      BY <1>2, <2>2 DEF ReadBackup, CrcOk, TypeOK
    <3>. QED BY <1>1, <1>2, <3>1 DEF Formatting, RecoveryOK
  <2>. QED BY <2>1, <2>2
<1>6. FreshOK'
  BY <1>1, <1>2, <1>4, <1>5 DEF FreshOK, Formatting, AtomicOK
<1>7. /\ (InForce => InForce')
      /\ Agreed("bootinfo") = Agreed("bootinfo")'
      /\ (Agreed("bootinfob") => Agreed("bootinfob")')
  BY <1>1 DEF InForce, Agreed
<1>8. RecoverOK'
  <2>1. CASE ReadBootinfo
    <3>1. pc = "bootinfo" /\ pc' = "bootinfob" /\ seen = Idle
      BY <1>2, <2>1 DEF ReadBootinfo, RamOK
    <3>2. Agreed("bootinfo") /\ (InForce \/ Agreed("bootinfob"))
      BY <1>2, <3>1 DEF AtomicOK, RecoverOK
    <3>3. CASE CrcOk(flash["bootinfo"])
      <4>1. seen'.bi
        BY <1>2, <2>1, <3>1, <3>3 DEF ReadBootinfo, CrcOk, Idle
      <4>2. InForce
        BY <3>2, <3>3 DEF Agreed, InForce
      <4>. QED BY <1>7, <3>1, <4>1, <4>2 DEF RecoverOK
    <3>4. CASE ~CrcOk(flash["bootinfo"])
      <4>1. ~seen'.bi /\ ram' \in {InitCtxt, JunkCtxt}
        BY <2>1, <3>1, <3>4 DEF ReadBootinfo, CrcOk, Loaded, Idle
      <4>2. Agreed("bootinfob")
        BY <3>2, <3>4 DEF InForce
      <4>. QED BY <1>7, <3>1, <4>1, <4>2 DEF RecoverOK
    <3>. QED BY <3>3, <3>4
  <2>2. CASE ReadBackup
    <3>1. pc = "bootinfob" /\ pc' = "sync" /\ seen'.bi = seen.bi /\ UNCHANGED ram
      BY <1>2, <2>2 DEF ReadBackup, TypeOK
    <3>. QED BY <1>2, <1>7, <3>1 DEF RecoverOK, AtomicOK
  <2>. QED BY <2>1, <2>2
<1>9. WholeOK'
  BY <1>1, <1>2 DEF AtomicOK, WholeOK, Agreed
<1>. QED BY <1>1, <1>6, <1>8, <1>9 DEF AtomicOK, LoopOK, AppOK

LEMMA AtomicReconcile ==
  ASSUME IInvAtomic, Reconcile
  PROVE  AtomicOK'
<1>1. /\ pc = "sync" /\ pc' = "select" /\ ~Busy
      /\ UNCHANGED <<flash, approm, area, ram, powerLosses, provisioned, agreed>>
      /\ job' = RecoveryJob
  BY DEF Reconcile, diskVars, ghostVars
<1>2. AtomicOK /\ SeenOK /\ RecoveryOK /\ TypeOK
  BY DEF IInvAtomic, IInvCopies, IInvType
<1>3. seen.bi => CrcOk(flash["bootinfo"]) /\ ram = flash["bootinfo"]
  BY <1>1, <1>2 DEF SeenOK
<1>4. seen.bb => CrcOk(flash["bootinfob"]) /\ backup = flash["bootinfob"]
  BY <1>1, <1>2 DEF SeenOK
<1>5. ram # Blank /\ backup # Blank
  BY <1>2, CtxtReadable DEF TypeOK
<1>6. \/ /\ ~seen.bi /\ seen.bb /\ job' # <<>>
         /\ \A i \in 1..Len(job') : job'[i].area = "bootinfo" /\ job'[i].val = backup
      \/ /\ seen.bi
         /\ \A i \in 1..Len(job') : job'[i].area = "bootinfob" /\ job'[i].val = ram
      \/ ~seen.bi /\ ~seen.bb /\ ~seen.blank /\ \A i \in 1..Len(job') : job'[i].val = Blank
      \/ ~seen.bi /\ ~seen.bb /\ seen.blank /\ job' = <<>>
  BY <1>1 DEF RecoveryJob, Store
<1>7. Fresh => Fresh'
  <2> SUFFICES ASSUME Fresh PROVE Fresh'
    OBVIOUS
  <2>1. (seen.bi => Empty(ram)) /\ (seen.bb => Empty(backup))
    BY <1>3, <1>4, InfoCases DEF Fresh
  <2>2. \A i \in 1..Len(job') : job'[i].val # Blank => Empty(job'[i].val)
    BY <1>6, <2>1
  <2>. QED BY <1>1, <2>2 DEF Fresh
<1>8. FreshOK'
  BY <1>1, <1>2, <1>7 DEF FreshOK, Formatting, AtomicOK
<1>9. /\ seen.bi => InForce
      /\ ~seen.bi /\ seen.bb => Agreed("bootinfob")
      /\ ~seen.bi => ram \in {InitCtxt, JunkCtxt}
  BY <1>1, <1>2 DEF RecoverOK, AtomicOK
<1>10. InForce => InForce'
  BY <1>1 DEF InForce
<1>11. seen.bi => ToBackup'
  BY <1>6 DEF ToBackup
<1>12. ~seen.bi /\ seen.bb => ToFirst' /\ Busy'
  BY <1>5, <1>6 DEF ToFirst, Busy
<1>13. ~seen.bi /\ ~seen.bb => Wiping'
  BY <1>6 DEF Wiping
<1>14. ASSUME provisioned
       PROVE  (InForce /\ ToBackup)' \/ (Busy /\ ToFirst /\ AgreedJob)'
  <2>1. CASE seen.bi
    BY <1>9, <1>10, <1>11, <2>1
  <2>2. CASE ~seen.bi /\ seen.bb
    <3>1. backup.apps \in agreed
      BY <1>4, <1>9, <2>2 DEF Agreed
    <3>2. AgreedJob'
      BY <1>1, <1>6, <2>2, <3>1 DEF AgreedJob
    <3>. QED BY <1>12, <2>2, <3>2
  <2>3. CASE ~seen.bi /\ ~seen.bb
    <3>1. seen.blank /\ CrcOk(flash["bootinfo"])
      BY <1>1, <1>2, <1>14, <2>3 DEF RecoveryOK
    <3>2. job' = <<>>
      BY <1>6, <2>3, <3>1
    <3>3. Fresh
      BY <1>1, <1>2, <2>3 DEF FreshOK, Formatting, AtomicOK
    <3>4. InForce
      BY <3>1, <3>3, InfoCases DEF InForce, Fresh, Empty
    <3>. QED BY <1>10, <3>2, <3>4 DEF ToBackup
  <2>. QED BY <2>1, <2>2, <2>3
<1>15. RecoverOK'
  BY <1>1, <1>3, <1>9, <1>11, <1>12, <1>13, <1>14 DEF RecoverOK
<1>16. WholeOK'
  BY <1>1, <1>2 DEF AtomicOK, WholeOK, Agreed
<1>. QED BY <1>1, <1>8, <1>15, <1>16 DEF AtomicOK, LoopOK, AppOK

(* A jump needs both partitions to match, and only a table read from       *)
(* bootinfo matches any.                                                   *)
LEMMA JumpMatches ==
  ASSUME TypeOK, ~Selected.force
  PROVE  ram.apps = approm /\ ~Empty(ram) /\ ram \notin {InitCtxt, JunkCtxt}
<1>1. StateOf(0) = 1 /\ StateOf(1) = 1
  BY DEF Selected
<1>2. \A p \in Parts : ram.apps[p] = approm[p] /\ ram.apps[p] # Magic
  BY <1>1 DEF StateOf, ValidatePartition, Parts
<1>3. ram.apps \in [Parts -> Entries] /\ approm \in [Parts -> Contents]
  BY DEF TypeOK, Ctxts
<1>4. ram.apps = approm
  BY <1>2, <1>3
<1>5. 0 \in Parts /\ approm[0] # Junk /\ ram.apps[0] = approm[0] /\ ram.apps[0] # Magic
  BY <1>2, <1>3, MarkersAssumption DEF Parts
<1>6. InitCtxt.apps[0] = Magic /\ JunkCtxt.apps[0] = Junk
  BY <1>5 DEF InitCtxt, JunkCtxt
<1>. QED BY <1>4, <1>5, <1>6 DEF Empty

LEMMA AtomicSelect ==
  ASSUME IInvAtomic, Select
  PROVE  AtomicOK'
<1>1. /\ pc = "select" /\ ~Busy /\ pc' \in {"loop", "verify0", "hung"}
      /\ UNCHANGED <<flash, approm, job, powerLosses, provisioned>>
      /\ agreed' = IF CrcOk(flash["bootinfo"]) THEN {flash["bootinfo"].apps} ELSE agreed
      /\ pc' # "loop" => ~Selected.force
  BY DEF Select, diskVars, storeVars, JumpTo
<1>2. AtomicOK /\ TypeOK /\ (powerLosses = 0 => QuietBoot)
  BY DEF IInvAtomic, IInvCopies, IInvType, IInvQuiet, QuietOK
<1>3. job' = <<>> /\ ~Busy'
  BY <1>1 DEF Busy
<1>4. ~provisioned => Fresh
  BY <1>1, <1>2 DEF AtomicOK, FreshOK, Formatting
<1>5. Fresh => Fresh'
  BY <1>1, <1>3, InfoCases DEF Fresh, Empty
<1>6. FreshOK'
  BY <1>1, <1>2, <1>4, <1>5 DEF AtomicOK, FreshOK, Formatting
<1>7. CrcOk(flash["bootinfo"]) => InForce'
  BY <1>1 DEF InForce
<1>8. provisioned => InForce'
  BY <1>1, <1>2, <1>7 DEF AtomicOK, RecoverOK, InForce
<1>9. LoopOK'
  BY <1>1, <1>3, <1>8 DEF LoopOK
<1>10. AppOK'
  <2>1. CASE pc' = "verify0"
    <3>1. ram.apps = approm /\ ~Empty(ram) /\ ram \notin {InitCtxt, JunkCtxt}
      BY <1>1, <1>2, <2>1, JumpMatches
    <3>2. CrcOk(flash["bootinfo"]) /\ ram = flash["bootinfo"]
      BY <1>1, <1>2, <3>1 DEF AtomicOK, RecoverOK
    <3>3. provisioned
      BY <1>4, <3>1, <3>2, InfoCases DEF Fresh
    <3>4. approm \in agreed'
      BY <1>1, <3>1, <3>2
    <3>. QED BY <1>1, <1>3, <2>1, <3>1, <3>2, <3>3, <3>4 DEF AppOK, ToFirst
  <2>2. CASE pc' = "hung"
    BY <1>1, <1>8, <2>2 DEF AppOK
  <2>. QED BY <1>1, <2>1, <2>2 DEF AppOK
<1>11. WholeOK'
  <2> SUFFICES ASSUME powerLosses = 0 PROVE WholeOK'
    BY <1>1 DEF WholeOK
  <2>1. Settled
    BY <1>1, <1>2 DEF QuietBoot
  <2>2. provisioned
    BY <1>2, <2>1, InfoCases DEF Settled, AtomicOK, FreshOK
  <2>. QED BY <1>1, <2>1, <2>2, InfoCases DEF WholeOK, Agreed, Settled, CtxtEqual
<1>. QED BY <1>1, <1>6, <1>9, <1>10, <1>11 DEF AtomicOK, RecoverOK

LEMMA AtomicTransfer ==
  ASSUME IInvAtomic, "noend" \notin Env,
         \/ WriteRequest
         \/ \E i \in Images, ok \in BOOLEAN : DataBlock(i, ok)
         \/ AbortTransfer \/ EndCommand
  PROVE  AtomicOK'
<1>1. /\ pc = "loop" /\ ~Busy
      /\ UNCHANGED <<pc, job, ram, powerLosses, provisioned, agreed>>
  BY DEF WriteRequest, DataBlock, AbortTransfer, EndCommand, InLoop, storeVars,
         bootVars, ghostVars
<1>2. UNCHANGED flash
  BY BackupIsNoPart DEF WriteRequest, DataBlock, AbortTransfer, EndCommand, diskVars,
         CommitOK, TypeOK, IInvAtomic, IInvCopies, IInvType, IInvQuiet
<1>3. ~Busy'
  BY <1>1 DEF Busy
<1>4. AtomicOK
  BY DEF IInvAtomic
<1>5. FreshOK'
  BY <1>1, <1>2, <1>3, <1>4 DEF AtomicOK, FreshOK, Formatting, Fresh
<1>6. LoopOK'
  BY <1>1, <1>2, <1>3, <1>4 DEF AtomicOK, LoopOK, InForce
<1>7. WholeOK'
  BY <1>1, <1>2, <1>4 DEF AtomicOK, WholeOK, Agreed
<1>. QED BY <1>1, <1>5, <1>6, <1>7 DEF AtomicOK, RecoverOK, AppOK

LEMMA AtomicCrc ==
  ASSUME IInvAtomic, CrcCommand
  PROVE  AtomicOK'
<1>1. /\ pc = "loop" /\ ~Busy
      /\ UNCHANGED <<flash, pc, powerLosses, provisioned>>
      /\ \/ UNCHANGED <<job, agreed>>
         \/ job' = UpdateBootinfo(ram') /\ area' = BackupArea /\ agreed' = agreed \cup {ram'.apps}
  BY DEF CrcCommand, InLoop, diskVars
<1>2. AtomicOK
  BY DEF IInvAtomic
<1>3. CASE UNCHANGED <<job, agreed>>
  <2>1. ~Busy'
    BY <1>1, <1>3 DEF Busy
  <2>2. FreshOK'
    BY <1>1, <1>2, <1>3, <2>1 DEF AtomicOK, FreshOK, Formatting, Fresh
  <2>3. LoopOK'
    BY <1>1, <1>2, <1>3, <2>1 DEF AtomicOK, LoopOK, InForce
  <2>4. WholeOK'
    BY <1>1, <1>2, <1>3 DEF AtomicOK, WholeOK, Agreed
  <2>. QED BY <1>1, <2>2, <2>3, <2>4 DEF AtomicOK, RecoverOK, AppOK
<1>4. CASE job' = UpdateBootinfo(ram') /\ area' = BackupArea /\ agreed' = agreed \cup {ram'.apps}
  <2>1. Busy'
    BY <1>4 DEF Busy, UpdateBootinfo
  <2>2. FreshOK'
    BY <1>1, <1>2, <2>1 DEF AtomicOK, FreshOK, Formatting
  <2>3. LoopOK'
    BY <1>4, <2>1 DEF LoopOK
  <2>4. WholeOK'
    BY <1>1, <1>2, <1>4 DEF AtomicOK, WholeOK, Agreed
  <2>. QED BY <1>1, <2>2, <2>3, <2>4 DEF AtomicOK, RecoverOK, AppOK
<1>. QED BY <1>1, <1>3, <1>4

LEMMA AtomicVerify ==
  ASSUME IInvAtomic, NEW p \in Parts, VerifyPartition(p)
  PROVE  AtomicOK'
<1>1. /\ pc \in {"verify0", "verify1"} /\ pc' \in {"verify1", "app"} /\ ~Busy
      /\ UNCHANGED <<flash, approm, powerLosses, provisioned>>
  BY DEF VerifyPartition, diskVars
<1>2. AtomicOK /\ TypeOK
  BY DEF IInvAtomic, IInvCopies, IInvType
<1>3. /\ provisioned /\ approm \in agreed
      /\ CrcOk(flash["bootinfo"]) /\ flash["bootinfo"].apps = approm
  BY <1>1, <1>2 DEF AtomicOK, AppOK
<1>4. Loaded(flash["bootinfo"]) = flash["bootinfo"]
  BY <1>3 DEF Loaded
<1>5. ValidatePartition(flash["bootinfo"], p, approm[p]) = 1
  BY <1>2, <1>3, MarkersAssumption DEF ValidatePartition, TypeOK
<1>6. ram' = flash["bootinfo"] /\ job' = <<>> /\ agreed' = agreed
  BY <1>4, <1>5 DEF VerifyPartition
<1>7. AppOK'
  BY <1>1, <1>3, <1>6 DEF AppOK, ToFirst
<1>8. WholeOK'
  BY <1>1, <1>2, <1>6 DEF AtomicOK, WholeOK, Agreed
<1>. QED BY <1>1, <1>3, <1>7, <1>8 DEF AtomicOK, FreshOK, Formatting, RecoverOK, LoopOK

LEMMA AtomicRequest ==
  ASSUME IInvAtomic, NEW r \in Requests, RequestWrite(r)
  PROVE  AtomicOK'
<1>1. /\ pc = "app" /\ ~Busy
      /\ UNCHANGED <<flash, approm, pc, powerLosses, provisioned, agreed>>
      /\ \/ UNCHANGED <<ram, job>>
         \/ ram' = SwapPartitions(ram) /\ job' = <<Store("bootinfo", ram')>>
  BY DEF RequestWrite, diskVars, ghostVars
<1>2. AtomicOK /\ TypeOK
  BY DEF IInvAtomic, IInvCopies, IInvType
<1>3. /\ provisioned /\ approm \in agreed
      /\ CrcOk(flash["bootinfo"]) /\ flash["bootinfo"].apps = approm
      /\ ram.apps = approm
  BY <1>1, <1>2 DEF AtomicOK, AppOK
<1>4. ram'.apps = ram.apps
  BY <1>1, <1>2 DEF SwapPartitions, TypeOK, Ctxts
<1>5. ToFirst' /\ \A i \in 1..Len(job') : job'[i].val.apps = approm
  <2>1. CASE UNCHANGED <<ram, job>>
    BY <1>1, <2>1 DEF Busy, ToFirst
  <2>2. CASE ram' = SwapPartitions(ram) /\ job' = <<Store("bootinfo", ram')>>
    <3>1. ram' \in Ctxts
      BY <1>2, <2>2 DEF SwapPartitions, TypeOK, Ctxts, Parts, NoPart
    <3>2. ram' # Blank
      BY <3>1, CtxtReadable
    <3>. QED BY <1>3, <1>4, <2>2, <3>2 DEF ToFirst, Store
  <2>. QED BY <1>1, <2>1, <2>2
<1>6. AppOK'
  BY <1>1, <1>3, <1>4, <1>5 DEF AppOK
<1>7. WholeOK'
  BY <1>1, <1>2 DEF AtomicOK, WholeOK, Agreed
<1>. QED BY <1>1, <1>3, <1>6, <1>7 DEF AtomicOK, FreshOK, Formatting, RecoverOK, LoopOK

LEMMA AtomicAppRestart ==
  ASSUME IInvAtomic, AppRestart
  PROVE  AtomicOK'
<1>1. /\ pc = "app" /\ pc' = "verify0" /\ ~Busy
      /\ UNCHANGED <<flash, approm, job, powerLosses, provisioned, agreed>>
  BY DEF AppRestart, diskVars, storeVars, ghostVars
<1>2. AtomicOK
  BY DEF IInvAtomic
<1>3. provisioned /\ AppOK'
  BY <1>1, <1>2 DEF AtomicOK, AppOK, Busy, ToFirst
<1>4. WholeOK'
  BY <1>1, <1>2 DEF AtomicOK, WholeOK, Agreed
<1>. QED BY <1>1, <1>3, <1>4 DEF AtomicOK, FreshOK, Formatting, RecoverOK, LoopOK

LEMMA AtomicReset ==
  ASSUME IInvAtomic, ResetCommand \/ AppReset
  PROVE  AtomicOK'
<1>1. /\ pc \in {"loop", "app", "hung"} /\ pc' = "bootinfo" /\ ~Busy /\ job' = <<>>
      /\ UNCHANGED <<flash, approm, powerLosses, provisioned, agreed>>
  BY DEF ResetCommand, AppReset, InLoop, Resettable, Restart, diskVars, ghostVars
<1>2. AtomicOK
  BY DEF IInvAtomic
<1>3. ~provisioned => Fresh
  BY <1>1, <1>2 DEF AtomicOK, FreshOK, Formatting
<1>4. FreshOK'
  BY <1>1, <1>2, <1>3 DEF AtomicOK, FreshOK, Formatting, Fresh
<1>5. CASE provisioned
  <2>1. InForce
    BY <1>1, <1>2, <1>5 DEF AtomicOK, LoopOK, AppOK, InForce
  <2>2. InForce' /\ Agreed("bootinfo")'
    BY <1>1, <2>1 DEF InForce, Agreed
  <2>. QED BY <1>1, <1>2, <1>4, <2>2 DEF AtomicOK, RecoverOK, LoopOK, AppOK, WholeOK, Agreed
<1>6. CASE ~provisioned
  <2>1. Agreed("bootinfo")' /\ Agreed("bootinfob")'
    BY <1>1, <1>3, <1>6, InfoCases DEF Fresh, Empty, Agreed
  <2>. QED BY <1>1, <1>2, <1>4, <2>1 DEF AtomicOK, RecoverOK, LoopOK, AppOK, WholeOK, Agreed
<1>. QED BY <1>5, <1>6

(* The one power loss finds every readable copy agreed.                    *)
LEMMA AtomicPowerLoss ==
  ASSUME IInvAtomic, MaxPowerLosses <= 1, PowerLoss
  PROVE  AtomicOK'
<1>1. /\ powerLosses = 0 /\ powerLosses' = 1 /\ pc' = "bootinfo" /\ job' = <<>>
      /\ UNCHANGED <<provisioned, agreed>>
  BY PowerAssumption
     DEF PowerLoss, Restart, TypeOK, IInvAtomic, IInvCopies, IInvType
<1>2. AtomicOK /\ TypeOK
  BY DEF IInvAtomic, IInvCopies, IInvType
<1>3. \A b \in InfoAreas : CrcOk(flash'[b]) => flash'[b] = flash[b]
  <2>1. \/ flash' = flash
        \/ \E c : flash' = [flash EXCEPT ![c] = Torn]
    BY DEF PowerLoss, diskVars
  <2>. QED BY <1>2, <2>1 DEF TypeOK, CrcOk
<1>4. ~provisioned => Fresh
  BY <1>1, <1>2 DEF AtomicOK, FreshOK, Formatting, WholeOK
<1>5. FreshOK'
  BY <1>1, <1>2, <1>3, <1>4 DEF AtomicOK, FreshOK, Formatting, Fresh
<1>6. \A b \in InfoAreas : Agreed(b)'
  BY <1>1, <1>2, <1>3 DEF AtomicOK, WholeOK, Agreed
<1>. QED BY <1>1, <1>5, <1>6, InfoCases DEF AtomicOK, RecoverOK, LoopOK, AppOK, WholeOK

LEMMA AtomicStutter ==
  ASSUME AtomicOK, UNCHANGED vars
  PROVE  AtomicOK'
<1>1. UNCHANGED <<flash, approm, pc, job, ram, seen, area, powerLosses, provisioned, agreed>>
  BY DEF vars, diskVars, storeVars, bootVars, ghostVars
<1>2. FreshOK'
  BY <1>1 DEF AtomicOK, FreshOK, Formatting, Fresh, Busy
<1>3. RecoverOK'
  BY <1>1 DEF AtomicOK, RecoverOK, InForce, Agreed, ToBackup, ToFirst, Wiping, AgreedJob, Busy
<1>4. LoopOK' /\ AppOK'
  BY <1>1 DEF AtomicOK, LoopOK, AppOK, InForce, ToFirst, Busy
<1>5. WholeOK'
  BY <1>1 DEF AtomicOK, WholeOK, Agreed
<1>. QED BY <1>2, <1>3, <1>4, <1>5 DEF AtomicOK

LEMMA AtomicNext ==
  ASSUME "noend" \notin Env, "setrom" \notin Env, "boot" \notin Env, MaxPowerLosses <= 1
  PROVE  IInvAtomic /\ [Next]_vars => IInvAtomic'
<1> SUFFICES ASSUME IInvAtomic, [Next]_vars PROVE IInvAtomic'
  OBVIOUS
<1>1. IInvCopies' /\ IInvQuiet'
  BY CopiesNext, QuietNext DEF IInvAtomic
<1>2. CASE UNCHANGED vars
  BY <1>1, <1>2, AtomicStutter DEF IInvAtomic
<1>3. CASE Next
  <2>1. ~BootCommand /\ \A p \in Parts : ~SetRom(p)
    BY DEF BootCommand, SetRom
  <2>2. AtomicOK'
    BY <1>3, <2>1, AtomicErase, AtomicProgram, AtomicRead, AtomicReconcile, AtomicSelect,
       AtomicTransfer, AtomicCrc, AtomicVerify, AtomicRequest, AtomicAppRestart,
       AtomicReset, AtomicPowerLoss
       DEF Next
  <2>. QED BY <1>1, <2>2 DEF IInvAtomic
<1>. QED BY <1>2, <1>3

(* An interrupted update comes out whole: power may fail once, at any      *)
(* moment of a recovery, of update_bootinfo or of a switch of partitions,  *)
(* in the middle of an erase or a program too, and the next boot decides   *)
(* with a table that was in force or was being stored, in bootinfo itself  *)
(* (_initialize_bootinfo and update_bootinfo in bootloader/main.c).        *)
THEOREM UpdateIsAtomic ==
  ASSUME "noend" \notin Env, "setrom" \notin Env, "boot" \notin Env, MaxPowerLosses <= 1
  PROVE  Spec => []UpdateAtomic
<1>1. Init => IInvAtomic
  <2>1. Init => CommitOK /\ CopiesOK /\ RecoveryOK
    BY DEF Init, CommitOK, CopiesOK, RecoveryOK, ContextSurvives, Busy
  <2>. QED BY <2>1, TypeInit, TableInit, QuietInit, AtomicInit
           DEF IInvAtomic, IInvCopies, IInvQuiet, IInvTable
<1>2. IInvAtomic /\ [Next]_vars => IInvAtomic'
  BY AtomicNext
<1>3. IInvAtomic => UpdateAtomic
  BY DEF IInvAtomic, AtomicOK, RecoverOK, LoopOK, AppOK, InForce, UpdateAtomic
<1>. QED BY <1>1, <1>2, <1>3, PTL DEF Spec

=============================================================================
