----------------------------- MODULE Bootloader -----------------------------
(***************************************************************************)
(* The boot flow of the GPMCU: the bootloader recovers its boot context    *)
(* from two flash areas, validates both application partitions, and either *)
(* jumps to one or serves flash_tool commands; the application then runs,  *)
(* may repair or switch the stored context, and resets back.               *)
(*                                                                         *)
(* Flash is changed one erase or one program at a time (job), and power    *)
(* can be lost before, after or (with "torn") in the middle of each.       *)
(* The host is the environment: it sends any command flash_tool can send,  *)
(* restricted by Env.                                                      *)
(***************************************************************************)
EXTENDS BootRecord

CONSTANTS
  MaxPowerLosses,  \* bound on power losses in a behaviour
  Env              \* what the environment may do beyond a plain update

(* "boot":    the host sends COMMP_CMD_BOOT                                *)
(* "setrom":  the host picks a partition with COMMP_CMD_SET_ROM0/1         *)
(* "noend":   the host starts a transfer without ending the previous one   *)
(* "corrupt": the UART delivers a data block with wrong bytes              *)
(* "torn":    a power loss can leave a half-erased or half-written area    *)
EnvChoices == {"boot", "setrom", "noend", "corrupt", "torn"}

ASSUME EnvAssumption == Env \subseteq EnvChoices
ASSUME PowerAssumption == MaxPowerLosses \in Nat

VARIABLES
  flash,        \* the two boot context areas
  approm,       \* content of the application partitions
  request,      \* _gdata.application_request in shared SRAM
  pc,           \* which code runs: the boot stages, the command loop, the app
  job,          \* _bootloader_store_ctxt / wipe calls still to be carried out
  half,         \* the area at the head of job is erased, not yet programmed
  ram,          \* _bctxt of the bootloader, bctxt of the application
  backup,       \* _bctxt_backup
  seen,         \* locals of _initialize_bootinfo: crc flags, empty_partition
  force,        \* force_bootloader
  pstate,       \* pstate_0, pstate_1
  area,         \* the area sdriver points to: a partition or BackupArea
  inprog,       \* run_transfer_ctxt.transfer_in_progress
  blk,          \* run_transfer_ctxt.last_blocknr
  running,      \* the partition last jumped to
  mainPart,     \* Main.PartitionInfo.part of the application
  powerLosses,  \* power losses so far
  provisioned,  \* both areas have been valid at the same time (history)
  agreed,       \* app tables a recovery may bring back (history)
  hadGood       \* this boot found a valid partition (history)

diskVars == <<flash, approm>>
storeVars == <<job, half>>
bootVars == <<ram, backup, seen, force, pstate, area>>
xferVars == <<inprog, blk>>
appVars == <<running, mainPart>>
ghostVars == <<powerLosses, provisioned, agreed, hadGood>>
vars == <<diskVars, request, pc, storeVars, bootVars, xferVars, appVars,
          ghostVars>>

Requests == {"none", "update", "boot0", "boot1"}
Idle == [bi |-> FALSE, bb |-> FALSE, blank |-> FALSE]
Steps == {"bootinfo", "bootinfob", "sync", "select", "loop",
          "verify0", "verify1", "app", "hung"}

Store(a, v) == [area |-> a, val |-> v]
Busy == job # <<>>

Init ==
  /\ flash = [a \in InfoAreas |-> Blank]
  /\ approm = [p \in Parts |-> Erased]
  /\ request = "none"
  /\ pc = "bootinfo"
  /\ job = <<>> /\ half = FALSE
  /\ ram = JunkCtxt /\ backup = JunkCtxt
  /\ seen = Idle /\ force = FALSE
  /\ pstate = [p \in Parts |-> 0]
  /\ area = 0
  /\ inprog = FALSE /\ blk = 0
  /\ running = 0 /\ mainPart = 0
  /\ powerLosses = 0 /\ provisioned = FALSE /\ agreed = {InitCtxt.apps}
  /\ hadGood = FALSE

(***************************************************************************)
(* Flash.  A store erases its area, then programs the context into it.     *)
(* A wipe only erases.                                                     *)
(***************************************************************************)
EraseStep ==
  /\ Busy /\ ~half
  /\ flash' = [flash EXCEPT ![Head(job).area] = Blank]
  /\ IF Head(job).val = Blank
       THEN job' = Tail(job) /\ half' = FALSE
       ELSE job' = job /\ half' = TRUE
  /\ UNCHANGED <<approm, request, pc, bootVars, xferVars, appVars, ghostVars>>

ProgramStep ==
  /\ Busy /\ half
  /\ flash' = [flash EXCEPT ![Head(job).area] = Head(job).val]
  /\ job' = Tail(job) /\ half' = FALSE
  /\ provisioned' = (provisioned \/ \A a \in InfoAreas : CrcOk(flash'[a]))
  /\ agreed' = IF Len(job) = 1 /\ pc \in {"loop", "verify0", "verify1", "app"}
                 THEN {Head(job).val.apps} ELSE agreed
  /\ UNCHANGED <<approm, request, pc, bootVars, xferVars, appVars, powerLosses,
                 hadGood>>

(***************************************************************************)
(* _initialize_bootinfo                                                    *)
(***************************************************************************)
ReadBootinfo ==
  /\ pc = "bootinfo" /\ ~Busy
  /\ pc' = "bootinfob"
  /\ IF flash["bootinfo"] = Blank
       THEN /\ ram' = InitCtxt
            /\ job' = <<Store("bootinfo", InitCtxt)>>
            /\ force' = TRUE
            /\ seen' = [seen EXCEPT !.blank = TRUE]
       ELSE /\ ram' = Loaded(flash["bootinfo"])
            /\ seen' = [seen EXCEPT !.bi = CrcOk(flash["bootinfo"])]
            /\ UNCHANGED <<job, force>>
  /\ UNCHANGED <<diskVars, request, half, backup, pstate, area, xferVars,
                 appVars, ghostVars>>

ReadBackup ==
  /\ pc = "bootinfob" /\ ~Busy
  /\ pc' = "sync"
  /\ IF flash["bootinfob"] = Blank
       THEN /\ backup' = InitCtxt
            /\ job' = <<Store("bootinfob", InitCtxt)>>
            /\ seen' = [seen EXCEPT !.blank = TRUE]
       ELSE /\ backup' = Loaded(flash["bootinfob"])
            /\ seen' = [seen EXCEPT !.bb = CrcOk(flash["bootinfob"])]
            /\ UNCHANGED job
  /\ UNCHANGED <<diskVars, request, half, ram, force, pstate, area, xferVars,
                 appVars, ghostVars>>

(* Fault: both areas wiped as soon as the backup is damaged.               *)
RecoveryJob_WipeEarly ==
  IF ~seen.bb /\ ~seen.blank
    THEN <<Store("bootinfo", Blank), Store("bootinfob", Blank)>>
  ELSE IF ~seen.bi /\ seen.bb THEN <<Store("bootinfo", backup)>>
  ELSE <<>>

(* Fault: the damaged copy stored where the backup should have been.       *)
RecoveryJob_FromRam ==
  IF ~seen.bi /\ seen.bb THEN <<Store("bootinfo", ram)>> ELSE <<>>

(* The stores the recovery decides on.  The restore of bootinfo is issued  *)
(* a second time when the tables still differ in RAM.                      *)
RecoveryJob ==
  LET equal == CtxtEqual(backup, ram)
      restore == Store("bootinfo", backup)
  IN  IF ~seen.bi /\ seen.bb
        THEN IF equal THEN <<restore>> ELSE <<restore, restore>>
      ELSE IF seen.bi /\ ~seen.bb /\ ~equal
        THEN <<Store("bootinfob", ram)>>
      ELSE IF ~seen.bi /\ ~seen.bb /\ ~seen.blank
        THEN <<Store("bootinfo", Blank), Store("bootinfob", Blank)>>
      ELSE <<>>

Reconcile ==
  /\ pc = "sync" /\ ~Busy
  /\ pc' = "select"
  /\ job' = RecoveryJob
  /\ force' = (force \/ (~seen.bi /\ ~seen.bb /\ ~seen.blank))
  /\ UNCHANGED <<diskVars, request, half, ram, backup, seen, pstate, area,
                 xferVars, appVars, ghostVars>>

(***************************************************************************)
(* main(): the partition states and who gets control.                      *)
(***************************************************************************)
StateOf(p) ==
  IF approm[p] = Erased THEN 0 ELSE ValidatePartition(ram, p, approm[p])

(* Fault: the target always the partition not selected.                    *)
BothValid_Assumed == TRUE

BothValid == \A p \in Parts : StateOf(p) = 1

(* Fault: partition 1 is not looked at.                                    *)
Selected_FirstOnly ==
  IF StateOf(0) # 1 THEN [part |-> 0, force |-> TRUE]
  ELSE IF request = "update" THEN [part |-> ram.part, force |-> TRUE]
  ELSE IF request = "boot0" THEN [part |-> 0, force |-> force]
  ELSE IF request = "boot1" THEN [part |-> 1, force |-> force]
  ELSE [part |-> ram.part, force |-> force]

(* _bctxt.part and force_bootloader once the partition states are known.   *)
Selected ==
  IF StateOf(0) # 1 THEN [part |-> 0, force |-> TRUE]
  ELSE IF StateOf(1) # 1 THEN [part |-> 1, force |-> TRUE]
  ELSE IF request = "update" THEN [part |-> ram.part, force |-> TRUE]
  ELSE IF request = "boot0" THEN [part |-> 0, force |-> force]
  ELSE IF request = "boot1" THEN [part |-> 1, force |-> force]
  ELSE [part |-> ram.part, force |-> force]

(* Both partitions valid: an update goes to the one not selected.          *)
UpdateTarget ==
  IF BothValid /\ Selected.part \in Parts
    THEN Other(Selected.part) ELSE Selected.part

(* jump_to: control passes to whatever the partition holds.                *)
JumpTo(p, c) ==
  /\ running' = p /\ mainPart' = 0
  /\ pc' = IF IsFull(approm[p]) /\ c.apps[p] # Junk THEN "verify0" ELSE "hung"

Select ==
  /\ pc = "select" /\ ~Busy
  /\ pstate' = [p \in Parts |-> StateOf(p)]
  /\ request' = "none"
  /\ force' = Selected.force
  /\ backup' = JunkCtxt /\ seen' = Idle
  /\ agreed' = IF CrcOk(flash["bootinfo"]) THEN {flash["bootinfo"].apps} ELSE agreed
  /\ IF Selected.force
       THEN /\ pc' = "loop"
            /\ ram' = [ram EXCEPT !.part = UpdateTarget]
            /\ area' = IF UpdateTarget \in Parts THEN UpdateTarget ELSE 1
            /\ UNCHANGED appVars
       ELSE /\ JumpTo(Selected.part, ram)
            /\ ram' = JunkCtxt
            /\ UNCHANGED area
  /\ hadGood' = (\E p \in Parts : StateOf(p) = 1)
  /\ UNCHANGED <<diskVars, storeVars, xferVars, powerLosses, provisioned>>

(***************************************************************************)
(* The command loop around comm_protocol_run.  Every run starts from a     *)
(* cleared transfer context, and every error or command clears it.         *)
(***************************************************************************)
InLoop == pc = "loop" /\ ~Busy

ClearTransfer == inprog' = FALSE /\ blk' = 0

(* COMMP_WRQ: the selected area is erased, whatever ROM the request names. *)
WriteRequest ==
  /\ InLoop /\ ~inprog
  /\ area = BackupArea => "noend" \in Env
  /\ inprog' = TRUE /\ blk' = 0
  /\ IF area \in Parts
       THEN approm' = [approm EXCEPT ![area] = Erased] /\ UNCHANGED flash
       ELSE flash' = [flash EXCEPT !["bootinfob"] = Blank] /\ UNCHANGED approm
  /\ UNCHANGED <<request, pc, storeVars, bootVars, appVars, ghostVars>>

(* COMMP_DATA with the expected block number.                              *)
DataBlock(i, ok) ==
  /\ InLoop /\ inprog /\ blk < NBlocks
  /\ ok \/ "corrupt" \in Env
  /\ blk' = blk + 1
  /\ IF area \in Parts
       THEN /\ approm[area] = Erased \/ approm[area].img = i
            /\ approm' = [approm EXCEPT ![area] =
                 [img |-> i, n |-> blk + 1, intact |-> @.intact /\ ok]]
            /\ UNCHANGED flash
       ELSE /\ flash' = [flash EXCEPT !["bootinfob"] = Torn]
            /\ UNCHANGED approm
  /\ UNCHANGED <<request, pc, storeVars, bootVars, inprog, appVars, ghostVars>>

(* Fault: the backup is left behind.                                       *)
UpdateBootinfo_NoBackup(new) == <<Store("bootinfo", new)>>

(* update_bootinfo, after which sdriver stays on the backup area.          *)
UpdateBootinfo(new) == <<Store("bootinfo", new), Store("bootinfob", new)>>

(* Fault: the comparison left out, as UNIT_TEST builds do.                 *)
CrcMatches_Skipped(crc) == TRUE

(* The computed crc against the one of the host's file.                    *)
CrcMatches(crc) == IsFull(crc)

(* COMMP_CMD_CRC after the last block.  The table entry in RAM takes the   *)
(* computed crc before it is compared with the crc of the host's file.     *)
CrcCommand ==
  LET crc == IF area \in Parts THEN approm[area] ELSE Junk
      new == [ram EXCEPT !.apps[ram.part] = crc]
  IN  /\ InLoop /\ inprog /\ blk = NBlocks
      /\ ram' = new
      /\ IF CrcMatches(crc)
           THEN /\ job' = UpdateBootinfo(new)
                /\ area' = BackupArea
                /\ agreed' = agreed \cup {new.apps}
           ELSE UNCHANGED <<job, area, agreed>>
      /\ ClearTransfer
      /\ UNCHANGED <<diskVars, request, pc, half, backup, seen, force, pstate,
                     appVars, powerLosses, provisioned, hadGood>>

(* A packet out of sequence, an unknown one, or COMMP_CMD_SWAP.            *)
AbortTransfer ==
  /\ InLoop /\ inprog
  /\ ClearTransfer
  /\ UNCHANGED <<diskVars, request, pc, storeVars, bootVars, appVars, ghostVars>>

(* COMMP_CMD_END: the partition just written is validated for a boot.      *)
EndCommand ==
  /\ InLoop
  /\ area' = IF ram.part \in Parts THEN ram.part ELSE area
  /\ pstate' = [p \in Parts |-> IF p = ram.part
                                 THEN ValidatePartition(ram, p, approm[p])
                                 ELSE pstate[p]]
  /\ ClearTransfer
  /\ UNCHANGED <<diskVars, request, pc, storeVars, ram, backup, seen, force,
                 appVars, ghostVars>>

(* COMMP_CMD_SET_ROM0, COMMP_CMD_SET_ROM1                                  *)
SetRom(p) ==
  /\ InLoop /\ "setrom" \in Env
  /\ area' = p
  /\ ram' = [ram EXCEPT !.part = p]
  /\ ClearTransfer
  /\ UNCHANGED <<diskVars, request, pc, storeVars, backup, seen, force, pstate,
                 appVars, ghostVars>>

(* COMMP_CMD_BOOT: refused only while both partitions are unused.          *)
BootCommand ==
  /\ InLoop /\ "boot" \in Env
  /\ \E p \in Parts : pstate[p] # 0
  /\ JumpTo(ram.part, ram)
  /\ ram' = JunkCtxt
  /\ ClearTransfer
  /\ UNCHANGED <<diskVars, request, storeVars, backup, seen, force, pstate,
                 area, ghostVars>>

(* A restart of the bootloader's main() with RAM as startup leaves it.     *)
Restart ==
  /\ pc' = "bootinfo"
  /\ job' = <<>> /\ half' = FALSE
  /\ ram' = JunkCtxt /\ backup' = JunkCtxt
  /\ seen' = Idle /\ force' = FALSE
  /\ pstate' = [p \in Parts |-> 0]
  /\ area' = 0
  /\ ClearTransfer
  /\ running' = 0 /\ mainPart' = 0

(* COMMP_CMD_RESET, COMMP_CMD_RECONFIG_GOWIN, COMMP_CMD_TRIGGER_WDOG       *)
ResetCommand ==
  /\ InLoop
  /\ Restart
  /\ UNCHANGED <<diskVars, request, ghostVars>>

(***************************************************************************)
(* The application: init_flash, then requests from the main CPU.           *)
(***************************************************************************)
(* main(): the stored partition gives way to the one the code runs in.     *)
PartitionOfPc(part) == IF part \in Parts THEN running ELSE part

(* verify_partition(p), and fix_partition(p) when the stored context names *)
(* p as the current partition.                                             *)
VerifyPartition(p) ==
  LET c == Loaded(flash["bootinfo"])
      broken == ValidatePartition(c, p, approm[p]) # 1
      fixed == [c EXCEPT !.apps[p] = approm[p]]
      fix == CrcOk(flash["bootinfo"]) /\ broken /\ c.part = p
  IN  /\ ~Busy
      /\ pc = IF p = 0 THEN "verify0" ELSE "verify1"
      /\ pc' = IF p = 0 THEN "verify1" ELSE "app"
      /\ ram' = IF fix THEN fixed ELSE c
      /\ job' = IF fix THEN <<Store("bootinfo", fixed)>> ELSE <<>>
      /\ agreed' = IF fix THEN agreed \cup {fixed.apps} ELSE agreed
      /\ mainPart' = IF p = 1 THEN PartitionOfPc(ram'.part) ELSE mainPart
      /\ UNCHANGED <<diskVars, request, half, backup, seen, force, pstate, area,
                     xferVars, running, powerLosses, provisioned, hadGood>>

(* sharedram_bootloader_request_write, switching the stored partition when *)
(* another one is asked for than the data map has.                         *)
RequestWrite(r) ==
  LET switch == \/ r = "boot1" /\ mainPart = 0
                \/ r = "boot0" /\ mainPart = 1
  IN  /\ pc = "app" /\ ~Busy
      /\ request' = r
      /\ IF switch
           THEN /\ ram' = SwapPartitions(ram)
                /\ job' = <<Store("bootinfo", SwapPartitions(ram))>>
                /\ mainPart' = SwapPartitions(ram).part
           ELSE UNCHANGED <<ram, job, mainPart>>
      /\ UNCHANGED <<diskVars, pc, half, backup, seen, force, pstate, area,
                     xferVars, running, ghostVars>>

(* Fault: the watchdog stopped before the jump.                            *)
Resettable_AppOnly == pc = "app"

(* A hung application is reset as well: the watchdog stays armed.          *)
Resettable == pc \in {"app", "hung"}

(* ResetISR at the end of the application's main loop: without a request   *)
(* for an update main() starts again, and no bootloader runs in between.   *)
AppRestart ==
  /\ pc = "app" /\ ~Busy
  /\ request # "update"
  /\ pc' = "verify0"
  /\ ram' = JunkCtxt /\ mainPart' = 0
  /\ UNCHANGED <<diskVars, request, storeVars, backup, seen, force, pstate, area,
                 xferVars, running, ghostVars>>

(* A reset into the bootloader: ResetISR with an update request or once    *)
(* reboot_counter is at its limit, or the watchdog.  The bootloader wipes  *)
(* the request when reboot_counter reads zero.                             *)
AppReset ==
  /\ Resettable /\ ~Busy
  /\ Restart
  /\ request' \in {request, "none"}
  /\ UNCHANGED <<diskVars, ghostVars>>

(***************************************************************************)
(* Loss of power at any point; shared SRAM then holds anything.            *)
(***************************************************************************)
PowerLoss ==
  /\ powerLosses < MaxPowerLosses
  /\ powerLosses' = powerLosses + 1
  /\ \/ UNCHANGED diskVars
     \/ /\ "torn" \in Env /\ Busy
        /\ flash' = [flash EXCEPT ![Head(job).area] = Torn]
        /\ UNCHANGED approm
     \/ /\ "torn" \in Env /\ InLoop /\ area \in Parts /\ approm[area] # Erased
        /\ approm' = [approm EXCEPT ![area].intact = FALSE]
        /\ UNCHANGED flash
  /\ Restart
  /\ request' \in Requests
  /\ UNCHANGED <<provisioned, agreed, hadGood>>

Next ==
  \/ EraseStep \/ ProgramStep
  \/ ReadBootinfo \/ ReadBackup \/ Reconcile \/ Select
  \/ WriteRequest
  \/ \E i \in Images, ok \in BOOLEAN : DataBlock(i, ok)
  \/ CrcCommand \/ AbortTransfer \/ EndCommand
  \/ \E p \in Parts : SetRom(p)
  \/ BootCommand \/ ResetCommand
  \/ \E p \in Parts : VerifyPartition(p)
  \/ \E r \in Requests : RequestWrite(r)
  \/ AppRestart \/ AppReset
  \/ PowerLoss

Spec == Init /\ [][Next]_vars

(* Boot code and flash make progress, and the watchdog, armed before the   *)
(* jump, resets an application that never comes up.                        *)
BootProgress ==
  \/ EraseStep \/ ProgramStep
  \/ ReadBootinfo \/ ReadBackup \/ Reconcile \/ Select
  \/ \E p \in Parts : VerifyPartition(p)
WatchdogReset == pc = "hung" /\ AppReset
FairSpec == Spec /\ WF_vars(BootProgress) /\ WF_vars(WatchdogReset)

TypeOK ==
  /\ flash \in [InfoAreas -> Infos]
  /\ approm \in [Parts -> Contents]
  /\ request \in Requests
  /\ pc \in Steps
  /\ job \in Seq([area : InfoAreas, val : Infos])
  /\ Len(job) <= 2
  /\ half \in BOOLEAN
  /\ ram \in Ctxts /\ backup \in Ctxts
  /\ seen \in [bi : BOOLEAN, bb : BOOLEAN, blank : BOOLEAN]
  /\ force \in BOOLEAN
  /\ pstate \in [Parts -> {-1, 0, 1}]
  /\ area \in Parts \cup {BackupArea}
  /\ inprog \in BOOLEAN /\ blk \in 0..NBlocks
  /\ running \in Parts /\ mainPart \in Parts \cup {NoPart}
  /\ powerLosses \in 0..MaxPowerLosses
  /\ provisioned \in BOOLEAN
  /\ agreed \subseteq [Parts -> Entries]
  /\ hadGood \in BOOLEAN

(***************************************************************************)
(* Safety                                                                  *)
(***************************************************************************)
(* Once both copies of the boot context have been written, a power loss at *)
(* any moment leaves one of them readable (bootloader/main.c, the order of *)
(* the stores in recovery and in update_bootinfo).                         *)
ContextSurvives ==
  provisioned => \E a \in InfoAreas : CrcOk(flash[a])

(* A boot that has come to a decision works with a stored table that was   *)
(* in force before the interrupted update or is the one it was writing.    *)
UpdateAtomic ==
  provisioned /\ ~Busy /\ pc \in {"select", "loop", "verify0", "verify1", "app"} =>
    /\ CrcOk(flash["bootinfo"])
    /\ flash["bootinfo"].apps \in agreed

(* Without a boot command from the host, control passes to a partition     *)
(* only when it holds a whole image with every byte as sent.               *)
AutoBootRunsWholeImage ==
  [][pc = "select" /\ pc' \in {"verify0", "hung"} =>
       pc' = "verify0" /\ IsFull(approm[running'])]_vars

(* While no context store is pending after a commit, both copies and RAM   *)
(* hold the same table (update_bootinfo in bootloader/main.c).             *)
CommitReplicated ==
  pc = "loop" /\ ~Busy /\ area = BackupArea /\ ~inprog =>
    \A a \in InfoAreas : flash[a] = ram

(* The table a boot would recover now, and the partitions it would accept. *)
TableInForce ==
  IF CrcOk(flash["bootinfo"]) THEN flash["bootinfo"].apps
  ELSE Loaded(flash["bootinfob"]).apps
Fit(p) == IsFull(approm[p]) /\ TableInForce[p] = approm[p]

(* A boot that found a valid partition still has one it would accept, in   *)
(* any number of flash attempts, should power fail now (the choice of the   *)
(* partition to write in bootloader/main.c).  "it's not acceptable that a  *)
(* failed update of faulty firmware can cause the system to not boot"      *)
(* (src/bootloader/README.md:18).                                          *)
LastGoodImageKept ==
  pc = "loop" /\ hadGood => \E p \in Parts : Fit(p)

(* The same for a device that was never cut off in the middle of a commit: *)
(* neither a refused or abandoned transfer nor a sequence of updates gives *)
(* the last good image up.  With a power loss it does not hold (main.c:152).*)
LastGoodWithoutLoss == powerLosses = 0 => LastGoodImageKept

(* A host can reach the device: the command loop or a running application.*)
Serving == pc \in {"loop", "app"} /\ ~Busy

(* The stored context vouches for a partition that holds no whole image.   *)
Misled ==
  \E p \in Parts : /\ CrcOk(flash["bootinfo"])
                   /\ flash["bootinfo"].apps[p] = approm[p]
                   /\ ~IsFull(approm[p])

(* Whatever was transferred, abandoned, selected and booted, the device    *)
(* always comes back to a state in which a host can reach it.  "it's not   *)
(* acceptable that a failed update of faulty firmware can cause the system *)
(* to not boot" (src/bootloader/README.md:18).  Not kept: an application   *)
(* may vouch for a partial image in the other partition.                   *)
AlwaysServes == []<>Serving

(* The same, for as long as the stored context vouches for whole images:   *)
(* the watchdog ends an application that never comes up, and the validation *)
(* of main.c:322 then sends the device to the command loop.                *)
ServesUnlessMisled == []<>(Serving \/ Misled)

(* "it contains the CRC that was received from the hostmachine when the    *)
(* application was flashed" (src/bootloader/README.md:96).  Not kept once   *)
(* the host picks partitions ("setrom"): the crc of a refused image stays  *)
(* in RAM (commp.c:296) and goes with the next commit of the other one.    *)
StoredCrcFromHost ==
  \A a \in InfoAreas, p \in Parts :
    CrcOk(flash[a]) /\ flash[a].apps[p] \in Contents => IsFull(flash[a].apps[p])

=============================================================================
