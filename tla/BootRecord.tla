----------------------------- MODULE BootRecord -----------------------------
(***************************************************************************)
(* The boot context of the dual-partition bootloader: what the two flash   *)
(* areas "bootinfo" and "bootinfob" can hold, what a partition can hold,   *)
(* and the helpers of bootloader_helpers.c that read them.                 *)
(*                                                                         *)
(* A CRC is modelled as the content it was computed over: two contents     *)
(* have the same CRC exactly when they are the same content.               *)
(***************************************************************************)
EXTENDS Integers, Sequences

CONSTANTS
  Images,    \* application images a host may flash
  NBlocks,   \* COMMP data blocks in an image
  Magic,     \* BOOTLOADER_MAGIC_CRC: the entry of a partition never flashed
  Junk,      \* any entry read from a half-written context
  Blank,     \* a flash area that verifies as erased
  Torn       \* a flash area whose erase or program was cut short

ASSUME NBlocksAssumption == NBlocks \in Nat \ {0}

Parts == {0, 1}                       \* APP_PARTITION_0, APP_PARTITION_1
NoPart == -1                          \* APP_PARTITION_NONE
Other(p) == 1 - p

InfoAreas == {"bootinfo", "bootinfob"}
BackupArea == 2                       \* sdriver left on bootinfob, no partition

(* Content of an application partition: how many blocks of which image     *)
(* were programmed since the last erase, and whether each arrived intact.  *)
NoImage == "none"
Erased == [img |-> NoImage, n |-> 0, intact |-> TRUE]
Programmed == [img : Images, n : 1..NBlocks, intact : BOOLEAN]
Contents == Programmed \cup {Erased}
Full(i) == [img |-> i, n |-> NBlocks, intact |-> TRUE]
IsFull(c) == \E i \in Images : c = Full(i)

(* app_ctxt_t.crc, and bootloader_ctxt_t without its own crc: a context in *)
(* flash has a matching crc unless the area is Blank or Torn.              *)
Entries == Contents \cup {Magic, Junk}
Ctxts == [apps : [Parts -> Entries], part : Parts \cup {NoPart}]
Infos == Ctxts \cup {Blank, Torn}

ASSUME MarkersAssumption ==
  /\ Magic \notin Contents
  /\ Junk \notin Contents
  /\ Magic # Junk
  /\ Blank # Torn
  /\ Blank \notin Ctxts
  /\ Torn \notin Ctxts

InitCtxt == [apps |-> [p \in Parts |-> Magic], part |-> NoPart]
JunkCtxt == [apps |-> [p \in Parts |-> Junk], part |-> NoPart]

(* _bootloader_verify_bootinfo_crc; the crc spans apps[] only.             *)
CrcOk(v) == v \notin {Blank, Torn}

(* What storage_read_data leaves in RAM, whether or not the crc matches.   *)
Loaded(v) == IF CrcOk(v) THEN v ELSE JunkCtxt

(* _bootloader_ctxt_equal compares apps[] only, never part.                *)
CtxtEqual(a, b) == a.apps = b.apps

(* _bootloader_ctxt_validate_partition: 0 unused, 1 crc matches, -1 not.   *)
ValidatePartition(c, p, content) ==
  IF c.apps[p] = Magic THEN 0
  ELSE IF c.apps[p] = content THEN 1
  ELSE -1

(* Fault: the other partition taken as the next one, without wrapping.     *)
SwapPartitions_NoWrap(c) == [c EXCEPT !.part = @ + 1]

(* _bootloader_swap_partitions                                             *)
SwapPartitions(c) == [c EXCEPT !.part = IF @ = 0 THEN 1 ELSE 0]

=============================================================================
