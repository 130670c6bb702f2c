---------------------------- MODULE MCMainCpuLink ----------------------------
(***************************************************************************)
(* Instances of MainCpuLink for TLC: messages with the addresses, commands *)
(* and identifiers of the code.                                            *)
(***************************************************************************)
EXTENDS MainCpuLink

Request(r) == <<16, 17, 48, r>>
Reset == <<16, 17, 49, 1>>

(* Writes of EDID 2 and 3 inside their blocks, one from the later half of  *)
(* EDID 2 into EDID 3, one of DPCD 2, which is kept where EDID 2 is, one   *)
(* that carries fewer bytes than it says, one that leaves its structure,   *)
(* one too long for the buffer, and one of each of the other commands.     *)
MCBlocks ==
  {<<16, 25, 34, 0, 2, 128, 254>>, <<16, 25, 35, 0, 1, 255>>,
   <<16, 25, 34, 1, 3, 8, 8, 8>>, <<16, 25, 37, 0, 1, 6>>, <<16, 25, 34, 0, 3, 5>>,
   <<16, 25, 35, 1, 3, 7, 7, 7>>, <<16, 24, 34, 0, 2>>,
   <<16, 24, 34, 0, 2, 0, 0, 0, 0>>, <<16, 25, 36, 0, 1, 9>>}

MCRegisters ==
  {Request(3), Request(1), Reset, <<16, 16, 48>>, <<16, 17, 33, 0>>,
   <<16, 20, 170>>, <<16, 21, 170, 1, 2, 3, 4>>, <<16, 99, 0>>}

MCMessages == MCBlocks \cup MCRegisters

MCSwitches == {Request(3), Reset}

(* Acknowledged writes that overlap one of another block.                  *)
MCOverlaps == {<<16, 25, 34, 0, 1, 7>>, <<16, 25, 37, 0, 1, 6>>,
               <<16, 25, 34, 1, 3, 8, 8, 8>>, <<16, 25, 35, 0, 1, 5>>}

=============================================================================
