------------------------------ MODULE MCI2cFlash ------------------------------
(***************************************************************************)
(* Instances of I2cFlash for TLC.                                          *)
(***************************************************************************)
EXTENDS I2cFlash

MCEntries == FlashMessages
MCSpan == [c \in EraseCmds |-> IF c = "BER64" THEN 2 ELSE 1]
MCImages == {[p \in ImagePages |-> IF p = 0 THEN "d1" ELSE "d2"]}
MCSingles == {<<CmdChunk("CER")>>, <<CmdChunk("DP")>>, <<CmdChunk("SE")>>,
              <<RegChunk("wdogOff")>>}

=============================================================================
