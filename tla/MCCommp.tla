------------------------------- MODULE MCCommp -------------------------------
(***************************************************************************)
(* Instances of Commp: two images of two blocks, the second one shorter,   *)
(* for each of a ROM and an SPI partition.                                 *)
(***************************************************************************)
EXTENDS Commp, TLC

(* Images are interchangeable: no action or property names one of them.    *)
(* Used by the run without a liveness property.                            *)
ImageSymmetry == Permutations(RomImages) \cup Permutations(SpiImages)

=============================================================================
