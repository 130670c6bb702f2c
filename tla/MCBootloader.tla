---------------------------- MODULE MCBootloader ----------------------------
(***************************************************************************)
(* Instances of Bootloader for TLC: two images, so that an old and a new   *)
(* image of a partition differ, and environments of growing hostility.     *)
(***************************************************************************)
EXTENDS Bootloader, TLC

(* Images are interchangeable: no action or property names one of them.    *)
ImageSymmetry == Permutations(Images)

=============================================================================
