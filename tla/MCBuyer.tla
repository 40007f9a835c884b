------------------------------- MODULE MCBuyer -------------------------------
(***************************************************************************)
(* Instances of BuyerController for TLC.                                   *)
(***************************************************************************)
EXTENDS BuyerController, TLC

CONSTANTS r1, r2, s1, s2, loop, http

SlotSymmetry == Permutations(Slots)
=============================================================================
