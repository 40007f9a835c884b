------------------------------ MODULE MCSeller ------------------------------
(***************************************************************************)
(* Instances of SellerRuntime for TLC.                                     *)
(***************************************************************************)
EXTENDS SellerRuntime, TLC

CONSTANTS r1, r2, r3, loop, http

\* r1 and r3 have the same priority: only their names tell them apart.
SamePriority == Permutations({r1, r3})
=============================================================================
