------------------------------ MODULE MCPlatform ------------------------------
(***************************************************************************)
(* Instances of PlatformRequests for TLC.                                  *)
(***************************************************************************)
EXTENDS PlatformRequests, TLC

CONSTANTS r1, r2, b1, b2, a1, a2, h1, h2, h3

Interchangeable == Permutations(Requests) \cup Permutations(Buyers) \cup Permutations(Handlers)
=============================================================================
